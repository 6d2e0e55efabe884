SPECIFICATION FairSpec
CONSTANTS
  Owner = {a}
  None = None
  Caller = {c1}
  Request = {r1, r2}
  MaxOps = 2
  MaxTotal = 3
  Backlog = {"empty"}
  SubmitsInTime = TRUE
  Scenarios <- LiveScenarios
CHECK_DEADLOCK FALSE
PROPERTY OperationsEnd
PROPERTY DrainEnds
PROPERTY RefsCatchUp
