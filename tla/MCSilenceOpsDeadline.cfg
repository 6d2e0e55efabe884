SPECIFICATION Spec
CONSTANTS
  Owner = {a, b}
  None = None
  Caller = {c1, c2}
  Request = {r1, r2}
  MaxOps = 2
  MaxTotal = 4
  Backlog = {"empty"}
  SubmitsInTime = FALSE
  Scenarios <- SafetyScenarios
SYMMETRY Symmetry
CHECK_DEADLOCK FALSE
INVARIANT FailedLeavesNothing
