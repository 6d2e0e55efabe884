SPECIFICATION Spec
CONSTANTS
  Owner = {a, b}
  None = None
  Caller = {c1, c2}
  Request = {r1, r2, r3}
  MaxOps = 3
  MaxTotal = 5
  Backlog = {"owed"}
  SubmitsInTime = TRUE
  Scenarios <- SafetyScenarios
SYMMETRY Symmetry
CHECK_DEADLOCK FALSE
INVARIANT TypeOK
INVARIANT SubmittedOnce
INVARIANT FailedLeavesNothing
INVARIANT LiveIsTracked
INVARIANT Registration
INVARIANT DrainedForGood
PROPERTY ReplacedOnlyWhenEstablished
