SPECIFICATION Spec
CONSTANTS
  Alert = {a, b}
  RequestIDs = {1, 2, 3}
  Days = 1
  ClockReadsAgree = TRUE
  Scenarios <- OpsScenarios
CHECK_DEADLOCK FALSE
INVARIANT NeverBlindlyRetried
