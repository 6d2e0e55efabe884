SPECIFICATION FairSpec
CONSTANTS
  Alert = {a, b}
  RequestIDs = {1, 2, 3}
  Days = 1
  ClockReadsAgree = TRUE
  Scenarios <- OpsScenarios
CHECK_DEADLOCK FALSE
INVARIANT TypeOK
INVARIANT RecordedOnce
INVARIANT AnsweredIsKept
INVARIANT StopsOnlyOnKnownCauses
PROPERTY LandedIsSeen
PROPERTY IconsCatchUp
