SPECIFICATION FairSpec
CONSTANTS
  PR = {p1, p2}
  Configs <- RetesterConfigs
  MaxHead = 2
  Scenarios <- RetesterScenarios
INVARIANT TypeOK
INVARIANT RetestsBounded
INVARIANT HoldIsEarned
PROPERTY FailingIsAnswered
