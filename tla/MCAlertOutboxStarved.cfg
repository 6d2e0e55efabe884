SPECIFICATION FairSpec
CONSTANTS
  Group = {g}
  Members = 2
  MaxRendered = 1
  Scenarios <- ReactionScenarios
PROPERTY CloseOutsNotStarved
CHECK_DEADLOCK FALSE
