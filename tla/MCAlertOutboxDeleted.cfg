SPECIFICATION Spec
CONSTANTS
  Group = {g}
  Members = 2
  MaxRendered = 1
  Scenarios <- DeletionScenarios
PROPERTY DetachedCloseOutDropped
CHECK_DEADLOCK FALSE
