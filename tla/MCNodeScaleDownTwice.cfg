SPECIFICATION Spec
CONSTANTS
  Node = {1, 2, 3, 4}
  Initially = {1, 2, 3}
  Scenarios <- TwiceScenarios
CHECK_DEADLOCK FALSE
INVARIANT MarkedMachinesSuffice
