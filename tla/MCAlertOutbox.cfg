SPECIFICATION FairSpec
CONSTANTS
  Group = {g}
  Members = 2
  MaxRendered = 1
  Scenarios <- BoundedScenarios
INVARIANT TypeOK
INVARIANT CardQueued
INVARIANT NoDanglingDependent
INVARIANT CardsCurrent
INVARIANT ThreadsInOrder
INVARIANT OneCardPerFault
INVARIANT RenderableWork
CHECK_DEADLOCK FALSE
PROPERTY EventuallySettled
