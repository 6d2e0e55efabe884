SPECIFICATION FairSpec
CONSTANTS
  Node = {1, 2, 3, 4}
  Initially = {1, 2, 3}
  Scenarios <- NodeScenarios
CHECK_DEADLOCK FALSE
INVARIANT TypeOK
INVARIANT ReplicasAccounted
PROPERTY NoBusyNodeLost
PROPERTY CordonedNodesGo
