SPECIFICATION FairSpec
CONSTANTS
  nodeA = nodeA
  nodeB = nodeB
  a1 = a1
  a2 = a2
  b1 = b1
  None = None
  MaxInt = 127
  K = 2
  Nodes <- TwoNodes
  Stores <- ThreeStores
  StoresOf <- Layout
  ClusterSize <- Sizes
  Clusters <- Totals
  Wanted <- Requests
  SnapshotSizes <- SnapshotBytes
  MaxFaults = 1
  MaxMoves = 1
INVARIANTS
  TypeOK
  CapacityIsHonest
  PickHasRoom
  FailureMeansFull
PROPERTIES
  FitsIsServed
