SPECIFICATION Spec
CONSTANTS
  w1 = w1
  w2 = w2
  w3 = w3
  n1 = n1
  n2 = n2
  nodeA = nodeA
  nodeB = nodeB
  sA = sA
  sB = sB
  l1 = l1
  l2 = l2
  l3 = l3
  None = None
  Nodes <- TwoNodes
  Stores <- TwoStores
  NodeOf <- TwoStoresOf
  Workers <- TwoWorkers
  Names <- OneName
  Lvols <- TwoLvols
  MaxFaults = 2
  MaxCrashes = 0
  MaxTimeouts = 0
SYMMETRY Symmetric
INVARIANTS
  NoDuplicate
