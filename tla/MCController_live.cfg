SPECIFICATION FairSpec
CONSTANTS
  w1 = w1
  w2 = w2
  w3 = w3
  n1 = n1
  n2 = n2
  nodeA = nodeA
  nodeB = nodeB
  sA = sA
  sB = sB
  l1 = l1
  l2 = l2
  l3 = l3
  None = None
  Nodes <- OneNode
  Stores <- OneStore
  NodeOf <- OneStoreOf
  Workers <- TwoWorkers
  Names <- OneName
  Lvols <- ThreeLvols
  MaxFaults = 1
  MaxCrashes = 1
  MaxTimeouts = 1
INVARIANTS
  AckedIsUsable
PROPERTIES
  CallsAreAcked
