SPECIFICATION Spec
CONSTANTS
  w1 = w1
  w2 = w2
  w3 = w3
  n1 = n1
  n2 = n2
  nodeA = nodeA
  nodeB = nodeB
  sA = sA
  sB = sB
  l1 = l1
  l2 = l2
  l3 = l3
  None = None
  Nodes <- TwoNodes
  Stores <- TwoStores
  NodeOf <- TwoStoresOf
  Workers <- TwoWorkers
  Names <- TwoNames
  Lvols <- TwoLvols
  MaxFaults = 1
  MaxCrashes = 0
  MaxTimeouts = 2
SYMMETRY Symmetric
INVARIANTS
  AckedIsOfItsName
  TypeOK
  OneVolumePerName
  DeletedIsGone
  NoOrphanLvol
  ExportsMatchLvols
PROPERTIES
  UsesKeyedLock
