SPECIFICATION FairSpec
CONSTANTS
  c1 = c1
  c2 = c2
  c3 = c3
  i1 = i1
  i2 = i2
  m1 = m1
  m2 = m2
  m3 = m3
  m4 = m4
  m5 = m5
  None = None
  Clients <- MCClients
  Ids <- MCIds
  Mutexes <- MCMutexes
INVARIANTS
  MutualExclusion
  NoFalseSharing
PROPERTIES
  LockReturns
  ImplementsKeyedLock
