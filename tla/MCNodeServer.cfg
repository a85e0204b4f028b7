SPECIFICATION FairSpec
CONSTANTS
  w1 = w1
  w2 = w2
  w3 = w3
  p1 = p1
  p2 = p2
  None = None
  Workers <- TwoWorkers
  Pods <- OnePod
  MaxFaults = 2
  MaxCrashes = 1
  MaxTimeouts = 1
INVARIANTS
  TypeOK
  DataIsSafe
  AckedIsMounted
  TornDown
PROPERTIES
  CallsAreAcked
