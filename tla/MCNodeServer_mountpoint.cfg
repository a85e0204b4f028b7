SPECIFICATION Spec
CONSTANTS
  w1 = w1
  w2 = w2
  w3 = w3
  p1 = p1
  p2 = p2
  None = None
  Workers <- TwoWorkers
  Pods <- OnePod
  MaxFaults = 1
  MaxCrashes = 0
  MaxTimeouts = 0
SYMMETRY Symmetric
INVARIANTS
  MountPointMeansStaged
