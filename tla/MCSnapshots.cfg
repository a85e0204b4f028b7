SPECIFICATION FairSpec
CONSTANTS
  w1 = w1
  w2 = w2
  s1 = s1
  s2 = s2
  c1 = c1
  None = None
  Workers <- TwoWorkers
  SnapNames <- OneSnapshot
  CloneNames <- OneClone
  MaxLvols = 4
  MaxWrites = 1
  MaxFaults = 1
  MaxTimeouts = 1
INVARIANTS
  TypeOK
  RestoresWhatWasSnapshotted
  AckedExists
  NoOrphan
  DeletedIsGone
PROPERTIES
  CreationIsAcked
  SnapshotDeletionEnds
