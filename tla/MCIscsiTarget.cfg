SPECIFICATION FairSpec
CONSTANTS
  n1 = n1
  n2 = n2
  None = None
  Names <- TwoNames
  MaxLvols = 6
  MaxFaults = 2
INVARIANTS
  TypeOK
  RacesAreHarmless
  AckedIsReachable
  NoTargetNodeLeft
PROPERTIES
  CallsAreAcked
