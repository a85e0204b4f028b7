SPECIFICATION FairSpec
CONSTANTS
  v1 = v1
  v2 = v2
  None = None
  Volumes <- TwoVolumes
  NumFunctions = 2
  Types <- AllTypes
  MaxFaults = 1
INVARIANTS
  TypeOK
  FunctionsAreExclusive
  RightDevice
  NothingLeft
PROPERTIES
  StageIsCompleted
