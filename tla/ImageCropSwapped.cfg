SPECIFICATION SpecCrop
CONSTANTS
  ViewW = 7
  ViewH = 6
  BmpW = 5
  BmpH = 6
  MinCrop = 2
  Reach = 1
  Step = 2
  Aspects <- MCAspects
  Sources <- MCSources
  Bits = 6
  MaxResults <- MCPositive
CHECK_DEADLOCK FALSE
INVARIANT KeepsRequestedSize
