SPECIFICATION SpecCrop
CONSTANTS
  ViewW = 7
  ViewH = 6
  BmpW = 5
  BmpH = 6
  MinCrop = 2
  Reach = 1
  Step = 2
  Aspects <- MCAspects
  Sources <- MCSources
  Bits = 6
  MaxResults <- MCMaxResults
CHECK_DEADLOCK FALSE
INVARIANTS InsideImage RatioKept DragThrowsOnlyIfCramped CropInSource LargestSample
PROPERTIES Returns
