SPECIFICATION Spec
CONSTANTS
  PageSize = 16
  HeaderSize = 4
  CtlSize = 1
  CacheSize = 5
  ColourSize = 1
  MaxSlack = 4
  MaxOrder = 2
  Frames = 9
  TakenFrames = {0}
  Sizes = {2, 8, 16}
  MaxLive = 3
INVARIANTS SlabInv ObjectsApart ListsExact
