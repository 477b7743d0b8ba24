SPECIFICATION Spec
CONSTANTS
  PageSize = 16
  HeaderSize = 4
  CtlSize = 1
  CacheSize = 5
  ColourSize = 1
  MaxSlack = 4
  MaxOrder = 2
  Frames = 7
  TakenFrames = {0}
  Sizes = {4}
  MaxLive = 3
PROPERTY FullBecomesPartial
