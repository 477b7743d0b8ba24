SPECIFICATION Spec
CONSTANTS
  E = 6
  Dirs = {1}
  Frames32 = 20
  NFrames = 18
  Regions <- MCRegionsLow
  Reserved = {4, 5, 6}
  MapFrames = {3}
  WindowPage <- MCWindow
  WindowLen = 12
  VirtPage <- MCVirt
  LowPages = 1
  Segments <- MCApart
  Structs = 10
  StackPage = 11
  TlbSize = 1
  None = None
  Junk = Junk
  New = New
INVARIANT SlabAddress
