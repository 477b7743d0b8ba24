SPECIFICATION Spec
CONSTANTS
  E = 6
  Dirs = {1, 2}
  Frames32 = 20
  NFrames = 19
  Regions <- MCRegions
  Reserved = {4, 5, 6}
  MapFrames = {0, 3}
  WindowPage <- MCWindow
  WindowLen = 10
  VirtPage <- MCVirt
  LowPages = 1
  Segments <- MCSegments
  Structs = 10
  StackPage = 11
  TlbSize = 2
  None = None
  Junk = Junk
  New = New
INVARIANTS TablesInv WalkExact TlbCoherent WindowRight
