SPECIFICATION Spec
CONSTANTS
  kmap = kmap
  arena = arena
  Arena = {kmap, arena}
  Caller = {c1, c2}
  Size <- MCSize
  Base <- MCBase
  Priority <- MCPriority
  Bitmaps <- MCBitmaps
  MaxCount = 3
INVARIANTS IInv Exclusive FlagsMatch NoneLost
PROPERTIES ContiguousResult ShortMeansEmpty Implements CallsEnd
