SPECIFICATION Spec
CONSTANTS
  Width = 4
  Height = 2
  Stop = 2
  Byte = 4
  Size = 2
  Alphabet <- MCAlphabet
  MaxPuts = 6
  Short = 8
  Int32 = 16
  Long = 64
  Widths <- MCWidths
  Args <- MCArgs
  ByteValues = 8
  WordBytes = 2
  Memories <- MCMemories
INVARIANTS ScreenInv OutExact LogIntact FormatsRight StringsRight
