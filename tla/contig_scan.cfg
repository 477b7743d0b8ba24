SPECIFICATION ScanSpec
CONSTANTS
  Listed = 2
  Sizes <- MCSizes
  MaxCnt = 4
  Unset = 2147483647
INVARIANTS ScanInv FirstFit
PROPERTY Ends
