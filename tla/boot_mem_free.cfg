SPECIFICATION Spec
CONSTANTS
  W = 4
  PageSize = 2
  PageBits = 16
  Cpus <- MCCpus
  ExtBase = 8
  MaxSupported = 2
  MaxSupportedExt = 10
  Maps <- MCMaps
  ModsEnds <- MCModsEnds
  KernelStart = 2
  Limit32 = 11
  KmallocPages = 8
  LoaderPages = 3
  KernelPages = 3
  MinMem = 2
  MaxWords = 3
PROPERTIES AllocatedWasFree
