SPECIFICATION KernelSpec
CONSTANTS
  W = 4
  PageSize = 2
  PageBits = 16
  Maps <- MCMaps
  ModsEnds <- MCModsEnds
  Boots <- MCBoots
  Cpus <- MCCpus
  Processors <- MCProcessors
  Questions <- MCQuestions
  Raised <- MCRaised
  BiosPics <- MCBiosPics
  IRQ0 = 32
  ExtBase = 8
  MaxSupported = 2
  MaxSupportedExt = 10
  Tables <- MCTables
  Addrs <- MCAddrs
  KernelStart = 2
  Limit32 = 11
  KmallocPages = 8
  LoaderPages = 3
  KernelPages = 3
  MinMem = 2
  MaxWords = 3
INVARIANTS SearchesRight BitmapInv HandedOnce PoolIsRest PanicOnlyWhenFull ChosenKernel SymbolsRight FeaturesRight TrapInv Reported
PROPERTY SearchedWasFree
