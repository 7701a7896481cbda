SPECIFICATION AnySpec
CONSTANTS
  Width = 2
  NumGPR = 3
  NumPRR = 2
  NumWords = 1
  Image = {2}
  Programs <- MCPrograms
  Bundles <- MCBundles
  ChecksExact = TRUE
  NoBundle = NoBundle
  NoLabel = NoLabel
  NotSet = NotSet
  NoSymbol = NoSymbol
  Systems <- MCSystems
  BlockWords = 2
  NumBlocks = 6
  Associativity = 2
  NumIndexes = 2
  Slots = 2
  Counters = {0, 3, 7}
  Loads <- MCLoads
  Stores <- MCStores
  SpmWords = 1
  Val = {0, 1}
  Zero = 0
  NoAccess = NoAccess
  NoResult = NoResult
  FlushData = FlushData
  FlushInstr = FlushInstr
INVARIANTS DataHoldsMostRecent BypassesFree IllegalJustly ComputesRight DecodesWhatWasEncoded ListsAsWritten PasimBuiltAsAsked
PROPERTIES DataRefinesProgramMemory RefinesBundles ProgramLoadedAsLinked
CHECK_DEADLOCK FALSE
