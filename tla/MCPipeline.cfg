SPECIFICATION AnySpec
CONSTANTS
  AddrSpace = 5
  Entry = 1
  Handler = 4
  StatusValues = {3}
  Ops <- AllOps
  Programs <- AllPrograms
  Methods = {3}
  Branches = {2}
  HaltingSlots = FALSE
  MaxNesting = 2
  StatusSpan = 256
  NoIsr = 0
INVARIANTS StatusHoldsModes AlignedWithinCapacity AllPointersMatchContent LazyCoherent
PROPERTIES AllRefineProgramStack RefinesProgramOrder FlushedInTimeHasNoEffect
CHECK_DEADLOCK FALSE
