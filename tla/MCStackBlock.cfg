SPECIFICATION AnySpec
CONSTANTS
  Kind = "block"
  NumBlocks = 2
  TransferWords = 1
  AddrSpace = 16
  StackBase = 4
  MaxAddr = 4
  Val = {0, 1}
  Zero = 0
  Undef = Undef
  MaxSize = 2
  Ops <- AllOps
  Predicated = FALSE
  Adjacent = TRUE
  MaxLatency = 1
  MaxFetch = 1
INVARIANTS TypeOK WithinCapacity PointersMatchContent TransferFitsBuffer
PROPERTIES RefinesProgramStack
