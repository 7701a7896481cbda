SPECIFICATION Spec
CONSTANTS
  Kind = "lblock"
  NumBlocks = 2
  TransferWords = 1
  AddrSpace = 16
  StackBase = 4
  MaxAddr = 4
  Val = {0, 1}
  Zero = 0
  Undef = Undef
  MaxSize = 2
  Ops = {"reserve", "free", "ensure", "spill", "load", "store", "nop"}
  Predicated = FALSE
  Adjacent = TRUE
  MaxLatency = 1
  MaxFetch = 1
INVARIANTS CoherentAboveLazyPointer
