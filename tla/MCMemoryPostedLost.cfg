SPECIFICATION Spec
CONSTANTS
  Kind = "fixed"
  BurstSize = 2
  PageSize = 2
  TicksPerBurst = 2
  ReadDelay = 1
  Cores = 1
  CpuId = 0
  RefreshTicks = 2
  UnsignedSpan = 64
  Posted = 1
  Slots = 2
  Counters = {0}
  DataAccesses <- ApartAccesses
  MaxAddr = 6
  Val = {0, 1}
  Zero = 0
  NoAccess = NoAccess
  InCache = InCache
  NoResult = NoResult
PROPERTIES RefinesProgramMemory
