SPECIFICATION Spec
CONSTANTS
  Kind = "tdm"
  BurstSize = 2
  PageSize = 4
  TicksPerBurst = 3
  ReadDelay = 1
  Cores = 3
  CpuId = 2
  RefreshTicks = 1
  UnsignedSpan = 64
  Posted = 0
  Slots = 2
  Counters = {0}
  DataAccesses <- ApartAccesses
  MaxAddr = 6
  Val = {0, 1}
  Zero = 0
  NoAccess = NoAccess
  InCache = InCache
  NoResult = NoResult
PROPERTIES WaitsBelowRound
