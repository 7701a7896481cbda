SPECIFICATION FairAnySpec
CONSTANTS
  Kinds = {"lru", "fifo"}
  SizeAt <- MCSizeAt
  Targets <- MCTargets
  Branches = {2, 12}
  NumBlocks = 5
  BlockWords = 2
  MaxMethods = 3
  FetchAhead = 1
  BundleWords = {1}
  FlushPC = 10
  UnsignedSpan = 64
INVARIANTS WithinLimits ResidentAreLatest CacheFollowsPipeline AnyCallsRecorded
PROPERTIES EvictsAsFewAsNeeded StackStallsEnd TimersKeepTime StreamsKept AccessesMapped
CHECK_DEADLOCK FALSE
