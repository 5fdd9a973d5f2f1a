SPECIFICATION PartsSpec
CONSTANTS
  kByte = 2
  kSizes = 8
  MaxLength = 7
  Recordings <- MCRecordings
  Restarts <- MCRestarts
  kRadix = 2
  MaxMessages = 1
  Refs = {r1, r2, r3}
  kSideBit = 4
  MaxWide = 2
  kSecond = 10
  Rate = 3
  kSleepThreshold = 1
  MaxPackets = 5
  MaxClock = 16
  kTicks = 3
  Window = 3
  MaxTime = 24
  Capacity = 4
  Ticks = {1, 2, 5}
  Percentiles <- MCPercentiles
  MaxCalls = 6
  Senders = {"sender"}
  Receivers = {"receiver"}
  MaxBuilt = 2
  Counts = {0, 3}
  NoGroup = NoGroup
  Groups <- MCGroups
  Addresses <- MCAddresses
  Payloads <- MCPayloads
  kMaxGaps = 1
  kEndOfSession = 3
  kSequences = 5
  Sessions = {"one", "two"}
  Sequences = {0, 2, 3, 4}
  MessageCounts = {0, 1, 2, 3}
  MaxArrivals = 4
CHECK_DEADLOCK FALSE
INVARIANTS ReadsBlocks ReadsWholeMessages EachByteOnce CleanReadsItsOwn WordsTellTheOrders NeverTooFast WaitsOnlyWhenCaughtUp NeverFlatters PercentilesAreRanks EachSocketOneOwner RecordsDissect OnceInAStretch GapsWithinSessions
