SPECIFICATION FeedSpec
CONSTANTS
  Sizes <- MCSizes
  MaxPayload = 16
  PacketLimits = {0, 2}
  kEndOfSession = 4
  kMaxGaps = 1
  kSequences = 100
  kBufferSize = 32
  Strays <- MCStrays
  MaxExtra = 2
CHECK_DEADLOCK FALSE
INVARIANTS ReplayAddsUp PacketsWellFormed DeliveredOnceInOrder NoSilentLoss DropsLookLikeLoss StopsPromptly
PROPERTIES ImplementsPromise
