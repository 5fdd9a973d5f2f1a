SPECIFICATION FeedSpec
CONSTANTS
  Sizes <- MCSizes
  MaxPayload = 16
  PacketLimits = {0, 2}
  kEndOfSession = 4
  kMaxGaps = 1
  kSequences = 100
  kBufferSize = 32
  Strays <- MCStrays
  MaxExtra = 1
CHECK_DEADLOCK FALSE
PROPERTIES MalformedChangesNothing
