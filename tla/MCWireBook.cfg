SPECIFICATION LiveWireSpec
CONSTANTS
  Span = 2
  NullRef = NullRef
  Sizes <- MCSizes
  File <- MCFile
  MaxPayload = 80
  PacketLimits = {0, 2}
  kEndOfSession = 4
  kMaxGaps = 1
  kSequences = 100
  kBufferSize = 110
  Strays <- MCStrays
  MaxExtra = 2
CHECK_DEADLOCK FALSE
INVARIANTS WireBookIsFileBook
PROPERTIES ImplementsLossyFile ReplayEnds
