SPECIFICATION ReplaySpec
CONSTANTS
  kRadix = 2
  MaxMessages = 1
CHECK_DEADLOCK FALSE
INVARIANTS ReadsWhatWasFramed
