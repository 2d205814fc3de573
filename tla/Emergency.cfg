CONSTANTS
  OtherBits = {"HEARTBEAT_CONSUMER"}
  FifoSize = 3
  Counters <- MCCounters
SPECIFICATION FairSpec
INVARIANTS Informed
PROPERTIES Told
