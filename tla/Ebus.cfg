SPECIFICATION Spec
CONSTANTS
  NumPackets = 2
  FifoSize = 3
  HdrSize = 2
INVARIANTS Unstuck RightRequest
PROPERTIES TxExclusive StartsOnSyn
