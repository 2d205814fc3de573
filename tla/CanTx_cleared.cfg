SPECIFICATION Spec
CONSTANTS
  TxSize = 3
  SyncBuffers <- MCSyncBuffers
  NumMailboxes = 2
  FifoDepth = 1
  CountMod = 9
  MaxTxCount = 7
  MaxSend = 2
INVARIANT OnlySyncCleared
CHECK_DEADLOCK FALSE
