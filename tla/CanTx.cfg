SPECIFICATION FairSpec
CONSTANTS
  TxSize = 3
  SyncBuffers <- MCSyncBuffers
  NumMailboxes = 2
  FifoDepth = 1
  CountMod = 9
  MaxTxCount = 7
  MaxSend = 2
INVARIANTS NoStall FullIsCounted
PROPERTIES StampsInOrder LatestReachesBus
CHECK_DEADLOCK FALSE
