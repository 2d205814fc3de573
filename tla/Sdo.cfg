CONSTANTS
  NumTransfers = 2
  MaxLen = 4
  BufferSize = 3
  MaxFaults = 3
  None = None
SPECIFICATION SdoFairSpec
INVARIANTS SdoTypeOK WholeWrites ConfirmedIsTrue
PROPERTIES Succeeds
CHECK_DEADLOCK TRUE
