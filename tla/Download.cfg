SPECIFICATION FairDownload
CONSTANTS
  NumPages = 4
  PageSize = 2
  FlashBase = 16
  AddrMod = 64
  Origin = 18
  End = 22
  NoAck = NoAck  FF = FF  Zero = Zero  Garbage = Garbage
  i1 = i1  i2 = i2  h1 = h1  h2 = h2  v = v
  Values <- MCValues
  Blocks <- MCBlocks
  Images <- MCImages
  Torn = Torn
  Content <- MCContent
  HeaderAt = 2
  Target = "APP"
  BlockSize = 1
INVARIANTS CleanSessionCompletes VerifiedIsWanted InBounds AckedDurable
PROPERTIES OutsideUntouched StoreSpec Completes
CHECK_DEADLOCK FALSE
