SPECIFICATION FairSpec
CONSTANTS
  app1 = app1  app2 = app2  alienApp = alienApp  ldr = ldr  alienLdr = alienLdr
  n1 = n1  n2 = n2  xff = xff  zero = zero  own = own  other = other
  Torn = Torn
  Images <- MCImages
  Prod <- MCProd
  ProdName <- MCProdName
  ProdId <- MCProdId
  Names <- MCNames
  ErasedName = xff
  NoName = zero
  PreldrProd = own
  PreldrLocked = FALSE
INVARIANTS RunsWhole NeverBricked UpdateWindow
PROPERTIES NoStartOfTorn Settles
CHECK_DEADLOCK FALSE
