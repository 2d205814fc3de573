CONSTANTS
  LastPart = 2
  Ids <- MCIds
  Address <- MCAddress
  Zero = "zero"
  Fosc = 32000000
  DefaultId = 127
  DefaultRate = 500
  NodeIds = {0, 7, 255}
  Indexes = {4, 5, 9, 10}
  Delays = {0, 1}
  Torn = Torn
SPECIFICATION Spec
INVARIANTS TypeOK AlwaysStarts NotStranded
PROPERTIES SelectedByAll
CHECK_DEADLOCK TRUE
