CONSTANTS
  Count = 2
  master = master
  None = None
  Nodes <- MCNodes
  Defaults <- MCDefaults
  ConsumerTime = 3
  ProducerTimes = {0, 2}
  FirstTime = 1
  MaxStep = 1
SPECIFICATION NmtFairSpec
INVARIANTS SilentStops
PROPERTIES StateTold Recovers
