CONSTANTS
  Conns = {c1, c2, c3}
  SlowReaders = {c1}
  Ids = {i1, i2}
  NoId = NoId
  MaxSignals = 2
  WaitsForConnections = TRUE
  Peers = {"cli", "program"}
  Answerers = {"daemon", "other"}
  None = None
  Bytes = {a, b}
  NL = NL
  TooLarge = TooLarge
  MaxFrame = 2
  MaxRead = 4
  MaxStream = 6
SPECIFICATION MCSpec
INVARIANTS StoppedIsClean IdsExclusive RequestArrivesIntact ExitMeansSuccess FragmentationIrrelevant
PROPERTIES WorkflowsGetGrace ShutdownEnds CommandEnds
CHECK_DEADLOCK FALSE
