CONSTANTS
  Conns = {c1, c2}
  SlowReaders = {}
  Ids = {i1, i2}
  NoId = NoId
  MaxSignals = 0
  WaitsForConnections = TRUE
SPECIFICATION FairSpec
PROPERTIES ShutdownEnds
CHECK_DEADLOCK FALSE
