CONSTANTS
  MaxConnections = 3
SPECIFICATION FairSpec
INVARIANTS TypeOK Served WaitsForThread
PROPERTIES DisconnectReturns HearsOfEnd
CHECK_DEADLOCK FALSE
