CONSTANTS
  MaxConnections = 1
SPECIFICATION Spec
INVARIANT DisconnectWaits
CHECK_DEADLOCK FALSE
