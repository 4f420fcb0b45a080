CONSTANTS
  Junk = Junk
  HEADER_SIZE = 2
  InitialCapacity = 5
  Payload = {2, 5}
  FirstPayload = {2, 5}
  MaxFrames = 3
  MaxConnections = 1
  Role = "server"
SPECIFICATION Spec
INVARIANT InOrder
CHECK_DEADLOCK FALSE
