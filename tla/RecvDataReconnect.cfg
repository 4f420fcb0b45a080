CONSTANTS
  Junk = Junk
  HEADER_SIZE = 2
  InitialCapacity = 5
  Payload = {1, 3}
  FirstPayload = {1, 3}
  MaxFrames = 3
  MaxConnections = 2
  Role = "client"
SPECIFICATION MemorySpec
INVARIANT InOrder
CHECK_DEADLOCK FALSE
