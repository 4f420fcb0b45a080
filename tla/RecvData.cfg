CONSTANTS
  Junk = Junk
  HEADER_SIZE = 2
  InitialCapacity = 5
  Payload = {0, 3}
  FirstPayload = {1, 5}
  MaxFrames = 3
  MaxConnections = 2
  Role = "server"
SPECIFICATION FairSpec
INVARIANTS TypeOK AssertFreeSpace NothingHeldBack
PROPERTIES IsChannel AllDelivered
CHECK_DEADLOCK FALSE
