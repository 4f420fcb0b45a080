CONSTANTS
  Junk = Junk
  HEADER_SIZE = 1
  InitialCapacity = 3
  Payload = {0, 2}
  FirstPayload = {1, 3}
  MaxFrames = 2
  MaxConnections = 1
  Role = "client"
  User = {u}
  SenderLoop = loop
  NoThread = nobody
  SockCap = 2
  MaxInbound = 1
  Chatty = FALSE
  SenderRoles = {"client", "server"}
SPECIFICATION LinkSpec
INVARIANTS TypeOK InOrder AssertFreeSpace NothingHeldBack QuietMeansDelivered
PROPERTY IsChannel
CHECK_DEADLOCK FALSE
