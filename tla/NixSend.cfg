CONSTANTS
  User = {u1, u2}
  Loop = loop
  NoThread = none
  FrameLen = {1, 3}
  SockCap = 2
  MaxFrames = 3
  MaxInbound = 1
  Chatty = FALSE
  Roles = {"client", "server"}
SPECIFICATION FairSpec
INVARIANTS TypeOK WireInOrder NothingLost WillBeWoken
PROPERTIES SendReturns SentLater
CHECK_DEADLOCK FALSE
