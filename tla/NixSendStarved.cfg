CONSTANTS
  User = {u1}
  Loop = loop
  NoThread = none
  FrameLen = {3}
  SockCap = 2
  MaxFrames = 2
  MaxInbound = 1
  Chatty = TRUE
  Roles = {"server"}
SPECIFICATION FairSpec
PROPERTY SentLater
CHECK_DEADLOCK FALSE
