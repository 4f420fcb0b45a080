CONSTANTS
  Peer = {p1, p2}
  Nobody = nobody
  User = {u1, u2}
  Loop = loop
  NoThread = nothread
  SockCap = 1
  MaxSends = 3
  MaxInbound = 3
SPECIFICATION FairSpec
INVARIANTS TypeOK RightPeer DatagramsInOrder NothingLost WillBeWoken
PROPERTIES SentLater
CHECK_DEADLOCK FALSE
