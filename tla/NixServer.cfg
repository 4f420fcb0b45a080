CONSTANTS
  Contexts = {x1, x2}
  Listener = listener
  Users = {u}
  Loop = loop
  Free = free
  max_event_ = 2
  MaxClients = 2
  MaxCalls = 2
SPECIFICATION FairSpec
INVARIANTS TypeOK Exclusive OwnBytes CountOfClients
PROPERTIES IsCallbacks HearsOfEnd StopReturns
CHECK_DEADLOCK FALSE
