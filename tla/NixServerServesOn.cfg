CONSTANTS
  Contexts = {x1, x2}
  Listener = listener
  Users = {u}
  Loop = loop
  Free = free
  max_event_ = 2
  MaxClients = 2
  MaxCalls = 1
SPECIFICATION FairSpec
PROPERTY ServesOn
CHECK_DEADLOCK FALSE
