CONSTANTS
  Workers = {w1, w2}
  Users = {u}
  max_event_ = 1
  MaxClients = 2
  MaxSends = 1
SPECIFICATION FairSpec
INVARIANTS TypeOK Exclusive CountsReceives CountOfClients RecordsAccounted NoThreadAtWork
PROPERTIES IsCallbacks HearsOfEnd StopReturns
CHECK_DEADLOCK FALSE
