SPECIFICATION FairSpec
CONSTANTS
  i1 = i1
  i2 = i2
  d1 = d1
  Clients = {i1, i2, d1}
  DbusClients = {d1}
  Nobody = nobody
  Asks <- FewCalls
INVARIANTS
  TypeOK
  CallersOutliveTasks
  LockHolderConnected
PROPERTIES
  LockExclusiveOnThread
  EveryCallEnds
  LeavingUnlocks
CHECK_DEADLOCK FALSE
