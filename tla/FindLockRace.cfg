SPECIFICATION Spec
CONSTANTS
  i1 = i1
  i2 = i2
  d1 = d1
  Clients = {i1, d1}
  DbusClients = {d1}
  Nobody = nobody
  Asks <- AllCalls
PROPERTIES
  LockExclusive
CHECK_DEADLOCK FALSE
