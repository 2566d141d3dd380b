SPECIFICATION Spec
CONSTANTS
  Clients = {u1, u2}
  Servers = {s1, s2}
  Files = {f1, f2}
  None = None
  OnDisk <- Empty
  Registered <- AllServers
  Commands <- Forwarded
  Uses <- Own
  MaxServers = 2
  CacheSize = 2
  MaxAcl = 1
  MaxConns = 2
  MaxClock = 0
  MaxRequests = 4
INVARIANTS
  PrivateFilesConsistent
CHECK_DEADLOCK FALSE
