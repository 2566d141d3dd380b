SPECIFICATION Spec
CONSTANTS
  Clients = {u1, u2}
  Servers = {s1, s2}
  Files = {f1}
  None = None
  OnDisk <- OneHome
  Registered <- AllServers
  Commands <- Everything
  Uses <- Shared
  MaxServers = 2
  CacheSize = 1
  MaxAcl = 1
  MaxConns = 3
  MaxClock = 1
  MaxRequests = 2
INVARIANTS
  TypeOK
  MutexFollowsExchange
CHECK_DEADLOCK FALSE
