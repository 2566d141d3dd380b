SPECIFICATION Spec
CONSTANTS
  Clients = {u1, u2}
  Servers = {s1}
  Files = {f1}
  None = None
  OnDisk <- OneHome
  Registered <- AllServers
  Commands <- Reports
  Uses <- Shared
  MaxServers = 1
  CacheSize = 1
  MaxAcl = 1
  MaxConns = 2
  MaxClock = 0
  MaxRequests = 2
INVARIANTS
  LiveServersStayRegistered
CHECK_DEADLOCK FALSE
