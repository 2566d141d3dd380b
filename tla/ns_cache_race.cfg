SPECIFICATION Spec
CONSTANTS
  Clients = {u1, u2}
  Servers = {s1, s2}
  Files = {f1, f2}
  None = None
  OnDisk <- Spread
  Registered <- AllServers
  Commands <- Reads
  Uses <- Shared
  MaxServers = 2
  CacheSize = 1
  MaxAcl = 1
  MaxConns = 2
  MaxClock = 0
  MaxRequests = 4
PROPERTIES
  RedirectsToHome
CHECK_DEADLOCK FALSE
