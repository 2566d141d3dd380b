SPECIFICATION Spec
CONSTANTS
  Clients = {u1, u2}
  Servers = {s1}
  Files = {f1}
  None = None
  OnDisk <- Empty
  Registered <- AllServers
  Commands <- Creates
  Uses <- Shared
  MaxServers = 1
  CacheSize = 1
  MaxAcl = 1
  MaxConns = 1
  MaxClock = 0
  MaxRequests = 2
INVARIANTS
  CreatorOwns
CHECK_DEADLOCK FALSE
