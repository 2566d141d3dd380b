SPECIFICATION Spec
CONSTANTS
  Clients = {u1}
  Servers = {s1}
  Files = {f1}
  None = None
  OnDisk <- Empty
  Registered <- AllServers
  Commands <- CrashCreates
  Uses <- Shared
  MaxServers = 1
  CacheSize = 1
  MaxAcl = 1
  MaxConns = 2
  MaxClock = 0
  MaxRequests = 2
INVARIANTS
  OwnerSurvives
CHECK_DEADLOCK FALSE
