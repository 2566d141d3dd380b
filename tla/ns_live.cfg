SPECIFICATION FairSpec
CONSTANTS
  Clients = {u1, u2}
  Servers = {s1}
  Files = {f1}
  None = None
  OnDisk <- OneHome
  Registered <- AllServers
  Commands <- Replied
  Uses <- Shared
  MaxServers = 1
  CacheSize = 1
  MaxAcl = 1
  MaxConns = 1
  MaxClock = 0
  MaxRequests = 3
INVARIANTS
  ReplyPairing
PROPERTIES
  AllAnswered
CHECK_DEADLOCK FALSE
