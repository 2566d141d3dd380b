SPECIFICATION Spec
CONSTANTS
  Threads = {NS, client}
  NS = NS
  client = client
  Files = {a, b, c}
  Users = {u, v}
  None = None
  Short = Short
  Junk = Junk
  MaxFiles = 2
  MaxAcl = 2
  MaxOps = 4
  MaxRestarts = 1
SYMMETRY Symmetry
INVARIANTS
  TypeOK
  TableFollowsCommands
  GrantsInForce
  SoloIsDurable
  CrashLosesTail
CHECK_DEADLOCK FALSE
