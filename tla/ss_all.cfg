SPECIFICATION Spec
CONSTANTS
  MaxSentences = 8
  Fds = {c1, c2}
  NS = NS
  Files = {doc}
  Tags = {t}
  NoFile = NoFile
  Inputs <- OneInput
  InitialDoc <- TwoSentences
  Commands <- AllCommands
  MaxSent = 2
  MaxDocWords = 3
  MaxClock = 1
  MaxRequests = 5
SYMMETRY Symmetry
INVARIANTS
  TypeOK
  OneSentencePerConnection
  LocksBelongToOpenConnections
  CommitHasItsCopy
  UndoLogResolves
PROPERTIES
  SwapChangesUnderLock
  ImplementsSessions
CHECK_DEADLOCK FALSE
