SPECIFICATION Spec
CONSTANTS
  MaxSentences = 8
  Fds = {c1}
  NS = NS
  Files = {doc}
  Tags = {t}
  NoFile = NoFile
  Inputs <- OneInput
  InitialDoc <- TwoSentences
  Commands <- ShutdownCommands
  MaxSent = 1
  MaxDocWords = 3
  MaxClock = 0
  MaxRequests = 4
INVARIANTS
  DocumentSurvives
CHECK_DEADLOCK FALSE
