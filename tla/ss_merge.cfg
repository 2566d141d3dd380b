SPECIFICATION Spec
CONSTANTS
  MaxSentences = 8
  Fds = {c1, c2}
  NS = NS
  Files = {doc}
  Tags = {t}
  NoFile = NoFile
  Inputs <- OneInput
  InitialDoc <- TwoSentences
  Commands <- EditCommands
  MaxSent = 2
  MaxDocWords = 3
  MaxClock = 0
  MaxRequests = 6
INVARIANTS
  MergedWithLatest
CHECK_DEADLOCK FALSE
