SPECIFICATION FairSpec
CONSTANTS
  MaxSentences = 8
  Fds = {c1, c2}
  NS = NS
  Files = {doc}
  Tags = {t}
  NoFile = NoFile
  Inputs <- OneInput
  InitialDoc <- TwoSentences
  Commands <- AllCommands
  MaxSent = 1
  MaxDocWords = 3
  MaxClock = 0
  MaxRequests = 4
PROPERTIES
  CommitReleasesLock
CHECK_DEADLOCK FALSE
