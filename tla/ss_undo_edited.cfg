SPECIFICATION Spec
CONSTANTS
  MaxSentences = 8
  Fds = {c1}
  NS = NS
  Files = {doc}
  Tags = {t}
  NoFile = NoFile
  Inputs <- OneInput
  InitialDoc <- TwoSentences
  Commands <- UndoCommands
  MaxSent = 1
  MaxDocWords = 3
  MaxClock = 0
  MaxRequests = 6
INVARIANTS
  UndoSparesEditedFiles
CHECK_DEADLOCK FALSE
