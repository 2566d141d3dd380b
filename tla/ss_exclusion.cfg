SPECIFICATION Spec
CONSTANTS
  MaxSentences = 8
  Fds = {c1, c2}
  NS = NS
  Files = {doc}
  Tags = {t}
  NoFile = NoFile
  Inputs <- OneInput
  InitialDoc <- TwoSentences
  Commands <- EditCommands
  MaxSent = 1
  MaxDocWords = 3
  MaxClock = 0
  MaxRequests = 4
INVARIANTS
  OneEditorPerSentence
CHECK_DEADLOCK FALSE
