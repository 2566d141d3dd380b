SPECIFICATION Spec
CONSTANTS
  MaxSentences = 8
  MaxDocWords = 5
  NoCopy = NoCopy
  InitialDocs <- AnyDocs
  Inputs <- AnyInputs
INVARIANTS
  NoBlankWord
  SentencesPartitionText
  CommitTouchesOnlyTarget
  CommitKeepsUnsplitEdits
