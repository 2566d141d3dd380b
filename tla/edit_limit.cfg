SPECIFICATION Spec
CONSTANTS
  MaxSentences = 2
  MaxDocWords = 5
  NoCopy = NoCopy
  InitialDocs <- TwoSentences
  Inputs <- PlainInputs
INVARIANTS
  CommitKeepsLength
