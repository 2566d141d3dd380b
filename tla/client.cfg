SPECIFICATION Spec
CONSTANTS
  Docs <- MCDocs
  Whole = TRUE
  Lengths = {"fits"}
INVARIANTS
  TypeOK
  InStep
  ShownIsServed
  StreamShowsPrefix
  SuccessMeansDone
  NoLineDiscarded
PROPERTIES
  CommandEnds
  ThreadEnds
CHECK_DEADLOCK FALSE
