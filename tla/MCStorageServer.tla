-------------------------- MODULE MCStorageServer --------------------------
EXTENDS StorageServer, TLC

Word(b, m) == [base |-> b, marks |-> m]

\* two complete sentences: WRITE accepts 1, 2 and the new sentence 3
TwoSentences == <<Word("a", 1), Word("b", 1)>>

OneInput == {<<Word("x", 0)>>}

Symmetry == Permutations(Fds)

EditCommands == {"WRITE", "EDIT", "ETIRW"}
AllCommands  == EditCommands \cup {"UNDO", "CHECKPOINT", "REVERT", "CREATE", "DELETE", "SHUTDOWN"}
UndoCommands == EditCommands \cup {"UNDO"}
CheckpointCommands == {"CHECKPOINT"}
ShutdownCommands == EditCommands \cup {"SHUTDOWN"}
=============================================================================
