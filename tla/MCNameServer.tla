---------------------------- MODULE MCNameServer ----------------------------
EXTENDS NameServer, TLC

AllServers == SetToSeq(Servers)
NoServers  == <<>>

\* no file anywhere at start, or every file on the first server, the first user's
Empty   == [s \in Servers |-> [f \in Files |-> None]]
OneHome == [s \in Servers |-> [f \in Files |->
              IF s = SetToSeq(Servers)[1] THEN SetToSeq(Clients)[1] ELSE None]]

\* the i-th file on the i-th server, the i-th user's
Spread  == [s \in Servers |-> [f \in Files |->
              LET i == CHOOSE i \in 1..Cardinality(Files) : SetToSeq(Files)[i] = f
              IN  IF s = SetToSeq(Servers)[i] THEN SetToSeq(Clients)[i] ELSE None]]

\* every client asks for every file, or each for a file of its own
Shared == [c \in Clients |-> Files]
Own    == [c \in Clients |-> {SetToSeq(Files)[CHOOSE i \in 1..Cardinality(Clients) :
                                               SetToSeq(Clients)[i] = c]}]

\* what the redirecting handlers share is exercised by READ and WRITE where the
\* others would only multiply states
Forwarded == {"CREATE", "DELETE", "INFO", "EXEC", "READ", "WRITE", "LOCATE",
              "ADDACCESS", "REMACCESS"}
Replied   == {"CREATE", "INFO", "EXEC", "READ", "LOCATE", "ADDACCESS", "REMACCESS", "CRASH"}
Everything ==
  Forwarded \cup {"UNDO", "MOVE", "STREAM", "CHECKPOINT", "REVERT", "VIEWCHECKPOINT",
                 "LISTCHECKPOINTS", "DEAD", "CRASH"}
Creates       == {"CREATE"}
Creations     == {"CREATE", "DELETE"}
Lookups       == {"CREATE", "DELETE", "READ"}
Reads         == {"READ"}
Moves         == {"MOVE"}
Reports       == {"DEAD", "CRASH"}
CrashCreates  == {"CREATE", "CRASH"}
CrashReports  == {"CREATE", "CRASH", "DEAD"}
=============================================================================
