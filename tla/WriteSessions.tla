--------------------------- MODULE WriteSessions ---------------------------
(***************************************************************************)
(* What the storage server promises each connection about WRITE ... ETIRW, *)
(* without threads, files or the lock list: a connection edits at most one *)
(* sentence at a time, it leaves that sentence before it takes another,    *)
(* and a connection that is closed edits nothing.  Nothing is said about   *)
(* two connections: their sessions are independent.                        *)
(***************************************************************************)
CONSTANTS Fds, Files, Sents

VARIABLE mode     \* what each connection is doing

Closed  == <<"closed">>
Command == <<"command">>
Editing(f, s) == <<"editing", f, s>>

Modes == {Closed, Command} \cup {Editing(f, s) : f \in Files, s \in Sents}

Init == mode = [fd \in Fds |-> Closed]

Change(fd, from, to) == mode[fd] = from /\ mode' = [mode EXCEPT ![fd] = to]

Open(fd)        == Change(fd, Closed, Command)
Begin(fd, f, s) == Change(fd, Command, Editing(f, s))
End(fd, f, s)   == Change(fd, Editing(f, s), Command)
Close(fd)       == Change(fd, Command, Closed)

\* The server goes down with all its sessions.
Reset == mode' = [fd \in Fds |-> Closed]

Next ==
  \/ \E fd \in Fds :
       \/ Open(fd) \/ Close(fd)
       \/ \E f \in Files, s \in Sents : Begin(fd, f, s) \/ End(fd, f, s)
  \/ Reset

Spec == Init /\ [][Next]_mode
=============================================================================
