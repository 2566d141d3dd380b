------------------------ MODULE StorageServerProofs ------------------------
(***************************************************************************)
(* Proofs about StorageServer for every number of connections, files,      *)
(* tags, inputs and requests.  The invariants are proved in layers: types  *)
(* and arguments, then locks, then the undo history.                       *)
(***************************************************************************)
EXTENDS StorageServer, SequenceTheorems, TLAPS

TypeInv == TypeOK /\ CallInv

USE DEF disk, bufs

\* A call has the arguments it was made with, and is one of the calls there are.
LEMMA CallTyping ==
  ASSUME NEW cmd \in {"none", "WRITE", "ETIRW", "UNDO", "CHECKPOINT", "REVERT"},
         NEW f \in Files \cup {NoFile}, NEW s \in Sents, NEW t \in Tags \cup {NoFile}
  PROVE  /\ Call(cmd, f, s, t) \in Arg
         /\ Call(cmd, f, s, t).cmd = cmd
         /\ Call(cmd, f, s, t).file = f
         /\ Call(cmd, f, s, t).sent = s
         /\ Call(cmd, f, s, t).tag = t
  BY BoundsAssumption DEF Call, Arg, Seconds

\* A thread at rest has a well-typed empty call.
LEMMA NoCallTyping ==
  /\ NoCall \in Arg /\ NoCall.cmd = "none" /\ NoCall.file = NoFile
  /\ 1 \in Sents
  BY BoundsAssumption DEF NoCall, Call, Arg, Sents, Seconds

\* Setting one field of a call keeps it a call.
LEMMA ArgUpdate ==
  ASSUME NEW a \in Arg, NEW ts \in Seconds, NEW live \in BOOLEAN
  PROVE  /\ [a EXCEPT !.ts = ts] \in Arg
         /\ [a EXCEPT !.live = live] \in Arg
         /\ [a EXCEPT !.ts = ts].ts = ts
         /\ [a EXCEPT !.ts = ts].cmd = a.cmd /\ [a EXCEPT !.live = live].cmd = a.cmd
         /\ [a EXCEPT !.ts = ts].file = a.file /\ [a EXCEPT !.live = live].file = a.file
         /\ [a EXCEPT !.ts = ts].sent = a.sent /\ [a EXCEPT !.live = live].sent = a.sent
         /\ [a EXCEPT !.ts = ts].tag = a.tag /\ [a EXCEPT !.live = live].tag = a.tag
         /\ [a EXCEPT !.live = live].ts = a.ts
  BY DEF Arg

\* Reading an undo log keeps its lines and their times, and finds none used.
LEMMA ParsedLog ==
  ASSUME NEW lines \in Seq(Line)
  PROVE  LET parsed == [i \in DOMAIN lines |-> Parse(lines[i])]
         IN  /\ parsed \in Seq(Line)
             /\ DOMAIN parsed = DOMAIN lines
             /\ \A i \in DOMAIN lines : parsed[i].ts = lines[i].ts
<1> DEFINE parsed == [i \in DOMAIN lines |-> Parse(lines[i])]
<1>1. \A i \in DOMAIN lines : lines[i] \in Line
  OBVIOUS
<1>2. \A i \in DOMAIN lines : Parse(lines[i]) \in Line /\ Parse(lines[i]).ts = lines[i].ts
  BY <1>1 DEF Parse, Line
<1>3. DOMAIN lines = 1..Len(lines) /\ Len(lines) \in Nat
  OBVIOUS
<1> HIDE DEF Parse
<1>4. parsed \in [1..Len(lines) -> Line]
  BY <1>2, <1>3
<1>5. parsed \in Seq(Line)
  BY <1>3, <1>4, SeqDef
<1>6. QED
  BY <1>2, <1>5

\* Marking a line keeps the log a log, with the same times.
LEMMA MarkedLog ==
  ASSUME NEW lines \in Seq(Line), NEW k \in DOMAIN lines
  PROVE  LET marked == [lines EXCEPT ![k].used = 1]
         IN  /\ marked \in Seq(Line)
             /\ DOMAIN marked = DOMAIN lines
             /\ \A i \in DOMAIN lines : marked[i].ts = lines[i].ts
<1>1. lines[k] \in Line
  OBVIOUS
<1>2. [lines[k] EXCEPT !.used = 1] \in Line /\ [lines[k] EXCEPT !.used = 1].ts = lines[k].ts
  BY <1>1 DEF Line
<1> DEFINE line == [lines[k] EXCEPT !.used = 1]
<1>3. line \in Line /\ line.ts = lines[k].ts
  BY <1>2
<1> HIDE DEF line
<1>4. [lines EXCEPT ![k] = line] \in Seq(Line)
  BY <1>3
<1>5. \A i \in DOMAIN lines : [lines EXCEPT ![k] = line][i].ts = lines[i].ts
  BY <1>3
<1>6. QED
  BY <1>4, <1>5 DEF line

\* A started server has its variables typed and every thread at rest.
LEMMA TypeInit == Init => TypeInv
<1> SUFFICES ASSUME Init PROVE TypeInv
  OBVIOUS
<1>1. DiskOK
  BY DEF Init, DiskOK
<1>2. ThreadsOK
  BY NoCallTyping DEF Init, ThreadsOK, Labels
<1>3. CallInv
  BY NoCallTyping DEF Init, CallInv, CallOK, Resting
<1>4. QED
  BY <1>1, <1>2, <1>3, BoundsAssumption DEF Init, TypeInv, TypeOK, Seconds

\* What the threads share: the disk, the lock list, the clock and the histories.
SharedOK ==
  DiskOK /\ locks \subseteq Lock /\ clock \in Seconds /\ edited \subseteq Fds /\ requests \in Nat

\* Every step keeps the types of the files, the logs, the locks and the clock.
LEMMA SharedStep == TypeInv /\ [Next]_vars => SharedOK'
<1> SUFFICES ASSUME TypeInv, [Next]_vars PROVE SharedOK'
  OBVIOUS
<1> USE DEF TypeInv, TypeOK, SharedOK, DiskOK
<1>1. ASSUME NEW fd \in Fds, Accept(fd)
      PROVE  SharedOK'
  BY <1>1 DEF Accept, Goto
<1>2. ASSUME NEW fd \in Fds, Hangup(fd)
      PROVE  SharedOK'
  BY <1>2 DEF Hangup, Goto
<1>3. ASSUME NEW fd \in Fds, CloseFd(fd)
      PROVE  SharedOK'
  BY <1>3 DEF CloseFd, Goto
<1>4. ASSUME Shutdown
      PROVE  SharedOK'
  BY <1>4 DEF Shutdown
<1>5. ASSUME Tick
      PROVE  SharedOK'
  BY <1>5, BoundsAssumption DEF Tick, Seconds
<1>6. ASSUME NEW fd \in Fds, NEW f \in Files, NEW s \in Sents, Write(fd, f, s)
      PROVE  SharedOK'
  BY <1>6 DEF Write, Start, Receive, Goto
<1>7. ASSUME NEW fd \in Fds, WriteSize(fd)
      PROVE  SharedOK'
  BY <1>7 DEF WriteSize, Done, Stay, Goto
<1>8. ASSUME NEW fd \in Fds, WriteCheck(fd)
      PROVE  SharedOK'
  BY <1>8 DEF WriteCheck, Done, Stay, Goto
<1>9. ASSUME NEW fd \in Fds, WriteAdd(fd)
      PROVE  SharedOK'
  <2>1. [file |-> arg[fd].file, sent |-> arg[fd].sent, fd |-> fd] \in Lock
    <3>1. arg[fd].file \in Files
      BY <1>9 DEF WriteAdd, CallInv, CallOK, Resting, Procs
    <3>2. arg[fd].sent \in Sents
      BY DEF ThreadsOK, Arg, Procs
    <3>3. QED
      BY <3>1, <3>2 DEF Lock
  <2>2. QED
    BY <1>9, <2>1 DEF WriteAdd
<1>10. ASSUME NEW fd \in Fds, NEW idx \in 1..MaxDocWords, NEW new \in Inputs,
               Edit(fd, idx, new)
      PROVE  SharedOK'
  BY <1>10 DEF Edit, Receive
<1>11. ASSUME NEW fd \in Fds, Etirw(fd)
      PROVE  SharedOK'
  BY <1>11 DEF Etirw, Start, Receive, Goto
<1>12. ASSUME NEW p \in Procs, BackupRead(p)
      PROVE  SharedOK'
  BY <1>12 DEF BackupRead, Goto
<1>13. ASSUME NEW p \in Procs, BackupWrite(p)
      PROVE  SharedOK'
  BY <1>13 DEF BackupWrite, Goto
<1>14. ASSUME NEW p \in Procs, BackupLog(p)
      PROVE  SharedOK'
  <2>1. [ts |-> arg[p].ts, used |-> 0] \in Line
    BY DEF ThreadsOK, Arg, Line
  <2>2. arg[p].file \in Files
    BY <1>14 DEF BackupLog, CallInv, CallOK, Resting
  <2>3. Append(undo[arg[p].file], [ts |-> arg[p].ts, used |-> 0]) \in Seq(Line)
    BY <2>1, <2>2, AppendProperties
  <2>4. QED
    BY <1>14, <2>3 DEF BackupLog
<1>15. ASSUME NEW fd \in Fds, EtirwMerge(fd)
      PROVE  SharedOK'
  BY <1>15 DEF EtirwMerge, Goto
<1>16. ASSUME NEW p \in Procs, Truncate(p)
      PROVE  SharedOK'
  BY <1>16 DEF Truncate, Goto
<1>17. ASSUME NEW p \in Procs, WriteOut(p)
      PROVE  SharedOK'
  BY <1>17 DEF WriteOut, Goto
<1>18. ASSUME NEW p \in Procs, UpdateTable(p)
      PROVE  SharedOK'
  BY <1>18 DEF UpdateTable, Done, Stay, Goto
<1>19. ASSUME NEW fd \in Fds, EtirwUnlock(fd)
      PROVE  SharedOK'
  BY <1>19 DEF EtirwUnlock, Done, Goto
<1>20. ASSUME NEW p \in Procs, NEW f \in Files, Undo(p, f)
      PROVE  SharedOK'
  BY <1>20 DEF Undo, Start, Receive, Goto
<1>21. ASSUME NEW p \in Procs, UndoFind(p)
      PROVE  SharedOK'
  BY <1>21 DEF UndoFind, Done, Goto
<1>22. ASSUME NEW p \in Procs, UndoLog(p)
      PROVE  SharedOK'
  BY <1>22 DEF UndoLog, ThreadsOK
<1>23. ASSUME NEW fd \in Fds, NEW f \in Files, NEW t \in Tags, Checkpoint(fd, f, t)
      PROVE  SharedOK'
  BY <1>23 DEF Checkpoint, Start, Receive, Goto
<1>24. ASSUME NEW fd \in Fds, CheckpointRead(fd)
      PROVE  SharedOK'
  BY <1>24 DEF CheckpointRead, Done, Goto
<1>25. ASSUME NEW fd \in Fds, CheckpointWrite(fd)
      PROVE  SharedOK'
  <2>1. arg[fd].tag \in Tags
    BY <1>25 DEF CheckpointWrite, CallInv, CallOK, Procs
  <2>2. arg[fd].file \in Files
    BY <1>25 DEF CheckpointWrite, CallInv, CallOK, Resting, Procs
  <2>3. Append(tagLog[arg[fd].file], arg[fd].tag) \in Seq(Tags)
    BY <2>1, <2>2, AppendProperties
  <2>4. QED
    BY <1>25, <2>3 DEF CheckpointWrite
<1>26. ASSUME NEW fd \in Fds, NEW f \in Files, NEW t \in Tags, Revert(fd, f, t)
      PROVE  SharedOK'
  BY <1>26 DEF Revert, Start, Receive, Goto
<1>27. ASSUME NEW fd \in Fds, RevertRead(fd)
      PROVE  SharedOK'
  BY <1>27 DEF RevertRead, Done, Goto
<1>28. ASSUME NEW p \in Procs, NEW f \in Files, Create(p, f)
      PROVE  SharedOK'
  BY <1>28 DEF Create, Receive
<1>29. ASSUME NEW p \in Procs, NEW f \in Files, Delete(p, f)
      PROVE  SharedOK'
  BY <1>29 DEF Delete, Receive
<1>30. CASE UNCHANGED vars
  BY <1>30 DEF vars
<1>31. QED
  BY <1>1, <1>2, <1>3, <1>4, <1>5, <1>6, <1>7, <1>8, <1>9, <1>10,
     <1>11, <1>12, <1>13, <1>14, <1>15, <1>16, <1>17, <1>18, <1>19, <1>20,
     <1>21, <1>22, <1>23, <1>24, <1>25, <1>26, <1>27, <1>28, <1>29, <1>30
  DEF Next, ClientStep, HandlerStep, FileStep

\* What UndoFind leaves behind when it has found a backup: a copy of the log with
\* one line marked, and the time of that line.
LEMMA UndoFound ==
  ASSUME TypeInv, NEW p \in Procs, UndoFind(p), ~Done(p)
  PROVE  /\ arg[p].file \in Files
         /\ \E ts \in Seconds, lines \in Seq(Line) :
              /\ log' = [log EXCEPT ![p] = lines]
              /\ arg' = [arg EXCEPT ![p] = [arg[p] EXCEPT !.ts = ts]]
              /\ DOMAIN lines = DOMAIN undo[arg[p].file]
              /\ \A i \in DOMAIN lines : lines[i].ts = undo[arg[p].file][i].ts
         /\ Goto(p, "trunc")
         /\ DOMAIN out' = DOMAIN out
         /\ UNCHANGED <<disk, seen>>
<1> USE DEF TypeInv, TypeOK
<1> DEFINE f     == arg[p].file
           lines == [i \in DOMAIN undo[f] |-> Parse(undo[f][i])]
<1>1. f \in Files
  BY DEF UndoFind, CallInv, CallOK, Resting
<1>2. /\ lines \in Seq(Line)
      /\ DOMAIN lines = DOMAIN undo[f]
      /\ \A i \in DOMAIN undo[f] : lines[i].ts = undo[f][i].ts
  BY <1>1, ParsedLog DEF DiskOK
<1>3. PICK k \in DOMAIN lines :
        /\ log' = [log EXCEPT ![p] = [lines EXCEPT ![k].used = 1]]
        /\ arg' = [arg EXCEPT ![p].ts = lines[k].ts]
        /\ Goto(p, "trunc")
        /\ DOMAIN out' = DOMAIN out
        /\ UNCHANGED <<disk, seen>>
  BY DEF UndoFind
<1> HIDE DEF lines
<1> DEFINE marked == [lines EXCEPT ![k].used = 1]
<1>4. /\ marked \in Seq(Line)
      /\ DOMAIN marked = DOMAIN lines
      /\ \A i \in DOMAIN lines : marked[i].ts = lines[i].ts
  BY <1>2, <1>3, MarkedLog
<1> HIDE DEF marked
<1>5. lines[k] \in Line
  BY <1>2, <1>3
<1>6. lines[k].ts \in Seconds
  BY <1>5 DEF Line
<1>7. log' = [log EXCEPT ![p] = marked]
  BY <1>3 DEF marked
<1>8. arg' = [arg EXCEPT ![p] = [arg[p] EXCEPT !.ts = lines[k].ts]]
  BY <1>3
<1>9. \A i \in DOMAIN marked : marked[i].ts = undo[f][i].ts
  BY <1>2, <1>4
<1>10. \E ts \in Seconds, new \in Seq(Line) :
         /\ log' = [log EXCEPT ![p] = new]
         /\ arg' = [arg EXCEPT ![p] = [arg[p] EXCEPT !.ts = ts]]
         /\ DOMAIN new = DOMAIN undo[f]
         /\ \A i \in DOMAIN new : new[i].ts = undo[f][i].ts
  BY <1>2, <1>4, <1>6, <1>7, <1>8, <1>9
<1>11. QED
  BY <1>1, <1>3, <1>10

\* The ends of a step: the command is answered, or it goes on to the next label.
LEMMA DoneThreads ==
  ASSUME ThreadsOK, NEW p \in Procs, Done(p)
  PROVE  ThreadsOK'
  BY NoCallTyping DEF ThreadsOK, Done, Goto, Labels

\* A step that moves one thread and leaves its buffers alone keeps the threads typed.
LEMMA StayThreads ==
  ASSUME ThreadsOK, NEW p \in Procs, NEW label \in Labels, Goto(p, label), Stay
  PROVE  ThreadsOK'
  BY DEF ThreadsOK, Stay, Goto

\* A step that moves one thread and sets its buffers keeps the threads typed.
LEMMA SetThreads ==
  ASSUME ThreadsOK, NEW p \in Procs, NEW label \in Labels, NEW a \in Arg, NEW lines \in Seq(Line),
         Goto(p, label), arg' = [arg EXCEPT ![p] = a], log' = [log EXCEPT ![p] = lines],
         DOMAIN seen' = DOMAIN seen, DOMAIN out' = DOMAIN out
  PROVE  ThreadsOK'
  BY DEF ThreadsOK, Goto

\* Every step keeps the types of what the threads hold in memory.
LEMMA ThreadsStep == TypeInv /\ [Next]_vars => ThreadsOK'
<1> SUFFICES ASSUME TypeInv, [Next]_vars PROVE ThreadsOK'
  OBVIOUS
<1> USE DEF TypeInv, TypeOK
<1>1. ASSUME NEW fd \in Fds, Accept(fd)
      PROVE  ThreadsOK'
  BY <1>1, NoCallTyping DEF Accept, Goto, ThreadsOK, Labels, Procs
<1>2. ASSUME NEW fd \in Fds, Hangup(fd)
      PROVE  ThreadsOK'
  BY <1>2, NoCallTyping DEF Hangup, Goto, ThreadsOK, Labels, Procs
<1>3. ASSUME NEW fd \in Fds, CloseFd(fd)
      PROVE  ThreadsOK'
  BY <1>3, NoCallTyping DEF CloseFd, Goto, ThreadsOK, Labels, Procs
<1>4. ASSUME Shutdown
      PROVE  ThreadsOK'
  BY <1>4, NoCallTyping DEF Shutdown, ThreadsOK, Labels, Procs
<1>5. ASSUME Tick
      PROVE  ThreadsOK'
  BY <1>5, NoCallTyping DEF Tick, ThreadsOK, Labels, Procs
<1>6. ASSUME NEW fd \in Fds, NEW f \in Files, NEW s \in Sents, Write(fd, f, s)
      PROVE  ThreadsOK'
  BY <1>6, CallTyping, NoCallTyping DEF Write, Start, Receive, Goto, ThreadsOK, Labels, Procs
<1>7. ASSUME NEW fd \in Fds, WriteSize(fd)
      PROVE  ThreadsOK'
  BY <1>7, DoneThreads, StayThreads DEF WriteSize, Labels, Procs
<1>8. ASSUME NEW fd \in Fds, WriteCheck(fd)
      PROVE  ThreadsOK'
  BY <1>8, DoneThreads, StayThreads DEF WriteCheck, Labels, Procs
<1>9. ASSUME NEW fd \in Fds, WriteAdd(fd)
      PROVE  ThreadsOK'
  BY <1>9, DoneThreads DEF WriteAdd, Procs
<1>10. ASSUME NEW fd \in Fds, NEW idx \in 1..MaxDocWords, NEW new \in Inputs,
               Edit(fd, idx, new)
      PROVE  ThreadsOK'
  BY <1>10, NoCallTyping DEF Edit, Receive, ThreadsOK, Labels, Procs
<1>11. ASSUME NEW fd \in Fds, Etirw(fd)
      PROVE  ThreadsOK'
  <2>1. PICK l \in locks :
          Start(fd, Call("ETIRW", l.file, l.sent, NoFile),
                IF swap[<<l.file, l.sent, l.fd>>] # NoFile THEN "bread" ELSE "unlock")
    BY <1>11 DEF Etirw, WriteInfo
  <2>2. Call("ETIRW", l.file, l.sent, NoFile) \in Arg
    BY CallTyping DEF Lock
  <2>3. QED
    BY <1>11, <2>1, <2>2 DEF Etirw, Start, Goto, ThreadsOK, Labels, Procs
<1>12. ASSUME NEW p \in Procs, BackupRead(p)
      PROVE  ThreadsOK'
  <2>1. [arg[p] EXCEPT !.ts = clock] \in Arg
    BY ArgUpdate DEF ThreadsOK
  <2>2. CASE files[arg[p].file] = NoFile
    BY <1>12, <2>2 DEF BackupRead, AfterBackup, Goto, ThreadsOK, Labels
  <2>3. CASE files[arg[p].file] # NoFile
    <3>1. /\ Goto(p, "bwrite")
          /\ arg' = [arg EXCEPT ![p] = [arg[p] EXCEPT !.ts = clock]]
          /\ DOMAIN seen' = DOMAIN seen
          /\ UNCHANGED <<out, log>>
      BY <1>12, <2>3 DEF BackupRead
    <3>2. log[p] \in Seq(Line) /\ log' = [log EXCEPT ![p] = log[p]]
      BY <3>1 DEF ThreadsOK
    <3>3. QED
      BY <2>1, <3>1, <3>2, SetThreads DEF Labels
  <2>4. QED
    BY <2>2, <2>3
<1>13. ASSUME NEW p \in Procs, BackupWrite(p)
      PROVE  ThreadsOK'
  BY <1>13, NoCallTyping DEF BackupWrite, Goto, ThreadsOK, Labels, Procs
<1>14. ASSUME NEW p \in Procs, BackupLog(p)
      PROVE  ThreadsOK'
  BY <1>14, NoCallTyping DEF BackupLog, Goto, AfterBackup, ThreadsOK, Labels
<1>15. ASSUME NEW fd \in Fds, EtirwMerge(fd)
      PROVE  ThreadsOK'
  BY <1>15, NoCallTyping DEF EtirwMerge, Goto, ThreadsOK, Labels, Procs
<1>16. ASSUME NEW p \in Procs, Truncate(p)
      PROVE  ThreadsOK'
  <2>1. [arg[p] EXCEPT !.live = TRUE] \in Arg
    BY DEF ThreadsOK, Arg
  <2>2. QED
    BY <1>16, <2>1 DEF Truncate, Goto, ThreadsOK, Labels
<1>17. ASSUME NEW p \in Procs, WriteOut(p)
      PROVE  ThreadsOK'
  BY <1>17, NoCallTyping DEF WriteOut, Goto, ThreadsOK, Labels, Procs
<1>18. ASSUME NEW p \in Procs, UpdateTable(p)
      PROVE  ThreadsOK'
  BY <1>18, DoneThreads, StayThreads DEF UpdateTable, Labels, Procs
<1>19. ASSUME NEW fd \in Fds, EtirwUnlock(fd)
      PROVE  ThreadsOK'
  BY <1>19, DoneThreads DEF EtirwUnlock, Procs
<1>20. ASSUME NEW p \in Procs, NEW f \in Files, Undo(p, f)
      PROVE  ThreadsOK'
  BY <1>20, CallTyping, NoCallTyping DEF Undo, Start, Receive, Goto, ThreadsOK, Labels, Procs
<1>21. ASSUME NEW p \in Procs, UndoFind(p)
      PROVE  ThreadsOK'
  <2>1. CASE Done(p)
    BY <2>1, DoneThreads
  <2>2. CASE ~Done(p)
    <3>1. PICK ts \in Seconds, lines \in Seq(Line) :
            /\ log' = [log EXCEPT ![p] = lines]
            /\ arg' = [arg EXCEPT ![p] = [arg[p] EXCEPT !.ts = ts]]
      BY <1>21, <2>2, UndoFound
    <3>2. [arg[p] EXCEPT !.ts = ts] \in Arg
      BY ArgUpdate DEF ThreadsOK
    <3>3. QED
      BY <1>21, <2>2, <3>1, <3>2, UndoFound, SetThreads DEF Labels
  <2>3. QED
    BY <2>1, <2>2
<1>22. ASSUME NEW p \in Procs, UndoLog(p)
      PROVE  ThreadsOK'
  BY <1>22, NoCallTyping DEF UndoLog, Goto, ThreadsOK, Labels, Procs
<1>23. ASSUME NEW fd \in Fds, NEW f \in Files, NEW t \in Tags, Checkpoint(fd, f, t)
      PROVE  ThreadsOK'
  BY <1>23, CallTyping, NoCallTyping DEF Checkpoint, Start, Receive, Goto, ThreadsOK, Labels, Procs
<1>24. ASSUME NEW fd \in Fds, CheckpointRead(fd)
      PROVE  ThreadsOK'
  <2>1. CASE Done(fd)
    BY <2>1, DoneThreads DEF Procs
  <2>2. CASE ~Done(fd)
    BY <1>24, <2>2 DEF CheckpointRead, Goto, ThreadsOK, Labels, Procs
  <2>3. QED
    BY <2>1, <2>2
<1>25. ASSUME NEW fd \in Fds, CheckpointWrite(fd)
      PROVE  ThreadsOK'
  BY <1>25, DoneThreads DEF CheckpointWrite, Procs
<1>26. ASSUME NEW fd \in Fds, NEW f \in Files, NEW t \in Tags, Revert(fd, f, t)
      PROVE  ThreadsOK'
  BY <1>26, CallTyping, NoCallTyping DEF Revert, Start, Receive, Goto, ThreadsOK, Labels, Procs
<1>27. ASSUME NEW fd \in Fds, RevertRead(fd)
      PROVE  ThreadsOK'
  <2>1. CASE Done(fd)
    BY <2>1, DoneThreads DEF Procs
  <2>2. CASE ~Done(fd)
    BY <1>27, <2>2 DEF RevertRead, Goto, ThreadsOK, Labels, Procs
  <2>3. QED
    BY <2>1, <2>2
<1>28. ASSUME NEW p \in Procs, NEW f \in Files, Create(p, f)
      PROVE  ThreadsOK'
  BY <1>28, NoCallTyping DEF Create, Receive, ThreadsOK, Labels, Procs
<1>29. ASSUME NEW p \in Procs, NEW f \in Files, Delete(p, f)
      PROVE  ThreadsOK'
  <2>1. \A q \in Procs : [arg[q] EXCEPT !.live = FALSE] \in Arg
    BY DEF ThreadsOK, Arg
  <2>2. QED
    BY <1>29, <2>1 DEF Delete, ThreadsOK
<1>30. CASE UNCHANGED vars
  BY <1>30, NoCallTyping DEF vars, ThreadsOK, Labels, Procs
<1>31. QED
  BY <1>1, <1>2, <1>3, <1>4, <1>5, <1>6, <1>7, <1>8, <1>9, <1>10,
     <1>11, <1>12, <1>13, <1>14, <1>15, <1>16, <1>17, <1>18, <1>19, <1>20,
     <1>21, <1>22, <1>23, <1>24, <1>25, <1>26, <1>27, <1>28, <1>29, <1>30
  DEF Next, ClientStep, HandlerStep, FileStep

\* How a step may change the call of a thread and keep CallInv.
LEMMA CallUpdate ==
  ASSUME TypeInv, NEW p \in Procs, NEW label, NEW a,
         Goto(p, label), arg' = [arg EXCEPT ![p] = a], CallOK(p, label, a)
  PROVE  CallInv'
  BY DEF TypeInv, TypeOK, ThreadsOK, CallInv, Goto

\* The same for a step that keeps the call and only moves to another label.
LEMMA CallMoves ==
  ASSUME TypeInv, NEW p \in Procs, NEW label, Goto(p, label), arg' = arg,
         CallOK(p, label, arg[p])
  PROVE  CallInv'
  BY DEF TypeInv, TypeOK, ThreadsOK, CallInv, Goto

\* The same for a step that ends the command.
LEMMA CallDone ==
  ASSUME TypeInv, NEW p \in Procs, Done(p)
  PROVE  CallInv'
<1>1. CallOK(p, "idle", NoCall)
  BY NoCallTyping DEF CallOK, Resting
<1>2. QED
  BY <1>1, CallUpdate DEF Done

\* Every label is reached with the command and the arguments it needs.
LEMMA CallStep == TypeInv /\ [Next]_vars => CallInv'
<1> SUFFICES ASSUME TypeInv, [Next]_vars PROVE CallInv'
  OBVIOUS
<1> DEFINE Here(p) == CallOK(p, pc[p], arg[p])
<1>0. \A p \in Procs : Here(p) /\ arg[p] \in Arg
  BY DEF TypeInv, TypeOK, ThreadsOK, CallInv
<1>1. ASSUME NEW fd \in Fds, Accept(fd)
      PROVE  CallInv'
  <2>1. CallOK(fd, "idle", arg[fd])
    BY <1>1, <1>0 DEF Accept, CallOK, Resting, Procs
  <2>2. QED
    BY <1>1, <2>1, CallMoves DEF Accept, Procs
<1>2. ASSUME NEW fd \in Fds, Hangup(fd)
      PROVE  CallInv'
  <2>1. CallOK(fd, "closing", arg[fd])
    BY <1>2, <1>0 DEF Hangup, CallOK, Resting, Procs
  <2>2. QED
    BY <1>2, <2>1, CallMoves DEF Hangup, Procs
<1>3. ASSUME NEW fd \in Fds, CloseFd(fd)
      PROVE  CallInv'
  <2>1. CallOK(fd, "closed", arg[fd])
    BY <1>3, <1>0 DEF CloseFd, CallOK, Resting, Procs
  <2>2. QED
    BY <1>3, <2>1, CallMoves DEF CloseFd, Procs
<1>4. ASSUME Shutdown
      PROVE  CallInv'
  BY <1>4, NoCallTyping DEF Shutdown, CallInv, CallOK, Resting, Procs
<1>5. ASSUME Tick
      PROVE  CallInv'
  BY <1>5 DEF Tick, TypeInv, CallInv
<1>6. ASSUME NEW fd \in Fds, NEW f \in Files, NEW s \in Sents, Write(fd, f, s)
      PROVE  CallInv'
  <2>1. CallOK(fd, "size", Call("WRITE", f, s, NoFile))
    BY CallTyping, NoCallTyping DEF CallOK, Resting
  <2>2. QED
    BY <1>6, <2>1, CallUpdate DEF Write, Start, Procs
<1>7. ASSUME NEW fd \in Fds, WriteSize(fd)
      PROVE  CallInv'
  <2>1. CASE Done(fd)
    BY <2>1, CallDone DEF Procs
  <2>2. CASE ~Done(fd)
    <3>1. CallOK(fd, "check", arg[fd])
      BY <1>7, <1>0, <2>2 DEF WriteSize, CallOK, Resting, Procs
    <3>2. QED
      BY <1>7, <2>2, <3>1, CallMoves DEF WriteSize, Stay, Procs
  <2>3. QED
    BY <2>1, <2>2
<1>8. ASSUME NEW fd \in Fds, WriteCheck(fd)
      PROVE  CallInv'
  <2>1. CASE Done(fd)
    BY <2>1, CallDone DEF Procs
  <2>2. CASE ~Done(fd)
    <3>1. CallOK(fd, "add", arg[fd])
      BY <1>8, <1>0, <2>2 DEF WriteCheck, CallOK, Resting, Procs
    <3>2. QED
      BY <1>8, <2>2, <3>1, CallMoves DEF WriteCheck, Stay, Procs
  <2>3. QED
    BY <2>1, <2>2
<1>9. ASSUME NEW fd \in Fds, WriteAdd(fd)
      PROVE  CallInv'
  BY <1>9, CallDone DEF WriteAdd, Procs
<1>10. ASSUME NEW fd \in Fds, NEW idx \in 1..MaxDocWords, NEW new \in Inputs,
               Edit(fd, idx, new)
      PROVE  CallInv'
  BY <1>10 DEF Edit, TypeInv, CallInv
<1>11. ASSUME NEW fd \in Fds, Etirw(fd)
      PROVE  CallInv'
  <2>1. PICK l \in locks :
          Start(fd, Call("ETIRW", l.file, l.sent, NoFile),
                IF swap[<<l.file, l.sent, l.fd>>] # NoFile THEN "bread" ELSE "unlock")
    BY <1>11 DEF Etirw, WriteInfo
  <2>2. l \in Lock
    BY DEF TypeInv, TypeOK
  <2>3. \A label \in {"bread", "unlock"} :
          CallOK(fd, label, Call("ETIRW", l.file, l.sent, NoFile))
    BY <2>2, CallTyping DEF CallOK, Resting, Lock
  <2>4. QED
    BY <1>11, <2>1, <2>3, CallUpdate DEF Start, Procs
<1>12. ASSUME NEW p \in Procs, BackupRead(p)
      PROVE  CallInv'
  <2>1. CASE files[arg[p].file] = NoFile
    <3>1. CallOK(p, AfterBackup(p), arg[p])
      BY <1>12, <1>0 DEF BackupRead, CallOK, AfterBackup, Resting
    <3>2. QED
      BY <1>12, <2>1, <3>1, CallMoves DEF BackupRead
  <2>2. CASE files[arg[p].file] # NoFile
    <3>1. arg' = [arg EXCEPT ![p] = [arg[p] EXCEPT !.ts = clock]]
      BY <1>12, <2>2 DEF BackupRead
    <3>2. CallOK(p, "bwrite", [arg[p] EXCEPT !.ts = clock])
      BY <1>12, <1>0, ArgUpdate DEF BackupRead, CallOK, Resting, TypeInv, TypeOK
    <3>3. QED
      BY <1>12, <2>2, <3>1, <3>2, CallUpdate DEF BackupRead
  <2>3. QED
    BY <2>1, <2>2
<1>13. ASSUME NEW p \in Procs, BackupWrite(p)
      PROVE  CallInv'
  <2>1. CallOK(p, "blog", arg[p])
    BY <1>13, <1>0 DEF BackupWrite, CallOK, Resting
  <2>2. QED
    BY <1>13, <2>1, CallMoves DEF BackupWrite
<1>14. ASSUME NEW p \in Procs, BackupLog(p)
      PROVE  CallInv'
  <2>1. CallOK(p, AfterBackup(p), arg[p])
    BY <1>14, <1>0 DEF BackupLog, CallOK, AfterBackup, Resting
  <2>2. QED
    BY <1>14, <2>1, CallMoves DEF BackupLog
<1>15. ASSUME NEW fd \in Fds, EtirwMerge(fd)
      PROVE  CallInv'
  <2>1. CallOK(fd, "trunc", arg[fd])
    BY <1>15, <1>0 DEF EtirwMerge, CallOK, Resting, Procs
  <2>2. QED
    BY <1>15, <2>1, CallMoves DEF EtirwMerge, Procs
<1>16. ASSUME NEW p \in Procs, Truncate(p)
      PROVE  CallInv'
  <2>1. arg' = [arg EXCEPT ![p] = [arg[p] EXCEPT !.live = TRUE]]
    BY <1>16 DEF Truncate
  <2>2. CallOK(p, "write", [arg[p] EXCEPT !.live = TRUE])
    BY <1>16, <1>0, ArgUpdate, BoundsAssumption DEF Truncate, CallOK, Resting, Seconds
  <2>3. QED
    BY <1>16, <2>1, <2>2, CallUpdate DEF Truncate
<1>17. ASSUME NEW p \in Procs, WriteOut(p)
      PROVE  CallInv'
  <2>1. CallOK(p, IF arg[p].cmd = "UNDO" THEN "ulog" ELSE "meta", arg[p])
    BY <1>17, <1>0 DEF WriteOut, CallOK, Resting
  <2>2. QED
    BY <1>17, <2>1, CallMoves DEF WriteOut
<1>18. ASSUME NEW p \in Procs, UpdateTable(p)
      PROVE  CallInv'
  <2>1. CASE Done(p)
    BY <2>1, CallDone DEF Procs
  <2>2. CASE ~Done(p)
    <3>1. CallOK(p, "unlock", arg[p])
      BY <1>18, <1>0, <2>2 DEF UpdateTable, CallOK, Resting
    <3>2. QED
      BY <1>18, <2>2, <3>1, CallMoves DEF UpdateTable, Stay
  <2>3. QED
    BY <2>1, <2>2
<1>19. ASSUME NEW fd \in Fds, EtirwUnlock(fd)
      PROVE  CallInv'
  BY <1>19, CallDone DEF EtirwUnlock, Procs
<1>20. ASSUME NEW p \in Procs, NEW f \in Files, Undo(p, f)
      PROVE  CallInv'
  <2>1. CallOK(p, "ufind", Call("UNDO", f, 1, NoFile))
    BY CallTyping, NoCallTyping DEF CallOK, Resting
  <2>2. QED
    BY <1>20, <2>1, CallUpdate DEF Undo, Start
<1>21. ASSUME NEW p \in Procs, UndoFind(p)
      PROVE  CallInv'
  <2>1. CASE Done(p)
    BY <2>1, CallDone
  <2>2. CASE ~Done(p)
    <3>1. PICK ts \in Seconds :
            arg' = [arg EXCEPT ![p] = [arg[p] EXCEPT !.ts = ts]]
      BY <1>21, <2>2, UndoFound
    <3>2. pc[p] = "ufind"
      BY <1>21 DEF UndoFind
    <3>3. CallOK(p, "trunc", [arg[p] EXCEPT !.ts = ts])
      BY <1>0, <3>2, ArgUpdate DEF CallOK, Resting
    <3>4. QED
      BY <1>21, <2>2, <3>1, <3>3, UndoFound, CallUpdate
  <2>3. QED
    BY <2>1, <2>2
<1>22. ASSUME NEW p \in Procs, UndoLog(p)
      PROVE  CallInv'
  <2>1. CallOK(p, "meta", arg[p])
    BY <1>22, <1>0 DEF UndoLog, CallOK, Resting
  <2>2. QED
    BY <1>22, <2>1, CallMoves DEF UndoLog
<1>23. ASSUME NEW fd \in Fds, NEW f \in Files, NEW t \in Tags, Checkpoint(fd, f, t)
      PROVE  CallInv'
  <2>1. CallOK(fd, "cread", Call("CHECKPOINT", f, 1, t))
    BY CallTyping, NoCallTyping DEF CallOK, Resting
  <2>2. QED
    BY <1>23, <2>1, CallUpdate DEF Checkpoint, Start, Procs
<1>24. ASSUME NEW fd \in Fds, CheckpointRead(fd)
      PROVE  CallInv'
  <2>1. CASE Done(fd)
    BY <2>1, CallDone DEF Procs
  <2>2. CASE ~Done(fd)
    <3>1. CallOK(fd, "cwrite", arg[fd])
      BY <1>24, <1>0, <2>2 DEF CheckpointRead, CallOK, Resting, Procs
    <3>2. QED
      BY <1>24, <2>2, <3>1, CallMoves DEF CheckpointRead, Stay, Procs
  <2>3. QED
    BY <2>1, <2>2
<1>25. ASSUME NEW fd \in Fds, CheckpointWrite(fd)
      PROVE  CallInv'
  BY <1>25, CallDone DEF CheckpointWrite, Procs
<1>26. ASSUME NEW fd \in Fds, NEW f \in Files, NEW t \in Tags, Revert(fd, f, t)
      PROVE  CallInv'
  <2>1. CallOK(fd, "rread", Call("REVERT", f, 1, t))
    BY CallTyping, NoCallTyping DEF CallOK, Resting
  <2>2. QED
    BY <1>26, <2>1, CallUpdate DEF Revert, Start, Procs
<1>27. ASSUME NEW fd \in Fds, RevertRead(fd)
      PROVE  CallInv'
  <2>1. CASE Done(fd)
    BY <2>1, CallDone DEF Procs
  <2>2. CASE ~Done(fd)
    <3>1. CallOK(fd, "bread", arg[fd])
      BY <1>27, <1>0, <2>2 DEF RevertRead, CallOK, Resting, Procs
    <3>2. QED
      BY <1>27, <2>2, <3>1, CallMoves DEF RevertRead, Stay, Procs
  <2>3. QED
    BY <2>1, <2>2
<1>28. ASSUME NEW p \in Procs, NEW f \in Files, Create(p, f)
      PROVE  CallInv'
  BY <1>28 DEF Create, TypeInv, CallInv
<1>29. ASSUME NEW p \in Procs, NEW f \in Files, Delete(p, f)
      PROVE  CallInv'
  <2>1. \A q \in Procs : arg'[q] = arg[q] \/ arg'[q] = [arg[q] EXCEPT !.live = FALSE]
    BY <1>29 DEF Delete
  <2>2. \A q \in Procs : arg[q].file = f => pc[q] \notin Resting
    BY <1>0, NoCallTyping, NoFileAssumption DEF CallOK
  <2>3. \A q \in Procs : arg[q].file = f => CallOK(q, pc[q], [arg[q] EXCEPT !.live = FALSE])
    BY <1>0, <2>2, ArgUpdate, BoundsAssumption DEF CallOK, Seconds
  <2>4. QED
    BY <1>29, <1>0, <2>3 DEF Delete, CallInv
<1>30. CASE UNCHANGED vars
  BY <1>30 DEF vars, TypeInv, CallInv
<1>31. QED
  BY <1>1, <1>2, <1>3, <1>4, <1>5, <1>6, <1>7, <1>8, <1>9, <1>10,
     <1>11, <1>12, <1>13, <1>14, <1>15, <1>16, <1>17, <1>18, <1>19, <1>20,
     <1>21, <1>22, <1>23, <1>24, <1>25, <1>26, <1>27, <1>28, <1>29, <1>30
  DEF Next, ClientStep, HandlerStep, FileStep

\* Every step keeps types and calls.
LEMMA TypeStep == TypeInv /\ [Next]_vars => TypeInv'
  BY SharedStep, ThreadsStep, CallStep DEF TypeInv, TypeOK, SharedOK

\* Types and calls hold in every reachable state.
LEMMA TypeInvariance == Spec => []TypeInv
  BY TypeInit, TypeStep, PTL DEF Spec

\* Every variable keeps its type: a path is only ever looked up in the directory
\* that it belongs to, logs hold lines, locks name connections.
THEOREM TypeCorrect == Spec => []TypeOK
<1>1. TypeInv => TypeOK
  BY DEF TypeInv
<1>2. QED
  BY <1>1, TypeInvariance, PTL

-----------------------------------------------------------------------------
(* Locks *)

\* How a step of one thread that leaves locks and swap copies alone keeps LockInv:
\* in write mode it may only rest or go on committing, and it may not turn into a
\* commit, or go back to a label of the commit where the copy is needed.
LEMMA LockUpdate ==
  ASSUME TypeInv, LockInv, NEW p \in Procs, NEW label, NEW a,
         Goto(p, label), arg' = [arg EXCEPT ![p] = a], UNCHANGED <<locks, swap>>,
         InWriteMode(p) => label = "idle" \/ a.cmd = "ETIRW",
         a.cmd = "ETIRW" =>
           /\ arg[p].cmd = "ETIRW" /\ a.file = arg[p].file /\ a.sent = arg[p].sent
           /\ label \in Committing => pc[p] \in Committing
  PROVE  LockInv'
<1> USE DEF TypeInv, TypeOK, ThreadsOK, LockInv, Goto
<1>1. OneSentencePerConnection'
  BY DEF OneSentencePerConnection
<1>2. WriteModeInv'
  BY DEF WriteModeInv, InWriteMode, WriteInfo
<1>3. CommitHasItsCopy'
  BY DEF CommitHasItsCopy, Procs
<1>4. QED
  BY <1>1, <1>2, <1>3

\* The same for a step that only moves to another label.
LEMMA LockMoves ==
  ASSUME TypeInv, LockInv, NEW p \in Procs, NEW label,
         Goto(p, label), UNCHANGED <<arg, locks, swap>>,
         InWriteMode(p) => label = "idle" \/ arg[p].cmd = "ETIRW",
         arg[p].cmd = "ETIRW" => (label \in Committing => pc[p] \in Committing)
  PROVE  LockInv'
<1>1. arg' = [arg EXCEPT ![p] = arg[p]]
  BY DEF TypeInv, TypeOK, ThreadsOK
<1>2. QED
  BY <1>1, LockUpdate

\* The same for a step that ends the command.
LEMMA LockDone ==
  ASSUME TypeInv, LockInv, NEW p \in Procs, Done(p), UNCHANGED <<locks, swap>>
  PROVE  LockInv'
  BY LockUpdate, NoCallTyping DEF Done

\* A thread in the middle of a command other than ETIRW holds no lock.
LEMMA NotEditing ==
  ASSUME TypeInv, LockInv, NEW p \in Procs, pc[p] # "idle", arg[p].cmd # "ETIRW"
  PROVE  ~InWriteMode(p)
  BY DEF TypeInv, TypeOK, LockInv, WriteModeInv, InWriteMode, WriteInfo

\* The name server's thread holds none either.
LEMMA NSNotEditing ==
  ASSUME TypeInv PROVE ~InWriteMode(NS)
  BY NSAssumption DEF TypeInv, TypeOK, Lock, InWriteMode, WriteInfo

\* Every step keeps the agreement of locks, threads and swap copies.
LEMMA LockStep == TypeInv /\ LockInv /\ [Next]_vars => LockInv'
<1> SUFFICES ASSUME TypeInv, LockInv, [Next]_vars PROVE LockInv'
  OBVIOUS
<1>0. \A p \in Procs : CallOK(p, pc[p], arg[p]) /\ arg[p] \in Arg
  BY DEF TypeInv, TypeOK, ThreadsOK, CallInv
<1>1. ASSUME NEW fd \in Fds, Accept(fd)
      PROVE  LockInv'
  BY <1>1, <1>0, NoCallTyping, LockMoves DEF Accept, CallOK, Resting, Procs
<1>2. ASSUME NEW fd \in Fds, Hangup(fd)
      PROVE  LockInv'
  <2>1. arg[fd].cmd # "ETIRW"
    BY <1>2, <1>0, NoCallTyping DEF Hangup, CallOK, Resting, Procs
  <2>2. \A l \in locks' : l \in locks /\ l.fd # fd
    BY <1>2 DEF Hangup
  <2>3. \A l \in locks : l.fd # fd => l \in locks'
    BY <1>2 DEF Hangup
  <2>4. pc' = [pc EXCEPT ![fd] = "closing"] /\ arg' = arg /\ swap' = swap
    BY <1>2 DEF Hangup, Goto
  <2>5. OneSentencePerConnection'
    BY <2>2 DEF LockInv, OneSentencePerConnection
  <2>6. WriteModeInv'
    <3>1. \A l \in locks : l.fd \in Procs
      BY DEF TypeInv, TypeOK, Lock, Procs
    <3>2. QED
      BY <2>2, <2>4, <3>1 DEF LockInv, WriteModeInv, TypeInv, TypeOK, ThreadsOK
  <2>7. CommitHasItsCopy'
    BY <2>1, <2>3, <2>4 DEF LockInv, CommitHasItsCopy, TypeInv, TypeOK, ThreadsOK, Procs
  <2>8. QED
    BY <2>5, <2>6, <2>7 DEF LockInv
<1>3. ASSUME NEW fd \in Fds, CloseFd(fd)
      PROVE  LockInv'
  <2>1. ~InWriteMode(fd) /\ arg[fd].cmd # "ETIRW"
    BY <1>3, <1>0, NoCallTyping, NotEditing DEF CloseFd, CallOK, Resting, Procs
  <2>2. QED
    BY <1>3, <2>1, LockMoves DEF CloseFd, Procs
<1>4. ASSUME Shutdown
      PROVE  LockInv'
  BY <1>4, NoCallTyping DEF Shutdown, LockInv, OneSentencePerConnection, WriteModeInv, CommitHasItsCopy, Procs
<1>5. ASSUME Tick
      PROVE  LockInv'
  BY <1>5 DEF Tick, LockInv, OneSentencePerConnection, WriteModeInv, CommitHasItsCopy
<1>6. ASSUME NEW fd \in Fds, NEW f \in Files, NEW s \in Sents, Write(fd, f, s)
      PROVE  LockInv'
  <2>1. ~InWriteMode(fd)
    BY <1>6 DEF Write
  <2>2. Call("WRITE", f, s, NoFile).cmd # "ETIRW"
    BY CallTyping, NoCallTyping
  <2>3. QED
    BY <1>6, <2>1, <2>2, LockUpdate DEF Write, Start, Procs
<1>7. ASSUME NEW fd \in Fds, WriteSize(fd)
      PROVE  LockInv'
  <2>1. pc[fd] # "idle" /\ arg[fd].cmd # "ETIRW"
    BY <1>7, <1>0 DEF WriteSize, CallOK, Procs
  <2>2. ~InWriteMode(fd)
    BY <2>1, NotEditing DEF Procs
  <2>3. CASE Done(fd)
    BY <1>7, <2>3, LockDone DEF WriteSize, Procs
  <2>4. CASE ~Done(fd)
    BY <1>7, <2>1, <2>2, <2>4, LockMoves DEF WriteSize, Stay, Procs
  <2>5. QED
    BY <2>3, <2>4
<1>8. ASSUME NEW fd \in Fds, WriteCheck(fd)
      PROVE  LockInv'
  <2>1. pc[fd] # "idle" /\ arg[fd].cmd # "ETIRW"
    BY <1>8, <1>0 DEF WriteCheck, CallOK, Procs
  <2>2. ~InWriteMode(fd)
    BY <2>1, NotEditing DEF Procs
  <2>3. CASE Done(fd)
    BY <1>8, <2>3, LockDone DEF WriteCheck, Procs
  <2>4. CASE ~Done(fd)
    BY <1>8, <2>1, <2>2, <2>4, LockMoves DEF WriteCheck, Stay, Procs
  <2>5. QED
    BY <2>3, <2>4
<1>9. ASSUME NEW fd \in Fds, WriteAdd(fd)
      PROVE  LockInv'
  <2>1. pc[fd] # "idle" /\ arg[fd].cmd # "ETIRW"
    BY <1>9, <1>0 DEF WriteAdd, CallOK, Procs
  <2>2. \A l \in locks : l.fd # fd
    BY <2>1, NotEditing DEF InWriteMode, WriteInfo, Procs
  <2> DEFINE new == [file |-> arg[fd].file, sent |-> arg[fd].sent, fd |-> fd]
  <2>3. new.fd = fd /\ locks' = locks \cup {new}
    BY <1>9 DEF WriteAdd
  <2> HIDE DEF new
  <2>4. pc' = [pc EXCEPT ![fd] = "idle"] /\ arg' = [arg EXCEPT ![fd] = NoCall] /\ swap' = swap
    BY <1>9 DEF WriteAdd, Done, Goto
  <2>5. OneSentencePerConnection'
    BY <2>2, <2>3 DEF LockInv, OneSentencePerConnection
  <2>6. WriteModeInv'
    BY <2>2, <2>3, <2>4 DEF LockInv, WriteModeInv, TypeInv, TypeOK, ThreadsOK, Procs
  <2>7. CommitHasItsCopy'
    BY <2>3, <2>4, NoCallTyping DEF LockInv, CommitHasItsCopy, TypeInv, TypeOK, ThreadsOK, Procs
  <2>8. QED
    BY <2>5, <2>6, <2>7 DEF LockInv
<1>10. ASSUME NEW fd \in Fds, NEW idx \in 1..MaxDocWords, NEW new \in Inputs,
               Edit(fd, idx, new)
      PROVE  LockInv'
  <2>1. arg[fd].cmd # "ETIRW" /\ UNCHANGED <<locks, pc, arg>>
    BY <1>10, <1>0, NoCallTyping DEF Edit, Receive, CallOK, Resting, Procs
  <2>2. PICK l \in locks : l.fd = fd /\ \E doc : swap' = [swap EXCEPT ![<<l.file, l.sent, l.fd>>] = doc]
    BY <1>10 DEF Edit, WriteInfo
  <2>3. \A f \in Files, s \in Sents, d \in Fds : d # fd => swap'[<<f, s, d>>] = swap[<<f, s, d>>]
    BY <2>2 DEF TypeInv, TypeOK, DiskOK
  <2>4. CommitHasItsCopy'
    <3> SUFFICES ASSUME NEW d \in Fds, arg[d].cmd = "ETIRW"
                 PROVE  /\ [file |-> arg[d].file, sent |-> arg[d].sent, fd |-> d] \in locks
                        /\ pc[d] \in Committing => swap'[<<arg[d].file, arg[d].sent, d>>] # NoFile
      BY <2>1 DEF CommitHasItsCopy
    <3>1. arg[d].file \in Files /\ arg[d].sent \in Sents
      BY <1>0, NoCallTyping DEF CallOK, Arg, Procs
    <3>2. QED
      BY <2>1, <2>3, <3>1 DEF LockInv, CommitHasItsCopy
  <2>5. QED
    BY <2>1, <2>4 DEF LockInv, OneSentencePerConnection, WriteModeInv
<1>11. ASSUME NEW fd \in Fds, Etirw(fd)
      PROVE  LockInv'
  <2>1. PICK l \in locks :
          /\ l.fd = fd
          /\ Start(fd, Call("ETIRW", l.file, l.sent, NoFile),
                   IF swap[<<l.file, l.sent, l.fd>>] # NoFile THEN "bread" ELSE "unlock")
    BY <1>11 DEF Etirw, WriteInfo
  <2> DEFINE a == Call("ETIRW", l.file, l.sent, NoFile)
             label == IF swap[<<l.file, l.sent, l.fd>>] # NoFile THEN "bread" ELSE "unlock"
  <2>2. l \in Lock
    BY DEF TypeInv, TypeOK
  <2>3. a.cmd = "ETIRW" /\ a.file = l.file /\ a.sent = l.sent
    BY <2>2, CallTyping DEF Lock
  <2>4. [file |-> a.file, sent |-> a.sent, fd |-> fd] = l
    BY <2>1, <2>2, <2>3 DEF Lock
  <2>5. label \in Committing => swap[<<a.file, a.sent, fd>>] # NoFile
    BY <2>1, <2>3 DEF Committing
  <2>6. /\ pc' = [pc EXCEPT ![fd] = label] /\ arg' = [arg EXCEPT ![fd] = a]
        /\ UNCHANGED <<locks, swap>>
    BY <1>11, <2>1 DEF Start, Goto, Etirw
  <2> HIDE DEF a, label
  <2>7. WriteModeInv'
    BY <2>3, <2>6 DEF LockInv, WriteModeInv, TypeInv, TypeOK, ThreadsOK, Procs
  <2>8. CommitHasItsCopy'
    BY <2>3, <2>4, <2>5, <2>6 DEF LockInv, CommitHasItsCopy, TypeInv, TypeOK, ThreadsOK, Procs
  <2>9. QED
    BY <2>6, <2>7, <2>8 DEF LockInv, OneSentencePerConnection
<1>12. ASSUME NEW p \in Procs, BackupRead(p)
      PROVE  LockInv'
  <2>1. pc[p] = "bread"
    BY <1>12 DEF BackupRead
  <2>2. CASE files[arg[p].file] = NoFile
    BY <1>12, <2>1, <2>2, NotEditing, LockMoves DEF BackupRead, Committing
  <2>3. CASE files[arg[p].file] # NoFile
    <3>1. arg' = [arg EXCEPT ![p] = [arg[p] EXCEPT !.ts = clock]]
      BY <1>12, <2>3 DEF BackupRead
    <3>2. /\ [arg[p] EXCEPT !.ts = clock].cmd = arg[p].cmd
          /\ [arg[p] EXCEPT !.ts = clock].file = arg[p].file
          /\ [arg[p] EXCEPT !.ts = clock].sent = arg[p].sent
      BY <1>0, ArgUpdate DEF TypeInv, TypeOK
    <3>3. InWriteMode(p) => arg[p].cmd = "ETIRW"
      BY <2>1, NotEditing
    <3>4. QED
      BY <1>12, <2>1, <2>3, <3>1, <3>2, <3>3, LockUpdate DEF BackupRead, Committing
  <2>4. QED
    BY <2>2, <2>3
<1>13. ASSUME NEW p \in Procs, BackupWrite(p)
      PROVE  LockInv'
  <2>1. pc[p] \in Committing /\ pc[p] # "idle"
    BY <1>13 DEF BackupWrite, Committing
  <2>2. QED
    BY <1>13, <2>1, NotEditing, LockMoves DEF BackupWrite
<1>14. ASSUME NEW p \in Procs, BackupLog(p)
      PROVE  LockInv'
  <2>1. pc[p] \in Committing /\ pc[p] # "idle"
    BY <1>14 DEF BackupLog, Committing
  <2>2. QED
    BY <1>14, <2>1, NotEditing, LockMoves DEF BackupLog
<1>15. ASSUME NEW fd \in Fds, EtirwMerge(fd)
      PROVE  LockInv'
  <2>1. pc[fd] \in Committing /\ pc[fd] # "idle"
    BY <1>15 DEF EtirwMerge, Committing
  <2>2. QED
    BY <1>15, <2>1, NotEditing, LockMoves DEF EtirwMerge, Procs
<1>16. ASSUME NEW p \in Procs, Truncate(p)
      PROVE  LockInv'
  <2>1. arg' = [arg EXCEPT ![p] = [arg[p] EXCEPT !.live = TRUE]]
    BY <1>16 DEF Truncate
  <2>2. /\ [arg[p] EXCEPT !.live = TRUE].cmd = arg[p].cmd
        /\ [arg[p] EXCEPT !.live = TRUE].file = arg[p].file
        /\ [arg[p] EXCEPT !.live = TRUE].sent = arg[p].sent
    BY <1>0, ArgUpdate, BoundsAssumption DEF Seconds
  <2>3. InWriteMode(p) => arg[p].cmd = "ETIRW"
    BY <1>16, NotEditing DEF Truncate
  <2>4. QED
    BY <1>16, <2>1, <2>2, <2>3, LockUpdate DEF Truncate, Committing
<1>17. ASSUME NEW p \in Procs, WriteOut(p)
      PROVE  LockInv'
  <2> DEFINE label == IF arg[p].cmd = "UNDO" THEN "ulog" ELSE "meta"
  <2>1. pc[p] = "write" /\ pc' = [pc EXCEPT ![p] = label] /\ UNCHANGED <<arg, locks>>
    BY <1>17 DEF WriteOut, Goto
  <2>2. label \notin Committing
    BY DEF Committing
  <2>3. /\ arg[p].cmd # "ETIRW" => swap' = swap
        /\ arg[p].cmd = "ETIRW" => swap' = [swap EXCEPT ![<<arg[p].file, arg[p].sent, p>>] = NoFile]
    BY <1>17 DEF WriteOut
  <2> HIDE DEF label
  <2>4. WriteModeInv'
    BY <2>1 DEF LockInv, WriteModeInv, TypeInv, TypeOK, ThreadsOK
  <2>5. \A f \in Files, s \in Sents, d \in Fds : d # p => swap'[<<f, s, d>>] = swap[<<f, s, d>>]
    BY <2>3 DEF TypeInv, TypeOK, DiskOK
  <2>6. CommitHasItsCopy'
    <3> SUFFICES ASSUME NEW d \in Fds, arg[d].cmd = "ETIRW"
                 PROVE  /\ [file |-> arg[d].file, sent |-> arg[d].sent, fd |-> d] \in locks
                        /\ pc'[d] \in Committing => swap'[<<arg[d].file, arg[d].sent, d>>] # NoFile
      BY <2>1 DEF CommitHasItsCopy
    <3>1. arg[d].file \in Files /\ arg[d].sent \in Sents
      BY <1>0, NoCallTyping DEF CallOK, Arg, Procs
    <3>2. d = p => pc'[d] \notin Committing
      BY <2>1, <2>2 DEF TypeInv, TypeOK, ThreadsOK
    <3>3. d # p => pc'[d] = pc[d]
      BY <2>1 DEF TypeInv, TypeOK, ThreadsOK
    <3>4. QED
      BY <2>5, <3>1, <3>2, <3>3 DEF LockInv, CommitHasItsCopy
  <2>7. QED
    BY <2>1, <2>4, <2>6 DEF LockInv, OneSentencePerConnection
<1>18. ASSUME NEW p \in Procs, UpdateTable(p)
      PROVE  LockInv'
  <2>1. InWriteMode(p) => arg[p].cmd = "ETIRW"
    BY <1>18, NotEditing DEF UpdateTable
  <2>2. CASE Done(p)
    BY <1>18, <2>2, LockDone DEF UpdateTable
  <2>3. CASE ~Done(p)
    BY <1>18, <2>1, <2>3, LockMoves DEF UpdateTable, Stay, Committing
  <2>4. QED
    BY <2>2, <2>3
<1>19. ASSUME NEW fd \in Fds, EtirwUnlock(fd)
      PROVE  LockInv'
  <2>1. /\ pc' = [pc EXCEPT ![fd] = "idle"] /\ arg' = [arg EXCEPT ![fd] = NoCall]
        /\ swap' = swap
    BY <1>19 DEF EtirwUnlock, Done, Goto
  <2>2. locks' \subseteq locks /\ \A l \in locks : l.fd # fd => l \in locks'
    BY <1>19 DEF EtirwUnlock
  <2>3. OneSentencePerConnection'
    BY <2>2 DEF LockInv, OneSentencePerConnection
  <2>4. WriteModeInv'
    BY <2>1, <2>2 DEF LockInv, WriteModeInv, TypeInv, TypeOK, ThreadsOK, Procs
  <2>5. CommitHasItsCopy'
    BY <2>1, <2>2, NoCallTyping DEF LockInv, CommitHasItsCopy, TypeInv, TypeOK, ThreadsOK, Procs
  <2>6. QED
    BY <2>3, <2>4, <2>5 DEF LockInv
<1>20. ASSUME NEW p \in Procs, NEW f \in Files, Undo(p, f)
      PROVE  LockInv'
  <2>1. ~InWriteMode(p)
    BY <1>20, NSNotEditing DEF Undo
  <2>2. Call("UNDO", f, 1, NoFile).cmd # "ETIRW"
    BY CallTyping, NoCallTyping
  <2>3. QED
    BY <1>20, <2>1, <2>2, LockUpdate DEF Undo, Start
<1>21. ASSUME NEW p \in Procs, UndoFind(p)
      PROVE  LockInv'
  <2>1. pc[p] # "idle" /\ arg[p].cmd # "ETIRW"
    BY <1>21, <1>0 DEF UndoFind, CallOK
  <2>2. ~InWriteMode(p)
    BY <2>1, NotEditing
  <2>3. UNCHANGED <<locks, swap>>
    BY <1>21 DEF UndoFind
  <2>4. CASE Done(p)
    BY <2>3, <2>4, LockDone
  <2>5. CASE ~Done(p)
    <3>1. PICK ts \in Seconds :
            arg' = [arg EXCEPT ![p] = [arg[p] EXCEPT !.ts = ts]]
      BY <1>21, <2>5, UndoFound
    <3>2. [arg[p] EXCEPT !.ts = ts].cmd # "ETIRW"
      BY <1>0, <2>1, ArgUpdate
    <3>3. QED
      BY <1>21, <2>2, <2>3, <2>5, <3>1, <3>2, UndoFound, LockUpdate
  <2>6. QED
    BY <2>4, <2>5
<1>22. ASSUME NEW p \in Procs, UndoLog(p)
      PROVE  LockInv'
  <2>1. pc[p] # "idle" /\ arg[p].cmd # "ETIRW"
    BY <1>22, <1>0 DEF UndoLog, CallOK
  <2>2. ~InWriteMode(p)
    BY <2>1, NotEditing
  <2>3. QED
    BY <1>22, <2>1, <2>2, LockMoves DEF UndoLog
<1>23. ASSUME NEW fd \in Fds, NEW f \in Files, NEW t \in Tags, Checkpoint(fd, f, t)
      PROVE  LockInv'
  <2>1. ~InWriteMode(fd)
    BY <1>23 DEF Checkpoint
  <2>2. Call("CHECKPOINT", f, 1, t).cmd # "ETIRW"
    BY CallTyping, NoCallTyping
  <2>3. QED
    BY <1>23, <2>1, <2>2, LockUpdate DEF Checkpoint, Start, Procs
<1>24. ASSUME NEW fd \in Fds, CheckpointRead(fd)
      PROVE  LockInv'
  <2>1. pc[fd] # "idle" /\ arg[fd].cmd # "ETIRW"
    BY <1>24, <1>0 DEF CheckpointRead, CallOK, Procs
  <2>2. ~InWriteMode(fd)
    BY <2>1, NotEditing DEF Procs
  <2>3. CASE Done(fd)
    BY <1>24, <2>3, LockDone DEF CheckpointRead, Procs
  <2>4. CASE ~Done(fd)
    BY <1>24, <2>1, <2>2, <2>4, LockMoves DEF CheckpointRead, Stay, Procs
  <2>5. QED
    BY <2>3, <2>4
<1>25. ASSUME NEW fd \in Fds, CheckpointWrite(fd)
      PROVE  LockInv'
  BY <1>25, LockDone DEF CheckpointWrite, Procs
<1>26. ASSUME NEW fd \in Fds, NEW f \in Files, NEW t \in Tags, Revert(fd, f, t)
      PROVE  LockInv'
  <2>1. ~InWriteMode(fd)
    BY <1>26 DEF Revert
  <2>2. Call("REVERT", f, 1, t).cmd # "ETIRW"
    BY CallTyping, NoCallTyping
  <2>3. QED
    BY <1>26, <2>1, <2>2, LockUpdate DEF Revert, Start, Procs
<1>27. ASSUME NEW fd \in Fds, RevertRead(fd)
      PROVE  LockInv'
  <2>1. pc[fd] # "idle" /\ arg[fd].cmd # "ETIRW"
    BY <1>27, <1>0 DEF RevertRead, CallOK, Procs
  <2>2. ~InWriteMode(fd)
    BY <2>1, NotEditing DEF Procs
  <2>3. CASE Done(fd)
    BY <1>27, <2>3, LockDone DEF RevertRead, Procs
  <2>4. CASE ~Done(fd)
    BY <1>27, <2>1, <2>2, <2>4, LockMoves DEF RevertRead, Stay, Procs
  <2>5. QED
    BY <2>3, <2>4
<1>28. ASSUME NEW p \in Procs, NEW f \in Files, Create(p, f)
      PROVE  LockInv'
  BY <1>28 DEF Create, LockInv, OneSentencePerConnection, WriteModeInv, CommitHasItsCopy
<1>29. ASSUME NEW p \in Procs, NEW f \in Files, Delete(p, f)
      PROVE  LockInv'
  <2>1. UNCHANGED <<pc, locks, swap>>
    BY <1>29 DEF Delete
  <2>2. \A q \in Procs : arg'[q].cmd = arg[q].cmd /\ arg'[q].file = arg[q].file
                         /\ arg'[q].sent = arg[q].sent
    BY <1>29, <1>0, ArgUpdate, BoundsAssumption DEF Delete, Seconds
  <2>3. WriteModeInv'
    BY <2>1, <2>2 DEF LockInv, WriteModeInv, TypeInv, TypeOK, Lock, Procs
  <2>4. CommitHasItsCopy'
    BY <2>1, <2>2 DEF LockInv, CommitHasItsCopy, Procs
  <2>5. QED
    BY <2>1, <2>3, <2>4 DEF LockInv, OneSentencePerConnection
<1>30. CASE UNCHANGED vars
  BY <1>30 DEF vars, LockInv, OneSentencePerConnection, WriteModeInv, CommitHasItsCopy
<1>31. QED
  BY <1>1, <1>2, <1>3, <1>4, <1>5, <1>6, <1>7, <1>8, <1>9, <1>10,
     <1>11, <1>12, <1>13, <1>14, <1>15, <1>16, <1>17, <1>18, <1>19, <1>20,
     <1>21, <1>22, <1>23, <1>24, <1>25, <1>26, <1>27, <1>28, <1>29, <1>30
  DEF Next, ClientStep, HandlerStep, FileStep

\* Locks, threads and swap copies agree in every reachable state.
LEMMA LockInvariance == Spec => []LockInv
<1>1. Init => LockInv
  BY NoCallTyping DEF Init, LockInv, OneSentencePerConnection, WriteModeInv, CommitHasItsCopy, Procs
<1>2. QED
  BY <1>1, TypeInvariance, LockStep, PTL DEF Spec

\* A connection never holds two locks, although nothing in the list prevents it.
THEOREM OneSentence == Spec => []OneSentencePerConnection
<1>1. LockInv => OneSentencePerConnection
  BY DEF LockInv
<1>2. QED
  BY <1>1, LockInvariance, PTL

\* No lock outlives its connection, so a reused descriptor starts without one.
THEOREM NoOrphanLocks == Spec => []LocksBelongToOpenConnections
<1>1. TypeInv /\ LockInv => LocksBelongToOpenConnections
  <2> SUFFICES ASSUME TypeInv, LockInv, NEW l \in locks
               PROVE  pc[l.fd] \notin {"closed", "closing"}
    BY DEF LocksBelongToOpenConnections
  <2>1. l.fd \in Procs
    BY DEF TypeInv, TypeOK, Lock, Procs
  <2>2. pc[l.fd] \in Resting => arg[l.fd].cmd = "none"
    BY <2>1, NoCallTyping DEF TypeInv, CallInv, CallOK
  <2>3. QED
    BY <2>2 DEF LockInv, WriteModeInv, Resting
<1>2. QED
  BY <1>1, TypeInvariance, LockInvariance, PTL

\* A commit under way has its lock and the swap copy it is going to read.
THEOREM CommitCopy == Spec => []CommitHasItsCopy
<1>1. LockInv => CommitHasItsCopy
  BY DEF LockInv
<1>2. QED
  BY <1>1, LockInvariance, PTL

-----------------------------------------------------------------------------
(* The undo history *)

\* How a step of one thread that leaves logs and backups alone keeps HistoryInv.
LEMMA HistoryUpdate ==
  ASSUME TypeInv, HistoryInv, NEW p \in Procs, NEW label, NEW a, NEW doc, NEW lines,
         Goto(p, label), arg' = [arg EXCEPT ![p] = a], log' = [log EXCEPT ![p] = lines],
         seen'[p] = doc, \A q \in Procs : q # p => seen'[q] = seen[q],
         UNCHANGED <<undo, backups>>,
         PendingLog(label, a, doc, lines)
  PROVE  HistoryInv'
<1> USE DEF TypeInv, TypeOK, ThreadsOK, HistoryInv
<1>1. UndoLogResolves'
  BY DEF UndoLogResolves
<1>2. \A q \in Procs :
        \/ pc'[q] = pc[q] /\ arg'[q] = arg[q] /\ seen'[q] = seen[q] /\ log'[q] = log[q]
        \/ pc'[q] = label /\ arg'[q] = a /\ seen'[q] = doc /\ log'[q] = lines
  BY DEF Goto
<1>3. ASSUME NEW q \in Procs
      PROVE  PendingLog(pc[q], arg[q], seen[q], log[q])'
  <2>1. CASE pc'[q] = pc[q] /\ arg'[q] = arg[q] /\ seen'[q] = seen[q] /\ log'[q] = log[q]
    BY <2>1 DEF PendingLogInv, PendingLog
  <2>2. CASE pc'[q] = label /\ arg'[q] = a /\ seen'[q] = doc /\ log'[q] = lines
    BY <2>2 DEF PendingLog
  <2>3. QED
    BY <1>2, <2>1, <2>2
<1>4. QED
  BY <1>1, <1>3 DEF PendingLogInv

\* The same for a step that only moves to another label.
LEMMA HistoryMoves ==
  ASSUME TypeInv, HistoryInv, NEW p \in Procs, NEW label,
         Goto(p, label), UNCHANGED <<arg, log, undo, backups>>,
         \A q \in Procs : q # p => seen'[q] = seen[q],
         label \notin {"bwrite", "blog"}
  PROVE  HistoryInv'
<1> USE DEF TypeInv, TypeOK, ThreadsOK, HistoryInv
<1>1. UndoLogResolves'
  BY DEF UndoLogResolves
<1>2. \A q \in Procs : q # p => pc'[q] = pc[q]
  BY DEF Goto
<1>3. pc'[p] = label
  BY DEF Goto
<1>4. PendingLogInv'
  BY <1>2, <1>3 DEF PendingLogInv, PendingLog
<1>5. QED
  BY <1>1, <1>4

\* The same for a step that ends the command.
LEMMA HistoryDone ==
  ASSUME TypeInv, HistoryInv, NEW p \in Procs, Done(p), UNCHANGED <<undo, backups>>
  PROVE  HistoryInv'
<1>1. PendingLog("idle", NoCall, NoFile, <<>>)
  BY NoCallTyping DEF PendingLog
<1>2. QED
  BY <1>1, HistoryUpdate DEF Done, TypeInv, TypeOK, ThreadsOK

\* A thread without an UNDO has an empty log in memory, so it can start any command.
LEMMA HistoryStart ==
  ASSUME TypeInv, HistoryInv, NEW p \in Procs, NEW call, NEW label, pc[p] = "idle",
         Start(p, call, label), UNCHANGED <<log, undo, backups>>,
         \A q \in Procs : q # p => seen'[q] = seen[q],
         label \notin {"bwrite", "blog"}
  PROVE  HistoryInv'
<1> USE DEF TypeInv, TypeOK, ThreadsOK, HistoryInv
<1>1. arg[p].cmd # "UNDO"
  BY NoCallTyping DEF CallInv, CallOK, Resting
<1>2. log[p] = <<>>
  BY <1>1 DEF PendingLogInv, PendingLog
<1>3. UndoLogResolves'
  BY DEF UndoLogResolves
<1>4. PendingLogInv'
  BY <1>2 DEF PendingLogInv, PendingLog, Start, Goto
<1>5. QED
  BY <1>3, <1>4

\* Every step keeps the backup of every line, in the logs and in memory.
LEMMA HistoryStep == TypeInv /\ HistoryInv /\ [Next]_vars => HistoryInv'
<1> SUFFICES ASSUME TypeInv, HistoryInv, [Next]_vars PROVE HistoryInv'
  OBVIOUS
<1>0. \A p \in Procs : CallOK(p, pc[p], arg[p]) /\ arg[p] \in Arg
  BY DEF TypeInv, TypeOK, ThreadsOK, CallInv
<1>1. ASSUME NEW fd \in Fds, Accept(fd)
      PROVE  HistoryInv'
  BY <1>1, HistoryMoves DEF Accept, Procs
<1>2. ASSUME NEW fd \in Fds, Hangup(fd)
      PROVE  HistoryInv'
  BY <1>2, HistoryMoves DEF Hangup, Procs
<1>3. ASSUME NEW fd \in Fds, CloseFd(fd)
      PROVE  HistoryInv'
  BY <1>3, HistoryMoves DEF CloseFd, Procs
<1>4. ASSUME Shutdown
      PROVE  HistoryInv'
  BY <1>4, NoCallTyping DEF Shutdown, HistoryInv, UndoLogResolves, PendingLogInv, PendingLog, Procs
<1>5. ASSUME Tick
      PROVE  HistoryInv'
  BY <1>5 DEF Tick, HistoryInv, UndoLogResolves, PendingLogInv, PendingLog
<1>6. ASSUME NEW fd \in Fds, NEW f \in Files, NEW s \in Sents, Write(fd, f, s)
      PROVE  HistoryInv'
  BY <1>6, HistoryStart DEF Write, Receive, Procs
<1>7. ASSUME NEW fd \in Fds, WriteSize(fd)
      PROVE  HistoryInv'
  <2>1. CASE Done(fd)
    BY <1>7, <2>1, HistoryDone DEF WriteSize, Procs
  <2>2. CASE ~Done(fd)
    BY <1>7, <2>2, HistoryMoves DEF WriteSize, Stay, Procs
  <2>3. QED
    BY <2>1, <2>2
<1>8. ASSUME NEW fd \in Fds, WriteCheck(fd)
      PROVE  HistoryInv'
  <2>1. CASE Done(fd)
    BY <1>8, <2>1, HistoryDone DEF WriteCheck, Procs
  <2>2. CASE ~Done(fd)
    BY <1>8, <2>2, HistoryMoves DEF WriteCheck, Stay, Procs
  <2>3. QED
    BY <2>1, <2>2
<1>9. ASSUME NEW fd \in Fds, WriteAdd(fd)
      PROVE  HistoryInv'
  BY <1>9, HistoryDone DEF WriteAdd, Procs
<1>10. ASSUME NEW fd \in Fds, NEW idx \in 1..MaxDocWords, NEW new \in Inputs,
               Edit(fd, idx, new)
      PROVE  HistoryInv'
  BY <1>10 DEF Edit, HistoryInv, UndoLogResolves, PendingLogInv, PendingLog
<1>11. ASSUME NEW fd \in Fds, Etirw(fd)
      PROVE  HistoryInv'
  <2>1. PICK l \in locks :
          Start(fd, Call("ETIRW", l.file, l.sent, NoFile),
                IF swap[<<l.file, l.sent, l.fd>>] # NoFile THEN "bread" ELSE "unlock")
    BY <1>11 DEF Etirw, WriteInfo
  <2>2. QED
    BY <1>11, <2>1, HistoryStart DEF Etirw, Receive, Procs
<1>12. ASSUME NEW p \in Procs, BackupRead(p)
      PROVE  HistoryInv'
  <2>1. CASE files[arg[p].file] = NoFile
    <3>1. AfterBackup(p) \notin {"bwrite", "blog"}
      BY DEF AfterBackup
    <3>2. QED
      BY <1>12, <2>1, <3>1, HistoryMoves DEF BackupRead
  <2>2. CASE files[arg[p].file] # NoFile
    <3>1. /\ arg' = [arg EXCEPT ![p] = [arg[p] EXCEPT !.ts = clock]]
          /\ seen' = [seen EXCEPT ![p] = files[arg[p].file]]
          /\ Goto(p, "bwrite")
          /\ UNCHANGED <<log, undo, backups>>
      BY <1>12, <2>2 DEF BackupRead
    <3>2. arg[p].cmd # "UNDO"
      BY <1>12, <1>0 DEF BackupRead, CallOK
    <3>3. [arg[p] EXCEPT !.ts = clock].cmd = arg[p].cmd
      BY <1>0, ArgUpdate DEF TypeInv, TypeOK
    <3>4. PendingLog("bwrite", [arg[p] EXCEPT !.ts = clock], files[arg[p].file], log[p])
      BY <2>2, <3>2, <3>3 DEF HistoryInv, PendingLogInv, PendingLog
    <3>5. log' = [log EXCEPT ![p] = log[p]]
      BY <3>1 DEF TypeInv, TypeOK, ThreadsOK
    <3>6. QED
      BY <3>1, <3>4, <3>5, HistoryUpdate DEF TypeInv, TypeOK, ThreadsOK
  <2>3. QED
    BY <2>1, <2>2
<1>13. ASSUME NEW p \in Procs, BackupWrite(p)
      PROVE  HistoryInv'
  <2>1. pc[p] = "bwrite" /\ seen[p] # NoFile
    BY <1>13 DEF BackupWrite, HistoryInv, PendingLogInv, PendingLog
  <2>2. arg[p].file \in Files /\ arg[p].ts \in Seconds
    BY <1>0, <2>1 DEF CallOK, Resting, Arg
  <2>3. /\ backups' = [backups EXCEPT ![<<arg[p].file, arg[p].ts>>] = seen[p]]
        /\ pc' = [pc EXCEPT ![p] = "blog"]
        /\ UNCHANGED <<undo, arg, seen, log>>
    BY <1>13 DEF BackupWrite, Goto
  <2>4. /\ backups'[<<arg[p].file, arg[p].ts>>] # NoFile
        /\ \A f \in Files, ts \in Seconds :
             backups[<<f, ts>>] # NoFile => backups'[<<f, ts>>] # NoFile
    BY <2>1, <2>2, <2>3 DEF TypeInv, TypeOK, DiskOK
  <2>5. UndoLogResolves'
    <3> SUFFICES ASSUME NEW f \in Files, NEW i \in DOMAIN undo[f]
                 PROVE  backups'[<<f, undo[f][i].ts>>] # NoFile
      BY <2>3 DEF UndoLogResolves
    <3>1. undo[f][i] \in Line
      BY DEF TypeInv, TypeOK, DiskOK
    <3>2. undo[f][i].ts \in Seconds
      BY <3>1 DEF Line
    <3>3. QED
      BY <2>4, <3>2 DEF HistoryInv, UndoLogResolves
  <2>6. PendingLogInv'
    <3> SUFFICES ASSUME NEW q \in Procs
                 PROVE  PendingLog(pc[q], arg[q], seen[q], log[q])'
      BY DEF PendingLogInv
    <3>1. PendingLog(pc[q], arg[q], seen[q], log[q])
      BY DEF HistoryInv, PendingLogInv
    <3>2. pc[q] \notin Resting => arg[q].file \in Files /\ arg[q].ts \in Seconds
      BY <1>0 DEF CallOK, Arg
    <3>3. arg[q].cmd = "UNDO" => pc[q] \notin Resting
      BY <1>0, NoCallTyping DEF CallOK
    <3>4. \A i \in DOMAIN log[q] : log[q][i] \in Line
      BY DEF TypeInv, TypeOK, ThreadsOK
    <3>5. \A i \in DOMAIN log[q] : log[q][i].ts \in Seconds
      BY <3>4 DEF Line
    <3>6. pc'[q] = "blog" => backups'[<<arg[q].file, arg[q].ts>>] # NoFile
      BY <2>3, <2>4, <3>1, <3>2 DEF PendingLog, Resting, TypeInv, TypeOK, ThreadsOK
    <3>7. pc'[q] = "bwrite" => seen[q] # NoFile
      BY <2>3, <3>1 DEF PendingLog, TypeInv, TypeOK, ThreadsOK
    <3>8. arg[q].cmd = "UNDO" =>
            \A i \in DOMAIN log[q] : backups'[<<arg[q].file, log[q][i].ts>>] # NoFile
      BY <2>4, <3>1, <3>2, <3>3, <3>5 DEF PendingLog
    <3>9. QED
      BY <2>3, <3>1, <3>6, <3>7, <3>8 DEF PendingLog
  <2>7. QED
    BY <2>5, <2>6 DEF HistoryInv
<1>14. ASSUME NEW p \in Procs, BackupLog(p)
      PROVE  HistoryInv'
  <2> DEFINE line == [ts |-> arg[p].ts, used |-> 0]
  <2>1. /\ undo' = [undo EXCEPT ![arg[p].file] = Append(@, line)]
        /\ pc' = [pc EXCEPT ![p] = AfterBackup(p)]
        /\ UNCHANGED <<backups, arg, seen, log>>
        /\ pc[p] = "blog"
    BY <1>14 DEF BackupLog, Goto
  <2>2. arg[p].file \in Files /\ backups[<<arg[p].file, arg[p].ts>>] # NoFile
    BY <1>0, <2>1 DEF CallOK, Resting, HistoryInv, PendingLogInv, PendingLog
  <2>3. line \in Line /\ line.ts = arg[p].ts
    BY <1>0 DEF Line, Arg
  <2> HIDE DEF line
  <2>4. UndoLogResolves'
    <3> SUFFICES ASSUME NEW f \in Files, NEW i \in DOMAIN undo'[f]
                 PROVE  backups[<<f, undo'[f][i].ts>>] # NoFile
      BY <2>1 DEF UndoLogResolves
    <3>1. undo[f] \in Seq(Line)
      BY DEF TypeInv, TypeOK, DiskOK
    <3>2. CASE f # arg[p].file
      BY <2>1, <2>2, <3>2 DEF HistoryInv, UndoLogResolves, TypeInv, TypeOK, DiskOK
    <3>3. CASE f = arg[p].file
      <4>1. undo'[f] = Append(undo[f], line)
        BY <2>1, <2>2, <3>3 DEF TypeInv, TypeOK, DiskOK
      <4>2. \/ i \in DOMAIN undo[f] /\ undo'[f][i] = undo[f][i]
            \/ undo'[f][i] = line
        BY <2>3, <3>1, <4>1
      <4>3. QED
        BY <2>2, <2>3, <3>3, <4>2 DEF HistoryInv, UndoLogResolves
    <3>4. QED
      BY <3>2, <3>3
  <2>5. PendingLogInv'
    BY <2>1 DEF HistoryInv, PendingLogInv, PendingLog, AfterBackup, TypeInv, TypeOK, ThreadsOK
  <2>6. QED
    BY <2>4, <2>5 DEF HistoryInv
<1>15. ASSUME NEW fd \in Fds, EtirwMerge(fd)
      PROVE  HistoryInv'
  <2>1. \A q \in Procs : q # fd => seen'[q] = seen[q]
    BY <1>15 DEF EtirwMerge, TypeInv, TypeOK, ThreadsOK
  <2>2. QED
    BY <1>15, <2>1, HistoryMoves DEF EtirwMerge, Procs
<1>16. ASSUME NEW p \in Procs, Truncate(p)
      PROVE  HistoryInv'
  <2>1. arg' = [arg EXCEPT ![p] = [arg[p] EXCEPT !.live = TRUE]]
    BY <1>16 DEF Truncate
  <2>2. /\ [arg[p] EXCEPT !.live = TRUE].cmd = arg[p].cmd
        /\ [arg[p] EXCEPT !.live = TRUE].file = arg[p].file
    BY <1>0, ArgUpdate, BoundsAssumption DEF Seconds
  <2>3. PendingLog("write", [arg[p] EXCEPT !.live = TRUE], seen[p], log[p])
    BY <2>2 DEF HistoryInv, PendingLogInv, PendingLog
  <2>4. log' = [log EXCEPT ![p] = log[p]]
    BY <1>16 DEF Truncate, TypeInv, TypeOK, ThreadsOK
  <2>5. QED
    BY <1>16, <2>1, <2>3, <2>4, HistoryUpdate DEF Truncate
<1>17. ASSUME NEW p \in Procs, WriteOut(p)
      PROVE  HistoryInv'
  <2>1. (IF arg[p].cmd = "UNDO" THEN "ulog" ELSE "meta") \notin {"bwrite", "blog"}
    OBVIOUS
  <2>2. QED
    BY <1>17, <2>1, HistoryMoves DEF WriteOut
<1>18. ASSUME NEW p \in Procs, UpdateTable(p)
      PROVE  HistoryInv'
  <2>1. CASE Done(p)
    BY <1>18, <2>1, HistoryDone DEF UpdateTable
  <2>2. CASE ~Done(p)
    BY <1>18, <2>2, HistoryMoves DEF UpdateTable, Stay
  <2>3. QED
    BY <2>1, <2>2
<1>19. ASSUME NEW fd \in Fds, EtirwUnlock(fd)
      PROVE  HistoryInv'
  BY <1>19, HistoryDone DEF EtirwUnlock, Procs
<1>20. ASSUME NEW p \in Procs, NEW f \in Files, Undo(p, f)
      PROVE  HistoryInv'
  BY <1>20, HistoryStart DEF Undo, Receive
<1>21. ASSUME NEW p \in Procs, UndoFind(p)
      PROVE  HistoryInv'
  <2>1. UNCHANGED <<undo, backups>>
    BY <1>21 DEF UndoFind
  <2>2. CASE Done(p)
    BY <2>1, <2>2, HistoryDone
  <2>3. CASE ~Done(p)
    <3>1. PICK ts \in Seconds, lines \in Seq(Line) :
            /\ log' = [log EXCEPT ![p] = lines]
            /\ arg' = [arg EXCEPT ![p] = [arg[p] EXCEPT !.ts = ts]]
            /\ DOMAIN lines = DOMAIN undo[arg[p].file]
            /\ \A i \in DOMAIN lines : lines[i].ts = undo[arg[p].file][i].ts
      BY <1>21, <2>3, UndoFound
    <3>2. arg[p].file \in Files /\ Goto(p, "trunc") /\ seen' = seen
      BY <1>21, <2>3, UndoFound
    <3>3. arg[p].cmd = "UNDO"
      BY <1>21, <1>0 DEF UndoFind, CallOK
    <3>4. /\ [arg[p] EXCEPT !.ts = ts].cmd = arg[p].cmd
          /\ [arg[p] EXCEPT !.ts = ts].file = arg[p].file
      BY <1>0, ArgUpdate
    <3>5. PendingLog("trunc", [arg[p] EXCEPT !.ts = ts], seen[p], lines)
      BY <3>1, <3>2, <3>3, <3>4 DEF HistoryInv, UndoLogResolves, PendingLog
    <3>6. QED
      BY <2>1, <3>1, <3>2, <3>5, HistoryUpdate
  <2>4. QED
    BY <2>2, <2>3
<1>22. ASSUME NEW p \in Procs, UndoLog(p)
      PROVE  HistoryInv'
  <2>1. /\ undo' = [undo EXCEPT ![arg[p].file] = log[p]]
        /\ pc' = [pc EXCEPT ![p] = "meta"]
        /\ UNCHANGED <<backups, arg, seen, log>>
        /\ pc[p] = "ulog"
    BY <1>22 DEF UndoLog, Goto
  <2>2. arg[p].file \in Files /\ arg[p].cmd = "UNDO"
    BY <1>0, <2>1 DEF CallOK, Resting
  <2>3. UndoLogResolves'
    BY <2>1, <2>2 DEF HistoryInv, UndoLogResolves, PendingLogInv, PendingLog,
                      TypeInv, TypeOK, DiskOK
  <2>4. PendingLogInv'
    BY <2>1 DEF HistoryInv, PendingLogInv, PendingLog, TypeInv, TypeOK, ThreadsOK
  <2>5. QED
    BY <2>3, <2>4 DEF HistoryInv
<1>23. ASSUME NEW fd \in Fds, NEW f \in Files, NEW t \in Tags, Checkpoint(fd, f, t)
      PROVE  HistoryInv'
  BY <1>23, HistoryStart DEF Checkpoint, Receive, Procs
<1>24. ASSUME NEW fd \in Fds, CheckpointRead(fd)
      PROVE  HistoryInv'
  <2>1. CASE Done(fd)
    BY <1>24, <2>1, HistoryDone DEF CheckpointRead, Procs
  <2>2. CASE ~Done(fd)
    BY <1>24, <2>2, HistoryMoves DEF CheckpointRead, Stay, Procs
  <2>3. QED
    BY <2>1, <2>2
<1>25. ASSUME NEW fd \in Fds, CheckpointWrite(fd)
      PROVE  HistoryInv'
  BY <1>25, HistoryDone DEF CheckpointWrite, Procs
<1>26. ASSUME NEW fd \in Fds, NEW f \in Files, NEW t \in Tags, Revert(fd, f, t)
      PROVE  HistoryInv'
  BY <1>26, HistoryStart DEF Revert, Receive, Procs
<1>27. ASSUME NEW fd \in Fds, RevertRead(fd)
      PROVE  HistoryInv'
  <2>1. CASE Done(fd)
    BY <1>27, <2>1, HistoryDone DEF RevertRead, Procs
  <2>2. CASE ~Done(fd)
    BY <1>27, <2>2, HistoryMoves DEF RevertRead, Stay, Procs
  <2>3. QED
    BY <2>1, <2>2
<1>28. ASSUME NEW p \in Procs, NEW f \in Files, Create(p, f)
      PROVE  HistoryInv'
  BY <1>28 DEF Create, HistoryInv, UndoLogResolves, PendingLogInv, PendingLog
<1>29. ASSUME NEW p \in Procs, NEW f \in Files, Delete(p, f)
      PROVE  HistoryInv'
  <2>1. UNCHANGED <<pc, seen, log, undo, backups>>
    BY <1>29 DEF Delete
  <2>2. \A q \in Procs : arg'[q].cmd = arg[q].cmd /\ arg'[q].file = arg[q].file
                         /\ arg'[q].ts = arg[q].ts
    BY <1>29, <1>0, ArgUpdate, BoundsAssumption DEF Delete, Seconds
  <2>3. QED
    BY <2>1, <2>2 DEF HistoryInv, UndoLogResolves, PendingLogInv, PendingLog
<1>30. CASE UNCHANGED vars
  BY <1>30 DEF vars, HistoryInv, UndoLogResolves, PendingLogInv, PendingLog
<1>31. QED
  BY <1>1, <1>2, <1>3, <1>4, <1>5, <1>6, <1>7, <1>8, <1>9, <1>10,
     <1>11, <1>12, <1>13, <1>14, <1>15, <1>16, <1>17, <1>18, <1>19, <1>20,
     <1>21, <1>22, <1>23, <1>24, <1>25, <1>26, <1>27, <1>28, <1>29, <1>30
  DEF Next, ClientStep, HandlerStep, FileStep

\* Every line of every undo log names a backup that exists.
THEOREM UndoHistory == Spec => []UndoLogResolves
<1>1. Init => HistoryInv
  BY NoCallTyping DEF Init, HistoryInv, UndoLogResolves, PendingLogInv, PendingLog
<1>2. HistoryInv => UndoLogResolves
  BY DEF HistoryInv
<1>3. QED
  BY <1>1, <1>2, TypeInvariance, HistoryStep, PTL DEF Spec

-----------------------------------------------------------------------------
(* Swap copies *)

\* Only an edit line and the end of a commit write a swap copy.
LEMMA SwapWriters ==
  ASSUME [Next]_vars
  PROVE  \/ UNCHANGED swap
         \/ \E fd \in Fds, idx \in 1..MaxDocWords, new \in Inputs : Edit(fd, idx, new)
         \/ \E p \in Procs : WriteOut(p)
  BY DEF Next, vars, ClientStep, HandlerStep, FileStep, Accept, Hangup, CloseFd, Shutdown, Tick,
         Write, WriteSize, WriteCheck, WriteAdd, Etirw, BackupRead, BackupWrite, BackupLog,
         EtirwMerge, Truncate, UpdateTable, EtirwUnlock, Undo, UndoFind, UndoLog,
         Checkpoint, CheckpointRead, CheckpointWrite, Revert, RevertRead, Create, Delete

\* Nobody touches the swap copy of a sentence but the connection that holds it.
THEOREM SwapUnderLock == Spec => SwapChangesUnderLock
<1> DEFINE Held(k) == [file |-> k[1], sent |-> k[2], fd |-> k[3]] \in locks
           Owned   == \A k \in DOMAIN swap : swap'[k] # swap[k] => Held(k)
<1>1. TypeInv /\ LockInv /\ [Next]_vars => Owned
  <2> SUFFICES ASSUME TypeInv, LockInv, [Next]_vars PROVE Owned
    OBVIOUS
  <2> USE DEF TypeInv, TypeOK, DiskOK
  <2>1. CASE UNCHANGED swap
    BY <2>1
  <2>2. ASSUME NEW fd \in Fds, NEW idx \in 1..MaxDocWords, NEW new \in Inputs, Edit(fd, idx, new)
        PROVE  Owned
    <3>1. PICK l \in locks : \E doc : swap' = [swap EXCEPT ![<<l.file, l.sent, l.fd>>] = doc]
      BY <2>2 DEF Edit, WriteInfo
    <3>2. [file |-> l.file, sent |-> l.sent, fd |-> l.fd] = l
      BY DEF Lock
    <3>3. Held(<<l.file, l.sent, l.fd>>)
      BY <3>2
    <3>4. \A k \in DOMAIN swap : swap'[k] # swap[k] => k = <<l.file, l.sent, l.fd>>
      BY <3>1
    <3>5. QED
      BY <3>3, <3>4
  <2>3. ASSUME NEW p \in Procs, WriteOut(p)
        PROVE  Owned
    <3>1. CASE arg[p].cmd # "ETIRW"
      BY <2>3, <3>1 DEF WriteOut
    <3>2. CASE arg[p].cmd = "ETIRW"
      <4>1. p \in Fds
        BY <3>2 DEF CallInv, CallOK
      <4>2. Held(<<arg[p].file, arg[p].sent, p>>)
        BY <3>2, <4>1 DEF LockInv, CommitHasItsCopy
      <4>3. \A k \in DOMAIN swap : swap'[k] # swap[k] => k = <<arg[p].file, arg[p].sent, p>>
        BY <2>3, <3>2 DEF WriteOut
      <4>4. QED
        BY <4>2, <4>3
    <3>3. QED
      BY <3>1, <3>2
  <2>4. QED
    BY <2>1, <2>2, <2>3, SwapWriters
<1>2. QED
  BY <1>1, TypeInvariance, LockInvariance, PTL DEF Spec, SwapChangesUnderLock

-----------------------------------------------------------------------------
(* Refinement: the sessions of WriteSessions *)

\* Of the label, only whether the connection is closed matters.
LEMMA ModeOfOpen ==
  ASSUME NEW a, NEW b, NEW held, a = "closed" <=> b = "closed"
  PROVE  ModeOf(a, held) = ModeOf(b, held)
  BY DEF ModeOf

\* A step that leaves the locks alone, and opens and closes no connection, leaves the
\* sessions alone.
LEMMA SessionsStay ==
  ASSUME UNCHANGED locks, \A fd \in Fds : pc'[fd] = "closed" <=> pc[fd] = "closed"
  PROVE  SessionMode' = SessionMode
<1>1. \A fd \in Fds : WriteInfo(fd)' = WriteInfo(fd)
  BY DEF WriteInfo
<1>2. ASSUME NEW fd \in Fds PROVE ModeOf(pc[fd], WriteInfo(fd))' = ModeOf(pc[fd], WriteInfo(fd))
  BY <1>1, ModeOfOpen
<1>3. QED
  BY <1>2 DEF SessionMode

\* In particular a thread that goes from one label of a handler to another.
LEMMA HandlerStays ==
  ASSUME TypeInv, NEW p \in Procs, NEW label, Goto(p, label), UNCHANGED locks,
         pc[p] # "closed", label # "closed"
  PROVE  SessionMode' = SessionMode
<1>1. \A fd \in Fds : pc'[fd] = "closed" <=> pc[fd] = "closed"
  BY DEF Goto, TypeInv, TypeOK, ThreadsOK, Procs
<1>2. QED
  BY <1>1, SessionsStay

\* A step of one connection that leaves the locks of the others alone.
LEMMA ModeChange ==
  ASSUME NEW fd \in Fds, NEW m, SessionMode'[fd] = m,
         \A g \in Fds : g # fd => pc'[g] = pc[g] /\ WriteInfo(g)' = WriteInfo(g)
  PROVE  SessionMode' = [SessionMode EXCEPT ![fd] = m]
<1>1. ASSUME NEW g \in Fds, g # fd PROVE SessionMode'[g] = SessionMode[g]
  BY <1>1 DEF SessionMode
<1>2. /\ SessionMode = [g \in Fds |-> SessionMode[g]]
      /\ SessionMode' = [g \in Fds |-> SessionMode'[g]]
  BY DEF SessionMode
<1> HIDE DEF SessionMode
<1>3. QED
  BY <1>1, <1>2

\* No lock names a connection that is closed or about to be.
LEMMA ClosedNotEditing ==
  ASSUME TypeInv, LockInv, NEW fd \in Fds, pc[fd] \in {"closed", "closing"}
  PROVE  ~InWriteMode(fd)
<1>1. arg[fd].cmd = "none"
  BY NoCallTyping DEF TypeInv, CallInv, CallOK, Resting, Procs
<1>2. QED
  BY <1>1, NotEditing DEF Procs

\* A connection in write mode that goes back to commands ends the session of its lock.
LEMMA EndOfSession ==
  ASSUME TypeInv, NEW fd \in Fds, pc[fd] # "closed", InWriteMode(fd),
         SessionMode' = [SessionMode EXCEPT ![fd] = <<"command">>]
  PROVE  Sessions!Next
<1> DEFINE l == CHOOSE l \in WriteInfo(fd) : TRUE
<1>1. l \in WriteInfo(fd)
  BY DEF InWriteMode
<1>2. l.file \in Files /\ l.sent \in Sents
  BY <1>1 DEF WriteInfo, TypeInv, TypeOK, Lock
<1>3. SessionMode[fd] = <<"editing", l.file, l.sent>>
  BY DEF SessionMode, ModeOf, InWriteMode
<1> HIDE DEF l
<1>4. Sessions!End(fd, l.file, l.sent)
  BY <1>3 DEF Sessions!End, Sessions!Change, Sessions!Command, Sessions!Editing
<1>5. QED
  BY <1>2, <1>4 DEF Sessions!Next

\* Every step of the server is a step of one session, the end of all of them, or none.
LEMMA SessionsStep ==
  TypeInv /\ LockInv /\ [Next]_vars => [Sessions!Next]_SessionMode
<1> SUFFICES ASSUME TypeInv, LockInv, [Next]_vars PROVE Sessions!Next \/ SessionMode' = SessionMode
  OBVIOUS
<1>1. ASSUME NEW fd \in Fds, Accept(fd)
      PROVE  Sessions!Next \/ SessionMode' = SessionMode
  <2>1. pc[fd] = "closed" /\ pc'[fd] = "idle" /\ locks' = locks
        /\ \A g \in Fds : g # fd => pc'[g] = pc[g]
    BY <1>1 DEF Accept, Goto, TypeInv, TypeOK, ThreadsOK, Procs
  <2>2. ~InWriteMode(fd) /\ \A g \in Fds : WriteInfo(g)' = WriteInfo(g)
    BY <2>1, ClosedNotEditing DEF WriteInfo
  <2>3. SessionMode[fd] = <<"closed">> /\ SessionMode'[fd] = <<"command">>
    BY <2>1, <2>2 DEF SessionMode, ModeOf, InWriteMode
  <2>4. Sessions!Open(fd)
    BY <2>1, <2>2, <2>3, ModeChange DEF Sessions!Open, Sessions!Change, Sessions!Closed, Sessions!Command
  <2>5. QED
    BY <2>4 DEF Sessions!Next
<1>2. ASSUME NEW fd \in Fds, Hangup(fd)
      PROVE  Sessions!Next \/ SessionMode' = SessionMode
  <2>1. pc[fd] = "idle" /\ pc'[fd] = "closing" /\ locks' = {l \in locks : l.fd # fd}
        /\ \A g \in Fds : g # fd => pc'[g] = pc[g]
    BY <1>2 DEF Hangup, Goto, TypeInv, TypeOK, ThreadsOK, Procs
  <2>2. ~InWriteMode(fd)' /\ \A g \in Fds : g # fd => WriteInfo(g)' = WriteInfo(g)
    BY <2>1 DEF InWriteMode, WriteInfo
  <2>3. SessionMode'[fd] = <<"command">>
    BY <2>1, <2>2 DEF SessionMode, ModeOf, InWriteMode
  <2>4. SessionMode' = [SessionMode EXCEPT ![fd] = <<"command">>]
    BY <2>1, <2>2, <2>3, ModeChange
  <2>5. CASE InWriteMode(fd)
    BY <2>1, <2>4, <2>5, EndOfSession
  <2>6. CASE ~InWriteMode(fd)
    <3>1. SessionMode[fd] = <<"command">>
      BY <2>1, <2>6 DEF SessionMode, ModeOf, InWriteMode
    <3>2. SessionMode' = SessionMode
      BY <2>4, <3>1 DEF SessionMode
    <3>3. QED
      BY <3>2
  <2>7. QED
    BY <2>5, <2>6
<1>3. ASSUME NEW fd \in Fds, CloseFd(fd)
      PROVE  Sessions!Next \/ SessionMode' = SessionMode
  <2>1. pc[fd] = "closing" /\ pc'[fd] = "closed" /\ locks' = locks
        /\ \A g \in Fds : g # fd => pc'[g] = pc[g]
    BY <1>3 DEF CloseFd, Goto, TypeInv, TypeOK, ThreadsOK, Procs
  <2>2. ~InWriteMode(fd) /\ \A g \in Fds : WriteInfo(g)' = WriteInfo(g)
    BY <2>1, ClosedNotEditing DEF WriteInfo
  <2>3. SessionMode[fd] = <<"command">> /\ SessionMode'[fd] = <<"closed">>
    BY <2>1, <2>2 DEF SessionMode, ModeOf, InWriteMode
  <2>4. Sessions!Close(fd)
    BY <2>1, <2>2, <2>3, ModeChange DEF Sessions!Close, Sessions!Change, Sessions!Closed, Sessions!Command
  <2>5. QED
    BY <2>4 DEF Sessions!Next
<1>4. ASSUME Shutdown
      PROVE  Sessions!Next \/ SessionMode' = SessionMode
  <2>1. \A fd \in Fds : pc'[fd] = "closed"
    BY <1>4, NSAssumption DEF Shutdown, Procs
  <2>2. Sessions!Reset
    BY <2>1 DEF Sessions!Reset, Sessions!Closed, SessionMode, ModeOf
  <2>3. QED
    BY <2>2 DEF Sessions!Next
<1>5. ASSUME Tick
      PROVE  Sessions!Next \/ SessionMode' = SessionMode
  BY <1>5, SessionsStay DEF Tick
<1>6. ASSUME NEW fd \in Fds, NEW f \in Files, NEW s \in Sents, Write(fd, f, s)
      PROVE  Sessions!Next \/ SessionMode' = SessionMode
  BY <1>6, HandlerStays DEF Write, Receive, Start, Procs
<1>7. ASSUME NEW fd \in Fds, WriteSize(fd)
      PROVE  Sessions!Next \/ SessionMode' = SessionMode
  BY <1>7, HandlerStays DEF WriteSize, Done, Procs
<1>8. ASSUME NEW fd \in Fds, WriteCheck(fd)
      PROVE  Sessions!Next \/ SessionMode' = SessionMode
  BY <1>8, HandlerStays DEF WriteCheck, Done, Procs
<1>9. ASSUME NEW fd \in Fds, WriteAdd(fd)
      PROVE  Sessions!Next \/ SessionMode' = SessionMode
  <2> DEFINE new == [file |-> arg[fd].file, sent |-> arg[fd].sent, fd |-> fd]
  <2>1. /\ pc[fd] = "add" /\ pc'[fd] = "idle" /\ locks' = locks \cup {new}
        /\ \A g \in Fds : g # fd => pc'[g] = pc[g]
    BY <1>9 DEF WriteAdd, Done, Goto, TypeInv, TypeOK, ThreadsOK, Procs
  <2>2. arg[fd].file \in Files /\ arg[fd].sent \in Sents /\ arg[fd].cmd = "WRITE"
    BY <2>1 DEF TypeInv, TypeOK, ThreadsOK, Arg, CallInv, CallOK, Resting, Procs
  <2>3. ~InWriteMode(fd)
    BY <2>1, <2>2, NotEditing DEF Procs
  <2>4. new.fd = fd /\ new.file = arg[fd].file /\ new.sent = arg[fd].sent
    OBVIOUS
  <2> HIDE DEF new
  <2>5. WriteInfo(fd)' = {new} /\ \A g \in Fds : g # fd => WriteInfo(g)' = WriteInfo(g)
    BY <2>1, <2>3, <2>4 DEF InWriteMode, WriteInfo
  <2>6. (CHOOSE l \in {new} : TRUE) = new
    OBVIOUS
  <2>7. /\ SessionMode[fd] = <<"command">>
        /\ SessionMode'[fd] = <<"editing", arg[fd].file, arg[fd].sent>>
    BY <2>1, <2>3, <2>4, <2>5, <2>6 DEF SessionMode, ModeOf, InWriteMode
  <2>8. Sessions!Begin(fd, arg[fd].file, arg[fd].sent)
    BY <2>1, <2>5, <2>7, ModeChange
       DEF Sessions!Begin, Sessions!Change, Sessions!Command, Sessions!Editing
  <2>9. QED
    BY <2>2, <2>8 DEF Sessions!Next
<1>10. ASSUME NEW fd \in Fds, NEW idx \in 1..MaxDocWords, NEW new \in Inputs, Edit(fd, idx, new)
      PROVE  Sessions!Next \/ SessionMode' = SessionMode
  BY <1>10, SessionsStay DEF Edit
<1>11. ASSUME NEW fd \in Fds, Etirw(fd)
      PROVE  Sessions!Next \/ SessionMode' = SessionMode
  BY <1>11, HandlerStays DEF Etirw, Receive, Start, Procs
<1>12. ASSUME NEW p \in Procs, BackupRead(p)
      PROVE  Sessions!Next \/ SessionMode' = SessionMode
  BY <1>12, HandlerStays DEF BackupRead, AfterBackup, Procs
<1>13. ASSUME NEW p \in Procs, BackupWrite(p)
      PROVE  Sessions!Next \/ SessionMode' = SessionMode
  BY <1>13, HandlerStays DEF BackupWrite, Procs
<1>14. ASSUME NEW p \in Procs, BackupLog(p)
      PROVE  Sessions!Next \/ SessionMode' = SessionMode
  BY <1>14, HandlerStays DEF BackupLog, AfterBackup, Procs
<1>15. ASSUME NEW fd \in Fds, EtirwMerge(fd)
      PROVE  Sessions!Next \/ SessionMode' = SessionMode
  BY <1>15, HandlerStays DEF EtirwMerge, Procs
<1>16. ASSUME NEW p \in Procs, Truncate(p)
      PROVE  Sessions!Next \/ SessionMode' = SessionMode
  BY <1>16, HandlerStays DEF Truncate, Procs
<1>17. ASSUME NEW p \in Procs, WriteOut(p)
      PROVE  Sessions!Next \/ SessionMode' = SessionMode
  BY <1>17, HandlerStays DEF WriteOut, Procs
<1>18. ASSUME NEW p \in Procs, UpdateTable(p)
      PROVE  Sessions!Next \/ SessionMode' = SessionMode
  BY <1>18, HandlerStays DEF UpdateTable, Done, Procs
<1>19. ASSUME NEW fd \in Fds, EtirwUnlock(fd)
      PROVE  Sessions!Next \/ SessionMode' = SessionMode
  <2> DEFINE old == [file |-> arg[fd].file, sent |-> arg[fd].sent, fd |-> fd]
  <2>1. /\ pc[fd] = "unlock" /\ pc'[fd] = "idle" /\ locks' = locks \ {old}
        /\ \A g \in Fds : g # fd => pc'[g] = pc[g]
    BY <1>19 DEF EtirwUnlock, Done, Goto, TypeInv, TypeOK, ThreadsOK, Procs
  <2>2. old \in locks
    BY <2>1 DEF TypeInv, CallInv, CallOK, LockInv, CommitHasItsCopy, Procs
  <2>3. old.fd = fd
    OBVIOUS
  <2> HIDE DEF old
  <2>4. WriteInfo(fd) = {old}
    BY <2>2, <2>3 DEF WriteInfo, LockInv, OneSentencePerConnection
  <2>5. WriteInfo(fd)' = {} /\ \A g \in Fds : g # fd => WriteInfo(g)' = WriteInfo(g)
    BY <2>1, <2>3, <2>4 DEF WriteInfo
  <2>6. SessionMode'[fd] = <<"command">>
    BY <2>1, <2>5 DEF SessionMode, ModeOf, InWriteMode
  <2>7. SessionMode' = [SessionMode EXCEPT ![fd] = <<"command">>] /\ InWriteMode(fd)
    BY <2>1, <2>4, <2>5, <2>6, ModeChange DEF InWriteMode
  <2>8. QED
    BY <2>1, <2>7, EndOfSession
<1>20. ASSUME NEW p \in Procs, NEW f \in Files, Undo(p, f)
      PROVE  Sessions!Next \/ SessionMode' = SessionMode
  BY <1>20, HandlerStays DEF Undo, Receive, Start, Procs
<1>21. ASSUME NEW p \in Procs, UndoFind(p)
      PROVE  Sessions!Next \/ SessionMode' = SessionMode
  <2>1. UNCHANGED locks /\ pc[p] = "ufind"
    BY <1>21 DEF UndoFind
  <2>2. Done(p) \/ Goto(p, "trunc")
    BY <1>21, UndoFound
  <2>3. QED
    BY <2>1, <2>2, HandlerStays DEF Done
<1>22. ASSUME NEW p \in Procs, UndoLog(p)
      PROVE  Sessions!Next \/ SessionMode' = SessionMode
  BY <1>22, HandlerStays DEF UndoLog, Procs
<1>23. ASSUME NEW fd \in Fds, NEW f \in Files, NEW t \in Tags, Checkpoint(fd, f, t)
      PROVE  Sessions!Next \/ SessionMode' = SessionMode
  BY <1>23, HandlerStays DEF Checkpoint, Receive, Start, Procs
<1>24. ASSUME NEW fd \in Fds, CheckpointRead(fd)
      PROVE  Sessions!Next \/ SessionMode' = SessionMode
  BY <1>24, HandlerStays DEF CheckpointRead, Done, Procs
<1>25. ASSUME NEW fd \in Fds, CheckpointWrite(fd)
      PROVE  Sessions!Next \/ SessionMode' = SessionMode
  BY <1>25, HandlerStays DEF CheckpointWrite, Done, Procs
<1>26. ASSUME NEW fd \in Fds, NEW f \in Files, NEW t \in Tags, Revert(fd, f, t)
      PROVE  Sessions!Next \/ SessionMode' = SessionMode
  BY <1>26, HandlerStays DEF Revert, Receive, Start, Procs
<1>27. ASSUME NEW fd \in Fds, RevertRead(fd)
      PROVE  Sessions!Next \/ SessionMode' = SessionMode
  BY <1>27, HandlerStays DEF RevertRead, Done, Procs
<1>28. ASSUME NEW p \in Procs, NEW f \in Files, Create(p, f)
      PROVE  Sessions!Next \/ SessionMode' = SessionMode
  BY <1>28, SessionsStay DEF Create
<1>29. ASSUME NEW p \in Procs, NEW f \in Files, Delete(p, f)
      PROVE  Sessions!Next \/ SessionMode' = SessionMode
  BY <1>29, SessionsStay DEF Delete
<1>30. CASE UNCHANGED vars
  BY <1>30, SessionsStay DEF vars
<1>31. QED
  BY <1>1, <1>2, <1>3, <1>4, <1>5, <1>6, <1>7, <1>8, <1>9, <1>10,
     <1>11, <1>12, <1>13, <1>14, <1>15, <1>16, <1>17, <1>18, <1>19, <1>20,
     <1>21, <1>22, <1>23, <1>24, <1>25, <1>26, <1>27, <1>28, <1>29, <1>30
  DEF Next, ClientStep, HandlerStep, FileStep

\* The storage server implements WriteSessions: through threads, commits, hangups, reused
\* descriptors and shutdowns, a connection leaves the sentence it edits before it takes
\* another, and a closed connection edits nothing.
THEOREM RefinesSessions == Spec => ImplementsSessions
<1>1. Init => Sessions!Init
  <2> SUFFICES ASSUME Init PROVE Sessions!Init
    OBVIOUS
  <2>1. \A fd \in Fds : pc[fd] = "closed"
    BY NSAssumption DEF Init, Procs
  <2>2. QED
    BY <2>1 DEF Sessions!Init, Sessions!Closed, SessionMode, ModeOf
<1>2. QED
  BY <1>1, SessionsStep, TypeInvariance, LockInvariance, PTL
  DEF Spec, ImplementsSessions, Sessions!Spec

=============================================================================
