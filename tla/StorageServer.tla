--------------------------- MODULE StorageServer ---------------------------
(***************************************************************************)
(* The storage server (storage_server/main.c): one handler thread per      *)
(* client connection, the thread that serves the name server, the list of  *)
(* sentence locks, and the files on disk: documents, swap copies, backups, *)
(* undo logs and checkpoints.                                              *)
(*                                                                         *)
(* A handler is interrupted wherever another thread can observe or change  *)
(* what it works on: between two sections of lock_mutex and between two    *)
(* file operations.  No lock covers a file operation, so a commit is a     *)
(* read, a merge, a truncation (fopen "w") and a write that others see one *)
(* by one.  pc[p] names the next such step of thread p.                    *)
(***************************************************************************)
EXTENDS DocText

CONSTANTS
  Fds,            \* descriptors of client connections; reused after close
  NS,             \* the thread that serves the name server
  Files, Tags,    \* file names, checkpoint tags
  Inputs,         \* word sequences an edit line may carry
  InitialDoc,     \* contents of every file at start
  NoFile,         \* a path that does not exist
  Commands,       \* the commands a run exercises
  MaxSent,        \* bound: highest sentence number asked for
  MaxDocWords,    \* bound: length of an edited copy
  MaxClock,       \* bound: seconds that may pass
  MaxRequests     \* bound: requests the server receives

Procs   == Fds \cup {NS}
Sents   == 1..MaxSent
Seconds == 0..MaxClock

ASSUME NSAssumption == NS \notin Fds
ASSUME NoFileAssumption == NoFile \notin Files
ASSUME BoundsAssumption ==
  MaxSent \in Nat \ {0} /\ MaxClock \in Nat /\ MaxRequests \in Nat /\ MaxDocWords \in Nat

VARIABLES
  files,          \* files/<f>: a document or NoFile
  swap,           \* files/<f>_<s>_<fd>.swap
  locks,          \* the list sentence_locks, one record per entry
  backups,        \* versions/<f>_<second>.bak
  undo,           \* undo/<f>.undo: its lines [ts, used]
  checkpoints,    \* checkpoints/<f>_<tag>.checkpoint
  tagLog,         \* checkpoint_meta/<f>.meta: one tag per line
  table,          \* word_count of the file_table entry, NoFile without an entry
  clock,          \* time(NULL)
  pc,             \* where each thread stands
  arg,            \* the arguments of each thread's current command
  seen,           \* the document the thread has read
  out,            \* the document the thread is going to write
  log,            \* the undo log the thread is going to write
  edited,         \* history: connections that got an edit accepted since WRITE
  requests        \* history: requests received so far

disk  == <<files, swap, backups, undo, checkpoints, tagLog, table>>
bufs  == <<seen, out, log>>
vars  == <<disk, locks, clock, pc, arg, bufs, edited, requests>>

Lock == [file : Files, sent : Sents, fd : Fds]
Line == [ts : Seconds, used : {0, 1}]

Labels == {"closed", "idle", "closing", "size", "check", "add",
           "bread", "bwrite", "blog", "merge", "trunc", "write", "ulog", "meta",
           "unlock", "ufind", "cread", "cwrite", "rread"}

\* ts: the second of the backup made or restored; live: the path still names the
\* file that the thread has opened for writing.
Arg == [cmd : {"none", "WRITE", "ETIRW", "UNDO", "CHECKPOINT", "REVERT"},
        file : Files \cup {NoFile}, sent : Sents, tag : Tags \cup {NoFile},
        ts : Seconds, live : BOOLEAN]

Call(cmd, f, s, t) ==
  [cmd |-> cmd, file |-> f, sent |-> s, tag |-> t, ts |-> 0, live |-> FALSE]

NoCall == Call("none", NoFile, 1, NoFile)

Init ==
  /\ files = [f \in Files |-> InitialDoc]
  /\ swap = [k \in Files \X Sents \X Fds |-> NoFile]
  /\ locks = {}
  /\ backups = [k \in Files \X Seconds |-> NoFile]
  /\ undo = [f \in Files |-> <<>>]
  /\ checkpoints = [k \in Files \X Tags |-> NoFile]
  /\ tagLog = [f \in Files |-> <<>>]
  /\ table = [f \in Files |-> Len(InitialDoc)]
  /\ clock = 0
  /\ pc = [p \in Procs |-> IF p = NS THEN "idle" ELSE "closed"]
  /\ arg = [p \in Procs |-> NoCall]
  /\ seen = [p \in Procs |-> NoFile]
  /\ out = [p \in Procs |-> NoFile]
  /\ log = [p \in Procs |-> <<>>]
  /\ edited = {}
  /\ requests = 0

Goto(p, label) == pc' = [pc EXCEPT ![p] = label]

\* The command is answered and its locals are dead.
Done(p) ==
  /\ Goto(p, "idle")
  /\ arg' = [arg EXCEPT ![p] = NoCall]
  /\ seen' = [seen EXCEPT ![p] = NoFile]
  /\ out' = [out EXCEPT ![p] = NoFile]
  /\ log' = [log EXCEPT ![p] = <<>>]

\* The command takes its first step.
Start(p, call, label) ==
  /\ Goto(p, label)
  /\ arg' = [arg EXCEPT ![p] = call]

Stay == UNCHANGED <<arg, bufs>>

\* get_client_write_info: the lock of the connection, if it has one.
WriteInfo(fd) == {l \in locks : l.fd = fd}

InWriteMode(fd) == WriteInfo(fd) # {}

\* The scan of the lock list that UNDO, CHECKPOINT and REVERT start with.
Locked(f) == \E l \in locks : l.file = f

Read(f) == IF files[f] = NoFile THEN <<>> ELSE files[f]

\* recv returned a line with one of the commands that the run exercises.
Receive(p, cmd) ==
  /\ pc[p] = "idle"
  /\ cmd \in Commands
  /\ requests < MaxRequests
  /\ requests' = requests + 1

-----------------------------------------------------------------------------
(* Connections *)

\* The listener accepts a connection and the USER handshake is over.
Accept(fd) ==
  /\ pc[fd] = "closed"
  /\ requests < MaxRequests
  /\ Goto(fd, "idle")
  /\ UNCHANGED <<disk, locks, clock, arg, bufs, edited, requests>>

\* Mutant: the handler leaves its loop without remove_client_locks.
HangupKeepsLocks(fd) ==
  /\ pc[fd] = "idle"
  /\ Goto(fd, "closing")
  /\ UNCHANGED <<disk, locks, clock, arg, bufs, edited, requests>>

\* recv fails or EXIT: remove_client_locks.  The swap copy stays on disk.
Hangup(fd) ==
  /\ pc[fd] = "idle"
  /\ locks' = {l \in locks : l.fd # fd}
  /\ Goto(fd, "closing")
  /\ UNCHANGED <<disk, clock, arg, bufs, edited, requests>>

\* close(fd): from now on the descriptor can be handed out again.
CloseFd(fd) ==
  /\ pc[fd] = "closing"
  /\ Goto(fd, "closed")
  /\ UNCHANGED <<disk, locks, clock, arg, bufs, edited, requests>>

\* The name server is gone or Ctrl+C: main returns and every handler thread dies where
\* it stands (with a kill, the name server's thread too); memory is lost, and the
\* server is started again on the same directory.
Shutdown ==
  /\ "SHUTDOWN" \in Commands
  /\ requests < MaxRequests
  /\ requests' = requests + 1
  /\ locks' = {}
  /\ pc' = [p \in Procs |-> IF p = NS THEN "idle" ELSE "closed"]
  /\ arg' = [p \in Procs |-> NoCall]
  /\ seen' = [p \in Procs |-> NoFile]
  /\ out' = [p \in Procs |-> NoFile]
  /\ log' = [p \in Procs |-> <<>>]
  /\ UNCHANGED <<disk, clock, edited>>

Tick ==
  /\ clock < MaxClock
  /\ clock' = clock + 1
  /\ UNCHANGED <<disk, locks, pc, arg, bufs, edited, requests>>

-----------------------------------------------------------------------------
(* WRITE <file> <sentence>: lock a sentence *)

\* Mutant: WRITE is taken in write mode as well.
WriteAlways(fd, f, s) ==
  /\ Receive(fd, "WRITE")
  /\ files[f] # NoFile
  /\ seen' = [seen EXCEPT ![fd] = files[f]]
  /\ Start(fd, Call("WRITE", f, s, NoFile), "size")
  /\ UNCHANGED <<disk, locks, clock, out, log, edited>>

\* The handler reads the file.
Write(fd, f, s) ==
  /\ Receive(fd, "WRITE")
  /\ ~InWriteMode(fd)
  /\ files[f] # NoFile
  /\ seen' = [seen EXCEPT ![fd] = files[f]]
  /\ Start(fd, Call("WRITE", f, s, NoFile), "size")
  /\ UNCHANGED <<disk, locks, clock, out, log, edited>>

\* get_sentence_info_simple reads it again; the sentence number is checked.
WriteSize(fd) ==
  /\ pc[fd] = "size"
  /\ \/ /\ arg[fd].sent <= Available(seen[fd], Read(arg[fd].file))
        /\ Goto(fd, "check")
        /\ Stay
     \/ /\ arg[fd].sent > Available(seen[fd], Read(arg[fd].file))
        /\ Done(fd)
  /\ UNCHANGED <<disk, locks, clock, edited, requests>>

\* is_sentence_locked, a section of lock_mutex of its own.
WriteCheck(fd) ==
  /\ pc[fd] = "check"
  /\ LET taken == \E l \in locks :
                    l.file = arg[fd].file /\ l.sent = arg[fd].sent /\ l.fd # fd
     IN  \/ taken /\ Done(fd)
         \/ ~taken /\ Goto(fd, "add") /\ Stay
  /\ UNCHANGED <<disk, locks, clock, edited, requests>>

\* add_sentence_lock, the next section.
WriteAdd(fd) ==
  /\ pc[fd] = "add"
  /\ locks' = locks \cup {[file |-> arg[fd].file, sent |-> arg[fd].sent, fd |-> fd]}
  /\ edited' = edited \ {fd}
  /\ Done(fd)
  /\ UNCHANGED <<disk, clock, requests>>

\* The copy an edit line works on: the swap copy, or else the file itself.
Copy(l) == IF swap[<<l.file, l.sent, l.fd>>] # NoFile
           THEN swap[<<l.file, l.sent, l.fd>>] ELSE files[l.file]

\* Mutant: the edit line goes to the copies of every connection.
EditAllCopies(fd, idx, new) ==
  /\ Receive(fd, "EDIT")
  /\ \E l \in WriteInfo(fd) :
       /\ Copy(l) # NoFile
       /\ InsertOK(Copy(l), l.sent, idx)
       /\ Len(Copy(l)) + Len(new) <= MaxDocWords
       /\ swap' = [k \in DOMAIN swap |->
                     IF k[1] = l.file /\ k[2] = l.sent
                     THEN Insert(Copy(l), l.sent, idx, new) ELSE swap[k]]
  /\ edited' = edited \cup {fd}
  /\ UNCHANGED <<files, backups, undo, checkpoints, tagLog, table, locks, clock,
                 pc, arg, bufs>>

\* `<idx> <content>' in write mode.  The swap copy is the connection's own, so
\* reading the copy, inserting and writing the copy back is one step.
Edit(fd, idx, new) ==
  /\ Receive(fd, "EDIT")
  /\ \E l \in WriteInfo(fd) :
       /\ Copy(l) # NoFile
       /\ InsertOK(Copy(l), l.sent, idx)
       /\ Len(Copy(l)) + Len(new) <= MaxDocWords
       /\ swap' = [swap EXCEPT ![<<l.file, l.sent, l.fd>>] = Insert(Copy(l), l.sent, idx, new)]
  /\ edited' = edited \cup {fd}
  /\ UNCHANGED <<files, backups, undo, checkpoints, tagLog, table, locks, clock,
                 pc, arg, bufs>>

-----------------------------------------------------------------------------
(* ETIRW: commit the swap copy and release the lock *)

\* Mutant: the commit does not look for the swap copy.
EtirwBlindly(fd) ==
  /\ Receive(fd, "ETIRW")
  /\ \E l \in WriteInfo(fd) : Start(fd, Call("ETIRW", l.file, l.sent, NoFile), "bread")
  /\ UNCHANGED <<disk, locks, clock, bufs, edited>>

Etirw(fd) ==
  /\ Receive(fd, "ETIRW")
  /\ \E l \in WriteInfo(fd) :
       Start(fd, Call("ETIRW", l.file, l.sent, NoFile),
             IF swap[<<l.file, l.sent, l.fd>>] # NoFile THEN "bread" ELSE "unlock")
  /\ UNCHANGED <<disk, locks, clock, bufs, edited>>

AfterBackup(p) == IF arg[p].cmd = "ETIRW" THEN "merge" ELSE "trunc"

\* create_file_backup reads the file and takes the time; without a file it returns
\* and its caller goes on.
BackupRead(p) ==
  /\ pc[p] = "bread"
  /\ \/ /\ files[arg[p].file] = NoFile
        /\ Goto(p, AfterBackup(p))
        /\ UNCHANGED <<arg, seen>>
     \/ /\ files[arg[p].file] # NoFile
        /\ Goto(p, "bwrite")
        /\ arg' = [arg EXCEPT ![p].ts = clock]
        /\ seen' = [seen EXCEPT ![p] = files[arg[p].file]]
  /\ UNCHANGED <<disk, locks, clock, out, log, edited, requests>>

\* Mutant: the backup is logged though it could not be written.
BackupNotWritten(p) ==
  /\ pc[p] = "bwrite"
  /\ Goto(p, "blog")
  /\ UNCHANGED <<disk, locks, clock, arg, bufs, edited, requests>>

\* ... writes <f>_<ts>.bak, over one of the same second ...
BackupWrite(p) ==
  /\ pc[p] = "bwrite"
  /\ backups' = [backups EXCEPT ![<<arg[p].file, arg[p].ts>>] = seen[p]]
  /\ Goto(p, "blog")
  /\ UNCHANGED <<files, swap, undo, checkpoints, tagLog, table, locks, clock,
                 arg, bufs, edited, requests>>

\* Mutant: a new line of the log is written with a flag that no reader knows.
BackupLogBadFlag(p) ==
  /\ pc[p] = "blog"
  /\ undo' = [undo EXCEPT ![arg[p].file] = Append(@, [ts |-> arg[p].ts, used |-> 2])]
  /\ Goto(p, AfterBackup(p))
  /\ UNCHANGED <<files, swap, backups, checkpoints, tagLog, table, locks, clock,
                 arg, bufs, edited, requests>>

\* ... and appends a line to the undo log.
BackupLog(p) ==
  /\ pc[p] = "blog"
  /\ undo' = [undo EXCEPT ![arg[p].file] = Append(@, [ts |-> arg[p].ts, used |-> 0])]
  /\ Goto(p, AfterBackup(p))
  /\ UNCHANGED <<files, swap, backups, checkpoints, tagLog, table, locks, clock,
                 arg, bufs, edited, requests>>

\* The current document and the swap copy are read and merged in memory.
EtirwMerge(fd) ==
  /\ pc[fd] = "merge"
  /\ seen' = [seen EXCEPT ![fd] = files[arg[fd].file]]
  /\ out' = [out EXCEPT ![fd] = Merge(Read(arg[fd].file),
                                     swap[<<arg[fd].file, arg[fd].sent, fd>>], arg[fd].sent)]
  /\ Goto(fd, "trunc")
  /\ UNCHANGED <<disk, locks, clock, arg, log, edited, requests>>

\* fopen(path, "w"): the file is there and empty.
Truncate(p) ==
  /\ pc[p] = "trunc"
  /\ files' = [files EXCEPT ![arg[p].file] = <<>>]
  /\ arg' = [arg EXCEPT ![p].live = TRUE]
  /\ Goto(p, "write")
  /\ UNCHANGED <<swap, backups, undo, checkpoints, tagLog, table, locks, clock,
                 bufs, edited, requests>>

\* A write at offset 0 of a file that another thread may have filled since: the
\* tail of a longer text stays (word for word; offsets within words are not kept).
Overlay(new, old) == new \o SubSeq(old, Len(new) + 1, Len(old))

\* fprintf and fclose, lost if the path was unlinked meanwhile; a commit then
\* removes its swap copy.
WriteOut(p) ==
  /\ pc[p] = "write"
  /\ files' = IF arg[p].live
              THEN [files EXCEPT ![arg[p].file] = Overlay(out[p], @)] ELSE files
  /\ swap' = IF arg[p].cmd = "ETIRW"
             THEN [swap EXCEPT ![<<arg[p].file, arg[p].sent, p>>] = NoFile] ELSE swap
  /\ Goto(p, IF arg[p].cmd = "UNDO" THEN "ulog" ELSE "meta")
  /\ UNCHANGED <<backups, undo, checkpoints, tagLog, table, locks, clock,
                 arg, bufs, edited, requests>>

\* update_metadata_entry counts the words again if the file has an entry.
UpdateTable(p) ==
  /\ pc[p] = "meta"
  /\ table' = [table EXCEPT ![arg[p].file] =
                 IF @ = NoFile THEN NoFile ELSE Len(Read(arg[p].file))]
  /\ \/ arg[p].cmd = "ETIRW" /\ Goto(p, "unlock") /\ Stay
     \/ arg[p].cmd # "ETIRW" /\ Done(p)
  /\ UNCHANGED <<files, swap, backups, undo, checkpoints, tagLog, locks, clock,
                 edited, requests>>

\* Mutant: the commit is answered without remove_sentence_lock.
EtirwKeepsLock(fd) ==
  /\ pc[fd] = "unlock"
  /\ Done(fd)
  /\ UNCHANGED <<disk, locks, clock, edited, requests>>

\* Mutant: remove_sentence_lock compares file and sentence and not the descriptor.
EtirwUnlocksAll(fd) ==
  /\ pc[fd] = "unlock"
  /\ locks' = {l \in locks : l.file # arg[fd].file \/ l.sent # arg[fd].sent}
  /\ Done(fd)
  /\ UNCHANGED <<disk, clock, edited, requests>>

\* remove_sentence_lock
EtirwUnlock(fd) ==
  /\ pc[fd] = "unlock"
  /\ locks' = locks \ {[file |-> arg[fd].file, sent |-> arg[fd].sent, fd |-> fd]}
  /\ Done(fd)
  /\ UNCHANGED <<disk, clock, edited, requests>>

-----------------------------------------------------------------------------
(* UNDO <file>, from a client or forwarded by the name server *)

\* The handler of a connection refuses a file that is being edited or missing; the
\* name server's thread calls perform_undo without looking.
Undo(p, f) ==
  /\ Receive(p, "UNDO")
  /\ p # NS => ~InWriteMode(p) /\ ~Locked(f) /\ files[f] # NoFile
  /\ Start(p, Call("UNDO", f, 1, NoFile), "ufind")
  /\ UNCHANGED <<disk, locks, clock, bufs, edited>>

\* A line as sscanf returns it.  %127[^|] takes the end of the line into the user
\* name, so the flag that a rewrite prints after it starts a line of its own, which
\* does not parse: every line comes back unused.
Parse(line) == [line EXCEPT !.used = 0]

\* perform_undo up to the restored file: the newest unused line and its backup.  (The
\* code sorts the lines, newest first, and writes them back so; no reader of the log
\* depends on their order, and it is not kept here.)
UndoFind(p) ==
  /\ pc[p] = "ufind"
  /\ LET f       == arg[p].file
         lines   == [i \in DOMAIN undo[f] |-> Parse(undo[f][i])]
         unused  == {i \in DOMAIN lines : lines[i].used = 0}
         newest  == {i \in unused : \A j \in unused : lines[j].ts <= lines[i].ts}
     IN  \/ newest = {} /\ Done(p)
         \/ \E i \in newest :
              \/ backups[<<f, lines[i].ts>>] = NoFile /\ Done(p)
              \/ /\ backups[<<f, lines[i].ts>>] # NoFile
                 /\ out' = [out EXCEPT ![p] = backups[<<f, lines[i].ts>>]]
                 /\ log' = [log EXCEPT ![p] = [lines EXCEPT ![i].used = 1]]
                 /\ arg' = [arg EXCEPT ![p].ts = lines[i].ts]
                 /\ Goto(p, "trunc")
                 /\ UNCHANGED seen
  /\ UNCHANGED <<disk, locks, clock, edited, requests>>

\* The log is rewritten from memory.
UndoLog(p) ==
  /\ pc[p] = "ulog"
  /\ undo' = [undo EXCEPT ![arg[p].file] = log[p]]
  /\ Goto(p, "meta")
  /\ UNCHANGED <<files, swap, backups, checkpoints, tagLog, table, locks, clock,
                 arg, bufs, edited, requests>>

-----------------------------------------------------------------------------
(* CHECKPOINT and REVERT <file> <tag> *)

Checkpoint(fd, f, t) ==
  /\ Receive(fd, "CHECKPOINT")
  /\ ~InWriteMode(fd) /\ ~Locked(f) /\ files[f] # NoFile
  /\ Start(fd, Call("CHECKPOINT", f, 1, t), "cread")
  /\ UNCHANGED <<disk, locks, clock, bufs, edited>>

\* create_checkpoint reads the file and looks for a checkpoint of that tag ...
CheckpointRead(fd) ==
  /\ pc[fd] = "cread"
  /\ LET refused == \/ files[arg[fd].file] = NoFile
                    \/ checkpoints[<<arg[fd].file, arg[fd].tag>>] # NoFile
     IN  \/ refused /\ Done(fd)
         \/ /\ ~refused
            /\ out' = [out EXCEPT ![fd] = files[arg[fd].file]]
            /\ Goto(fd, "cwrite")
            /\ UNCHANGED <<arg, seen, log>>
  /\ UNCHANGED <<disk, locks, clock, edited, requests>>

\* ... and writes the checkpoint and a line of its log.
CheckpointWrite(fd) ==
  /\ pc[fd] = "cwrite"
  /\ checkpoints' = [checkpoints EXCEPT ![<<arg[fd].file, arg[fd].tag>>] = out[fd]]
  /\ tagLog' = [tagLog EXCEPT ![arg[fd].file] = Append(@, arg[fd].tag)]
  /\ Done(fd)
  /\ UNCHANGED <<files, swap, backups, undo, table, locks, clock, edited, requests>>

Revert(fd, f, t) ==
  /\ Receive(fd, "REVERT")
  /\ ~InWriteMode(fd) /\ ~Locked(f) /\ files[f] # NoFile
  /\ Start(fd, Call("REVERT", f, 1, t), "rread")
  /\ UNCHANGED <<disk, locks, clock, bufs, edited>>

\* revert_to_checkpoint reads the checkpoint; the backup, the truncation, the write
\* and the metadata update follow.
RevertRead(fd) ==
  /\ pc[fd] = "rread"
  /\ LET doc == checkpoints[<<arg[fd].file, arg[fd].tag>>]
     IN  \/ doc = NoFile /\ Done(fd)
         \/ /\ doc # NoFile
            /\ out' = [out EXCEPT ![fd] = doc]
            /\ Goto(fd, "bread")
            /\ UNCHANGED <<arg, seen, log>>
  /\ UNCHANGED <<disk, locks, clock, edited, requests>>

-----------------------------------------------------------------------------
(* CREATE and DELETE <file>, from a client or forwarded by the name server *)

\* fopen "w" and add_metadata_entry: an existing file is emptied and keeps its entry.
Create(p, f) ==
  /\ Receive(p, "CREATE")
  /\ ~InWriteMode(p)
  /\ files' = [files EXCEPT ![f] = <<>>]
  /\ table' = [table EXCEPT ![f] = IF @ = NoFile THEN 0 ELSE @]
  /\ UNCHANGED <<swap, backups, undo, checkpoints, tagLog, locks, clock,
                 pc, arg, bufs, edited>>

\* remove and remove_metadata_entry.  Locks, swap copies, backups and checkpoints
\* of the file stay; a thread that has it open writes to the unlinked file.
Delete(p, f) ==
  /\ Receive(p, "DELETE")
  /\ ~InWriteMode(p)
  /\ files[f] # NoFile
  /\ files' = [files EXCEPT ![f] = NoFile]
  /\ table' = [table EXCEPT ![f] = NoFile]
  /\ arg' = [q \in Procs |-> IF arg[q].file = f THEN [arg[q] EXCEPT !.live = FALSE]
                                                ELSE arg[q]]
  /\ UNCHANGED <<swap, backups, undo, checkpoints, tagLog, locks, clock,
                 pc, bufs, edited>>

-----------------------------------------------------------------------------

\* The steps a client's handler takes on its own, once it has received a line.
HandlerStep(fd) ==
  \/ WriteSize(fd) \/ WriteCheck(fd) \/ WriteAdd(fd)
  \/ EtirwMerge(fd) \/ EtirwUnlock(fd)
  \/ CheckpointRead(fd) \/ CheckpointWrite(fd) \/ RevertRead(fd)
  \/ CloseFd(fd)

\* The steps common to the client handlers and the name server's thread.
FileStep(p) ==
  \/ BackupRead(p) \/ BackupWrite(p) \/ BackupLog(p)
  \/ Truncate(p) \/ WriteOut(p) \/ UpdateTable(p)
  \/ UndoFind(p) \/ UndoLog(p)

\* What clients and the network do to a connection.
ClientStep(fd) ==
  \/ Accept(fd) \/ Hangup(fd) \/ Etirw(fd)
  \/ \E f \in Files :
       \/ \E s \in Sents : Write(fd, f, s)
       \/ \E t \in Tags : Checkpoint(fd, f, t) \/ Revert(fd, f, t)
  \/ \E idx \in 1..MaxDocWords, new \in Inputs : Edit(fd, idx, new)

Next ==
  \/ \E fd \in Fds : ClientStep(fd) \/ HandlerStep(fd)
  \/ \E p \in Procs : FileStep(p)
  \/ \E p \in Procs, f \in Files : Undo(p, f) \/ Create(p, f) \/ Delete(p, f)
  \/ Shutdown
  \/ Tick

Spec == Init /\ [][Next]_vars

\* Handler threads are scheduled by the kernel and block on nothing but recv, so a
\* command that was received runs to its end.
FairSpec ==
  /\ Spec
  /\ \A fd \in Fds : WF_vars(HandlerStep(fd))
  /\ \A p \in Procs : WF_vars(FileStep(p))

-----------------------------------------------------------------------------
(* Safety *)

\* The directories hold a path per name; undo and checkpoint logs hold lines.
DiskOK ==
  /\ DOMAIN files = Files
  /\ DOMAIN swap = Files \X Sents \X Fds
  /\ DOMAIN backups = Files \X Seconds
  /\ DOMAIN checkpoints = Files \X Tags
  /\ DOMAIN table = Files
  /\ undo \in [Files -> Seq(Line)]
  /\ tagLog \in [Files -> Seq(Tags)]

ThreadsOK ==
  /\ pc \in [Procs -> Labels]
  /\ arg \in [Procs -> Arg]
  /\ DOMAIN seen = Procs
  /\ DOMAIN out = Procs
  /\ log \in [Procs -> Seq(Line)]

\* Every variable has its type; documents are told from missing files only.
TypeOK ==
  /\ DiskOK
  /\ ThreadsOK
  /\ locks \subseteq Lock
  /\ clock \in Seconds
  /\ edited \subseteq Fds
  /\ requests \in Nat

\* get_client_write_info returns the first lock of a connection, and a connection in
\* write mode reaches no command but ETIRW: so it never holds a second lock, and
\* the line it sends next is always meant for the sentence it locked.
OneSentencePerConnection ==
  \A l, m \in locks : l.fd = m.fd => l = m

\* Locks name descriptors, and descriptors are reused: no lock outlives the
\* connection that took it, or the next connection would start in write mode.
LocksBelongToOpenConnections ==
  \A l \in locks : pc[l.fd] \notin {"closed", "closing"}

\* Where a commit stands before it has written the document.
Committing == {"bread", "bwrite", "blog", "merge", "trunc", "write"}

\* While ETIRW is under way its sentence is still locked by the connection and,
\* until the merged document is written, its swap copy exists: the fread of the copy
\* that ETIRW opens a second time, unchecked, never meets a NULL stream.
CommitHasItsCopy ==
  \A fd \in Fds :
    arg[fd].cmd = "ETIRW" =>
      /\ [file |-> arg[fd].file, sent |-> arg[fd].sent, fd |-> fd] \in locks
      /\ pc[fd] \in Committing => swap[<<arg[fd].file, arg[fd].sent, fd>>] # NoFile

\* Every line of an undo log has its backup file, whatever commits, undos,
\* reverts, shutdowns and deletions are interleaved: perform_undo never has to
\* give up with "Backup file not found during undo".
UndoLogResolves ==
  \A f \in Files : \A i \in DOMAIN undo[f] : backups[<<f, undo[f][i].ts>>] # NoFile

\* A swap copy belongs to the session that holds the lock: only a step of that
\* connection, while it holds the sentence, writes or removes it.
SwapChangesUnderLock ==
  [][\A k \in DOMAIN swap :
       swap'[k] # swap[k] => [file |-> k[1], sent |-> k[2], fd |-> k[3]] \in locks]_vars

\* The mode of each connection as WriteSessions sees it: its label and its lock.
ModeOf(label, held) ==
  IF label = "closed" THEN <<"closed">>
  ELSE IF held = {} THEN <<"command">>
  ELSE LET l == CHOOSE l \in held : TRUE IN <<"editing", l.file, l.sent>>

SessionMode == [fd \in Fds |-> ModeOf(pc[fd], WriteInfo(fd))]

Sessions == INSTANCE WriteSessions WITH mode <- SessionMode

\* The lock list, the write-mode test, the locks dropped at disconnect and the reuse
\* of descriptors together implement the sessions of WriteSessions.
ImplementsSessions == Sessions!Spec

-----------------------------------------------------------------------------
(* The inductive strengthening of the invariants *)

Resting == {"idle", "closed", "closing"}

\* The label of a thread determines its command, and a command its arguments.
CallOK(p, label, a) ==
  /\ label \in Resting => a = NoCall
  /\ label \notin Resting => a.file \in Files
  /\ label \in {"size", "check", "add"} => a.cmd = "WRITE"
  /\ label \in {"bread", "bwrite", "blog"} => a.cmd \in {"ETIRW", "REVERT"}
  /\ label \in {"merge", "unlock"} => a.cmd = "ETIRW"
  /\ label \in {"trunc", "write", "meta"} => a.cmd \in {"ETIRW", "UNDO", "REVERT"}
  /\ label \in {"ufind", "ulog"} => a.cmd = "UNDO"
  /\ label \in {"cread", "cwrite"} => a.cmd = "CHECKPOINT" /\ a.tag \in Tags
  /\ label = "rread" => a.cmd = "REVERT"
  /\ p \notin Fds => a.cmd # "ETIRW"

CallInv == \A p \in Procs : CallOK(p, pc[p], arg[p])

\* A connection that holds a lock waits for a line or commits: no other command
\* starts or goes on in write mode.
WriteModeInv ==
  \A l \in locks : pc[l.fd] = "idle" \/ arg[l.fd].cmd = "ETIRW"

LockInv == OneSentencePerConnection /\ WriteModeInv /\ CommitHasItsCopy

\* What a thread is about to log, or to write back as the log, has its backup.
PendingLog(label, a, doc, lines) ==
  /\ label = "bwrite" => doc # NoFile
  /\ label = "blog" => backups[<<a.file, a.ts>>] # NoFile
  /\ a.cmd # "UNDO" => lines = <<>>
  /\ a.cmd = "UNDO" =>
       \A i \in DOMAIN lines : backups[<<a.file, lines[i].ts>>] # NoFile

PendingLogInv == \A p \in Procs : PendingLog(pc[p], arg[p], seen[p], log[p])

HistoryInv == UndoLogResolves /\ PendingLogInv

-----------------------------------------------------------------------------
(* Liveness *)

\* ETIRW "Releases lock": a commit that was received ends with its sentence free
\* again, whatever the other threads do to the same files.
CommitReleasesLock ==
  \A fd \in Fds : arg[fd].cmd = "ETIRW" ~> ~InWriteMode(fd)

-----------------------------------------------------------------------------
(* What the repository says and the code does not keep *)

\* README: "Sentence Locking: Prevents simultaneous edits to the same sentence".
OneEditorPerSentence ==
  \A l, m \in locks : l.file = m.file /\ l.sent = m.sent => l = m

\* "Read the LATEST state of the original file", "MERGED WITH CONCURRENT CHANGES":
\* the document that ETIRW overwrites is the one it merged with.
MergedWithLatest ==
  \A fd \in Fds :
    arg[fd].cmd = "ETIRW" /\ pc[fd] = "trunc" => files[arg[fd].file] = seen[fd]

\* "No changes were made, just release lock": ETIRW commits only what was edited in
\* this session.
CommitsOwnEdits ==
  \A fd \in Fds : arg[fd].cmd = "ETIRW" /\ pc[fd] # "unlock" => fd \in edited

\* "Find the next unused backup (going backwards in time)": a backup whose line is
\* marked used is not restored again.
UndoGoesBackwards ==
  \A p \in Procs :
    arg[p].cmd = "UNDO" /\ pc[p] = "trunc" =>
      \E i \in DOMAIN undo[arg[p].file] :
        undo[arg[p].file][i] = [ts |-> arg[p].ts, used |-> 0]

\* "Cannot undo: file is currently being edited".
UndoSparesEditedFiles ==
  \A p \in Procs : arg[p].cmd = "UNDO" /\ pc[p] = "trunc" => ~Locked(arg[p].file)

\* "Checkpoint tag already exists": a tag of a file is created once, so that the
\* checkpoint a user was told was created is the one REVERT restores.
TagCreatedOnce ==
  \A f \in Files : \A i, j \in DOMAIN tagLog[f] : tagLog[f][i] = tagLog[f][j] => i = j

\* README: "All data survives server restarts": a server at rest holds no emptied
\* document (no run of this property creates or deletes files).
DocumentSurvives ==
  (\A p \in Procs : pc[p] \in {"idle", "closed"}) =>
    \A f \in Files : files[f] # <<>>
=============================================================================
