------------------------------ MODULE Metadata ------------------------------
(***************************************************************************)
(* The storage server's metadata (storage_server/persistence.c): the array *)
(* file_table with owner and access list of every file, searched, shifted  *)
(* and changed without a lock by the thread that serves the name server    *)
(* and by the threads of the clients, and metadata.txt, which save_metadata *)
(* truncates and rewrites after every change.  Any of the threads may add  *)
(* and remove entries: two of them at once can lose entries, double them   *)
(* and drive file_count out of the array.  Sizes, word counts, times and   *)
(* the kind of permission are left out: what updates only those is a       *)
(* search and a save.                                                      *)
(***************************************************************************)
EXTENDS Naturals, Sequences, SequencesExt

CONSTANTS
  Threads, NS,    \* threads of the process; NS, one of them, serves the name server
  Files, Users,
  None, Short,    \* no owner; an owner's name cut short
  Junk,           \* a name read from the middle of a line
  MaxFiles,       \* MAX_FILES
  MaxAcl,         \* MAX_ACL_ENTRIES
  MaxOps,         \* bound: operations
  MaxRestarts     \* bound: crashes

ASSUME ThreadsAssumption == NS \in Threads
ASSUME NamesAssumption == Junk \notin Files /\ {None, Short} \cap Users = {}
ASSUME BoundAssumption ==
  MaxFiles \in Nat /\ MaxAcl \in Nat /\ MaxOps \in Nat /\ MaxRestarts \in Nat

\* add_metadata_entry, remove_metadata_entry, persist_set_owner, persist_set_acl,
\* persist_remove_acl; update_metadata_entry and persist_update_last_accessed.
Operations == {"add", "remove", "owner", "grant", "revoke", "touch"}

\* What a thread is asked for: a client's CREATE and DELETE change the table as the name
\* server's do; owners are set and access is revoked for the name server only.
Commands(t) == IF t = NS THEN Operations ELSE Operations \ {"owner", "revoke"}

\* The operations that change names and owners.
Naming == {"add", "remove", "owner"}

VARIABLES
  slots, count,       \* file_table and file_count; slots beyond count keep old contents
  disk,               \* the lines of metadata.txt
  pc, op,             \* where each thread stands, its operation
  at,                 \* its place in file_table
  buf,                \* the lines its save_metadata has printed
  wild,               \* file_count has left the array: undefined from here to a restart
  ops, restarts,      \* bounds
  solo,               \* history: the thread whose operation runs alone so far
  kept, stored,       \* history: the last save ran alone; the table it wrote
  books,              \* history: owner of each file that was created and not deleted
  asked,              \* history: the grants in force
  hand, torn,         \* history: the thread that last began to change names or owners; two
                      \* threads did so at once
  raced, sound        \* history: a removal or a grant was overtaken, or a list that was
                      \* loaded shows it; start from a good file

tableVars == <<slots, count>>
history   == <<solo, kept, stored, books, asked, hand, torn, raced, sound>>
vars == <<tableVars, disk, pc, op, at, buf, wild, ops, restarts, history>>

Nobody == [kind |-> "none", file |-> Junk, user |-> None]

Blank == [name |-> Junk, owner |-> None, acl |-> [j \in 1 .. MaxAcl |-> None], n |-> 0]

\* The j-th entry of an access list.  Grants at the same time can count too many; what
\* lies behind the array is no user's name.
Acl(e, j) == IF j <= MaxAcl THEN e.acl[j] ELSE None

\* An entry as save_metadata prints it, and the table as far as file_count goes.
Printed(e) == [name |-> e.name, owner |-> e.owner, acl |-> [j \in 1 .. e.n |-> Acl(e, j)]]

Table == [i \in 1 .. count |-> Printed(slots[i])]

Init ==
  /\ slots = [i \in 1 .. MaxFiles |-> Blank]
  /\ count = 0
  /\ disk = <<>>
  /\ pc = [t \in Threads |-> "idle"]
  /\ op = [t \in Threads |-> Nobody]
  /\ at = [t \in Threads |-> 1]
  /\ buf = [t \in Threads |-> <<>>]
  /\ ops = 0 /\ restarts = 0
  /\ solo = {} /\ kept = TRUE /\ stored = <<>>
  /\ books = [f \in {} |-> None]
  /\ asked = {} /\ raced = FALSE /\ sound = TRUE
  /\ wild = FALSE /\ hand = NS /\ torn = FALSE

Active == {t \in Threads : pc[t] # "idle"}

Goto(t, label) == pc' = [pc EXCEPT ![t] = label]

\* The operation is over.
Done(t) ==
  /\ Goto(t, "idle")
  /\ op' = [op EXCEPT ![t] = Nobody]
  /\ at' = [at EXCEPT ![t] = 1]
  /\ buf' = [buf EXCEPT ![t] = <<>>]

\* Two changes of names or owners at once.
Collides(o, p) == {o.kind, p.kind} \subseteq Naming

\* A removal shifts entries under the eyes of everyone; two changes of one access list
\* use the same slots.
Overtakes(o, p) ==
  \/ "remove" \in {o.kind, p.kind} \/ Collides(o, p)
  \/ {o.kind, p.kind} \subseteq {"grant", "revoke"} /\ o.file = p.file

\* A command of the name server or of a client that changes metadata.
Begin(t, o) ==
  /\ pc[t] = "idle" /\ ops < MaxOps
  /\ o.kind \in Commands(t)
  /\ op' = [op EXCEPT ![t] = o]
  /\ Goto(t, "find")
  /\ ops' = ops + 1
  /\ raced' = (raced \/ \E s \in Active : Overtakes(o, op[s]))
  /\ torn' = (torn \/ \E s \in Active : Collides(o, op[s]))
  /\ hand' = IF o.kind \in Naming THEN t ELSE hand
  /\ solo' = IF Active = {} THEN {t} ELSE {}
  /\ kept' = (kept /\ Active = {})
  /\ asked' = IF o.kind = "grant" THEN asked \cup {<<o.file, o.user>>} ELSE asked
  /\ UNCHANGED <<tableVars, disk, at, buf, wild, restarts, stored, books, sound>>

\* What a search leads to.
Then(kind) ==
  CASE kind = "remove" -> "shift"
    [] kind = "touch" -> "open"
    [] OTHER -> "change"

\* Mutant: a full table is not noticed.
FindUnbounded(t) ==
  LET o == op[t] IN
  /\ pc[t] = "find"
  /\ \/ /\ at[t] <= count /\ slots[at[t]].name # o.file
        /\ at' = [at EXCEPT ![t] = @ + 1]
        /\ UNCHANGED pc
     \/ /\ IF at[t] <= count THEN slots[at[t]].name = o.file /\ Goto(t, Then(o.kind))
           ELSE o.kind = "add" /\ Goto(t, "fill")
        /\ UNCHANGED at
  /\ UNCHANGED <<tableVars, disk, op, buf, wild, ops, restarts, history>>

\* The loop of persist_find_file and of the functions that search by themselves: one
\* element at a time, file_count read anew.
persist_find_file(t) ==
  LET o == op[t] IN
  /\ pc[t] = "find"
  /\ \/ /\ at[t] <= count /\ slots[at[t]].name # o.file
        /\ at' = [at EXCEPT ![t] = @ + 1]
        /\ UNCHANGED <<pc, op, buf>>
     \/ /\ at[t] <= count /\ slots[at[t]].name = o.file
        /\ IF o.kind = "add" THEN Done(t) ELSE Goto(t, Then(o.kind)) /\ UNCHANGED <<op, at, buf>>
     \/ /\ at[t] > count
        /\ IF o.kind = "add" /\ count < MaxFiles
           THEN Goto(t, "fill") /\ UNCHANGED <<op, at, buf>>
           ELSE Done(t)
  /\ UNCHANGED <<tableVars, disk, wild, ops, restarts, history>>

\* Mutant: the entry keeps the access list of an earlier one in its slot.
FillOver(t) ==
  /\ count < MaxFiles
  /\ \/ /\ pc[t] = "fill"
        /\ slots' = [slots EXCEPT ![count + 1].name = op[t].file]
        /\ Goto(t, "fields")
        /\ UNCHANGED <<count, books>>
     \/ /\ pc[t] = "fields"
        /\ slots' = [slots EXCEPT ![count + 1].owner = None]
        /\ count' = count + 1
        /\ books' = [f \in DOMAIN books \cup {op[t].file} |-> IF f = op[t].file THEN None ELSE books[f]]
        /\ Goto(t, "open")
  /\ UNCHANGED <<disk, op, at, buf, wild, ops, restarts, solo, kept, stored, asked, hand, torn, raced,
                 sound>>

\* add_metadata_entry: the name goes to the next slot, then the fields to the slot that is
\* next by then, and file_count grows; old entries of the access list stay, with count 0.
add_metadata_entry(t) ==
  /\ count < MaxFiles
  /\ \/ /\ pc[t] = "fill"
        /\ slots' = [slots EXCEPT ![count + 1].name = op[t].file]
        /\ Goto(t, "fields")
        /\ UNCHANGED <<count, books>>
     \/ /\ pc[t] = "fields"
        /\ slots' = [slots EXCEPT ![count + 1].owner = None, ![count + 1].n = 0]
        /\ count' = count + 1
        /\ books' = [f \in DOMAIN books \cup {op[t].file} |-> IF f = op[t].file THEN None ELSE books[f]]
        /\ Goto(t, "open")
  /\ UNCHANGED <<disk, op, at, buf, wild, ops, restarts, solo, kept, stored, asked, hand, torn, raced,
                 sound>>

Forget(f) ==
  /\ books' = [g \in DOMAIN books \ {f} |-> books[g]]
  /\ asked' = {g \in asked : g[1] # f}

\* Mutant: the shift stops one entry early.
ShiftShort(t) ==
  /\ pc[t] = "shift"
  /\ IF at[t] < count - 1
     THEN /\ slots' = [slots EXCEPT ![at[t]] = slots[at[t] + 1]]
          /\ at' = [at EXCEPT ![t] = @ + 1]
          /\ UNCHANGED <<count, pc, books, asked>>
     ELSE /\ count > 0 /\ count' = count - 1 /\ Forget(op[t].file)
          /\ Goto(t, "open")
          /\ UNCHANGED <<slots, at>>
  /\ UNCHANGED <<disk, op, buf, wild, ops, restarts, solo, kept, stored, hand, torn, raced, sound>>

\* remove_metadata_entry: the later entries move down one by one, then file_count falls.
remove_metadata_entry(t) ==
  /\ pc[t] = "shift"
  /\ IF at[t] < count
     THEN /\ slots' = [slots EXCEPT ![at[t]] = slots[at[t] + 1]]
          /\ at' = [at EXCEPT ![t] = @ + 1]
          /\ UNCHANGED <<count, pc, books, asked>>
     ELSE /\ count > 0 /\ count' = count - 1 /\ Forget(op[t].file)
          /\ Goto(t, "open")
          /\ UNCHANGED <<slots, at>>
  /\ UNCHANGED <<disk, op, buf, wild, ops, restarts, solo, kept, stored, hand, torn, raced, sound>>

\* Two adds that both found room, or two removals of one entry: an entry is written beyond
\* file_table, or file_count falls below 0 and the next one is written before it.
OutOfBounds(t) ==
  /\ \/ pc[t] \in {"fill", "fields"} /\ count = MaxFiles
     \/ pc[t] = "shift" /\ count = 0
  /\ wild' = TRUE
  /\ UNCHANGED <<tableVars, disk, pc, op, at, buf, ops, restarts, history>>

Rest == UNCHANGED <<count, disk, op, at, buf, wild, ops, restarts, solo, kept, stored, hand, torn, raced,
                    sound>>

\* persist_set_owner, through the pointer the search has returned.
persist_set_owner(t) ==
  /\ pc[t] = "change" /\ op[t].kind = "owner"
  /\ slots' = [slots EXCEPT ![at[t]].owner = op[t].user]
  /\ books' = [books EXCEPT ![op[t].file] = op[t].user]
  /\ Goto(t, "open")
  /\ UNCHANGED asked /\ Rest

Listed(e, u) == {j \in 1 .. e.n : Acl(e, j) = u}

\* persist_set_acl: an entry of the user's is updated; if none is found and there is
\* room, a new one is written behind the list, and only then counted.
persist_set_acl(t) ==
  LET e == slots[at[t]]
      u == op[t].user
  IN
  /\ op[t].kind = "grant"
  /\ \/ /\ pc[t] = "change"
        /\ Goto(t, IF Listed(e, u) = {} THEN "append" ELSE "open")
        /\ UNCHANGED <<slots, op, at, buf>>
     \/ /\ pc[t] = "append" /\ e.n < MaxAcl
        /\ slots' = [slots EXCEPT ![at[t]].acl[e.n + 1] = u]
        /\ Goto(t, "count")
        /\ UNCHANGED <<op, at, buf>>
     \/ /\ pc[t] = "append" /\ e.n >= MaxAcl
        /\ Done(t)
        /\ UNCHANGED slots
     \/ /\ pc[t] = "count"
        /\ slots' = [slots EXCEPT ![at[t]].n = @ + 1]
        /\ Goto(t, "open")
        /\ UNCHANGED <<op, at, buf>>
  /\ UNCHANGED <<count, disk, wild, ops, restarts, history>>

\* persist_remove_acl: the last entry takes the place of the removed one.
persist_remove_acl(t) ==
  LET e == slots[at[t]]
      found == Listed(e, op[t].user)
  IN
  /\ pc[t] = "change" /\ op[t].kind = "revoke"
  /\ asked' = asked \ {<<op[t].file, op[t].user>>}
  /\ \/ /\ found = {}
        /\ Done(t)
        /\ UNCHANGED slots
     \/ /\ found # {}
        /\ LET first == CHOOSE j \in found : \A k \in found : j <= k IN
           slots' = [slots EXCEPT ![at[t]] =
                       [name |-> e.name, owner |-> e.owner, n |-> e.n - 1,
                        acl |-> [e.acl EXCEPT ![first] = Acl(e, e.n)]]]
        /\ Goto(t, "open")
        /\ UNCHANGED <<op, at, buf>>
  /\ UNCHANGED <<count, disk, wild, ops, restarts, solo, kept, stored, books, hand, torn, raced, sound>>

-----------------------------------------------------------------------------
(* metadata.txt *)

\* A line of the file, and where it is cut: not at all, before the fields that load_metadata
\* insists on are complete, before, in and after the owner.
Cuts == {"whole", "fields", "times", "owner", "acl", "middle"}

Line(e, cut) == [entry |-> e, cut |-> cut]

\* Mutant: a line with too few fields is loaded as well.
ParsedAnyway(l) ==
  CASE l.cut = "whole" -> <<l.entry>>
    [] l.cut \in {"fields", "middle"} -> <<[name |-> Junk, owner |-> None, acl |-> <<>>]>>
    [] OTHER -> <<[l.entry EXCEPT !.acl = <<>>]>>

\* load_metadata: what it makes of a line.  It skips a line with too few fields; the rest
\* of a line that another save has overwritten may have enough of them.
Parsed(l) ==
  CASE l.cut = "whole" ->
         <<[l.entry EXCEPT !.acl = SubSeq(@, 1, IF Len(@) < MaxAcl THEN Len(@) ELSE MaxAcl)]>>
    [] l.cut = "fields" -> <<>>
    [] l.cut = "times" -> <<[name |-> l.entry.name, owner |-> None, acl |-> <<>>]>>
    [] l.cut = "owner" -> <<[name |-> l.entry.name, owner |-> Short, acl |-> <<>>]>>
    [] l.cut = "acl" ->
         <<[l.entry EXCEPT !.acl = SubSeq(@, 1, IF Len(@) <= MaxAcl THEN Len(@) - 1 ELSE MaxAcl)]>>
    [] l.cut = "middle" -> <<[name |-> Junk, owner |-> None, acl |-> <<>>]>>

Loaded(lines) ==
  LET load[i \in 0 .. Len(lines)] ==
        IF i = 0 THEN <<>> ELSE load[i - 1] \o Parsed(lines[i])
      all == load[Len(lines)]
  IN SubSeq(all, 1, IF Len(all) < MaxFiles THEN Len(all) ELSE MaxFiles)

\* The cuts that fit a line: after the owner only a list that has entries can be cut.
CutsOf(e) ==
  {"fields", "times"} \cup (IF e.owner = None THEN {} ELSE {"owner"})
                      \cup (IF e.acl = <<>> THEN {} ELSE {"acl"})

\* save_metadata: fopen "w".
SaveOpen(t) ==
  /\ pc[t] = "open"
  /\ disk' = <<>>
  /\ at' = [at EXCEPT ![t] = 1]
  /\ Goto(t, "print")
  /\ UNCHANGED <<tableVars, op, buf, wild, ops, restarts, history>>

\* Mutant: the last entry is not printed.
PrintShort(t) ==
  /\ pc[t] = "print" /\ at[t] <= count
  /\ buf' = IF at[t] = count THEN buf
            ELSE [buf EXCEPT ![t] = Append(@, Line(Printed(slots[at[t]]), "whole"))]
  /\ at' = [at EXCEPT ![t] = @ + 1]
  /\ UNCHANGED <<tableVars, disk, pc, op, wild, ops, restarts, history>>

\* One round of the loop: the fprintf calls for one entry.
SavePrint(t) ==
  /\ pc[t] = "print" /\ at[t] <= count
  /\ buf' = [buf EXCEPT ![t] = Append(@, Line(Printed(slots[at[t]]), "whole"))]
  /\ at' = [at EXCEPT ![t] = @ + 1]
  /\ UNCHANGED <<tableVars, disk, pc, op, wild, ops, restarts, history>>

\* Writing lines at the stream's own offset.  What another save has written since the
\* file was truncated stays beyond them, its first line without a beginning.
Over(lines) ==
  LET tail == SubSeq(disk, Len(lines) + 1, Len(disk))
      broken == {<<Line(Printed(Blank), c)>> : c \in {"fields", "middle"}}
  IN IF Len(disk) <= Len(lines) /\ \A i \in DOMAIN disk : disk[i].entry = lines[i].entry
     THEN {lines}
     ELSE {lines \o tail} \cup {lines \o l \o tail : l \in broken}

\* The stream's buffer is full: what is printed goes to the file, up to any byte.
SaveFlush(t) ==
  LET n == Len(buf[t]) IN
  /\ pc[t] = "print" /\ n > Len(disk)
  /\ \E c \in CutsOf(buf[t][n].entry) \cup {"whole"} : disk' \in Over([buf[t] EXCEPT ![n].cut = c])
  /\ UNCHANGED <<tableVars, pc, op, at, buf, wild, ops, restarts, history>>

\* fclose, and the end of the operation.
SaveClose(t) ==
  /\ pc[t] = "print" /\ at[t] > count
  /\ disk' \in Over(buf[t])
  /\ kept' = (t \in solo)
  /\ stored' = IF t \in solo THEN Table ELSE stored
  /\ Done(t)
  /\ UNCHANGED <<tableVars, wild, ops, restarts, solo, books, asked, hand, torn, raced, sound>>

\* The process ends at any point, with all its threads, and is started again.
Restart ==
  LET l == Loaded(disk)
      Entry(e) == [name |-> e.name, owner |-> e.owner, n |-> Len(e.acl),
                   acl |-> [j \in 1 .. MaxAcl |-> IF j <= Len(e.acl) THEN e.acl[j] ELSE None]]
  IN
  /\ restarts < MaxRestarts
  /\ restarts' = restarts + 1
  /\ slots' = [i \in 1 .. MaxFiles |-> IF i <= Len(l) THEN Entry(l[i]) ELSE Blank]
  /\ count' = Len(l)
  /\ pc' = [t \in Threads |-> "idle"]
  /\ op' = [t \in Threads |-> Nobody]
  /\ at' = [t \in Threads |-> 1]
  /\ buf' = [t \in Threads |-> <<>>]
  /\ books' = [f \in {l[i].name : i \in DOMAIN l} |-> l[CHOOSE i \in DOMAIN l : l[i].name = f].owner]
  /\ asked' = UNION {{<<l[i].name, l[i].acl[j]>> : j \in DOMAIN l[i].acl} : i \in DOMAIN l}
  /\ wild' = FALSE /\ hand' = NS /\ torn' = FALSE
  /\ sound' = (sound /\ kept /\ ~torn)
  /\ raced' = (\E i \in DOMAIN l : ~IsInjective(l[i].acl))
  /\ solo' = {} /\ kept' = TRUE /\ stored' = l
  /\ UNCHANGED <<disk, ops>>

-----------------------------------------------------------------------------

Requests ==
  [kind : {"owner", "grant", "revoke"}, file : Files, user : Users]
    \cup [kind : {"add", "remove", "touch"}, file : Files, user : {None}]

save_metadata(t) == SaveOpen(t) \/ SavePrint(t) \/ SaveFlush(t) \/ SaveClose(t)

Next ==
  \/ \E t \in Threads :
       \/ \E o \in Requests : ~wild /\ Begin(t, o)
       \/ ~wild /\ persist_find_file(t)
       \/ ~wild /\ add_metadata_entry(t)
       \/ ~wild /\ remove_metadata_entry(t)
       \/ ~wild /\ OutOfBounds(t)
       \/ ~wild /\ persist_set_owner(t)
       \/ ~wild /\ persist_set_acl(t)
       \/ ~wild /\ persist_remove_acl(t)
       \/ ~wild /\ save_metadata(t)
  \/ Restart

Spec == Init /\ [][Next]_vars

-----------------------------------------------------------------------------
(* Properties *)

Names == Files \cup {Junk}
Owners == Users \cup {None, Short}

\* The entries are file names, owners and lists of users, file_count stays in the array
\* unless two threads change names at once, every thread stands at a step of the function
\* it executes.
TypeOK ==
  /\ count \in 0 .. MaxFiles /\ (wild => torn)
  /\ DOMAIN slots = 1 .. MaxFiles
  /\ \A i \in DOMAIN slots :
       /\ slots[i].name \in Names /\ slots[i].owner \in Owners
       /\ slots[i].n \in Nat /\ (~raced => slots[i].n <= MaxAcl)
       /\ slots[i].acl \in [1 .. MaxAcl -> Users \cup {None}]
  /\ \A t \in Threads :
       /\ pc[t] \in {"idle", "find", "fill", "fields", "shift", "change", "append", "count", "open",
                    "print"}
       /\ at[t] \in 1 .. MaxFiles + 1

\* As long as no two threads change names or owners at once (nothing in the code keeps a
\* client's CREATE or DELETE away from the name server's commands), file_table has one
\* entry for each file that was created and not deleted, with the owner that was set,
\* whatever grants and saves the other threads make meanwhile; except in the middle of a
\* shift, and since a start from a file no two saves had mixed up.
TableFollowsCommands ==
  sound /\ ~torn /\ (\A t \in Threads : pc[t] # "shift") =>
    /\ {slots[i].name : i \in 1 .. count} = DOMAIN books
    /\ \A i \in 1 .. count :
         /\ slots[i].owner = books[slots[i].name]
         /\ \A j \in 1 .. count : slots[i].name = slots[j].name => i = j

\* Every user in an access list was granted access to that file, and since then neither
\* was the access revoked nor the file deleted; unless a removal ran at the same time as
\* another operation, two changes of one list did, or two changes of names or owners.  The
\* conditions are not met by the code: no lock keeps these commands apart.
GrantsInForce ==
  sound /\ ~raced =>
    \A i \in 1 .. count : \A j \in 1 .. slots[i].n : <<slots[i].name, Acl(slots[i], j)>> \in asked

Fit(table) == \A i \in DOMAIN table : Len(table[i].acl) <= MaxAcl

\* A change that no other thread disturbed is in metadata.txt when it is over: loading it
\* gives the table.
SoloIsDurable == kept /\ Active = {} /\ Fit(Table) => Loaded(disk) = Table

Weaker(d, e) ==
  /\ d.name = e.name
  /\ d.owner \in {e.owner, None, Short}
  /\ IsPrefix(d.acl, e.acl)

\* A crash in the middle of a change that runs alone loses entries only from the end of
\* the table: what is loaded are its first entries, the last of them perhaps without its
\* owner or some of its access list, and no file or grant that is not in the table.
\* (Lists that racing grants have made longer than the array are cut when they are read.)
CrashLosesTail ==
  kept /\ Fit(Table) /\ Fit(stored) =>
          \/ Loaded(disk) = stored
          \/ LET l == Loaded(disk) IN
             /\ Len(l) <= count
             /\ \A i \in DOMAIN l : IF i < Len(l) THEN l[i] = Table[i] ELSE Weaker(l[i], Table[i])

\* The same without the condition on raced.
GrantsAlwaysInForce ==
  sound => \A i \in 1 .. count : \A j \in 1 .. slots[i].n : <<slots[i].name, Acl(slots[i], j)>> \in asked

\* The table follows the commands also when two threads change names at once.
TableAlwaysFollows ==
  sound /\ Active = {} =>
    /\ {slots[i].name : i \in 1 .. count} = DOMAIN books
    /\ \A i, j \in 1 .. count : slots[i].name = slots[j].name => i = j

\* When no operation is under way the file has the table.
AtRestDurable == Active = {} => Loaded(disk) = Table

\* A crash loses no file that was saved.
CrashKeepsFiles ==
  kept => \A i \in 1 .. count : i <= Len(stored) => \E j \in DOMAIN Loaded(disk) : Loaded(disk)[j].name = stored[i].name
=============================================================================
