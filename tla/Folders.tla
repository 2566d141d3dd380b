------------------------------- MODULE Folders -------------------------------
(***************************************************************************)
(* Folders and listings of the name server (name_server/search.c and the   *)
(* folder and VIEW handlers of client_handler.c): the folder registry, the *)
(* folder of every file record, CREATEFOLDER, MOVE, MOVEFOLDER, VIEW and   *)
(* VIEWFOLDER with the refresh that the -l flag asks of the storage server.*)
(*                                                                         *)
(* A folder is only a name: a sequence of characters in which "/"          *)
(* separates levels.  The registry entries and the file records are        *)
(* related by nothing but these names.                                     *)
(*                                                                         *)
(* One step is one section of trie_mutex or one blocking call on a storage *)
(* server's socket.  A file record names the slot of its server, and a     *)
(* command goes on with the slot it has read, whatever becomes of the file *)
(* meanwhile: CREATE and DELETE change the record and the document in      *)
(* different steps.  A registration is one step here (NameServer.tla takes *)
(* it apart), and the name server that a send to a dead server kills       *)
(* (MOVE, MOVEFOLDER and SET_OWNER send twice) just makes no more steps.   *)
(***************************************************************************)
EXTENDS Naturals, Sequences, FiniteSets

CONSTANTS
  Users, Files,
  Servers,       \* the storage servers
  Slots,         \* the number of slots of the registry, MAX_STORAGE_SERVERS
  None,          \* no record, no file, no thread
  FolderNames,   \* the names clients type
  OnDisk,        \* the owner of each file at start, or None
  Home,          \* the slot of the server it is on
  Order,         \* the servers in the order they registered in before the start
  Shared,        \* the users granted READ on each file
  MaxFolders,    \* MAX_FOLDERS
  MaxName,       \* MAX_FILENAME - 1
  Room,          \* the lines that fit into FILE_LIST_BUFFER_SIZE
  MaxWords,      \* bound: the word counts of a document
  Flags,         \* the flag sets clients give: subsets of {"all", "long"}
  Commands,      \* the commands each user gives in a run
  MaxRequests,   \* bound: requests of all users
  MaxOutages     \* bound: stops and removals of storage servers

ASSUME NoneAssumption ==
  /\ None \notin Users \cup Files \cup Servers
  /\ None \notin [owner : Users \cup {None}, words : 0..MaxWords]
  /\ None \notin [ss : Servers, open : BOOLEAN]
ASSUME NameAssumption ==
  /\ \A n \in FolderNames : n \in Seq(STRING) /\ n # <<>> /\ Len(n) <= MaxName
  /\ Shared \in [Files -> SUBSET Users] /\ OnDisk \in [Files -> Users \cup {None}]
  /\ Home \in [Files -> 1..Slots] /\ Order \in [1..Slots -> Servers]
  /\ \A i, j \in 1..Slots : Order[i] = Order[j] => i = j
ASSUME BoundAssumption ==
  /\ MaxFolders \in Nat /\ MaxName \in Nat \ {0} /\ Room \in Nat /\ MaxWords \in Nat
  /\ MaxRequests \in Nat /\ MaxOutages \in Nat /\ Flags \subseteq SUBSET {"all", "long"}
  /\ Slots \in Nat

VARIABLES
  registry,      \* folder_registry[0 .. folder_count - 1]
  record,        \* the file records of the trie
  disk,          \* the file_table of each storage server: owner and word count
  up,            \* the storage servers that run
  slot,          \* ss_registry: the server of each active slot, and whether the socket is alive
  holder,        \* its socket_mutex: the user whose thread holds it, or None
  pc, arg,       \* where the thread of each user stands and its locals
  reply,         \* the answer on its way to each user
  place,         \* history: the registry index of the folder a file was put into
  swept,         \* history: a folder whose name begins the file's folder was moved
  requests, outages,   \* history: requests, and stops and removals so far
  seen,          \* history: counts each document had during a user's -l listing
  loose          \* history: files that came, went or lost their server during a listing

nsVars   == <<registry, record>>
ssVars   == <<disk, up, slot>>
listVars == <<seen, loose>>
histVars == <<place, swept, listVars>>
vars     == <<nsVars, ssVars, holder, pc, arg, reply, histVars, requests, outages>>

Words   == 0..MaxWords
Root    == <<>>
Indices == 1..Len(registry)
Names   == {registry[i].name : i \in Indices}
Present == {f \in Files : record[f] # None}

\* The slot has a server (is_active), with a socket that is alive.
Active == {i \in 1..Slots : slot[i] # None}
Online == {i \in Active : slot[i].open}

\* What MSG_INTERNAL_GET_METADATA gets: a file the server does not know has no words.
Reported(s, f) == IF disk[s][f] = None THEN 0 ELSE disk[s][f].words

Listing(u) == "long" \in arg[u].flags \cup reply[u].flags

\* Files that are created, deleted, registered or lose their server while a listing is
\* under way, or its answer.
Unsettle(F) ==
  loose' = [f \in Files |-> loose[f] \/ (f \in F /\ \E u \in Users : Listing(u))]

NoCall  == [cmd |-> "none", folder |-> Root, flags |-> {}, todo |-> {}, file |-> None,
            slot |-> 0, ss |-> None, words |-> 0]
NotSeen == [f \in Files |-> {}]

-----------------------------------------------------------------------------
(* Names *)

StartsWith(s, prefix) ==
  Len(prefix) <= Len(s) /\ SubSeq(s, 1, Len(prefix)) = prefix

After(s, n) == SubSeq(s, n + 1, Len(s))

\* Mutant: sprintf, which knows no bound.
FitUnbounded(s) == s

\* snprintf into a buffer of MAX_FILENAME bytes.
Fit(s) == IF Len(s) <= MaxName THEN s ELSE SubSeq(s, 1, MaxName)

HasSlash(s) == \E i \in 1..Len(s) : s[i] = "/"

\* search_find_folder, and the same loop in the other operations.
Find(name) == CHOOSE i \in Indices :
                registry[i].name = name /\ \A j \in 1..(i - 1) : registry[j].name # name

\* The folder of a file of folder s after MOVEFOLDER src dst.  One separator behind
\* src is skipped, and src is followed by anything.
NewFolder(s, src, dst) ==
  LET behind == After(s, Len(src))
      rest   == IF StartsWith(behind, <<"/">>) THEN After(behind, 1) ELSE behind
  IN  IF rest = <<>> THEN Fit(dst) ELSE Fit(dst \o <<"/">> \o rest)

-----------------------------------------------------------------------------
(* The folder registry and the folders of the file records *)

Begin(u, cmd) ==
  /\ cmd \in Commands[u]
  /\ pc[u] = "idle"
  /\ requests < MaxRequests
  /\ requests' = requests + 1

\* An answer: an acknowledgement, an error or a listing.
Response(cmd, flags, dirs, files) ==
  [cmd |-> cmd, flags |-> flags, dirs |-> dirs, files |-> files]
NoReply == Response("none", {}, {}, {})
ACK   == Response("ack", {}, {}, {})
ERROR == Response("error", {}, {}, {})

Answer(u, answer) ==
  /\ pc' = [pc EXCEPT ![u] = "answered"]
  /\ arg' = [arg EXCEPT ![u] = NoCall]
  /\ reply' = [reply EXCEPT ![u] = answer]

Continue(u, label, a) ==
  /\ pc' = [pc EXCEPT ![u] = label]
  /\ arg' = [arg EXCEPT ![u] = a]

\* search_add_folder.  Nothing is asked of the folders above.
handle_create_folder_request(u, name) ==
  /\ Begin(u, "CREATEFOLDER")
  /\ IF name # Root /\ name \notin Names /\ Len(registry) < MaxFolders
       THEN /\ registry' = Append(registry, [name |-> name, owner |-> u])
            /\ Answer(u, ACK)
       ELSE /\ Answer(u, ERROR)
            /\ UNCHANGED registry
  /\ UNCHANGED <<record, ssVars, holder, histVars>>

\* search_set_file_folder.  The folder need not be registered.
SetFolder(f, name) ==
  /\ record' = [record EXCEPT ![f].folder = name]
  /\ place' = [place EXCEPT ![f] = IF name \in Names THEN Find(name) ELSE None]
  /\ swept' = [swept EXCEPT ![f] = FALSE]

\* Up to the lock of the socket_mutex.
handle_move_file_request(u, f, name) ==
  /\ Begin(u, "MOVE")
  /\ IF f \notin Present \/ record[f].owner # u
       THEN /\ Answer(u, ERROR)
            /\ UNCHANGED <<record, place, swept>>
       ELSE /\ SetFolder(f, name)
            /\ IF record[f].slot \in Active
                 THEN /\ Continue(u, "lock", [NoCall EXCEPT !.cmd = "MOVE", !.file = f,
                                                           !.slot = record[f].slot])
                      /\ UNCHANGED reply
                 ELSE Answer(u, ERROR)
  /\ UNCHANGED <<registry, ssVars, holder, listVars>>

\* The files with the slots of their servers, as they are collected.
WithSlots(F) == {<<f, record[f].slot>> : f \in F}

\* Mutant: a separator is required behind src, and the files of src itself are missed.
RenameBelow(u, src, dst) ==
  LET moved == {f \in Present : StartsWith(record[f].folder, src \o <<"/">>)}
  IN
  /\ registry' = [registry EXCEPT ![Find(src)].name = dst]
  /\ record' = [f \in Files |->
       IF f \in moved
         THEN [record[f] EXCEPT !.folder = NewFolder(record[f].folder, src, dst)]
         ELSE record[f]]
  /\ swept' = [f \in Files |-> swept[f] \/ f \in moved]
  /\ Continue(u, "notify", [NoCall EXCEPT !.cmd = "MOVEFOLDER", !.todo = WithSlots(moved)])
  /\ UNCHANGED reply

\* search_move_folder: the entry is renamed, the entries of the folders below are not;
\* every file whose folder begins with src follows, whoever owns it.
Rename(u, src, dst) ==
  LET i     == Find(src)
      moved == {f \in Present : StartsWith(record[f].folder, src)}
  IN
  /\ registry' = [registry EXCEPT ![i].name = dst]
  /\ record' = [f \in Files |->
       IF f \in moved
         THEN [record[f] EXCEPT !.folder = NewFolder(record[f].folder, src, dst)]
         ELSE record[f]]
  /\ swept' = [f \in Files |-> swept[f] \/ (f \in moved /\ record[f].folder # src)]
  /\ Continue(u, "notify", [NoCall EXCEPT !.cmd = "MOVEFOLDER", !.todo = WithSlots(moved)])
  /\ UNCHANGED reply

\* Mutant: the destination may exist.
MovableAnyway(u, src, dst) == src \in Names /\ registry[Find(src)].owner = u

Movable(u, src, dst) ==
  src \in Names /\ registry[Find(src)].owner = u /\ dst \notin Names

handle_move_folder_request(u, src, dst) ==
  /\ Begin(u, "MOVEFOLDER")
  /\ \/ Movable(u, src, dst) /\ Rename(u, src, dst)
     \/ /\ ~Movable(u, src, dst)
        /\ Answer(u, ERROR)
        /\ UNCHANGED <<nsVars, swept>>
  /\ UNCHANGED <<ssVars, holder, place, listVars>>

\* The next of the collected files; one whose slot has no server is passed over.
Proceed(u, label) ==
  \E e \in arg[u].todo :
    Continue(u, IF e[2] \in Active THEN "lock" ELSE label,
             [arg[u] EXCEPT !.todo = @ \ {e}, !.file = e[1], !.slot = e[2]])

\* MOVEFOLDER tells the storage server of each file; the slot is looked at every time.
NotifyNext(u) ==
  /\ pc[u] = "notify"
  /\ \/ arg[u].todo = {} /\ Answer(u, ACK)
     \/ Proceed(u, "notify") /\ UNCHANGED reply
  /\ UNCHANGED <<nsVars, ssVars, holder, histVars>>

\* The request leaves under the socket_mutex, for the server the slot has now.
Lock(u) ==
  LET i == arg[u].slot IN
  /\ pc[u] = "lock"
  /\ holder[i] = None
  /\ holder' = [holder EXCEPT ![i] = u]
  /\ IF i \in Online THEN Continue(u, "wait", [arg[u] EXCEPT !.ss = slot[i].ss])
     ELSE Continue(u, "cut", arg[u])
  /\ UNCHANGED <<nsVars, ssVars, reply, histVars>>

Unlock(u) == holder' = [holder EXCEPT ![arg[u].slot] = None]

\* The storage server has no case for MSG_INTERNAL_SET_FOLDER and sends nothing: MOVE
\* and MOVEFOLDER wait until it stops.  MOVEFOLDER does not look at what it received.
NotifyFails(u) ==
  /\ pc[u] = "cut"
  /\ Unlock(u)
  /\ \/ arg[u].cmd = "MOVE" /\ Answer(u, ERROR)
     \/ arg[u].cmd = "MOVEFOLDER" /\ Continue(u, "notify", arg[u]) /\ UNCHANGED reply
  /\ UNCHANGED <<nsVars, ssVars, histVars>>

-----------------------------------------------------------------------------
(* Listings *)

\* has_permission.
Permitted(u, flags, f) ==
  "all" \in flags \/ record[f].owner = u \/ u \in Shared[f]

\* Top-level folders, or the folders one level below: what is left of their names
\* behind the prefix, which is itself cut to MAX_FILENAME bytes.
Prefix(folder) == IF folder = Root THEN Root ELSE Fit(folder \o <<"/">>)

Behind(i, folder) == After(registry[i].name, Len(Prefix(folder)))

SubFolders(folder) ==
  {i \in Indices : /\ StartsWith(registry[i].name, Prefix(folder))
                   /\ ~HasSlash(Behind(i, folder))}

Least(m, n) == IF m <= n THEN m ELSE n

\* The subsets of S that fill n lines, or S.
Cut(S, n) == {T \in SUBSET S : Cardinality(T) = Least(Cardinality(S), n)}

\* search_get_file_list (the root) and search_get_files_in_folder: folders first, then
\* the files of exactly this folder; what does not fit is left out.  Which files fit
\* depends on the order of the trie and on the length of the lines.
Listings(u, cmd, folder, flags) ==
  LET all   == SubFolders(folder)
      dirs  == {i \in all : Cardinality({j \in all : j <= i}) <= Room}
      files == {f \in Present : record[f].folder = folder /\ Permitted(u, flags, f)}
  IN  {Response(cmd, flags, {Behind(i, folder) : i \in dirs},
                {<<f, record[f].words>> : f \in F}) :
         F \in Cut(files, Room - Cardinality(dirs))}

\* collect_files_recursive takes every file, VIEWFOLDER those of the folder.
Collected(cmd, folder) ==
  {f \in Present : cmd = "VIEW" \/ record[f].folder = folder}

\* The server of the file's record can be asked.
Served(f) == f \in Present /\ record[f].slot \in Online

\* The counts of the documents of this name, and what its server says.
CountsNow(f) ==
  {disk[s][f].words : s \in {t \in Servers : disk[t][f] # None}}
    \cup (IF Served(f) THEN {Reported(slot[record[f].slot].ss, f)} ELSE {})

\* Without -l the listing is one section; with -l the files are collected first.
View(u, cmd, folder, flags) ==
  /\ Begin(u, cmd)
  /\ \/ /\ "long" \notin flags
        /\ \E list \in Listings(u, cmd, folder, flags) : Answer(u, list)
        /\ UNCHANGED listVars
     \/ /\ "long" \in flags
        /\ Continue(u, "refresh", [NoCall EXCEPT !.cmd = cmd, !.folder = folder,
                                     !.flags = flags, !.todo = WithSlots(Collected(cmd, folder))])
        /\ seen' = [seen EXCEPT ![u] = [f \in Files |-> CountsNow(f)]]
        /\ loose' = [f \in Files |-> loose[f] \/ (f \in Present /\ ~Served(f))]
        /\ UNCHANGED reply
  /\ UNCHANGED <<nsVars, ssVars, holder, place, swept>>

handle_view_request(u, flags) == View(u, "VIEW", Root, flags)
handle_view_folder_request(u, name, flags) == View(u, "VIEWFOLDER", name, flags)

\* The next collected file, in the order of the trie.
Refresh(u) ==
  /\ pc[u] = "refresh"
  /\ Proceed(u, "refresh")
  /\ UNCHANGED <<nsVars, ssVars, holder, reply, histVars>>

\* MSG_INTERNAL_GET_METADATA, for the server collected with the name.
GetMetadata(u) ==
  /\ pc[u] = "wait"
  /\ arg[u].cmd \in {"VIEW", "VIEWFOLDER"}
  /\ Continue(u, "update", [arg[u] EXCEPT !.words = Reported(arg[u].ss, arg[u].file)])
  /\ UNCHANGED <<nsVars, ssVars, holder, reply, histVars>>

GetMetadataFails(u) ==
  /\ pc[u] = "cut"
  /\ arg[u].cmd \in {"VIEW", "VIEWFOLDER"}
  /\ Unlock(u)
  /\ Continue(u, "refresh", arg[u])
  /\ UNCHANGED <<nsVars, ssVars, reply, histVars>>

\* search_update_file_metadata: the record the name has now, if any, wherever it is.
search_update_file_metadata(u) ==
  /\ pc[u] = "update"
  /\ LET f == arg[u].file
     IN  record' = IF f \in Present THEN [record EXCEPT ![f].words = arg[u].words]
                   ELSE record
  /\ Unlock(u)
  /\ Continue(u, "refresh", arg[u])
  /\ UNCHANGED <<registry, ssVars, reply, histVars>>

\* Mutant: the loop over the collected files stops one short.
ListEarly(u) ==
  /\ pc[u] = "refresh"
  /\ Cardinality(arg[u].todo) <= 1
  /\ LET a == arg[u]
     IN  \E list \in Listings(u, a.cmd, a.folder, a.flags) : Answer(u, list)
  /\ UNCHANGED <<nsVars, ssVars, holder, histVars>>

\* The listing of a refreshed index.
ListLong(u) ==
  /\ pc[u] = "refresh"
  /\ arg[u].todo = {}
  /\ LET a == arg[u]
     IN  \E list \in Listings(u, a.cmd, a.folder, a.flags) : Answer(u, list)
  /\ UNCHANGED <<nsVars, ssVars, holder, histVars>>

\* The client prints the answer and may type again.
Receive(u) ==
  /\ pc[u] = "answered"
  /\ pc' = [pc EXCEPT ![u] = "idle"]
  /\ reply' = [reply EXCEPT ![u] = NoReply]
  /\ seen' = [seen EXCEPT ![u] = NotSeen]
  /\ loose' = IF \E v \in Users \ {u} : Listing(v) THEN loose ELSE [f \in Files |-> FALSE]
  /\ UNCHANGED <<nsVars, ssVars, holder, arg, place, swept>>

-----------------------------------------------------------------------------
(* The documents and their storage servers *)

SeenNow(f, words) ==
  seen' = [u \in Users |-> IF Listing(u) THEN [seen[u] EXCEPT ![f] = @ \cup {words}] ELSE seen[u]]

InRoot(F) ==
  /\ place' = [f \in Files |-> IF f \in F THEN 0 ELSE place[f]]
  /\ swept' = [f \in Files |-> swept[f] /\ f \notin F]

NewRecord(owner, i, words) == [owner |-> owner, folder |-> Root, slot |-> i, words |-> words]

\* CREATE: the name must be free and some server active; round robin chooses it.
Create(u, f) ==
  /\ Begin(u, "CREATE")
  /\ IF f \in Present \/ Active = {}
       THEN Answer(u, ERROR)
       ELSE /\ \E i \in Active :
                 Continue(u, "lock", [NoCall EXCEPT !.cmd = "CREATE", !.file = f, !.slot = i])
            /\ UNCHANGED reply
  /\ UNCHANGED <<nsVars, ssVars, holder, histVars>>

\* The storage server has the document from here on; an entry it has already stays.
CreateDocument(u) ==
  LET f == arg[u].file IN
  /\ pc[u] = "wait" /\ arg[u].cmd = "CREATE"
  /\ disk' = [disk EXCEPT ![arg[u].ss][f] = IF @ = None THEN [owner |-> None, words |-> 0] ELSE @]
  /\ Unlock(u)
  /\ Continue(u, "add", arg[u])
  /\ Unsettle({f})
  /\ UNCHANGED <<nsVars, up, slot, reply, place, swept, seen>>

\* search_add_file: a record that has come up meanwhile stays.
search_add_file(u) ==
  LET f == arg[u].file IN
  /\ pc[u] = "add"
  /\ IF f \in Present THEN UNCHANGED <<record, place, swept>>
     ELSE record' = [record EXCEPT ![f] = NewRecord(u, arg[u].slot, 0)] /\ InRoot({f})
  /\ Continue(u, "owner", arg[u])
  /\ Unsettle({f}) /\ SeenNow(f, 0)
  /\ UNCHANGED <<registry, ssVars, holder, reply>>

\* MSG_INTERNAL_SET_OWNER, which is not answered.
SetOwner(u) ==
  LET i == arg[u].slot
      f == arg[u].file
  IN
  /\ pc[u] = "owner"
  /\ holder[i] = None
  /\ disk' = IF i \in Online /\ disk[slot[i].ss][f] # None
               THEN [disk EXCEPT ![slot[i].ss][f].owner = u]
               ELSE disk
  /\ Answer(u, ACK)
  /\ UNCHANGED <<nsVars, up, slot, holder, histVars>>

\* DELETE: the owner's record goes first, and with it the name is free.
Delete(u, f) ==
  /\ Begin(u, "DELETE")
  /\ IF f \notin Present \/ record[f].owner # u
       THEN Answer(u, ERROR) /\ UNCHANGED <<record, histVars>>
       ELSE /\ record' = [record EXCEPT ![f] = None]
            /\ InRoot({f}) /\ Unsettle({f}) /\ UNCHANGED seen
            /\ IF record[f].slot \in Active
                 THEN /\ Continue(u, "lock", [NoCall EXCEPT !.cmd = "DELETE", !.file = f,
                                                           !.slot = record[f].slot])
                      /\ UNCHANGED reply
                 ELSE Answer(u, ACK)
  /\ UNCHANGED <<registry, ssVars, holder>>

\* The document follows; the storage server does not answer if it has none.
DeleteDocument(u) ==
  LET f == arg[u].file IN
  /\ pc[u] = "wait" /\ arg[u].cmd = "DELETE"
  /\ disk[arg[u].ss][f] # None
  /\ disk' = [disk EXCEPT ![arg[u].ss][f] = None]
  /\ Unlock(u)
  /\ Answer(u, ACK)
  /\ Unsettle({f})
  /\ UNCHANGED <<nsVars, up, slot, place, swept, seen>>

\* remove_storage_server, with search_purge_by_ss.
Purge(i) ==
  LET lost == IF i \in Active THEN {f \in Present : record[f].slot = i} ELSE {} IN
  /\ slot' = [slot EXCEPT ![i] = None]
  /\ record' = [f \in Files |-> IF f \in lost THEN None ELSE record[f]]
  /\ InRoot(lost) /\ Unsettle(lost)
  /\ UNCHANGED seen

\* CREATE and DELETE give up, and with them the server the slot has by then.
ExchangeFails(u) ==
  /\ pc[u] = "cut"
  /\ \/ arg[u].cmd = "CREATE" /\ Answer(u, ERROR)
     \/ arg[u].cmd = "DELETE" /\ Answer(u, ACK)
  /\ Unlock(u)
  /\ Purge(arg[u].slot)
  /\ UNCHANGED <<registry, disk, up>>

\* A WRITE session of some client ends; the name server has no part in it.
Write(s, f, words) ==
  /\ up[s]
  /\ disk[s][f] # None
  /\ disk[s][f].words # words
  /\ disk' = [disk EXCEPT ![s][f].words = words]
  /\ SeenNow(f, words)
  /\ UNCHANGED <<nsVars, up, slot, holder, pc, arg, reply, place, swept, loose>>

\* A storage server stops: its sockets are dead, and who waits for it is told.
Stop(s) ==
  /\ up[s]
  /\ up' = [up EXCEPT ![s] = FALSE]
  /\ slot' = [i \in 1..Slots |-> IF i \in Active /\ slot[i].ss = s
                                 THEN [slot[i] EXCEPT !.open = FALSE] ELSE slot[i]]
  /\ pc' = [u \in Users |-> IF pc[u] = "wait" /\ arg[u].ss = s THEN "cut" ELSE pc[u]]
  /\ Unsettle({f \in Present : record[f].slot \in Active /\ slot[record[f].slot].ss = s})
  /\ UNCHANGED <<nsVars, disk, holder, arg, reply, place, swept, seen>>

\* remove_storage_server in other commands and on reports of clients, late ones too.
Remove(i) ==
  /\ i \in Active
  /\ Purge(i)
  /\ UNCHANGED <<registry, disk, up, holder, pc, arg, reply>>

\* A storage server starts, takes the first free slot and registers its files,
\* search_rebuild_add_file: a file that has a record on another server is rejected.  It
\* was told of no folder, so every file comes back to the root.
Register(s, i) ==
  LET files == {f \in Files : disk[s][f] # None /\ (f \in Present => record[f].slot = i)} IN
  /\ ~up[s] /\ i \notin Active /\ 1..(i - 1) \subseteq Active
  /\ up' = [up EXCEPT ![s] = TRUE]
  /\ slot' = [slot EXCEPT ![i] = [ss |-> s, open |-> TRUE]]
  /\ record' = [f \in Files |-> IF f \in files THEN NewRecord(disk[s][f].owner, i, disk[s][f].words)
                                ELSE record[f]]
  /\ InRoot(files) /\ Unsettle(files \cup {f \in Present : record[f].slot = i})
  /\ UNCHANGED <<registry, disk, holder, pc, arg, reply, seen>>

-----------------------------------------------------------------------------
(* The specification *)

\* A name server that has no folders yet and storage servers that have registered.
Init ==
  /\ registry = <<>>
  /\ disk = [s \in Servers |-> [f \in Files |->
       IF OnDisk[f] = None \/ Order[Home[f]] # s THEN None ELSE [owner |-> OnDisk[f], words |-> 0]]]
  /\ up = [s \in Servers |-> TRUE]
  /\ slot = [i \in 1..Slots |-> [ss |-> Order[i], open |-> TRUE]]
  /\ record = [f \in Files |-> IF OnDisk[f] = None THEN None ELSE NewRecord(OnDisk[f], Home[f], 0)]
  /\ holder = [i \in 1..Slots |-> None]
  /\ pc = [u \in Users |-> "idle"]
  /\ arg = [u \in Users |-> NoCall]
  /\ reply = [u \in Users |-> NoReply]
  /\ place = [f \in Files |-> 0]
  /\ swept = [f \in Files |-> FALSE]
  /\ requests = 0 /\ outages = 0
  /\ seen = [u \in Users |-> NotSeen]
  /\ loose = [f \in Files |-> FALSE]

Request(u) ==
  /\ \/ \E name \in FolderNames : handle_create_folder_request(u, name)
     \/ \E f \in Files, name \in FolderNames : handle_move_file_request(u, f, name)
     \/ \E src, dst \in FolderNames : handle_move_folder_request(u, src, dst)
     \/ \E flags \in Flags : handle_view_request(u, flags)
     \/ \E name \in FolderNames, flags \in Flags : handle_view_folder_request(u, name, flags)
     \/ \E f \in Files : Create(u, f) \/ Delete(u, f)
  /\ UNCHANGED outages

Thread(u) ==
  /\ \/ NotifyNext(u) \/ Lock(u) \/ NotifyFails(u) \/ Refresh(u) \/ GetMetadata(u)
     \/ GetMetadataFails(u) \/ search_update_file_metadata(u) \/ ListLong(u) \/ Receive(u)
     \/ CreateDocument(u) \/ search_add_file(u) \/ SetOwner(u) \/ DeleteDocument(u)
     \/ ExchangeFails(u)
  /\ UNCHANGED <<requests, outages>>

StorageServer ==
  /\ \/ /\ \/ \E s \in Servers, f \in Files, words \in Words : Write(s, f, words)
           \/ \E s \in Servers, i \in 1..Slots : Register(s, i)
        /\ UNCHANGED outages
     \/ /\ outages < MaxOutages /\ outages' = outages + 1
        /\ (\E s \in Servers : Stop(s)) \/ (\E i \in 1..Slots : Remove(i))
  /\ UNCHANGED requests

Next == (\E u \in Users : Request(u) \/ Thread(u)) \/ StorageServer

Spec == Init /\ [][Next]_vars

-----------------------------------------------------------------------------
(* Properties *)

\* Every variable has its type: folder names fit the buffers they are copied into,
\* and a socket_mutex is held exactly while a thread talks to the server of its slot.
TypeOK ==
  /\ Len(registry) <= MaxFolders
  /\ \A i \in Indices : registry[i].name \in FolderNames /\ registry[i].owner \in Users
  /\ \A f \in Present : /\ record[f].owner \in Users \cup {None} /\ record[f].words \in Words
                        /\ Len(record[f].folder) <= MaxName /\ record[f].slot \in 1..Slots
  /\ disk \in [Servers -> [Files -> [owner : Users \cup {None}, words : Words] \cup {None}]]
  /\ up \in [Servers -> BOOLEAN]
  /\ slot \in [1..Slots -> [ss : Servers, open : BOOLEAN] \cup {None}]
  /\ \A u \in Users : /\ pc[u] \in {"idle", "notify", "lock", "wait", "cut", "refresh", "update",
                                    "add", "owner", "answered"}
                      /\ pc[u] = "wait" => up[arg[u].ss]
                      /\ \A i \in 1..Slots :
                           holder[i] = u <=> pc[u] \in {"wait", "cut", "update"} /\ arg[u].slot = i
  /\ \A i \in 1..Slots : holder[i] \in Users \cup {None}
  /\ place \in [Files -> 0..Len(registry) \cup {None}]
  /\ swept \in [Files -> BOOLEAN] /\ loose \in [Files -> BOOLEAN]
  /\ requests \in 0..MaxRequests /\ outages \in 0..MaxOutages
  /\ seen \in [Users -> [Files -> SUBSET Words]]

\* search_add_folder ("already exists") and search_move_folder ("Ensure dst does not
\* already exist"): no two entries of the registry have the same name, whatever is
\* created and moved, so that a name finds one folder with one owner.
OneFolderPerName ==
  \A i, j \in Indices : registry[i].name = registry[j].name => i = j

\* A file stays in the folder its owner put it into, under every name that folder is
\* given by MOVEFOLDER, and in no other: its record names the entry it was put into.
\* Excepted are files whose folder begins with the name of another moved folder.
FilesFollowFolder ==
  \A f \in Present :
    place[f] # None /\ ~swept[f] =>
      record[f].folder = IF place[f] = 0 THEN Root ELSE registry[place[f]].name

\* The counts of a VIEW -l are not older than the request: each is a count the document
\* had between the request and the answer, whatever sessions end and other listings store
\* meanwhile.  Excepted are files that are created, deleted or registered, or whose server
\* stops or is removed, while a listing is under way: the code stores what the server
\* collected earlier answers under a name that may belong to another document by then.
CountsFresh ==
  \A u \in Users : reply[u].cmd = "VIEW" /\ "long" \in reply[u].flags =>
    \A line \in reply[u].files : loose[line[1]] \/ line[2] \in seen[u][line[1]]

-----------------------------------------------------------------------------
(* What the documentation says and the code does not do *)

\* README: "Organize files in folders and subfolders": as FilesFollowFolder, for the
\* files of subfolders too.
SubfoldersFollow ==
  \A f \in Present : place[f] # None =>
    record[f].folder = IF place[f] = 0 THEN Root ELSE registry[place[f]].name

\* README: "VIEW -a: Lists all files on the system".
ViewAllListsAll ==
  [][\A u \in Users :
       reply'[u] # reply[u] /\ reply'[u].cmd = "VIEW" /\ "all" \in reply'[u].flags =>
         {line[1] : line \in reply'[u].files} = Present]_vars

\* search_get_files_in_folder: "If -l flag requested, refresh metadata for files in this
\* folder": as CountsFresh, for VIEWFOLDER.
FolderCountsFresh ==
  \A u \in Users : reply[u].cmd = "VIEWFOLDER" /\ "long" \in reply[u].flags =>
    \A line \in reply[u].files : loose[line[1]] \/ line[2] \in seen[u][line[1]]

\* As CountsFresh, for files that are created and deleted during listings too.
CountsAlwaysFresh ==
  \A u \in Users : reply[u].cmd = "VIEW" /\ "long" \in reply[u].flags =>
    \A line \in reply[u].files : line[2] \in seen[u][line[1]]

=============================================================================
