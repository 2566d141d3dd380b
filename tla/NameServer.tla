----------------------------- MODULE NameServer -----------------------------
(***************************************************************************)
(* The name server (name_server/*.c) and the side of the storage servers   *)
(* that faces it: one thread per client, one registration thread per       *)
(* storage server connection, the registry of storage servers, the trie of *)
(* file records and the cache in front of it.                              *)
(*                                                                         *)
(* A thread is interrupted between two sections of ss_registry_mutex,      *)
(* trie_mutex or cache_mutex, and around every blocking call on a socket   *)
(* or on a socket_mutex.  pc[c] names the next such step of client c's     *)
(* thread.  A client is identified with its user name.                     *)
(*                                                                         *)
(* Every connection of a storage server is a new member of Conns, so that  *)
(* descriptors are not reused.  A REGISTER_FILE message is two items, the  *)
(* header and its payload, because two threads may read the same socket.   *)
(***************************************************************************)
EXTENDS Naturals, Sequences, FiniteSets, SequencesExt

CONSTANTS
  Clients, Servers, Files,
  None,           \* no server, no record, no owner, no thread
  OnDisk,         \* the owner of each file a server holds at start, or None
  Registered,     \* servers registered and synchronised at start, in slot order
  Commands,       \* the requests a run exercises
  Uses,           \* the files each client asks for
  MaxServers,     \* MAX_STORAGE_SERVERS
  CacheSize,      \* CACHE_SIZE
  MaxAcl,         \* MAX_ACL_ENTRIES
  MaxConns,       \* bound: storage server connections over time
  MaxClock,       \* bound: seconds that may pass
  MaxRequests     \* bound: client requests

Slots   == 0..(MaxServers - 1)
Keys    == 1..CacheSize
Conns   == 1..MaxConns
Seconds == 0..MaxClock
PERM_READ  == 1
PERM_WRITE == 2
Perms   == 0..PERM_WRITE

ASSUME NoneAssumption == None \notin Clients \cup Servers \cup Files \cup Conns
ASSUME FilesAssumption == IsFiniteSet(Files)
ASSUME SizeAssumption ==
  MaxServers \in Nat \ {0} /\ CacheSize \in Nat \ {0} /\ MaxAcl \in Nat
ASSUME BoundAssumption ==
  MaxConns \in Nat \ {0} /\ MaxClock \in Nat /\ MaxRequests \in Nat
ASSUME StartAssumption ==
  /\ Registered \in Seq(Servers)
  /\ Len(Registered) <= MaxServers /\ Len(Registered) <= MaxConns
  /\ OnDisk \in [Servers -> [Files -> Clients \cup {None}]]
ASSUME UsesAssumption == Uses \in [Clients -> SUBSET Files]

VARIABLES
  registry,       \* ss_registry: the connection of an active slot, or None
  nextSS,         \* next_ss_index
  mutex,          \* socket_mutex of each slot: the client thread that holds it
  trie,           \* the file records
  cache,          \* the cache entries
  clock,          \* time(NULL), read by the cache only
  pc, arg,        \* where each client thread stands and its locals
  result,         \* the last answer each client got
  regPc, regSlot, \* where the registration thread of each connection stands, its slot
  server,         \* the storage server at the other end, None before connect
  ssPc,           \* where that server's name server thread stands
  closed,         \* connections closed by the name server
  reset,          \* connections whose server is gone and answers bytes with a reset
  toSS, toNS,     \* the bytes in flight
  disk,           \* the file_table and the files of each storage server
  requests        \* history: client requests so far

regVars  == <<regPc, regSlot>>
nsVars   == <<registry, nextSS, trie, cache>>
netVars  == <<server, ssPc, closed, reset, toSS, toNS>>
vars     == <<nsVars, mutex, clock, pc, arg, result, regVars, netVars, disk, requests>>

Acl    == [Clients -> Perms]
NoAcl  == [u \in Clients |-> 0]
Meta   == [owner : Clients \cup {None}, acl : Acl]
Record == [ss : Slots, owner : Clients \cup {None}, acl : Acl]
Entry  == [file : Files \cup {None}, ss : Slots, used : Seconds, valid : BOOLEAN]

ASSUME RecordAssumption == None \notin Record \cup Meta

Operations == {"none", "CREATE", "DELETE", "UNDO", "INFO", "EXEC", "ADD", "REM",
               "MOVE", "REDIRECT", "DEAD"}

Call(cmd, f, perm, user) ==
  [cmd |-> cmd, file |-> f, perm |-> perm, user |-> user,
   slot |-> 0, sock |-> None, key |-> 1]

NoCall == Call("none", None, 0, None)

NoMeta == [owner |-> None, acl |-> NoAcl]

\* `for' is the client whose request a message belongs to; it is not in the bytes.
Order(type, c, f, user, perm) ==
  [type |-> type, for |-> c, file |-> f, user |-> user, perm |-> perm]

Reply(type, c, f, meta) == [type |-> type, for |-> c, file |-> f, meta |-> meta]

Greeting == Order("ACK", None, None, None, 0)

Up(k)    == ssPc[k] # "off"
Down(s)  == \A k \in Conns : server[k] = s => ~Up(k)
Holds(k) == disk[server[k]]

Init ==
  LET n == Len(Registered)
      home(f) == {i \in 1..n : OnDisk[Registered[i]][f] # None}
  IN
  /\ registry = [i \in Slots |-> IF i < n THEN i + 1 ELSE None]
  /\ nextSS = 0
  /\ mutex = [i \in Slots |-> None]
  /\ trie = [f \in Files |->
       IF home(f) = {} THEN None
       ELSE [ss |-> Min(home(f)) - 1, owner |-> OnDisk[Registered[Min(home(f))]][f],
             acl |-> NoAcl]]
  /\ cache = [k \in Keys |-> [file |-> None, ss |-> 0, used |-> 0, valid |-> FALSE]]
  /\ clock = 0
  /\ pc = [c \in Clients |-> "idle"]
  /\ arg = [c \in Clients |-> NoCall]
  /\ result = [c \in Clients |-> "none"]
  /\ regPc = [k \in Conns |-> "done"]
  /\ regSlot = [k \in Conns |-> 0]
  /\ server = [k \in Conns |-> IF k <= n THEN Registered[k] ELSE None]
  /\ ssPc = [k \in Conns |-> IF k <= n THEN "serve" ELSE "off"]
  /\ closed = {}
  /\ reset = {}
  /\ toSS = [k \in Conns |-> <<>>]
  /\ toNS = [k \in Conns |-> <<>>]
  /\ disk = [s \in Servers |-> [f \in Files |->
       IF OnDisk[s][f] = None THEN None ELSE [owner |-> OnDisk[s][f], acl |-> NoAcl]]]
  /\ requests = 0

Goto(c, label) == pc' = [pc EXCEPT ![c] = label]

\* The handler answered its client and returned.
Answer(c, answer) ==
  /\ Goto(c, "idle")
  /\ arg' = [arg EXCEPT ![c] = NoCall]
  /\ result' = [result EXCEPT ![c] = answer]

\* The handler goes on with locals a.
Continue(c, label, a) ==
  /\ Goto(c, label)
  /\ arg' = [arg EXCEPT ![c] = a]
  /\ UNCHANGED result

-----------------------------------------------------------------------------
(* Requests: where route_message sends them, and the first step of each handler *)

Request(c, name, call, label) ==
  /\ pc[c] = "idle"
  /\ name \in Commands
  /\ call.file \in Uses[c] \cup {None}
  /\ requests < MaxRequests
  /\ requests' = requests + 1
  /\ Goto(c, label)
  /\ arg' = [arg EXCEPT ![c] = call]
  /\ result' = [result EXCEPT ![c] = "none"]
  /\ UNCHANGED <<nsVars, mutex, clock, regVars, netVars, disk>>

CreateRequest(c, f) == Request(c, "CREATE", Call("CREATE", f, 0, None), "lookup")
DeleteRequest(c, f) == Request(c, "DELETE", Call("DELETE", f, 0, None), "delete")
UndoRequest(c, f)   == Request(c, "UNDO", Call("UNDO", f, PERM_WRITE, None), "perm")
InfoRequest(c, f)   == Request(c, "INFO", Call("INFO", f, PERM_READ, None), "perm")
ExecRequest(c, f)   == Request(c, "EXEC", Call("EXEC", f, PERM_READ, None), "perm")
LocateRequest(c, f) == Request(c, "LOCATE", Call("REDIRECT", f, 0, None), "lookup")
MoveRequest(c, f)   == Request(c, "MOVE", Call("MOVE", f, 0, None), "setfolder")

AddAccessRequest(c, f, u, p) == Request(c, "ADDACCESS", Call("ADD", f, p, u), "grant")
RemAccessRequest(c, f, u)    == Request(c, "REMACCESS", Call("REM", f, 0, u), "grant")

\* The handlers that send their client to the storage server.
Redirected(c, name, f, p) == Request(c, name, Call("REDIRECT", f, p, None), "perm")

ReadRequest(c, f)            == Redirected(c, "READ", f, PERM_READ)
StreamRequest(c, f)          == Redirected(c, "STREAM", f, PERM_READ)
WriteRequest(c, f)           == Redirected(c, "WRITE", f, PERM_WRITE)
CheckpointRequest(c, f)      == Redirected(c, "CHECKPOINT", f, PERM_WRITE)
RevertRequest(c, f)          == Redirected(c, "REVERT", f, PERM_WRITE)
ViewCheckpointRequest(c, f)  == Redirected(c, "VIEWCHECKPOINT", f, PERM_READ)
ListCheckpointsRequest(c, f) == Redirected(c, "LISTCHECKPOINTS", f, PERM_READ)

\* A client that could not connect to s, which a redirect named, reports it.
DeadReport(c, s) == Down(s) /\ Request(c, "DEAD", Call("DEAD", None, 0, s), "report")

-----------------------------------------------------------------------------
(* The cache (cache.c) *)

Hits(f) == {k \in Keys : cache[k].valid /\ cache[k].file = f}

\* The first entry of each file of F becomes invalid.
Invalidated(F) ==
  [k \in Keys |->
     IF \E f \in F : k \in Hits(f) /\ k = Min(Hits(f))
     THEN [cache[k] EXCEPT !.valid = FALSE]
     ELSE cache[k]]

Oldest == Min({cache[k].used : k \in Keys})

\* The first empty slot; in a full cache the first of the entries used least
\* recently, which is slot 1 when all of them were used in this second.
Victim ==
  LET empty == {k \in Keys : ~cache[k].valid}
  IN  IF empty # {} THEN Min(empty)
      ELSE IF Oldest < clock THEN Min({k \in Keys : cache[k].used = Oldest})
      ELSE 1

\* cache_lookup, up to the unlock.
Lookup(c) ==
  LET f == arg[c].file IN
  /\ pc[c] = "lookup"
  /\ IF Hits(f) = {}
     THEN Goto(c, "trie") /\ UNCHANGED <<arg, cache>>
     ELSE LET k == Min(Hits(f)) IN
          /\ Goto(c, "hit")
          /\ arg' = [arg EXCEPT ![c].key = k]
          /\ cache' = [cache EXCEPT ![k].used = clock]
  /\ UNCHANGED <<registry, nextSS, trie, mutex, clock, result, regVars, netVars, disk, requests>>

\* CREATE refuses a file that was found; the others look for its server.
Found(c, i) ==
  IF arg[c].cmd = "CREATE" THEN Answer(c, "error")
  ELSE Continue(c, "resolve", [arg[c] EXCEPT !.slot = i])

\* cache_lookup after the unlock: the entry is read again.
Hit(c) ==
  /\ pc[c] = "hit"
  /\ Found(c, cache[arg[c].key].ss)
  /\ UNCHANGED <<nsVars, mutex, clock, regVars, netVars, disk, requests>>

CacheAdd(c) ==
  /\ pc[c] = "cacheadd"
  /\ cache' = [cache EXCEPT ![Victim] =
       [file |-> arg[c].file, ss |-> arg[c].slot, used |-> clock, valid |-> TRUE]]
  /\ Found(c, arg[c].slot)
  /\ UNCHANGED <<registry, nextSS, trie, mutex, clock, regVars, netVars, disk, requests>>

-----------------------------------------------------------------------------
(* The trie (search.c) *)

\* search_check_permission.
Allowed(u, f, p) ==
  /\ trie[f] # None
  /\ trie[f].owner = u \/ trie[f].acl[u] >= p

Owns(u, f) == trie[f] # None /\ trie[f].owner = u

CheckPermission(c) ==
  /\ pc[c] = "perm"
  /\ IF Allowed(c, arg[c].file, arg[c].perm)
     THEN Continue(c, IF arg[c].cmd = "INFO" THEN "details" ELSE "lookup", arg[c])
     ELSE Answer(c, "error")
  /\ UNCHANGED <<nsVars, mutex, clock, regVars, netVars, disk, requests>>

\* search_find_file after a cache miss.
FindInTrie(c) ==
  LET f == arg[c].file IN
  /\ pc[c] = "trie"
  /\ IF trie[f] # None
     THEN Continue(c, "cacheadd", [arg[c] EXCEPT !.slot = trie[f].ss])
     ELSE IF arg[c].cmd = "CREATE" THEN Continue(c, "pick", arg[c])
     ELSE Answer(c, "error")
  /\ UNCHANGED <<nsVars, mutex, clock, regVars, netVars, disk, requests>>

\* search_get_file_details, for INFO.
GetDetails(c) ==
  LET f == arg[c].file IN
  /\ pc[c] = "details"
  /\ IF trie[f] # None THEN Continue(c, "resolve", [arg[c] EXCEPT !.slot = trie[f].ss])
     ELSE Answer(c, "error")
  /\ UNCHANGED <<nsVars, mutex, clock, regVars, netVars, disk, requests>>

\* search_delete_file: only the owner's record goes.
DeleteRecord(c) ==
  LET f == arg[c].file IN
  /\ pc[c] = "delete"
  /\ IF Owns(c, f)
     THEN /\ trie' = [trie EXCEPT ![f] = None]
          /\ Continue(c, "invalidate", [arg[c] EXCEPT !.slot = trie[f].ss])
     ELSE UNCHANGED trie /\ Answer(c, "error")
  /\ UNCHANGED <<registry, nextSS, cache, mutex, clock, regVars, netVars, disk, requests>>

\* Mutant: DELETE leaves the cache alone.
InvalidateNothing(c) ==
  /\ pc[c] = "invalidate"
  /\ Continue(c, "resolve", arg[c])
  /\ UNCHANGED <<nsVars, mutex, clock, regVars, netVars, disk, requests>>

\* cache_invalidate, for DELETE.
InvalidateEntry(c) ==
  /\ pc[c] = "invalidate"
  /\ cache' = Invalidated({arg[c].file})
  /\ Continue(c, "resolve", arg[c])
  /\ UNCHANGED <<registry, nextSS, trie, mutex, clock, regVars, netVars, disk, requests>>

\* search_set_file_folder: only the owner moves a file.  The folder itself is left out.
SetFolder(c) ==
  LET f == arg[c].file IN
  /\ pc[c] = "setfolder"
  /\ IF Owns(c, f) THEN Continue(c, "resolve", [arg[c] EXCEPT !.slot = trie[f].ss])
     ELSE Answer(c, "error")
  /\ UNCHANGED <<nsVars, mutex, clock, regVars, netVars, disk, requests>>

Listed(acl) == {u \in Clients : acl[u] # 0}

AclFull(acl, u) == u \notin Listed(acl) /\ Cardinality(Listed(acl)) >= MaxAcl

SetAcl(acl, u, p) == [acl EXCEPT ![u] = p]

\* search_grant_permission and search_remove_permission (which clears the entry).
Grant(c) ==
  LET a == arg[c]
      f == a.file
  IN
  /\ pc[c] = "grant"
  /\ IF Owns(c, f) /\ (a.cmd = "REM" \/ ~AclFull(trie[f].acl, a.user))
     THEN /\ trie' = [trie EXCEPT ![f].acl = SetAcl(@, a.user, a.perm)]
          /\ Continue(c, "lookup", a)
     ELSE UNCHANGED trie /\ Answer(c, "error")
  /\ UNCHANGED <<registry, nextSS, cache, mutex, clock, regVars, netVars, disk, requests>>

\* search_add_file: a record that is there already stays as it is.
AddFile(c) ==
  LET a == arg[c] IN
  /\ pc[c] = "add"
  /\ trie' = IF trie[a.file] # None THEN trie
             ELSE [trie EXCEPT ![a.file] = [ss |-> a.slot, owner |-> c, acl |-> NoAcl]]
  /\ Continue(c, "owner", a)
  /\ UNCHANGED <<registry, nextSS, cache, mutex, clock, regVars, netVars, disk, requests>>

\* search_purge_by_ss.
PurgeSlot(i) ==
  LET dead == {f \in Files : trie[f] # None /\ trie[f].ss = i} IN
  /\ trie' = [f \in Files |-> IF f \in dead THEN None ELSE trie[f]]
  /\ cache' = Invalidated(dead)

\* search_rebuild_add_file: a file known on another server is rejected.
RebuildAdd(i, f, meta) ==
  trie' = IF trie[f] # None /\ trie[f].ss # i THEN trie
          ELSE [trie EXCEPT ![f] = [ss |-> i, owner |-> meta.owner, acl |-> meta.acl]]

-----------------------------------------------------------------------------
(* The registry (storage_manager.c) *)

Active == {i \in Slots : registry[i] # None}

\* Mutant: next_ss_index is advanced without the wrap.
PickServerNoWrap(c) ==
  /\ pc[c] = "pick"
  /\ IF Active = {}
     THEN Answer(c, "error") /\ UNCHANGED nextSS
     ELSE LET step == Min({d \in Slots : registry[(nextSS + d) % MaxServers] # None})
              i == (nextSS + step) % MaxServers
          IN  /\ nextSS' = i + 1
              /\ Continue(c, "send", [arg[c] EXCEPT !.slot = i])
  /\ UNCHANGED <<registry, trie, cache, mutex, clock, regVars, netVars, disk, requests>>

\* get_ss_for_new_file: the next active slot, round robin.
PickServer(c) ==
  /\ pc[c] = "pick"
  /\ IF Active = {}
     THEN Answer(c, "error") /\ UNCHANGED nextSS
     ELSE LET step == Min({d \in Slots : registry[(nextSS + d) % MaxServers] # None})
              i == (nextSS + step) % MaxServers
          IN  /\ nextSS' = (i + 1) % MaxServers
              /\ Continue(c, "send", [arg[c] EXCEPT !.slot = i])
  /\ UNCHANGED <<registry, trie, cache, mutex, clock, regVars, netVars, disk, requests>>

\* get_ss_by_index.  A redirect copies the address of the slot; the others go on to
\* talk to the server, INFO and EXEC with the descriptor read here.
Resolve(c) ==
  LET a == arg[c] IN
  /\ pc[c] = "resolve"
  /\ IF registry[a.slot] = None
     THEN Answer(c, IF a.cmd = "DELETE" THEN "ok" ELSE "error")
     ELSE IF a.cmd = "REDIRECT" THEN Answer(c, "ok")
     ELSE Continue(c, "send", [a EXCEPT !.sock = registry[a.slot]])
  /\ UNCHANGED <<nsVars, mutex, clock, regVars, netVars, disk, requests>>

\* get_ss_sock_by_address, for a dead report.
FindReported(c) ==
  LET at == {i \in Active : server[registry[i]] = arg[c].user} IN
  /\ pc[c] = "report"
  /\ IF at = {} THEN Answer(c, "ok")
     ELSE /\ Goto(c, "remove")
          /\ arg' = [arg EXCEPT ![c].sock = registry[Min(at)]]
          /\ result' = [result EXCEPT ![c] = "ok"]
  /\ UNCHANGED <<nsVars, mutex, clock, regVars, netVars, disk, requests>>

\* remove_storage_server, up to the unlock.  CREATE and DELETE pass the descriptor
\* that their slot holds now, the others the one they used.
RemoveServer(c) ==
  LET a  == arg[c]
      fd == IF a.cmd \in {"CREATE", "DELETE"} THEN registry[a.slot] ELSE a.sock
      at == {i \in Active : registry[i] = fd}
  IN
  /\ pc[c] = "remove"
  /\ IF at = {}
     THEN Answer(c, result[c]) /\ UNCHANGED registry
     ELSE /\ registry' = [registry EXCEPT ![Min(at)] = None]
          /\ Continue(c, "purge", [a EXCEPT !.slot = Min(at)])
  /\ UNCHANGED <<nextSS, trie, cache, mutex, clock, regVars, netVars, disk, requests>>

\* The purge that ends remove_storage_server.
Purge(c) ==
  /\ pc[c] = "purge"
  /\ PurgeSlot(arg[c].slot)
  /\ Answer(c, result[c])
  /\ UNCHANGED <<registry, nextSS, mutex, clock, regVars, netVars, disk, requests>>

-----------------------------------------------------------------------------
(* A request and its reply over a storage server's socket (client_handler.c) *)

\* The message a handler sends, and the type of reply it accepts.
ToServer(c) == Order(arg[c].cmd, c, arg[c].file, arg[c].user, arg[c].perm)

Expected(cmd) == CASE cmd = "INFO" -> "META" [] cmd = "EXEC" -> "DATA" [] OTHER -> "ACK"

Captured  == {"UNDO", "INFO", "EXEC"}     \* keep the descriptor in ss_sock
Unchecked == {"ADD", "REM", "MOVE"}       \* ignore what send returns

\* A send on a closed descriptor (or on the -1 of an inactive slot) fails, and so does
\* its recv.  The first send to a peer that is gone is accepted and lost, and answered
\* with a reset; once that has come, sends fail (ECONNRESET) or raise SIGPIPE.
Open    == {k \in Conns : k \notin closed}
Healthy == {k \in Open : Up(k)}
Readable  == {k \in Open : toNS[k] # <<>>}

Post(k, m) ==
  /\ toSS' = IF k \in Healthy THEN [toSS EXCEPT ![k] = Append(@, m)] ELSE toSS
  /\ reset' = IF k \in Open \ Healthy THEN reset \cup {k} ELSE reset

\* The socket to send on: read under the mutex, except by INFO and EXEC.
Socket(c) ==
  IF arg[c].cmd \in {"INFO", "EXEC"} THEN arg[c].sock ELSE registry[arg[c].slot]

\* Mutant: the request is sent without waiting for the socket_mutex.
SendUnlocked(c) ==
  LET k == Socket(c) IN
  /\ pc[c] = "send"
  /\ k \in Open \/ arg[c].cmd \in Unchecked
  /\ mutex' = [mutex EXCEPT ![arg[c].slot] = c]
  /\ Post(k, ToServer(c))
  /\ Continue(c, IF arg[c].cmd \in Captured THEN "recv" ELSE "wait",
              [arg[c] EXCEPT !.sock = k])
  /\ UNCHANGED <<nsVars, clock, regVars, server, ssPc, closed, toNS, disk, requests>>

\* The request leaves under the slot's socket_mutex, which stays locked.
Send(c) ==
  LET k == Socket(c) IN
  /\ pc[c] = "send"
  /\ mutex[arg[c].slot] = None
  /\ k \in Open \/ arg[c].cmd \in Unchecked
  /\ mutex' = [mutex EXCEPT ![arg[c].slot] = c]
  /\ Post(k, ToServer(c))
  /\ Continue(c, IF arg[c].cmd \in Captured THEN "recv" ELSE "wait",
              [arg[c] EXCEPT !.sock = k])
  /\ UNCHANGED <<nsVars, clock, regVars, server, ssPc, closed, toNS, disk, requests>>

\* The send failed: the mutex is released, the client told, the server removed.
SendFails(c) ==
  LET k == Socket(c) IN
  /\ pc[c] = "send"
  /\ mutex[arg[c].slot] = None
  /\ k \notin Healthy /\ (k \in Open => k \in reset)
  /\ arg[c].cmd \notin Unchecked
  /\ Goto(c, "remove")
  /\ arg' = [arg EXCEPT ![c].sock = k]
  /\ result' = [result EXCEPT ![c] = IF arg[c].cmd = "DELETE" THEN "ok" ELSE "error"]
  /\ UNCHANGED <<nsVars, mutex, clock, regVars, netVars, disk, requests>>

\* The others read the descriptor of the slot again for recv.
Wait(c) ==
  /\ pc[c] = "wait"
  /\ Continue(c, "recv", [arg[c] EXCEPT !.sock = registry[arg[c].slot]])
  /\ UNCHANGED <<nsVars, mutex, clock, regVars, netVars, disk, requests>>

\* Mutant: a handler returns without the unlock.
UnlockNothing(c) == UNCHANGED mutex

Unlock(c) == mutex' = [mutex EXCEPT ![arg[c].slot] = None]

\* The next message on the socket is taken for the reply.
Receive(c) ==
  LET a  == arg[c]
      ok == Head(toNS[a.sock]).type = Expected(a.cmd)
  IN
  /\ pc[c] = "recv"
  /\ a.sock \in Readable
  /\ toNS' = [toNS EXCEPT ![a.sock] = Tail(@)]
  /\ Unlock(c)
  /\ CASE a.cmd = "CREATE" /\ ok -> Continue(c, "add", a)
       [] a.cmd \in {"INFO", "EXEC"} /\ ~ok ->
            /\ Goto(c, "remove")
            /\ result' = [result EXCEPT ![c] = "error"]
            /\ UNCHANGED arg
       [] OTHER -> Answer(c, IF ok \/ a.cmd = "DELETE" THEN "ok" ELSE "error")
  /\ UNCHANGED <<nsVars, clock, regVars, server, ssPc, closed, reset, toSS, disk, requests>>

\* recv fails.  ADDACCESS and REMACCESS do not look, and test an uninitialised
\* header; MOVE answers; the others answer and remove the server.
ReceiveFails(c) ==
  LET a == arg[c] IN
  /\ pc[c] = "recv"
  /\ a.sock \notin Readable \cup Healthy
  /\ Unlock(c)
  /\ \/ a.cmd \in {"ADD", "REM"} /\ \E answer \in {"ok", "error"} : Answer(c, answer)
     \/ a.cmd = "MOVE" /\ Answer(c, "error")
     \/ /\ a.cmd \notin Unchecked
        /\ Goto(c, "remove")
        /\ result' = [result EXCEPT ![c] = IF a.cmd = "DELETE" THEN "ok" ELSE "error"]
        /\ UNCHANGED arg
  /\ UNCHANGED <<nsVars, clock, regVars, netVars, disk, requests>>

\* CREATE passes the owner's name on, without waiting for an answer.
SendOwner(c) ==
  /\ pc[c] = "owner"
  /\ mutex[arg[c].slot] = None
  /\ Post(registry[arg[c].slot], Order("OWNER", c, arg[c].file, c, 0))
  /\ Answer(c, "ok")
  /\ UNCHANGED <<nsVars, mutex, clock, regVars, server, ssPc, closed, toNS, disk, requests>>

\* The name server does not ignore SIGPIPE: the signal ends the process, its threads
\* and its connections.
Kill ==
  /\ pc' = [c \in Clients |-> "gone"]
  /\ arg' = [c \in Clients |-> NoCall]
  /\ mutex' = [i \in Slots |-> None]
  /\ regPc' = [k \in Conns |-> "gone"]
  /\ closed' = Conns
  /\ UNCHANGED <<nsVars, clock, result, regSlot, server, ssPc, reset, toSS, toNS, disk, requests>>

Killed == \E k \in Conns : regPc[k] = "gone"

\* A send to a peer that is gone raises SIGPIPE, after a reset or by the payload that
\* follows a header in a send of its own.
Sigpipe(c) ==
  LET k     == IF pc[c] = "owner" THEN registry[arg[c].slot] ELSE Socket(c)
      twice == pc[c] = "owner" \/ arg[c].cmd \in Unchecked
  IN
  /\ pc[c] \in {"send", "owner"}
  /\ mutex[arg[c].slot] = None
  /\ k \in Open \ Healthy
  /\ twice \/ k \in reset
  /\ Kill

-----------------------------------------------------------------------------
(* Registration (storage_manager.c) *)

threads == <<pc, arg, result, mutex, clock, requests>>

RegGoto(k, label) == regPc' = [regPc EXCEPT ![k] = label]

\* register_storage_server, up to the unlock: the slot is active from here on.
Register(k) ==
  LET free == Slots \ Active IN
  /\ regPc[k] = "register"
  /\ IF free = {}
     THEN /\ closed' = closed \cup {k}
          /\ RegGoto(k, "done")
          /\ UNCHANGED <<registry, regSlot>>
     ELSE /\ registry' = [registry EXCEPT ![Min(free)] = k]
          /\ regSlot' = [regSlot EXCEPT ![k] = Min(free)]
          /\ RegGoto(k, "ack")
          /\ UNCHANGED closed
  /\ UNCHANGED <<nextSS, trie, cache, threads, server, ssPc, reset, toSS, toNS, disk>>

\* The ACK of register_storage_server.  If it fails the socket is closed, and the
\* slot stays.
RegisterAck(k) ==
  /\ regPc[k] = "ack"
  /\ \/ Post(k, Greeting) /\ RegGoto(k, "ack2") /\ UNCHANGED closed
     \/ /\ k \in reset
        /\ closed' = closed \cup {k}
        /\ RegGoto(k, "done")
        /\ UNCHANGED <<reset, toSS>>
  /\ UNCHANGED <<nsVars, threads, regSlot, server, ssPc, toNS, disk>>

\* The second ACK.
RegisterAckAgain(k) ==
  /\ regPc[k] = "ack2"
  /\ \/ Post(k, Greeting) /\ RegGoto(k, "sync")
     \/ k \in reset /\ UNCHANGED <<reset, toSS>> /\ RegGoto(k, "remove")
  /\ UNCHANGED <<nsVars, threads, regSlot, server, ssPc, closed, toNS, disk>>

\* SIGPIPE, raised by one of the two ACKs.
RegisterSigpipe(k) ==
  /\ regPc[k] \in {"ack", "ack2"}
  /\ k \in reset \cap Open
  /\ Kill

Listing(k) == Len(toNS[k]) >= 2 /\ toNS[k][1].type = "FILE" /\ toNS[k][2].type = "PAYLOAD"

\* The file sync loop takes one file.
SyncFile(k) ==
  /\ regPc[k] = "sync"
  /\ Listing(k)
  /\ RebuildAdd(regSlot[k], toNS[k][2].file, toNS[k][2].meta)
  /\ toNS' = [toNS EXCEPT ![k] = Tail(Tail(@))]
  /\ UNCHANGED <<registry, nextSS, cache, threads, regVars, server, ssPc, closed, reset, toSS, disk>>

\* The loop ends: with REGISTER_COMPLETE, or by a message it does not expect.
SyncEnds(k) ==
  /\ regPc[k] = "sync"
  /\ toNS[k] # <<>> /\ ~Listing(k)
  /\ RegGoto(k, IF Head(toNS[k]).type = "COMPLETE" THEN "done" ELSE "remove")
  /\ toNS' = [toNS EXCEPT ![k] = Tail(@)]
  /\ UNCHANGED <<nsVars, threads, regSlot, server, ssPc, closed, reset, toSS, disk>>

\* The loop ends because the server is gone.
SyncFails(k) ==
  /\ regPc[k] = "sync"
  /\ toNS[k] = <<>> /\ ~Up(k)
  /\ RegGoto(k, "remove")
  /\ UNCHANGED <<nsVars, threads, regSlot, netVars, disk>>

\* disconnect: remove_storage_server by socket, then close.
RegisterRemove(k) ==
  LET at == {i \in Slots : registry[i] = k} IN
  /\ regPc[k] = "remove"
  /\ IF at = {}
     THEN /\ closed' = closed \cup {k}
          /\ RegGoto(k, "done")
          /\ UNCHANGED <<registry, regSlot>>
     ELSE /\ registry' = [registry EXCEPT ![Min(at)] = None]
          /\ regSlot' = [regSlot EXCEPT ![k] = Min(at)]
          /\ RegGoto(k, "purge")
          /\ UNCHANGED closed
  /\ UNCHANGED <<nextSS, trie, cache, threads, server, ssPc, reset, toSS, toNS, disk>>

RegisterPurge(k) ==
  /\ regPc[k] = "purge"
  /\ PurgeSlot(regSlot[k])
  /\ closed' = closed \cup {k}
  /\ RegGoto(k, "done")
  /\ UNCHANGED <<registry, nextSS, threads, regSlot, server, ssPc, reset, toSS, toNS, disk>>

-----------------------------------------------------------------------------
(* The storage server's name server thread (storage_server/main.c) *)

Spare == {k \in Conns : server[k] = None}

\* A storage server that is down starts, connects and sends its registration.
Connect(s) ==
  /\ Down(s) /\ Spare # {} /\ ~Killed
  /\ server' = [server EXCEPT ![Min(Spare)] = s]
  /\ ssPc' = [ssPc EXCEPT ![Min(Spare)] = "hello"]
  /\ regPc' = [regPc EXCEPT ![Min(Spare)] = "register"]
  /\ UNCHANGED <<nsVars, threads, regSlot, closed, reset, toSS, toNS, disk>>

\* A header and a payload for every entry of the file_table, then the end mark.
FileList(s) ==
  LET names == SetToSeq({f \in Files : disk[s][f] # None})
      n     == Len(names)
  IN  [i \in 1..(2 * n + 1) |->
         IF i = 2 * n + 1 THEN Reply("COMPLETE", None, None, NoMeta)
         ELSE IF i % 2 = 1 THEN Reply("FILE", None, None, NoMeta)
         ELSE Reply("PAYLOAD", None, names[i \div 2], disk[s][names[i \div 2]])]

Read(k) == toSS' = [toSS EXCEPT ![k] = Tail(@)]

\* The process ends: bytes it has not read are answered with a reset.
Exit(k, unread) ==
  /\ ssPc' = [ssPc EXCEPT ![k] = "off"]
  /\ reset' = IF unread = <<>> THEN reset ELSE reset \cup {k}

Respond(k, replies) == toNS' = [toNS EXCEPT ![k] = @ \o replies]

\* register_with_name_server: anything but an ACK ends the process.
Hello(k) ==
  /\ ssPc[k] = "hello"
  /\ toSS[k] # <<>>
  /\ IF Head(toSS[k]).type = "ACK"
     THEN /\ ssPc' = [ssPc EXCEPT ![k] = "serve"]
          /\ Respond(k, FileList(server[k]))
          /\ UNCHANGED reset
     ELSE Exit(k, Tail(toSS[k])) /\ UNCHANGED toNS
  /\ Read(k)
  /\ UNCHANGED <<nsVars, threads, regVars, server, closed, disk>>

\* handle_ns_commands takes the next command; dir is the file_table it leaves.
Serve(k, type, dir, replies) ==
  LET m == Head(toSS[k]) IN
  /\ ssPc[k] = "serve"
  /\ toSS[k] # <<>> /\ m.type = type
  /\ Read(k)
  /\ disk' = [disk EXCEPT ![server[k]] = dir]
  /\ Respond(k, [i \in DOMAIN replies |-> Reply(replies[i], m.for, m.file, NoMeta)])
  /\ UNCHANGED <<nsVars, threads, regVars, server, ssPc, closed, reset>>

Target(k) == Head(toSS[k]).file

\* fopen "w": the file is there and empty; add_metadata_entry keeps an old entry.
ServeCreate(k) ==
  LET f == Target(k) IN
  Serve(k, "CREATE", [Holds(k) EXCEPT ![f] = IF @ = None THEN NoMeta ELSE @], <<"ACK">>)

\* A file that cannot be removed is not answered.
ServeDelete(k) ==
  LET f == Target(k) IN
  Serve(k, "DELETE", [Holds(k) EXCEPT ![f] = None],
        IF Holds(k)[f] = None THEN <<>> ELSE <<"ACK">>)

\* perform_undo may fail (StorageServer); a failure is not answered.
ServeUndo(k) ==
  \E replies \in {<<>>, <<"ACK">>} : Serve(k, "UNDO", Holds(k), replies)

ServeInfo(k) == Serve(k, "INFO", Holds(k), <<"META">>)

ServeExec(k) == Serve(k, "EXEC", Holds(k), <<"DATA">>)

ServeOwner(k) ==
  LET m == Head(toSS[k]) IN
  Serve(k, "OWNER",
        IF Holds(k)[m.file] = None THEN Holds(k)
        ELSE [Holds(k) EXCEPT ![m.file].owner = m.user],
        <<>>)

\* persist_set_acl drops an entry that does not fit, and is acknowledged.
ServeAdd(k) ==
  LET m == Head(toSS[k])
      old == Holds(k)[m.file]
  IN
  Serve(k, "ADD",
        IF old = None \/ AclFull(old.acl, m.user) THEN Holds(k)
        ELSE [Holds(k) EXCEPT ![m.file].acl = SetAcl(@, m.user, m.perm)],
        <<"ACK">>)

ServeRem(k) ==
  LET m == Head(toSS[k]) IN
  Serve(k, "REM",
        IF Holds(k)[m.file] = None THEN Holds(k)
        ELSE [Holds(k) EXCEPT ![m.file].acl = SetAcl(@, m.user, 0)],
        <<"ACK">>)

\* The default case: MSG_INTERNAL_SET_FOLDER and the second ACK are unknown.  (The
\* payload of the former stays unread too; the name server's thread then waits for an
\* answer with the mutex held, so that nothing is sent behind it.)
ServeUnknown(k) == \E type \in {"MOVE", "ACK"} : Serve(k, type, Holds(k), <<>>)

\* The process ends when the name server closes the connection.
LoseNameServer(k) ==
  /\ Up(k) /\ k \in closed /\ toSS[k] = <<>>
  /\ Exit(k, <<>>)
  /\ UNCHANGED <<nsVars, threads, regVars, server, closed, toSS, toNS, disk>>

\* The process is killed; what it has sent may be lost from some point on.
Crash(k) ==
  /\ Up(k) /\ "CRASH" \in Commands
  /\ Exit(k, toSS[k])
  /\ toSS' = [toSS EXCEPT ![k] = <<>>]
  /\ \E n \in 0..Len(toNS[k]) : toNS' = [toNS EXCEPT ![k] = SubSeq(@, 1, n)]
  /\ UNCHANGED <<nsVars, threads, regVars, server, closed, disk>>

-----------------------------------------------------------------------------

Tick ==
  /\ clock < MaxClock
  /\ clock' = clock + 1
  /\ UNCHANGED <<nsVars, mutex, pc, arg, result, regVars, netVars, disk, requests>>

Requests(c) ==
  \/ \E f \in Files :
       \/ CreateRequest(c, f) \/ DeleteRequest(c, f) \/ UndoRequest(c, f)
       \/ InfoRequest(c, f) \/ ExecRequest(c, f) \/ LocateRequest(c, f)
       \/ MoveRequest(c, f) \/ ReadRequest(c, f) \/ WriteRequest(c, f)
       \/ StreamRequest(c, f) \/ CheckpointRequest(c, f) \/ RevertRequest(c, f)
       \/ ViewCheckpointRequest(c, f) \/ ListCheckpointsRequest(c, f)
       \/ \E u \in Clients :
            \/ RemAccessRequest(c, f, u)
            \/ \E p \in {PERM_READ, PERM_WRITE} : AddAccessRequest(c, f, u, p)
  \/ \E s \in Servers : DeadReport(c, s)

ClientThread(c) ==
  \/ Lookup(c) \/ Hit(c) \/ CacheAdd(c) \/ CheckPermission(c) \/ FindInTrie(c)
  \/ GetDetails(c) \/ DeleteRecord(c) \/ InvalidateEntry(c) \/ SetFolder(c) \/ Grant(c)
  \/ AddFile(c) \/ PickServer(c) \/ Resolve(c) \/ FindReported(c) \/ RemoveServer(c)
  \/ Purge(c) \/ Send(c) \/ SendFails(c) \/ Wait(c) \/ Receive(c) \/ ReceiveFails(c)
  \/ SendOwner(c) \/ Sigpipe(c)

RegistrationThread(k) ==
  \/ Register(k) \/ RegisterAck(k) \/ RegisterAckAgain(k) \/ RegisterSigpipe(k) \/ SyncFile(k)
  \/ SyncEnds(k) \/ SyncFails(k) \/ RegisterRemove(k) \/ RegisterPurge(k)

ServerThread(k) ==
  \/ Hello(k) \/ ServeCreate(k) \/ ServeDelete(k) \/ ServeUndo(k) \/ ServeInfo(k)
  \/ ServeExec(k) \/ ServeOwner(k) \/ ServeAdd(k) \/ ServeRem(k) \/ ServeUnknown(k)
  \/ LoseNameServer(k)

Next ==
  \/ \E c \in Clients : Requests(c) \/ ClientThread(c)
  \/ \E k \in Conns : RegistrationThread(k) \/ ServerThread(k) \/ Crash(k)
  \/ \E s \in Servers : Connect(s)
  \/ Tick

Spec == Init /\ [][Next]_vars

\* Threads that can run do run; clients need not ask, servers need not fail.
FairSpec ==
  /\ Spec
  /\ \A c \in Clients : WF_vars(ClientThread(c))
  /\ \A k \in Conns : WF_vars(RegistrationThread(k)) /\ WF_vars(ServerThread(k))

-----------------------------------------------------------------------------
(* Properties *)

Labels == {"idle", "lookup", "hit", "trie", "cacheadd", "perm", "details", "delete",
           "invalidate", "setfolder", "grant", "add", "pick", "resolve", "report",
           "remove", "purge", "send", "wait", "recv", "owner", "gone"}

\* The values every variable ranges over: the slots, the round-robin index and the
\* descriptors stay within their arrays.
TypeOK ==
  /\ registry \in [Slots -> Conns \cup {None}]
  /\ nextSS \in Slots
  /\ mutex \in [Slots -> Clients \cup {None}]
  /\ trie \in [Files -> Record \cup {None}]
  /\ cache \in [Keys -> Entry]
  /\ clock \in Seconds
  /\ pc \in [Clients -> Labels]
  /\ arg \in [Clients -> [cmd : Operations, file : Files \cup {None}, perm : Perms,
                         user : Clients \cup Servers \cup {None}, slot : Slots,
                         sock : Conns \cup {None}, key : Keys]]
  /\ result \in [Clients -> {"none", "ok", "error"}]
  /\ regPc \in [Conns -> {"register", "ack", "ack2", "sync", "remove", "purge", "done",
                      "gone"}]
  /\ regSlot \in [Conns -> Slots]
  /\ server \in [Conns -> Servers \cup {None}]
  /\ ssPc \in [Conns -> {"hello", "serve", "off"}]
  /\ closed \subseteq Conns
  /\ reset \subseteq Conns
  /\ disk \in [Servers -> [Files -> Meta \cup {None}]]
  /\ requests \in 0..MaxRequests

Speaking == {"wait", "recv"}

\* Every path of the handlers modelled here releases the socket_mutex it took: a slot's
\* mutex is held by the thread that is between its request and the reply, and by no
\* other.  (VIEW -l and MOVEFOLDER, which talk to servers too, are in Folders.)
MutexFollowsExchange ==
  \A i \in Slots, c \in Clients :
    mutex[i] = c <=> pc[c] \in Speaking /\ arg[c].slot = i

\* The reply that a handler reads answers its own request.  The mutex of a slot is
\* what keeps the exchanges of two clients on one socket apart.  (Runs without a
\* registration, see SyncUndisturbed, and without a dead report, which clears a slot
\* between a handler's request and its read.)
ReplyPairing ==
  \A c \in Clients :
    pc[c] = "recv" /\ arg[c].sock # None /\ toNS[arg[c].sock] # <<>> =>
      Head(toNS[arg[c].sock]).for = c

\* With a cache place for each file, no crash, no registration and no file of two
\* clients: between its owner's requests, records, cache and disks agree on where a file
\* is and who may use it, while the requests of the other clients go through the same
\* registry, cache, socket_mutexes and sockets.
HomesOf(f) == {s \in Servers : disk[s][f] # None}

PrivateFilesConsistent ==
  \A c \in Clients : pc[c] = "idle" =>
    \A f \in Uses[c] :
      IF trie[f] = None THEN HomesOf(f) = {} /\ Hits(f) = {}
      ELSE /\ registry[trie[f].ss] # None
           /\ HomesOf(f) = {server[registry[trie[f].ss]]}
           /\ Cardinality(Hits(f)) <= 1
           /\ \A k \in Hits(f) : cache[k].ss = trie[f].ss
           /\ \A s \in HomesOf(f) : disk[s][f].acl = trie[f].acl

\* README: "SS executes and sends ACK to NM", "NM relays confirmation to client": every
\* request is answered, also when storage servers die before, while or after they
\* serve it, unless a SIGPIPE ends the name server (SurvivesServers).  Holds for the
\* commands that a live storage server always answers; a DELETE or an UNDO that fails
\* there, and a MOVE, are never answered.
AllAnswered == \A c \in Clients : pc[c] # "idle" ~> pc[c] \in {"idle", "gone"}

-----------------------------------------------------------------------------
(* What the repository says and the code does not keep *)

AllIdle == \A c \in Clients : pc[c] = "idle"

\* README: "File creators have full read/write access"; "Check if file exists BEFORE
\* contacting the SS": whoever is told that CREATE succeeded owns the file.
CreatorOwns ==
  \A c \in Clients : pc[c] = "owner" => Owns(c, arg[c].file)

\* cache_invalidate: "Removes an entry from the cache.  Call this if a file is deleted
\* or moved": at rest the cache knows no file that has no record.
CacheAgrees ==
  AllIdle => \A k \in Keys : cache[k].valid => trie[cache[k].file] # None

\* README: "DELETE: Removes file from system (owner only)": a storage server removes a
\* document for nobody but its owner.
OnlyOwnerDeletes ==
  [][\A k \in Conns, f \in Files :
       ServeDelete(k) /\ f = Target(k) /\ Holds(k)[f] # None =>
         Holds(k)[f].owner \in {None, Head(toSS[k]).for}]_vars

\* storage_manager.c: "This is a passive disconnect. The SS connected and immediately
\* died": a storage server's death is a case the name server survives.
SurvivesServers == ~Killed

\* README: "MOVE: Moves file to folder": a MOVE is answered.
MoveAnswered == \A c \in Clients : arg[c].cmd = "MOVE" ~> pc[c] = "idle"

\* handle_storage_server_connection: "leaving the socket open and idle in the registry,
\* protected by its mutex": a live server's registration is not broken off.
SyncUndisturbed ==
  [][\A k \in Conns : regPc[k] = "sync" /\ Up(k) => regPc'[k] # "remove"]_vars

\* "Check if file exists BEFORE contacting the SS": CREATE empties no document that a
\* storage server holds.
CreateIsNew ==
  [][\A k \in Conns : ServeCreate(k) => Holds(k)[Target(k)] = None]_vars

\* README: "Reconnected SS synchronized", "Seamless data consistency restoration": a
\* storage server that runs and has completed its registration is in the registry.
LiveServersStayRegistered ==
  \A k \in Conns :
    regPc[k] = "done" /\ ssPc[k] = "serve" /\ k \notin closed =>
      \E i \in Slots : registry[i] = k

\* search_purge_by_ss "deletes all file records associated with a specific, dead storage
\* server": at rest no record names an inactive slot.
NoOrphanRecords ==
  AllIdle => \A f \in Files : trie[f] # None => registry[trie[f].ss] # None

\* README: "All files and metadata (access control lists, file attributes) are stored
\* persistently and survive server restarts": at rest every file has an owner.
OwnerSurvives ==
  AllIdle => \A f \in Files : trie[f] # None => trie[f].owner # None

\* cache_lookup returns "The ss_index if found": a redirect names a server that has
\* the file.
RedirectsToHome ==
  [][\A c \in Clients :
       pc[c] = "resolve" /\ arg[c].cmd = "REDIRECT" /\ result'[c] = "ok" =>
         server[registry[arg[c].slot]] \in HomesOf(arg[c].file)]_vars
=============================================================================
