-------------------------- MODULE NameServerProofs --------------------------
(***************************************************************************)
(* Proofs about NameServer for any number of clients, files, storage       *)
(* servers, slots and cache entries, and for any bounds: types, the        *)
(* ownership of the socket mutexes, the pairing of requests and replies on *)
(* the sockets of the storage servers, and the agreement of record, cache  *)
(* and disks on the files that one client asks for.                        *)
(***************************************************************************)
EXTENDS NameServer, FiniteSetTheorems, SequenceTheorems, TLAPS

Calls == [cmd : Operations, file : Files \cup {None}, perm : Perms,
          user : Clients \cup Servers \cup {None}, slot : Slots,
          sock : Conns \cup {None}, key : Keys]

\* The messages on a storage server's socket: an owner that is sent is a user, and a
\* record that is sent has an owner or none.
Orders ==
  {m \in [type : Operations \cup {"OWNER", "ACK"}, for : Clients \cup {None},
          file : Files \cup {None}, user : Clients \cup Servers \cup {None}, perm : Perms] :
     m.type = "OWNER" => m.user \in Clients}
ReplyTypes == {"ACK", "META", "DATA", "FILE", "PAYLOAD", "COMPLETE"}
Replies ==
  [type : ReplyTypes, for : Clients \cup {None}, file : Files \cup {None}, meta : Meta]

\* Where a handler starts, and where it works on a file.
Starts    == {"lookup", "delete", "perm", "setfolder", "grant", "report"}
FileSteps == Labels \ {"idle", "report", "remove", "purge", "gone"}

IndexTypes ==
  /\ registry \in [Slots -> Conns \cup {None}]
  /\ nextSS \in Slots
  /\ trie \in [Files -> Record \cup {None}]
  /\ cache \in [Keys -> Entry]
ThreadTypes ==
  /\ mutex \in [Slots -> Clients \cup {None}]
  /\ clock \in Seconds
  /\ pc \in [Clients -> Labels]
  /\ arg \in [Clients -> Calls]
  /\ result \in [Clients -> {"none", "ok", "error"}]
  /\ requests \in 0..MaxRequests
  /\ \A c \in Clients : pc[c] \in FileSteps => arg[c].file \in Files
RegTypes ==
  /\ regPc \in [Conns -> {"register", "ack", "ack2", "sync", "remove", "purge", "done",
                     "gone"}]
  /\ regSlot \in [Conns -> Slots]
  /\ server \in [Conns -> Servers \cup {None}]
  /\ ssPc \in [Conns -> {"hello", "serve", "off"}]
  /\ closed \subseteq Conns /\ reset \subseteq Conns
  /\ \A k \in Conns : Up(k) => server[k] \in Servers
DiskTypes == disk \in [Servers -> [Files -> Meta \cup {None}]]
NetTypes ==
  /\ toSS \in [Conns -> Seq(Orders)]
  /\ toNS \in [Conns -> Seq(Replies)]

TypeInv == IndexTypes /\ ThreadTypes /\ RegTypes /\ DiskTypes /\ NetTypes

IndInv == TypeInv /\ MutexFollowsExchange

-----------------------------------------------------------------------------
(* Numbers, slots and lists *)

\* The least element of a set of numbers is one of them.
LEMMA LeastElement ==
  ASSUME NEW S, S \subseteq Nat, S # {}
  PROVE  Min(S) \in S
<1> DEFINE R == OpToRel(<, Nat)
<1>1. \A x, y \in Nat : y < x => <<y, x>> \in R
  BY Zenon DEF OpToRel
<1>2. IsWellFoundedOn(R, Nat)
  BY Zenon, NatLessThanWellFounded
<1> HIDE DEF R
<1>3. PICK x \in S : \A y \in S : ~(<<y, x>> \in R)
  BY <1>2, WFMin
<1>4. \A y \in S : x \in Nat /\ y \in Nat /\ ~(y < x)
  BY <1>1, <1>3
<1>5. \E z \in S : \A y \in S : z <= y
  BY <1>3, <1>4
<1>6. QED
  BY <1>5, Zenon DEF Min

\* Numbers below the modulus.
LEMMA WrapAround ==
  ASSUME NEW M \in Nat \ {0}, NEW i \in 0..M-1
  PROVE  i % M = i /\ (i + M) % M = i
  OBVIOUS

\* SetToSeq lists the members of a finite set.
LEMMA SetAsList ==
  ASSUME NEW S, IsFiniteSet(S)
  PROVE  SetToSeq(S) \in Seq(S)
<1>1. PICK f : f \in Bijection(1..Cardinality(S), S)
  BY FS_CardinalityType DEF ExistsBijection
<1>2. f \in [1..Cardinality(S) -> S] /\ IsInjective(f)
  BY <1>1 DEF Bijection, Injection
<1>3. SetToSeq(S) \in [1..Cardinality(S) -> S]
  BY <1>2 DEF SetToSeq
<1>4. QED
  BY <1>3, FS_CardinalityType

\* Slots and cache entries are numbers.
LEMMA Ranges ==
  /\ Slots \subseteq Nat /\ Keys \subseteq Nat /\ Conns \subseteq Nat /\ Seconds \subseteq Nat
  /\ 0 \in Slots /\ 1 \in Keys /\ 0 \in Seconds
  /\ None \notin Conns /\ None \notin Clients
  BY SizeAssumption, BoundAssumption, NoneAssumption DEF Slots, Keys, Conns, Seconds

\* get_ss_for_new_file: when a slot is active the round robin finds one.
LEMMA RoundRobin ==
  ASSUME IndexTypes, Active # {}
  PROVE  LET found == {d \in Slots : registry[(nextSS + d) % MaxServers] # None}
             i == (nextSS + Min(found)) % MaxServers
         IN  /\ i \in Slots /\ (i + 1) % MaxServers \in Slots
             /\ registry[i] # None
<1> DEFINE found == {d \in Slots : registry[(nextSS + d) % MaxServers] # None}
<1> USE SizeAssumption
<1>1. PICK j \in Slots : registry[j] # None
  BY DEF Active
<1>2. nextSS \in Slots
  BY DEF IndexTypes
<1>3. found # {}
  <2>1. CASE j >= nextSS
    <3>1. j - nextSS \in Slots /\ nextSS + (j - nextSS) = j
      BY <1>2, <2>1 DEF Slots
    <3>2. j % MaxServers = j
      BY WrapAround DEF Slots
    <3>3. QED
      BY <1>1, <3>1, <3>2
  <2>2. CASE ~(j >= nextSS)
    <3>1. j + MaxServers - nextSS \in Slots
          /\ nextSS + (j + MaxServers - nextSS) = j + MaxServers
      BY <1>2, <2>2 DEF Slots
    <3>2. (j + MaxServers) % MaxServers = j
      BY WrapAround DEF Slots
    <3>3. QED
      BY <1>1, <3>1, <3>2
  <2>3. QED
    BY <2>1, <2>2
<1>4. Min(found) \in found
  BY <1>3, LeastElement, Ranges
<1>5. Min(found) \in Nat /\ nextSS \in Nat
  BY <1>2, <1>4, Ranges
<1> HIDE DEF found
<1>6. (nextSS + Min(found)) % MaxServers \in Slots
  BY <1>5 DEF Slots
<1>7. (((nextSS + Min(found)) % MaxServers) + 1) % MaxServers \in Slots
  BY <1>6 DEF Slots
<1>8. registry[(nextSS + Min(found)) % MaxServers] # None
  BY <1>4 DEF found
<1>9. QED
  BY <1>6, <1>7, <1>8 DEF found

\* cache_lookup finds an entry, and cache_insert a slot to write to.
LEMMA CacheSlots ==
  ASSUME IndexTypes
  PROVE  Victim \in Keys /\ \A f : Hits(f) # {} => Min(Hits(f)) \in Hits(f)
<1>1. \A f : Hits(f) \subseteq Nat
  BY Ranges DEF Hits
<1>2. \A f : Hits(f) # {} => Min(Hits(f)) \in Hits(f)
  BY <1>1, LeastElement
<1> DEFINE empty == {k \in Keys : ~cache[k].valid}
           ages  == {cache[k].used : k \in Keys}
           old   == {k \in Keys : cache[k].used = Oldest}
<1>3. empty # {} => Min(empty) \in Keys
  BY Ranges, LeastElement
<1>4. old # {}
  <2>a. \A k \in Keys : cache[k].used \in Seconds
    BY DEF IndexTypes, Entry
  <2>1. ages # {} /\ ages \subseteq Nat
    BY <2>a, Ranges
  <2>2. Min(ages) \in ages
    BY <2>1, LeastElement
  <2>3. QED
    BY <2>2 DEF Oldest
<1>5. Min(old) \in old
  BY <1>4, Ranges, LeastElement
<1>6. Min(old) \in Keys
  BY <1>5
<1>7. QED
  BY <1>2, <1>3, <1>6, Ranges DEF Victim

\* search_purge_by_ss and cache_invalidate change no entry but its valid bit.
LEMMA InvalidEntries ==
  ASSUME IndexTypes, NEW F
  PROVE  Invalidated(F) \in [Keys -> Entry]
  BY DEF Invalidated, IndexTypes, Entry

-----------------------------------------------------------------------------
(* Steps *)

\* What a request leaves: its handler at the first step, with a file unless it reports a
\* server.
Begun(c) ==
  \E name, call, label :
    /\ Request(c, name, call, label)
    /\ call \in Calls /\ call.sock = None
    /\ label \in Starts
    /\ label # "report" => call.file \in Files
    /\ label = "report" => "DEAD" \in Commands

\* Every request is one.
LEMMA RequestStarts ==
  ASSUME NEW c \in Clients, Requests(c)
  PROVE  Begun(c)
<1>1. ASSUME NEW f \in Files, NEW cmd \in Operations, NEW p \in Perms,
             NEW u \in Clients \cup {None}, NEW name, NEW label \in Starts \ {"report"},
             Request(c, name, Call(cmd, f, p, u), label)
      PROVE  Begun(c)
  <2>1. /\ Call(cmd, f, p, u) \in Calls /\ Call(cmd, f, p, u).sock = None
        /\ Call(cmd, f, p, u).file = f
    BY Ranges DEF Call, Calls
  <2>2. label \in Starts /\ label # "report"
    OBVIOUS
  <2>3. QED
    BY <1>1, <2>1, <2>2 DEF Begun
<1>2. /\ 0 \in Perms /\ PERM_READ \in Perms /\ PERM_WRITE \in Perms
      /\ None \in Clients \cup {None}
  BY DEF Perms, PERM_READ, PERM_WRITE
<1>3. /\ {"CREATE", "DELETE", "UNDO", "INFO", "EXEC", "REDIRECT", "MOVE", "ADD", "REM"}
           \subseteq Operations
      /\ {"lookup", "delete", "perm", "setfolder", "grant"} \subseteq Starts \ {"report"}
  BY DEF Operations, Starts
<1>4. ASSUME NEW s \in Servers, DeadReport(c, s) PROVE Begun(c)
  <2>1. Call("DEAD", None, 0, s) \in Calls /\ Call("DEAD", None, 0, s).sock = None
    BY Ranges, <1>2 DEF Call, Calls, Operations
  <2>2. Request(c, "DEAD", Call("DEAD", None, 0, s), "report") /\ "DEAD" \in Commands
    BY <1>4 DEF DeadReport, Request
  <2>3. QED
    BY <2>1, <2>2 DEF Begun, Starts
<1>5. ASSUME NEW f \in Files, CreateRequest(c, f) PROVE Begun(c)
  BY <1>1, <1>2, <1>3, <1>5, SMT DEF CreateRequest
<1>6. ASSUME NEW f \in Files, DeleteRequest(c, f) PROVE Begun(c)
  BY <1>1, <1>2, <1>3, <1>6, SMT DEF DeleteRequest
<1>7. ASSUME NEW f \in Files, UndoRequest(c, f) PROVE Begun(c)
  BY <1>1, <1>2, <1>3, <1>7, SMT DEF UndoRequest
<1>8. ASSUME NEW f \in Files, InfoRequest(c, f) PROVE Begun(c)
  BY <1>1, <1>2, <1>3, <1>8, SMT DEF InfoRequest
<1>9. ASSUME NEW f \in Files, ExecRequest(c, f) PROVE Begun(c)
  BY <1>1, <1>2, <1>3, <1>9, SMT DEF ExecRequest
<1>10. ASSUME NEW f \in Files, LocateRequest(c, f) PROVE Begun(c)
  BY <1>1, <1>2, <1>3, <1>10, SMT DEF LocateRequest
<1>11. ASSUME NEW f \in Files, MoveRequest(c, f) PROVE Begun(c)
  BY <1>1, <1>2, <1>3, <1>11, SMT DEF MoveRequest
<1>12. ASSUME NEW f \in Files, ReadRequest(c, f) PROVE Begun(c)
  BY <1>1, <1>2, <1>3, <1>12, SMT DEF ReadRequest, Redirected
<1>13. ASSUME NEW f \in Files, WriteRequest(c, f) PROVE Begun(c)
  BY <1>1, <1>2, <1>3, <1>13, SMT DEF WriteRequest, Redirected
<1>14. ASSUME NEW f \in Files, StreamRequest(c, f) PROVE Begun(c)
  BY <1>1, <1>2, <1>3, <1>14, SMT DEF StreamRequest, Redirected
<1>15. ASSUME NEW f \in Files, CheckpointRequest(c, f) PROVE Begun(c)
  BY <1>1, <1>2, <1>3, <1>15, SMT DEF CheckpointRequest, Redirected
<1>16. ASSUME NEW f \in Files, RevertRequest(c, f) PROVE Begun(c)
  BY <1>1, <1>2, <1>3, <1>16, SMT DEF RevertRequest, Redirected
<1>17. ASSUME NEW f \in Files, ViewCheckpointRequest(c, f) PROVE Begun(c)
  BY <1>1, <1>2, <1>3, <1>17, SMT DEF ViewCheckpointRequest, Redirected
<1>18. ASSUME NEW f \in Files, ListCheckpointsRequest(c, f) PROVE Begun(c)
  BY <1>1, <1>2, <1>3, <1>18, SMT DEF ListCheckpointsRequest, Redirected
<1>19. ASSUME NEW f \in Files, NEW u \in Clients, RemAccessRequest(c, f, u) PROVE Begun(c)
  BY <1>1, <1>2, <1>3, <1>19, SMT DEF RemAccessRequest
<1>20. ASSUME NEW f \in Files, NEW u \in Clients,
             NEW p \in {PERM_READ, PERM_WRITE}, AddAccessRequest(c, f, u, p) PROVE Begun(c)
  BY <1>1, <1>2, <1>3, <1>20, SMT DEF AddAccessRequest
<1>21. QED
  BY <1>4, <1>5, <1>6, <1>7, <1>8, <1>9, <1>10, <1>11, <1>12,
     <1>13, <1>14, <1>15, <1>16, <1>17, <1>18, <1>19, <1>20 DEF Requests

\* What handle_ns_commands leaves: a file_table, and no answer or the one the name
\* server's handler expects; an owner is not answered.
Served(k) ==
  \E type, dir, replies :
    /\ Serve(k, type, dir, replies)
    /\ dir \in [Files -> Meta \cup {None}]
    /\ replies \in {<<>>, <<Expected(type)>>}
    /\ type = "OWNER" => replies = <<>>

\* Every command of the storage server is one.
LEMMA ServeForms ==
  ASSUME TypeInv, NEW k \in Conns,
         \/ ServeCreate(k) \/ ServeDelete(k) \/ ServeUndo(k) \/ ServeInfo(k) \/ ServeExec(k)
         \/ ServeOwner(k) \/ ServeAdd(k) \/ ServeRem(k) \/ ServeUnknown(k)
  PROVE  Served(k)
<1> DEFINE Dirs == [Files -> Meta \cup {None}]
           m    == Head(toSS[k])
<1>1. ssPc[k] = "serve" /\ toSS[k] # <<>>
  BY DEF ServeCreate, ServeDelete, ServeUndo, ServeInfo, ServeExec, ServeOwner, ServeAdd,
     ServeRem, ServeUnknown, Serve
<1>2. Holds(k) \in Dirs
  BY <1>1 DEF Holds, TypeInv, RegTypes, DiskTypes, Up
<1>3. m \in Orders
  BY <1>1 DEF TypeInv, NetTypes
<1>4. m.perm \in Perms /\ (m.type = "OWNER" => m.user \in Clients)
  BY <1>3 DEF Orders
<1>5. NoMeta \in Meta /\ 0 \in Perms
  BY DEF NoMeta, NoAcl, Meta, Acl, Perms, PERM_WRITE
<1>6. /\ Expected("CREATE") = "ACK" /\ Expected("DELETE") = "ACK" /\ Expected("UNDO") = "ACK"
      /\ Expected("INFO") = "META" /\ Expected("EXEC") = "DATA" /\ Expected("ADD") = "ACK"
      /\ Expected("REM") = "ACK"
  BY DEF Expected
<1>7. ASSUME NEW type, NEW dir \in Dirs, NEW replies \in {<<>>, <<Expected(type)>>},
             type = "OWNER" => replies = <<>>, Serve(k, type, dir, replies)
      PROVE  Served(k)
  BY <1>7 DEF Served
<1>8. CASE ServeCreate(k)
  <2>1. [Holds(k) EXCEPT ![Target(k)] = IF @ = None THEN NoMeta ELSE @] \in Dirs
    BY <1>2, <1>5
  <2>2. QED
    BY <1>6, <1>7, <1>8, <2>1 DEF ServeCreate
<1>9. CASE ServeDelete(k)
  <2>1. [Holds(k) EXCEPT ![Target(k)] = None] \in Dirs
    BY <1>2
  <2>2. QED
    BY <1>6, <1>7, <1>9, <2>1 DEF ServeDelete
<1>10. CASE ServeUndo(k)
  BY <1>2, <1>6, <1>7, <1>10 DEF ServeUndo
<1>11. CASE ServeInfo(k)
  BY <1>2, <1>6, <1>7, <1>11 DEF ServeInfo
<1>12. CASE ServeExec(k)
  BY <1>2, <1>6, <1>7, <1>12 DEF ServeExec
<1>13. CASE ServeOwner(k)
  <2> DEFINE dir == IF Holds(k)[m.file] = None THEN Holds(k)
                    ELSE [Holds(k) EXCEPT ![m.file].owner = m.user]
  <2>1. Serve(k, "OWNER", dir, <<>>) /\ m.type = "OWNER"
    BY <1>13 DEF ServeOwner, Serve
  <2>2. dir \in Dirs
    BY <1>2, <1>4, <2>1 DEF Meta
  <2>3. QED
    BY <1>7, <2>1, <2>2
<1>14. CASE ServeAdd(k)
  <2> DEFINE old == Holds(k)[m.file]
             dir == IF old = None \/ AclFull(old.acl, m.user) THEN Holds(k)
                    ELSE [Holds(k) EXCEPT ![m.file].acl = SetAcl(@, m.user, m.perm)]
  <2>1. Serve(k, "ADD", dir, <<"ACK">>)
    BY <1>14 DEF ServeAdd
  <2>2. dir \in Dirs
    BY <1>2, <1>4 DEF Meta, SetAcl, Acl
  <2>3. QED
    BY <1>6, <1>7, <2>1, <2>2
<1>15. CASE ServeRem(k)
  <2> DEFINE dir == IF Holds(k)[m.file] = None THEN Holds(k)
                    ELSE [Holds(k) EXCEPT ![m.file].acl = SetAcl(@, m.user, 0)]
  <2>1. Serve(k, "REM", dir, <<"ACK">>)
    BY <1>15 DEF ServeRem
  <2>2. dir \in Dirs
    BY <1>2, <1>5 DEF Meta, SetAcl, Acl
  <2>3. QED
    BY <1>6, <1>7, <2>1, <2>2
<1>16. CASE ServeUnknown(k)
  BY <1>2, <1>7, <1>16 DEF ServeUnknown
<1>17. QED
  BY <1>8, <1>9, <1>10, <1>11, <1>12, <1>13, <1>14, <1>15, <1>16

-----------------------------------------------------------------------------
(* Types *)

\* A SIGPIPE, whoever's send raises it.
Kills == (\E c \in Clients : Sigpipe(c)) \/ (\E k \in Conns : RegisterSigpipe(k))

LEMMA KillForm == Kills => Kill
  BY DEF Kills, Sigpipe, RegisterSigpipe

\* The registry, the trie and the cache keep their types.
LEMMA IndexTypesStep ==
  ASSUME TypeInv, [Next]_vars
  PROVE  IndexTypes'
<1>0. ASSUME UNCHANGED nsVars PROVE IndexTypes'
  BY <1>0 DEF nsVars, TypeInv, IndexTypes
<1>1. ASSUME NEW c \in Clients, Begun(c)
      PROVE  IndexTypes'
  BY <1>1, <1>0 DEF Begun, Request, vars, nsVars, regVars, netVars, threads
<1>2. ASSUME NEW c \in Clients, Lookup(c)
      PROVE  IndexTypes'
  <2> DEFINE f == arg[c].file
             k == Min(Hits(f))
  <2>1. UNCHANGED <<registry, nextSS, trie>>
    BY <1>2 DEF Lookup
  <2>2. cache' \in [Keys -> Entry]
    <3>1. CASE Hits(f) = {}
      BY <1>2, <3>1 DEF Lookup, TypeInv, IndexTypes
    <3>2. CASE Hits(f) # {}
      <4>1. cache' = [cache EXCEPT ![k].used = clock] /\ clock \in Seconds
        BY <1>2, <3>2 DEF Lookup, TypeInv, ThreadTypes
      <4>2. QED
        BY <4>1 DEF TypeInv, IndexTypes, Entry
    <3>3. QED
      BY <3>1, <3>2
  <2>3. QED
    BY <2>1, <2>2 DEF TypeInv, IndexTypes
<1>3. ASSUME NEW c \in Clients, CacheAdd(c)
      PROVE  IndexTypes'
  <2> DEFINE e == [file |-> arg[c].file, ss |-> arg[c].slot, used |-> clock, valid |-> TRUE]
  <2>1. e \in Entry
    BY <1>3 DEF TypeInv, ThreadTypes, Calls, Entry
  <2>2. cache' = [cache EXCEPT ![Victim] = e] /\ UNCHANGED <<registry, nextSS, trie>>
    BY <1>3 DEF CacheAdd
  <2> HIDE DEF e
  <2>3. QED
    BY <2>1, <2>2 DEF TypeInv, IndexTypes
<1>4. ASSUME NEW c \in Clients, DeleteRecord(c)
      PROVE  IndexTypes'
  BY <1>4 DEF DeleteRecord, TypeInv, IndexTypes
<1>5. ASSUME NEW c \in Clients, InvalidateEntry(c)
      PROVE  IndexTypes'
  BY <1>5, InvalidEntries DEF InvalidateEntry, TypeInv, IndexTypes
<1>6. ASSUME NEW c \in Clients, Grant(c)
      PROVE  IndexTypes'
  <2> DEFINE f == arg[c].file
  <2>1. UNCHANGED <<registry, nextSS, cache>>
    BY <1>6 DEF Grant
  <2>2. trie' \in [Files -> Record \cup {None}]
    <3>1. CASE trie' = trie
      BY <3>1 DEF TypeInv, IndexTypes
    <3>2. CASE trie' # trie
      <4>1. /\ trie' = [trie EXCEPT ![f].acl = SetAcl(@, arg[c].user, arg[c].perm)]
            /\ trie[f] # None
        BY <1>6, <3>2 DEF Grant, Owns
      <4>2. arg[c].perm \in Perms
        BY DEF TypeInv, ThreadTypes, Calls
      <4>3. QED
        BY <4>1, <4>2 DEF TypeInv, IndexTypes, Record, SetAcl, Acl
    <3>3. QED
      BY <3>1, <3>2
  <2>3. QED
    BY <2>1, <2>2 DEF TypeInv, IndexTypes
<1>7. ASSUME NEW c \in Clients, AddFile(c)
      PROVE  IndexTypes'
  <2>1. [ss |-> arg[c].slot, owner |-> c, acl |-> NoAcl] \in Record
    BY DEF TypeInv, ThreadTypes, Calls, Record, NoAcl, Acl, Perms, PERM_WRITE
  <2>2. QED
    BY <1>7, <2>1 DEF AddFile, TypeInv, IndexTypes
<1>8. ASSUME NEW c \in Clients, PickServer(c)
      PROVE  IndexTypes'
  BY <1>8, RoundRobin DEF PickServer, TypeInv, IndexTypes
<1>9. ASSUME NEW c \in Clients, RemoveServer(c)
      PROVE  IndexTypes'
  BY <1>9 DEF RemoveServer, TypeInv, IndexTypes
<1>10. ASSUME NEW c \in Clients, Purge(c)
      PROVE  IndexTypes'
  <2>1. trie' \in [Files -> Record \cup {None}] /\ UNCHANGED <<registry, nextSS>>
    BY <1>10 DEF Purge, PurgeSlot, TypeInv, IndexTypes
  <2>2. cache' \in [Keys -> Entry]
    BY <1>10, InvalidEntries DEF Purge, PurgeSlot, TypeInv
  <2>3. QED
    BY <2>1, <2>2 DEF TypeInv, IndexTypes
<1>11. ASSUME NEW c \in Clients,
             \/ Hit(c) \/ CheckPermission(c) \/ FindInTrie(c) \/ GetDetails(c)
             \/ SetFolder(c) \/ Resolve(c) \/ FindReported(c) \/ Send(c) \/ SendFails(c)
             \/ Wait(c) \/ Receive(c) \/ ReceiveFails(c) \/ SendOwner(c)
      PROVE  IndexTypes'
  BY <1>11, <1>0 DEF Hit, CheckPermission, FindInTrie, GetDetails, SetFolder, Resolve,
     FindReported, Send, SendFails, Wait, Receive, ReceiveFails, SendOwner, vars,
     nsVars, regVars, netVars, threads
<1>12. ASSUME NEW k \in Conns, Register(k)
      PROVE  IndexTypes'
  BY <1>12 DEF Register, TypeInv, IndexTypes
<1>13. ASSUME NEW k \in Conns, SyncFile(k)
      PROVE  IndexTypes'
  <2> DEFINE m == toNS[k][2]
  <2>1. m.meta \in Meta
    <3>1. 2 \in 1..Len(toNS[k]) /\ toNS[k] \in Seq(Replies)
      BY <1>13 DEF SyncFile, Listing, TypeInv, NetTypes
    <3>2. m \in Replies
      BY <3>1, ElementOfSeq
    <3>3. QED
      BY <3>2 DEF Replies
  <2>2. [ss |-> regSlot[k], owner |-> m.meta.owner, acl |-> m.meta.acl] \in Record
    BY <2>1 DEF Record, Meta, TypeInv, RegTypes
  <2>3. QED
    BY <1>13, <2>2 DEF SyncFile, RebuildAdd, TypeInv, IndexTypes
<1>14. ASSUME NEW k \in Conns, RegisterRemove(k)
      PROVE  IndexTypes'
  BY <1>14 DEF RegisterRemove, TypeInv, IndexTypes
<1>15. ASSUME NEW k \in Conns, RegisterPurge(k)
      PROVE  IndexTypes'
  <2>1. trie' \in [Files -> Record \cup {None}] /\ UNCHANGED <<registry, nextSS>>
    BY <1>15 DEF RegisterPurge, PurgeSlot, TypeInv, IndexTypes
  <2>2. cache' \in [Keys -> Entry]
    BY <1>15, InvalidEntries DEF RegisterPurge, PurgeSlot, TypeInv
  <2>3. QED
    BY <2>1, <2>2 DEF TypeInv, IndexTypes
<1>16. ASSUME NEW k \in Conns,
             \/ RegisterAck(k) \/ RegisterAckAgain(k) \/ SyncEnds(k) \/ SyncFails(k)
             \/ Hello(k) \/ LoseNameServer(k) \/ Crash(k)
      PROVE  IndexTypes'
  BY <1>16, <1>0 DEF RegisterAck, RegisterAckAgain, SyncEnds, SyncFails, Hello,
     LoseNameServer, Crash, vars, nsVars, regVars, netVars, threads
<1>17. ASSUME NEW k \in Conns, Served(k)
      PROVE  IndexTypes'
  BY <1>17, <1>0 DEF Served, Serve, vars, nsVars, regVars, netVars, threads
<1>18. ASSUME NEW s \in Servers, Connect(s)
      PROVE  IndexTypes'
  BY <1>18, <1>0 DEF Connect, vars, nsVars, regVars, netVars, threads
<1>19. ASSUME Tick
      PROVE  IndexTypes'
  BY <1>19, <1>0 DEF Tick, vars, nsVars, regVars, netVars, threads
<1>20. ASSUME UNCHANGED vars
      PROVE  IndexTypes'
  BY <1>20, <1>0 DEF vars, nsVars, regVars, netVars, threads
<1>s. ASSUME Kills PROVE IndexTypes'
  BY <1>s, <1>0, KillForm DEF Kill
<1>21. QED
  BY <1>1, <1>2, <1>3, <1>4, <1>5, <1>6, <1>7, <1>8, <1>9, <1>10, <1>11, <1>12, <1>13,
     <1>14, <1>15, <1>16, <1>17, <1>18, <1>19, <1>20, <1>s, RequestStarts, ServeForms
  DEF Next, ClientThread, RegistrationThread, ServerThread, Kills

\* A handler's locals with another slot, descriptor or cache entry.
LEMMA LocalsSet ==
  ASSUME NEW a \in Calls
  PROVE  /\ \A i \in Slots : [a EXCEPT !.slot = i] \in Calls /\ [a EXCEPT !.slot = i].file = a.file
         /\ \A k \in Conns \cup {None} :
              [a EXCEPT !.sock = k] \in Calls /\ [a EXCEPT !.sock = k].file = a.file
         /\ \A k \in Keys : [a EXCEPT !.key = k] \in Calls /\ [a EXCEPT !.key = k].file = a.file
  BY DEF Calls

\* A handler that answers has no locals any more.
LEMMA NoLocals == NoCall \in Calls /\ NoCall.sock = None
  BY Ranges DEF NoCall, Call, Calls, Operations, Perms, PERM_WRITE

\* A thread that stands at label with locals a.
Placed(c, label, a) ==
  /\ label \in Labels /\ a \in Calls
  /\ label \in FileSteps => a.file \in Files
  /\ Goto(c, label)
  /\ arg' = [arg EXCEPT ![c] = a]

\* When one thread moves to a step with locals that fit it, the threads keep their types.
LEMMA PlacedTypes ==
  ASSUME TypeInv, NEW c \in Clients, NEW label, NEW a, Placed(c, label, a),
         \/ UNCHANGED result
         \/ \E v \in {"none", "ok", "error"} : result' = [result EXCEPT ![c] = v],
         \/ UNCHANGED mutex
         \/ \E i \in Slots, d \in Clients \cup {None} : mutex' = [mutex EXCEPT ![i] = d],
         clock' \in Seconds, requests' \in 0..MaxRequests
  PROVE  ThreadTypes'
<1>1. result' \in [Clients -> {"none", "ok", "error"}]
  BY DEF TypeInv, ThreadTypes
<1>2. mutex' \in [Slots -> Clients \cup {None}]
  BY DEF TypeInv, ThreadTypes
<1>3. pc' \in [Clients -> Labels] /\ arg' \in [Clients -> Calls]
  BY DEF TypeInv, ThreadTypes, Placed, Goto
<1>4. \A d \in Clients : pc'[d] \in FileSteps => arg'[d].file \in Files
  BY DEF TypeInv, ThreadTypes, Placed, Goto
<1>5. QED
  BY <1>1, <1>2, <1>3, <1>4 DEF ThreadTypes

\* A thread that answers.
LEMMA AnsweredTypes ==
  ASSUME TypeInv, NEW c \in Clients, NEW v \in {"none", "ok", "error"}, Answer(c, v),
         \/ UNCHANGED mutex
         \/ \E i \in Slots, d \in Clients \cup {None} : mutex' = [mutex EXCEPT ![i] = d],
         UNCHANGED <<clock, requests>>
  PROVE  ThreadTypes'
<1>1. Placed(c, "idle", NoCall)
  BY NoLocals DEF Answer, Placed, Labels, FileSteps
<1>2. clock' \in Seconds /\ requests' \in 0..MaxRequests
  BY DEF TypeInv, ThreadTypes
<1>3. result' = [result EXCEPT ![c] = v]
  BY DEF Answer
<1>4. QED
  BY <1>1, <1>2, <1>3, PlacedTypes

\* A thread that goes on.
LEMMA ContinuedTypes ==
  ASSUME TypeInv, NEW c \in Clients, NEW label \in Labels, NEW a \in Calls,
         label \in FileSteps => a.file \in Files, Continue(c, label, a),
         \/ UNCHANGED mutex
         \/ \E i \in Slots, d \in Clients \cup {None} : mutex' = [mutex EXCEPT ![i] = d],
         UNCHANGED <<clock, requests>>
  PROVE  ThreadTypes'
<1>1. Placed(c, label, a) /\ UNCHANGED result
  BY DEF Continue, Placed
<1>2. clock' \in Seconds /\ requests' \in 0..MaxRequests
  BY DEF TypeInv, ThreadTypes
<1>3. QED
  BY <1>1, <1>2, PlacedTypes

\* The client threads keep the types of their locals, and work on a file where they
\* need one.
LEMMA ThreadTypesStep ==
  ASSUME TypeInv, [Next]_vars
  PROVE  ThreadTypes'
<1>a. Labels \ FileSteps = {"idle", "report", "remove", "purge", "gone"} /\ FileSteps \subseteq Labels
  BY DEF Labels, FileSteps
<1>b. {"lookup", "hit", "trie", "cacheadd", "perm", "details", "delete", "invalidate", "setfolder",
       "grant", "add", "pick", "resolve", "send", "wait", "recv", "owner"} \subseteq FileSteps
  BY DEF Labels, FileSteps
<1>c. clock \in Seconds /\ requests \in 0..MaxRequests
  BY DEF TypeInv, ThreadTypes
<1>0. ASSUME UNCHANGED threads PROVE ThreadTypes'
  BY <1>0 DEF threads, TypeInv, ThreadTypes
<1>1. ASSUME NEW c \in Clients, Begun(c)
      PROVE  ThreadTypes'
  <2>1. PICK name, call, label :
          /\ Request(c, name, call, label)
          /\ call \in Calls /\ label \in Starts
          /\ label # "report" => call.file \in Files
    BY <1>1 DEF Begun
  <2>2. Placed(c, label, call)
    BY <2>1 DEF Request, Placed, Labels, Starts, FileSteps
  <2>3. requests' \in 0..MaxRequests /\ clock' \in Seconds
    BY <1>c, <2>1, BoundAssumption DEF Request
  <2>4. result' = [result EXCEPT ![c] = "none"] /\ UNCHANGED mutex
    BY <2>1 DEF Request
  <2>5. QED
    BY <2>2, <2>3, <2>4, PlacedTypes
<1>2. ASSUME NEW c \in Clients, Lookup(c)
      PROVE  ThreadTypes'
  <2>1. arg[c] \in Calls /\ arg[c].file \in Files /\ UNCHANGED <<mutex, clock, requests>>
    BY <1>2 DEF Lookup, TypeInv, ThreadTypes, FileSteps, Labels
  <2>2. CASE Hits(arg[c].file) = {}
    <3>1. Placed(c, "trie", arg[c]) /\ UNCHANGED result
      BY <1>2, <1>a, <1>b, <2>1, <2>2 DEF Lookup, Placed, TypeInv, ThreadTypes
    <3>2. QED
      BY <1>c, <2>1, <3>1, PlacedTypes
  <2>3. CASE Hits(arg[c].file) # {}
    <3> DEFINE k == Min(Hits(arg[c].file))
    <3>1. k \in Keys
      BY <2>3, CacheSlots DEF TypeInv, Hits
    <3>2. arg' = [arg EXCEPT ![c].key = k] /\ Goto(c, "hit") /\ UNCHANGED result
      BY <1>2, <2>3 DEF Lookup
    <3> HIDE DEF k
    <3>3. arg' = [arg EXCEPT ![c] = [arg[c] EXCEPT !.key = k]]
      BY <3>2
    <3>4. Placed(c, "hit", [arg[c] EXCEPT !.key = k])
      BY <1>a, <1>b, <2>1, <3>1, <3>2, <3>3, LocalsSet DEF Placed
    <3>5. QED
      BY <1>c, <2>1, <3>2, <3>4, PlacedTypes
  <2>4. QED
    BY <2>2, <2>3
<1>3. ASSUME NEW c \in Clients, Hit(c)
      PROVE  ThreadTypes'
  <2>1. arg[c] \in Calls /\ arg[c].file \in Files /\ UNCHANGED <<mutex, clock, requests>>
    BY <1>3 DEF Hit, TypeInv, ThreadTypes, FileSteps, Labels
  <2>2. cache[arg[c].key].ss \in Slots
    BY DEF TypeInv, ThreadTypes, Calls, IndexTypes, Entry
  <2>3. Found(c, cache[arg[c].key].ss)
    BY <1>3 DEF Hit
  <2>4. CASE arg[c].cmd = "CREATE"
    BY <2>1, <2>3, <2>4, AnsweredTypes DEF Found
  <2>5. CASE arg[c].cmd # "CREATE"
    <3>1. Continue(c, "resolve", [arg[c] EXCEPT !.slot = cache[arg[c].key].ss])
      BY <2>3, <2>5 DEF Found
    <3>2. QED
      BY <1>a, <1>b, <2>1, <2>2, <3>1, LocalsSet, ContinuedTypes
  <2>6. QED
    BY <2>4, <2>5
<1>4. ASSUME NEW c \in Clients, CacheAdd(c)
      PROVE  ThreadTypes'
  <2>1. arg[c] \in Calls /\ arg[c].file \in Files /\ UNCHANGED <<mutex, clock, requests>>
    BY <1>4 DEF CacheAdd, TypeInv, ThreadTypes, FileSteps, Labels
  <2>2. arg[c].slot \in Slots
    BY DEF TypeInv, ThreadTypes, Calls
  <2>3. Found(c, arg[c].slot)
    BY <1>4 DEF CacheAdd
  <2>4. CASE arg[c].cmd = "CREATE"
    BY <2>1, <2>3, <2>4, AnsweredTypes DEF Found
  <2>5. CASE arg[c].cmd # "CREATE"
    <3>1. Continue(c, "resolve", [arg[c] EXCEPT !.slot = arg[c].slot])
      BY <2>3, <2>5 DEF Found
    <3>2. QED
      BY <1>a, <1>b, <2>1, <2>2, <3>1, LocalsSet, ContinuedTypes
  <2>6. QED
    BY <2>4, <2>5
<1>5. ASSUME NEW c \in Clients, CheckPermission(c)
      PROVE  ThreadTypes'
  <2>1. arg[c] \in Calls /\ arg[c].file \in Files /\ UNCHANGED <<mutex, clock, requests>>
    BY <1>5 DEF CheckPermission, TypeInv, ThreadTypes, FileSteps, Labels
  <2>2. CASE Allowed(c, arg[c].file, arg[c].perm)
    <3>1. Continue(c, IF arg[c].cmd = "INFO" THEN "details" ELSE "lookup", arg[c])
      BY <1>5, <2>2 DEF CheckPermission
    <3>2. QED
      BY <1>a, <1>b, <2>1, <3>1, ContinuedTypes
  <2>3. CASE ~Allowed(c, arg[c].file, arg[c].perm)
    BY <1>5, <2>1, <2>3, AnsweredTypes DEF CheckPermission
  <2>4. QED
    BY <2>2, <2>3
<1>6. ASSUME NEW c \in Clients, FindInTrie(c)
      PROVE  ThreadTypes'
  <2>1. arg[c] \in Calls /\ arg[c].file \in Files /\ UNCHANGED <<mutex, clock, requests>>
    BY <1>6 DEF FindInTrie, TypeInv, ThreadTypes, FileSteps, Labels
  <2>2. CASE trie[arg[c].file] # None
    <3>1. trie[arg[c].file].ss \in Slots
      BY <2>1, <2>2 DEF TypeInv, IndexTypes, Record, Owns
    <3>2. Continue(c, "cacheadd", [arg[c] EXCEPT !.slot = trie[arg[c].file].ss])
      BY <1>6, <2>2 DEF FindInTrie
    <3>3. QED
      BY <1>a, <1>b, <2>1, <3>1, <3>2, LocalsSet, ContinuedTypes
  <2>3. CASE trie[arg[c].file] = None /\ arg[c].cmd = "CREATE"
    <3>1. Continue(c, "pick", arg[c])
      BY <1>6, <2>3 DEF FindInTrie
    <3>2. QED
      BY <1>a, <1>b, <2>1, <3>1, ContinuedTypes
  <2>4. CASE trie[arg[c].file] = None /\ arg[c].cmd # "CREATE"
    BY <1>6, <2>1, <2>4, AnsweredTypes DEF FindInTrie
  <2>5. QED
    BY <2>2, <2>3, <2>4
<1>7. ASSUME NEW c \in Clients, GetDetails(c)
      PROVE  ThreadTypes'
  <2>1. arg[c] \in Calls /\ arg[c].file \in Files /\ UNCHANGED <<mutex, clock, requests>>
    BY <1>7 DEF GetDetails, TypeInv, ThreadTypes, FileSteps, Labels
  <2>2. CASE trie[arg[c].file] # None
    <3>1. trie[arg[c].file].ss \in Slots
      BY <2>1, <2>2 DEF TypeInv, IndexTypes, Record, Owns
    <3>2. Continue(c, "resolve", [arg[c] EXCEPT !.slot = trie[arg[c].file].ss])
      BY <1>7, <2>2 DEF GetDetails
    <3>3. QED
      BY <1>a, <1>b, <2>1, <3>1, <3>2, LocalsSet, ContinuedTypes
  <2>3. CASE ~(trie[arg[c].file] # None)
    BY <1>7, <2>1, <2>3, AnsweredTypes DEF GetDetails
  <2>4. QED
    BY <2>2, <2>3
<1>8. ASSUME NEW c \in Clients, DeleteRecord(c)
      PROVE  ThreadTypes'
  <2>1. arg[c] \in Calls /\ arg[c].file \in Files /\ UNCHANGED <<mutex, clock, requests>>
    BY <1>8 DEF DeleteRecord, TypeInv, ThreadTypes, FileSteps, Labels
  <2>2. CASE Owns(c, arg[c].file)
    <3>1. trie[arg[c].file].ss \in Slots
      BY <2>1, <2>2 DEF TypeInv, IndexTypes, Record, Owns
    <3>2. Continue(c, "invalidate", [arg[c] EXCEPT !.slot = trie[arg[c].file].ss])
      BY <1>8, <2>2 DEF DeleteRecord
    <3>3. QED
      BY <1>a, <1>b, <2>1, <3>1, <3>2, LocalsSet, ContinuedTypes
  <2>3. CASE ~(Owns(c, arg[c].file))
    BY <1>8, <2>1, <2>3, AnsweredTypes DEF DeleteRecord
  <2>4. QED
    BY <2>2, <2>3
<1>9. ASSUME NEW c \in Clients, InvalidateEntry(c)
      PROVE  ThreadTypes'
  <2>1. arg[c] \in Calls /\ arg[c].file \in Files /\ UNCHANGED <<mutex, clock, requests>>
    BY <1>9 DEF InvalidateEntry, TypeInv, ThreadTypes, FileSteps, Labels
  <2>2. Continue(c, "resolve", arg[c])
    BY <1>9 DEF InvalidateEntry
  <2>3. QED
    BY <1>a, <1>b, <2>1, <2>2, ContinuedTypes
<1>10. ASSUME NEW c \in Clients, SetFolder(c)
      PROVE  ThreadTypes'
  <2>1. arg[c] \in Calls /\ arg[c].file \in Files /\ UNCHANGED <<mutex, clock, requests>>
    BY <1>10 DEF SetFolder, TypeInv, ThreadTypes, FileSteps, Labels
  <2>2. CASE Owns(c, arg[c].file)
    <3>1. trie[arg[c].file].ss \in Slots
      BY <2>1, <2>2 DEF TypeInv, IndexTypes, Record, Owns
    <3>2. Continue(c, "resolve", [arg[c] EXCEPT !.slot = trie[arg[c].file].ss])
      BY <1>10, <2>2 DEF SetFolder
    <3>3. QED
      BY <1>a, <1>b, <2>1, <3>1, <3>2, LocalsSet, ContinuedTypes
  <2>3. CASE ~(Owns(c, arg[c].file))
    BY <1>10, <2>1, <2>3, AnsweredTypes DEF SetFolder
  <2>4. QED
    BY <2>2, <2>3
<1>11. ASSUME NEW c \in Clients, Grant(c)
      PROVE  ThreadTypes'
  <2>1. arg[c] \in Calls /\ arg[c].file \in Files /\ UNCHANGED <<mutex, clock, requests>>
    BY <1>11 DEF Grant, TypeInv, ThreadTypes, FileSteps, Labels
  <2>2. Continue(c, "lookup", arg[c]) \/ Answer(c, "error")
    BY <1>11 DEF Grant
  <2>3. QED
    BY <1>a, <1>b, <2>1, <2>2, ContinuedTypes, AnsweredTypes
<1>12. ASSUME NEW c \in Clients, AddFile(c)
      PROVE  ThreadTypes'
  <2>1. arg[c] \in Calls /\ arg[c].file \in Files /\ UNCHANGED <<mutex, clock, requests>>
    BY <1>12 DEF AddFile, TypeInv, ThreadTypes, FileSteps, Labels
  <2>2. Continue(c, "owner", arg[c])
    BY <1>12 DEF AddFile
  <2>3. QED
    BY <1>a, <1>b, <2>1, <2>2, ContinuedTypes
<1>13. ASSUME NEW c \in Clients, PickServer(c)
      PROVE  ThreadTypes'
  <2>1. arg[c] \in Calls /\ arg[c].file \in Files /\ UNCHANGED <<mutex, clock, requests>>
    BY <1>13 DEF PickServer, TypeInv, ThreadTypes, FileSteps, Labels
  <2>2. CASE Active = {}
    BY <1>13, <2>1, <2>2, AnsweredTypes DEF PickServer
  <2>3. CASE Active # {}
    <3> DEFINE i == (nextSS + Min({d \in Slots : registry[(nextSS + d) % MaxServers] # None}))
                      % MaxServers
    <3>1. i \in Slots
      BY <2>3, RoundRobin DEF TypeInv
    <3>2. Continue(c, "send", [arg[c] EXCEPT !.slot = i])
      BY <1>13, <2>3 DEF PickServer
    <3> HIDE DEF i
    <3>3. QED
      BY <1>a, <1>b, <2>1, <3>1, <3>2, LocalsSet, ContinuedTypes
  <2>4. QED
    BY <2>2, <2>3
<1>14. ASSUME NEW c \in Clients, Resolve(c)
      PROVE  ThreadTypes'
  <2>1. arg[c] \in Calls /\ arg[c].file \in Files /\ UNCHANGED <<mutex, clock, requests>>
    BY <1>14 DEF Resolve, TypeInv, ThreadTypes, FileSteps, Labels
  <2>2. \/ \E v \in {"ok", "error"} : Answer(c, v)
        \/ Continue(c, "send", [arg[c] EXCEPT !.sock = registry[arg[c].slot]])
    BY <1>14 DEF Resolve
  <2>3. registry[arg[c].slot] \in Conns \cup {None}
    BY <2>1 DEF Calls, TypeInv, IndexTypes
  <2>4. CASE \E v \in {"ok", "error"} : Answer(c, v)
    BY <2>1, <2>4, AnsweredTypes
  <2>5. CASE Continue(c, "send", [arg[c] EXCEPT !.sock = registry[arg[c].slot]])
    BY <1>a, <1>b, <2>1, <2>3, <2>5, LocalsSet, ContinuedTypes
  <2>6. QED
    BY <2>2, <2>4, <2>5
<1>15. ASSUME NEW c \in Clients, FindReported(c)
      PROVE  ThreadTypes'
  <2>1. arg[c] \in Calls /\ result[c] \in {"none", "ok", "error"}
        /\ UNCHANGED <<mutex, clock, requests>>
    BY <1>15 DEF FindReported, TypeInv, ThreadTypes
  <2> DEFINE at == {i \in Active : server[registry[i]] = arg[c].user}
  <2>2. CASE at = {}
    BY <1>15, <2>1, <2>2, AnsweredTypes DEF FindReported
  <2>3. CASE at # {}
    <3> DEFINE k == registry[Min(at)]
    <3>1. Min(at) \in Slots
      BY <2>3, Ranges, LeastElement DEF Active
    <3>2. k \in Conns \cup {None}
      BY <3>1 DEF TypeInv, IndexTypes
    <3>3. /\ Goto(c, "remove") /\ arg' = [arg EXCEPT ![c].sock = k]
          /\ result' = [result EXCEPT ![c] = "ok"]
      BY <1>15, <2>3 DEF FindReported
    <3> HIDE DEF k
    <3>4. arg' = [arg EXCEPT ![c] = [arg[c] EXCEPT !.sock = k]]
      BY <3>3
    <3>5. Placed(c, "remove", [arg[c] EXCEPT !.sock = k])
      BY <1>a, <2>1, <3>2, <3>3, <3>4, LocalsSet DEF Placed, Labels
    <3>6. QED
      BY <1>c, <2>1, <3>3, <3>5, PlacedTypes
  <2>4. QED
    BY <2>2, <2>3
<1>16. ASSUME NEW c \in Clients, RemoveServer(c)
      PROVE  ThreadTypes'
  <2>1. arg[c] \in Calls /\ result[c] \in {"none", "ok", "error"}
        /\ UNCHANGED <<mutex, clock, requests>>
    BY <1>16 DEF RemoveServer, TypeInv, ThreadTypes
  <2> DEFINE fd == IF arg[c].cmd \in {"CREATE", "DELETE"} THEN registry[arg[c].slot] ELSE arg[c].sock
             at == {i \in Active : registry[i] = fd}
  <2>2. CASE at = {}
    BY <1>16, <2>1, <2>2, AnsweredTypes DEF RemoveServer
  <2>3. CASE at # {}
    <3>1. Min(at) \in Slots
      BY <2>3, Ranges, LeastElement DEF Active
    <3>2. Continue(c, "purge", [arg[c] EXCEPT !.slot = Min(at)])
      BY <1>16, <2>3 DEF RemoveServer
    <3> HIDE DEF at
    <3>3. QED
      BY <1>a, <2>1, <3>1, <3>2, LocalsSet, ContinuedTypes DEF Labels
  <2>4. QED
    BY <2>2, <2>3
<1>17. ASSUME NEW c \in Clients, Purge(c)
      PROVE  ThreadTypes'
  <2>1. arg[c] \in Calls /\ result[c] \in {"none", "ok", "error"}
        /\ UNCHANGED <<mutex, clock, requests>>
    BY <1>17 DEF Purge, TypeInv, ThreadTypes
  <2>2. QED
    BY <1>17, <2>1, AnsweredTypes DEF Purge
<1>18. ASSUME NEW c \in Clients, Send(c)
      PROVE  ThreadTypes'
  <2>1. arg[c] \in Calls /\ arg[c].file \in Files /\ arg[c].slot \in Slots
        /\ arg[c].sock \in Conns \cup {None} /\ registry[arg[c].slot] \in Conns \cup {None}
        /\ UNCHANGED <<clock, requests>>
    BY <1>18 DEF Send, TypeInv, ThreadTypes, IndexTypes, FileSteps, Labels, Calls
  <2> DEFINE k == Socket(c)
  <2>2. k \in Conns \cup {None}
    BY <2>1 DEF Socket
  <2>3. /\ Continue(c, IF arg[c].cmd \in Captured THEN "recv" ELSE "wait", [arg[c] EXCEPT !.sock = k])
        /\ mutex' = [mutex EXCEPT ![arg[c].slot] = c]
    BY <1>18 DEF Send
  <2> HIDE DEF k
  <2>4. QED
    BY <1>a, <1>b, <2>1, <2>2, <2>3, LocalsSet, ContinuedTypes
<1>19. ASSUME NEW c \in Clients, SendFails(c)
      PROVE  ThreadTypes'
  <2>1. arg[c] \in Calls /\ arg[c].file \in Files /\ arg[c].slot \in Slots
        /\ arg[c].sock \in Conns \cup {None} /\ registry[arg[c].slot] \in Conns \cup {None}
        /\ UNCHANGED <<clock, requests>>
    BY <1>19 DEF SendFails, TypeInv, ThreadTypes, IndexTypes, FileSteps, Labels, Calls
  <2> DEFINE k == Socket(c)
  <2>2. k \in Conns \cup {None}
    BY <2>1 DEF Socket
  <2>3. /\ Goto(c, "remove") /\ arg' = [arg EXCEPT ![c].sock = k] /\ UNCHANGED mutex
        /\ \E v \in {"none", "ok", "error"} : result' = [result EXCEPT ![c] = v]
    BY <1>19 DEF SendFails
  <2> HIDE DEF k
  <2>4. arg' = [arg EXCEPT ![c] = [arg[c] EXCEPT !.sock = k]]
    BY <2>3
  <2>5. Placed(c, "remove", [arg[c] EXCEPT !.sock = k])
    BY <1>a, <2>1, <2>2, <2>3, <2>4, LocalsSet DEF Placed, Labels
  <2>6. QED
    BY <1>c, <2>1, <2>3, <2>5, PlacedTypes
<1>20. ASSUME NEW c \in Clients, Wait(c)
      PROVE  ThreadTypes'
  <2>1. arg[c] \in Calls /\ arg[c].file \in Files /\ arg[c].slot \in Slots
        /\ arg[c].sock \in Conns \cup {None} /\ registry[arg[c].slot] \in Conns \cup {None}
        /\ UNCHANGED <<clock, requests>>
    BY <1>20 DEF Wait, TypeInv, ThreadTypes, IndexTypes, FileSteps, Labels, Calls
  <2>2. Continue(c, "recv", [arg[c] EXCEPT !.sock = registry[arg[c].slot]]) /\ UNCHANGED mutex
    BY <1>20 DEF Wait
  <2>3. QED
    BY <1>a, <1>b, <2>1, <2>2, LocalsSet, ContinuedTypes
<1>21. ASSUME NEW c \in Clients, Receive(c)
      PROVE  ThreadTypes'
  <2>1. arg[c] \in Calls /\ arg[c].file \in Files /\ arg[c].slot \in Slots
        /\ arg[c].sock \in Conns \cup {None} /\ registry[arg[c].slot] \in Conns \cup {None}
        /\ UNCHANGED <<clock, requests>>
    BY <1>21 DEF Receive, TypeInv, ThreadTypes, IndexTypes, FileSteps, Labels, Calls
  <2>2. \E i \in Slots, d \in Clients \cup {None} : mutex' = [mutex EXCEPT ![i] = d]
    BY <1>21, <2>1 DEF Receive, Unlock
  <2>3. \/ Continue(c, "add", arg[c])
        \/ Goto(c, "remove") /\ result' = [result EXCEPT ![c] = "error"] /\ UNCHANGED arg
        \/ \E v \in {"ok", "error"} : Answer(c, v)
    BY <1>21 DEF Receive
  <2>4. CASE Continue(c, "add", arg[c])
    BY <1>a, <1>b, <2>1, <2>2, <2>4, ContinuedTypes
  <2>5. CASE Goto(c, "remove") /\ result' = [result EXCEPT ![c] = "error"] /\ UNCHANGED arg
    <3>1. Placed(c, "remove", arg[c])
      BY <1>a, <2>1, <2>5 DEF Placed, Labels, TypeInv, ThreadTypes
    <3>2. QED
      BY <1>c, <2>1, <2>2, <2>5, <3>1, PlacedTypes
  <2>6. CASE \E v \in {"ok", "error"} : Answer(c, v)
    BY <2>1, <2>2, <2>6, AnsweredTypes
  <2>7. QED
    BY <2>3, <2>4, <2>5, <2>6
<1>22. ASSUME NEW c \in Clients, ReceiveFails(c)
      PROVE  ThreadTypes'
  <2>1. arg[c] \in Calls /\ arg[c].file \in Files /\ arg[c].slot \in Slots
        /\ arg[c].sock \in Conns \cup {None} /\ registry[arg[c].slot] \in Conns \cup {None}
        /\ UNCHANGED <<clock, requests>>
    BY <1>22 DEF ReceiveFails, TypeInv, ThreadTypes, IndexTypes, FileSteps, Labels, Calls
  <2>2. \E i \in Slots, d \in Clients \cup {None} : mutex' = [mutex EXCEPT ![i] = d]
    BY <1>22, <2>1 DEF ReceiveFails, Unlock
  <2>3. \/ /\ Goto(c, "remove") /\ UNCHANGED arg
           /\ \E v \in {"none", "ok", "error"} : result' = [result EXCEPT ![c] = v]
        \/ \E v \in {"ok", "error"} : Answer(c, v)
    BY <1>22 DEF ReceiveFails
  <2>4. CASE /\ Goto(c, "remove") /\ UNCHANGED arg
             /\ \E v \in {"none", "ok", "error"} : result' = [result EXCEPT ![c] = v]
    <3>1. Placed(c, "remove", arg[c])
      BY <1>a, <2>1, <2>4 DEF Placed, Labels, TypeInv, ThreadTypes
    <3>2. QED
      BY <1>c, <2>1, <2>2, <2>4, <3>1, PlacedTypes
  <2>5. CASE \E v \in {"ok", "error"} : Answer(c, v)
    BY <2>1, <2>2, <2>5, AnsweredTypes
  <2>6. QED
    BY <2>3, <2>4, <2>5
<1>23. ASSUME NEW c \in Clients, SendOwner(c)
      PROVE  ThreadTypes'
  <2>1. arg[c] \in Calls /\ arg[c].file \in Files /\ arg[c].slot \in Slots
        /\ arg[c].sock \in Conns \cup {None} /\ registry[arg[c].slot] \in Conns \cup {None}
        /\ UNCHANGED <<clock, requests>>
    BY <1>23 DEF SendOwner, TypeInv, ThreadTypes, IndexTypes, FileSteps, Labels, Calls
  <2>2. Answer(c, "ok") /\ UNCHANGED mutex
    BY <1>23 DEF SendOwner
  <2>3. QED
    BY <2>1, <2>2, AnsweredTypes
<1>24. ASSUME NEW k \in Conns,
             \/ Register(k) \/ RegisterAck(k) \/ RegisterAckAgain(k) \/ SyncFile(k)
             \/ SyncEnds(k) \/ SyncFails(k) \/ RegisterRemove(k) \/ RegisterPurge(k)
             \/ Hello(k) \/ LoseNameServer(k) \/ Crash(k)
      PROVE  ThreadTypes'
  BY <1>24, <1>0 DEF Register, RegisterAck, RegisterAckAgain, SyncFile, SyncEnds,
     SyncFails, RegisterRemove, RegisterPurge, Hello, LoseNameServer, Crash, vars,
     nsVars, regVars, netVars, threads
<1>25. ASSUME NEW k \in Conns, Served(k)
      PROVE  ThreadTypes'
  BY <1>25, <1>0 DEF Served, Serve, vars, nsVars, regVars, netVars, threads
<1>26. ASSUME NEW s \in Servers, Connect(s)
      PROVE  ThreadTypes'
  BY <1>26, <1>0 DEF Connect, vars, nsVars, regVars, netVars, threads
<1>27. ASSUME Tick
      PROVE  ThreadTypes'
  <2>1. clock' \in Seconds
    BY <1>27, <1>c, BoundAssumption DEF Tick, Seconds
  <2>2. QED
    BY <1>27, <2>1 DEF Tick, TypeInv, ThreadTypes
<1>28. ASSUME UNCHANGED vars
      PROVE  ThreadTypes'
  BY <1>28, <1>0 DEF vars, nsVars, regVars, netVars, threads
<1>s. ASSUME Kills PROVE ThreadTypes'
  <2>1. /\ pc' = [c \in Clients |-> "gone"] /\ arg' = [c \in Clients |-> NoCall]
        /\ mutex' = [i \in Slots |-> None] /\ UNCHANGED <<clock, result, requests>>
    BY <1>s, KillForm DEF Kill
  <2>2. QED
    BY <2>1, NoLocals DEF TypeInv, ThreadTypes, FileSteps, Labels
<1>29. QED
  BY <1>1, <1>2, <1>3, <1>4, <1>5, <1>6, <1>7, <1>8, <1>9, <1>10, <1>11, <1>12, <1>13,
     <1>14, <1>15, <1>16, <1>17, <1>18, <1>19, <1>20, <1>21, <1>22, <1>23, <1>24,
     <1>25, <1>26, <1>27, <1>28, <1>s, RequestStarts, ServeForms
  DEF Next, ClientThread, RegistrationThread, ServerThread, Kills

\* The registration threads and the connections keep their types, and a server that runs
\* is known.
LEMMA RegTypesStep ==
  ASSUME TypeInv, [Next]_vars
  PROVE  RegTypes'
<1>0. ASSUME UNCHANGED <<regVars, server, ssPc, closed>>, reset' \subseteq Conns PROVE RegTypes'
  BY <1>0 DEF regVars, TypeInv, RegTypes, Up
<1>r. ASSUME UNCHANGED reset PROVE reset' \subseteq Conns
  BY <1>r DEF TypeInv, RegTypes
<1>p. ASSUME NEW k, NEW m, Post(k, m) PROVE reset' \subseteq Conns
  BY <1>p DEF Post, Open, TypeInv, RegTypes
<1>e. ASSUME NEW k \in Conns, NEW unread, Exit(k, unread) PROVE reset' \subseteq Conns
  BY <1>e DEF Exit, TypeInv, RegTypes
<1>1. ASSUME NEW c \in Clients, Begun(c)
      PROVE  RegTypes'
  BY <1>1, <1>0, <1>r DEF Begun, Request, vars, nsVars, regVars, netVars, threads
<1>2. ASSUME NEW c \in Clients,
             \/ Lookup(c) \/ Hit(c) \/ CacheAdd(c) \/ CheckPermission(c) \/ FindInTrie(c)
             \/ GetDetails(c) \/ DeleteRecord(c) \/ InvalidateEntry(c) \/ SetFolder(c)
             \/ Grant(c) \/ AddFile(c) \/ PickServer(c) \/ Resolve(c) \/ FindReported(c)
             \/ RemoveServer(c) \/ Purge(c) \/ SendFails(c) \/ Wait(c)
             \/ Receive(c) \/ ReceiveFails(c)
      PROVE  RegTypes'
  BY <1>2, <1>0, <1>r DEF Lookup, Hit, CacheAdd, CheckPermission, FindInTrie, GetDetails,
     DeleteRecord, InvalidateEntry, SetFolder, Grant, AddFile, PickServer, Resolve,
     FindReported, RemoveServer, Purge, SendFails, Wait, Receive, ReceiveFails, vars,
     nsVars, regVars, netVars, threads
<1>2a. ASSUME NEW c \in Clients, Send(c) \/ SendOwner(c)
      PROVE  RegTypes'
  BY <1>2a, <1>0, <1>p DEF Send, SendOwner, regVars
<1>3. ASSUME NEW k \in Conns, Register(k)
      PROVE  RegTypes'
  <2>1. Slots \ Active # {} => Min(Slots \ Active) \in Slots
    BY Ranges, LeastElement
  <2>2. UNCHANGED <<server, ssPc, reset>>
    BY <1>3 DEF Register
  <2>3. regPc' \in [Conns -> {"register", "ack", "ack2", "sync", "remove", "purge", "done",
                           "gone"}]
        /\ closed' \subseteq Conns
    BY <1>3 DEF Register, RegGoto, TypeInv, RegTypes
  <2>4. regSlot' \in [Conns -> Slots]
    BY <1>3, <2>1 DEF Register, TypeInv, RegTypes
  <2>5. QED
    BY <2>2, <2>3, <2>4 DEF TypeInv, RegTypes, Up
<1>4. ASSUME NEW k \in Conns, RegisterAck(k)
      PROVE  RegTypes'
  BY <1>4, <1>p, <1>r DEF RegisterAck, RegGoto, TypeInv, RegTypes, IndexTypes, Up
<1>5. ASSUME NEW k \in Conns, RegisterAckAgain(k)
      PROVE  RegTypes'
  BY <1>5, <1>p, <1>r DEF RegisterAckAgain, RegGoto, TypeInv, RegTypes, IndexTypes, Up
<1>6. ASSUME NEW k \in Conns, SyncEnds(k)
      PROVE  RegTypes'
  BY <1>6 DEF SyncEnds, RegGoto, TypeInv, RegTypes, IndexTypes, Up
<1>7. ASSUME NEW k \in Conns, SyncFails(k)
      PROVE  RegTypes'
  BY <1>7 DEF SyncFails, RegGoto, TypeInv, RegTypes, Up, netVars
<1>8. ASSUME NEW k \in Conns, RegisterRemove(k)
      PROVE  RegTypes'
  <2> DEFINE at == {i \in Slots : registry[i] = k}
  <2>1. at # {} => Min(at) \in Slots
    BY Ranges, LeastElement
  <2>2. UNCHANGED <<server, ssPc, reset>>
    BY <1>8 DEF RegisterRemove
  <2>3. regPc' \in [Conns -> {"register", "ack", "ack2", "sync", "remove", "purge", "done",
                           "gone"}]
        /\ closed' \subseteq Conns
    BY <1>8 DEF RegisterRemove, RegGoto, TypeInv, RegTypes
  <2>4. regSlot' \in [Conns -> Slots]
    BY <1>8, <2>1 DEF RegisterRemove, TypeInv, RegTypes
  <2>5. QED
    BY <2>2, <2>3, <2>4 DEF TypeInv, RegTypes, Up
<1>9. ASSUME NEW k \in Conns, RegisterPurge(k)
      PROVE  RegTypes'
  BY <1>9 DEF RegisterPurge, PurgeSlot, RegGoto, TypeInv, RegTypes, IndexTypes, Up
<1>10. ASSUME NEW k \in Conns, Hello(k)
      PROVE  RegTypes'
  BY <1>10 DEF Hello, Exit, Respond, Read, TypeInv, RegTypes, Up, regVars
<1>11. ASSUME NEW k \in Conns, LoseNameServer(k)
      PROVE  RegTypes'
  BY <1>11 DEF LoseNameServer, Exit, TypeInv, RegTypes, Up, regVars
<1>12. ASSUME NEW k \in Conns, Crash(k)
      PROVE  RegTypes'
  BY <1>12 DEF Crash, Exit, TypeInv, RegTypes, Up, regVars
<1>13. ASSUME NEW k \in Conns,
             \/ SyncFile(k)
      PROVE  RegTypes'
  BY <1>13, <1>0, <1>r DEF SyncFile, vars, nsVars, regVars, netVars, threads
<1>14. ASSUME NEW k \in Conns, Served(k)
      PROVE  RegTypes'
  BY <1>14, <1>0, <1>r DEF Served, Serve, vars, nsVars, regVars, netVars, threads
<1>15. ASSUME NEW s \in Servers, Connect(s)
      PROVE  RegTypes'
  BY <1>15 DEF Connect, TypeInv, RegTypes, IndexTypes, Up
<1>16. ASSUME Tick
      PROVE  RegTypes'
  BY <1>16, <1>0, <1>r DEF Tick, vars, nsVars, regVars, netVars, threads
<1>17. ASSUME UNCHANGED vars
      PROVE  RegTypes'
  BY <1>17, <1>0, <1>r DEF vars, nsVars, regVars, netVars, threads
<1>s. ASSUME Kills PROVE RegTypes'
  <2>1. /\ regPc' = [k \in Conns |-> "gone"] /\ closed' = Conns
        /\ UNCHANGED <<regSlot, server, ssPc, reset>>
    BY <1>s, KillForm DEF Kill
  <2>2. QED
    BY <2>1 DEF TypeInv, RegTypes, Up
<1>18. QED
  BY <1>1, <1>2, <1>2a, <1>3, <1>4, <1>5, <1>6, <1>7, <1>8, <1>9, <1>10, <1>11, <1>12, <1>13,
     <1>14, <1>15, <1>16, <1>17, <1>s, RequestStarts, ServeForms
  DEF Next, ClientThread, RegistrationThread, ServerThread, Kills

\* The file tables keep their types.
LEMMA DiskTypesStep ==
  ASSUME TypeInv, [Next]_vars
  PROVE  DiskTypes'
<1>0. ASSUME UNCHANGED disk PROVE DiskTypes'
  BY <1>0 DEF TypeInv, DiskTypes
<1>1. ASSUME NEW c \in Clients, Begun(c)
      PROVE  DiskTypes'
  BY <1>1, <1>0 DEF Begun, Request, vars, nsVars, regVars, netVars, threads
<1>2. ASSUME NEW c \in Clients,
             \/ Lookup(c) \/ Hit(c) \/ CacheAdd(c) \/ CheckPermission(c) \/ FindInTrie(c)
             \/ GetDetails(c) \/ DeleteRecord(c) \/ InvalidateEntry(c) \/ SetFolder(c)
             \/ Grant(c) \/ AddFile(c) \/ PickServer(c) \/ Resolve(c) \/ FindReported(c)
             \/ RemoveServer(c) \/ Purge(c) \/ Send(c) \/ SendFails(c) \/ Wait(c)
             \/ Receive(c) \/ ReceiveFails(c) \/ SendOwner(c)
      PROVE  DiskTypes'
  BY <1>2, <1>0 DEF Lookup, Hit, CacheAdd, CheckPermission, FindInTrie, GetDetails,
     DeleteRecord, InvalidateEntry, SetFolder, Grant, AddFile, PickServer, Resolve,
     FindReported, RemoveServer, Purge, Send, SendFails, Wait, Receive, ReceiveFails,
     SendOwner, vars, nsVars, regVars, netVars, threads
<1>3. ASSUME NEW k \in Conns,
             \/ Register(k) \/ RegisterAck(k) \/ RegisterAckAgain(k) \/ SyncFile(k)
             \/ SyncEnds(k) \/ SyncFails(k) \/ RegisterRemove(k) \/ RegisterPurge(k)
             \/ Hello(k) \/ LoseNameServer(k) \/ Crash(k)
      PROVE  DiskTypes'
  BY <1>3, <1>0 DEF Register, RegisterAck, RegisterAckAgain, SyncFile, SyncEnds,
     SyncFails, RegisterRemove, RegisterPurge, Hello, LoseNameServer, Crash, vars,
     nsVars, regVars, netVars, threads
<1>4. ASSUME NEW k \in Conns, Served(k)
      PROVE  DiskTypes'
  BY <1>4 DEF Served, Serve, Read, Respond, TypeInv, RegTypes, DiskTypes, Up
<1>5. ASSUME NEW s \in Servers, Connect(s)
      PROVE  DiskTypes'
  BY <1>5, <1>0 DEF Connect, vars, nsVars, regVars, netVars, threads
<1>6. ASSUME Tick
      PROVE  DiskTypes'
  BY <1>6, <1>0 DEF Tick, vars, nsVars, regVars, netVars, threads
<1>7. ASSUME UNCHANGED vars
      PROVE  DiskTypes'
  BY <1>7, <1>0 DEF vars, nsVars, regVars, netVars, threads
<1>s. ASSUME Kills PROVE DiskTypes'
  BY <1>s, <1>0, KillForm DEF Kill
<1>8. QED
  BY <1>1, <1>2, <1>3, <1>4, <1>5, <1>6, <1>7, <1>s, RequestStarts, ServeForms
  DEF Next, ClientThread, RegistrationThread, ServerThread, Kills

\* A send that reaches the server is behind what was sent before.
LEMMA PostTypes ==
  ASSUME TypeInv, NEW k, NEW m \in Orders, Post(k, m)
  PROVE  toSS' \in [Conns -> Seq(Orders)]
<1>1. CASE k \in Healthy
  <2>1. k \in Conns /\ toSS[k] \in Seq(Orders) /\ toSS \in [Conns -> Seq(Orders)]
    BY <1>1 DEF Healthy, Open, TypeInv, NetTypes
  <2>2. Append(toSS[k], m) \in Seq(Orders)
    BY <2>1, AppendProperties
  <2>3. toSS' = [toSS EXCEPT ![k] = Append(toSS[k], m)]
    BY <1>1 DEF Post
  <2>4. QED
    BY <2>1, <2>2, <2>3
<1>2. CASE k \notin Healthy
  BY <1>2 DEF Post, TypeInv, NetTypes
<1>3. QED
  BY <1>1, <1>2

\* What a client thread sends.
LEMMA OrderTypes ==
  ASSUME TypeInv, NEW c \in Clients, pc[c] \in FileSteps
  PROVE  ToServer(c) \in Orders /\ Order("OWNER", c, arg[c].file, c, 0) \in Orders
<1>1. arg[c] \in Calls /\ arg[c].file \in Files
  BY DEF TypeInv, ThreadTypes
<1>2. "OWNER" \notin Operations /\ 0 \in Perms
  BY DEF Operations, Perms, PERM_WRITE
<1>3. ToServer(c) \in Orders
  BY <1>1, <1>2 DEF ToServer, Order, Orders, Calls
<1>4. Order("OWNER", c, arg[c].file, c, 0) \in Orders
  BY <1>1, <1>2 DEF Order, Orders
<1>5. QED
  BY <1>3, <1>4

\* The list a storage server registers with: records of its file_table.
LEMMA FileListTypes ==
  ASSUME TypeInv, NEW s \in Servers
  PROVE  FileList(s) \in Seq(Replies)
<1> DEFINE present == {f \in Files : disk[s][f] # None}
           names   == SetToSeq(present)
           n       == Len(names)
           item(i) == IF i = 2 * n + 1 THEN Reply("COMPLETE", None, None, NoMeta)
                      ELSE IF i % 2 = 1 THEN Reply("FILE", None, None, NoMeta)
                      ELSE Reply("PAYLOAD", None, names[i \div 2], disk[s][names[i \div 2]])
<1>1. IsFiniteSet(present)
  BY FilesAssumption, FS_Subset
<1>2. names \in Seq(present)
  BY <1>1, SetAsList
<1> HIDE DEF names, present
<1>3. n \in Nat /\ \A j \in 1..n : names[j] \in present
  BY <1>2, ElementOfSeq
<1>4. \A f \in present : f \in Files /\ disk[s][f] \in Meta
  BY DEF TypeInv, DiskTypes, present
<1>5. NoMeta \in Meta
  BY DEF NoMeta, NoAcl, Meta, Acl, Perms, PERM_WRITE
<1>6. FileList(s) = [i \in 1..(2 * n + 1) |-> item(i)]
  BY DEF FileList, names, present
<1> HIDE DEF n
<1>7. ASSUME NEW i \in 1..(2 * n + 1) PROVE item(i) \in Replies
  <2>1. CASE i = 2 * n + 1 \/ i % 2 = 1
    BY <1>5, <2>1 DEF Reply, Replies, ReplyTypes
  <2>2. CASE ~(i = 2 * n + 1 \/ i % 2 = 1)
    <3>1. i \div 2 \in 1..n
      BY <1>3, <2>2
    <3>2. names[i \div 2] \in Files /\ disk[s][names[i \div 2]] \in Meta
      BY <1>3, <1>4, <3>1
    <3>3. item(i) = Reply("PAYLOAD", None, names[i \div 2], disk[s][names[i \div 2]])
      BY <2>2
    <3>4. QED
      BY <3>2, <3>3 DEF Reply, Replies, ReplyTypes
  <2>3. QED
    BY <2>1, <2>2
<1> HIDE DEF item
<1>8. [i \in 1..(2 * n + 1) |-> item(i)] \in [1..(2 * n + 1) -> Replies]
  BY <1>7
<1>9. QED
  BY <1>3, <1>6, <1>8

\* The bytes in flight are messages.
LEMMA NetTypesStep ==
  ASSUME TypeInv, [Next]_vars
  PROVE  NetTypes'
<1>0. ASSUME UNCHANGED <<toSS, toNS>> PROVE NetTypes'
  BY <1>0 DEF TypeInv, NetTypes
<1>1. ASSUME NEW c \in Clients, Begun(c)
      PROVE  NetTypes'
  BY <1>1, <1>0 DEF Begun, Request, vars, nsVars, regVars, netVars, threads
<1>2. ASSUME NEW c \in Clients, Send(c)
      PROVE  NetTypes'
  <2>1. ToServer(c) \in Orders
    BY <1>2, OrderTypes DEF Send, FileSteps, Labels
  <2>2. Post(Socket(c), ToServer(c)) /\ UNCHANGED toNS
    BY <1>2 DEF Send
  <2>3. QED
    BY <2>1, <2>2, PostTypes DEF TypeInv, NetTypes
<1>3. ASSUME NEW c \in Clients, Receive(c)
      PROVE  NetTypes'
  <2> DEFINE k == arg[c].sock
  <2>1. k \in Conns /\ toNS[k] # <<>> /\ toNS[k] \in Seq(Replies)
    BY <1>3 DEF Receive, Readable, Open, TypeInv, NetTypes
  <2>2. toNS' = [toNS EXCEPT ![k] = Tail(toNS[k])] /\ UNCHANGED toSS
    BY <1>3 DEF Receive
  <2>3. Tail(toNS[k]) \in Seq(Replies)
    BY <2>1
  <2>4. QED
    BY <2>1, <2>2, <2>3 DEF TypeInv, NetTypes
<1>4. ASSUME NEW c \in Clients, SendOwner(c)
      PROVE  NetTypes'
  <2>1. Order("OWNER", c, arg[c].file, c, 0) \in Orders
    BY <1>4, OrderTypes DEF SendOwner, FileSteps, Labels
  <2>2. Post(registry[arg[c].slot], Order("OWNER", c, arg[c].file, c, 0)) /\ UNCHANGED toNS
    BY <1>4 DEF SendOwner
  <2>3. QED
    BY <2>1, <2>2, PostTypes DEF TypeInv, NetTypes
<1>5. ASSUME NEW c \in Clients,
             \/ Lookup(c) \/ Hit(c) \/ CacheAdd(c) \/ CheckPermission(c) \/ FindInTrie(c)
             \/ GetDetails(c) \/ DeleteRecord(c) \/ InvalidateEntry(c) \/ SetFolder(c)
             \/ Grant(c) \/ AddFile(c) \/ PickServer(c) \/ Resolve(c) \/ FindReported(c)
             \/ RemoveServer(c) \/ Purge(c) \/ SendFails(c) \/ Wait(c) \/ ReceiveFails(c)
      PROVE  NetTypes'
  BY <1>5, <1>0 DEF Lookup, Hit, CacheAdd, CheckPermission, FindInTrie, GetDetails,
     DeleteRecord, InvalidateEntry, SetFolder, Grant, AddFile, PickServer, Resolve,
     FindReported, RemoveServer, Purge, SendFails, Wait, ReceiveFails, vars, nsVars,
     regVars, netVars, threads
<1>6. ASSUME NEW k \in Conns, RegisterAck(k)
      PROVE  NetTypes'
  <2>1. Greeting \in Orders
    BY DEF Greeting, Order, Orders, Perms, PERM_WRITE
  <2>2. (Post(k, Greeting) \/ UNCHANGED toSS) /\ UNCHANGED toNS
    BY <1>6 DEF RegisterAck
  <2>3. QED
    BY <2>1, <2>2, PostTypes DEF TypeInv, NetTypes
<1>7. ASSUME NEW k \in Conns, RegisterAckAgain(k)
      PROVE  NetTypes'
  <2>1. Greeting \in Orders
    BY DEF Greeting, Order, Orders, Perms, PERM_WRITE
  <2>2. (Post(k, Greeting) \/ UNCHANGED toSS) /\ UNCHANGED toNS
    BY <1>7 DEF RegisterAckAgain
  <2>3. QED
    BY <2>1, <2>2, PostTypes DEF TypeInv, NetTypes
<1>8. ASSUME NEW k \in Conns, SyncFile(k)
      PROVE  NetTypes'
  <2>1. toNS[k] \in Seq(Replies) /\ Len(toNS[k]) >= 2
    BY <1>8 DEF SyncFile, Listing, TypeInv, NetTypes
  <2>a. toNS[k] # <<>>
    BY <2>1
  <2>b. Tail(toNS[k]) \in Seq(Replies) /\ Len(Tail(toNS[k])) = Len(toNS[k]) - 1
    BY <2>1, <2>a, HeadTailProperties
  <2>2. Tail(toNS[k]) \in Seq(Replies) /\ Tail(toNS[k]) # <<>>
    BY <2>1, <2>b
  <2>3. Tail(Tail(toNS[k])) \in Seq(Replies)
    BY <2>2
  <2>4. toNS' = [toNS EXCEPT ![k] = Tail(Tail(toNS[k]))] /\ UNCHANGED toSS
    BY <1>8 DEF SyncFile
  <2>5. QED
    BY <2>3, <2>4 DEF TypeInv, NetTypes
<1>9. ASSUME NEW k \in Conns, SyncEnds(k)
      PROVE  NetTypes'
  <2>1. toNS[k] \in Seq(Replies) /\ toNS[k] # <<>>
    BY <1>9 DEF SyncEnds, TypeInv, NetTypes
  <2>2. Tail(toNS[k]) \in Seq(Replies)
    BY <2>1
  <2>3. toNS' = [toNS EXCEPT ![k] = Tail(toNS[k])] /\ UNCHANGED toSS
    BY <1>9 DEF SyncEnds
  <2>4. QED
    BY <2>2, <2>3 DEF TypeInv, NetTypes
<1>10. ASSUME NEW k \in Conns, Hello(k)
      PROVE  NetTypes'
  <2>1. /\ toSS[k] \in Seq(Orders) /\ toSS[k] # <<>> /\ toNS[k] \in Seq(Replies)
        /\ toSS' = [toSS EXCEPT ![k] = Tail(toSS[k])]
    BY <1>10 DEF Hello, Read, TypeInv, NetTypes
  <2>2. Tail(toSS[k]) \in Seq(Orders)
    BY <2>1
  <2>3. toSS' \in [Conns -> Seq(Orders)]
    BY <2>1, <2>2 DEF TypeInv, NetTypes
  <2>4. FileList(server[k]) \in Seq(Replies)
    BY <1>10, FileListTypes DEF Hello, TypeInv, RegTypes, Up
  <2>5. toNS[k] \o FileList(server[k]) \in Seq(Replies)
    BY <2>1, <2>4, ConcatProperties
  <2>6. UNCHANGED toNS \/ toNS' = [toNS EXCEPT ![k] = toNS[k] \o FileList(server[k])]
    BY <1>10 DEF Hello, Respond
  <2>7. QED
    BY <2>3, <2>5, <2>6 DEF TypeInv, NetTypes
<1>11. ASSUME NEW k \in Conns, Crash(k)
      PROVE  NetTypes'
  <2>1. toSS' \in [Conns -> Seq(Orders)]
    BY <1>11 DEF Crash, TypeInv, NetTypes
  <2>2. PICK n \in 0..Len(toNS[k]) : toNS' = [toNS EXCEPT ![k] = SubSeq(toNS[k], 1, n)]
    BY <1>11 DEF Crash
  <2>3. toNS[k] \in Seq(Replies)
    BY DEF TypeInv, NetTypes
  <2>4. SubSeq(toNS[k], 1, n) \in Seq(Replies)
    BY <2>3
  <2>5. QED
    BY <2>1, <2>2, <2>4 DEF TypeInv, NetTypes
<1>12. ASSUME NEW k \in Conns,
             \/ Register(k) \/ SyncFails(k) \/ RegisterRemove(k) \/ RegisterPurge(k)
             \/ LoseNameServer(k)
      PROVE  NetTypes'
  BY <1>12, <1>0 DEF Register, SyncFails, RegisterRemove, RegisterPurge, LoseNameServer,
     vars, nsVars, regVars, netVars, threads
<1>13. ASSUME NEW k \in Conns, Served(k)
      PROVE  NetTypes'
  <2> DEFINE m == Head(toSS[k])
  <2>a. PICK type, dir, replies :
          Serve(k, type, dir, replies) /\ replies \in {<<>>, <<Expected(type)>>}
    BY <1>13 DEF Served
  <2> DEFINE new == [i \in DOMAIN replies |-> Reply(replies[i], m.for, m.file, NoMeta)]
  <2>1. /\ toSS[k] \in Seq(Orders) /\ toSS[k] # <<>> /\ toNS[k] \in Seq(Replies)
        /\ toSS' = [toSS EXCEPT ![k] = Tail(toSS[k])]
        /\ toNS' = [toNS EXCEPT ![k] = toNS[k] \o new]
    BY <2>a DEF Serve, Read, Respond, TypeInv, NetTypes
  <2>2. Tail(toSS[k]) \in Seq(Orders) /\ m \in Orders
    BY <2>1
  <2>3. toSS' \in [Conns -> Seq(Orders)]
    BY <2>1, <2>2 DEF TypeInv, NetTypes
  <2>4. Expected(type) \in ReplyTypes
    BY DEF Expected, ReplyTypes
  <2>5. NoMeta \in Meta
    BY DEF NoMeta, NoAcl, Meta, Acl, Perms, PERM_WRITE
  <2>6. \A t \in ReplyTypes : Reply(t, m.for, m.file, NoMeta) \in Replies
    BY <2>2, <2>5 DEF Reply, Replies, Orders
  <2>7. new \in Seq(Replies)
    <3>1. CASE replies = <<>>
      BY <3>1
    <3>2. CASE replies = <<Expected(type)>>
      <4>1. DOMAIN replies = 1..1 /\ replies[1] = Expected(type)
        BY <3>2
      <4>2. new \in [1..1 -> Replies]
        BY <4>1, <2>4, <2>6
      <4>3. QED
        BY <4>2
    <3>3. QED
      BY <2>a, <3>1, <3>2
  <2> HIDE DEF new
  <2>8. toNS[k] \o new \in Seq(Replies)
    BY <2>1, <2>7, ConcatProperties
  <2>9. QED
    BY <2>1, <2>3, <2>8 DEF TypeInv, NetTypes
<1>14. ASSUME NEW s \in Servers, Connect(s)
      PROVE  NetTypes'
  BY <1>14, <1>0 DEF Connect, vars, nsVars, regVars, netVars, threads
<1>15. ASSUME Tick
      PROVE  NetTypes'
  BY <1>15, <1>0 DEF Tick, vars, nsVars, regVars, netVars, threads
<1>16. ASSUME UNCHANGED vars
      PROVE  NetTypes'
  BY <1>16, <1>0 DEF vars, nsVars, regVars, netVars, threads
<1>s. ASSUME Kills PROVE NetTypes'
  BY <1>s, <1>0, KillForm DEF Kill
<1>17. QED
  BY <1>1, <1>2, <1>3, <1>4, <1>5, <1>6, <1>7, <1>8, <1>9, <1>10, <1>11, <1>12, <1>13,
     <1>14, <1>15, <1>16, <1>s, RequestStarts, ServeForms
  DEF Next, ClientThread, RegistrationThread, ServerThread, Kills

-----------------------------------------------------------------------------
(* The socket mutexes *)

\* A handler that neither locks nor unlocks stands outside the exchange before and after.
LEMMA MutexKept ==
  ASSUME TypeInv, MutexFollowsExchange, NEW c \in Clients, pc[c] \notin Speaking,
         pc'[c] \notin Speaking, UNCHANGED mutex,
         \A d \in Clients \ {c} : pc'[d] = pc[d] /\ arg'[d] = arg[d]
  PROVE  MutexFollowsExchange'
  BY DEF MutexFollowsExchange, Speaking

\* The lock is taken when the exchange begins.
LEMMA MutexTaken ==
  ASSUME TypeInv, MutexFollowsExchange, NEW c \in Clients, pc[c] \notin Speaking,
         mutex[arg[c].slot] = None, pc'[c] \in Speaking, arg'[c].slot = arg[c].slot,
         mutex' = [mutex EXCEPT ![arg[c].slot] = c],
         \A d \in Clients \ {c} : pc'[d] = pc[d] /\ arg'[d] = arg[d]
  PROVE  MutexFollowsExchange'
  BY Ranges DEF MutexFollowsExchange, Speaking, TypeInv, ThreadTypes, Calls

\* The lock is released when it ends.
LEMMA MutexReleased ==
  ASSUME TypeInv, MutexFollowsExchange, NEW c \in Clients, pc[c] \in Speaking,
         pc'[c] \notin Speaking, Unlock(c),
         \A d \in Clients \ {c} : pc'[d] = pc[d] /\ arg'[d] = arg[d]
  PROVE  MutexFollowsExchange'
<1> DEFINE s == arg[c].slot
<1>1. s \in Slots /\ mutex \in [Slots -> Clients \cup {None}] /\ mutex' = [mutex EXCEPT ![s] = None]
  BY DEF TypeInv, ThreadTypes, Calls, Unlock
<1>2. mutex[s] = c
  BY <1>1 DEF MutexFollowsExchange
<1>3. ASSUME NEW i \in Slots, NEW d \in Clients
      PROVE  mutex'[i] = d <=> pc'[d] \in Speaking /\ arg'[d].slot = i
  <2>1. mutex[i] = d <=> pc[d] \in Speaking /\ arg[d].slot = i
    BY DEF MutexFollowsExchange
  <2>2. CASE d = c
    BY <1>1, <2>1, <2>2, Ranges
  <2>3. CASE d # c
    BY <1>1, <1>2, <2>1, <2>3, Ranges
  <2>4. QED
    BY <2>2, <2>3
<1>4. QED
  BY <1>3 DEF MutexFollowsExchange, Speaking

\* Every path of every handler releases the mutex it took.
LEMMA MutexStep ==
  ASSUME TypeInv, MutexFollowsExchange, [Next]_vars
  PROVE  MutexFollowsExchange'
<1>0. ASSUME UNCHANGED <<pc, arg, mutex>> PROVE MutexFollowsExchange'
  BY <1>0 DEF MutexFollowsExchange, Speaking
<1>1. ASSUME NEW c \in Clients, Begun(c)
      PROVE  MutexFollowsExchange'
  <2>1. PICK name, call, label : Request(c, name, call, label) /\ label \in Starts
    BY <1>1 DEF Begun
  <2>2. /\ pc[c] \notin Speaking /\ pc'[c] \notin Speaking /\ UNCHANGED mutex
        /\ \A d \in Clients \ {c} : pc'[d] = pc[d] /\ arg'[d] = arg[d]
    BY <2>1 DEF Request, Goto, Starts, Speaking, TypeInv, ThreadTypes
  <2>3. QED
    BY <2>2, MutexKept
<1>2. ASSUME NEW c \in Clients, Lookup(c)
      PROVE  MutexFollowsExchange'
  <2>1. /\ pc[c] \notin Speaking /\ pc'[c] \notin Speaking /\ UNCHANGED mutex
        /\ \A d \in Clients \ {c} : pc'[d] = pc[d] /\ arg'[d] = arg[d]
    BY <1>2 DEF Lookup, Goto, Speaking, TypeInv, ThreadTypes
  <2>2. QED
    BY <2>1, MutexKept
<1>3. ASSUME NEW c \in Clients, Hit(c)
      PROVE  MutexFollowsExchange'
  <2>1. /\ pc[c] \notin Speaking /\ pc'[c] \notin Speaking /\ UNCHANGED mutex
        /\ \A d \in Clients \ {c} : pc'[d] = pc[d] /\ arg'[d] = arg[d]
    BY <1>3 DEF Hit, Found, Answer, Continue, Goto, Speaking, TypeInv, ThreadTypes
  <2>2. QED
    BY <2>1, MutexKept
<1>4. ASSUME NEW c \in Clients, CacheAdd(c)
      PROVE  MutexFollowsExchange'
  <2>1. /\ pc[c] \notin Speaking /\ pc'[c] \notin Speaking /\ UNCHANGED mutex
        /\ \A d \in Clients \ {c} : pc'[d] = pc[d] /\ arg'[d] = arg[d]
    BY <1>4 DEF CacheAdd, Found, Answer, Continue, Goto, Speaking, TypeInv, ThreadTypes
  <2>2. QED
    BY <2>1, MutexKept
<1>5. ASSUME NEW c \in Clients, CheckPermission(c)
      PROVE  MutexFollowsExchange'
  <2>1. /\ pc[c] \notin Speaking /\ pc'[c] \notin Speaking /\ UNCHANGED mutex
        /\ \A d \in Clients \ {c} : pc'[d] = pc[d] /\ arg'[d] = arg[d]
    BY <1>5 DEF CheckPermission, Answer, Continue, Goto, Speaking, TypeInv, ThreadTypes
  <2>2. QED
    BY <2>1, MutexKept
<1>6. ASSUME NEW c \in Clients, FindInTrie(c)
      PROVE  MutexFollowsExchange'
  <2>1. /\ pc[c] \notin Speaking /\ pc'[c] \notin Speaking /\ UNCHANGED mutex
        /\ \A d \in Clients \ {c} : pc'[d] = pc[d] /\ arg'[d] = arg[d]
    BY <1>6 DEF FindInTrie, Answer, Continue, Goto, Speaking, TypeInv, ThreadTypes
  <2>2. QED
    BY <2>1, MutexKept
<1>7. ASSUME NEW c \in Clients, GetDetails(c)
      PROVE  MutexFollowsExchange'
  <2>1. /\ pc[c] \notin Speaking /\ pc'[c] \notin Speaking /\ UNCHANGED mutex
        /\ \A d \in Clients \ {c} : pc'[d] = pc[d] /\ arg'[d] = arg[d]
    BY <1>7 DEF GetDetails, Answer, Continue, Goto, Speaking, TypeInv, ThreadTypes
  <2>2. QED
    BY <2>1, MutexKept
<1>8. ASSUME NEW c \in Clients, DeleteRecord(c)
      PROVE  MutexFollowsExchange'
  <2>1. /\ pc[c] \notin Speaking /\ pc'[c] \notin Speaking /\ UNCHANGED mutex
        /\ \A d \in Clients \ {c} : pc'[d] = pc[d] /\ arg'[d] = arg[d]
    BY <1>8 DEF DeleteRecord, Answer, Continue, Goto, Speaking, TypeInv, ThreadTypes
  <2>2. QED
    BY <2>1, MutexKept
<1>9. ASSUME NEW c \in Clients, InvalidateEntry(c)
      PROVE  MutexFollowsExchange'
  <2>1. /\ pc[c] \notin Speaking /\ pc'[c] \notin Speaking /\ UNCHANGED mutex
        /\ \A d \in Clients \ {c} : pc'[d] = pc[d] /\ arg'[d] = arg[d]
    BY <1>9 DEF InvalidateEntry, Continue, Goto, Speaking, TypeInv, ThreadTypes
  <2>2. QED
    BY <2>1, MutexKept
<1>10. ASSUME NEW c \in Clients, SetFolder(c)
      PROVE  MutexFollowsExchange'
  <2>1. /\ pc[c] \notin Speaking /\ pc'[c] \notin Speaking /\ UNCHANGED mutex
        /\ \A d \in Clients \ {c} : pc'[d] = pc[d] /\ arg'[d] = arg[d]
    BY <1>10 DEF SetFolder, Answer, Continue, Goto, Speaking, TypeInv, ThreadTypes
  <2>2. QED
    BY <2>1, MutexKept
<1>11. ASSUME NEW c \in Clients, Grant(c)
      PROVE  MutexFollowsExchange'
  <2>1. /\ pc[c] \notin Speaking /\ pc'[c] \notin Speaking /\ UNCHANGED mutex
        /\ \A d \in Clients \ {c} : pc'[d] = pc[d] /\ arg'[d] = arg[d]
    BY <1>11 DEF Grant, Answer, Continue, Goto, Speaking, TypeInv, ThreadTypes
  <2>2. QED
    BY <2>1, MutexKept
<1>12. ASSUME NEW c \in Clients, AddFile(c)
      PROVE  MutexFollowsExchange'
  <2>1. /\ pc[c] \notin Speaking /\ pc'[c] \notin Speaking /\ UNCHANGED mutex
        /\ \A d \in Clients \ {c} : pc'[d] = pc[d] /\ arg'[d] = arg[d]
    BY <1>12 DEF AddFile, Continue, Goto, Speaking, TypeInv, ThreadTypes
  <2>2. QED
    BY <2>1, MutexKept
<1>13. ASSUME NEW c \in Clients, PickServer(c)
      PROVE  MutexFollowsExchange'
  <2>1. /\ pc[c] \notin Speaking /\ pc'[c] \notin Speaking /\ UNCHANGED mutex
        /\ \A d \in Clients \ {c} : pc'[d] = pc[d] /\ arg'[d] = arg[d]
    BY <1>13 DEF PickServer, Answer, Continue, Goto, Speaking, TypeInv, ThreadTypes
  <2>2. QED
    BY <2>1, MutexKept
<1>14. ASSUME NEW c \in Clients, Resolve(c)
      PROVE  MutexFollowsExchange'
  <2>1. /\ pc[c] \notin Speaking /\ pc'[c] \notin Speaking /\ UNCHANGED mutex
        /\ \A d \in Clients \ {c} : pc'[d] = pc[d] /\ arg'[d] = arg[d]
    BY <1>14 DEF Resolve, Answer, Continue, Goto, Speaking, TypeInv, ThreadTypes
  <2>2. QED
    BY <2>1, MutexKept
<1>15. ASSUME NEW c \in Clients, FindReported(c)
      PROVE  MutexFollowsExchange'
  <2>1. /\ pc[c] \notin Speaking /\ pc'[c] \notin Speaking /\ UNCHANGED mutex
        /\ \A d \in Clients \ {c} : pc'[d] = pc[d] /\ arg'[d] = arg[d]
    BY <1>15 DEF FindReported, Answer, Goto, Speaking, TypeInv, ThreadTypes
  <2>2. QED
    BY <2>1, MutexKept
<1>16. ASSUME NEW c \in Clients, RemoveServer(c)
      PROVE  MutexFollowsExchange'
  <2>1. /\ pc[c] \notin Speaking /\ pc'[c] \notin Speaking /\ UNCHANGED mutex
        /\ \A d \in Clients \ {c} : pc'[d] = pc[d] /\ arg'[d] = arg[d]
    BY <1>16 DEF RemoveServer, Answer, Continue, Goto, Speaking, TypeInv, ThreadTypes
  <2>2. QED
    BY <2>1, MutexKept
<1>17. ASSUME NEW c \in Clients, Purge(c)
      PROVE  MutexFollowsExchange'
  <2>1. /\ pc[c] \notin Speaking /\ pc'[c] \notin Speaking /\ UNCHANGED mutex
        /\ \A d \in Clients \ {c} : pc'[d] = pc[d] /\ arg'[d] = arg[d]
    BY <1>17 DEF Purge, PurgeSlot, Answer, Goto, Speaking, TypeInv, ThreadTypes
  <2>2. QED
    BY <2>1, MutexKept
<1>18. ASSUME NEW c \in Clients, Send(c)
      PROVE  MutexFollowsExchange'
  <2>1. /\ pc[c] \notin Speaking /\ mutex[arg[c].slot] = None
        /\ mutex' = [mutex EXCEPT ![arg[c].slot] = c]
        /\ \A d \in Clients \ {c} : pc'[d] = pc[d] /\ arg'[d] = arg[d]
    BY <1>18 DEF Send, Continue, Goto, Speaking, TypeInv, ThreadTypes
  <2>2. pc'[c] \in Speaking /\ arg'[c].slot = arg[c].slot
    BY <1>18 DEF Send, Continue, Goto, Speaking, TypeInv, ThreadTypes, Calls
  <2>3. QED
    BY <2>1, <2>2, MutexTaken
<1>19. ASSUME NEW c \in Clients, SendFails(c)
      PROVE  MutexFollowsExchange'
  <2>1. /\ pc[c] \notin Speaking /\ pc'[c] \notin Speaking /\ UNCHANGED mutex
        /\ \A d \in Clients \ {c} : pc'[d] = pc[d] /\ arg'[d] = arg[d]
    BY <1>19 DEF SendFails, Goto, Speaking, TypeInv, ThreadTypes
  <2>2. QED
    BY <2>1, MutexKept
<1>20. ASSUME NEW c \in Clients, Wait(c)
      PROVE  MutexFollowsExchange'
  <2>1. /\ pc[c] = "wait" /\ pc'[c] = "recv" /\ UNCHANGED mutex /\ arg'[c].slot = arg[c].slot
        /\ \A d \in Clients \ {c} : pc'[d] = pc[d] /\ arg'[d] = arg[d]
    BY <1>20 DEF Wait, Continue, Goto, TypeInv, ThreadTypes, Calls
  <2>2. QED
    BY <2>1 DEF MutexFollowsExchange, Speaking
<1>21. ASSUME NEW c \in Clients, Receive(c)
      PROVE  MutexFollowsExchange'
  <2>1. pc[c] \in Speaking /\ Unlock(c)
    BY <1>21 DEF Receive, Speaking
  <2>2. /\ pc'[c] \notin Speaking
        /\ \A d \in Clients \ {c} : pc'[d] = pc[d] /\ arg'[d] = arg[d]
    BY <1>21 DEF Receive, Continue, Answer, Goto, Speaking, TypeInv, ThreadTypes
  <2>3. QED
    BY <2>1, <2>2, MutexReleased
<1>22. ASSUME NEW c \in Clients, ReceiveFails(c)
      PROVE  MutexFollowsExchange'
  <2>1. pc[c] \in Speaking /\ Unlock(c)
    BY <1>22 DEF ReceiveFails, Speaking
  <2>2. /\ pc'[c] \notin Speaking
        /\ \A d \in Clients \ {c} : pc'[d] = pc[d] /\ arg'[d] = arg[d]
    BY <1>22 DEF ReceiveFails, Continue, Answer, Goto, Speaking, TypeInv, ThreadTypes
  <2>3. QED
    BY <2>1, <2>2, MutexReleased
<1>23. ASSUME NEW c \in Clients, SendOwner(c)
      PROVE  MutexFollowsExchange'
  <2>1. /\ pc[c] \notin Speaking /\ pc'[c] \notin Speaking /\ UNCHANGED mutex
        /\ \A d \in Clients \ {c} : pc'[d] = pc[d] /\ arg'[d] = arg[d]
    BY <1>23 DEF SendOwner, Post, Answer, Goto, Speaking, TypeInv, ThreadTypes
  <2>2. QED
    BY <2>1, MutexKept
<1>24. ASSUME NEW k \in Conns,
             \/ Register(k) \/ RegisterAck(k) \/ RegisterAckAgain(k) \/ SyncFile(k)
             \/ SyncEnds(k) \/ SyncFails(k) \/ RegisterRemove(k) \/ RegisterPurge(k)
             \/ Hello(k) \/ LoseNameServer(k) \/ Crash(k)
      PROVE  MutexFollowsExchange'
  BY <1>24, <1>0 DEF Register, RegisterAck, RegisterAckAgain, SyncFile, SyncEnds,
     SyncFails, RegisterRemove, RegisterPurge, Hello, LoseNameServer, Crash, vars,
     nsVars, regVars, netVars, threads
<1>25. ASSUME NEW k \in Conns, Served(k)
      PROVE  MutexFollowsExchange'
  BY <1>25, <1>0 DEF Served, Serve, vars, nsVars, regVars, netVars, threads
<1>26. ASSUME NEW s \in Servers, Connect(s)
      PROVE  MutexFollowsExchange'
  BY <1>26, <1>0 DEF Connect, vars, nsVars, regVars, netVars, threads
<1>27. ASSUME Tick
      PROVE  MutexFollowsExchange'
  BY <1>27 DEF Tick, MutexFollowsExchange, Speaking
<1>28. ASSUME UNCHANGED vars
      PROVE  MutexFollowsExchange'
  BY <1>28, <1>0 DEF vars, nsVars, regVars, netVars, threads
<1>s. ASSUME Kills PROVE MutexFollowsExchange'
  <2>1. pc' = [c \in Clients |-> "gone"] /\ mutex' = [i \in Slots |-> None]
    BY <1>s, KillForm DEF Kill
  <2>2. QED
    BY <2>1, NoneAssumption DEF MutexFollowsExchange, Speaking
<1>29. QED
  BY <1>1, <1>2, <1>3, <1>4, <1>5, <1>6, <1>7, <1>8, <1>9, <1>10, <1>11, <1>12, <1>13,
     <1>14, <1>15, <1>16, <1>17, <1>18, <1>19, <1>20, <1>21, <1>22, <1>23, <1>24,
     <1>25, <1>26, <1>27, <1>28, <1>s, RequestStarts, ServeForms
  DEF Next, ClientThread, RegistrationThread, ServerThread, Kills

-----------------------------------------------------------------------------
(* Initial states, and the theorems *)

\* Files that are on disk when the name server starts are found on the first server that
\* has them.
LEMMA InitTypes == Init => IndInv
<1> SUFFICES ASSUME Init PROVE IndInv
  OBVIOUS
<1> DEFINE n       == Len(Registered)
           home(f) == {i \in 1..n : OnDisk[Registered[i]][f] # None}
<1>1. n \in Nat /\ n <= MaxServers /\ n <= MaxConns /\ \A i \in 1..n : Registered[i] \in Servers
  BY StartAssumption, ElementOfSeq
<1>2. \A i \in 0..n : i < n => i \in Slots /\ i + 1 \in Conns
  BY <1>1, SizeAssumption, BoundAssumption DEF Slots, Conns
<1>3. NoAcl \in Acl
  BY DEF NoAcl, Acl, Perms, PERM_WRITE
<1>4. \A f : home(f) # {} => Min(home(f)) \in home(f)
  <2>1. \A f : home(f) \subseteq Nat
    BY <1>1
  <2>2. QED
    BY <2>1, LeastElement
<1>5. IndexTypes
  <2>1. registry \in [Slots -> Conns \cup {None}]
    <3>1. registry = [i \in Slots |-> IF i < n THEN i + 1 ELSE None]
      BY DEF Init
    <3>2. \A i \in Slots : i < n => i + 1 \in Conns
      BY <1>1, <1>2, Ranges
    <3>3. QED
      BY <3>1, <3>2
  <2>2. nextSS \in Slots /\ cache \in [Keys -> Entry]
    BY Ranges DEF Init, Entry
  <2>3. trie \in [Files -> Record \cup {None}]
    <3> DEFINE rec(f) == [ss |-> Min(home(f)) - 1, owner |-> OnDisk[Registered[Min(home(f))]][f],
                          acl |-> NoAcl]
    <3>1. trie = [f \in Files |-> IF home(f) = {} THEN None ELSE rec(f)]
      BY DEF Init
    <3>2. ASSUME NEW f \in Files, home(f) # {} PROVE rec(f) \in Record
      <4>1. PICK j \in 1..n : j = Min(home(f))
        BY <1>4, <3>2
      <4>2. j - 1 \in Slots /\ Registered[j] \in Servers
        BY <1>1, <1>2
      <4>3. OnDisk[Registered[j]][f] \in Clients \cup {None}
        BY <4>2, StartAssumption
      <4>4. rec(f) = [ss |-> j - 1, owner |-> OnDisk[Registered[j]][f], acl |-> NoAcl]
        BY <4>1
      <4>5. QED
        BY <1>3, <4>2, <4>3, <4>4 DEF Record
    <3> HIDE DEF rec, home
    <3>3. QED
      BY <3>1, <3>2
  <2>4. QED
    BY <2>1, <2>2, <2>3 DEF IndexTypes
<1>6. ThreadTypes
  BY Ranges, NoLocals, BoundAssumption DEF Init, ThreadTypes, Labels, FileSteps
<1>7. RegTypes
  <2>1. \A k \in Conns : k <= n => k \in 1..n
    BY <1>1 DEF Conns
  <2>2. QED
    BY <1>1, <2>1, Ranges DEF Init, RegTypes, Up
<1>8. DiskTypes
  BY <1>3, StartAssumption DEF Init, DiskTypes, Meta
<1>9. NetTypes
  BY DEF Init, NetTypes
<1>10. MutexFollowsExchange
  BY Ranges DEF Init, MutexFollowsExchange, Speaking
<1>11. QED
  BY <1>5, <1>6, <1>7, <1>8, <1>9, <1>10 DEF IndInv, TypeInv

\* Every step keeps the inductive invariant.
LEMMA StepTypes == IndInv /\ [Next]_vars => IndInv'
<1> SUFFICES ASSUME IndInv, [Next]_vars PROVE IndInv'
  OBVIOUS
<1>1. TypeInv /\ MutexFollowsExchange
  BY DEF IndInv
<1>2. IndexTypes' /\ ThreadTypes' /\ RegTypes' /\ DiskTypes' /\ NetTypes'
  BY <1>1, IndexTypesStep, ThreadTypesStep, RegTypesStep, DiskTypesStep, NetTypesStep
<1>3. MutexFollowsExchange'
  BY <1>1, MutexStep
<1>4. QED
  BY <1>2, <1>3 DEF IndInv, TypeInv

\* The slots, the round-robin index and the descriptors of the name server stay within
\* their arrays, for any number of clients, servers and files.
THEOREM TypeCorrect == Spec => []TypeOK
<1>1. IndInv => TypeOK
  BY DEF IndInv, TypeInv, IndexTypes, ThreadTypes, RegTypes, DiskTypes, TypeOK, Calls
<1>2. QED
  BY <1>1, InitTypes, StepTypes, PTL DEF Spec

\* Every path of the handlers of this module releases the socket_mutex it took, for any number of
\* clients and servers.
THEOREM MutexesReleased == Spec => []MutexFollowsExchange
<1>1. IndInv => MutexFollowsExchange
  BY DEF IndInv
<1>2. QED
  BY <1>1, InitTypes, StepTypes, PTL DEF Spec

-----------------------------------------------------------------------------
(* Requests and replies *)

\* All storage servers are registered from the start, and no client reports one dead.
Steady == MaxConns = Len(Registered) /\ "DEAD" \notin Commands

\* Nothing comes from this connection any more.
Silent(k) == ssPc[k] = "off" /\ toNS[k] = <<>>

\* The steps at which a handler has no descriptor yet.
Early == Labels \ {"send", "wait", "recv", "add", "owner", "remove", "purge"}

\* No connection registers, and a slot is only cleared when its connection is silent.
SlotInv ==
  /\ closed = {}
  /\ \A k \in Conns : regPc[k] = "done" /\ server[k] # None /\ ssPc[k] # "hello"
  /\ \A i \in Slots :
       /\ registry[i] \in {i + 1, None}
       /\ registry[i] = None /\ i + 1 \in Conns => Silent(i + 1)

\* The descriptor of a handler is that of its slot, and what it removes is silent.
SockOK(label, a) ==
  /\ label # "report"
  /\ label \in Early => a.sock = None
  /\ label \in {"send", "wait", "recv"} => a.sock \in {a.slot + 1, None}
  /\ label = "recv" /\ a.sock = None /\ a.slot + 1 \in Conns => Silent(a.slot + 1)
  /\ label = "remove" =>
       /\ a.sock # None => Silent(a.sock)
       /\ a.cmd \in {"CREATE", "DELETE"} /\ a.slot + 1 \in Conns => Silent(a.slot + 1)
SockInv == \A c \in Clients : SockOK(pc[c], arg[c])

\* On the socket of a slot whose mutex h holds, and which works on cmd: owners, behind
\* them the request of h, or the reply to it; nothing on the way to a server that is off.
Owners(q) == \A j \in 1..Len(q) : q[j].type = "OWNER"
StreamOK(off, h, cmd, q, r) ==
  /\ off => q = <<>>
  /\ Len(r) <= 1
  /\ r # <<>> => h # None /\ r[1].for = h /\ r[1].type = Expected(cmd) /\ Owners(q)
  /\ \A j \in 1..Len(q) :
       \/ q[j].type = "OWNER"
       \/ j = Len(q) /\ h # None /\ q[j].for = h /\ q[j].type = cmd
Stream(k) == StreamOK(ssPc[k] = "off", mutex[k - 1], arg[mutex[k - 1]].cmd, toSS[k], toNS[k])
StreamInv == \A k \in Conns : Stream(k)

PairInv == SlotInv /\ SockInv /\ StreamInv

\* A socket with owners only is in order whoever holds the mutex, and it is one when
\* nobody does.
LEMMA StreamIdle ==
  ASSUME NEW q \in Seq(Orders), NEW r \in Seq(Replies), NEW off \in BOOLEAN
  PROVE  /\ \A cmd : StreamOK(off, None, cmd, q, r) => r = <<>> /\ Owners(q)
         /\ \A h, cmd : (off => q = <<>>) /\ r = <<>> /\ Owners(q) => StreamOK(off, h, cmd, q, r)
  BY DEF StreamOK, Owners

\* The thread that took the mutex sends its request.
LEMMA StreamSend ==
  ASSUME NEW q \in Seq(Orders), Owners(q), NEW h, h # None, NEW m \in Orders, m.for = h
  PROVE  StreamOK(FALSE, h, m.type, Append(q, m), <<>>)
<1>1. /\ Len(Append(q, m)) = Len(q) + 1 /\ Append(q, m)[Len(q) + 1] = m /\ Len(q) \in Nat
      /\ \A j \in 1..Len(q) : Append(q, m)[j] = q[j]
  BY AppendProperties
<1> DEFINE p == Append(q, m)
<1> HIDE DEF p
<1>2. /\ Len(p) = Len(q) + 1 /\ p[Len(q) + 1] = m /\ Len(q) \in Nat
      /\ \A j \in 1..Len(q) : p[j] = q[j]
  BY <1>1 DEF p
<1>3. StreamOK(FALSE, h, m.type, p, <<>>)
  BY <1>2 DEF StreamOK, Owners
<1>4. QED
  BY <1>3 DEF p

\* An owner is sent when nobody holds the mutex.
LEMMA StreamOwner ==
  ASSUME NEW q \in Seq(Orders), Owners(q), NEW m \in Orders, m.type = "OWNER"
  PROVE  Owners(Append(q, m))
<1>1. /\ Len(Append(q, m)) = Len(q) + 1 /\ Append(q, m)[Len(q) + 1] = m /\ Len(q) \in Nat
      /\ \A j \in 1..Len(q) : Append(q, m)[j] = q[j]
  BY AppendProperties
<1> DEFINE p == Append(q, m)
<1> HIDE DEF p
<1>2. /\ Len(p) = Len(q) + 1 /\ p[Len(q) + 1] = m /\ Len(q) \in Nat
      /\ \A j \in 1..Len(q) : p[j] = q[j]
  BY <1>1 DEF p
<1>3. Owners(p)
  BY <1>2 DEF Owners
<1>4. QED
  BY <1>3 DEF p

\* The server takes the next message, and answers none but the request.
LEMMA StreamServe ==
  ASSUME NEW q \in Seq(Orders), q # <<>>, NEW r \in Seq(Replies), NEW h, NEW cmd,
         StreamOK(FALSE, h, cmd, q, r), NEW new \in Seq(Replies),
         \/ new = <<>>
         \/ /\ Head(q).type # "OWNER" /\ Len(new) = 1
            /\ new[1].for = Head(q).for /\ new[1].type = Expected(Head(q).type)
  PROVE  StreamOK(FALSE, h, cmd, Tail(q), r \o new)
<1> DEFINE t == Tail(q)
<1>1. /\ t \in Seq(Orders) /\ Len(t) = Len(q) - 1 /\ Len(q) \in Nat \ {0}
      /\ \A j \in 1..Len(t) : t[j] = q[j + 1]
      /\ Head(q) = q[1]
  BY HeadTailProperties, EmptySeq
<1> HIDE DEF t
<1>2. \A j \in 1..Len(t) :
        \/ t[j].type = "OWNER"
        \/ j = Len(t) /\ h # None /\ t[j].for = h /\ t[j].type = cmd
  BY <1>1 DEF StreamOK
<1>3. CASE new = <<>>
  <2>1. r \o new = r
    BY <1>3, ConcatEmptySeq
  <2>2. r # <<>> => Owners(t)
    BY <1>1 DEF StreamOK, Owners
  <2>3. QED
    BY <1>2, <2>1, <2>2 DEF StreamOK, t
<1>4. CASE new # <<>>
  <2>1. /\ q[1].type # "OWNER" /\ Len(new) = 1
        /\ new[1].for = q[1].for /\ new[1].type = Expected(q[1].type)
    BY <1>1, <1>4
  <2>2. /\ Len(q) = 1 /\ h # None /\ q[1].for = h /\ q[1].type = cmd /\ r = <<>>
    BY <1>1, <2>1 DEF StreamOK, Owners
  <2>3. Owners(t)
    BY <1>1, <2>2 DEF Owners
  <2>4. r \o new = new
    BY <2>2, ConcatEmptySeq
  <2>5. StreamOK(FALSE, h, cmd, t, new)
    BY <1>2, <2>1, <2>2, <2>3 DEF StreamOK
  <2>6. QED
    BY <2>4, <2>5 DEF t
<1>5. QED
  BY <1>3, <1>4

\* A server that is killed leaves nothing unread, and a reply or none.
LEMMA StreamCrash ==
  ASSUME NEW q \in Seq(Orders), NEW r \in Seq(Replies), NEW off, NEW h, NEW cmd,
         StreamOK(off, h, cmd, q, r), NEW n \in 0..Len(r)
  PROVE  StreamOK(TRUE, h, cmd, <<>>, SubSeq(r, 1, n))
<1>a. Len(r) \in Nat /\ Len(r) <= 1
  BY LenProperties DEF StreamOK
<1>b. \A x \in Nat : x <= 1 => x \in {0, 1} /\ 0..x \subseteq {0, 1}
  OBVIOUS
<1>1. n \in {0, 1} /\ n <= Len(r)
  BY <1>a, <1>b
<1>2. CASE n = 0
  <2>1. SubSeq(r, 1, n) = <<>>
    BY <1>2
  <2>2. QED
    BY <2>1 DEF StreamOK
<1>3. CASE n = 1
  <2> DEFINE p == SubSeq(r, 1, n)
  <2>1. Len(p) = 1 /\ p[1] = r[1] /\ r # <<>>
    BY <1>1, <1>3
  <2> HIDE DEF p
  <2>2. StreamOK(TRUE, h, cmd, <<>>, p)
    BY <2>1 DEF StreamOK, Owners
  <2>3. QED
    BY <2>2 DEF p
<1>4. QED
  BY <1>1, <1>2, <1>3

\* The reply is taken and the mutex released.
LEMMA StreamRead ==
  ASSUME NEW q \in Seq(Orders), NEW r \in Seq(Replies), NEW off, NEW h, NEW cmd, NEW other,
         StreamOK(off, h, cmd, q, r), r # <<>>
  PROVE  /\ StreamOK(off, None, other, q, Tail(r)) /\ Tail(r) = <<>>
         /\ Head(r).type = Expected(cmd)
<1>1. Len(r) \in Nat \ {0} /\ Len(r) <= 1
  BY EmptySeq DEF StreamOK
<1>a. \A x \in Nat \ {0} : x <= 1 => x = 1
  OBVIOUS
<1>2. Len(r) = 1
  BY <1>1, <1>a
<1>3. Tail(r) \in Seq(Replies) /\ Len(Tail(r)) = 0
  BY <1>2, HeadTailProperties
<1>4. Tail(r) = <<>>
  BY <1>3, EmptySeq
<1>5. Head(r) = r[1]
  BY <1>2
<1>6. Owners(q) /\ (off => q = <<>>) /\ r[1].type = Expected(cmd)
  BY DEF StreamOK
<1>7. StreamOK(off, None, other, q, <<>>)
  BY <1>6 DEF StreamOK, Owners
<1>8. QED
  BY <1>4, <1>5, <1>6, <1>7

\* Without registrations the steps are those of clients, of servers that serve, crashes
\* and the clock.
LEMMA SteadyCases ==
  ASSUME TypeInv, SlotInv, [Next]_vars
  PROVE  \/ \E c \in Clients : Begun(c) \/ ClientThread(c)
         \/ \E k \in Conns : Served(k) \/ Crash(k)
         \/ Tick
         \/ UNCHANGED vars
<1>1. ASSUME NEW k \in Conns, RegistrationThread(k) PROVE FALSE
  BY <1>1 DEF RegistrationThread, Register, RegisterAck, RegisterAckAgain, SyncFile, SyncEnds,
     SyncFails, RegisterRemove, RegisterPurge, RegisterSigpipe, SlotInv
<1>2. ASSUME NEW k \in Conns, Hello(k) \/ LoseNameServer(k) PROVE FALSE
  BY <1>2 DEF Hello, LoseNameServer, SlotInv
<1>3. ASSUME NEW s \in Servers, Connect(s) PROVE FALSE
  BY <1>3 DEF Connect, Spare, SlotInv
<1>4. QED
  BY <1>1, <1>2, <1>3, RequestStarts, ServeForms DEF Next, ServerThread

\* A silent connection stays silent.
LEMMA SilentStays ==
  ASSUME TypeInv, SlotInv, [Next]_vars, ~Kills
  PROVE  \A j \in Conns : Silent(j) => Silent(j)'
<1>1. ASSUME NEW c \in Clients, Begun(c)
      PROVE  \A j \in Conns : Silent(j) => Silent(j)'
  BY <1>1 DEF Begun, Request, netVars, Silent
<1>2. ASSUME NEW c \in Clients, Receive(c)
      PROVE  \A j \in Conns : Silent(j) => Silent(j)'
  <2>1. UNCHANGED ssPc /\ \A k \in Conns \ {arg[c].sock} : toNS'[k] = toNS[k]
    BY <1>2 DEF Receive, TypeInv, NetTypes
  <2>2. toNS[arg[c].sock] # <<>>
    BY <1>2 DEF Receive, Readable
  <2>3. QED
    BY <2>1, <2>2 DEF Silent
<1>3. ASSUME NEW c \in Clients,
             \/ Lookup(c) \/ Hit(c) \/ CacheAdd(c) \/ CheckPermission(c) \/ FindInTrie(c)
             \/ GetDetails(c) \/ DeleteRecord(c) \/ InvalidateEntry(c) \/ SetFolder(c)
             \/ Grant(c) \/ AddFile(c) \/ PickServer(c) \/ Resolve(c) \/ FindReported(c)
             \/ RemoveServer(c) \/ Purge(c) \/ Send(c) \/ SendFails(c) \/ Wait(c)
             \/ ReceiveFails(c) \/ SendOwner(c)
      PROVE  \A j \in Conns : Silent(j) => Silent(j)'
  BY <1>3 DEF Lookup, Hit, CacheAdd, CheckPermission, FindInTrie, GetDetails,
     DeleteRecord, InvalidateEntry, SetFolder, Grant, AddFile, PickServer, Resolve,
     FindReported, RemoveServer, Purge, Send, SendFails, Wait, ReceiveFails, SendOwner,
     netVars, Silent
<1>4. ASSUME NEW k \in Conns, Served(k)
      PROVE  \A j \in Conns : Silent(j) => Silent(j)'
  <2>1. UNCHANGED ssPc /\ ssPc[k] = "serve" /\ \A j \in Conns \ {k} : toNS'[j] = toNS[j]
    BY <1>4 DEF Served, Serve, Respond, TypeInv, NetTypes
  <2>2. QED
    BY <2>1 DEF Silent
<1>5. ASSUME NEW k \in Conns, Crash(k)
      PROVE  \A j \in Conns : Silent(j) => Silent(j)'
  <2>1. /\ ssPc[k] # "off"
        /\ \A j \in Conns \ {k} : toNS'[j] = toNS[j] /\ ssPc'[j] = ssPc[j]
    BY <1>5 DEF Crash, Exit, Up, TypeInv, NetTypes, RegTypes
  <2>2. QED
    BY <2>1 DEF Silent
<1>6. ASSUME Tick
      PROVE  \A j \in Conns : Silent(j) => Silent(j)'
  BY <1>6 DEF Tick, netVars, Silent
<1>7. ASSUME UNCHANGED vars
      PROVE  \A j \in Conns : Silent(j) => Silent(j)'
  BY <1>7 DEF vars, netVars, Silent
<1>8. QED
  BY <1>1, <1>2, <1>3, <1>4, <1>5, <1>6, <1>7, SteadyCases DEF ClientThread, Kills

\* No server starts to register.
LEMMA SteadyNoHello ==
  ASSUME TypeInv, SlotInv, [Next]_vars, ~Kills
  PROVE  \A k \in Conns : ssPc'[k] # "hello"
<1>1. ASSUME NEW c \in Clients, Begun(c) \/ ClientThread(c) PROVE UNCHANGED ssPc
  BY <1>1 DEF Begun, Request, ClientThread, netVars, Lookup, Hit, CacheAdd,
     CheckPermission, FindInTrie, GetDetails, DeleteRecord, InvalidateEntry, SetFolder,
     Grant, AddFile, PickServer, Resolve, FindReported, RemoveServer, Purge, Send,
     SendFails, Wait, Receive, ReceiveFails, SendOwner, Kills
<1>2. ASSUME NEW k \in Conns, Served(k) PROVE UNCHANGED ssPc
  BY <1>2 DEF Served, Serve
<1>3. ASSUME NEW k \in Conns, Crash(k) PROVE \A j \in Conns : ssPc'[j] \in {ssPc[j], "off"}
  BY <1>3 DEF Crash, Exit, TypeInv, RegTypes
<1>4. ASSUME Tick \/ UNCHANGED vars PROVE UNCHANGED ssPc
  BY <1>4 DEF Tick, vars, netVars
<1>5. QED
  BY <1>1, <1>2, <1>3, <1>4, SteadyCases DEF SlotInv

\* Slots are only cleared when their connection is silent.
LEMMA SlotStep ==
  ASSUME TypeInv, SlotInv, SockInv, [Next]_vars, ~Kills
  PROVE  SlotInv'
<1>0. ASSUME UNCHANGED <<registry, closed, regPc, server>> PROVE SlotInv'
  <2>1. \A k \in Conns : ssPc[k] # "hello" => ssPc'[k] # "hello"
    BY SteadyNoHello
  <2>2. QED
    BY <1>0, <2>1, SilentStays DEF SlotInv
<1>1. ASSUME NEW c \in Clients, Begun(c)
      PROVE  SlotInv'
  BY <1>1, <1>0 DEF Begun, Request, nsVars, netVars, regVars
<1>2. ASSUME NEW c \in Clients, RemoveServer(c)
      PROVE  SlotInv'
  <2> DEFINE a  == arg[c]
             fd == IF a.cmd \in {"CREATE", "DELETE"} THEN registry[a.slot] ELSE a.sock
             at == {i \in Active : registry[i] = fd}
  <2>1. UNCHANGED <<closed, regPc, server, ssPc, toNS>>
    BY <1>2 DEF RemoveServer, netVars, regVars
  <2>2. CASE at = {}
    BY <1>2, <1>0, <2>1, <2>2 DEF RemoveServer
  <2>3. CASE at # {}
    <3> DEFINE i == Min(at)
    <3>1. i \in at /\ at \subseteq Slots
      BY <2>3, Ranges, LeastElement DEF Active
    <3>2. i \in Slots /\ registry[i] = fd /\ registry[i] # None
      BY <3>1 DEF Active
    <3>3. registry' = [registry EXCEPT ![i] = None]
      BY <1>2, <2>3 DEF RemoveServer
    <3> HIDE DEF i, at
    <3>4. fd = i + 1 /\ fd \in Conns
      BY <3>2 DEF SlotInv, TypeInv, IndexTypes
    <3>5. SockOK("remove", a) /\ a \in Calls
      BY <1>2 DEF RemoveServer, SockInv, TypeInv, ThreadTypes
    <3>6. Silent(i + 1)
      <4>1. CASE a.cmd \in {"CREATE", "DELETE"}
        <5>1. a.slot \in Slots /\ registry[a.slot] = fd
          BY <3>5, <4>1 DEF Calls
        <5>2. a.slot + 1 = fd
          BY <3>2, <5>1 DEF SlotInv
        <5>3. QED
          BY <3>4, <3>5, <4>1, <5>2 DEF SockOK
      <4>2. CASE a.cmd \notin {"CREATE", "DELETE"}
        BY <3>2, <3>4, <3>5, <4>2 DEF SockOK
      <4>3. QED
        BY <4>1, <4>2
    <3>7. \A j \in Slots \ {i} : registry'[j] = registry[j]
      BY <3>2, <3>3 DEF TypeInv, IndexTypes
    <3>8. registry'[i] = None
      BY <3>2, <3>3 DEF TypeInv, IndexTypes
    <3>9. QED
      BY <2>1, <3>6, <3>7, <3>8 DEF SlotInv, Silent
  <2>4. QED
    BY <2>2, <2>3
<1>3. ASSUME NEW c \in Clients,
             \/ Lookup(c) \/ Hit(c) \/ CacheAdd(c) \/ CheckPermission(c) \/ FindInTrie(c)
             \/ GetDetails(c) \/ DeleteRecord(c) \/ InvalidateEntry(c) \/ SetFolder(c)
             \/ Grant(c) \/ AddFile(c) \/ PickServer(c) \/ Resolve(c) \/ FindReported(c)
             \/ Purge(c) \/ Send(c) \/ SendFails(c) \/ Wait(c) \/ Receive(c)
             \/ ReceiveFails(c) \/ SendOwner(c)
      PROVE  SlotInv'
  BY <1>3, <1>0 DEF Lookup, Hit, CacheAdd, CheckPermission, FindInTrie, GetDetails,
     DeleteRecord, InvalidateEntry, SetFolder, Grant, AddFile, PickServer, Resolve,
     FindReported, Purge, Send, SendFails, Wait, Receive, ReceiveFails, SendOwner,
     nsVars, netVars, regVars
<1>4. ASSUME NEW k \in Conns, Served(k)
      PROVE  SlotInv'
  BY <1>4, <1>0 DEF Served, Serve, nsVars, regVars
<1>5. ASSUME NEW k \in Conns, Crash(k)
      PROVE  SlotInv'
  BY <1>5, <1>0 DEF Crash, nsVars, regVars
<1>6. ASSUME Tick
      PROVE  SlotInv'
  BY <1>6, <1>0 DEF Tick, nsVars, netVars, regVars
<1>7. ASSUME UNCHANGED vars
      PROVE  SlotInv'
  BY <1>7, <1>0 DEF vars, nsVars, netVars, regVars
<1>8. QED
  BY <1>1, <1>2, <1>3, <1>4, <1>5, <1>6, <1>7, SteadyCases DEF ClientThread, Kills

\* The connection of a slot, and the slot of a connection.
LEMMA Places ==
  /\ \A s \in Slots : (s + 1) - 1 = s
  /\ \A k \in Conns : \A s \in Slots : k \in {s + 1, None} => k = s + 1 /\ k - 1 = s
  /\ \A j, k \in Conns : j - 1 = k - 1 => j = k
  /\ \A k \in Conns : \A s \in Slots : k - 1 = s => k = s + 1
<1>1. Slots \subseteq Nat /\ Conns \subseteq Nat /\ None \notin Conns
  BY Ranges
<1>2. /\ \A x \in Nat : (x + 1) - 1 = x
      /\ \A x, y \in Nat : x - 1 = y - 1 => x = y
      /\ \A x, y \in Nat : x - 1 = y => x = y + 1
  OBVIOUS
<1>3. ASSUME NEW k \in Conns, NEW s \in Slots, k \in {s + 1, None} PROVE k = s + 1 /\ k - 1 = s
  <2>1. k = s + 1
    BY <1>1, <1>3
  <2>2. (s + 1) - 1 = s
    BY <1>1, <1>2
  <2>3. QED
    BY <2>1, <2>2
<1>4. QED
  BY <1>1, <1>2, <1>3

\* The reply that is read is of the type that the request of the mutex's holder expects.
LEMMA HeadReply ==
  ASSUME NEW q \in Seq(Orders), NEW r \in Seq(Replies), NEW off, NEW h, NEW cmd,
         StreamOK(off, h, cmd, q, r), r # <<>>
  PROVE  Head(r).type = Expected(cmd)
  BY StreamRead

\* Connection k after a step, from what is on its sockets and who holds its slot.
LEMMA StreamNext ==
  ASSUME NEW k, NEW off, NEW h, NEW cmd, NEW q, NEW r, StreamOK(off, h, cmd, q, r),
         (ssPc'[k] = "off") = off, mutex'[k - 1] = h, arg'[h].cmd = cmd,
         toSS'[k] = q, toNS'[k] = r
  PROVE  Stream(k)'
  BY DEF Stream

\* When nobody holds the mutex of a slot there are only owners on its connection.
LEMMA StreamFree ==
  ASSUME TypeInv, StreamInv, NEW k \in Conns, mutex[k - 1] = None
  PROVE  toNS[k] = <<>> /\ Owners(toSS[k]) /\ (ssPc[k] = "off" => toSS[k] = <<>>)
<1> DEFINE off == ssPc[k] = "off"
           cmd == arg[None].cmd
<1>1. toSS[k] \in Seq(Orders) /\ toNS[k] \in Seq(Replies) /\ off \in BOOLEAN
  BY DEF TypeInv, NetTypes
<1>2. StreamOK(off, None, cmd, toSS[k], toNS[k])
  BY DEF StreamInv, Stream
<1>3. off => toSS[k] = <<>>
  BY <1>2 DEF StreamOK
<1> HIDE DEF off, cmd
<1>4. toNS[k] = <<>> /\ Owners(toSS[k])
  BY <1>1, <1>2, StreamIdle
<1>5. QED
  BY <1>3, <1>4 DEF off

\* A connection that no step of its slot's holder touches stays in order.
LEMMA StreamStays ==
  ASSUME TypeInv, StreamInv, NEW k \in Conns, mutex[k - 1] \in Clients \cup {None},
         UNCHANGED <<mutex[k - 1], toSS[k], toNS[k], ssPc[k]>>,
         mutex[k - 1] # None => arg'[mutex[k - 1]].cmd = arg[mutex[k - 1]].cmd
  PROVE  Stream(k)'
<1>1. CASE mutex[k - 1] = None
  <2> DEFINE off == ssPc[k] = "off"
             cmd == arg'[None].cmd
  <2>1. toNS[k] = <<>> /\ Owners(toSS[k]) /\ (off => toSS[k] = <<>>)
    BY <1>1, StreamFree
  <2>2. toSS[k] \in Seq(Orders) /\ toNS[k] \in Seq(Replies) /\ off \in BOOLEAN
    BY DEF TypeInv, NetTypes
  <2>3. (ssPc'[k] = "off") = off /\ arg'[None].cmd = cmd
    OBVIOUS
  <2> HIDE DEF off, cmd
  <2>4. StreamOK(off, None, cmd, toSS[k], toNS[k])
    BY <2>1, <2>2, StreamIdle
  <2>5. QED
    BY <1>1, <2>3, <2>4, StreamNext
<1>2. CASE mutex[k - 1] # None
  <2> DEFINE off == ssPc[k] = "off"
             h   == mutex[k - 1]
             cmd == arg[h].cmd
  <2>1. StreamOK(off, h, cmd, toSS[k], toNS[k])
    BY DEF StreamInv, Stream
  <2>2. (ssPc'[k] = "off") = off /\ mutex'[k - 1] = h /\ arg'[h].cmd = cmd
    BY <1>2
  <2>3. QED
    BY <2>1, <2>2, StreamNext
<1>3. QED
  BY <1>1, <1>2

\* A step of c on the connection k of its slot leaves the other connections in order.
LEMMA StreamRest ==
  ASSUME Steady, TypeInv, MutexFollowsExchange, StreamInv,
         NEW c \in Clients, NEW k \in Conns, arg[c].slot = k - 1,
         UNCHANGED ssPc,
         \A j \in Conns \ {k} : toSS'[j] = toSS[j] /\ toNS'[j] = toNS[j],
         \A i \in Slots \ {k - 1} : mutex'[i] = mutex[i],
         \A d \in Clients \ {c} : arg'[d] = arg[d],
         Stream(k)'
  PROVE  StreamInv'
<1>1. ASSUME NEW j \in Conns \ {k} PROVE Stream(j)'
  <2>1. j - 1 \in Slots
    BY StartAssumption, SizeAssumption DEF Steady, Conns, Slots
  <2>2. j - 1 # k - 1
    BY Places
  <2>3. mutex[j - 1] # c /\ mutex[j - 1] \in Clients \cup {None}
    BY <2>1, <2>2 DEF MutexFollowsExchange, TypeInv, ThreadTypes
  <2>4. UNCHANGED <<mutex[j - 1], toSS[j], toNS[j], ssPc[j]>>
    BY <2>1, <2>2
  <2>5. mutex[j - 1] # None => arg'[mutex[j - 1]].cmd = arg[mutex[j - 1]].cmd
    BY <2>3
  <2>6. QED
    BY <2>3, <2>4, <2>5, StreamStays
<1>2. QED
  BY <1>1 DEF StreamInv

\* A handler's descriptor is that of its slot, and it removes only silent connections.
LEMMA SockStep ==
  ASSUME Steady, TypeInv, MutexFollowsExchange, PairInv, [Next]_vars, ~Kills
  PROVE  SockInv'
<1> USE DEF PairInv
<1>a. ASSUME NEW c \in Clients, SockOK(pc[c], arg[c])',
             \A d \in Clients \ {c} : pc'[d] = pc[d] /\ arg'[d] = arg[d]
      PROVE  SockInv'
  <2>1. ASSUME NEW d \in Clients \ {c} PROVE SockOK(pc[d], arg[d])'
    <3>1. SockOK(pc[d], arg[d]) /\ arg[d] \in Calls
      BY DEF SockInv, TypeInv, ThreadTypes
    <3>2. QED
      BY <1>a, <3>1, SilentStays DEF SockOK, Calls
  <2>2. QED
    BY <1>a, <2>1 DEF SockInv
<1>b. ASSUME NEW c \in Clients, pc'[c] \in Early \ {"report"}, arg'[c].sock = None,
             \A d \in Clients \ {c} : pc'[d] = pc[d] /\ arg'[d] = arg[d]
      PROVE  SockInv'
  <2>1. SockOK(pc[c], arg[c])'
    BY <1>b DEF SockOK, Early
  <2>2. QED
    BY <1>a, <1>b, <2>1
<1>c. ASSUME NEW c \in Clients, pc'[c] \in {"add", "owner", "purge"},
             \A d \in Clients \ {c} : pc'[d] = pc[d] /\ arg'[d] = arg[d]
      PROVE  SockInv'
  <2>1. SockOK(pc[c], arg[c])'
    BY <1>c DEF SockOK, Early
  <2>2. QED
    BY <1>a, <1>c, <2>1
<1>d. ASSUME UNCHANGED <<pc, arg>> PROVE SockInv'
  <2>1. ASSUME NEW d \in Clients PROVE SockOK(pc[d], arg[d])'
    <3>1. SockOK(pc[d], arg[d]) /\ arg[d] \in Calls
      BY DEF SockInv, TypeInv, ThreadTypes
    <3>2. QED
      BY <1>d, <3>1, SilentStays DEF SockOK, Calls
  <2>2. QED
    BY <2>1 DEF SockInv
<1>1. ASSUME NEW c \in Clients, Begun(c)
      PROVE  SockInv'
  <2>1. PICK name, call, label :
          /\ Request(c, name, call, label)
          /\ call.sock = None /\ label \in Starts \ {"report"}
    BY <1>1 DEF Begun, Steady
  <2>2. /\ pc'[c] \in Early \ {"report"} /\ arg'[c].sock = None
        /\ \A d \in Clients \ {c} : pc'[d] = pc[d] /\ arg'[d] = arg[d]
    BY <2>1 DEF Request, Goto, Starts, Early, Labels, TypeInv, ThreadTypes
  <2>3. QED
    BY <1>b, <2>2
<1>2. ASSUME NEW c \in Clients, Lookup(c)
      PROVE  SockInv'
  <2>1. arg[c].sock = None
    BY <1>2 DEF Lookup, SockInv, SockOK, Early, Labels
  <2>2. /\ pc'[c] \in Early \ {"report"} /\ arg'[c].sock = None
        /\ \A e \in Clients \ {c} : pc'[e] = pc[e] /\ arg'[e] = arg[e]
    BY <1>2, <2>1, NoLocals DEF Lookup, Goto, Early, Labels, TypeInv,
       ThreadTypes, Calls
  <2>3. QED
    BY <1>b, <2>2
<1>3. ASSUME NEW c \in Clients, Hit(c)
      PROVE  SockInv'
  <2>1. arg[c].sock = None
    BY <1>3 DEF Hit, SockInv, SockOK, Early, Labels
  <2>2. /\ pc'[c] \in Early \ {"report"} /\ arg'[c].sock = None
        /\ \A e \in Clients \ {c} : pc'[e] = pc[e] /\ arg'[e] = arg[e]
    BY <1>3, <2>1, NoLocals DEF Hit, Found, Answer, Continue, Goto, Early,
       Labels, TypeInv, ThreadTypes, Calls
  <2>3. QED
    BY <1>b, <2>2
<1>4. ASSUME NEW c \in Clients, CacheAdd(c)
      PROVE  SockInv'
  <2>1. arg[c].sock = None
    BY <1>4 DEF CacheAdd, SockInv, SockOK, Early, Labels
  <2>2. /\ pc'[c] \in Early \ {"report"} /\ arg'[c].sock = None
        /\ \A e \in Clients \ {c} : pc'[e] = pc[e] /\ arg'[e] = arg[e]
    BY <1>4, <2>1, NoLocals DEF CacheAdd, Found, Answer, Continue, Goto, Early,
       Labels, TypeInv, ThreadTypes, Calls
  <2>3. QED
    BY <1>b, <2>2
<1>5. ASSUME NEW c \in Clients, CheckPermission(c)
      PROVE  SockInv'
  <2>1. arg[c].sock = None
    BY <1>5 DEF CheckPermission, SockInv, SockOK, Early, Labels
  <2>2. /\ pc'[c] \in Early \ {"report"} /\ arg'[c].sock = None
        /\ \A e \in Clients \ {c} : pc'[e] = pc[e] /\ arg'[e] = arg[e]
    BY <1>5, <2>1, NoLocals DEF CheckPermission, Answer, Continue, Goto, Early,
       Labels, TypeInv, ThreadTypes, Calls
  <2>3. QED
    BY <1>b, <2>2
<1>6. ASSUME NEW c \in Clients, FindInTrie(c)
      PROVE  SockInv'
  <2>1. arg[c].sock = None
    BY <1>6 DEF FindInTrie, SockInv, SockOK, Early, Labels
  <2>2. /\ pc'[c] \in Early \ {"report"} /\ arg'[c].sock = None
        /\ \A e \in Clients \ {c} : pc'[e] = pc[e] /\ arg'[e] = arg[e]
    BY <1>6, <2>1, NoLocals DEF FindInTrie, Answer, Continue, Goto, Early,
       Labels, TypeInv, ThreadTypes, Calls
  <2>3. QED
    BY <1>b, <2>2
<1>7. ASSUME NEW c \in Clients, GetDetails(c)
      PROVE  SockInv'
  <2>1. arg[c].sock = None
    BY <1>7 DEF GetDetails, SockInv, SockOK, Early, Labels
  <2>2. /\ pc'[c] \in Early \ {"report"} /\ arg'[c].sock = None
        /\ \A e \in Clients \ {c} : pc'[e] = pc[e] /\ arg'[e] = arg[e]
    BY <1>7, <2>1, NoLocals DEF GetDetails, Answer, Continue, Goto, Early,
       Labels, TypeInv, ThreadTypes, Calls
  <2>3. QED
    BY <1>b, <2>2
<1>8. ASSUME NEW c \in Clients, DeleteRecord(c)
      PROVE  SockInv'
  <2>1. arg[c].sock = None
    BY <1>8 DEF DeleteRecord, SockInv, SockOK, Early, Labels
  <2>2. /\ pc'[c] \in Early \ {"report"} /\ arg'[c].sock = None
        /\ \A e \in Clients \ {c} : pc'[e] = pc[e] /\ arg'[e] = arg[e]
    BY <1>8, <2>1, NoLocals DEF DeleteRecord, Answer, Continue, Goto, Early,
       Labels, TypeInv, ThreadTypes, Calls
  <2>3. QED
    BY <1>b, <2>2
<1>9. ASSUME NEW c \in Clients, InvalidateEntry(c)
      PROVE  SockInv'
  <2>1. arg[c].sock = None
    BY <1>9 DEF InvalidateEntry, SockInv, SockOK, Early, Labels
  <2>2. /\ pc'[c] \in Early \ {"report"} /\ arg'[c].sock = None
        /\ \A e \in Clients \ {c} : pc'[e] = pc[e] /\ arg'[e] = arg[e]
    BY <1>9, <2>1, NoLocals DEF InvalidateEntry, Continue, Goto, Early, Labels,
       TypeInv, ThreadTypes, Calls
  <2>3. QED
    BY <1>b, <2>2
<1>10. ASSUME NEW c \in Clients, SetFolder(c)
      PROVE  SockInv'
  <2>1. arg[c].sock = None
    BY <1>10 DEF SetFolder, SockInv, SockOK, Early, Labels
  <2>2. /\ pc'[c] \in Early \ {"report"} /\ arg'[c].sock = None
        /\ \A e \in Clients \ {c} : pc'[e] = pc[e] /\ arg'[e] = arg[e]
    BY <1>10, <2>1, NoLocals DEF SetFolder, Answer, Continue, Goto, Early,
       Labels, TypeInv, ThreadTypes, Calls
  <2>3. QED
    BY <1>b, <2>2
<1>11. ASSUME NEW c \in Clients, Grant(c)
      PROVE  SockInv'
  <2>1. arg[c].sock = None
    BY <1>11 DEF Grant, SockInv, SockOK, Early, Labels
  <2>2. /\ pc'[c] \in Early \ {"report"} /\ arg'[c].sock = None
        /\ \A e \in Clients \ {c} : pc'[e] = pc[e] /\ arg'[e] = arg[e]
    BY <1>11, <2>1, NoLocals DEF Grant, Answer, Continue, Goto, Early, Labels,
       TypeInv, ThreadTypes, Calls
  <2>3. QED
    BY <1>b, <2>2
<1>12. ASSUME NEW c \in Clients, AddFile(c)
      PROVE  SockInv'
  BY <1>12, <1>c DEF AddFile, Continue, Goto, TypeInv, ThreadTypes
<1>13. ASSUME NEW c \in Clients, PickServer(c)
      PROVE  SockInv'
  <2>1. arg[c].sock = None
    BY <1>13 DEF PickServer, SockInv, SockOK, Early, Labels
  <2>2. /\ \/ pc'[c] = "idle"
           \/ pc'[c] = "send"
        /\ arg'[c].sock = None
        /\ \A e \in Clients \ {c} : pc'[e] = pc[e] /\ arg'[e] = arg[e]
    BY <1>13, <2>1, NoLocals DEF PickServer, Answer, Continue, Goto, TypeInv, ThreadTypes, Calls
  <2>3. SockOK(pc[c], arg[c])'
    BY <2>2 DEF SockOK, Early
  <2>4. QED
    BY <1>a, <2>2, <2>3
<1>14. ASSUME NEW c \in Clients, Resolve(c)
      PROVE  SockInv'
  <2>1. arg[c] \in Calls /\ registry[arg[c].slot] \in {arg[c].slot + 1, None}
    BY DEF SlotInv, TypeInv, ThreadTypes, Calls
  <2>2. /\ \/ pc'[c] = "idle" /\ arg'[c].sock = None
           \/ pc'[c] = "send" /\ arg'[c].sock \in {arg'[c].slot + 1, None}
        /\ \A e \in Clients \ {c} : pc'[e] = pc[e] /\ arg'[e] = arg[e]
    BY <1>14, <2>1, NoLocals DEF Resolve, Answer, Continue, Goto, TypeInv, ThreadTypes, Calls
  <2>3. SockOK(pc[c], arg[c])'
    BY <2>2 DEF SockOK, Early
  <2>4. QED
    BY <1>a, <2>2, <2>3
<1>15. ASSUME NEW c \in Clients, FindReported(c)
      PROVE  SockInv'
  BY <1>15 DEF FindReported, SockInv, SockOK
<1>16. ASSUME NEW c \in Clients, RemoveServer(c)
      PROVE  SockInv'
  <2>1. /\ \/ pc'[c] = "idle" /\ arg'[c].sock = None
           \/ pc'[c] = "purge"
        /\ \A e \in Clients \ {c} : pc'[e] = pc[e] /\ arg'[e] = arg[e]
    BY <1>16, NoLocals DEF RemoveServer, Answer, Continue, Goto, TypeInv, ThreadTypes
  <2>2. SockOK(pc[c], arg[c])'
    BY <2>1 DEF SockOK, Early
  <2>3. QED
    BY <1>a, <2>1, <2>2
<1>17. ASSUME NEW c \in Clients, Purge(c)
      PROVE  SockInv'
  <2>1. /\ pc'[c] = "idle" /\ arg'[c].sock = None
        /\ \A e \in Clients \ {c} : pc'[e] = pc[e] /\ arg'[e] = arg[e]
    BY <1>17, NoLocals DEF Purge, Answer, Goto, TypeInv, ThreadTypes
  <2>2. QED
    BY <1>b, <2>1 DEF Early, Labels
<1>18. ASSUME NEW c \in Clients, Send(c)
      PROVE  SockInv'
  <2>1. /\ arg[c] \in Calls /\ arg[c].slot \in Slots /\ SockOK("send", arg[c])
        /\ registry[arg[c].slot] \in {arg[c].slot + 1, None}
        /\ registry[arg[c].slot] \in Conns \cup {None} /\ arg[c].sock \in Conns \cup {None}
    BY <1>18 DEF Send, SlotInv, SockInv, TypeInv, ThreadTypes, IndexTypes, Calls
  <2> DEFINE k == Socket(c)
             s == arg[c].slot
  <2>2. k \in {s + 1, None} /\ k \in Conns \cup {None}
    BY <2>1 DEF Socket, SockOK
  <2>3. /\ pc'[c] \in {"wait", "recv"} /\ (pc'[c] = "recv" => k \in Open)
        /\ arg'[c] = [arg[c] EXCEPT !.sock = k]
        /\ \A e \in Clients \ {c} : pc'[e] = pc[e] /\ arg'[e] = arg[e]
    BY <1>18 DEF Send, Continue, Goto, Captured, Unchecked, TypeInv, ThreadTypes
  <2>4. k \in Open => k # None
    BY Ranges DEF Open
  <2> HIDE DEF k
  <2>5. arg'[c].sock = k /\ arg'[c].slot = s
    BY <2>1, <2>3 DEF Calls
  <2>6. SockOK(pc[c], arg[c])'
    BY <2>2, <2>3, <2>4, <2>5 DEF SockOK, Early
  <2>7. QED
    BY <1>a, <2>3, <2>6
<1>19. ASSUME NEW c \in Clients, SendFails(c)
      PROVE  SockInv'
  <2>1. /\ arg[c] \in Calls /\ arg[c].slot \in Slots /\ SockOK("send", arg[c])
        /\ registry[arg[c].slot] \in {arg[c].slot + 1, None}
        /\ registry[arg[c].slot] \in Conns \cup {None} /\ arg[c].sock \in Conns \cup {None}
    BY <1>19 DEF SendFails, SlotInv, SockInv, TypeInv, ThreadTypes, IndexTypes, Calls
  <2> DEFINE k == Socket(c)
             s == arg[c].slot
  <2>2. k \in {s + 1, None} /\ k \in Conns \cup {None}
    BY <2>1 DEF Socket, SockOK
  <2>3. /\ pc'[c] = "remove" /\ k \notin Healthy /\ mutex[s] = None
        /\ arg'[c] = [arg[c] EXCEPT !.sock = k]
        /\ arg[c].cmd \in {"CREATE", "DELETE"} => k = registry[s]
        /\ UNCHANGED <<ssPc, toNS>>
        /\ \A e \in Clients \ {c} : pc'[e] = pc[e] /\ arg'[e] = arg[e]
    BY <1>19 DEF SendFails, Socket, Goto, TypeInv, ThreadTypes, netVars
  <2> HIDE DEF k
  <2>4. arg'[c].sock = k /\ arg'[c].slot = s /\ arg'[c].cmd = arg[c].cmd
    BY <2>1, <2>3 DEF Calls
  <2>5. k # None => Silent(k)
    <3>1. SUFFICES ASSUME k # None PROVE Silent(k)
      OBVIOUS
    <3>2. k \in Conns /\ k - 1 = s
      BY <2>1, <2>2, <3>1, Places
    <3>3. ssPc[k] = "off"
      BY <2>3, <3>2 DEF Healthy, Open, Up, SlotInv
    <3>4. mutex[k - 1] = None
      BY <2>3, <3>2
    <3>5. toNS[k] = <<>>
      BY <3>2, <3>4, StreamFree
    <3>6. QED
      BY <3>3, <3>5 DEF Silent
  <2>6. k = registry[s] /\ s + 1 \in Conns => Silent(s + 1)
    BY <2>1, <2>2, <2>5 DEF SlotInv
  <2>7. SockOK(pc[c], arg[c])'
    BY <2>3, <2>4, <2>5, <2>6 DEF SockOK, Early, Silent
  <2>8. QED
    BY <1>a, <2>3, <2>7
<1>20. ASSUME NEW c \in Clients, Wait(c)
      PROVE  SockInv'
  <2> DEFINE s == arg[c].slot
  <2>1. /\ arg[c] \in Calls /\ s \in Slots
        /\ registry[s] \in {s + 1, None} /\ (registry[s] = None /\ s + 1 \in Conns => Silent(s + 1))
    BY DEF SlotInv, TypeInv, ThreadTypes, Calls
  <2>2. /\ pc'[c] = "recv" /\ arg'[c] = [arg[c] EXCEPT !.sock = registry[s]]
        /\ UNCHANGED <<ssPc, toNS>>
        /\ \A e \in Clients \ {c} : pc'[e] = pc[e] /\ arg'[e] = arg[e]
    BY <1>20 DEF Wait, Continue, Goto, TypeInv, ThreadTypes, netVars
  <2>3. arg'[c].sock = registry[s] /\ arg'[c].slot = s
    BY <2>1, <2>2 DEF Calls
  <2>4. SockOK(pc[c], arg[c])'
    BY <2>1, <2>2, <2>3 DEF SockOK, Early, Silent
  <2>5. QED
    BY <1>a, <2>2, <2>4
<1>21. ASSUME NEW c \in Clients, Receive(c)
      PROVE  SockInv'
  <2> DEFINE k == arg[c].sock
             s == arg[c].slot
  <2>1. /\ k \in Conns /\ toNS[k] # <<>> /\ arg[c] \in Calls /\ s \in Slots /\ pc[c] = "recv"
        /\ toSS[k] \in Seq(Orders) /\ toNS[k] \in Seq(Replies)
    BY <1>21 DEF Receive, Readable, Open, TypeInv, ThreadTypes, Calls, NetTypes
  <2>a. k \in {s + 1, None}
    BY <2>1 DEF SockInv, SockOK
  <2>2. k - 1 = s
    BY <2>1, <2>a, Places
  <2>3. mutex[k - 1] = c
    BY <2>1, <2>2 DEF MutexFollowsExchange, Speaking
  <2>4. StreamOK(ssPc[k] = "off", c, arg[c].cmd, toSS[k], toNS[k])
    BY <2>1, <2>3 DEF StreamInv, Stream
  <2>5. Head(toNS[k]).type = Expected(arg[c].cmd)
    BY <2>1, <2>4, HeadReply
  <2>6. /\ \/ pc'[c] = "idle" /\ arg'[c].sock = None
           \/ pc'[c] = "add"
        /\ \A e \in Clients \ {c} : pc'[e] = pc[e] /\ arg'[e] = arg[e]
    BY <1>21, <2>5, NoLocals DEF Receive, Continue, Answer, Goto, TypeInv, ThreadTypes
  <2>7. SockOK(pc[c], arg[c])'
    BY <2>6 DEF SockOK, Early
  <2>8. QED
    BY <1>a, <2>6, <2>7
<1>22. ASSUME NEW c \in Clients, ReceiveFails(c)
      PROVE  SockInv'
  <2> DEFINE k == arg[c].sock
             s == arg[c].slot
  <2>1. /\ k \in Conns \cup {None} /\ k \notin Readable \cup Healthy /\ SockOK("recv", arg[c])
        /\ UNCHANGED <<ssPc, toNS>>
    BY <1>22 DEF ReceiveFails, SockInv, TypeInv, ThreadTypes, Calls, netVars
  <2>2. k # None => Silent(k)
    BY <2>1 DEF Readable, Healthy, Open, Up, SlotInv, Silent
  <2>3. s + 1 \in Conns => Silent(s + 1)
    BY <2>1, <2>2 DEF SockOK
  <2>4. /\ \/ pc'[c] = "idle" /\ arg'[c].sock = None
           \/ pc'[c] = "remove" /\ arg'[c] = arg[c]
        /\ \A e \in Clients \ {c} : pc'[e] = pc[e] /\ arg'[e] = arg[e]
    BY <1>22, NoLocals DEF ReceiveFails, Answer, Goto, TypeInv, ThreadTypes
  <2>5. SockOK(pc[c], arg[c])'
    BY <2>1, <2>2, <2>3, <2>4 DEF SockOK, Early, Silent
  <2>6. QED
    BY <1>a, <2>4, <2>5
<1>23. ASSUME NEW c \in Clients, SendOwner(c)
      PROVE  SockInv'
  <2>1. /\ pc'[c] = "idle" /\ arg'[c].sock = None
        /\ \A e \in Clients \ {c} : pc'[e] = pc[e] /\ arg'[e] = arg[e]
    BY <1>23, NoLocals DEF SendOwner, Answer, Goto, TypeInv, ThreadTypes
  <2>2. QED
    BY <1>b, <2>1 DEF Early, Labels
<1>24. ASSUME NEW k \in Conns, Served(k)
      PROVE  SockInv'
  BY <1>24, <1>d DEF Served, Serve, threads
<1>25. ASSUME NEW k \in Conns, Crash(k)
      PROVE  SockInv'
  BY <1>25, <1>d DEF Crash, threads
<1>26. ASSUME Tick
      PROVE  SockInv'
  BY <1>26, <1>d DEF Tick
<1>27. ASSUME UNCHANGED vars
      PROVE  SockInv'
  BY <1>27, <1>d DEF vars
<1>28. QED
  BY <1>1, <1>2, <1>3, <1>4, <1>5, <1>6, <1>7, <1>8, <1>9, <1>10, <1>11, <1>12, <1>13,
     <1>14, <1>15, <1>16, <1>17, <1>18, <1>19, <1>20, <1>21, <1>22, <1>23, <1>24,
     <1>25, <1>26, <1>27, SteadyCases DEF ClientThread, Kills

\* On every socket are owners, one request, or its reply.
LEMMA StreamStep ==
  ASSUME Steady, TypeInv, MutexFollowsExchange, PairInv, [Next]_vars, ~Kills
  PROVE  StreamInv'
<1> USE DEF PairInv
<1>a. ASSUME NEW k \in Conns PROVE k - 1 \in Slots
  BY StartAssumption, SizeAssumption DEF Steady, Conns, Slots
<1>b. ASSUME NEW k \in Conns
      PROVE  /\ toSS[k] \in Seq(Orders) /\ toNS[k] \in Seq(Replies) /\ Stream(k)
             /\ mutex[k - 1] \in Clients \cup {None} /\ (ssPc[k] = "off") \in BOOLEAN
  BY <1>a DEF TypeInv, ThreadTypes, NetTypes, StreamInv
<1>d. ASSUME UNCHANGED <<mutex, toSS, toNS, ssPc>>,
             \A d \in Clients : pc[d] \in Speaking => arg'[d].cmd = arg[d].cmd
      PROVE  StreamInv'
  <2>1. ASSUME NEW k \in Conns PROVE Stream(k)'
    <3>1. mutex[k - 1] # None => arg'[mutex[k - 1]].cmd = arg[mutex[k - 1]].cmd
      BY <1>a, <1>b, <1>d DEF MutexFollowsExchange
    <3>2. QED
      BY <1>b, <1>d, <3>1, StreamStays
  <2>2. QED
    BY <2>1 DEF StreamInv
<1>1. ASSUME NEW c \in Clients, Begun(c)
      PROVE  StreamInv'
  <2>1. /\ UNCHANGED <<mutex, toSS, toNS, ssPc>>
        /\ \A e \in Clients : pc[e] \in Speaking => arg'[e].cmd = arg[e].cmd
    BY <1>1 DEF Begun, Request, netVars, Speaking, TypeInv, ThreadTypes
  <2>2. QED
    BY <1>d, <2>1
<1>2. ASSUME NEW c \in Clients, Lookup(c)
      PROVE  StreamInv'
  <2>1. /\ UNCHANGED <<mutex, toSS, toNS, ssPc>>
        /\ \A e \in Clients : pc[e] \in Speaking => arg'[e].cmd = arg[e].cmd
    BY <1>2 DEF Lookup, Goto, netVars, Speaking, TypeInv, ThreadTypes, Calls
  <2>2. QED
    BY <1>d, <2>1
<1>3. ASSUME NEW c \in Clients, Hit(c)
      PROVE  StreamInv'
  <2>1. /\ UNCHANGED <<mutex, toSS, toNS, ssPc>>
        /\ \A e \in Clients : pc[e] \in Speaking => arg'[e].cmd = arg[e].cmd
    BY <1>3 DEF Hit, Found, Answer, Continue, Goto, netVars, Speaking, TypeInv, ThreadTypes,
       Calls
  <2>2. QED
    BY <1>d, <2>1
<1>4. ASSUME NEW c \in Clients, CacheAdd(c)
      PROVE  StreamInv'
  <2>1. /\ UNCHANGED <<mutex, toSS, toNS, ssPc>>
        /\ \A e \in Clients : pc[e] \in Speaking => arg'[e].cmd = arg[e].cmd
    BY <1>4 DEF CacheAdd, Found, Answer, Continue, Goto, netVars, Speaking, TypeInv,
       ThreadTypes, Calls
  <2>2. QED
    BY <1>d, <2>1
<1>5. ASSUME NEW c \in Clients, CheckPermission(c)
      PROVE  StreamInv'
  <2>1. /\ UNCHANGED <<mutex, toSS, toNS, ssPc>>
        /\ \A e \in Clients : pc[e] \in Speaking => arg'[e].cmd = arg[e].cmd
    BY <1>5 DEF CheckPermission, Answer, Continue, Goto, netVars, Speaking, TypeInv,
       ThreadTypes, Calls
  <2>2. QED
    BY <1>d, <2>1
<1>6. ASSUME NEW c \in Clients, FindInTrie(c)
      PROVE  StreamInv'
  <2>1. /\ UNCHANGED <<mutex, toSS, toNS, ssPc>>
        /\ \A e \in Clients : pc[e] \in Speaking => arg'[e].cmd = arg[e].cmd
    BY <1>6 DEF FindInTrie, Answer, Continue, Goto, netVars, Speaking, TypeInv, ThreadTypes,
       Calls
  <2>2. QED
    BY <1>d, <2>1
<1>7. ASSUME NEW c \in Clients, GetDetails(c)
      PROVE  StreamInv'
  <2>1. /\ UNCHANGED <<mutex, toSS, toNS, ssPc>>
        /\ \A e \in Clients : pc[e] \in Speaking => arg'[e].cmd = arg[e].cmd
    BY <1>7 DEF GetDetails, Answer, Continue, Goto, netVars, Speaking, TypeInv, ThreadTypes,
       Calls
  <2>2. QED
    BY <1>d, <2>1
<1>8. ASSUME NEW c \in Clients, DeleteRecord(c)
      PROVE  StreamInv'
  <2>1. /\ UNCHANGED <<mutex, toSS, toNS, ssPc>>
        /\ \A e \in Clients : pc[e] \in Speaking => arg'[e].cmd = arg[e].cmd
    BY <1>8 DEF DeleteRecord, Answer, Continue, Goto, netVars, Speaking, TypeInv,
       ThreadTypes, Calls
  <2>2. QED
    BY <1>d, <2>1
<1>9. ASSUME NEW c \in Clients, InvalidateEntry(c)
      PROVE  StreamInv'
  <2>1. /\ UNCHANGED <<mutex, toSS, toNS, ssPc>>
        /\ \A e \in Clients : pc[e] \in Speaking => arg'[e].cmd = arg[e].cmd
    BY <1>9 DEF InvalidateEntry, Continue, Goto, netVars, Speaking, TypeInv, ThreadTypes,
       Calls
  <2>2. QED
    BY <1>d, <2>1
<1>10. ASSUME NEW c \in Clients, SetFolder(c)
      PROVE  StreamInv'
  <2>1. /\ UNCHANGED <<mutex, toSS, toNS, ssPc>>
        /\ \A e \in Clients : pc[e] \in Speaking => arg'[e].cmd = arg[e].cmd
    BY <1>10 DEF SetFolder, Answer, Continue, Goto, netVars, Speaking, TypeInv, ThreadTypes,
       Calls
  <2>2. QED
    BY <1>d, <2>1
<1>11. ASSUME NEW c \in Clients, Grant(c)
      PROVE  StreamInv'
  <2>1. /\ UNCHANGED <<mutex, toSS, toNS, ssPc>>
        /\ \A e \in Clients : pc[e] \in Speaking => arg'[e].cmd = arg[e].cmd
    BY <1>11 DEF Grant, Answer, Continue, Goto, netVars, Speaking, TypeInv, ThreadTypes, Calls
  <2>2. QED
    BY <1>d, <2>1
<1>12. ASSUME NEW c \in Clients, AddFile(c)
      PROVE  StreamInv'
  <2>1. /\ UNCHANGED <<mutex, toSS, toNS, ssPc>>
        /\ \A e \in Clients : pc[e] \in Speaking => arg'[e].cmd = arg[e].cmd
    BY <1>12 DEF AddFile, Continue, Goto, netVars, Speaking, TypeInv, ThreadTypes, Calls
  <2>2. QED
    BY <1>d, <2>1
<1>13. ASSUME NEW c \in Clients, PickServer(c)
      PROVE  StreamInv'
  <2>1. /\ UNCHANGED <<mutex, toSS, toNS, ssPc>>
        /\ \A e \in Clients : pc[e] \in Speaking => arg'[e].cmd = arg[e].cmd
    BY <1>13 DEF PickServer, Answer, Continue, Goto, netVars, Speaking, TypeInv, ThreadTypes,
       Calls
  <2>2. QED
    BY <1>d, <2>1
<1>14. ASSUME NEW c \in Clients, Resolve(c)
      PROVE  StreamInv'
  <2>1. /\ UNCHANGED <<mutex, toSS, toNS, ssPc>>
        /\ \A e \in Clients : pc[e] \in Speaking => arg'[e].cmd = arg[e].cmd
    BY <1>14 DEF Resolve, Answer, Continue, Goto, netVars, Speaking, TypeInv, ThreadTypes,
       Calls
  <2>2. QED
    BY <1>d, <2>1
<1>15. ASSUME NEW c \in Clients, FindReported(c)
      PROVE  StreamInv'
  <2>1. /\ UNCHANGED <<mutex, toSS, toNS, ssPc>>
        /\ \A e \in Clients : pc[e] \in Speaking => arg'[e].cmd = arg[e].cmd
    BY <1>15 DEF FindReported, Answer, Goto, netVars, Speaking, TypeInv, ThreadTypes, Calls
  <2>2. QED
    BY <1>d, <2>1
<1>16. ASSUME NEW c \in Clients, RemoveServer(c)
      PROVE  StreamInv'
  <2>1. /\ UNCHANGED <<mutex, toSS, toNS, ssPc>>
        /\ \A e \in Clients : pc[e] \in Speaking => arg'[e].cmd = arg[e].cmd
    BY <1>16 DEF RemoveServer, Answer, Continue, Goto, netVars, Speaking, TypeInv,
       ThreadTypes, Calls
  <2>2. QED
    BY <1>d, <2>1
<1>17. ASSUME NEW c \in Clients, Purge(c)
      PROVE  StreamInv'
  <2>1. /\ UNCHANGED <<mutex, toSS, toNS, ssPc>>
        /\ \A e \in Clients : pc[e] \in Speaking => arg'[e].cmd = arg[e].cmd
    BY <1>17 DEF Purge, PurgeSlot, Answer, Goto, netVars, Speaking, TypeInv, ThreadTypes,
       Calls
  <2>2. QED
    BY <1>d, <2>1
<1>18. ASSUME NEW c \in Clients, Send(c)
      PROVE  StreamInv'
  <2> DEFINE k == Socket(c)
             s == arg[c].slot
             m == ToServer(c)
  <2>1. /\ arg[c] \in Calls /\ s \in Slots /\ SockOK("send", arg[c]) /\ mutex[s] = None
        /\ registry[s] \in {s + 1, None} /\ registry[s] \in Conns \cup {None}
    BY <1>18 DEF Send, SlotInv, SockInv, TypeInv, ThreadTypes, IndexTypes, Calls
  <2>2. k \in {s + 1, None} /\ k \in Conns \cup {None}
    BY <2>1 DEF Socket, SockOK, Calls
  <2>3. /\ mutex' = [mutex EXCEPT ![s] = c] /\ UNCHANGED <<ssPc, toNS>> /\ Post(k, m)
        /\ \A d \in Clients \ {c} : arg'[d] = arg[d]
    BY <1>18 DEF Send, Continue, TypeInv, ThreadTypes
  <2>4. arg'[c].cmd = arg[c].cmd
    BY <1>18 DEF Send, Continue, TypeInv, ThreadTypes, Calls
  <2>5. m \in Orders /\ m.for = c /\ m.type = arg[c].cmd
    BY <1>18, OrderTypes DEF Send, FileSteps, Labels, ToServer, Order
  <2> HIDE DEF m, k
  <2>6. mutex'[s] = c /\ \A i \in Slots \ {s} : mutex'[i] = mutex[i]
    BY <2>1, <2>3 DEF TypeInv, ThreadTypes
  <2>7. CASE s + 1 \in Conns
    <3>0. PICK j \in Conns : j = s + 1
      BY <2>7
    <3>1. j \in Conns /\ j - 1 = s
      BY <2>1, <3>0, Places
    <3>2. mutex[j - 1] = None
      BY <2>1, <3>1
    <3>3. toNS[j] = <<>> /\ Owners(toSS[j]) /\ (ssPc[j] = "off" => toSS[j] = <<>>)
      BY <3>1, <3>2, StreamFree
    <3>a. mutex'[j - 1] = c /\ arg'[c].cmd = arg[c].cmd /\ ssPc' = ssPc /\ toNS'[j] = toNS[j]
      BY <2>3, <2>4, <2>6, <3>1
    <3>4. Stream(j)'
      <4>1. CASE k \in Healthy
        <5>1. k = j /\ ssPc[j] # "off" /\ toSS'[j] = Append(toSS[j], m)
          BY <2>2, <2>3, <3>0, <4>1, Ranges DEF Post, Healthy, Open, Up, TypeInv, NetTypes
        <5>2. StreamOK(FALSE, c, arg[c].cmd, Append(toSS[j], m), <<>>)
          BY <1>b, <2>5, <3>1, <3>3, StreamSend, Ranges
        <5>3. (ssPc'[j] = "off") = FALSE /\ toNS'[j] = <<>>
          BY <3>3, <3>a, <5>1
        <5>4. QED
          BY <3>a, <5>1, <5>2, <5>3, StreamNext
      <4>2. CASE k \notin Healthy
        <5>1. UNCHANGED toSS
          BY <2>3, <4>2 DEF Post
        <5> DEFINE off == ssPc[j] = "off"
        <5>2. (ssPc'[j] = "off") = off /\ (off => toSS[j] = <<>>) /\ off \in BOOLEAN
          BY <3>3, <3>a
        <5> HIDE DEF off
        <5>3. StreamOK(off, c, arg[c].cmd, toSS[j], toNS[j])
          BY <1>b, <3>1, <3>3, <5>2, StreamIdle
        <5>4. QED
          BY <3>a, <5>1, <5>2, <5>3, StreamNext
      <4>3. QED
        BY <4>1, <4>2
    <3>5. \A i \in Conns \ {j} : toSS'[i] = toSS[i] /\ toNS'[i] = toNS[i]
      BY <2>2, <2>3, <3>0, Ranges DEF Post, Healthy, Open, TypeInv, NetTypes
    <3>6. \A i \in Slots \ {j - 1} : mutex'[i] = mutex[i]
      BY <2>6, <3>1
    <3>7. QED
      BY <2>3, <3>1, <3>4, <3>5, <3>6, StreamRest
  <2>8. CASE s + 1 \notin Conns
    <3>1. k = None
      BY <2>2, <2>8
    <3>2. UNCHANGED toSS
      BY <2>3, <3>1, Ranges DEF Post, Healthy, Open
    <3>3. ASSUME NEW j \in Conns PROVE Stream(j)'
      <4>1. j - 1 \in Slots /\ j - 1 # s
        BY <1>a, <2>1, <2>8, Places
      <4>2. mutex'[j - 1] = mutex[j - 1]
        BY <2>6, <4>1
      <4>3. mutex[j - 1] # None => arg'[mutex[j - 1]].cmd = arg[mutex[j - 1]].cmd
        BY <1>b, <2>3, <2>4
      <4>4. QED
        BY <1>b, <2>3, <3>2, <4>2, <4>3, StreamStays
    <3>4. QED
      BY <3>3 DEF StreamInv
  <2>9. QED
    BY <2>7, <2>8
<1>19. ASSUME NEW c \in Clients, SendFails(c)
      PROVE  StreamInv'
  <2>1. /\ UNCHANGED <<mutex, toSS, toNS, ssPc>>
        /\ \A e \in Clients : pc[e] \in Speaking => arg'[e].cmd = arg[e].cmd
    BY <1>19 DEF SendFails, Goto, netVars, Speaking, TypeInv, ThreadTypes, Calls
  <2>2. QED
    BY <1>d, <2>1
<1>20. ASSUME NEW c \in Clients, Wait(c)
      PROVE  StreamInv'
  <2>1. /\ UNCHANGED <<mutex, toSS, toNS, ssPc>>
        /\ \A e \in Clients : pc[e] \in Speaking => arg'[e].cmd = arg[e].cmd
    BY <1>20 DEF Wait, Continue, Goto, netVars, Speaking, TypeInv, ThreadTypes, Calls
  <2>2. QED
    BY <1>d, <2>1
<1>21. ASSUME NEW c \in Clients, Receive(c)
      PROVE  StreamInv'
  <2> DEFINE s == arg[c].slot
  <2>0. PICK k \in Conns : k = arg[c].sock
    BY <1>21 DEF Receive, Readable, Open
  <2>1. k \in Conns /\ toNS[k] # <<>> /\ s \in Slots /\ pc[c] = "recv"
    BY <1>21, <2>0 DEF Receive, Readable, TypeInv, ThreadTypes, Calls
  <2>a. k \in {s + 1, None}
    BY <2>0, <2>1 DEF SockInv, SockOK
  <2>2. k - 1 = s
    BY <2>1, <2>a, Places
  <2>3. mutex' = [mutex EXCEPT ![s] = None] /\ UNCHANGED <<ssPc, toSS>>
        /\ \A d \in Clients \ {c} : arg'[d] = arg[d]
    BY <1>21 DEF Receive, Unlock, Continue, Answer, TypeInv, ThreadTypes, netVars
  <2>4. mutex'[s] = None /\ \A i \in Slots \ {s} : mutex'[i] = mutex[i]
    BY <2>1, <2>3 DEF TypeInv, ThreadTypes
  <2>5. toNS' = [toNS EXCEPT ![k] = Tail(toNS[k])]
    BY <1>21, <2>0 DEF Receive
  <2>6. toNS'[k] = Tail(toNS[k]) /\ \A j \in Conns \ {k} : toNS'[j] = toNS[j]
    BY <2>1, <2>5 DEF TypeInv, NetTypes
  <2> DEFINE off == ssPc[k] = "off"
             h   == mutex[k - 1]
  <2>7. StreamOK(off, h, arg[h].cmd, toSS[k], toNS[k])
    BY <2>1 DEF StreamInv, Stream
  <2>8. (ssPc'[k] = "off") = off /\ mutex'[k - 1] = None
    BY <2>2, <2>3, <2>4
  <2> HIDE DEF off, h
  <2>9. StreamOK(off, None, arg'[None].cmd, toSS[k], Tail(toNS[k]))
    BY <1>b, <2>1, <2>7, StreamRead
  <2>10. Stream(k)'
    BY <2>3, <2>6, <2>8, <2>9, StreamNext
  <2>11. /\ \A j \in Conns \ {k} : toSS'[j] = toSS[j] /\ toNS'[j] = toNS[j]
         /\ \A i \in Slots \ {k - 1} : mutex'[i] = mutex[i]
    BY <2>2, <2>3, <2>4, <2>6
  <2>12. QED
    BY <2>1, <2>2, <2>3, <2>10, <2>11, StreamRest
<1>22. ASSUME NEW c \in Clients, ReceiveFails(c)
      PROVE  StreamInv'
  <2> DEFINE k == arg[c].sock
             s == arg[c].slot
  <2>1. /\ s \in Slots /\ k \in Conns \cup {None} /\ k \notin Readable \cup Healthy
        /\ SockOK("recv", arg[c])
    BY <1>22 DEF ReceiveFails, SockInv, TypeInv, ThreadTypes, Calls
  <2>2. mutex' = [mutex EXCEPT ![s] = None] /\ UNCHANGED <<ssPc, toSS>>
        /\ \A d \in Clients \ {c} : arg'[d] = arg[d]
    BY <1>22 DEF ReceiveFails, Unlock, Continue, Answer, TypeInv, ThreadTypes, netVars
  <2>3. mutex'[s] = None /\ \A i \in Slots \ {s} : mutex'[i] = mutex[i]
    BY <2>1, <2>2 DEF TypeInv, ThreadTypes
  <2>4. UNCHANGED toNS
    BY <1>22 DEF ReceiveFails, netVars
  <2>5. CASE s + 1 \in Conns
    <3>0. PICK j \in Conns : j = s + 1
      BY <2>5
    <3>1. Silent(j)
      BY <2>1, <3>0 DEF SockOK, Readable, Healthy, Open, Up, SlotInv, Silent
    <3>2. j - 1 = s
      BY <2>1, <3>0, Places
    <3>3. toSS[j] = <<>> /\ toNS[j] = <<>> /\ ssPc[j] = "off"
      BY <1>b, <3>1 DEF Silent, Stream, StreamOK
    <3>4. StreamOK(TRUE, None, arg'[None].cmd, <<>>, <<>>)
      BY DEF StreamOK
    <3>5. /\ (ssPc'[j] = "off") = TRUE /\ mutex'[j - 1] = None
          /\ toSS'[j] = <<>> /\ toNS'[j] = <<>>
      BY <2>2, <2>3, <2>4, <3>2, <3>3
    <3>6. Stream(j)'
      BY <3>4, <3>5, StreamNext
    <3>7. /\ \A i \in Conns \ {j} : toSS'[i] = toSS[i] /\ toNS'[i] = toNS[i]
          /\ \A i \in Slots \ {j - 1} : mutex'[i] = mutex[i]
      BY <2>2, <2>3, <2>4, <3>2
    <3>8. QED
      BY <2>2, <3>2, <3>6, <3>7, StreamRest
  <2>6. CASE s + 1 \notin Conns
    <3>1. ASSUME NEW i \in Conns PROVE Stream(i)'
      <4>1. i - 1 \in Slots /\ i - 1 # s
        BY <1>a, <2>1, <2>6, Places
      <4>2. mutex'[i - 1] = mutex[i - 1] /\ mutex[i - 1] # c
        BY <2>3, <4>1 DEF MutexFollowsExchange
      <4>3. mutex[i - 1] # None => arg'[mutex[i - 1]].cmd = arg[mutex[i - 1]].cmd
        BY <1>b, <2>2, <4>2
      <4>4. QED
        BY <1>b, <2>2, <2>4, <4>2, <4>3, StreamStays
    <3>2. QED
      BY <3>1 DEF StreamInv
  <2>7. QED
    BY <2>5, <2>6
<1>23. ASSUME NEW c \in Clients, SendOwner(c)
      PROVE  StreamInv'
  <2> DEFINE g == registry[arg[c].slot]
             s == arg[c].slot
             m == Order("OWNER", c, arg[c].file, c, 0)
  <2>1. /\ s \in Slots /\ mutex[s] = None /\ g \in {s + 1, None} /\ g \in Conns \cup {None}
    BY <1>23 DEF SendOwner, SlotInv, TypeInv, ThreadTypes, IndexTypes, Calls
  <2>2. /\ UNCHANGED <<mutex, ssPc, toNS>> /\ Post(g, m)
        /\ \A d \in Clients \ {c} : arg'[d] = arg[d]
    BY <1>23 DEF SendOwner, Answer, TypeInv, ThreadTypes
  <2>3. m \in Orders /\ m.type = "OWNER"
    BY <1>23, OrderTypes DEF SendOwner, FileSteps, Labels, Order
  <2> HIDE DEF m
  <2>4. CASE g \in Healthy
    <3>0. PICK k \in Conns : k = g
      BY <2>4 DEF Healthy, Open
    <3>1. k \in Conns /\ k - 1 = s /\ ssPc[k] # "off"
      <4>1. k \in Conns /\ ssPc[k] # "off"
        BY <2>4, <3>0 DEF Healthy, Up
      <4>2. QED
        BY <2>1, <3>0, <4>1, Places
    <3>2. toSS' = [toSS EXCEPT ![k] = Append(toSS[k], m)]
      BY <2>2, <2>4, <3>0 DEF Post
    <3>3. mutex[k - 1] = None
      BY <2>1, <3>1
    <3>4. toNS[k] = <<>> /\ Owners(toSS[k])
      BY <3>1, <3>3, StreamFree
    <3>5. Owners(Append(toSS[k], m)) /\ Append(toSS[k], m) \in Seq(Orders)
      BY <1>b, <2>3, <3>1, <3>4, StreamOwner, AppendProperties
    <3>6. StreamOK(FALSE, None, arg'[None].cmd, Append(toSS[k], m), toNS[k])
      BY <1>b, <3>1, <3>4, <3>5, StreamIdle
    <3>7. toSS'[k] = Append(toSS[k], m) /\ \A j \in Conns \ {k} : toSS'[j] = toSS[j]
      BY <3>1, <3>2 DEF TypeInv, NetTypes
    <3>8. (ssPc'[k] = "off") = FALSE /\ mutex'[k - 1] = None /\ toNS'[k] = toNS[k]
      BY <2>2, <3>1, <3>3
    <3>9. Stream(k)'
      BY <3>6, <3>7, <3>8, StreamNext
    <3>10. /\ \A j \in Conns \ {k} : toSS'[j] = toSS[j] /\ toNS'[j] = toNS[j]
           /\ \A i \in Slots \ {k - 1} : mutex'[i] = mutex[i]
      BY <2>2, <3>7
    <3>11. QED
      BY <2>2, <3>1, <3>9, <3>10, StreamRest
  <2>5. CASE g \notin Healthy
    <3>1. UNCHANGED toSS
      BY <2>2, <2>5 DEF Post
    <3>2. \A d \in Clients : pc[d] \in Speaking => arg'[d].cmd = arg[d].cmd
      BY <1>23, <2>2 DEF SendOwner, Speaking
    <3>3. QED
      BY <1>d, <2>2, <3>1, <3>2
  <2>6. QED
    BY <2>4, <2>5
<1>24. ASSUME NEW k \in Conns, Served(k)
      PROVE  StreamInv'
  <2> DEFINE m == Head(toSS[k])
  <2>1. PICK type, dir, replies :
          /\ Serve(k, type, dir, replies)
          /\ replies \in {<<>>, <<Expected(type)>>}
          /\ type = "OWNER" => replies = <<>>
    BY <1>24 DEF Served
  <2> DEFINE new == [i \in DOMAIN replies |-> Reply(replies[i], m.for, m.file, NoMeta)]
  <2>2. /\ ssPc[k] = "serve" /\ toSS[k] # <<>> /\ m.type = type
        /\ toSS' = [toSS EXCEPT ![k] = Tail(toSS[k])]
        /\ toNS' = [toNS EXCEPT ![k] = toNS[k] \o new]
        /\ UNCHANGED <<mutex, arg, ssPc>>
    BY <2>1 DEF Serve, Read, Respond, threads
  <2>3. m \in Orders
    BY <1>b, <2>2
  <2>4. Expected(type) \in ReplyTypes /\ NoMeta \in Meta
    BY DEF Expected, ReplyTypes, NoMeta, NoAcl, Meta, Acl, Perms, PERM_WRITE
  <2>5. /\ new \in Seq(Replies)
        /\ \/ new = <<>>
           \/ /\ m.type # "OWNER" /\ Len(new) = 1
              /\ new[1].for = m.for /\ new[1].type = Expected(m.type)
    <3>1. CASE replies = <<>>
      BY <3>1
    <3>2. CASE replies = <<Expected(type)>>
      <4> DEFINE rep == Reply(Expected(type), m.for, m.file, NoMeta)
      <4>1. rep \in Replies /\ rep.for = m.for /\ rep.type = Expected(m.type)
        BY <2>2, <2>3, <2>4 DEF Reply, Replies, Orders
      <4>2. DOMAIN replies = 1..1 /\ replies[1] = Expected(type)
        BY <3>2
      <4>3. new = [i \in 1..1 |-> rep]
        BY <4>2
      <4> HIDE DEF rep, new
      <4>4. new \in Seq(Replies) /\ Len(new) = 1 /\ new[1] = rep
        BY <4>1, <4>3
      <4>5. m.type # "OWNER"
        BY <2>1, <2>2, <3>2
      <4>6. QED
        BY <4>1, <4>4, <4>5
    <3>3. QED
      BY <2>1, <3>1, <3>2
  <2> HIDE DEF new
  <2>6. StreamOK(FALSE, mutex[k - 1], arg[mutex[k - 1]].cmd, toSS[k], toNS[k])
    BY <1>b, <2>2 DEF Stream
  <2>7. StreamOK(FALSE, mutex[k - 1], arg[mutex[k - 1]].cmd, Tail(toSS[k]), toNS[k] \o new)
    BY <1>b, <2>2, <2>5, <2>6, StreamServe
  <2>8. /\ toSS'[k] = Tail(toSS[k]) /\ toNS'[k] = toNS[k] \o new
        /\ \A j \in Conns \ {k} : toSS'[j] = toSS[j] /\ toNS'[j] = toNS[j]
    BY <2>2 DEF TypeInv, NetTypes
  <2>9. Stream(k)'
    BY <2>2, <2>7, <2>8 DEF Stream
  <2>10. ASSUME NEW j \in Conns \ {k} PROVE Stream(j)'
    BY <1>b, <2>2, <2>8 DEF Stream
  <2>11. QED
    BY <2>9, <2>10 DEF StreamInv
<1>25. ASSUME NEW k \in Conns, Crash(k)
      PROVE  StreamInv'
  <2>1. PICK n \in 0..Len(toNS[k]) : toNS' = [toNS EXCEPT ![k] = SubSeq(toNS[k], 1, n)]
    BY <1>25 DEF Crash
  <2>2. /\ UNCHANGED <<mutex, arg>> /\ toSS'[k] = <<>> /\ ssPc'[k] = "off"
        /\ toNS'[k] = SubSeq(toNS[k], 1, n)
        /\ \A j \in Conns \ {k} : toSS'[j] = toSS[j] /\ toNS'[j] = toNS[j] /\ ssPc'[j] = ssPc[j]
    BY <1>25, <2>1 DEF Crash, Exit, threads, TypeInv, NetTypes, RegTypes
  <2>3. StreamOK(TRUE, mutex[k - 1], arg[mutex[k - 1]].cmd, <<>>, SubSeq(toNS[k], 1, n))
    BY <1>b, StreamCrash DEF Stream
  <2>4. Stream(k)'
    BY <2>2, <2>3 DEF Stream
  <2>5. ASSUME NEW j \in Conns \ {k} PROVE Stream(j)'
    BY <1>b, <2>2 DEF Stream
  <2>6. QED
    BY <2>4, <2>5 DEF StreamInv
<1>26. ASSUME Tick
      PROVE  StreamInv'
  BY <1>26, <1>d DEF Tick, netVars
<1>27. ASSUME UNCHANGED vars
      PROVE  StreamInv'
  BY <1>27, <1>d DEF vars, netVars
<1>28. QED
  BY <1>1, <1>2, <1>3, <1>4, <1>5, <1>6, <1>7, <1>8, <1>9, <1>10, <1>11, <1>12, <1>13,
     <1>14, <1>15, <1>16, <1>17, <1>18, <1>19, <1>20, <1>21, <1>22, <1>23, <1>24,
     <1>25, <1>26, <1>27, SteadyCases DEF ClientThread, Kills

\* In the initial state the registered servers have the first slots, and nothing is sent.
LEMMA InitPairs == Steady /\ Init => PairInv
<1> SUFFICES ASSUME Steady, Init PROVE PairInv
  OBVIOUS
<1>1. /\ Len(Registered) \in Nat /\ Len(Registered) = MaxConns
      /\ \A i \in 1..Len(Registered) : Registered[i] \in Servers
  BY StartAssumption, ElementOfSeq DEF Steady
<1>2. SlotInv
  <2>1. \A i \in Slots : i < Len(Registered) <=> i + 1 \in Conns
    BY <1>1, Ranges DEF Conns
  <2>2. \A k \in Conns : k <= Len(Registered) /\ k \in 1..Len(Registered)
    BY <1>1 DEF Conns
  <2>3. \A s \in Servers : s # None
    BY NoneAssumption
  <2>4. \A k \in Conns : regPc[k] = "done" /\ server[k] # None /\ ssPc[k] # "hello"
    BY <1>1, <2>2, <2>3 DEF Init
  <2>5. ASSUME NEW i \in Slots
        PROVE  /\ registry[i] \in {i + 1, None}
               /\ registry[i] = None /\ i + 1 \in Conns => Silent(i + 1)
    <3>1. CASE i + 1 \in Conns
      <4>1. registry[i] = i + 1
        BY <2>1, <3>1 DEF Init
      <4>2. QED
        BY <3>1, <4>1, Ranges
    <3>2. CASE i + 1 \notin Conns
      <4>1. registry[i] = None
        BY <2>1, <3>2 DEF Init
      <4>2. QED
        BY <3>2, <4>1
    <3>3. QED
      BY <3>1, <3>2
  <2>6. closed = {}
    BY DEF Init
  <2>7. QED
    BY <2>4, <2>5, <2>6 DEF SlotInv
<1>3. SockInv
  BY NoLocals DEF Init, SockInv, SockOK, Early
<1>4. StreamInv
  BY DEF Init, StreamInv, Stream, StreamOK
<1>5. QED
  BY <1>2, <1>3, <1>4 DEF PairInv

\* Once the name server is gone its threads make no step.
LEMMA GoneStays ==
  ASSUME TypeInv, \A c \in Clients : pc[c] = "gone", [Next]_vars, ~Kills
  PROVE  UNCHANGED pc
<1>1. ASSUME NEW c \in Clients, Begun(c) PROVE FALSE
  BY <1>1 DEF Begun, Request
<1>2. ASSUME NEW c \in Clients, ClientThread(c) PROVE FALSE
  BY <1>2 DEF ClientThread, Lookup, Hit, CacheAdd, CheckPermission, FindInTrie, GetDetails,
     DeleteRecord, InvalidateEntry, SetFolder, Grant, AddFile, PickServer, Resolve,
     FindReported, RemoveServer, Purge, Send, SendFails, Wait, Receive, ReceiveFails,
     SendOwner, Kills
<1>3. ASSUME NEW k \in Conns, RegistrationThread(k) PROVE UNCHANGED pc
  BY <1>3 DEF RegistrationThread, Register, RegisterAck, RegisterAckAgain, SyncFile, SyncEnds,
     SyncFails, RegisterRemove, RegisterPurge, threads, Kills
<1>4. ASSUME NEW k \in Conns, Hello(k) \/ LoseNameServer(k) \/ Crash(k) PROVE UNCHANGED pc
  BY <1>4 DEF Hello, LoseNameServer, Crash, threads
<1>5. ASSUME NEW k \in Conns, Served(k) PROVE UNCHANGED pc
  BY <1>5 DEF Served, Serve, threads
<1>6. ASSUME NEW s \in Servers, Connect(s) PROVE UNCHANGED pc
  BY <1>6 DEF Connect, threads
<1>7. ASSUME Tick \/ UNCHANGED vars PROVE UNCHANGED pc
  BY <1>7 DEF Tick, vars
<1>8. QED
  BY <1>1, <1>2, <1>3, <1>4, <1>5, <1>6, <1>7, RequestStarts, ServeForms DEF Next, ServerThread

\* A reply that a handler reads answers its own request, for any number of clients,
\* servers, requests and crashes, as long as no server registers and none is reported
\* dead.
THEOREM RepliesPaired ==
  ASSUME Steady
  PROVE  Spec => []ReplyPairing
<1> DEFINE Gone == \A c \in Clients : pc[c] = "gone"
<1>1. Init => IndInv /\ PairInv
  BY InitTypes, InitPairs
<1>2. IndInv /\ (PairInv \/ Gone) /\ [Next]_vars => (IndInv /\ (PairInv \/ Gone))'
  <2> SUFFICES ASSUME IndInv, PairInv \/ Gone, [Next]_vars PROVE IndInv' /\ (PairInv \/ Gone)'
    OBVIOUS
  <2>1. IndInv' /\ TypeInv /\ MutexFollowsExchange
    BY StepTypes DEF IndInv
  <2>2. CASE Kills
    BY <2>1, <2>2, KillForm DEF Kill
  <2>3. CASE PairInv /\ ~Kills
    <3>1. SlotInv'
      BY <2>1, <2>3, SlotStep DEF PairInv
    <3>2. SockInv'
      BY <2>1, <2>3, SockStep
    <3>3. StreamInv'
      BY <2>1, <2>3, StreamStep
    <3>4. QED
      BY <2>1, <3>1, <3>2, <3>3 DEF PairInv
  <2>4. CASE Gone /\ ~Kills
    <3>1. UNCHANGED pc
      BY <2>1, <2>4, GoneStays
    <3>2. QED
      BY <2>1, <2>4, <3>1
  <2>5. QED
    BY <2>2, <2>3, <2>4
<1>3. IndInv /\ PairInv => ReplyPairing
  <2> SUFFICES ASSUME IndInv, PairInv, NEW c \in Clients, pc[c] = "recv", arg[c].sock # None,
                      toNS[arg[c].sock] # <<>>
               PROVE  Head(toNS[arg[c].sock]).for = c
    BY DEF ReplyPairing
  <2> DEFINE k == arg[c].sock
  <2>1. k \in Conns /\ arg[c].slot \in Slots /\ toNS[k] \in Seq(Replies)
    BY DEF IndInv, TypeInv, ThreadTypes, Calls, NetTypes
  <2>a. k \in {arg[c].slot + 1, None}
    BY DEF PairInv, SockInv, SockOK
  <2>2. k - 1 = arg[c].slot
    BY <2>1, <2>a, Places
  <2>3. mutex[k - 1] = c
    BY <2>1, <2>2 DEF IndInv, MutexFollowsExchange, Speaking
  <2>4. toNS[k][1].for = c
    BY <2>1, <2>3 DEF PairInv, StreamInv, Stream, StreamOK
  <2>5. Head(toNS[k]) = toNS[k][1]
    BY <2>1
  <2>6. QED
    BY <2>4, <2>5
<1>4. IndInv /\ Gone => ReplyPairing
  BY DEF ReplyPairing
<1>5. QED
  BY <1>1, <1>2, <1>3, <1>4, PTL DEF Spec

-----------------------------------------------------------------------------
(* Files that one client asks for *)

\* Every client has files of its own, servers neither stop nor are reported dead, no file
\* is on two servers or on one that is not registered, and the cache has a place for each.
Private ==
  /\ Steady /\ "CRASH" \notin Commands
  /\ Cardinality(Files) <= CacheSize
  /\ \A c, d \in Clients : c # d => Uses[c] \cap Uses[d] = {}
  /\ \A f \in Files, s, t \in Servers : OnDisk[s][f] # None /\ OnDisk[t][f] # None => s = t
  /\ \A f \in Files, s \in Servers :
       OnDisk[s][f] # None => \E i \in 1..Len(Registered) : Registered[i] = s

\* What the disks and the cache say of file f: access lists by server, slots by entry.
Disks(f)  == [s \in HomesOf(f) |-> disk[s][f].acl]
Cached(f) == [k \in Hits(f) |-> cache[k].ss]

\* For a record rec, disks d and cache entries h of a file.
HomeAt(d, i) == i + 1 \in Conns /\ DOMAIN d = {Registered[i + 1]}
ListAt(d, i) == d[Registered[i + 1]]
Known(rec, d, h) == rec # None /\ HomeAt(d, rec.ss) /\ \A k \in DOMAIN h : h[k] = rec.ss
Unknown(rec, h)  == rec = None /\ DOMAIN h = {}
Settled(rec, d, h) ==
  \/ Unknown(rec, h) /\ DOMAIN d = {}
  \/ Known(rec, d, h) /\ ListAt(d, rec.ss) = rec.acl

\* ADDACCESS and REMACCESS of handler a: the record is ahead of the disk.
Granting(a, rec, d, h) ==
  /\ Known(rec, d, h)
  /\ rec.acl = SetAcl(ListAt(d, rec.ss), a.user, a.perm)
  /\ a.cmd = "ADD" => ~AclFull(ListAt(d, rec.ss), a.user)
  /\ a.cmd = "REM" => a.perm = 0

\* The file before its storage server has served the request of a, and after it.
Middle(a, rec, d, h) ==
  IF a.cmd \in {"ADD", "REM"} THEN Granting(a, rec, d, h)
  ELSE a.cmd # "DELETE" /\ Settled(rec, d, h)
Asked(a, rec, d, h) ==
  CASE a.cmd = "CREATE" -> Unknown(rec, h) /\ DOMAIN d = {} /\ a.slot + 1 \in Conns
    [] a.cmd = "DELETE" -> Unknown(rec, h) /\ HomeAt(d, a.slot)
    [] OTHER -> Middle(a, rec, d, h) /\ rec # None /\ a.slot = rec.ss
Done(a, rec, d, h) ==
  CASE a.cmd = "CREATE" -> Unknown(rec, h) /\ HomeAt(d, a.slot) /\ ListAt(d, a.slot) = NoAcl
    [] a.cmd = "DELETE" -> Unknown(rec, h) /\ DOMAIN d = {}
    [] OTHER -> Settled(rec, d, h)

\* The descriptor of an exchange is that of its slot.
Linked(a) == a.sock = a.slot + 1 /\ a.sock \in Conns

\* The file at each step of a handler; pend says that its request is on its way.
Working(label, a, pend, rec, d, h) ==
  \/ /\ label \in {"perm", "details", "setfolder"}
     /\ Settled(rec, d, h) /\ a.cmd \notin {"CREATE", "DELETE", "ADD", "REM"}
  \/ label = "delete" /\ Settled(rec, d, h) /\ a.cmd = "DELETE"
  \/ /\ label = "grant" /\ Settled(rec, d, h)
     /\ a.cmd \in {"ADD", "REM"} /\ (a.cmd = "REM" => a.perm = 0)
  \/ label = "lookup" /\ Middle(a, rec, d, h)
  \/ label = "hit" /\ Middle(a, rec, d, h) /\ a.key \in DOMAIN h
  \/ label = "trie" /\ Middle(a, rec, d, h) /\ DOMAIN h = {}
  \/ /\ label = "cacheadd" /\ Middle(a, rec, d, h)
     /\ DOMAIN h = {} /\ rec # None /\ a.slot = rec.ss
  \/ label = "pick" /\ a.cmd = "CREATE" /\ Unknown(rec, h) /\ DOMAIN d = {}
  \/ label = "invalidate" /\ a.cmd = "DELETE" /\ rec = None /\ HomeAt(d, a.slot)
  \/ label = "resolve" /\ a.cmd # "CREATE" /\ Asked(a, rec, d, h)
  \/ label = "send" /\ Asked(a, rec, d, h) /\ (a.cmd \in {"INFO", "EXEC"} => Linked(a))
  \/ label \in Speaking /\ Linked(a) /\ pend /\ Asked(a, rec, d, h)
  \/ label \in Speaking /\ Linked(a) /\ ~pend /\ Done(a, rec, d, h)
  \/ label = "add" /\ a.cmd = "CREATE" /\ Done(a, rec, d, h)
  \/ label = "owner" /\ Settled(rec, d, h) /\ rec # None /\ a.slot = rec.ss

\* The slot of a handler's exchange still carries a request.
Pending(c) == ~Owners(toSS[arg[c].slot + 1])

FileOK(c, f) ==
  IF pc[c] # "idle" /\ f = arg[c].file
  THEN Working(pc[c], arg[c], Pending(c), trie[f], Disks(f), Cached(f))
  ELSE Settled(trie[f], Disks(f), Cached(f))

\* No server stops, and every request on a socket is that of the mutex's holder.
CalmInv ==
  /\ \A k \in Conns : ssPc[k] = "serve" /\ server[k] = Registered[k]
  /\ \A k \in Conns : \A j \in 1..Len(toSS[k]) :
       toSS[k][j].type # "OWNER" => toSS[k][j] = ToServer(mutex[k - 1])
\* A cache entry is that of a file, and no other is.
CacheInv ==
  \A k \in Keys : cache[k].valid =>
    cache[k].file \in Files /\ \A j \in Keys : j \in Hits(cache[k].file) => j = k
FileInv ==
  \A c \in Clients :
    /\ pc[c] # "idle" => arg[c].file \in Uses[c]
    /\ \A f \in Uses[c] : FileOK(c, f)
PrivateInv == CalmInv /\ CacheInv /\ FileInv

\* Only an exchange looks at the socket.
LEMMA WorkingElsewhere ==
  ASSUME NEW label, label \notin Speaking, NEW a, NEW p, NEW q, NEW rec, NEW d, NEW h,
         Working(label, a, p, rec, d, h)
  PROVE  Working(label, a, q, rec, d, h)
  BY Zenon DEF Working

\* A step of client c for its file f that leaves the other files and exchanges alone.
LEMMA FileStep ==
  ASSUME Private, TypeInv, FileInv, NEW c \in Clients, NEW f \in Uses[c],
         pc[c] # "idle" => arg[c].file = f, pc'[c] # "idle" => arg'[c].file = f,
         \A e \in Clients \ {c} : pc'[e] = pc[e] /\ arg'[e] = arg[e],
         \A e \in Clients \ {c} :
           pc[e] \in Speaking => toSS'[arg[e].slot + 1] = toSS[arg[e].slot + 1],
         \A g \in Files \ {f} :
           trie'[g] = trie[g] /\ Disks(g)' = Disks(g) /\ Cached(g)' = Cached(g),
         FileOK(c, f)'
  PROVE  FileInv'
<1>a. \A e \in Clients : Uses[e] \subseteq Files
  BY UsesAssumption
<1>1. \A g \in Uses[c] \ {f} : FileOK(c, g)'
  <2> SUFFICES ASSUME NEW g \in Uses[c] \ {f} PROVE FileOK(c, g)'
    OBVIOUS
  <2>1. Settled(trie[g], Disks(g), Cached(g))
    <3>1. FileOK(c, g) /\ ~(pc[c] # "idle" /\ g = arg[c].file)
      BY DEF FileInv
    <3>2. QED
      BY <3>1, Zenon DEF FileOK
  <2>2. Settled(trie[g], Disks(g), Cached(g))'
    <3>1. trie'[g] = trie[g] /\ Disks(g)' = Disks(g) /\ Cached(g)' = Cached(g)
      BY <1>a
    <3>2. QED
      BY <2>1, <3>1
  <2>3. ~(pc'[c] # "idle" /\ g = arg'[c].file)
    OBVIOUS
  <2>4. QED
    BY <2>2, <2>3, Zenon DEF FileOK
<1>2. ASSUME NEW e \in Clients \ {c}, NEW g \in Uses[e] PROVE FileOK(e, g)'
  <2>1. g # f /\ g \in Files
    BY <1>a DEF Private
  <2>2. trie'[g] = trie[g] /\ Disks(g)' = Disks(g) /\ Cached(g)' = Cached(g)
        /\ pc'[e] = pc[e] /\ arg'[e] = arg[e]
    BY <2>1
  <2>3. FileOK(e, g)
    BY DEF FileInv
  <2>4. CASE pc[e] # "idle" /\ g = arg[e].file
    <3>1. Working(pc[e], arg[e], Pending(e), trie[g], Disks(g), Cached(g))
      BY <2>3, <2>4, Zenon DEF FileOK
    <3>2. Working(pc[e], arg[e], Pending(e)', trie[g], Disks(g), Cached(g))
      <4>1. CASE pc[e] \in Speaking
        <5>1. Pending(e)' <=> Pending(e)
          BY <2>2, <4>1 DEF Pending
        <5>2. CASE Pending(e)
          BY <3>1, <5>1, <5>2, Zenon DEF Working
        <5>3. CASE ~Pending(e)
          BY <3>1, <5>1, <5>3, Zenon DEF Working
        <5>4. QED
          BY <5>2, <5>3
      <4>2. CASE pc[e] \notin Speaking
        BY <3>1, <4>2, WorkingElsewhere
      <4>3. QED
        BY <4>1, <4>2
    <3>3. Working(pc[e], arg[e], Pending(e), trie[g], Disks(g), Cached(g))'
      BY <2>2, <3>2
    <3>4. pc'[e] # "idle" /\ g = arg'[e].file
      BY <2>2, <2>4
    <3>5. QED
      BY <3>3, <3>4, Zenon DEF FileOK
  <2>5. CASE ~(pc[e] # "idle" /\ g = arg[e].file)
    <3>1. Settled(trie[g], Disks(g), Cached(g))
      BY <2>3, <2>5, Zenon DEF FileOK
    <3>2. Settled(trie[g], Disks(g), Cached(g))'
      BY <2>2, <3>1
    <3>3. ~(pc'[e] # "idle" /\ g = arg'[e].file)
      BY <2>2, <2>5
    <3>4. QED
      BY <3>2, <3>3, Zenon DEF FileOK
  <2>6. QED
    BY <2>4, <2>5
<1>3. \A e \in Clients : pc'[e] # "idle" => arg'[e].file \in Uses[e]
  <2>1. \A e \in Clients \ {c} : pc'[e] # "idle" => arg'[e].file \in Uses[e]
    BY DEF FileInv
  <2>2. QED
    BY <2>1
<1>4. QED
  BY <1>1, <1>2, <1>3, Zenon DEF FileInv

\* A handler that goes to label l with locals a, when its file is then as it should be.
LEMMA HandlerStep ==
  ASSUME Private, TypeInv, FileInv, NEW c \in Clients, pc[c] # "idle",
         NEW f, arg[c].file = f, NEW l, NEW a,
         pc' = [pc EXCEPT ![c] = l], arg' = [arg EXCEPT ![c] = a],
         l # "idle" => a.file = f,
         \A e \in Clients \ {c} :
           pc[e] \in Speaking => toSS'[arg[e].slot + 1] = toSS[arg[e].slot + 1],
         \A g \in Files \ {f} :
           trie'[g] = trie[g] /\ Disks(g)' = Disks(g) /\ Cached(g)' = Cached(g),
         NEW rec, NEW d, NEW h,
         trie'[f] = rec, Disks(f)' = d, Cached(f)' = h,
         l = "idle" => Settled(rec, d, h),
         l # "idle" => Working(l, a, ~Owners(toSS'[a.slot + 1]), rec, d, h)
  PROVE  FileInv'
<1>1. f \in Uses[c]
  BY DEF FileInv
<1>2. pc'[c] = l /\ arg'[c] = a /\ \A e \in Clients \ {c} : pc'[e] = pc[e] /\ arg'[e] = arg[e]
  BY DEF TypeInv, ThreadTypes
<1>3. FileOK(c, f)'
  <2>1. trie'[f] = rec /\ Disks(f)' = d /\ Cached(f)' = h
    OBVIOUS
  <2>2. CASE l = "idle"
    <3>1. Settled(trie[f], Disks(f), Cached(f))'
      BY <2>1, <2>2
    <3>2. ~(pc'[c] # "idle" /\ f = arg'[c].file)
      BY <1>2, <2>2
    <3>3. QED
      BY <3>1, <3>2, Zenon DEF FileOK
  <2>3. CASE l # "idle"
    <3>1. Working(pc'[c], arg'[c], Pending(c)', trie'[f], Disks(f)', Cached(f)')
      BY <1>2, <2>1, <2>3 DEF Pending
    <3>2. pc'[c] # "idle" /\ f = arg'[c].file
      BY <1>2, <2>3
    <3>3. QED
      BY <3>1, <3>2, Zenon DEF FileOK
  <2>4. QED
    BY <2>2, <2>3
<1>5. (pc[c] # "idle" => arg[c].file = f) /\ (pc'[c] # "idle" => arg'[c].file = f)
  BY <1>2
<1>6. QED
  BY <1>1, <1>2, <1>3, <1>5, FileStep

\* The locals of c, its file, and what record, disks and cache say of it.
At(c, a, f, rec, d, h) ==
  /\ pc[c] # "idle" /\ a = arg[c] /\ f = a.file
  /\ rec = trie[f] /\ d = Disks(f) /\ h = Cached(f)

\* What the invariant says of the file of a handler.
LEMMA AtWork ==
  ASSUME TypeInv, FileInv, NEW c \in Clients, pc[c] # "idle"
  PROVE  \E a, f, rec, d, h :
           /\ At(c, a, f, rec, d, h) /\ a \in Calls /\ f \in Uses[c] /\ f \in Files
           /\ rec \in Record \cup {None}
           /\ DOMAIN d = HomesOf(f) /\ DOMAIN h = Hits(f)
           /\ \A s \in HomesOf(f) : d[s] = disk[s][f].acl
           /\ \A k \in Hits(f) : h[k] = cache[k].ss
           /\ Working(pc[c], a, Pending(c), rec, d, h)
<1> DEFINE f == arg[c].file
<1>1. f \in Uses[c] /\ f \in Files
  BY UsesAssumption DEF FileInv
<1>2. FileOK(c, f)
  BY <1>1 DEF FileInv
<1>3. Working(pc[c], arg[c], Pending(c), trie[f], Disks(f), Cached(f))
  BY <1>2, Zenon DEF FileOK
<1>4. /\ DOMAIN Disks(f) = HomesOf(f) /\ DOMAIN Cached(f) = Hits(f)
      /\ \A s \in HomesOf(f) : Disks(f)[s] = disk[s][f].acl
      /\ \A k \in Hits(f) : Cached(f)[k] = cache[k].ss
  BY DEF Disks, Cached
<1>5. arg[c] \in Calls /\ trie[f] \in Record \cup {None}
  BY <1>1 DEF TypeInv, ThreadTypes, IndexTypes
<1> HIDE DEF f
<1>6. At(c, arg[c], f, trie[f], Disks(f), Cached(f))
  BY DEF At, f
<1>7. QED
  BY <1>1, <1>3, <1>4, <1>5, <1>6, Zenon

\* The steps, one by one.
LEMMA WorkingForms ==
  ASSUME NEW label, NEW a, NEW p, NEW rec, NEW d, NEW h, Working(label, a, p, rec, d, h)
  PROVE  /\ label \in {"perm", "details", "setfolder"} =>
              Settled(rec, d, h) /\ a.cmd \notin {"CREATE", "DELETE", "ADD", "REM"}
         /\ label = "delete" => Settled(rec, d, h) /\ a.cmd = "DELETE"
         /\ label = "grant" => /\ Settled(rec, d, h) /\ a.cmd \in {"ADD", "REM"}
                               /\ (a.cmd = "REM" => a.perm = 0)
         /\ label \in {"lookup", "hit", "trie", "cacheadd"} => Middle(a, rec, d, h)
         /\ label = "hit" => a.key \in DOMAIN h
         /\ label \in {"trie", "cacheadd"} => DOMAIN h = {}
         /\ label = "cacheadd" => rec # None /\ a.slot = rec.ss
         /\ label = "pick" => a.cmd = "CREATE" /\ Unknown(rec, h) /\ DOMAIN d = {}
         /\ label = "invalidate" => a.cmd = "DELETE" /\ rec = None /\ HomeAt(d, a.slot)
         /\ label = "resolve" => a.cmd # "CREATE" /\ Asked(a, rec, d, h)
         /\ label = "send" =>
              Asked(a, rec, d, h) /\ (a.cmd \in {"INFO", "EXEC"} => Linked(a))
         /\ label \in Speaking => Linked(a)
         /\ label \in Speaking => IF p THEN Asked(a, rec, d, h) ELSE Done(a, rec, d, h)
         /\ label = "add" => a.cmd = "CREATE" /\ Done(a, rec, d, h)
         /\ label = "owner" => Settled(rec, d, h) /\ rec # None /\ a.slot = rec.ss
         /\ label \notin {"report", "remove", "purge", "idle"}
<1>1. CASE label \in Speaking
  BY <1>1 DEF Working, Speaking
<1>2. CASE label \notin Speaking
  <2>1. label # "wait" /\ label # "recv"
    BY <1>2 DEF Speaking
  <2>2. QED
    BY <1>2, <2>1 DEF Working
<1>3. QED
  BY <1>1, <1>2

\* A step that changes nothing but the place and the locals of c.
LEMMA LocalStep ==
  ASSUME Private, TypeInv, FileInv, NEW c \in Clients,
         NEW a, NEW f, NEW rec, NEW d, NEW h, At(c, a, f, rec, d, h),
         NEW l, NEW b, pc' = [pc EXCEPT ![c] = l], arg' = [arg EXCEPT ![c] = b],
         UNCHANGED <<trie, cache, disk, toSS>>,
         l # "idle" => b.file = f,
         l = "idle" => Settled(rec, d, h),
         l # "idle" => Working(l, b, ~Owners(toSS[b.slot + 1]), rec, d, h)
  PROVE  FileInv'
<1>1. \A g : trie'[g] = trie[g] /\ Disks(g)' = Disks(g) /\ Cached(g)' = Cached(g)
  BY DEF Disks, Cached, HomesOf, Hits
<1>2. arg[c].file = f /\ trie[f] = rec /\ Disks(f) = d /\ Cached(f) = h /\ pc[c] # "idle"
  BY DEF At
<1>3. trie'[f] = rec /\ Disks(f)' = d /\ Cached(f)' = h
  BY <1>1, <1>2
<1>4. l # "idle" => Working(l, b, ~Owners(toSS'[b.slot + 1]), rec, d, h)
  OBVIOUS
<1>5. \A e \in Clients \ {c} :
        pc[e] \in Speaking => toSS'[arg[e].slot + 1] = toSS[arg[e].slot + 1]
  OBVIOUS
<1>6. \A g \in Files \ {f} :
           trie'[g] = trie[g] /\ Disks(g)' = Disks(g) /\ Cached(g)' = Cached(g)
  BY <1>1
<1>7. QED
  BY <1>2, <1>3, <1>4, <1>5, <1>6, HandlerStep

\* A request is begun.
LEMMA PrivateRequest ==
  ASSUME Private, TypeInv, FileInv, NEW c \in Clients, Requests(c)
  PROVE  FileInv'
<1> DEFINE Started(label, a) ==
      /\ label \in {"perm", "setfolder"} => a.cmd \notin {"CREATE", "DELETE", "ADD", "REM"}
      /\ label = "delete" => a.cmd = "DELETE"
      /\ label = "grant" => a.cmd \in {"ADD", "REM"} /\ (a.cmd = "REM" => a.perm = 0)
      /\ label = "lookup" => a.cmd \notin {"DELETE", "ADD", "REM"}
      /\ label \in {"perm", "setfolder", "delete", "grant", "lookup"}
<1>a. "DEAD" \notin Commands
  BY DEF Private, Steady
<1>1. PICK name, call, label :
        Request(c, name, call, label) /\ call.file \in Files /\ Started(label, call)
  <2>1. ASSUME NEW f \in Files, NEW cmd, NEW p, NEW u, NEW name, NEW label,
               Request(c, name, Call(cmd, f, p, u), label), Started(label, Call(cmd, f, p, u))
        PROVE  \E n, call, lab :
                 Request(c, n, call, lab) /\ call.file \in Files /\ Started(lab, call)
    <3>1. Call(cmd, f, p, u).file \in Files
      BY DEF Call
    <3>2. QED
      BY <2>1, <3>1
  <2>2. ASSUME NEW f, NEW cmd, NEW p, NEW u
        PROVE  Call(cmd, f, p, u).cmd = cmd /\ Call(cmd, f, p, u).perm = p
    BY DEF Call
  <2>3. \A f : /\ Started("lookup", Call("CREATE", f, 0, None))
               /\ Started("delete", Call("DELETE", f, 0, None))
               /\ Started("lookup", Call("REDIRECT", f, 0, None))
               /\ Started("setfolder", Call("MOVE", f, 0, None))
    BY <2>2
  <2>4. \A f, p, u : /\ Started("perm", Call("UNDO", f, p, None))
                     /\ Started("perm", Call("INFO", f, p, None))
                     /\ Started("perm", Call("EXEC", f, p, None))
                     /\ Started("perm", Call("REDIRECT", f, p, None))
                     /\ Started("grant", Call("ADD", f, p, u))
                     /\ Started("grant", Call("REM", f, 0, u))
    BY <2>2
  <2> HIDE DEF Started
  <2>5. ASSUME NEW f \in Files,
               \/ CreateRequest(c, f) \/ DeleteRequest(c, f) \/ UndoRequest(c, f)
               \/ InfoRequest(c, f) \/ ExecRequest(c, f) \/ LocateRequest(c, f)
               \/ MoveRequest(c, f)
        PROVE  \E n, call, lab :
                 Request(c, n, call, lab) /\ call.file \in Files /\ Started(lab, call)
    BY <2>1, <2>3, <2>4, <2>5 DEF CreateRequest, DeleteRequest, UndoRequest, InfoRequest, ExecRequest,
       LocateRequest, MoveRequest
  <2>6. ASSUME NEW f \in Files,
               \/ ReadRequest(c, f) \/ WriteRequest(c, f)
               \/ StreamRequest(c, f) \/ CheckpointRequest(c, f) \/ RevertRequest(c, f)
               \/ ViewCheckpointRequest(c, f) \/ ListCheckpointsRequest(c, f)
        PROVE  \E n, call, lab :
                 Request(c, n, call, lab) /\ call.file \in Files /\ Started(lab, call)
    BY <2>1, <2>4, <2>6 DEF Redirected, ReadRequest, WriteRequest, StreamRequest,
       CheckpointRequest, RevertRequest, ViewCheckpointRequest, ListCheckpointsRequest
  <2>7. ASSUME NEW f \in Files, NEW u \in Clients, NEW p,
               RemAccessRequest(c, f, u) \/ AddAccessRequest(c, f, u, p)
        PROVE  \E n, call, lab :
                 Request(c, n, call, lab) /\ call.file \in Files /\ Started(lab, call)
    BY <2>1, <2>4, <2>7 DEF RemAccessRequest, AddAccessRequest
  <2>8. ASSUME NEW s \in Servers, DeadReport(c, s) PROVE FALSE
    BY <1>a, <2>8 DEF DeadReport, Request
  <2>9. QED
    BY <2>5, <2>6, <2>7, <2>8 DEF Requests
<1>2. /\ pc[c] = "idle" /\ call.file \in Uses[c] \cup {None}
      /\ UNCHANGED <<trie, cache, disk, toSS>>
      /\ pc' = [pc EXCEPT ![c] = label] /\ arg' = [arg EXCEPT ![c] = call]
  BY <1>1 DEF Request, Goto, nsVars, netVars
<1>3. call.file \in Uses[c]
  BY <1>1, <1>2, NoneAssumption
<1>4. \A g : trie'[g] = trie[g] /\ Disks(g)' = Disks(g) /\ Cached(g)' = Cached(g)
  BY <1>2 DEF Disks, Cached, HomesOf, Hits
<1>5. /\ pc'[c] = label /\ arg'[c] = call
      /\ \A e \in Clients \ {c} : pc'[e] = pc[e] /\ arg'[e] = arg[e]
  BY <1>2 DEF TypeInv, ThreadTypes
<1>0. PICK f : f = call.file
  OBVIOUS
<1>6. Settled(trie[f], Disks(f), Cached(f))
  <2>1. FileOK(c, f)
    BY <1>0, <1>3 DEF FileInv
  <2>2. QED
    BY <1>2, <2>1, Zenon DEF FileOK
<1>7. Working(label, call, Pending(c)', trie[f], Disks(f), Cached(f))
  BY <1>1, <1>6 DEF Working, Middle
<1>8. FileOK(c, f)'
  <2>1. Working(pc'[c], arg'[c], Pending(c)', trie'[f], Disks(f)', Cached(f)')
    BY <1>4, <1>5, <1>7
  <2>2. pc'[c] # "idle" /\ f = arg'[c].file
    BY <1>0, <1>1, <1>5
  <2>3. QED
    BY <2>1, <2>2, Zenon DEF FileOK
<1>9. \A e \in Clients \ {c} :
        pc[e] \in Speaking => toSS'[arg[e].slot + 1] = toSS[arg[e].slot + 1]
  BY <1>2
<1>10. \A g \in Files \ {f} :
           trie'[g] = trie[g] /\ Disks(g)' = Disks(g) /\ Cached(g)' = Cached(g)
  BY <1>4
<1>11. f \in Uses[c] /\ (pc[c] # "idle" => arg[c].file = f) /\ (pc'[c] # "idle" => arg'[c].file = f)
  BY <1>0, <1>2, <1>3, <1>5
<1>12. QED
  BY <1>5, <1>8, <1>9, <1>10, <1>11, FileStep

\* Steps that move a handler on and change neither records nor cache nor sockets.
LEMMA PrivateLocal ==
  ASSUME Private, TypeInv, FileInv, NEW c \in Clients,
         \/ Hit(c) \/ CheckPermission(c) \/ FindInTrie(c) \/ GetDetails(c) \/ SetFolder(c)
  PROVE  FileInv'
<1>0. pc[c] # "idle"
  BY DEF Hit, CheckPermission, FindInTrie, GetDetails, SetFolder
<1>1. PICK a, f, rec, d, h :
           /\ At(c, a, f, rec, d, h) /\ a \in Calls /\ f \in Uses[c] /\ f \in Files
           /\ rec \in Record \cup {None}
           /\ DOMAIN d = HomesOf(f) /\ DOMAIN h = Hits(f)
           /\ \A s \in HomesOf(f) : d[s] = disk[s][f].acl
           /\ \A k \in Hits(f) : h[k] = cache[k].ss
           /\ Working(pc[c], a, Pending(c), rec, d, h)
  BY <1>0, AtWork
<1>2. a = arg[c] /\ f = a.file /\ rec = trie[f]
  BY <1>1 DEF At
<1>3. UNCHANGED <<trie, cache, disk, toSS>>
  BY DEF Hit, CheckPermission, FindInTrie, GetDetails, SetFolder, nsVars, netVars
<1>a. ASSUME Answer(c, "error"), Settled(rec, d, h) PROVE FileInv'
  <2>1. pc' = [pc EXCEPT ![c] = "idle"] /\ arg' = [arg EXCEPT ![c] = NoCall]
    BY <1>a DEF Answer, Goto
  <2>2. QED
    BY <1>1, <1>3, <1>a, <2>1, LocalStep
<1>b. ASSUME NEW l, NEW b, Continue(c, l, b), l # "idle", b.file = f,
             Working(l, b, ~Owners(toSS[b.slot + 1]), rec, d, h)
      PROVE  FileInv'
  <2>1. pc' = [pc EXCEPT ![c] = l] /\ arg' = [arg EXCEPT ![c] = b]
    BY <1>b DEF Continue, Goto
  <2>2. /\ l # "idle" => b.file = f
        /\ l = "idle" => Settled(rec, d, h)
        /\ l # "idle" => Working(l, b, ~Owners(toSS[b.slot + 1]), rec, d, h)
    BY <1>b
  <2>3. At(c, a, f, rec, d, h)
    BY <1>1
  <2>4. QED
    BY <1>3, <2>1, <2>2, <2>3, LocalStep
<1>c. ASSUME NEW i
      PROVE  /\ [a EXCEPT !.slot = i].file = f /\ [a EXCEPT !.slot = i].slot = i
             /\ [a EXCEPT !.slot = i].cmd = a.cmd /\ [a EXCEPT !.slot = i].user = a.user
             /\ [a EXCEPT !.slot = i].perm = a.perm
  BY <1>1, <1>2 DEF Calls
<1>d. ASSUME Middle(a, rec, d, h), rec # None, a.cmd # "CREATE", NEW p
      PROVE  Working("resolve", [a EXCEPT !.slot = rec.ss], p, rec, d, h)
  <2>1. PICK b : b = [a EXCEPT !.slot = rec.ss]
    OBVIOUS
  <2>2. b.cmd = a.cmd /\ b.user = a.user /\ b.perm = a.perm /\ b.slot = rec.ss
    BY <1>c, <2>1
  <2>3. Middle(b, rec, d, h)
    BY <1>d, <2>2 DEF Middle, Granting
  <2>4. b.cmd # "DELETE"
    BY <1>d, <2>2 DEF Middle
  <2>5. Asked(b, rec, d, h)
    BY <1>d, <2>2, <2>3, <2>4 DEF Asked
  <2>6. QED
    BY <1>d, <2>1, <2>2, <2>5 DEF Working
<1>4. CASE Hit(c)
  <2>1. pc[c] = "hit" /\ Found(c, cache[a.key].ss)
    BY <1>2, <1>4 DEF Hit
  <2>2. Middle(a, rec, d, h) /\ a.key \in DOMAIN h
    BY <1>1, <2>1, WorkingForms
  <2>3. cache[a.key].ss = rec.ss /\ rec # None
    <3>1. cache[a.key].ss = h[a.key]
      BY <1>1, <2>2
    <3>2. QED
      BY <2>2, <3>1 DEF Middle, Granting, Settled, Known, Unknown
  <2>4. CASE a.cmd = "CREATE"
    <3>1. Answer(c, "error") /\ Settled(rec, d, h)
      BY <1>2, <2>1, <2>2, <2>4 DEF Found, Middle
    <3>2. QED
      BY <1>a, <3>1
  <2>5. CASE a.cmd # "CREATE"
    <3>1. Continue(c, "resolve", [a EXCEPT !.slot = rec.ss])
      BY <1>2, <2>1, <2>3, <2>5 DEF Found
    <3>2. Working("resolve", [a EXCEPT !.slot = rec.ss],
                  ~Owners(toSS[[a EXCEPT !.slot = rec.ss].slot + 1]), rec, d, h)
      BY <1>d, <2>2, <2>3, <2>5
    <3>3. QED
      BY <1>b, <1>c, <3>1, <3>2
  <2>6. QED
    BY <2>4, <2>5
<1>5. CASE CheckPermission(c)
  <2>1. pc[c] = "perm"
    BY <1>5 DEF CheckPermission
  <2>2. Settled(rec, d, h) /\ a.cmd \notin {"CREATE", "DELETE", "ADD", "REM"}
    BY <1>1, <2>1, WorkingForms
  <2>3. CASE Allowed(c, a.file, a.perm)
    <3>1. PICK l : l \in {"details", "lookup"} /\ Continue(c, l, a)
      BY <1>2, <1>5, <2>3 DEF CheckPermission
    <3>2. Working(l, a, ~Owners(toSS[a.slot + 1]), rec, d, h)
      BY <2>2, <3>1 DEF Working, Middle
    <3>3. QED
      BY <1>2, <1>b, <3>1, <3>2
  <2>4. CASE ~Allowed(c, a.file, a.perm)
    <3>1. Answer(c, "error")
      BY <1>2, <1>5, <2>4 DEF CheckPermission
    <3>2. QED
      BY <1>a, <2>2, <3>1
  <2>5. QED
    BY <2>3, <2>4
<1>6. CASE FindInTrie(c)
  <2>1. pc[c] = "trie"
    BY <1>6 DEF FindInTrie
  <2>2. Middle(a, rec, d, h) /\ DOMAIN h = {}
    BY <1>1, <2>1, WorkingForms
  <2>3. CASE rec # None
    <3>1. Continue(c, "cacheadd", [a EXCEPT !.slot = rec.ss])
      BY <1>2, <1>6, <2>3 DEF FindInTrie
    <3>2. PICK b : b = [a EXCEPT !.slot = rec.ss]
      OBVIOUS
    <3>3. /\ b.cmd = a.cmd /\ b.user = a.user /\ b.perm = a.perm /\ b.slot = rec.ss
          /\ b.file = f
      BY <1>c, <3>2
    <3>4. Middle(b, rec, d, h)
      BY <2>2, <3>3 DEF Middle, Granting
    <3>5. Working("cacheadd", b, ~Owners(toSS[b.slot + 1]), rec, d, h)
      BY <2>2, <2>3, <3>3, <3>4 DEF Working
    <3>6. QED
      BY <1>b, <3>1, <3>2, <3>3, <3>5
  <2>4. CASE rec = None
    <3>1. Settled(rec, d, h) /\ Unknown(rec, h) /\ DOMAIN d = {}
      BY <2>2, <2>4 DEF Middle, Granting, Known, Unknown, Settled
    <3>2. CASE a.cmd = "CREATE"
      <4>1. Continue(c, "pick", a)
        BY <1>2, <1>6, <2>4, <3>2 DEF FindInTrie
      <4>2. Working("pick", a, ~Owners(toSS[a.slot + 1]), rec, d, h)
        BY <3>1, <3>2 DEF Working
      <4>3. QED
        BY <1>2, <1>b, <4>1, <4>2
    <3>3. CASE a.cmd # "CREATE"
      <4>1. Answer(c, "error")
        BY <1>2, <1>6, <2>4, <3>3 DEF FindInTrie
      <4>2. QED
        BY <1>a, <3>1, <4>1
    <3>4. QED
      BY <3>2, <3>3
  <2>5. QED
    BY <2>3, <2>4
<1>7. CASE GetDetails(c) \/ SetFolder(c)
  <2>1. pc[c] \in {"details", "setfolder"}
    BY <1>7 DEF GetDetails, SetFolder
  <2>2. Settled(rec, d, h) /\ a.cmd \notin {"CREATE", "DELETE", "ADD", "REM"}
    BY <1>1, <2>1, WorkingForms
  <2>3. \/ rec # None /\ Continue(c, "resolve", [a EXCEPT !.slot = rec.ss])
        \/ Answer(c, "error")
    BY <1>2, <1>7 DEF GetDetails, SetFolder, Owns
  <2>4. CASE rec # None /\ Continue(c, "resolve", [a EXCEPT !.slot = rec.ss])
    <3>1. Middle(a, rec, d, h)
      BY <2>2 DEF Middle
    <3>2. Working("resolve", [a EXCEPT !.slot = rec.ss],
                  ~Owners(toSS[[a EXCEPT !.slot = rec.ss].slot + 1]), rec, d, h)
      BY <1>d, <2>2, <2>4, <3>1
    <3>3. QED
      BY <1>b, <1>c, <2>4, <3>2
  <2>5. CASE Answer(c, "error")
    BY <1>a, <2>2, <2>5
  <2>6. QED
    BY <2>3, <2>4, <2>5
<1>8. QED
  BY <1>4, <1>5, <1>6, <1>7

\* While no server stops, every slot that has a connection is active.
LEMMA ActiveSlots ==
  ASSUME SlotInv, CalmInv
  PROVE  \A i \in Slots : i + 1 \in Conns => registry[i] = i + 1
  BY DEF SlotInv, CalmInv, Silent

\* The registry: a new file gets an active slot, and the slot of a record is active.
LEMMA PrivateSlots ==
  ASSUME Private, TypeInv, SlotInv, CalmInv, FileInv, NEW c \in Clients,
         PickServer(c) \/ Resolve(c) \/ Wait(c)
  PROVE  FileInv'
<1>0. pc[c] # "idle"
  BY DEF PickServer, Resolve, Wait
<1>1. PICK a, f, rec, d, h :
           /\ At(c, a, f, rec, d, h) /\ a \in Calls /\ f \in Uses[c] /\ f \in Files
           /\ rec \in Record \cup {None}
           /\ DOMAIN d = HomesOf(f) /\ DOMAIN h = Hits(f)
           /\ \A s \in HomesOf(f) : d[s] = disk[s][f].acl
           /\ \A k \in Hits(f) : h[k] = cache[k].ss
           /\ Working(pc[c], a, Pending(c), rec, d, h)
  BY <1>0, AtWork
<1>2. a = arg[c] /\ f = a.file /\ rec = trie[f]
  BY <1>1 DEF At
<1>3. UNCHANGED <<trie, cache, disk, toSS>>
  BY DEF PickServer, Resolve, Wait, nsVars, netVars
<1>a. ASSUME NEW r, Answer(c, r), Settled(rec, d, h) PROVE FileInv'
  <2>1. pc' = [pc EXCEPT ![c] = "idle"] /\ arg' = [arg EXCEPT ![c] = NoCall]
    BY <1>a DEF Answer, Goto
  <2>2. QED
    BY <1>1, <1>3, <1>a, <2>1, LocalStep
<1>b. ASSUME NEW l, NEW b, Continue(c, l, b), l # "idle", b.file = f,
             Working(l, b, ~Owners(toSS[b.slot + 1]), rec, d, h)
      PROVE  FileInv'
  <2>1. pc' = [pc EXCEPT ![c] = l] /\ arg' = [arg EXCEPT ![c] = b]
    BY <1>b DEF Continue, Goto
  <2>2. /\ l # "idle" => b.file = f
        /\ l = "idle" => Settled(rec, d, h)
        /\ l # "idle" => Working(l, b, ~Owners(toSS[b.slot + 1]), rec, d, h)
    BY <1>b
  <2>3. At(c, a, f, rec, d, h)
    BY <1>1
  <2>4. QED
    BY <1>3, <2>1, <2>2, <2>3, LocalStep
<1>4. CASE PickServer(c)
  <2>1. pc[c] = "pick"
    BY <1>4 DEF PickServer
  <2>2. a.cmd = "CREATE" /\ Unknown(rec, h) /\ DOMAIN d = {}
    BY <1>1, <2>1, WorkingForms
  <2>3. CASE Active = {}
    <3>1. Answer(c, "error") /\ Settled(rec, d, h)
      BY <1>4, <2>2, <2>3 DEF PickServer, Settled
    <3>2. QED
      BY <1>a, <3>1
  <2>4. CASE Active # {}
    <3>1. PICK i \in Slots : registry[i] # None /\ Continue(c, "send", [a EXCEPT !.slot = i])
      <4> DEFINE i == (nextSS + Min({e \in Slots : registry[(nextSS + e) % MaxServers] # None}))
                      % MaxServers
      <4>1. i \in Slots /\ registry[i] # None
        BY <2>4, RoundRobin DEF TypeInv
      <4>2. Continue(c, "send", [a EXCEPT !.slot = i])
        BY <1>2, <1>4, <2>4 DEF PickServer
      <4> HIDE DEF i
      <4>3. QED
        BY <4>1, <4>2
    <3>2. i + 1 \in Conns
      <4>1. registry[i] \in Conns \cup {None} /\ registry[i] \in {i + 1, None}
        BY DEF SlotInv, TypeInv, IndexTypes
      <4>2. QED
        BY <3>1, <4>1
    <3>3. PICK b : b = [a EXCEPT !.slot = i]
      OBVIOUS
    <3>4. b.cmd = "CREATE" /\ b.slot = i /\ b.file = f
      BY <1>1, <1>2, <2>2, <3>3 DEF Calls
    <3>5. Asked(b, rec, d, h)
      BY <2>2, <3>2, <3>4 DEF Asked
    <3>6. Working("send", b, ~Owners(toSS[b.slot + 1]), rec, d, h)
      BY <3>4, <3>5 DEF Working
    <3>7. QED
      BY <1>b, <3>1, <3>3, <3>4, <3>6
  <2>5. QED
    BY <2>3, <2>4
<1>5. CASE Resolve(c)
  <2>1. pc[c] = "resolve"
    BY <1>5 DEF Resolve
  <2>2. a.cmd # "CREATE" /\ Asked(a, rec, d, h)
    BY <1>1, <2>1, WorkingForms
  <2>3. a.slot \in Slots /\ a.slot + 1 \in Conns
    BY <1>1, <2>2 DEF Calls, Asked, Middle, Granting, Settled, Known, Unknown, HomeAt
  <2>4. registry[a.slot] # None
    BY <2>3, ActiveSlots, Ranges
  <2>5. CASE a.cmd = "REDIRECT"
    <3>1. Answer(c, "ok")
      BY <1>2, <1>5, <2>4, <2>5 DEF Resolve
    <3>2. Settled(rec, d, h)
      BY <2>2, <2>5 DEF Asked, Middle
    <3>3. QED
      BY <1>a, <3>1, <3>2
  <2>6. CASE a.cmd # "REDIRECT"
    <3>1. PICK b : b = [a EXCEPT !.sock = registry[a.slot]]
      OBVIOUS
    <3>2. Continue(c, "send", b)
      BY <1>2, <1>5, <2>4, <2>6, <3>1 DEF Resolve
    <3>3. /\ b.cmd = a.cmd /\ b.user = a.user /\ b.perm = a.perm /\ b.slot = a.slot
          /\ b.file = f
      BY <1>1, <1>2, <3>1 DEF Calls
    <3>4. Asked(b, rec, d, h)
      BY <2>2, <3>3 DEF Asked, Middle, Granting
    <3>a. Linked(b)
      <4>1. registry[a.slot] = a.slot + 1
        BY <2>3, ActiveSlots
      <4>2. b.sock = registry[a.slot]
        BY <1>1, <3>1 DEF Calls
      <4>3. QED
        BY <2>3, <3>3, <4>1, <4>2 DEF Linked
    <3>5. Working("send", b, ~Owners(toSS[b.slot + 1]), rec, d, h)
      BY <3>4, <3>a DEF Working
    <3>6. QED
      BY <1>b, <3>2, <3>3, <3>5
  <2>7. QED
    BY <2>5, <2>6
<1>6. CASE Wait(c)
  <2>1. pc[c] = "wait"
    BY <1>6 DEF Wait
  <2>2. Working("wait", a, Pending(c), rec, d, h) /\ (Pending(c) <=> ~Owners(toSS[a.slot + 1]))
    BY <1>1, <1>2, <2>1 DEF Pending
  <2>3. PICK b : b = [a EXCEPT !.sock = registry[a.slot]]
    OBVIOUS
  <2>4. Continue(c, "recv", b)
    BY <1>2, <1>6, <2>3 DEF Wait
  <2>5. /\ b.cmd = a.cmd /\ b.user = a.user /\ b.perm = a.perm /\ b.slot = a.slot
        /\ b.file = f
    BY <1>1, <1>2, <2>3 DEF Calls
  <2>6. IF Pending(c) THEN Asked(a, rec, d, h) ELSE Done(a, rec, d, h)
    BY <2>2, WorkingForms DEF Speaking
  <2>a. Linked(b)
    <3>1. Linked(a) /\ a.slot \in Slots
      BY <1>1, <2>2, WorkingForms DEF Speaking, Calls
    <3>2. registry[a.slot] = a.slot + 1
      BY <3>1, ActiveSlots DEF Linked
    <3>3. b.sock = registry[a.slot]
      BY <1>1, <2>3 DEF Calls
    <3>4. QED
      BY <2>5, <3>1, <3>2, <3>3 DEF Linked
  <2>7. CASE Pending(c)
    <3>1. Asked(b, rec, d, h)
      BY <2>5, <2>6, <2>7 DEF Asked, Middle, Granting
    <3>2. Working("recv", b, ~Owners(toSS[b.slot + 1]), rec, d, h)
      BY <2>2, <2>5, <2>7, <2>a, <3>1 DEF Working, Speaking
    <3>3. QED
      BY <1>b, <2>4, <2>5, <3>2
  <2>8. CASE ~Pending(c)
    <3>1. Done(b, rec, d, h)
      BY <2>5, <2>6, <2>8 DEF Done
    <3>2. Working("recv", b, ~Owners(toSS[b.slot + 1]), rec, d, h)
      BY <2>2, <2>5, <2>8, <2>a, <3>1 DEF Working, Speaking
    <3>3. QED
      BY <1>b, <2>4, <2>5, <3>2
  <2>9. QED
    BY <2>7, <2>8
<1>7. QED
  BY <1>4, <1>5, <1>6

\* A step that changes the record of the handler's file, and none but that.
LEMMA RecordStep ==
  ASSUME Private, TypeInv, FileInv, NEW c \in Clients,
         NEW a, NEW f \in Files, NEW rec, NEW d, NEW h, NEW l, NEW b, NEW new,
         At(c, a, f, rec, d, h),
         pc' = [pc EXCEPT ![c] = l], arg' = [arg EXCEPT ![c] = b],
         trie' = [trie EXCEPT ![f] = new], UNCHANGED <<cache, disk, toSS>>,
         l # "idle", b.file = f,
         Working(l, b, ~Owners(toSS[b.slot + 1]), new, d, h)
  PROVE  FileInv'
<1>1. \A g : Disks(g)' = Disks(g) /\ Cached(g)' = Cached(g)
  BY DEF Disks, Cached, HomesOf, Hits
<1>2. arg[c].file = f /\ Disks(f) = d /\ Cached(f) = h /\ pc[c] # "idle"
  BY DEF At
<1>3. trie'[f] = new /\ \A g \in Files \ {f} : trie'[g] = trie[g]
  BY DEF TypeInv, IndexTypes
<1>4. Disks(f)' = d /\ Cached(f)' = h
  BY <1>1, <1>2
<1>5. /\ l # "idle" => b.file = f
      /\ l = "idle" => Settled(new, d, h)
      /\ l # "idle" => Working(l, b, ~Owners(toSS'[b.slot + 1]), new, d, h)
  OBVIOUS
<1>6. \A e \in Clients \ {c} :
        pc[e] \in Speaking => toSS'[arg[e].slot + 1] = toSS[arg[e].slot + 1]
  OBVIOUS
<1>7. \A g \in Files \ {f} :
           trie'[g] = trie[g] /\ Disks(g)' = Disks(g) /\ Cached(g)' = Cached(g)
  BY <1>1, <1>3
<1>8. QED
  BY <1>2, <1>3, <1>4, <1>5, <1>6, <1>7, HandlerStep

\* Records come, go and get access lists.
LEMMA PrivateRecords ==
  ASSUME Private, TypeInv, FileInv, NEW c \in Clients,
         DeleteRecord(c) \/ Grant(c) \/ AddFile(c)
  PROVE  FileInv'
<1>0. pc[c] # "idle"
  BY DEF DeleteRecord, Grant, AddFile
<1>1. PICK a, f, rec, d, h :
           /\ At(c, a, f, rec, d, h) /\ a \in Calls /\ f \in Uses[c] /\ f \in Files
           /\ rec \in Record \cup {None}
           /\ DOMAIN d = HomesOf(f) /\ DOMAIN h = Hits(f)
           /\ \A s \in HomesOf(f) : d[s] = disk[s][f].acl
           /\ \A k \in Hits(f) : h[k] = cache[k].ss
           /\ Working(pc[c], a, Pending(c), rec, d, h)
  BY <1>0, AtWork
<1>2. a = arg[c] /\ f = a.file /\ rec = trie[f]
  BY <1>1 DEF At
<1>3. UNCHANGED <<cache, disk, toSS>>
  BY DEF DeleteRecord, Grant, AddFile, netVars
<1>a. ASSUME Answer(c, "error"), UNCHANGED trie, Settled(rec, d, h) PROVE FileInv'
  <2>1. pc' = [pc EXCEPT ![c] = "idle"] /\ arg' = [arg EXCEPT ![c] = NoCall]
    BY <1>a DEF Answer, Goto
  <2>2. QED
    BY <1>1, <1>3, <1>a, <2>1, LocalStep
<1>b. ASSUME NEW l, NEW b, NEW new, Continue(c, l, b), trie' = [trie EXCEPT ![f] = new],
             l # "idle", b.file = f, Working(l, b, ~Owners(toSS[b.slot + 1]), new, d, h)
      PROVE  FileInv'
  <2>1. pc' = [pc EXCEPT ![c] = l] /\ arg' = [arg EXCEPT ![c] = b]
    BY <1>b DEF Continue, Goto
  <2>2. At(c, a, f, rec, d, h) /\ f \in Files
    BY <1>1
  <2>3. /\ trie' = [trie EXCEPT ![f] = new] /\ l # "idle" /\ b.file = f
        /\ Working(l, b, ~Owners(toSS[b.slot + 1]), new, d, h)
    BY <1>b
  <2>4. QED
    BY <1>3, <2>1, <2>2, <2>3, RecordStep, Zenon
<1>4. CASE DeleteRecord(c)
  <2>1. pc[c] = "delete"
    BY <1>4 DEF DeleteRecord
  <2>2. Settled(rec, d, h) /\ a.cmd = "DELETE"
    BY <1>1, <2>1, WorkingForms
  <2>3. CASE Owns(c, f)
    <3>1. PICK b : b = [a EXCEPT !.slot = rec.ss]
      OBVIOUS
    <3>2. trie' = [trie EXCEPT ![f] = None] /\ Continue(c, "invalidate", b)
      BY <1>2, <1>4, <2>3, <3>1 DEF DeleteRecord
    <3>3. b.cmd = "DELETE" /\ b.slot = rec.ss /\ b.file = f
      BY <1>1, <1>2, <2>2, <3>1 DEF Calls
    <3>4. HomeAt(d, rec.ss)
      BY <1>2, <2>2, <2>3 DEF Owns, Settled, Known, Unknown
    <3>5. Working("invalidate", b, ~Owners(toSS[b.slot + 1]), None, d, h)
      BY <3>3, <3>4 DEF Working
    <3>6. QED
      BY <1>b, <3>2, <3>3, <3>5
  <2>4. CASE ~Owns(c, f)
    <3>1. Answer(c, "error") /\ UNCHANGED trie
      BY <1>2, <1>4, <2>4 DEF DeleteRecord
    <3>2. QED
      BY <1>a, <2>2, <3>1
  <2>5. QED
    BY <2>3, <2>4
<1>5. CASE Grant(c)
  <2>1. pc[c] = "grant"
    BY <1>5 DEF Grant
  <2>2. Settled(rec, d, h) /\ a.cmd \in {"ADD", "REM"} /\ (a.cmd = "REM" => a.perm = 0)
    BY <1>1, <2>1, WorkingForms
  <2>3. CASE Owns(c, f) /\ (a.cmd = "REM" \/ ~AclFull(rec.acl, a.user))
    <3>1. rec # None /\ rec \in Record
      BY <1>1, <1>2, <2>3 DEF Owns
    <3>2. PICK new : new = [rec EXCEPT !.acl = SetAcl(rec.acl, a.user, a.perm)]
      OBVIOUS
    <3>3. trie' = [trie EXCEPT ![f] = new] /\ Continue(c, "lookup", a)
      <4>1. trie' = [trie EXCEPT ![f].acl = SetAcl(@, a.user, a.perm)] /\ Continue(c, "lookup", a)
        BY <1>2, <1>5, <2>3 DEF Grant
      <4>2. QED
        BY <1>2, <3>2, <4>1
    <3>4. new.ss = rec.ss /\ new.acl = SetAcl(rec.acl, a.user, a.perm)
      BY <3>1, <3>2 DEF Record
    <3>5. new \in Record
      <4>1. rec.acl \in [Clients -> Perms] /\ a.perm \in Perms
        BY <1>1, <3>1 DEF Record, Acl, Calls
      <4>2. SetAcl(rec.acl, a.user, a.perm) \in Acl
        BY <4>1 DEF SetAcl, Acl
      <4>3. QED
        BY <3>1, <3>2, <4>2 DEF Record
    <3>6. new # None
      BY <3>5, RecordAssumption
    <3>7. Known(rec, d, h) /\ ListAt(d, rec.ss) = rec.acl
      BY <2>2, <3>1 DEF Settled, Unknown
    <3>8. Known(new, d, h) /\ ListAt(d, new.ss) = rec.acl
      BY <3>4, <3>6, <3>7 DEF Known
    <3>9. Granting(a, new, d, h)
      <4>1. a.cmd = "ADD" => ~AclFull(rec.acl, a.user)
        BY <2>3
      <4>2. QED
        BY <2>2, <3>4, <3>8, <4>1 DEF Granting
    <3>10. Working("lookup", a, ~Owners(toSS[a.slot + 1]), new, d, h)
      BY <2>2, <3>9 DEF Working, Middle
    <3>11. QED
      BY <1>2, <1>b, <3>3, <3>10
  <2>4. CASE ~(Owns(c, f) /\ (a.cmd = "REM" \/ ~AclFull(rec.acl, a.user)))
    <3>1. Answer(c, "error") /\ UNCHANGED trie
      BY <1>2, <1>5, <2>4 DEF Grant
    <3>2. QED
      BY <1>a, <2>2, <3>1
  <2>5. QED
    BY <2>3, <2>4
<1>6. CASE AddFile(c)
  <2>1. pc[c] = "add"
    BY <1>6 DEF AddFile
  <2>2. a.cmd = "CREATE" /\ Done(a, rec, d, h)
    BY <1>1, <2>1, WorkingForms
  <2>3. Unknown(rec, h) /\ HomeAt(d, a.slot) /\ ListAt(d, a.slot) = NoAcl
    BY <2>2 DEF Done
  <2>4. PICK new : new = [ss |-> a.slot, owner |-> c, acl |-> NoAcl]
    OBVIOUS
  <2>5. trie' = [trie EXCEPT ![f] = new] /\ Continue(c, "owner", a)
    BY <1>2, <1>6, <2>3, <2>4 DEF AddFile, Unknown
  <2>6. new.ss = a.slot /\ new.acl = NoAcl
    BY <2>4
  <2>7. new # None
    <3>1. a.slot \in Slots
      BY <1>1 DEF Calls
    <3>2. NoAcl \in Acl
      BY DEF NoAcl, Acl, Perms, PERM_WRITE
    <3>3. new \in Record
      BY <2>4, <3>1, <3>2 DEF Record
    <3>4. QED
      BY <3>3, RecordAssumption
  <2>8. Known(new, d, h)
    BY <2>3, <2>6, <2>7 DEF Known, Unknown
  <2>9. Settled(new, d, h)
    BY <2>3, <2>6, <2>8 DEF Settled
  <2>10. Working("owner", a, ~Owners(toSS[a.slot + 1]), new, d, h)
    BY <2>6, <2>7, <2>9 DEF Working
  <2>11. QED
    BY <1>2, <1>b, <2>5, <2>10
<1>7. QED
  BY <1>4, <1>5, <1>6

\* A step that changes the cache entries of the handler's file, and none but those.
LEMMA CacheStep ==
  ASSUME Private, TypeInv, FileInv, NEW c \in Clients,
         NEW a, NEW f \in Files, NEW rec, NEW d, NEW h, NEW l, NEW b, NEW new,
         At(c, a, f, rec, d, h),
         pc' = [pc EXCEPT ![c] = l], arg' = [arg EXCEPT ![c] = b],
         UNCHANGED <<trie, disk, toSS>>,
         \A g \in Files \ {f} : Cached(g)' = Cached(g), Cached(f)' = new,
         l # "idle" => b.file = f,
         l = "idle" => Settled(rec, d, new),
         l # "idle" => Working(l, b, ~Owners(toSS[b.slot + 1]), rec, d, new)
  PROVE  FileInv'
<1>1. \A g : Disks(g)' = Disks(g) /\ trie'[g] = trie[g]
  BY DEF Disks, HomesOf
<1>2. arg[c].file = f /\ Disks(f) = d /\ trie[f] = rec /\ pc[c] # "idle"
  BY DEF At
<1>3. Disks(f)' = d /\ trie'[f] = rec /\ Cached(f)' = new
  BY <1>1, <1>2
<1>4. /\ l # "idle" => b.file = f
      /\ l = "idle" => Settled(rec, d, new)
      /\ l # "idle" => Working(l, b, ~Owners(toSS'[b.slot + 1]), rec, d, new)
  OBVIOUS
<1>5. \A e \in Clients \ {c} :
        pc[e] \in Speaking => toSS'[arg[e].slot + 1] = toSS[arg[e].slot + 1]
  OBVIOUS
<1>6. \A g \in Files \ {f} :
           trie'[g] = trie[g] /\ Disks(g)' = Disks(g) /\ Cached(g)' = Cached(g)
  BY <1>1
<1>7. QED
  BY <1>2, <1>3, <1>4, <1>5, <1>6, HandlerStep

\* A cache with a place for each file has an empty one for a file that is not in it.
LEMMA EmptyPlace ==
  ASSUME Private, TypeInv, CacheInv, NEW f \in Files, Hits(f) = {}
  PROVE  Victim \in Keys /\ ~cache[Victim].valid
<1> DEFINE empty == {k \in Keys : ~cache[k].valid}
           at    == [k \in Keys |-> cache[k].file]
           rest  == Files \ {f}
<1>1. empty # {}
  <2> SUFFICES ASSUME \A k \in Keys : cache[k].valid PROVE FALSE
    OBVIOUS
  <2>1. IsFiniteSet(Keys) /\ Cardinality(Keys) = CacheSize
    <3>1. 1 \in Int /\ CacheSize \in Int /\ ~(1 > CacheSize) /\ CacheSize - 1 + 1 = CacheSize
      BY SizeAssumption
    <3>2. QED
      BY <3>1, FS_Interval DEF Keys
  <2>2. IsFiniteSet(rest) /\ Cardinality(rest) = Cardinality(Files) - 1
    BY FilesAssumption, FS_RemoveElement
  <2>3. Cardinality(Files) \in Nat /\ Cardinality(Files) <= CacheSize /\ CacheSize \in Nat
    BY FilesAssumption, FS_CardinalityType, SizeAssumption DEF Private
  <2>4. Cardinality(rest) < Cardinality(Keys)
    BY <2>1, <2>2, <2>3
  <2>5. at \in [Keys -> rest]
    <3>1. \A k \in Keys : cache[k].file \in Files /\ cache[k].file # f
      BY DEF CacheInv, Hits
    <3>2. QED
      BY <3>1
  <2> HIDE DEF rest
  <2>6. \E j, k \in Keys : j # k /\ at[j] = at[k]
    <3> HIDE DEF at
    <3>1. QED
      BY <2>1, <2>2, <2>4, <2>5, FS_PigeonHole
  <2>7. QED
    BY <2>6 DEF CacheInv, Hits
<1>2. empty \subseteq Nat
  BY Ranges
<1>3. Min(empty) \in empty
  BY <1>1, <1>2, LeastElement
<1>4. Victim = Min(empty)
  BY <1>1 DEF Victim
<1>5. QED
  BY <1>3, <1>4

\* Entries are looked up, added and invalidated.
LEMMA PrivateCache ==
  ASSUME Private, TypeInv, CacheInv, FileInv, NEW c \in Clients,
         Lookup(c) \/ CacheAdd(c) \/ InvalidateEntry(c)
  PROVE  CacheInv' /\ FileInv'
<1>0. pc[c] # "idle"
  BY DEF Lookup, CacheAdd, InvalidateEntry
<1>1. PICK a, f, rec, d, h :
           /\ At(c, a, f, rec, d, h) /\ a \in Calls /\ f \in Uses[c] /\ f \in Files
           /\ rec \in Record \cup {None}
           /\ DOMAIN d = HomesOf(f) /\ DOMAIN h = Hits(f)
           /\ \A s \in HomesOf(f) : d[s] = disk[s][f].acl
           /\ \A k \in Hits(f) : h[k] = cache[k].ss
           /\ Working(pc[c], a, Pending(c), rec, d, h)
  BY <1>0, AtWork
<1>2. a = arg[c] /\ f = a.file /\ rec = trie[f] /\ h = Cached(f)
  BY <1>1 DEF At
<1>3. UNCHANGED <<trie, disk, toSS>>
  BY DEF Lookup, CacheAdd, InvalidateEntry, netVars
<1>t. cache \in [Keys -> Entry]
  BY DEF TypeInv, IndexTypes
<1>b. ASSUME NEW l, NEW b, NEW new,
             pc' = [pc EXCEPT ![c] = l], arg' = [arg EXCEPT ![c] = b],
             \A g \in Files \ {f} : Cached(g)' = Cached(g), Cached(f)' = new,
             l # "idle" => b.file = f,
             l = "idle" => Settled(rec, d, new),
             l # "idle" => Working(l, b, ~Owners(toSS[b.slot + 1]), rec, d, new)
      PROVE  FileInv'
  <2>1. At(c, a, f, rec, d, h) /\ f \in Files
    BY <1>1
  <2>2. pc' = [pc EXCEPT ![c] = l] /\ arg' = [arg EXCEPT ![c] = b]
    BY <1>b
  <2>3. (\A g \in Files \ {f} : Cached(g)' = Cached(g)) /\ Cached(f)' = new
    BY <1>b
  <2>4. /\ l # "idle" => b.file = f
        /\ l = "idle" => Settled(rec, d, new)
        /\ l # "idle" => Working(l, b, ~Owners(toSS[b.slot + 1]), rec, d, new)
    BY <1>b
  <2>5. QED
    BY <1>3, <2>1, <2>2, <2>3, <2>4, CacheStep, Zenon
<1>c. ASSUME NEW l, NEW b, NEW new,
             pc' = [pc EXCEPT ![c] = l] /\ arg' = [arg EXCEPT ![c] = b],
             \A g \in Files \ {f} : Cached(g)' = Cached(g), Cached(f)' = new,
             l # "idle" /\ b.file = f,
             Working(l, b, ~Owners(toSS[b.slot + 1]), rec, d, new)
      PROVE  FileInv'
  <2>1. /\ l # "idle" => b.file = f
        /\ l = "idle" => Settled(rec, d, new)
        /\ l # "idle" => Working(l, b, ~Owners(toSS[b.slot + 1]), rec, d, new)
    BY <1>c
  <2>2. pc' = [pc EXCEPT ![c] = l] /\ arg' = [arg EXCEPT ![c] = b]
    BY <1>c
  <2>3. (\A g \in Files \ {f} : Cached(g)' = Cached(g)) /\ Cached(f)' = new
    BY <1>c
  <2>4. QED
    BY <1>b, <2>1, <2>2, <2>3, Zenon
<1>4. CASE Lookup(c)
  <2>1. pc[c] = "lookup"
    BY <1>4 DEF Lookup
  <2>2. Middle(a, rec, d, h)
    BY <1>1, <2>1, WorkingForms
  <2>3. CASE Hits(f) = {}
    <3>1. pc' = [pc EXCEPT ![c] = "trie"] /\ UNCHANGED <<arg, cache>>
      BY <1>2, <1>4, <2>3 DEF Lookup, Goto
    <3>2. arg' = [arg EXCEPT ![c] = a]
      BY <1>2, <3>1 DEF TypeInv, ThreadTypes
    <3>3. Working("trie", a, ~Owners(toSS[a.slot + 1]), rec, d, h)
      BY <1>1, <2>2, <2>3 DEF Working
    <3>4. \A g : Hits(g)' = Hits(g) /\ Cached(g)' = Cached(g)
      BY <3>1 DEF Cached, Hits
    <3>a. (\A g \in Files \ {f} : Cached(g)' = Cached(g)) /\ Cached(f)' = h
      BY <1>2, <3>4
    <3>b. pc' = [pc EXCEPT ![c] = "trie"] /\ arg' = [arg EXCEPT ![c] = a] /\ a.file = f
      BY <1>2, <3>1, <3>2
    <3>5. FileInv'
      BY <1>c, <3>3, <3>a, <3>b
    <3>6. CacheInv'
      BY <3>1 DEF CacheInv, Hits
    <3>7. QED
      BY <3>5, <3>6
  <2>4. CASE Hits(f) # {}
    <3>1. PICK k : k = Min(Hits(f))
      OBVIOUS
    <3>2. k \in Hits(f) /\ k \in Keys
      BY <2>4, <3>1, CacheSlots DEF TypeInv, Hits
    <3>3. /\ pc' = [pc EXCEPT ![c] = "hit"] /\ arg' = [arg EXCEPT ![c].key = k]
          /\ cache' = [cache EXCEPT ![k].used = clock]
      BY <1>2, <1>4, <2>4, <3>1 DEF Lookup, Goto
    <3>4. PICK b : b = [a EXCEPT !.key = k]
      OBVIOUS
    <3>5. arg' = [arg EXCEPT ![c] = b]
      BY <1>2, <3>3, <3>4
    <3>6. /\ b.cmd = a.cmd /\ b.user = a.user /\ b.perm = a.perm /\ b.file = f
          /\ b.key = k
      BY <1>1, <1>2, <3>4 DEF Calls
    <3>7. Middle(b, rec, d, h)
      BY <2>2, <3>6 DEF Middle, Granting
    <3>8. Working("hit", b, ~Owners(toSS[b.slot + 1]), rec, d, h)
      BY <1>1, <3>2, <3>6, <3>7 DEF Working
    <3>9. \A j \in Keys : /\ cache'[j].valid = cache[j].valid /\ cache'[j].file = cache[j].file
                          /\ cache'[j].ss = cache[j].ss
      BY <1>t, <3>2, <3>3 DEF Entry
    <3>10. \A g : Hits(g)' = Hits(g)
      BY <3>9 DEF Hits
    <3>11. \A g : Cached(g)' = Cached(g)
      <4>1. \A g : \A j \in Hits(g) : cache'[j].ss = cache[j].ss
        BY <3>9 DEF Hits
      <4>2. QED
        BY <3>10, <4>1 DEF Cached
    <3>a. (\A g \in Files \ {f} : Cached(g)' = Cached(g)) /\ Cached(f)' = h
      BY <1>2, <3>11
    <3>b. pc' = [pc EXCEPT ![c] = "hit"] /\ arg' = [arg EXCEPT ![c] = b] /\ b.file = f
      BY <3>3, <3>5, <3>6
    <3>12. FileInv'
      BY <1>c, <3>8, <3>a, <3>b
    <3>13. CacheInv'
      BY <3>9 DEF CacheInv, Hits
    <3>14. QED
      BY <3>12, <3>13
  <2>5. QED
    BY <2>3, <2>4
<1>5. CASE CacheAdd(c)
  <2>1. pc[c] = "cacheadd"
    BY <1>5 DEF CacheAdd
  <2>2. Middle(a, rec, d, h) /\ DOMAIN h = {} /\ rec # None /\ a.slot = rec.ss
    BY <1>1, <2>1, WorkingForms
  <2>3. Hits(f) = {}
    BY <1>1, <2>2
  <2>4. PICK v : v = Victim
    OBVIOUS
  <2>5. v \in Keys /\ ~cache[v].valid
    BY <1>1, <2>3, <2>4, EmptyPlace
  <2>6. PICK new : new = [file |-> f, ss |-> rec.ss, used |-> clock, valid |-> TRUE]
    OBVIOUS
  <2>7. cache' = [cache EXCEPT ![v] = new] /\ Found(c, rec.ss)
    BY <1>2, <1>5, <2>2, <2>4, <2>6 DEF CacheAdd
  <2>8. /\ cache'[v].valid /\ cache'[v].file = f /\ cache'[v].ss = rec.ss
        /\ \A j \in Keys \ {v} : cache'[j] = cache[j]
    BY <1>t, <2>5, <2>6, <2>7
  <2>9. \A g \in Files \ {f} : Hits(g)' = Hits(g) /\ v \notin Hits(g)
    BY <2>5, <2>8 DEF Hits
  <2>10. Hits(f)' = {v}
    BY <2>3, <2>5, <2>8 DEF Hits
  <2>11. \A g \in Files \ {f} : Cached(g)' = Cached(g)
    <3>1. \A g \in Files \ {f} : \A j \in Hits(g) : cache'[j].ss = cache[j].ss
      BY <2>8, <2>9 DEF Hits
    <3>2. QED
      BY <2>9, <3>1 DEF Cached
  <2>12. PICK i : i = Cached(f)'
    OBVIOUS
  <2>13. DOMAIN i = {v} /\ i[v] = rec.ss
    BY <2>8, <2>10, <2>12 DEF Cached
  <2>14. Known(rec, d, h) => Known(rec, d, i)
    BY <2>13 DEF Known
  <2>15. CacheInv'
    <3>1. ASSUME NEW k \in Keys, cache'[k].valid
          PROVE  /\ cache'[k].file \in Files
                 /\ \A j \in Keys :
                   cache'[j].valid /\ cache'[j].file = cache'[k].file => j = k
      <4>1. CASE k = v
        BY <1>1, <2>8, <2>10, <4>1 DEF Hits
      <4>2. CASE k # v
        <5>1. cache'[k] = cache[k] /\ cache[k].valid
          BY <2>8, <3>1, <4>2
        <5>2. cache[k].file # f /\ cache[k].file \in Files
          BY <2>3, <5>1 DEF Hits, CacheInv
        <5>3. \A j \in Keys : j \in Hits(cache[k].file) => j = k
          BY <5>1 DEF CacheInv
        <5>4. PICK g \in Files : g = cache[k].file
          BY <5>2
        <5>5. Hits(g)' = Hits(g)
          BY <2>9, <5>2, <5>4
        <5>6. \A j \in Keys : j \in Hits(g)' => j = k
          BY <5>3, <5>4, <5>5
        <5>7. QED
          BY <5>1, <5>2, <5>4, <5>6 DEF Hits
      <4>3. QED
        BY <4>1, <4>2
    <3>2. QED
      BY <3>1 DEF CacheInv, Hits
  <2>16. CASE a.cmd = "CREATE"
    <3>1. pc' = [pc EXCEPT ![c] = "idle"] /\ arg' = [arg EXCEPT ![c] = NoCall]
      BY <1>2, <2>7, <2>16 DEF Found, Answer, Goto
    <3>2. Settled(rec, d, i)
      BY <2>2, <2>14, <2>16 DEF Middle, Settled, Unknown
    <3>3. QED
      BY <1>b, <2>11, <2>12, <2>15, <3>1, <3>2
  <2>17. CASE a.cmd # "CREATE"
    <3>1. PICK b : b = [a EXCEPT !.slot = rec.ss]
      OBVIOUS
    <3>2. pc' = [pc EXCEPT ![c] = "resolve"] /\ arg' = [arg EXCEPT ![c] = b]
      BY <1>2, <2>7, <2>17, <3>1 DEF Found, Continue, Goto
    <3>3. /\ b.cmd = a.cmd /\ b.user = a.user /\ b.perm = a.perm /\ b.slot = rec.ss
          /\ b.file = f
      BY <1>1, <1>2, <3>1 DEF Calls
    <3>4. Middle(b, rec, d, i) /\ b.cmd # "DELETE"
      BY <2>2, <2>14, <3>3 DEF Middle, Granting, Settled, Unknown
    <3>5. Asked(b, rec, d, i)
      BY <2>2, <2>17, <3>3, <3>4 DEF Asked
    <3>6. Working("resolve", b, ~Owners(toSS[b.slot + 1]), rec, d, i)
      BY <2>17, <3>3, <3>5 DEF Working
    <3>7. QED
      BY <1>c, <2>11, <2>12, <2>15, <3>2, <3>3, <3>6
  <2>18. QED
    BY <2>16, <2>17
<1>6. CASE InvalidateEntry(c)
  <2>1. pc[c] = "invalidate"
    BY <1>6 DEF InvalidateEntry
  <2>2. a.cmd = "DELETE" /\ rec = None /\ HomeAt(d, a.slot)
    BY <1>1, <2>1, WorkingForms
  <2>3. cache' = Invalidated({f}) /\ Continue(c, "resolve", a)
    BY <1>2, <1>6 DEF InvalidateEntry
  <2>4. \A k \in Keys : k \in Hits(f) => ~cache'[k].valid
    <3>1. ASSUME NEW k \in Keys, k \in Hits(f) PROVE ~cache'[k].valid
      <4>1. Min(Hits(f)) \in Hits(f)
        BY <3>1, CacheSlots DEF TypeInv
      <4>2. k = Min(Hits(f))
        BY <3>1, <4>1 DEF CacheInv, Hits
      <4>3. cache'[k] = [cache[k] EXCEPT !.valid = FALSE]
        BY <2>3, <3>1, <4>2 DEF Invalidated
      <4>4. QED
        BY <1>t, <4>3 DEF Entry
    <3>2. QED
      BY <3>1
  <2>5. \A k \in Keys : k \notin Hits(f) => cache'[k] = cache[k]
    BY <2>3 DEF Invalidated
  <2>6. Hits(f)' = {}
    BY <2>4, <2>5 DEF Hits
  <2>7. \A g \in Files \ {f} : Hits(g)' = Hits(g) /\ \A j \in Hits(g) : j \notin Hits(f)
    BY <2>4, <2>5 DEF Hits
  <2>8. \A g \in Files \ {f} : Cached(g)' = Cached(g)
    <3>1. \A g \in Files \ {f} : \A j \in Hits(g) : cache'[j].ss = cache[j].ss
      BY <2>5, <2>7 DEF Hits
    <3>2. QED
      BY <2>7, <3>1 DEF Cached
  <2>9. PICK i : i = Cached(f)'
    OBVIOUS
  <2>10. DOMAIN i = {}
    BY <2>6, <2>9 DEF Cached
  <2>11. CacheInv'
    <3>1. ASSUME NEW k \in Keys, cache'[k].valid
          PROVE  /\ cache'[k].file \in Files
                 /\ \A j \in Keys :
                   cache'[j].valid /\ cache'[j].file = cache'[k].file => j = k
      <4>1. k \notin Hits(f) /\ cache'[k] = cache[k] /\ cache[k].valid
        BY <2>4, <2>5, <3>1
      <4>2. cache[k].file # f /\ cache[k].file \in Files
        BY <4>1 DEF Hits, CacheInv
      <4>3. \A j \in Keys : j \in Hits(cache[k].file) => j = k
        BY <4>1 DEF CacheInv
      <4>4. PICK g \in Files : g = cache[k].file
        BY <4>2
      <4>5. Hits(g)' = Hits(g)
        BY <2>7, <4>2, <4>4
      <4>6. \A j \in Keys : j \in Hits(g)' => j = k
        BY <4>3, <4>4, <4>5
      <4>7. QED
        BY <4>1, <4>2, <4>4, <4>6 DEF Hits
    <3>2. QED
      BY <3>1 DEF CacheInv, Hits
  <2>12. pc' = [pc EXCEPT ![c] = "resolve"] /\ arg' = [arg EXCEPT ![c] = a]
    BY <2>3 DEF Continue, Goto
  <2>13. Asked(a, rec, d, i)
    BY <2>2, <2>10 DEF Asked, Unknown
  <2>14. Working("resolve", a, ~Owners(toSS[a.slot + 1]), rec, d, i)
    BY <2>2, <2>13 DEF Working
  <2>15. QED
    BY <1>2, <1>c, <2>8, <2>9, <2>11, <2>12, <2>14
<1>7. QED
  BY <1>4, <1>5, <1>6

\* Servers that run and are not closed can be talked to.
LEMMA AllHealthy ==
  ASSUME SlotInv, CalmInv
  PROVE  \A k \in Conns : k \in Open /\ k \in Healthy
  BY DEF SlotInv, CalmInv, Open, Healthy, Up

\* Nothing fails while no server stops, and so none is removed.
LEMMA NothingFails ==
  ASSUME Private, TypeInv, SlotInv, CalmInv, FileInv, NEW c \in Clients
  PROVE  /\ ~FindReported(c) /\ ~RemoveServer(c) /\ ~Purge(c)
         /\ ~SendFails(c) /\ ~ReceiveFails(c) /\ ~Sigpipe(c)
<1>1. ASSUME pc[c] \in {"report", "remove", "purge"} PROVE FALSE
  <2>1. pc[c] # "idle"
    BY <1>1
  <2>2. PICK a, f, rec, d, h : Working(pc[c], a, Pending(c), rec, d, h)
    BY <2>1, AtWork
  <2>3. QED
    BY <1>1, <2>2, WorkingForms
<1>2. ~FindReported(c) /\ ~RemoveServer(c) /\ ~Purge(c)
  BY <1>1 DEF FindReported, RemoveServer, Purge
<1>3. ASSUME SendFails(c) PROVE FALSE
  <2>1. pc[c] = "send" /\ Socket(c) \notin Healthy
    BY <1>3 DEF SendFails
  <2>2. pc[c] # "idle"
    BY <2>1
  <2>3. PICK a, f, rec, d, h :
          At(c, a, f, rec, d, h) /\ a \in Calls /\ Working(pc[c], a, Pending(c), rec, d, h)
    BY <2>2, AtWork
  <2>4. Asked(a, rec, d, h) /\ (a.cmd \in {"INFO", "EXEC"} => Linked(a)) /\ a = arg[c]
    BY <2>1, <2>3, WorkingForms DEF At
  <2>5. a.slot \in Slots /\ a.slot + 1 \in Conns
    BY <2>3, <2>4 DEF Calls, Asked, Middle, Granting, Settled, Known, Unknown, HomeAt
  <2>6. Socket(c) \in Conns
    BY <2>4, <2>5, ActiveSlots DEF Socket, Linked
  <2>7. QED
    BY <2>1, <2>6, AllHealthy
<1>4. ASSUME ReceiveFails(c) PROVE FALSE
  <2>1. pc[c] = "recv" /\ arg[c].sock \notin Healthy
    BY <1>4 DEF ReceiveFails
  <2>2. pc[c] # "idle" /\ pc[c] \in Speaking
    BY <2>1 DEF Speaking
  <2>3. PICK a, f, rec, d, h :
          At(c, a, f, rec, d, h) /\ a \in Calls /\ Working(pc[c], a, Pending(c), rec, d, h)
    BY <2>2, AtWork
  <2>4. Linked(a) /\ a = arg[c]
    BY <2>2, <2>3, WorkingForms DEF At
  <2>5. QED
    BY <2>1, <2>4, AllHealthy DEF Linked
<1>5. ~Sigpipe(c)
  BY AllHealthy DEF Sigpipe, Open
<1>6. QED
  BY <1>2, <1>3, <1>4, <1>5

\* A step that changes the socket of the handler's slot, while no other handler uses it.
LEMMA SocketStep ==
  ASSUME Private, TypeInv, FileInv, NEW c \in Clients,
         NEW a, NEW f, NEW rec, NEW d, NEW h, NEW l, NEW b,
         At(c, a, f, rec, d, h),
         pc' = [pc EXCEPT ![c] = l], arg' = [arg EXCEPT ![c] = b],
         UNCHANGED <<trie, cache, disk>>,
         \A e \in Clients \ {c} :
           pc[e] \in Speaking => toSS'[arg[e].slot + 1] = toSS[arg[e].slot + 1],
         l # "idle" => b.file = f,
         l = "idle" => Settled(rec, d, h),
         l # "idle" => Working(l, b, ~Owners(toSS'[b.slot + 1]), rec, d, h)
  PROVE  FileInv'
<1>1. \A g : trie'[g] = trie[g] /\ Disks(g)' = Disks(g) /\ Cached(g)' = Cached(g)
  BY DEF Disks, Cached, HomesOf, Hits
<1>2. arg[c].file = f /\ trie[f] = rec /\ Disks(f) = d /\ Cached(f) = h /\ pc[c] # "idle"
  BY DEF At
<1>3. trie'[f] = rec /\ Disks(f)' = d /\ Cached(f)' = h
  BY <1>1, <1>2
<1>4. \A g \in Files \ {f} :
           trie'[g] = trie[g] /\ Disks(g)' = Disks(g) /\ Cached(g)' = Cached(g)
  BY <1>1
<1>5. QED
  BY <1>2, <1>3, <1>4, HandlerStep

\* The messages on the sockets stay those of the holders.
LEMMA CalmStays ==
  ASSUME Steady, TypeInv, StreamInv, CalmInv, UNCHANGED <<ssPc, server>>,
         NEW K \in SUBSET Conns,
         \A k \in K : toSS'[k] = toSS[k] /\ mutex'[k - 1] = mutex[k - 1],
         \A k \in K : mutex[k - 1] # None =>
           LET h == mutex[k - 1] IN
             /\ arg'[h].cmd = arg[h].cmd /\ arg'[h].file = arg[h].file
             /\ arg'[h].user = arg[h].user /\ arg'[h].perm = arg[h].perm,
         \A k \in Conns \ K : \A j \in 1..Len(toSS'[k]) :
           toSS'[k][j].type # "OWNER" => toSS'[k][j] = ToServer(mutex[k - 1])'
  PROVE  CalmInv'
<1>1. ASSUME NEW k \in K, NEW j \in 1..Len(toSS'[k]), toSS'[k][j].type # "OWNER"
      PROVE  toSS'[k][j] = ToServer(mutex[k - 1])'
  <2>1. k \in Conns /\ toSS'[k] = toSS[k] /\ mutex'[k - 1] = mutex[k - 1]
    OBVIOUS
  <2>2. mutex[k - 1] # None
    BY <1>1, <2>1, StreamFree DEF Owners
  <2>3. toSS[k][j] = ToServer(mutex[k - 1])
    BY <1>1, <2>1 DEF CalmInv
  <2>4. ToServer(mutex[k - 1])' = ToServer(mutex[k - 1])
    BY <2>1, <2>2 DEF ToServer, Order
  <2>5. QED
    BY <2>1, <2>3, <2>4
<1>2. QED
  BY <1>1 DEF CalmInv

\* A request is sent over its slot's connection.
LEMMA PrivateSend ==
  ASSUME Private, TypeInv, MutexFollowsExchange, PairInv, CalmInv, FileInv,
         NEW c \in Clients, Send(c)
  PROVE  CalmInv' /\ FileInv'
<1> USE DEF PairInv
<1>0. pc[c] = "send" /\ pc[c] # "idle"
  BY DEF Send
<1>1. PICK a, f, rec, d, h :
          At(c, a, f, rec, d, h) /\ a \in Calls /\ Working(pc[c], a, Pending(c), rec, d, h)
  BY <1>0, AtWork
<1>2. a = arg[c] /\ f = a.file
  BY <1>1 DEF At
<1>3. Asked(a, rec, d, h) /\ (a.cmd \in {"INFO", "EXEC"} => Linked(a))
  BY <1>0, <1>1, WorkingForms
<1>4. a.slot \in Slots /\ a.slot + 1 \in Conns
  BY <1>1, <1>3 DEF Calls, Asked, Middle, Granting, Settled, Known, Unknown, HomeAt
<1>5. PICK k \in Conns : k = a.slot + 1
  BY <1>4
<1>6. k - 1 = a.slot /\ Socket(c) = k
  <2>1. k - 1 = a.slot
    BY <1>4, <1>5, Places
  <2>2. registry[a.slot] = k
    BY <1>4, <1>5, ActiveSlots
  <2>3. QED
    BY <1>2, <1>3, <1>5, <2>1, <2>2 DEF Socket, Linked
<1>7. PICK m : m = ToServer(c)
  OBVIOUS
<1>8. PICK b : b = [a EXCEPT !.sock = k]
  OBVIOUS
<1>9. /\ mutex[a.slot] = None /\ mutex' = [mutex EXCEPT ![a.slot] = c]
      /\ toSS' = [toSS EXCEPT ![k] = Append(toSS[k], m)]
      /\ UNCHANGED <<trie, cache, disk, ssPc, server>>
      /\ \E l \in {"recv", "wait"} : Continue(c, l, b)
  BY <1>2, <1>6, <1>7, <1>8, AllHealthy DEF Send, Post, nsVars
<1>10. PICK l \in {"recv", "wait"} : Continue(c, l, b)
  BY <1>9
<1>11. pc' = [pc EXCEPT ![c] = l] /\ arg' = [arg EXCEPT ![c] = b]
  BY <1>10 DEF Continue, Goto
<1>12. /\ b.cmd = a.cmd /\ b.user = a.user /\ b.perm = a.perm /\ b.slot = a.slot
       /\ b.file = f /\ b.sock = k
  BY <1>1, <1>2, <1>8 DEF Calls
<1>13. m \in Orders /\ m.type # "OWNER"
  <2>1. m.type = a.cmd /\ a.cmd \in Operations
    BY <1>1, <1>2, <1>7 DEF ToServer, Order, Calls
  <2>2. m \in Orders
    BY <1>0, <1>7, OrderTypes DEF FileSteps, Labels
  <2>3. QED
    BY <2>1, <2>2 DEF Operations
<1>14. PICK q : q = Append(toSS[k], m)
  OBVIOUS
<1>15. toSS[k] \in Seq(Orders) /\ toSS'[k] = q /\ \A j \in Conns \ {k} : toSS'[j] = toSS[j]
  BY <1>9, <1>14 DEF TypeInv, NetTypes
<1>16. /\ Len(q) = Len(toSS[k]) + 1 /\ q[Len(q)] = m /\ Len(toSS[k]) \in Nat
       /\ \A j \in 1..Len(toSS[k]) : q[j] = toSS[k][j]
  BY <1>13, <1>14, <1>15, AppendProperties, LenProperties
<1>17. ~Owners(q)
  <2>1. Len(q) \in 1..Len(q)
    BY <1>16
  <2>2. QED
    BY <1>13, <1>16, <2>1 DEF Owners
<1>18. ASSUME NEW e \in Clients \ {c}, pc[e] \in Speaking
       PROVE  toSS'[arg[e].slot + 1] = toSS[arg[e].slot + 1]
  <2>1. arg[e].slot \in Slots
    BY DEF TypeInv, ThreadTypes, Calls
  <2>2. mutex[arg[e].slot] = e
    BY <1>18, <2>1 DEF MutexFollowsExchange
  <2>3. arg[e].slot # a.slot
    BY <1>9, <2>2, Ranges
  <2>4. arg[e].slot + 1 # k
    <3>1. \A x, y \in Nat : x # y => x + 1 # y + 1
      OBVIOUS
    <3>2. QED
      BY <1>4, <1>5, <2>1, <2>3, <3>1, Ranges
  <2>5. QED
    BY <1>9, <2>4 DEF TypeInv, NetTypes
<1>19. FileInv'
  <2>1. Asked(b, rec, d, h)
    BY <1>3, <1>12 DEF Asked, Middle, Granting
  <2>2. Linked(b)
    BY <1>5, <1>12 DEF Linked
  <2>3. toSS'[b.slot + 1] = q
    BY <1>5, <1>12, <1>15
  <2>4. l \in Speaking /\ l # "idle"
    BY DEF Speaking
  <2>5. Working(l, b, ~Owners(toSS'[b.slot + 1]), rec, d, h)
    <3>1. ~Owners(toSS'[b.slot + 1])
      BY <1>17, <2>3
    <3>2. QED
      BY <2>1, <2>2, <2>4, <3>1 DEF Working
  <2>6. /\ l # "idle" => b.file = f
        /\ l = "idle" => Settled(rec, d, h)
        /\ l # "idle" => Working(l, b, ~Owners(toSS'[b.slot + 1]), rec, d, h)
    BY <1>12, <2>4, <2>5
  <2>7. At(c, a, f, rec, d, h) /\ UNCHANGED <<trie, cache, disk>>
    BY <1>1, <1>9
  <2>8. \A e \in Clients \ {c} :
           pc[e] \in Speaking => toSS'[arg[e].slot + 1] = toSS[arg[e].slot + 1]
    BY <1>18
  <2>9. QED
    BY <1>11, <2>6, <2>7, <2>8, SocketStep
<1>20. CalmInv'
  <2> DEFINE K == Conns \ {k}
  <2>a. Steady
    BY DEF Private
  <2>1. /\ mutex'[k - 1] = c
        /\ \A j \in K : toSS'[j] = toSS[j] /\ mutex'[j - 1] = mutex[j - 1]
    <3>1. \A j \in K : j - 1 \in Slots /\ j - 1 # k - 1
      BY <2>a, Places, StartAssumption, SizeAssumption DEF Steady, Conns, Slots
    <3>2. QED
      BY <1>4, <1>6, <1>9, <1>15, <3>1 DEF TypeInv, ThreadTypes
  <2>2. ASSUME NEW j \in K, mutex[j - 1] # None
        PROVE  LET g == mutex[j - 1] IN
             /\ arg'[g].cmd = arg[g].cmd /\ arg'[g].file = arg[g].file
             /\ arg'[g].user = arg[g].user /\ arg'[g].perm = arg[g].perm
    <3>1. arg' = [arg EXCEPT ![c] = b] /\ arg \in [Clients -> Calls]
      BY <1>11 DEF TypeInv, ThreadTypes
    <3>2. CASE mutex[j - 1] = c
      BY <1>2, <1>12, <3>1, <3>2
    <3>3. CASE mutex[j - 1] # c
      <4>1. arg'[mutex[j - 1]] = arg[mutex[j - 1]]
        <5>1. j - 1 \in Slots
          BY <2>a, StartAssumption, SizeAssumption DEF Steady, Conns, Slots
        <5>2. mutex[j - 1] \in Clients
          BY <2>2, <5>1 DEF TypeInv, ThreadTypes
        <5>3. QED
          BY <3>1, <3>3, <5>2
      <4>2. QED
        BY <4>1
    <3>4. QED
      BY <3>2, <3>3
  <2>3. ASSUME NEW i \in Conns \ K, NEW j \in 1..Len(toSS'[i]), toSS'[i][j].type # "OWNER"
        PROVE  toSS'[i][j] = ToServer(mutex[i - 1])'
    <3>1. i = k
      OBVIOUS
    <3>2. Owners(toSS[k])
      BY <1>6, <1>9, StreamFree
    <3>3. toSS'[i][j] = m
      <4>1. j \in 1..Len(q) /\ q[j].type # "OWNER"
        BY <1>15, <2>3, <3>1
      <4>2. j \notin 1..Len(toSS[k])
        BY <1>16, <3>2, <4>1 DEF Owners
      <4>3. j = Len(q)
        BY <1>16, <4>1, <4>2
      <4>4. QED
        BY <1>15, <1>16, <3>1, <4>3
    <3>4. ToServer(mutex[i - 1])' = m
      <4>1. arg'[c] = b
        BY <1>11 DEF TypeInv, ThreadTypes
      <4>2. ToServer(c)' = m
        BY <1>2, <1>7, <1>12, <4>1 DEF ToServer, Order
      <4>3. ToServer(mutex[i - 1])' = Order(arg'[c].cmd, c, arg'[c].file, arg'[c].user, arg'[c].perm)
        BY <2>1, <3>1 DEF ToServer
      <4>4. QED
        BY <4>2, <4>3 DEF ToServer
    <3>5. QED
      BY <3>3, <3>4
  <2> HIDE DEF K
  <2>4. K \in SUBSET Conns /\ StreamInv /\ UNCHANGED <<ssPc, server>>
    BY <1>9 DEF K
  <2>5. QED
    BY <2>1, <2>2, <2>3, <2>4, <2>a, CalmStays
<1>21. QED
  BY <1>19, <1>20

\* A step that leaves the sockets alone.
LEMMA CalmLocal ==
  ASSUME Steady, TypeInv, MutexFollowsExchange, StreamInv, CalmInv,
         UNCHANGED <<ssPc, server, toSS, mutex>>,
         \A e \in Clients : pc[e] \in Speaking =>
           /\ arg'[e].cmd = arg[e].cmd /\ arg'[e].file = arg[e].file
           /\ arg'[e].user = arg[e].user /\ arg'[e].perm = arg[e].perm
  PROVE  CalmInv'
<1>1. \A k \in Conns : toSS'[k] = toSS[k] /\ mutex'[k - 1] = mutex[k - 1]
  OBVIOUS
<1>2. ASSUME NEW k \in Conns, mutex[k - 1] # None
      PROVE  LET h == mutex[k - 1] IN
             /\ arg'[h].cmd = arg[h].cmd /\ arg'[h].file = arg[h].file
             /\ arg'[h].user = arg[h].user /\ arg'[h].perm = arg[h].perm
  <2>1. k - 1 \in Slots
    BY StartAssumption, SizeAssumption DEF Steady, Conns, Slots
  <2>2. PICK h \in Clients : h = mutex[k - 1]
    BY <1>2, <2>1 DEF TypeInv, ThreadTypes
  <2>3. pc[h] \in Speaking
    BY <2>1, <2>2 DEF MutexFollowsExchange
  <2>4. QED
    BY <2>2, <2>3
<1>3. \A k \in Conns \ Conns : \A j \in 1..Len(toSS'[k]) :
           toSS'[k][j].type # "OWNER" => toSS'[k][j] = ToServer(mutex[k - 1])'
  OBVIOUS
<1>4. Conns \in SUBSET Conns /\ UNCHANGED <<ssPc, server>>
  OBVIOUS
<1>5. QED
  BY <1>1, <1>2, <1>3, <1>4, CalmStays

\* The handlers that do not use a socket, and the one that reads its descriptor again.
LEMMA CalmClients ==
  ASSUME Steady, TypeInv, MutexFollowsExchange, StreamInv, CalmInv, NEW c \in Clients,
         \/ Requests(c)
         \/ Lookup(c) \/ Hit(c) \/ CacheAdd(c) \/ CheckPermission(c) \/ FindInTrie(c)
         \/ GetDetails(c) \/ DeleteRecord(c) \/ InvalidateEntry(c) \/ SetFolder(c) \/ Grant(c)
         \/ AddFile(c) \/ PickServer(c) \/ Resolve(c) \/ Wait(c)
  PROVE  CalmInv'
<1>0. UNCHANGED <<ssPc, server, toSS, mutex>>
  <2>1. CASE Requests(c)
    BY <2>1, RequestStarts DEF Begun, Request, netVars
  <2>2. QED
    BY <2>1 DEF Lookup, Hit, CacheAdd, CheckPermission, FindInTrie, GetDetails, DeleteRecord,
       InvalidateEntry, SetFolder, Grant, AddFile, PickServer, Resolve, Wait, netVars
<1>a. ASSUME NEW b, pc[c] \notin Speaking, arg' = [arg EXCEPT ![c] = b]
      PROVE  \A e \in Clients : pc[e] \in Speaking => arg'[e] = arg[e]
  BY <1>a DEF TypeInv, ThreadTypes
<1>1. CASE ~Wait(c)
  <2>1. pc[c] \notin Speaking /\ (UNCHANGED arg \/ \E b : arg' = [arg EXCEPT ![c] = b])
    <3>1. CASE Requests(c)
      BY <3>1, RequestStarts DEF Begun, Request, Speaking
    <3>2. CASE Lookup(c)
      <4>1. pc[c] = "lookup" /\ (UNCHANGED arg \/ \E k : arg' = [arg EXCEPT ![c].key = k])
        BY <3>2 DEF Lookup
      <4>2. QED
        BY <4>1 DEF Speaking
    <3>3. CASE Hit(c) \/ CacheAdd(c)
      BY <3>3 DEF Hit, CacheAdd, Found, Answer, Continue, Speaking
    <3>4. CASE \/ CheckPermission(c) \/ FindInTrie(c) \/ GetDetails(c) \/ DeleteRecord(c)
      BY <3>4 DEF CheckPermission, FindInTrie, GetDetails, DeleteRecord, Answer, Continue,
         Speaking
    <3>5. CASE InvalidateEntry(c) \/ SetFolder(c) \/ Grant(c) \/ AddFile(c)
      BY <3>5 DEF InvalidateEntry, SetFolder, Grant, AddFile, Answer, Continue, Speaking
    <3>6. CASE PickServer(c) \/ Resolve(c)
      BY <3>6 DEF PickServer, Resolve, Answer, Continue, Speaking
    <3>7. QED
      BY <1>1, <3>1, <3>2, <3>3, <3>4, <3>5, <3>6
  <2>2. \A e \in Clients : pc[e] \in Speaking => arg'[e] = arg[e]
    BY <1>a, <2>1
  <2>3. QED
    BY <1>0, <2>2, CalmLocal
<1>2. CASE Wait(c)
  <2>1. PICK k : arg' = [arg EXCEPT ![c] = [arg[c] EXCEPT !.sock = k]]
    BY <1>2 DEF Wait, Continue
  <2>2. \A e \in Clients : /\ arg'[e].cmd = arg[e].cmd /\ arg'[e].file = arg[e].file
                           /\ arg'[e].user = arg[e].user /\ arg'[e].perm = arg[e].perm
    BY <2>1 DEF TypeInv, ThreadTypes, Calls
  <2>3. QED
    BY <1>0, <2>2, CalmLocal
<1>3. QED
  BY <1>1, <1>2

\* A step of c on the connection k of its slot, which then has owners only.
LEMMA CalmOwners ==
  ASSUME Steady, TypeInv, MutexFollowsExchange, StreamInv, CalmInv,
         UNCHANGED <<ssPc, server>>, NEW c \in Clients, NEW k \in Conns,
         \A j \in Conns \ {k} : toSS'[j] = toSS[j],
         \A i \in Slots \ {k - 1} : mutex'[i] = mutex[i],
         \A e \in Clients \ {c} : arg'[e] = arg[e],
         \A i \in Slots \ {k - 1} : mutex[i] # c,
         Owners(toSS'[k])
  PROVE  CalmInv'
<1> DEFINE K == Conns \ {k}
<1>1. \A j \in K : j - 1 \in Slots /\ j - 1 # k - 1
  BY Places, StartAssumption, SizeAssumption DEF Steady, Conns, Slots
<1>2. \A j \in K : toSS'[j] = toSS[j] /\ mutex'[j - 1] = mutex[j - 1]
  BY <1>1
<1>3. \A j \in K : mutex[j - 1] # None =>
        LET h == mutex[j - 1] IN
             /\ arg'[h].cmd = arg[h].cmd /\ arg'[h].file = arg[h].file
             /\ arg'[h].user = arg[h].user /\ arg'[h].perm = arg[h].perm
  BY <1>1 DEF TypeInv, ThreadTypes
<1>4. \A i \in Conns \ K : \A j \in 1..Len(toSS'[i]) :
           toSS'[i][j].type # "OWNER" => toSS'[i][j] = ToServer(mutex[i - 1])'
  BY DEF Owners
<1> HIDE DEF K
<1>5. K \in SUBSET Conns /\ UNCHANGED <<ssPc, server>>
  BY DEF K
<1>6. QED
  BY <1>2, <1>3, <1>4, <1>5, CalmStays

\* The reply is there once the server has served the request.
LEMMA PrivateReceive ==
  ASSUME Private, TypeInv, MutexFollowsExchange, PairInv, CalmInv, FileInv,
         NEW c \in Clients, Receive(c)
  PROVE  CalmInv' /\ FileInv'
<1> USE DEF PairInv
<1>0. pc[c] = "recv" /\ pc[c] # "idle" /\ pc[c] \in Speaking
  BY DEF Receive, Speaking
<1>1. PICK a, f, rec, d, h :
          At(c, a, f, rec, d, h) /\ a \in Calls /\ Working(pc[c], a, Pending(c), rec, d, h)
  BY <1>0, AtWork
<1>2. a = arg[c] /\ f = a.file
  BY <1>1 DEF At
<1>3. PICK k \in Conns : k = a.sock /\ k = a.slot + 1
  BY <1>0, <1>1, WorkingForms DEF Linked
<1>4. a.slot \in Slots /\ k - 1 = a.slot /\ mutex[k - 1] = c
  <2>1. a.slot \in Slots /\ k - 1 = a.slot
    BY <1>1, <1>3, Places DEF Calls
  <2>2. QED
    BY <1>0, <1>2, <2>1 DEF MutexFollowsExchange
<1>5. toNS[k] # <<>>
  BY <1>2, <1>3 DEF Receive, Readable
<1>6. Owners(toSS[k]) /\ Head(toNS[k]).type = Expected(a.cmd)
  <2> DEFINE off == ssPc[k] = "off"
  <2>1. StreamOK(off, c, a.cmd, toSS[k], toNS[k])
    BY <1>2, <1>4 DEF StreamInv, Stream
  <2>2. toSS[k] \in Seq(Orders) /\ toNS[k] \in Seq(Replies)
    BY DEF TypeInv, NetTypes
  <2> HIDE DEF off
  <2>3. Head(toNS[k]).type = Expected(a.cmd)
    BY <1>5, <2>1, <2>2, HeadReply
  <2>4. QED
    BY <1>5, <2>1, <2>3 DEF StreamOK
<1>7. Done(a, rec, d, h)
  <2>1. ~Pending(c)
    BY <1>2, <1>3, <1>6 DEF Pending
  <2>2. QED
    BY <1>0, <1>1, <2>1, WorkingForms
<1>8. UNCHANGED <<trie, cache, disk, toSS, ssPc, server>>
  BY DEF Receive, nsVars
<1>9. \/ a.cmd = "CREATE" /\ Continue(c, "add", a)
      \/ a.cmd # "CREATE" /\ \E r : Answer(c, r)
  <2>1. CASE a.cmd = "CREATE"
    BY <1>2, <1>3, <1>6, <2>1 DEF Receive
  <2>2. CASE a.cmd # "CREATE"
    <3>1. Head(toNS[arg[c].sock]).type = Expected(arg[c].cmd) /\ arg[c].cmd # "CREATE"
      BY <1>2, <1>3, <1>6, <2>2
    <3>2. \E r : Answer(c, r)
      BY <3>1 DEF Receive
    <3>3. QED
      BY <2>2, <3>2
  <2>3. QED
    BY <2>1, <2>2
<1>10. FileInv'
  <2>1. CASE a.cmd = "CREATE"
    <3>1. pc' = [pc EXCEPT ![c] = "add"] /\ arg' = [arg EXCEPT ![c] = a]
      BY <1>9, <2>1 DEF Continue, Goto
    <3>2. Working("add", a, ~Owners(toSS[a.slot + 1]), rec, d, h)
      BY <1>7, <2>1 DEF Working
    <3>3. At(c, a, f, rec, d, h) /\ UNCHANGED <<trie, cache, disk, toSS>> /\ a.file = f
      BY <1>1, <1>2, <1>8
    <3>4. PICK l : l = "add"
      OBVIOUS
    <3>5. /\ l # "idle" => a.file = f
          /\ l = "idle" => Settled(rec, d, h)
          /\ l # "idle" => Working(l, a, ~Owners(toSS[a.slot + 1]), rec, d, h)
      BY <3>2, <3>3, <3>4
    <3>6. QED
      BY <3>1, <3>3, <3>4, <3>5, LocalStep
  <2>2. CASE a.cmd # "CREATE"
    <3>1. pc' = [pc EXCEPT ![c] = "idle"] /\ arg' = [arg EXCEPT ![c] = NoCall]
      BY <1>9, <2>2 DEF Answer, Goto
    <3>2. Settled(rec, d, h)
      BY <1>7, <2>2 DEF Done, Settled
    <3>3. At(c, a, f, rec, d, h) /\ UNCHANGED <<trie, cache, disk, toSS>>
      BY <1>1, <1>8
    <3>4. QED
      BY <3>1, <3>2, <3>3, LocalStep
  <2>3. QED
    BY <2>1, <2>2
<1>11. CalmInv'
  <2>1. Steady /\ UNCHANGED <<ssPc, server>> /\ \A j \in Conns \ {k} : toSS'[j] = toSS[j]
    BY <1>8 DEF Private
  <2>2. \A i \in Slots \ {k - 1} : mutex'[i] = mutex[i]
    <3>1. mutex' = [mutex EXCEPT ![a.slot] = None]
      BY <1>2 DEF Receive, Unlock
    <3>2. QED
      BY <1>4, <3>1 DEF TypeInv, ThreadTypes
  <2>3. \A e \in Clients \ {c} : arg'[e] = arg[e]
    BY <1>9 DEF Answer, Continue, TypeInv, ThreadTypes
  <2>4. \A i \in Slots \ {k - 1} : mutex[i] # c
    BY <1>2, <1>4 DEF MutexFollowsExchange
  <2>5. Owners(toSS'[k])
    BY <1>6, <1>8
  <2>6. QED
    BY <2>1, <2>2, <2>3, <2>4, <2>5, CalmOwners
<1>12. QED
  BY <1>10, <1>11

\* CREATE passes its owner on and ends.
LEMMA PrivateOwner ==
  ASSUME Private, TypeInv, MutexFollowsExchange, PairInv, CalmInv, FileInv,
         NEW c \in Clients, SendOwner(c)
  PROVE  CalmInv' /\ FileInv'
<1> USE DEF PairInv
<1>0. pc[c] = "owner" /\ pc[c] # "idle" /\ pc[c] \notin Speaking
  BY DEF SendOwner, Speaking
<1>1. PICK a, f, rec, d, h :
          At(c, a, f, rec, d, h) /\ a \in Calls /\ Working(pc[c], a, Pending(c), rec, d, h)
  BY <1>0, AtWork
<1>2. a = arg[c] /\ f = a.file
  BY <1>1 DEF At
<1>3. Settled(rec, d, h) /\ rec # None /\ a.slot = rec.ss
  BY <1>0, <1>1, WorkingForms
<1>4. a.slot \in Slots /\ a.slot + 1 \in Conns
  BY <1>1, <1>3 DEF Calls, Settled, Known, Unknown, HomeAt
<1>5. PICK k \in Conns : k = a.slot + 1
  BY <1>4
<1>6. k - 1 = a.slot /\ registry[a.slot] = k
  <2>1. k - 1 = a.slot
    BY <1>4, <1>5, Places
  <2>2. QED
    BY <1>4, <1>5, <2>1, ActiveSlots
<1>7. PICK m : m = Order("OWNER", c, arg[c].file, c, 0)
  OBVIOUS
<1>8. /\ mutex[a.slot] = None
      /\ toSS' = [toSS EXCEPT ![k] = Append(toSS[k], m)]
      /\ UNCHANGED <<trie, cache, disk, ssPc, server, mutex>>
      /\ Answer(c, "ok")
  BY <1>2, <1>6, <1>7, AllHealthy DEF SendOwner, Post, nsVars
<1>9. pc' = [pc EXCEPT ![c] = "idle"] /\ arg' = [arg EXCEPT ![c] = NoCall]
  BY <1>8 DEF Answer, Goto
<1>10. m \in Orders /\ m.type = "OWNER"
  BY <1>0, <1>7, OrderTypes DEF FileSteps, Labels, Order
<1>11. /\ toSS[k] \in Seq(Orders) /\ toSS'[k] = Append(toSS[k], m)
       /\ \A j \in Conns \ {k} : toSS'[j] = toSS[j]
  BY <1>8 DEF TypeInv, NetTypes
<1>12. Owners(toSS'[k])
  <2>1. Owners(toSS[k])
    BY <1>6, <1>8, StreamFree
  <2>2. QED
    BY <1>10, <1>11, <2>1, StreamOwner
<1>13. FileInv'
  <2>1. ASSUME NEW e \in Clients \ {c}, pc[e] \in Speaking
       PROVE  toSS'[arg[e].slot + 1] = toSS[arg[e].slot + 1]
    <3>1. arg[e].slot \in Slots
      BY DEF TypeInv, ThreadTypes, Calls
    <3>2. mutex[arg[e].slot] = e
      BY <2>1, <3>1 DEF MutexFollowsExchange
    <3>3. arg[e].slot # a.slot
      BY <1>8, <3>2, Ranges
    <3>4. arg[e].slot + 1 # k
      <4>1. \A x, y \in Nat : x # y => x + 1 # y + 1
        OBVIOUS
      <4>2. QED
        BY <1>4, <1>5, <3>1, <3>3, <4>1, Ranges
    <3>5. QED
      BY <1>8, <3>4 DEF TypeInv, NetTypes
  <2>2. At(c, a, f, rec, d, h) /\ UNCHANGED <<trie, cache, disk>>
    BY <1>1, <1>8
  <2>3. QED
    BY <1>3, <1>9, <2>1, <2>2, SocketStep
<1>14. CalmInv'
  <2>1. Steady /\ UNCHANGED <<ssPc, server>>
    BY <1>8 DEF Private
  <2>2. \A i \in Slots \ {k - 1} : mutex'[i] = mutex[i]
    BY <1>8
  <2>3. \A e \in Clients \ {c} : arg'[e] = arg[e]
    BY <1>9 DEF TypeInv, ThreadTypes
  <2>4. \A i \in Slots \ {k - 1} : mutex[i] # c
    BY <1>0 DEF MutexFollowsExchange
  <2>5. QED
    BY <1>11, <1>12, <2>1, <2>2, <2>3, <2>4, CalmOwners
<1>15. QED
  BY <1>13, <1>14

\* A step that moves no handler and leaves what record, disks and cache say of each file.
LEMMA FileStays ==
  ASSUME FileInv, UNCHANGED <<pc, arg, trie, cache>>,
         \A g \in Files : Disks(g)' = Disks(g),
         \A e \in Clients : pc[e] \in Speaking => (Pending(e)' <=> Pending(e))
  PROVE  FileInv'
<1>1. ASSUME NEW e \in Clients, NEW g \in Uses[e] PROVE FileOK(e, g)'
  <2>1. trie'[g] = trie[g] /\ Disks(g)' = Disks(g) /\ Cached(g)' = Cached(g)
        /\ pc'[e] = pc[e] /\ arg'[e] = arg[e]
    <3>1. g \in Files
      BY UsesAssumption
    <3>2. QED
      BY <3>1 DEF Cached, Hits
  <2>2. FileOK(e, g)
    BY DEF FileInv
  <2>3. CASE pc[e] # "idle" /\ g = arg[e].file
    <3>1. Working(pc[e], arg[e], Pending(e), trie[g], Disks(g), Cached(g))
      BY <2>2, <2>3, Zenon DEF FileOK
    <3>2. Working(pc[e], arg[e], Pending(e)', trie[g], Disks(g), Cached(g))
      <4>1. CASE pc[e] \in Speaking
        <5>1. Pending(e)' <=> Pending(e)
          BY <4>1
        <5>2. CASE Pending(e)
          BY <3>1, <5>1, <5>2, Zenon DEF Working
        <5>3. CASE ~Pending(e)
          BY <3>1, <5>1, <5>3, Zenon DEF Working
        <5>4. QED
          BY <5>2, <5>3
      <4>2. CASE pc[e] \notin Speaking
        BY <3>1, <4>2, WorkingElsewhere
      <4>3. QED
        BY <4>1, <4>2
    <3>3. Working(pc[e], arg[e], Pending(e), trie[g], Disks(g), Cached(g))'
      BY <2>1, <3>2
    <3>4. pc'[e] # "idle" /\ g = arg'[e].file
      BY <2>1, <2>3
    <3>5. QED
      BY <3>3, <3>4, Zenon DEF FileOK
  <2>4. CASE ~(pc[e] # "idle" /\ g = arg[e].file)
    <3>1. Settled(trie[g], Disks(g), Cached(g))
      BY <2>2, <2>4, Zenon DEF FileOK
    <3>2. Settled(trie[g], Disks(g), Cached(g))'
      BY <2>1, <3>1
    <3>3. ~(pc'[e] # "idle" /\ g = arg'[e].file)
      BY <2>1, <2>4
    <3>4. QED
      BY <3>2, <3>3, Zenon DEF FileOK
  <2>5. QED
    BY <2>3, <2>4
<1>2. \A e \in Clients : pc'[e] # "idle" => arg'[e].file \in Uses[e]
  BY DEF FileInv
<1>3. QED
  BY <1>1, <1>2, Zenon DEF FileInv

\* What the disks say of each file when server s leaves file_table dir.
LEMMA DiskStep ==
  ASSUME TypeInv, NEW s \in Servers, NEW dir \in [Files -> Meta \cup {None}],
         disk' = [disk EXCEPT ![s] = dir]
  PROVE  /\ \A g \in Files : dir[g] = disk[s][g] => Disks(g)' = Disks(g)
         /\ \A g \in Files : dir[g] = None => DOMAIN Disks(g)' = DOMAIN Disks(g) \ {s}
         /\ \A g \in Files : dir[g] # None =>
              DOMAIN Disks(g)' = DOMAIN Disks(g) \cup {s} /\ Disks(g)'[s] = dir[g].acl
         /\ \A g \in Files : dir[g] # None /\ disk[s][g] # None /\ dir[g].acl = disk[s][g].acl =>
              Disks(g)' = Disks(g)
<1>1. disk'[s] = dir /\ \A t \in Servers \ {s} : disk'[t] = disk[t]
  BY DEF TypeInv, DiskTypes
<1>2. \A g \in Files : /\ dir[g] = None => HomesOf(g)' = HomesOf(g) \ {s}
                       /\ dir[g] # None => HomesOf(g)' = HomesOf(g) \cup {s}
                       /\ s \in HomesOf(g) <=> disk[s][g] # None
  BY <1>1 DEF HomesOf
<1>3. \A g : DOMAIN Disks(g) = HomesOf(g) /\ DOMAIN Disks(g)' = HomesOf(g)'
  BY DEF Disks
<1>4. ASSUME NEW g \in Files, dir[g] = disk[s][g] PROVE Disks(g)' = Disks(g)
  <2>1. HomesOf(g)' = HomesOf(g)
    BY <1>2, <1>4
  <2>2. \A t \in HomesOf(g) : disk'[t][g] = disk[t][g]
    BY <1>1, <1>4 DEF HomesOf
  <2>3. QED
    BY <2>1, <2>2 DEF Disks
<1>5. ASSUME NEW g \in Files, dir[g] # None PROVE Disks(g)'[s] = dir[g].acl
  BY <1>1, <1>2, <1>5 DEF Disks
<1>6. ASSUME NEW g \in Files, dir[g] # None, disk[s][g] # None, dir[g].acl = disk[s][g].acl
      PROVE  Disks(g)' = Disks(g)
  <2>1. HomesOf(g)' = HomesOf(g)
    BY <1>2, <1>6
  <2>2. \A t \in HomesOf(g) : disk'[t][g].acl = disk[t][g].acl
    BY <1>1, <1>6 DEF HomesOf
  <2>3. QED
    BY <2>1, <2>2 DEF Disks
<1>7. QED
  BY <1>2, <1>3, <1>4, <1>5, <1>6

\* What a command of the storage server leaves of the sockets and the handlers.
LEMMA ServeLeaves ==
  ASSUME Private, TypeInv, CalmInv, NEW k \in Conns, NEW type, NEW dir, NEW replies,
         Serve(k, type, dir, replies)
  PROVE  /\ toSS[k] # <<>> /\ Head(toSS[k]).type = type
         /\ server[k] = Registered[k] /\ server[k] \in Servers
         /\ disk' = [disk EXCEPT ![server[k]] = dir]
         /\ toSS'[k] = Tail(toSS[k]) /\ \A j \in Conns \ {k} : toSS'[j] = toSS[j]
         /\ UNCHANGED <<pc, arg, mutex, trie, cache, ssPc, server>>
         /\ CalmInv'
<1>1. /\ toSS[k] # <<>> /\ Head(toSS[k]).type = type
      /\ disk' = [disk EXCEPT ![server[k]] = dir]
      /\ toSS' = [toSS EXCEPT ![k] = Tail(toSS[k])]
      /\ UNCHANGED <<pc, arg, mutex, trie, cache, ssPc, server>>
  BY DEF Serve, Read, nsVars, threads
<1>2. server[k] = Registered[k] /\ server[k] \in Servers
  BY DEF CalmInv, TypeInv, RegTypes, Up
<1>3. /\ toSS[k] \in Seq(Orders) /\ toSS'[k] = Tail(toSS[k])
      /\ \A j \in Conns \ {k} : toSS'[j] = toSS[j]
  BY <1>1 DEF TypeInv, NetTypes
<1>4. CalmInv'
  <2>1. PICK q : q = toSS[k]
    OBVIOUS
  <2>2. PICK t : t = Tail(q)
    OBVIOUS
  <2>3. Len(t) = Len(q) - 1 /\ Len(q) \in Nat /\ \A j \in 1..Len(t) : t[j] = q[j + 1]
    BY <1>1, <1>3, <2>1, <2>2, HeadTailProperties, EmptySeq, LenProperties
  <2>4. ASSUME NEW i \in Conns, NEW j \in 1..Len(toSS'[i]), toSS'[i][j].type # "OWNER"
        PROVE  toSS'[i][j] = ToServer(mutex[i - 1])'
    <3>1. ToServer(mutex[i - 1])' = ToServer(mutex[i - 1])
      BY <1>1 DEF ToServer, Order
    <3>2. CASE i = k
      <4>1. j \in 1..Len(t) /\ toSS'[i][j] = q[j + 1]
        BY <1>3, <2>1, <2>2, <2>3, <2>4, <3>2
      <4>2. j + 1 \in 1..Len(q)
        BY <2>3, <4>1
      <4>3. q[j + 1].type # "OWNER" => q[j + 1] = ToServer(mutex[k - 1])
        BY <2>1, <4>2 DEF CalmInv
      <4>4. QED
        BY <2>4, <3>1, <3>2, <4>1, <4>3
    <3>3. CASE i # k
      <4>1. toSS'[i] = toSS[i]
        BY <1>3, <3>3
      <4>2. toSS[i][j] = ToServer(mutex[i - 1])
        BY <2>4, <4>1 DEF CalmInv
      <4>3. QED
        BY <3>1, <4>1, <4>2
    <3>4. QED
      BY <3>2, <3>3
  <2>5. QED
    BY <1>1, <2>4 DEF CalmInv
<1>5. QED
  BY <1>1, <1>2, <1>3, <1>4

\* A request that is served is that of the handler which holds the mutex, and the last.
LEMMA ServesHolder ==
  ASSUME Private, TypeInv, MutexFollowsExchange, StreamInv, CalmInv, NEW k \in Conns,
         toSS[k] # <<>>, Head(toSS[k]).type # "OWNER"
  PROVE  \E h \in Clients :
           /\ mutex[k - 1] = h /\ Head(toSS[k]) = ToServer(h)
           /\ pc[h] \in Speaking /\ arg[h].slot = k - 1 /\ arg[h].slot + 1 = k
           /\ Pending(h) /\ Owners(Tail(toSS[k]))
<1>1. k - 1 \in Slots /\ k - 1 + 1 = k
  BY StartAssumption, SizeAssumption DEF Private, Steady, Conns, Slots
<1>2. PICK q : q = toSS[k]
  OBVIOUS
<1>3. q \in Seq(Orders) /\ q # <<>> /\ Len(q) \in Nat \ {0} /\ Head(q) = q[1] /\ 1 \in 1..Len(q)
  <2>1. q \in Seq(Orders) /\ q # <<>>
    BY <1>2 DEF TypeInv, NetTypes
  <2>2. Len(q) \in Nat \ {0} /\ Head(q) = q[1]
    BY <2>1, HeadTailProperties, EmptySeq, LenProperties
  <2>3. QED
    BY <2>1, <2>2
<1>4. q[1].type # "OWNER"
  BY <1>2, <1>3
<1>5. ~Owners(q)
  BY <1>3, <1>4 DEF Owners
<1>6. mutex[k - 1] # None
  BY <1>2, <1>5, StreamFree
<1>7. PICK h \in Clients : h = mutex[k - 1]
  BY <1>1, <1>6 DEF TypeInv, ThreadTypes
<1>8. pc[h] \in Speaking /\ arg[h].slot = k - 1 /\ arg[h].slot + 1 = k
  BY <1>1, <1>7 DEF MutexFollowsExchange
<1>9. Head(q) = ToServer(h)
  BY <1>2, <1>3, <1>4, <1>7 DEF CalmInv
<1>10. Len(q) = 1
  BY <1>2, <1>3, <1>4 DEF StreamInv, Stream, StreamOK
<1>11. Owners(Tail(q))
  <2>1. Len(Tail(q)) = 0
    BY <1>3, <1>10, HeadTailProperties
  <2>2. QED
    BY <2>1 DEF Owners
<1>12. Pending(h)
  BY <1>2, <1>5, <1>8 DEF Pending
<1>13. QED
  BY <1>2, <1>7, <1>8, <1>9, <1>11, <1>12

\* A request is served: the file of its handler is then as the request wants it.
LEMMA ServedStep ==
  ASSUME Private, TypeInv, MutexFollowsExchange, FileInv, NEW k \in Conns, NEW c \in Clients,
         NEW a, NEW f, NEW rec, NEW d, NEW h, NEW new,
         At(c, a, f, rec, d, h), Linked(a), a.slot + 1 = k,
         pc[c] \in Speaking, mutex[k - 1] = c,
         UNCHANGED <<pc, arg, mutex, trie, cache>>,
         \A j \in Conns \ {k} : toSS'[j] = toSS[j], Owners(toSS'[k]),
         \A g \in Files \ {f} : Disks(g)' = Disks(g), Disks(f)' = new,
         Done(a, rec, new, h)
  PROVE  FileInv'
<1>1. \A g : trie'[g] = trie[g] /\ Cached(g)' = Cached(g)
  BY DEF Cached, Hits
<1>2. /\ arg[c] = a /\ arg[c].file = f /\ trie[f] = rec /\ Cached(f) = h /\ pc[c] # "idle"
      /\ f \in Uses[c]
  BY DEF At, FileInv
<1>3. trie'[f] = rec /\ Disks(f)' = new /\ Cached(f)' = h
  BY <1>1, <1>2
<1>4. FileOK(c, f)'
  <2>1. ~Pending(c)'
    BY <1>2 DEF Pending
  <2>2. Working(pc[c], a, Pending(c)', rec, new, h)
    BY <2>1, Zenon DEF Working
  <2>3. Working(pc'[c], arg'[c], Pending(c)', trie'[f], Disks(f)', Cached(f)')
    BY <1>2, <1>3, <2>2
  <2>4. pc'[c] # "idle" /\ f = arg'[c].file
    BY <1>2
  <2>5. QED
    BY <2>3, <2>4, Zenon DEF FileOK
<1>5. ASSUME NEW e \in Clients \ {c}, pc[e] \in Speaking
      PROVE  toSS'[arg[e].slot + 1] = toSS[arg[e].slot + 1]
  <2>1. arg[e].slot \in Slots /\ e # None
    BY NoneAssumption DEF TypeInv, ThreadTypes, Calls
  <2>2. mutex[arg[e].slot] = e
    BY <1>5, <2>1 DEF MutexFollowsExchange
  <2>3. arg[e].slot + 1 \in Conns
    <3>1. PICK b, g, r, p, q :
            At(e, b, g, r, p, q) /\ Working(pc[e], b, Pending(e), r, p, q)
      <4>1. pc[e] # "idle"
        BY <1>5 DEF Speaking
      <4>2. QED
        BY <4>1, AtWork
    <3>2. Linked(b)
      BY <1>5, <3>1, WorkingForms
    <3>3. QED
      BY <3>1, <3>2 DEF At, Linked
  <2>4. arg[e].slot + 1 # k
    <3>1. arg[e].slot = k - 1 => mutex[k - 1] = e
      BY <2>2
    <3>2. QED
      BY <2>1, <3>1, Places
  <2>5. QED
    BY <2>3, <2>4
<1>6. \A g \in Files \ {f} :
           trie'[g] = trie[g] /\ Disks(g)' = Disks(g) /\ Cached(g)' = Cached(g)
  BY <1>1
<1>7. /\ f \in Uses[c] /\ (pc[c] # "idle" => arg[c].file = f) /\ (pc'[c] # "idle" => arg'[c].file = f)
      /\ \A e \in Clients \ {c} : pc'[e] = pc[e] /\ arg'[e] = arg[e]
  BY <1>2
<1>8. QED
  BY <1>4, <1>5, <1>6, <1>7, FileStep

\* The storage server takes a command.
LEMMA PrivateServe ==
  ASSUME Private, TypeInv, MutexFollowsExchange, PairInv, CalmInv, FileInv, NEW k \in Conns,
         \/ ServeCreate(k) \/ ServeDelete(k) \/ ServeUndo(k) \/ ServeInfo(k) \/ ServeExec(k)
         \/ ServeAdd(k) \/ ServeRem(k) \/ ServeUnknown(k)
  PROVE  CalmInv' /\ FileInv'
<1> USE DEF PairInv
<1> DEFINE m == Head(toSS[k])
<1>1. toSS[k] # <<>> /\ m.type # "OWNER"
  BY DEF ServeCreate, ServeDelete, ServeUndo, ServeInfo, ServeExec, ServeAdd, ServeRem,
     ServeUnknown, Serve
<1>2. PICK c \in Clients :
           /\ mutex[k - 1] = c /\ m = ToServer(c)
           /\ pc[c] \in Speaking /\ arg[c].slot = k - 1 /\ arg[c].slot + 1 = k
           /\ Pending(c) /\ Owners(Tail(toSS[k]))
  BY <1>1, ServesHolder
<1>3. pc[c] # "idle"
  BY <1>2 DEF Speaking
<1>4. PICK a, f, rec, d, h :
           /\ At(c, a, f, rec, d, h) /\ a \in Calls /\ f \in Uses[c] /\ f \in Files
           /\ rec \in Record \cup {None}
           /\ DOMAIN d = HomesOf(f) /\ DOMAIN h = Hits(f)
           /\ \A s \in HomesOf(f) : d[s] = disk[s][f].acl
           /\ \A j \in Hits(f) : h[j] = cache[j].ss
           /\ Working(pc[c], a, Pending(c), rec, d, h)
  BY <1>3, AtWork
<1>5. a = arg[c] /\ f = a.file /\ d = Disks(f)
  BY <1>4 DEF At
<1>6. m.type = a.cmd /\ m.file = f /\ m.user = a.user /\ m.perm = a.perm
  BY <1>2, <1>5 DEF ToServer, Order
<1>7. Asked(a, rec, d, h) /\ Linked(a)
  BY <1>2, <1>4, WorkingForms
<1>8. PICK s \in Servers : s = server[k] /\ s = Registered[k]
  BY <1>1 DEF CalmInv, TypeInv, RegTypes, Up
<1>9. PICK old : old = disk[s]
  OBVIOUS
<1>10. /\ old \in [Files -> Meta \cup {None}] /\ Holds(k) = old
       /\ (s \in HomesOf(f) <=> old[f] # None)
       /\ (s \in HomesOf(f) => d[s] = old[f].acl)
  BY <1>4, <1>8, <1>9 DEF Holds, HomesOf, TypeInv, DiskTypes
<1>11. a.slot + 1 = k /\ Registered[a.slot + 1] = s /\ a.slot + 1 \in Conns
  BY <1>2, <1>5, <1>8
<1> HIDE DEF m
<1>12. ASSUME NEW type, NEW dir \in [Files -> Meta \cup {None}], NEW replies,
              Serve(k, type, dir, replies),
              \A g \in Files \ {f} : dir[g] = old[g],
              Done(a, rec, Disks(f)', h)
       PROVE  CalmInv' /\ FileInv'
  <2>1. /\ disk' = [disk EXCEPT ![server[k]] = dir]
        /\ toSS'[k] = Tail(toSS[k]) /\ \A j \in Conns \ {k} : toSS'[j] = toSS[j]
        /\ UNCHANGED <<pc, arg, mutex, trie, cache>>
        /\ CalmInv'
    BY <1>12, ServeLeaves
  <2>2. disk' = [disk EXCEPT ![s] = dir]
    BY <1>8, <2>1
  <2>a. /\ \A g \in Files : dir[g] = disk[s][g] => Disks(g)' = Disks(g)
        /\ \A g \in Files : dir[g] = None => DOMAIN Disks(g)' = DOMAIN Disks(g) \ {s}
        /\ \A g \in Files : dir[g] # None =>
             DOMAIN Disks(g)' = DOMAIN Disks(g) \cup {s} /\ Disks(g)'[s] = dir[g].acl
    BY <2>2, DiskStep
  <2>3. \A g \in Files \ {f} : Disks(g)' = Disks(g)
    BY <1>9, <1>12, <2>a
  <2>4. Owners(toSS'[k])
    BY <1>2, <2>1
  <2>5. PICK new : new = Disks(f)'
    OBVIOUS
  <2>6. Disks(f)' = new /\ Done(a, rec, new, h)
    BY <1>12, <2>5
  <2>7. /\ At(c, a, f, rec, d, h) /\ Linked(a) /\ a.slot + 1 = k
        /\ pc[c] \in Speaking /\ mutex[k - 1] = c
        /\ UNCHANGED <<pc, arg, mutex, trie, cache>>
        /\ \A j \in Conns \ {k} : toSS'[j] = toSS[j]
    BY <1>2, <1>4, <1>7, <1>11, <2>1
  <2>8. FileInv'
    BY <2>3, <2>4, <2>6, <2>7, ServedStep
  <2>9. QED
    BY <2>1, <2>8
<1>13. ASSUME NEW type, NEW dir \in [Files -> Meta \cup {None}], NEW replies,
              Serve(k, type, dir, replies)
       PROVE  /\ dir[f] = old[f] => Disks(f)' = d
              /\ dir[f] = None => DOMAIN Disks(f)' = DOMAIN d \ {s}
              /\ dir[f] # None =>
                   DOMAIN Disks(f)' = DOMAIN d \cup {s} /\ Disks(f)'[s] = dir[f].acl
  <2>1. disk' = [disk EXCEPT ![server[k]] = dir]
    BY <1>13, ServeLeaves
  <2>2. disk' = [disk EXCEPT ![s] = dir]
    BY <1>8, <2>1
  <2>3. /\ \A g \in Files : dir[g] = disk[s][g] => Disks(g)' = Disks(g)
        /\ \A g \in Files : dir[g] = None => DOMAIN Disks(g)' = DOMAIN Disks(g) \ {s}
        /\ \A g \in Files : dir[g] # None =>
             DOMAIN Disks(g)' = DOMAIN Disks(g) \cup {s} /\ Disks(g)'[s] = dir[g].acl
    BY <2>2, DiskStep
  <2>4. QED
    BY <1>4, <1>5, <1>9, <2>3
<1>14. ASSUME NEW type, NEW replies, Serve(k, type, old, replies),
              a.cmd \notin {"CREATE", "DELETE", "ADD", "REM"}
       PROVE  CalmInv' /\ FileInv'
  <2>1. Disks(f)' = d
    BY <1>10, <1>13, <1>14
  <2>2. Done(a, rec, d, h)
    BY <1>7, <1>14 DEF Asked, Middle, Done
  <2>3. Done(a, rec, Disks(f)', h)
    BY <2>1, <2>2
  <2>4. QED
    BY <1>10, <1>12, <1>14, <2>3
<1>15. CASE ServeCreate(k)
  <2>1. PICK dir : dir = [old EXCEPT ![f] = IF @ = None THEN NoMeta ELSE @]
    OBVIOUS
  <2>2. Serve(k, "CREATE", dir, <<"ACK">>) /\ a.cmd = "CREATE"
    BY <1>6, <1>10, <1>15, <2>1 DEF ServeCreate, Target, Serve, m
  <2>3. Unknown(rec, h) /\ DOMAIN d = {}
    BY <1>7, <2>2 DEF Asked
  <2>4. NoMeta \in Meta /\ NoMeta # None /\ NoMeta.acl = NoAcl
    <3>1. NoMeta \in Meta /\ NoMeta.acl = NoAcl
      BY DEF NoMeta, NoAcl, Meta, Acl, Perms, PERM_WRITE
    <3>2. QED
      BY <3>1, RecordAssumption
  <2>5. old[f] = None
    BY <1>4, <1>10, <2>3
  <2>6. dir \in [Files -> Meta \cup {None}] /\ dir[f] = NoMeta /\ \A g \in Files \ {f} : dir[g] = old[g]
    BY <1>4, <1>10, <2>1, <2>4, <2>5
  <2>7. DOMAIN Disks(f)' = {s} /\ Disks(f)'[s] = NoAcl
    BY <1>13, <2>2, <2>3, <2>4, <2>6
  <2>8. Done(a, rec, Disks(f)', h)
    BY <1>11, <2>2, <2>3, <2>7 DEF Done, HomeAt, ListAt
  <2>9. QED
    BY <1>12, <2>2, <2>6, <2>8
<1>16. CASE ServeDelete(k)
  <2>1. PICK dir : dir = [old EXCEPT ![f] = None]
    OBVIOUS
  <2>2. PICK replies : Serve(k, "DELETE", dir, replies)
    BY <1>6, <1>10, <1>16, <2>1 DEF ServeDelete, Target, m
  <2>a. a.cmd = "DELETE"
    BY <1>6, <1>16 DEF ServeDelete, Serve, m
  <2>3. Unknown(rec, h) /\ DOMAIN d = {s}
    BY <1>7, <1>11, <2>a DEF Asked, HomeAt
  <2>4. dir \in [Files -> Meta \cup {None}] /\ dir[f] = None /\ \A g \in Files \ {f} : dir[g] = old[g]
    BY <1>4, <1>10, <2>1
  <2>5. DOMAIN Disks(f)' = {}
    BY <1>13, <2>2, <2>3, <2>4
  <2>6. Done(a, rec, Disks(f)', h)
    BY <2>3, <2>5, <2>a DEF Done
  <2>7. QED
    BY <1>12, <2>2, <2>4, <2>6
<1>17. CASE ServeUndo(k) \/ ServeInfo(k) \/ ServeExec(k)
  <2>1. PICK type, replies : type \in {"UNDO", "INFO", "EXEC"} /\ Serve(k, type, old, replies)
    BY <1>10, <1>17 DEF ServeUndo, ServeInfo, ServeExec
  <2>2. a.cmd = type
    BY <1>6, <2>1 DEF Serve, m
  <2>3. a.cmd \notin {"CREATE", "DELETE", "ADD", "REM"}
    BY <2>1, <2>2
  <2>4. QED
    BY <1>14, <2>1, <2>3
<1>18. CASE ServeUnknown(k)
  <2>1. PICK type, replies : type \in {"MOVE", "ACK"} /\ Serve(k, type, old, replies)
    BY <1>10, <1>18 DEF ServeUnknown
  <2>2. a.cmd = type
    BY <1>6, <2>1 DEF Serve, m
  <2>3. a.cmd \notin {"CREATE", "DELETE", "ADD", "REM"}
    BY <2>1, <2>2
  <2>4. QED
    BY <1>14, <2>1, <2>3
<1>b. ASSUME a.cmd \in {"ADD", "REM"}
      PROVE  /\ Granting(a, rec, d, h) /\ DOMAIN d = {s} /\ old[f] # None
             /\ rec # None /\ a.slot = rec.ss /\ ListAt(d, rec.ss) = old[f].acl
  <2>1. Granting(a, rec, d, h) /\ rec # None /\ a.slot = rec.ss
    BY <1>7, <1>b DEF Asked, Middle
  <2>2. DOMAIN d = {s} /\ ListAt(d, rec.ss) = d[s]
    BY <1>11, <2>1 DEF Granting, Known, HomeAt, ListAt
  <2>3. QED
    BY <1>4, <1>10, <2>1, <2>2
<1>c. ASSUME a.cmd \in {"ADD", "REM"}, NEW type, NEW dir \in [Files -> Meta \cup {None}],
             NEW replies, Serve(k, type, dir, replies),
             \A g \in Files \ {f} : dir[g] = old[g], dir[f] # None, dir[f].acl = rec.acl
      PROVE  CalmInv' /\ FileInv'
  <2>1. DOMAIN Disks(f)' = {s} /\ Disks(f)'[s] = rec.acl
    BY <1>13, <1>b, <1>c
  <2>2. Known(rec, Disks(f)', h) /\ ListAt(Disks(f)', rec.ss) = rec.acl
    BY <1>11, <1>b, <1>c, <2>1 DEF Granting, Known, HomeAt, ListAt
  <2>3. Done(a, rec, Disks(f)', h)
    BY <1>c, <2>2 DEF Done, Settled
  <2>4. QED
    BY <1>12, <1>c, <2>3
<1>19. CASE ServeAdd(k) \/ ServeRem(k)
  <2>1. a.cmd \in {"ADD", "REM"}
    BY <1>6, <1>19 DEF ServeAdd, ServeRem, Serve, m
  <2>2. PICK new : new = [old[f] EXCEPT !.acl = SetAcl(@, a.user, a.perm)]
    OBVIOUS
  <2>3. PICK dir : dir = [old EXCEPT ![f] = new]
    OBVIOUS
  <2>4. old[f] \in Meta /\ old[f] # None
    BY <1>4, <1>10, <1>b, <2>1
  <2>5. new \in Meta /\ new.acl = SetAcl(old[f].acl, a.user, a.perm)
    BY <1>4, <2>2, <2>4 DEF Meta, Acl, SetAcl, Calls
  <2>6. new # None /\ new.acl = rec.acl
    <3>1. rec.acl = SetAcl(old[f].acl, a.user, a.perm)
      BY <1>b, <2>1 DEF Granting
    <3>2. QED
      BY <2>5, <3>1, RecordAssumption
  <2>7. \E type, replies : Serve(k, type, dir, replies)
    <3>1. CASE ServeAdd(k)
      <4>1. a.cmd = "ADD"
        BY <1>6, <3>1 DEF ServeAdd, Serve, m
      <4>2. ~AclFull(old[f].acl, a.user)
        BY <1>b, <4>1 DEF Granting
      <4>3. Serve(k, "ADD", [Holds(k) EXCEPT ![f].acl = SetAcl(@, a.user, a.perm)], <<"ACK">>)
        BY <1>6, <1>10, <2>4, <3>1, <4>2 DEF ServeAdd, m
      <4>4. [Holds(k) EXCEPT ![f].acl = SetAcl(@, a.user, a.perm)] = dir
        BY <1>10, <2>2, <2>3
      <4>5. QED
        BY <4>3, <4>4
    <3>2. CASE ServeRem(k)
      <4>1. a.cmd = "REM"
        BY <1>6, <3>2 DEF ServeRem, Serve, m
      <4>2. a.perm = 0
        BY <1>b, <4>1 DEF Granting
      <4>3. Serve(k, "REM", [Holds(k) EXCEPT ![f].acl = SetAcl(@, a.user, a.perm)], <<"ACK">>)
        BY <1>6, <1>10, <2>4, <3>2, <4>2 DEF ServeRem, m
      <4>4. [Holds(k) EXCEPT ![f].acl = SetAcl(@, a.user, a.perm)] = dir
        BY <1>10, <2>2, <2>3
      <4>5. QED
        BY <4>3, <4>4
    <3>3. QED
      BY <1>19, <3>1, <3>2
  <2>8. /\ dir \in [Files -> Meta \cup {None}] /\ dir[f] = new
        /\ \A g \in Files \ {f} : dir[g] = old[g]
    BY <1>4, <1>10, <2>3, <2>5
  <2>9. QED
    BY <1>c, <2>1, <2>6, <2>7, <2>8
<1>20. QED
  BY <1>15, <1>16, <1>17, <1>18, <1>19

\* The storage server takes an owner: no access list changes.
LEMMA PrivateServeOwner ==
  ASSUME Private, TypeInv, CalmInv, FileInv, NEW k \in Conns, ServeOwner(k)
  PROVE  CalmInv' /\ FileInv'
<1>1. PICK m, old, dir :
        /\ m = Head(toSS[k]) /\ old = Holds(k)
        /\ dir = IF old[m.file] = None THEN old ELSE [old EXCEPT ![m.file].owner = m.user]
  OBVIOUS
<1>2. Serve(k, "OWNER", dir, <<>>)
  BY <1>1 DEF ServeOwner
<1>3. /\ toSS[k] # <<>> /\ Head(toSS[k]).type = "OWNER"
      /\ server[k] = Registered[k] /\ server[k] \in Servers
      /\ disk' = [disk EXCEPT ![server[k]] = dir]
      /\ toSS'[k] = Tail(toSS[k]) /\ \A j \in Conns \ {k} : toSS'[j] = toSS[j]
      /\ UNCHANGED <<pc, arg, mutex, trie, cache, ssPc, server>>
      /\ CalmInv'
  BY <1>2, ServeLeaves
<1>4. PICK s \in Servers : s = server[k] /\ old = disk[s]
  BY <1>1, <1>3 DEF Holds
<1>5. old \in [Files -> Meta \cup {None}] /\ m \in Orders
  BY <1>1, <1>3, <1>4 DEF TypeInv, DiskTypes, NetTypes
<1>6. m.user \in Clients
  BY <1>1, <1>3, <1>5 DEF Orders
<1>7. /\ dir \in [Files -> Meta \cup {None}]
      /\ \A g \in Files :
           \/ dir[g] = old[g]
           \/ dir[g] # None /\ old[g] # None /\ dir[g].acl = old[g].acl
  <2>1. CASE old[m.file] = None \/ m.file \notin Files
    <3>1. dir = old
      BY <1>1, <1>5, <2>1
    <3>2. QED
      BY <1>5, <3>1
  <2>2. CASE old[m.file] # None /\ m.file \in Files
    <3>1. PICK new : new = [old[m.file] EXCEPT !.owner = m.user]
      OBVIOUS
    <3>2. new \in Meta /\ new.acl = old[m.file].acl
      BY <1>5, <1>6, <2>2, <3>1 DEF Meta
    <3>3. dir = [old EXCEPT ![m.file] = new]
      BY <1>1, <2>2, <3>1
    <3>4. new # None
      BY <3>2, RecordAssumption
    <3>5. QED
      BY <1>5, <2>2, <3>2, <3>3, <3>4
  <2>3. QED
    BY <2>1, <2>2
<1>8. disk' = [disk EXCEPT ![s] = dir]
  BY <1>3, <1>4
<1>9. /\ \A g \in Files : dir[g] = disk[s][g] => Disks(g)' = Disks(g)
      /\ \A g \in Files : dir[g] # None /\ disk[s][g] # None /\ dir[g].acl = disk[s][g].acl =>
              Disks(g)' = Disks(g)
  BY <1>7, <1>8, DiskStep
<1>10. \A g \in Files : Disks(g)' = Disks(g)
  BY <1>4, <1>7, <1>9
<1>11. Owners(toSS'[k]) <=> Owners(toSS[k])
  <2>1. PICK q, t : q = toSS[k] /\ t = Tail(q)
    OBVIOUS
  <2>2. /\ Len(t) = Len(q) - 1 /\ Len(q) \in Nat \ {0} /\ Head(q) = q[1]
        /\ \A j \in 1..Len(t) : t[j] = q[j + 1]
    <3>1. q \in Seq(Orders) /\ q # <<>>
      BY <1>3, <2>1 DEF TypeInv, NetTypes
    <3>2. QED
      BY <2>1, <3>1, HeadTailProperties, EmptySeq, LenProperties
  <2>3. Owners(q) => Owners(t)
    <3>1. \A j \in 1..Len(t) : j + 1 \in 1..Len(q)
      BY <2>2
    <3>2. QED
      BY <2>2, <3>1 DEF Owners
  <2>4. ASSUME Owners(t) PROVE Owners(q)
    <3>1. ASSUME NEW j \in 1..Len(q) PROVE q[j].type = "OWNER"
      <4>1. CASE j = 1
        BY <1>3, <2>1, <2>2, <4>1
      <4>2. CASE j # 1
        <5>1. j - 1 \in 1..Len(t) /\ j - 1 + 1 = j
          BY <2>2, <4>2
        <5>2. t[j - 1] = q[j]
          BY <2>2, <5>1
        <5>3. QED
          BY <2>4, <5>1, <5>2 DEF Owners
      <4>3. QED
        BY <4>1, <4>2
    <3>2. QED
      BY <3>1 DEF Owners
  <2>5. QED
    BY <1>3, <2>1, <2>3, <2>4
<1>12. ASSUME NEW e \in Clients, pc[e] \in Speaking PROVE Pending(e)' <=> Pending(e)
  <2>1. arg[e].slot + 1 \in Conns
    <3>1. PICK b, g, r, p, q :
            At(e, b, g, r, p, q) /\ Working(pc[e], b, Pending(e), r, p, q)
      <4>1. pc[e] # "idle"
        BY <1>12 DEF Speaking
      <4>2. QED
        BY <4>1, AtWork
    <3>2. Linked(b)
      BY <1>12, <3>1, WorkingForms
    <3>3. QED
      BY <3>1, <3>2 DEF At, Linked
  <2>2. arg'[e] = arg[e]
    BY <1>3
  <2>3. CASE arg[e].slot + 1 = k
    BY <1>11, <2>2, <2>3 DEF Pending
  <2>4. CASE arg[e].slot + 1 # k
    <3>1. toSS'[arg[e].slot + 1] = toSS[arg[e].slot + 1]
      BY <1>3, <2>1, <2>4
    <3>2. QED
      BY <2>2, <3>1 DEF Pending
  <2>5. QED
    BY <2>3, <2>4
<1>13. FileInv'
  BY <1>3, <1>10, <1>12, FileStays
<1>14. QED
  BY <1>3, <1>13

\* While no server stops the steps are those of clients, of servers that serve, and the
\* clock.
LEMMA CalmCases ==
  ASSUME Private, TypeInv, SlotInv, [Next]_vars
  PROVE  \/ \E c \in Clients : Requests(c) \/ ClientThread(c)
         \/ \E k \in Conns :
              \/ ServeCreate(k) \/ ServeDelete(k) \/ ServeUndo(k) \/ ServeInfo(k)
              \/ ServeExec(k) \/ ServeAdd(k) \/ ServeRem(k) \/ ServeUnknown(k)
         \/ \E k \in Conns : ServeOwner(k)
         \/ Tick
         \/ UNCHANGED vars
<1>1. ASSUME NEW k \in Conns, RegistrationThread(k) PROVE FALSE
  BY <1>1 DEF RegistrationThread, Register, RegisterAck, RegisterAckAgain, SyncFile, SyncEnds,
     SyncFails, RegisterRemove, RegisterPurge, RegisterSigpipe, SlotInv
<1>2. ASSUME NEW k \in Conns, Hello(k) \/ LoseNameServer(k) PROVE FALSE
  BY <1>2 DEF Hello, LoseNameServer, SlotInv
<1>3. ASSUME NEW s \in Servers, Connect(s) PROVE FALSE
  BY <1>3 DEF Connect, Spare, SlotInv
<1>4. ASSUME NEW k \in Conns, Crash(k) PROVE FALSE
  BY <1>4 DEF Crash, Private
<1>5. QED
  BY <1>1, <1>2, <1>3, <1>4 DEF Next, ServerThread

\* A step that leaves the cache alone.
LEMMA CacheStays ==
  ASSUME CacheInv, UNCHANGED cache PROVE CacheInv'
  BY DEF CacheInv, Hits

\* Every step keeps the files of each client as its requests leave them.
LEMMA PrivateStep ==
  ASSUME Private, IndInv, PairInv, PrivateInv, [Next]_vars
  PROVE  PrivateInv'
<1>0. /\ TypeInv /\ MutexFollowsExchange /\ SlotInv /\ StreamInv
      /\ CalmInv /\ CacheInv /\ FileInv /\ Steady
  BY DEF IndInv, PairInv, PrivateInv, Private
<1>1. ASSUME NEW c \in Clients, Requests(c) PROVE PrivateInv'
  <2>1. UNCHANGED cache
    BY <1>1, RequestStarts DEF Begun, Request, nsVars
  <2>2. QED
    BY <1>0, <1>1, <2>1, CalmClients, CacheStays, PrivateRequest DEF PrivateInv
<1>2. ASSUME NEW c \in Clients,
             \/ Hit(c) \/ CheckPermission(c) \/ FindInTrie(c) \/ GetDetails(c) \/ SetFolder(c)
      PROVE  PrivateInv'
  <2>1. UNCHANGED cache
    BY <1>2 DEF Hit, CheckPermission, FindInTrie, GetDetails, SetFolder, nsVars
  <2>2. QED
    BY <1>0, <1>2, <2>1, CalmClients, CacheStays, PrivateLocal DEF PrivateInv
<1>3. ASSUME NEW c \in Clients, DeleteRecord(c) \/ Grant(c) \/ AddFile(c) PROVE PrivateInv'
  <2>1. UNCHANGED cache
    BY <1>3 DEF DeleteRecord, Grant, AddFile
  <2>2. QED
    BY <1>0, <1>3, <2>1, CalmClients, CacheStays, PrivateRecords DEF PrivateInv
<1>4. ASSUME NEW c \in Clients, Lookup(c) \/ CacheAdd(c) \/ InvalidateEntry(c)
      PROVE  PrivateInv'
  BY <1>0, <1>4, CalmClients, PrivateCache DEF PrivateInv
<1>5. ASSUME NEW c \in Clients, PickServer(c) \/ Resolve(c) \/ Wait(c) PROVE PrivateInv'
  <2>1. UNCHANGED cache
    BY <1>5 DEF PickServer, Resolve, Wait, nsVars
  <2>2. QED
    BY <1>0, <1>5, <2>1, CalmClients, CacheStays, PrivateSlots DEF PrivateInv
<1>6. ASSUME NEW c \in Clients, Send(c) PROVE PrivateInv'
  <2>1. UNCHANGED cache
    BY <1>6 DEF Send, nsVars
  <2>2. QED
    BY <1>0, <1>6, <2>1, CacheStays, PrivateSend DEF PrivateInv
<1>7. ASSUME NEW c \in Clients, Receive(c) PROVE PrivateInv'
  <2>1. UNCHANGED cache
    BY <1>7 DEF Receive, nsVars
  <2>2. QED
    BY <1>0, <1>7, <2>1, CacheStays, PrivateReceive DEF PrivateInv
<1>8. ASSUME NEW c \in Clients, SendOwner(c) PROVE PrivateInv'
  <2>1. UNCHANGED cache
    BY <1>8 DEF SendOwner, nsVars
  <2>2. QED
    BY <1>0, <1>8, <2>1, CacheStays, PrivateOwner DEF PrivateInv
<1>9. ASSUME NEW c \in Clients
      PROVE  /\ ~FindReported(c) /\ ~RemoveServer(c) /\ ~Purge(c)
             /\ ~SendFails(c) /\ ~ReceiveFails(c) /\ ~Sigpipe(c)
  BY <1>0, NothingFails
<1>10. ASSUME NEW k \in Conns,
              \/ ServeCreate(k) \/ ServeDelete(k) \/ ServeUndo(k) \/ ServeInfo(k)
              \/ ServeExec(k) \/ ServeAdd(k) \/ ServeRem(k) \/ ServeUnknown(k)
       PROVE  PrivateInv'
  <2>1. UNCHANGED cache
    BY <1>10 DEF ServeCreate, ServeDelete, ServeUndo, ServeInfo, ServeExec, ServeAdd, ServeRem,
       ServeUnknown, Serve, nsVars
  <2>2. QED
    BY <1>0, <1>10, <2>1, CacheStays, PrivateServe DEF PrivateInv
<1>11. ASSUME NEW k \in Conns, ServeOwner(k) PROVE PrivateInv'
  <2>1. UNCHANGED cache
    BY <1>11 DEF ServeOwner, Serve, nsVars
  <2>2. QED
    BY <1>0, <1>11, <2>1, CacheStays, PrivateServeOwner DEF PrivateInv
<1>12. ASSUME Tick \/ UNCHANGED vars PROVE PrivateInv'
  <2>1. UNCHANGED <<pc, arg, trie, cache, disk, toSS, mutex, ssPc, server>>
    BY <1>12 DEF Tick, vars, nsVars, netVars
  <2>2. CalmInv'
    BY <1>0, <2>1, CalmLocal
  <2>3. FileInv'
    <3>1. \A g \in Files : Disks(g)' = Disks(g)
      BY <2>1 DEF Disks, HomesOf
    <3>2. \A e \in Clients : Pending(e)' <=> Pending(e)
      BY <2>1 DEF Pending
    <3>3. QED
      BY <1>0, <2>1, <3>1, <3>2, FileStays
  <2>4. QED
    BY <1>0, <2>1, <2>2, <2>3, CacheStays DEF PrivateInv
<1>13. ASSUME NEW c \in Clients, ClientThread(c) PROVE PrivateInv'
  BY <1>2, <1>3, <1>4, <1>5, <1>6, <1>7, <1>8, <1>9, <1>13 DEF ClientThread
<1>14. QED
  BY <1>0, <1>1, <1>10, <1>11, <1>12, <1>13, CalmCases

\* In the initial state the records are those of the disks, and nothing is cached.
LEMMA InitPrivate == Private /\ Init => PrivateInv
<1> SUFFICES ASSUME Private, Init PROVE PrivateInv
  OBVIOUS
<1>1. /\ Len(Registered) \in Nat /\ Conns = 1..Len(Registered)
      /\ \A i \in Conns : Registered[i] \in Servers /\ i - 1 \in Slots
  BY StartAssumption, SizeAssumption, ElementOfSeq DEF Private, Steady, Conns, Slots
<1>2. CalmInv
  <2>1. \A k \in Conns : k <= Len(Registered)
    BY <1>1
  <2>2. \A k \in Conns : ssPc[k] = "serve" /\ server[k] = Registered[k] /\ Len(toSS[k]) = 0
    BY <2>1 DEF Init
  <2>3. QED
    BY <2>2 DEF CalmInv
<1>3. CacheInv
  BY DEF Init, CacheInv
<1>4. ASSUME NEW f \in Files PROVE Settled(trie[f], Disks(f), Cached(f))
  <2>1. PICK home : home = {i \in 1..Len(Registered) : OnDisk[Registered[i]][f] # None}
    OBVIOUS
  <2>2. trie[f] = IF home = {} THEN None
                  ELSE [ss |-> Min(home) - 1, owner |-> OnDisk[Registered[Min(home)]][f],
                        acl |-> NoAcl]
    BY <2>1 DEF Init
  <2>3. DOMAIN Cached(f) = {}
    BY DEF Init, Cached, Hits
  <2>4. NoAcl \in Acl
    BY DEF NoAcl, Acl, Perms, PERM_WRITE
  <2>5. \A s \in Servers :
          /\ disk[s][f] # None <=> OnDisk[s][f] # None
          /\ disk[s][f] # None => disk[s][f].acl = NoAcl
    <3>1. ASSUME NEW s \in Servers, OnDisk[s][f] # None
          PROVE  disk[s][f] # None /\ disk[s][f].acl = NoAcl
      <4>1. disk[s][f] = [owner |-> OnDisk[s][f], acl |-> NoAcl]
        BY <3>1 DEF Init
      <4>2. disk[s][f] \in Meta
        BY <2>4, <4>1, StartAssumption DEF Meta
      <4>3. QED
        BY <4>1, <4>2, RecordAssumption
    <3>2. ASSUME NEW s \in Servers, OnDisk[s][f] = None PROVE disk[s][f] = None
      BY <3>2 DEF Init
    <3>3. QED
      BY <3>1, <3>2
  <2>6. /\ HomesOf(f) = {s \in Servers : OnDisk[s][f] # None}
        /\ DOMAIN Disks(f) = HomesOf(f)
        /\ \A s \in HomesOf(f) : Disks(f)[s] = NoAcl
    BY <2>5 DEF HomesOf, Disks
  <2>7. CASE home = {}
    <3>1. HomesOf(f) = {}
      BY <2>1, <2>6, <2>7 DEF Private
    <3>2. QED
      BY <2>2, <2>3, <2>6, <2>7, <3>1 DEF Settled, Unknown
  <2>8. CASE home # {}
    <3>1. PICK i : i = Min(home)
      OBVIOUS
    <3>2. home \subseteq Nat
      BY <2>1
    <3>3. i \in home
      BY <2>8, <3>1, <3>2, LeastElement
    <3>4. i \in Conns /\ OnDisk[Registered[i]][f] # None /\ i - 1 \in Slots /\ i - 1 + 1 = i
      BY <1>1, <2>1, <3>2, <3>3
    <3>5. HomesOf(f) = {Registered[i]}
      BY <1>1, <2>6, <3>4 DEF Private
    <3>6. trie[f] = [ss |-> i - 1, owner |-> OnDisk[Registered[i]][f], acl |-> NoAcl]
      BY <2>2, <2>8, <3>1
    <3>7. PICK rec : rec = trie[f]
      OBVIOUS
    <3>8. rec \in Record /\ rec.ss = i - 1 /\ rec.acl = NoAcl
      <4>1. OnDisk[Registered[i]][f] \in Clients \cup {None}
        BY <1>1, <3>4, StartAssumption
      <4>2. QED
        BY <2>4, <3>4, <3>6, <3>7, <4>1 DEF Record
    <3>9. rec # None
      BY <3>8, RecordAssumption
    <3>10. HomeAt(Disks(f), rec.ss) /\ ListAt(Disks(f), rec.ss) = NoAcl
      BY <2>6, <3>4, <3>5, <3>8 DEF HomeAt, ListAt
    <3>11. Known(rec, Disks(f), Cached(f))
      BY <2>3, <3>9, <3>10 DEF Known
    <3>12. QED
      BY <3>7, <3>8, <3>10, <3>11 DEF Settled
  <2>9. QED
    BY <2>7, <2>8
<1>5. FileInv
  <2>1. \A c \in Clients : pc[c] = "idle"
    BY DEF Init
  <2>2. ASSUME NEW c \in Clients, NEW f \in Uses[c] PROVE FileOK(c, f)
    <3>1. Settled(trie[f], Disks(f), Cached(f))
      BY <1>4, UsesAssumption
    <3>2. QED
      BY <2>1, <3>1, Zenon DEF FileOK
  <2>3. QED
    BY <2>1, <2>2, Zenon DEF FileInv
<1>6. QED
  BY <1>2, <1>3, <1>5 DEF PrivateInv

\* Between two requests of their client the files are consistent.
LEMMA PrivateAtRest ==
  ASSUME Private, IndInv, PairInv, PrivateInv
  PROVE  PrivateFilesConsistent
<1>0. TypeInv /\ SlotInv /\ CalmInv /\ CacheInv /\ FileInv
  BY DEF IndInv, PairInv, PrivateInv
<1> SUFFICES ASSUME NEW c \in Clients, pc[c] = "idle", NEW f \in Uses[c]
             PROVE  IF trie[f] = None THEN HomesOf(f) = {} /\ Hits(f) = {}
                    ELSE /\ registry[trie[f].ss] # None
                         /\ HomesOf(f) = {server[registry[trie[f].ss]]}
                         /\ Cardinality(Hits(f)) <= 1
                         /\ \A k \in Hits(f) : cache[k].ss = trie[f].ss
                         /\ \A s \in HomesOf(f) : disk[s][f].acl = trie[f].acl
  BY DEF PrivateFilesConsistent
<1>1. PICK rec, d, h : rec = trie[f] /\ d = Disks(f) /\ h = Cached(f)
  OBVIOUS
<1>2. Settled(rec, d, h)
  <2>1. FileOK(c, f)
    BY <1>0 DEF FileInv
  <2>2. Settled(trie[f], Disks(f), Cached(f))
    BY <2>1, Zenon DEF FileOK
  <2>3. QED
    BY <1>1, <2>2
<1>3. /\ DOMAIN d = HomesOf(f) /\ DOMAIN h = Hits(f)
      /\ \A s \in HomesOf(f) : d[s] = disk[s][f].acl
      /\ \A k \in Hits(f) : h[k] = cache[k].ss
  BY <1>1 DEF Disks, Cached
<1>4. f \in Files
  BY UsesAssumption
<1>5. CASE rec = None
  <2>1. DOMAIN d = {} /\ DOMAIN h = {}
    BY <1>2, <1>5 DEF Settled, Known, Unknown
  <2>2. QED
    BY <1>1, <1>3, <1>5, <2>1
<1>6. CASE rec # None
  <2>1. Known(rec, d, h) /\ ListAt(d, rec.ss) = rec.acl
    BY <1>2, <1>6 DEF Settled, Unknown
  <2>2. rec.ss \in Slots
    BY <1>0, <1>1, <1>4, <1>6 DEF TypeInv, IndexTypes, Record
  <2>3. PICK k \in Conns : k = rec.ss + 1
    BY <2>1 DEF Known, HomeAt
  <2>4. registry[rec.ss] = k
    BY <1>0, <2>2, <2>3, ActiveSlots
  <2>5. server[k] = Registered[k]
    BY <1>0 DEF CalmInv
  <2>6. HomesOf(f) = {server[k]}
    BY <1>3, <2>1, <2>3, <2>5 DEF Known, HomeAt
  <2>7. \A s \in HomesOf(f) : disk[s][f].acl = rec.acl
    BY <1>3, <2>1, <2>3, <2>5, <2>6 DEF ListAt
  <2>8. \A j \in Hits(f) : cache[j].ss = rec.ss
    BY <1>3, <2>1 DEF Known
  <2>9. Cardinality(Hits(f)) <= 1
    <3>1. CASE Hits(f) = {}
      BY <3>1, FS_EmptySet
    <3>2. CASE Hits(f) # {}
      <4>1. PICK j : j \in Hits(f)
        BY <3>2
      <4>2. j \in Keys /\ cache[j].valid /\ cache[j].file = f
        BY <4>1 DEF Hits
      <4>3. \A i \in Keys : i \in Hits(f) => i = j
        BY <1>0, <4>2 DEF CacheInv
      <4>4. Hits(f) = {j}
        BY <4>1, <4>3 DEF Hits
      <4>5. Cardinality({j}) = 1
        BY FS_Singleton
      <4>6. QED
        BY <4>4, <4>5
    <3>3. QED
      BY <3>1, <3>2
  <2>10. k # None
    BY Ranges
  <2>11. QED
    BY <1>1, <1>6, <2>4, <2>6, <2>7, <2>8, <2>9, <2>10
<1>7. QED
  BY <1>5, <1>6

\* After each request of the only client that asks for a file, its record, the cache and
\* the disks agree, for any number of clients, servers, files and requests, as long as
\* servers neither stop nor register, and the cache evicts nothing.
THEOREM PrivateConsistent ==
  ASSUME Private
  PROVE  Spec => []PrivateFilesConsistent
<1> DEFINE Inv == IndInv /\ PairInv /\ PrivateInv
<1>a. Steady
  BY DEF Private
<1>1. Init => Inv
  BY <1>a, InitTypes, InitPairs, InitPrivate
<1>2. Inv /\ [Next]_vars => Inv'
  <2> SUFFICES ASSUME Inv, [Next]_vars PROVE Inv'
    OBVIOUS
  <2>1. IndInv' /\ TypeInv /\ MutexFollowsExchange
    BY StepTypes DEF IndInv
  <2>k. ~Kills
    BY <2>1, NothingFails DEF PairInv, PrivateInv, Kills, RegisterSigpipe, SlotInv
  <2>2. SlotInv'
    BY <2>1, <2>k, SlotStep DEF PairInv
  <2>3. SockInv'
    BY <1>a, <2>1, <2>k, SockStep
  <2>4. StreamInv'
    BY <1>a, <2>1, <2>k, StreamStep
  <2>5. PrivateInv'
    BY PrivateStep
  <2>6. QED
    BY <2>1, <2>2, <2>3, <2>4, <2>5 DEF PairInv
<1>3. Inv => PrivateFilesConsistent
  BY PrivateAtRest
<1>4. QED
  BY <1>1, <1>2, <1>3, PTL DEF Spec

=============================================================================
