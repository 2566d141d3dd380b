--------------------------- MODULE AccessRequests ---------------------------
(***************************************************************************)
(* Requests for access to a file (storage_server/main.c): users append     *)
(* lines to access_requests/<file>.requests, the owner approves or denies  *)
(* them by reading the whole file and writing it back, and approval enters *)
(* the user in the storage server's access list.  The name server keeps an *)
(* access list of its own, which ADDACCESS and REMACCESS change together   *)
(* with the storage server's.  One file; no lock covers its request file.  *)
(***************************************************************************)
EXTENDS Naturals, Sequences, FiniteSets

CONSTANTS
  Sessions,       \* client connections to the storage server
  Owner,          \* the owner of the file
  Users,          \* the other users
  UserOf,         \* the user of each connection
  Commands,       \* the commands a run exercises
  MaxLines,       \* lines an approval or a denial keeps (100)
  MaxAcl,         \* MAX_ACL_ENTRIES
  MaxRequests     \* bound: commands received

PERM_READ  == 1
PERM_WRITE == 2
Perms == {PERM_READ, PERM_WRITE}

ASSUME OwnerAssumption == Owner \notin Users
ASSUME UserOfAssumption == UserOf \in [Sessions -> Users \cup {Owner}]
ASSUME BoundAssumption == MaxLines \in Nat /\ MaxAcl \in Nat /\ MaxRequests \in Nat

VARIABLES
  lines,          \* the request file
  ssAcl, nsAcl,   \* permission of each user, 0 without an entry
  pc, arg,        \* where each thread stands; user and permission of its command
  copy,           \* the lines an approval or a denial is going to write
  asked,          \* history: permissions asked for or granted by ADDACCESS
  submitted,      \* history: accepted requests that the owner has not decided
  requests        \* history: commands received

vars == <<lines, ssAcl, nsAcl, pc, arg, copy, asked, submitted, requests>>

Line == [user : Users, perm : Perms, status : {"PENDING", "APPROVED", "DENIED"}]

Pending(u, p) == [user |-> u, perm |-> p, status |-> "PENDING"]

NoArg == <<Owner, PERM_READ>>

Init ==
  /\ lines = <<>>
  /\ ssAcl = [u \in Users |-> 0]
  /\ nsAcl = [u \in Users |-> 0]
  /\ pc = [s \in Sessions |-> "idle"]
  /\ arg = [s \in Sessions |-> NoArg]
  /\ copy = [s \in Sessions |-> <<>>]
  /\ asked = {}
  /\ submitted = {}
  /\ requests = 0

Has(file, line) == \E i \in DOMAIN file : file[i] = line

Receive(s, cmd) ==
  /\ pc[s] = "idle"
  /\ cmd \in Commands
  /\ requests < MaxRequests
  /\ requests' = requests + 1

Start(s, label, u, p) ==
  /\ pc' = [pc EXCEPT ![s] = label]
  /\ arg' = [arg EXCEPT ![s] = <<u, p>>]

Done(s) ==
  /\ pc' = [pc EXCEPT ![s] = "idle"]
  /\ arg' = [arg EXCEPT ![s] = NoArg]
  /\ copy' = [copy EXCEPT ![s] = <<>>]

\* REQUESTACCESS, up to the scan of request_file_access: refused to the owner, to a
\* user who has the permission and while the same request is pending.
RequestAccess(s, p) ==
  LET u == UserOf[s] IN
  /\ Receive(s, "REQUESTACCESS")
  /\ u # Owner
  /\ ssAcl[u] < p
  /\ ~Has(lines, Pending(u, p))
  /\ Start(s, "append", u, p)
  /\ asked' = asked \cup {<<u, p>>}
  /\ UNCHANGED <<lines, ssAcl, nsAcl, copy, submitted>>

\* Mutant: the status is not written.
AppendNoStatus(s) ==
  /\ pc[s] = "append"
  /\ lines' = Append(lines, [Pending(arg[s][1], arg[s][2]) EXCEPT !.status = ""])
  /\ submitted' = submitted \cup {arg[s]}
  /\ Done(s)
  /\ UNCHANGED <<ssAcl, nsAcl, asked, requests>>

\* fopen "a", one line, and the answer ACCESS REQUEST SUBMITTED.
AppendRequest(s) ==
  LET u == arg[s][1]
      p == arg[s][2]
  IN
  /\ pc[s] = "append"
  /\ lines' = Append(lines, Pending(u, p))
  /\ submitted' = submitted \cup {<<u, p>>}
  /\ Done(s)
  /\ UNCHANGED <<ssAcl, nsAcl, asked, requests>>

Kept(file) == SubSeq(file, 1, IF Len(file) < MaxLines THEN Len(file) ELSE MaxLines)

Marked(file, u, ps, status) ==
  [i \in DOMAIN Kept(file) |->
     IF file[i].user = u /\ file[i].perm \in ps /\ file[i].status = "PENDING"
     THEN [file[i] EXCEPT !.status = status]
     ELSE file[i]]

\* Mutant: every pending request of the user is approved.
ApproveAny(s, u, p) ==
  /\ Receive(s, "APPROVEREQUEST")
  /\ UserOf[s] = Owner
  /\ Marked(lines, u, Perms, "APPROVED") # Kept(lines)
  /\ Start(s, "trunc", u, p)
  /\ copy' = [copy EXCEPT ![s] = Marked(lines, u, Perms, "APPROVED")]
  /\ submitted' = submitted \ ({u} \X Perms)
  /\ UNCHANGED <<lines, ssAcl, nsAcl, asked>>

\* approve_access_request reads the file; a request that is not there ends it.
ApproveRequest(s, u, p) ==
  /\ Receive(s, "APPROVEREQUEST")
  /\ UserOf[s] = Owner
  /\ Has(Kept(lines), Pending(u, p))
  /\ Start(s, "trunc", u, p)
  /\ copy' = [copy EXCEPT ![s] = Marked(lines, u, {p}, "APPROVED")]
  /\ submitted' = submitted \ {<<u, p>>}
  /\ UNCHANGED <<lines, ssAcl, nsAcl, asked>>

\* deny_access_request reads the file: it denies both permissions.
DenyRequest(s, u) ==
  /\ Receive(s, "DENYREQUEST")
  /\ UserOf[s] = Owner
  /\ \E p \in Perms : Has(Kept(lines), Pending(u, p))
  /\ Start(s, "trunc", u, 0)
  /\ copy' = [copy EXCEPT ![s] = Marked(lines, u, Perms, "DENIED")]
  /\ submitted' = submitted \ ({u} \X Perms)
  /\ UNCHANGED <<lines, ssAcl, nsAcl, asked>>

\* fopen "w".
Truncate(s) ==
  /\ pc[s] = "trunc"
  /\ lines' = <<>>
  /\ pc' = [pc EXCEPT ![s] = "rewrite"]
  /\ UNCHANGED <<ssAcl, nsAcl, arg, copy, asked, submitted, requests>>

\* The lines are flushed over what the file holds from its start; what others have
\* appended behind stays.
Rewrite(s) ==
  LET n == Len(copy[s]) IN
  /\ pc[s] = "rewrite"
  /\ lines' = copy[s] \o SubSeq(lines, n + 1, Len(lines))
  /\ IF arg[s][2] = 0 THEN Done(s)
     ELSE pc' = [pc EXCEPT ![s] = "acl"] /\ UNCHANGED <<arg, copy>>
  /\ UNCHANGED <<ssAcl, nsAcl, asked, submitted, requests>>

Listed(acl) == {u \in Users : acl[u] # 0}

Fits(acl, u) == u \in Listed(acl) \/ Cardinality(Listed(acl)) < MaxAcl

\* persist_set_acl, and the answer ACCESS REQUEST APPROVED.
SetAcl(s) ==
  LET u == arg[s][1]
      p == arg[s][2]
  IN
  /\ pc[s] = "acl"
  /\ ssAcl' = IF Fits(ssAcl, u) THEN [ssAcl EXCEPT ![u] = p] ELSE ssAcl
  /\ Done(s)
  /\ UNCHANGED <<lines, nsAcl, asked, submitted, requests>>

\* The owner's ADDACCESS and REMACCESS, which go through the name server: its list,
\* then the storage server's.
Access(u, p) ==
  /\ "ACCESS" \in Commands
  /\ requests < MaxRequests
  /\ requests' = requests + 1
  /\ p = 0 \/ Fits(nsAcl, u)
  /\ nsAcl' = [nsAcl EXCEPT ![u] = p]
  /\ ssAcl' = IF p = 0 \/ Fits(ssAcl, u) THEN [ssAcl EXCEPT ![u] = p] ELSE ssAcl
  /\ asked' = asked \cup {<<u, p>>}
  /\ UNCHANGED <<lines, pc, arg, copy, submitted>>

\* The storage server registers again: its list replaces the name server's.
Resync ==
  /\ "RESYNC" \in Commands
  /\ nsAcl # ssAcl
  /\ nsAcl' = ssAcl
  /\ UNCHANGED <<lines, ssAcl, pc, arg, copy, asked, submitted, requests>>

Next ==
  \/ \E s \in Sessions :
       \/ \E p \in Perms : RequestAccess(s, p)
       \/ \E u \in Users : DenyRequest(s, u) \/ \E p \in Perms : ApproveRequest(s, u, p)
       \/ AppendRequest(s) \/ Truncate(s) \/ Rewrite(s) \/ SetAcl(s)
  \/ \E u \in Users, p \in Perms \cup {0} : Access(u, p)
  \/ Resync

Spec == Init /\ [][Next]_vars

-----------------------------------------------------------------------------
(* Properties *)

\* The values every variable ranges over: a line of the request file has one of the
\* three statuses, an ACL one permission per user.
TypeOK ==
  /\ lines \in Seq(Line)
  /\ ssAcl \in [Users -> 0..PERM_WRITE] /\ nsAcl \in [Users -> 0..PERM_WRITE]
  /\ pc \in [Sessions -> {"idle", "append", "trunc", "rewrite", "acl"}]
  /\ arg \in [Sessions -> (Users \cup {Owner}) \X (0..PERM_WRITE)]
  /\ copy \in [Sessions -> Seq(Line)]
  /\ asked \subseteq Users \X (0..PERM_WRITE)
  /\ submitted \subseteq Users \X Perms
  /\ requests \in 0..MaxRequests

\* A permission in either list is one that its user asked for or that the owner gave
\* with ADDACCESS, and every line is the request of its user: no interleaving of
\* appends and rewrites of the request file turns one request into another.
AccessWasAsked ==
  /\ \A u \in Users :
       /\ ssAcl[u] # 0 => <<u, ssAcl[u]>> \in asked
       /\ nsAcl[u] # 0 => <<u, nsAcl[u]>> \in asked
  /\ \A i \in DOMAIN lines : <<lines[i].user, lines[i].perm>> \in asked

-----------------------------------------------------------------------------
(* What the repository says and the code does not keep *)

AllIdle == \A s \in Sessions : pc[s] = "idle"

\* "ERR_409 Access request already exists": a request is pending once.
PendingOnce ==
  \A i, j \in DOMAIN lines :
    lines[i] = lines[j] /\ lines[i].status = "PENDING" => i = j

\* README: "Request storage mechanism for pending access requests": a request that was
\* accepted and not decided is in the file.
RequestsAreStored ==
  AllIdle => \A r \in submitted : Has(lines, Pending(r[1], r[2]))

\* README: "The system validates user permissions before allowing any file operation",
\* "user can approve pending requests": the list that the name server validates against
\* has what the owner approved (no run of this property takes access away).
ApprovalReachesNameServer ==
  AllIdle => \A i \in DOMAIN lines :
    lines[i].status = "APPROVED" => nsAcl[lines[i].user] # 0
=============================================================================
