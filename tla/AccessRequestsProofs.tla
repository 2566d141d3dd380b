------------------------ MODULE AccessRequestsProofs ------------------------
(***************************************************************************)
(* Proofs about AccessRequests for any number of users, connections, lines *)
(* and list entries: appends and rewrites of the request file, which no    *)
(* lock keeps apart, never make a permission out of a request that was not *)
(* made.                                                                   *)
(***************************************************************************)
EXTENDS AccessRequests, SequenceTheorems, TLAPS

USE DEF PERM_READ, PERM_WRITE, Perms

\* Every line of a file is a request of its user.
Asked(file) == \A i \in DOMAIN file : <<file[i].user, file[i].perm>> \in asked

\* What a thread is going to do with its argument was asked for: the line it appends,
\* the entry it makes when its rewrite is over.  A denial has permission 0.
ArgInv ==
  \A s \in Sessions :
    /\ pc[s] \in {"append", "acl"} => arg[s] \in Users \X Perms /\ arg[s] \in asked
    /\ pc[s] \in {"trunc", "rewrite"} => arg[s][1] \in Users /\ (arg[s][2] # 0 => arg[s] \in asked)

\* The lines a thread holds in memory, to be written over the file, were asked for too.
CopyInv == \A s \in Sessions : Asked(copy[s])

\* AccessWasAsked alone is not inductive: a rewrite and an entry of a list take their
\* values from the memory of a thread.
IndInv == TypeOK /\ AccessWasAsked /\ ArgInv /\ CopyInv

-----------------------------------------------------------------------------
(* The request file *)

\* The lines that are kept are the first ones.
LEMMA KeptLines ==
  ASSUME NEW file \in Seq(Line)
  PROVE  /\ Kept(file) \in Seq(Line)
         /\ DOMAIN Kept(file) \subseteq DOMAIN file
         /\ \A i \in DOMAIN Kept(file) : Kept(file)[i] = file[i]
<1> DEFINE n == IF Len(file) < MaxLines THEN Len(file) ELSE MaxLines
<1>1. n \in 0..Len(file) /\ Len(file) \in Nat
  BY BoundAssumption
<1> HIDE DEF n
<1>2. /\ SubSeq(file, 1, n) \in Seq(Line)
      /\ Len(SubSeq(file, 1, n)) = n
      /\ \A i \in 1..n : SubSeq(file, 1, n)[i] = file[i]
  BY <1>1
<1>3. DOMAIN SubSeq(file, 1, n) = 1..n /\ 1..n \subseteq DOMAIN file
  BY <1>1, <1>2
<1>4. QED
  BY <1>2, <1>3 DEF Kept, n

\* A decision changes the status of lines and nothing else.
LEMMA MarkedLines ==
  ASSUME NEW file \in Seq(Line), NEW u, NEW ps, NEW status \in {"APPROVED", "DENIED"}
  PROVE  /\ Marked(file, u, ps, status) \in Seq(Line)
         /\ DOMAIN Marked(file, u, ps, status) \subseteq DOMAIN file
         /\ \A i \in DOMAIN Marked(file, u, ps, status) :
              /\ Marked(file, u, ps, status)[i].user = file[i].user
              /\ Marked(file, u, ps, status)[i].perm = file[i].perm
<1> DEFINE new(i) == IF file[i].user = u /\ file[i].perm \in ps /\ file[i].status = "PENDING"
                     THEN [file[i] EXCEPT !.status = status] ELSE file[i]
<1> DEFINE D == DOMAIN Kept(file)
<1>1. Kept(file) \in Seq(Line) /\ D \subseteq DOMAIN file
  BY KeptLines
<1>2. D = 1..Len(Kept(file)) /\ Len(Kept(file)) \in Nat
  BY <1>1
<1>3. ASSUME NEW i \in D
      PROVE  new(i) \in Line /\ new(i).user = file[i].user /\ new(i).perm = file[i].perm
  <2>1. file[i] \in Line
    BY <1>1
  <2>2. QED
    BY <2>1 DEF Line
<1>4. Marked(file, u, ps, status) = [i \in D |-> new(i)]
  BY DEF Marked
<1> HIDE DEF new, D
<1>5. [i \in D |-> new(i)] \in Seq(Line)
  BY <1>2, <1>3, SeqDef
<1>6. QED
  BY <1>1, <1>3, <1>4, <1>5

\* What Rewrite makes of the file.
Written(mine, file) == mine \o SubSeq(file, Len(mine) + 1, Len(file))

\* A rewrite leaves lines of the rewriter's memory, and behind them lines of the file.
LEMMA RewrittenLines ==
  ASSUME NEW file \in Seq(Line), NEW mine \in Seq(Line)
  PROVE  /\ Written(mine, file) \in Seq(Line)
         /\ \A i \in DOMAIN Written(mine, file) :
              \/ i \in DOMAIN mine /\ Written(mine, file)[i] = mine[i]
              \/ i \in DOMAIN file /\ Written(mine, file)[i] = file[i]
<1> DEFINE n == Len(mine)
           rest == SubSeq(file, n + 1, Len(file))
           new == Written(mine, file)
<1>1. n \in Nat /\ Len(file) \in Nat /\ DOMAIN mine = 1..n /\ DOMAIN file = 1..Len(file)
  OBVIOUS
<1>2. /\ rest \in Seq(Line)
      /\ Len(rest) = IF n + 1 <= Len(file) THEN Len(file) - n ELSE 0
      /\ \A j \in 1..Len(rest) : rest[j] = file[n + j]
  BY <1>1
<1>0. new = mine \o rest
  BY DEF Written
<1> HIDE DEF rest, new
<1> HIDE DEF n
<1>a. new \in Seq(Line) /\ Len(new) = Len(mine) + Len(rest)
  BY <1>0, <1>2, ConcatProperties
<1>b. \A i \in 1..(Len(mine) + Len(rest)) :
        new[i] = IF i <= Len(mine) THEN mine[i] ELSE rest[i - Len(mine)]
  BY <1>0, <1>2, ConcatProperties
<1>3. /\ new \in Seq(Line)
      /\ DOMAIN new = 1..(n + Len(rest))
      /\ \A i \in 1..(n + Len(rest)) : new[i] = IF i <= n THEN mine[i] ELSE rest[i - n]
  BY <1>a, <1>b DEF n
<1>4. ASSUME NEW i \in DOMAIN new
      PROVE  \/ i \in DOMAIN mine /\ new[i] = mine[i]
             \/ i \in DOMAIN file /\ new[i] = file[i]
  <2>1. i \in 1..(n + Len(rest)) /\ Len(rest) \in Nat
    <3>1. Len(rest) \in Nat
      BY <1>2
    <3>2. QED
      BY <1>3, <3>1
  <2>2. CASE i <= n
    BY <1>1, <1>3, <2>1, <2>2
  <2>3. CASE ~(i <= n)
    <3>1. i - n \in 1..Len(rest) /\ n + (i - n) = i
      BY <1>1, <2>1, <2>3
    <3>2. i \in 1..Len(file)
      BY <1>1, <1>2, <2>1, <2>3
    <3>3. rest[i - n] = file[i]
      BY <1>2, <3>1
    <3>4. QED
      BY <1>1, <1>3, <2>1, <2>3, <3>2, <3>3
  <2>4. QED
    BY <2>2, <2>3
<1>5. QED
  BY <1>3, <1>4 DEF new

-----------------------------------------------------------------------------
(* The steps *)

\* An empty request file, empty lists, idle threads.
LEMMA InitHolds == Init => IndInv
<1> SUFFICES ASSUME Init PROVE IndInv
  OBVIOUS
<1>1. TypeOK
  BY BoundAssumption DEF Init, TypeOK, NoArg
<1>2. AccessWasAsked
  BY DEF Init, AccessWasAsked
<1>3. ArgInv /\ CopyInv
  BY DEF Init, ArgInv, CopyInv, Asked
<1>4. QED
  BY <1>1, <1>2, <1>3 DEF IndInv

\* A thread that is done is idle, with no argument and no lines.
LEMMA DoneTyping ==
  ASSUME TypeOK, NEW s \in Sessions, Done(s)
  PROVE  /\ pc' \in [Sessions -> {"idle", "append", "trunc", "rewrite", "acl"}]
         /\ arg' \in [Sessions -> (Users \cup {Owner}) \X (0..PERM_WRITE)]
         /\ copy' \in [Sessions -> Seq(Line)]
         /\ pc'[s] = "idle" /\ copy'[s] = <<>>
         /\ \A t \in Sessions \ {s} : pc'[t] = pc[t] /\ arg'[t] = arg[t] /\ copy'[t] = copy[t]
  BY DEF Done, TypeOK, NoArg

\* What has been asked for stays asked for, and threads at rest owe nothing.
LEMMA ArgKept ==
  ASSUME TypeOK, ArgInv, NEW s \in Sessions, Done(s), asked' = asked
  PROVE  ArgInv'
  BY DoneTyping DEF ArgInv

LEMMA CopyKept ==
  ASSUME TypeOK, CopyInv, NEW s \in Sessions, Done(s), asked' = asked
  PROVE  CopyInv'
<1>1. /\ copy'[s] = <<>>
      /\ \A t \in Sessions \ {s} : copy'[t] = copy[t]
  BY DoneTyping
<1>2. ASSUME NEW t \in Sessions, NEW i \in DOMAIN copy'[t]
      PROVE  <<copy'[t][i].user, copy'[t][i].perm>> \in asked
  BY <1>1, <1>2 DEF CopyInv, Asked
<1>3. QED
  BY <1>2 DEF CopyInv, Asked

\* A user asks: the request is recorded before anything is done for it.
LEMMA RequestAccessKeeps ==
  ASSUME IndInv, NEW s \in Sessions, NEW p \in Perms, RequestAccess(s, p)
  PROVE  IndInv'
<1> DEFINE u == UserOf[s]
<1>1. u \in Users
  BY UserOfAssumption DEF RequestAccess
<1>2. TypeOK'
  BY <1>1, BoundAssumption DEF IndInv, TypeOK, RequestAccess, Receive, Start
<1>3. asked \subseteq asked'
  BY DEF RequestAccess
<1>4. AccessWasAsked'
  BY <1>3 DEF IndInv, AccessWasAsked, RequestAccess
<1>5. ArgInv'
  BY <1>1, <1>3 DEF IndInv, TypeOK, ArgInv, RequestAccess, Start
<1>6. CopyInv'
  BY <1>3 DEF IndInv, CopyInv, Asked, RequestAccess
<1>7. QED
  BY <1>2, <1>4, <1>5, <1>6 DEF IndInv

\* The line that is appended is the one that was asked for.
LEMMA AppendKeeps ==
  ASSUME IndInv, NEW s \in Sessions, AppendRequest(s)
  PROVE  IndInv'
<1> DEFINE line == Pending(arg[s][1], arg[s][2])
<1>1. arg[s] \in Users \X Perms /\ arg[s] \in asked /\ arg[s] = <<arg[s][1], arg[s][2]>>
  BY DEF IndInv, ArgInv, AppendRequest
<1>2. line \in Line /\ line.user = arg[s][1] /\ line.perm = arg[s][2]
  BY <1>1 DEF Pending, Line
<1> HIDE DEF line
<1>3. lines' = Append(lines, line) /\ asked' = asked /\ Done(s)
  BY DEF AppendRequest, line
<1>4. /\ lines' \in Seq(Line) /\ DOMAIN lines' = 1..(Len(lines) + 1)
      /\ \A i \in 1..Len(lines) : lines'[i] = lines[i]
      /\ lines'[Len(lines) + 1] = line
  BY <1>2, <1>3, AppendProperties DEF IndInv, TypeOK
<1>5. TypeOK'
  BY <1>1, <1>3, <1>4, DoneTyping DEF IndInv, TypeOK, AppendRequest
<1>6. Asked(lines)'
  <2>1. Len(lines) \in Nat /\ DOMAIN lines = 1..Len(lines)
    BY DEF IndInv, TypeOK
  <2>2. QED
    BY <1>1, <1>2, <1>3, <1>4, <2>1 DEF IndInv, AccessWasAsked, Asked
<1>7. AccessWasAsked'
  BY <1>3, <1>6 DEF IndInv, AccessWasAsked, AppendRequest, Asked
<1>8. ArgInv' /\ CopyInv'
  BY <1>3, ArgKept, CopyKept DEF IndInv
<1>9. QED
  BY <1>5, <1>7, <1>8 DEF IndInv

\* What approval and denial have in common: the lines are taken to memory, marked.
LEMMA DecisionKeeps ==
  ASSUME IndInv, NEW s \in Sessions, NEW u \in Users, NEW p \in 0..PERM_WRITE, NEW ps,
         NEW status \in {"APPROVED", "DENIED"},
         Start(s, "trunc", u, p),
         p # 0 => <<u, p>> \in asked,
         copy' = [copy EXCEPT ![s] = Marked(lines, u, ps, status)],
         submitted' \subseteq submitted, requests' \in 0..MaxRequests,
         UNCHANGED <<lines, ssAcl, nsAcl, asked>>
  PROVE  IndInv'
<1> DEFINE mine == Marked(lines, u, ps, status)
<1>1. /\ mine \in Seq(Line) /\ DOMAIN mine \subseteq DOMAIN lines
      /\ \A i \in DOMAIN mine : mine[i].user = lines[i].user /\ mine[i].perm = lines[i].perm
  BY MarkedLines DEF IndInv, TypeOK
<1> HIDE DEF mine
<1>2. copy' = [copy EXCEPT ![s] = mine]
  BY DEF mine
<1>3. TypeOK'
  BY <1>1, <1>2 DEF IndInv, TypeOK, Start
<1>4. AccessWasAsked'
  BY DEF IndInv, AccessWasAsked
<1>5. ArgInv'
  BY DEF IndInv, TypeOK, ArgInv, Start
<1>6. CopyInv'
  BY <1>1, <1>2 DEF IndInv, TypeOK, CopyInv, Asked, AccessWasAsked
<1>7. QED
  BY <1>3, <1>4, <1>5, <1>6 DEF IndInv

\* The owner approves a request that the file has: so it was asked for.
LEMMA ApproveKeeps ==
  ASSUME IndInv, NEW s \in Sessions, NEW u \in Users, NEW p \in Perms, ApproveRequest(s, u, p)
  PROVE  IndInv'
<1>1. PICK i \in DOMAIN Kept(lines) : Kept(lines)[i] = Pending(u, p)
  BY DEF ApproveRequest, Has
<1>2. i \in DOMAIN lines /\ lines[i] = Pending(u, p)
  BY <1>1, KeptLines DEF IndInv, TypeOK
<1>3. <<u, p>> \in asked
  BY <1>2 DEF IndInv, AccessWasAsked, Pending
<1>4. requests' \in 0..MaxRequests
  BY BoundAssumption DEF IndInv, TypeOK, ApproveRequest, Receive
<1>5. /\ Start(s, "trunc", u, p)
      /\ copy' = [copy EXCEPT ![s] = Marked(lines, u, {p}, "APPROVED")]
      /\ submitted' \subseteq submitted
      /\ UNCHANGED <<lines, ssAcl, nsAcl, asked>>
  BY DEF ApproveRequest
<1>6. p \in 0..PERM_WRITE
  OBVIOUS
<1>7. QED
  BY <1>3, <1>4, <1>5, <1>6, DecisionKeeps

\* The owner denies.
LEMMA DenyKeeps ==
  ASSUME IndInv, NEW s \in Sessions, NEW u \in Users, DenyRequest(s, u)
  PROVE  IndInv'
<1>1. requests' \in 0..MaxRequests
  BY BoundAssumption DEF IndInv, TypeOK, DenyRequest, Receive
<1>2. /\ Start(s, "trunc", u, 0)
      /\ copy' = [copy EXCEPT ![s] = Marked(lines, u, Perms, "DENIED")]
      /\ submitted' \subseteq submitted
      /\ UNCHANGED <<lines, ssAcl, nsAcl, asked>>
  BY DEF DenyRequest
<1>3. 0 \in 0..PERM_WRITE
  OBVIOUS
<1>4. QED
  BY <1>1, <1>2, <1>3, DecisionKeeps

\* fopen "w" loses lines and makes none.
LEMMA TruncateKeeps ==
  ASSUME IndInv, NEW s \in Sessions, Truncate(s)
  PROVE  IndInv'
<1>1. TypeOK'
  BY DEF IndInv, TypeOK, Truncate
<1>2. AccessWasAsked'
  BY DEF IndInv, AccessWasAsked, Truncate
<1>3. ArgInv' /\ CopyInv'
  BY DEF IndInv, TypeOK, ArgInv, CopyInv, Asked, Truncate
<1>4. QED
  BY <1>1, <1>2, <1>3 DEF IndInv

\* A rewrite puts old requests back, whatever was appended meanwhile.
LEMMA RewriteKeeps ==
  ASSUME IndInv, NEW s \in Sessions, Rewrite(s)
  PROVE  IndInv'
<1>1. copy[s] \in Seq(Line) /\ lines \in Seq(Line)
  BY DEF IndInv, TypeOK
<1>2. /\ lines' \in Seq(Line)
      /\ \A i \in DOMAIN lines' : \/ i \in DOMAIN copy[s] /\ lines'[i] = copy[s][i]
                                  \/ i \in DOMAIN lines /\ lines'[i] = lines[i]
  <2>1. lines' = Written(copy[s], lines)
    BY DEF Rewrite, Written
  <2>2. QED
    BY <1>1, <2>1, RewrittenLines
<1>3. UNCHANGED <<ssAcl, nsAcl, asked, submitted, requests>>
  BY DEF Rewrite
<1>4. AccessWasAsked'
  BY <1>2, <1>3 DEF IndInv, AccessWasAsked, CopyInv, Asked
<1>5. CASE arg[s][2] = 0
  <2>1. Done(s)
    BY <1>5 DEF Rewrite
  <2>2. TypeOK'
    BY <1>2, <1>3, <2>1, DoneTyping DEF IndInv, TypeOK
  <2>3. ArgInv' /\ CopyInv'
    BY <1>3, <2>1, ArgKept, CopyKept DEF IndInv
  <2>4. QED
    BY <1>4, <2>2, <2>3 DEF IndInv
<1>6. CASE arg[s][2] # 0
  <2>1. pc' = [pc EXCEPT ![s] = "acl"] /\ UNCHANGED <<arg, copy>> /\ pc[s] = "rewrite"
    BY <1>6 DEF Rewrite
  <2>2. TypeOK'
    BY <1>2, <1>3, <2>1 DEF IndInv, TypeOK
  <2>3. arg[s] \in Users \X Perms /\ arg[s] \in asked
    BY <1>6, <2>1 DEF IndInv, TypeOK, ArgInv
  <2>4. ArgInv'
    BY <1>3, <2>1, <2>3 DEF IndInv, TypeOK, ArgInv
  <2>5. CopyInv'
    BY <1>3, <2>1 DEF IndInv, CopyInv, Asked
  <2>6. QED
    BY <1>4, <2>2, <2>4, <2>5 DEF IndInv
<1>7. QED
  BY <1>5, <1>6

\* The entry an approval makes is the request it found in the file.
LEMMA SetAclKeeps ==
  ASSUME IndInv, NEW s \in Sessions, SetAcl(s)
  PROVE  IndInv'
<1>1. arg[s] \in Users \X Perms /\ arg[s] \in asked /\ arg[s] = <<arg[s][1], arg[s][2]>>
  BY DEF IndInv, ArgInv, SetAcl
<1>2. /\ ssAcl' \in {ssAcl, [ssAcl EXCEPT ![arg[s][1]] = arg[s][2]]}
      /\ Done(s) /\ UNCHANGED <<lines, nsAcl, asked, submitted, requests>>
  BY DEF SetAcl
<1>3. TypeOK'
  BY <1>1, <1>2, DoneTyping DEF IndInv, TypeOK
<1>4. AccessWasAsked'
  BY <1>1, <1>2 DEF IndInv, TypeOK, AccessWasAsked
<1>5. ArgInv' /\ CopyInv'
  BY <1>2, ArgKept, CopyKept DEF IndInv
<1>6. QED
  BY <1>3, <1>4, <1>5 DEF IndInv

\* ADDACCESS and REMACCESS count as asked for.
LEMMA AccessKeeps ==
  ASSUME IndInv, NEW u \in Users, NEW p \in Perms \cup {0}, Access(u, p)
  PROVE  IndInv'
<1>1. /\ asked' = asked \cup {<<u, p>>} /\ nsAcl' = [nsAcl EXCEPT ![u] = p]
      /\ ssAcl' \in {ssAcl, [ssAcl EXCEPT ![u] = p]}
      /\ UNCHANGED <<lines, pc, arg, copy, submitted>>
  BY DEF Access
<1>2. TypeOK'
  BY <1>1, BoundAssumption DEF IndInv, TypeOK, Access
<1>3. AccessWasAsked'
  BY <1>1 DEF IndInv, TypeOK, AccessWasAsked
<1>4. ArgInv' /\ CopyInv'
  BY <1>1 DEF IndInv, ArgInv, CopyInv, Asked
<1>5. QED
  BY <1>2, <1>3, <1>4 DEF IndInv

\* Each step keeps the inductive invariant.
LEMMA StepKeeps == IndInv /\ [Next]_vars => IndInv'
<1> SUFFICES ASSUME IndInv, [Next]_vars PROVE IndInv'
  OBVIOUS
<1>1. CASE Resync
  BY <1>1 DEF IndInv, TypeOK, AccessWasAsked, ArgInv, CopyInv, Asked, Resync
<1>2. CASE UNCHANGED vars
  BY <1>2 DEF vars, IndInv, TypeOK, AccessWasAsked, ArgInv, CopyInv, Asked
<1>3. QED
  BY <1>1, <1>2, RequestAccessKeeps, AppendKeeps, ApproveKeeps, DenyKeeps, TruncateKeeps,
     RewriteKeeps, SetAclKeeps, AccessKeeps DEF Next

\* The inductive invariant holds of every reachable state.
LEMMA Invariance == Spec => []IndInv
  BY InitHolds, StepKeeps, PTL DEF Spec

-----------------------------------------------------------------------------
(* The theorems *)

\* The request file consists of whole lines with one of the three statuses, however its
\* writers interleave, and the lists hold permissions.
THEOREM TypeCorrect == Spec => []TypeOK
<1>1. IndInv => TypeOK
  BY DEF IndInv
<1>2. QED
  BY <1>1, Invariance, PTL

\* Nobody has a permission in either list, or a line in the request file, that was
\* neither asked for by that user nor given by the owner.
THEOREM NoAccessUnasked == Spec => []AccessWasAsked
<1>1. IndInv => AccessWasAsked
  BY DEF IndInv
<1>2. QED
  BY <1>1, Invariance, PTL

=============================================================================
