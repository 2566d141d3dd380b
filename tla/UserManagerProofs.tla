------------------------- MODULE UserManagerProofs -------------------------
(***************************************************************************)
(* Proofs about the list of active users: for any number of connections,   *)
(* users and any size of the array, names are listed once and only while   *)
(* a connection of theirs is served.                                       *)
(***************************************************************************)
EXTENDS UserManager, SequenceTheorems, TLAPS

\* What the swap with the last entry leaves: one entry less, the last one in place i.
LEMMA RemoveAtEntries ==
  ASSUME NEW S, NEW list \in Seq(S), NEW i \in DOMAIN list
  PROVE  /\ RemoveAt(list, i) \in Seq(S)
         /\ Len(RemoveAt(list, i)) = Len(list) - 1
         /\ \A j \in 1..Len(list) - 1 :
              RemoveAt(list, i)[j] = IF j = i THEN list[Len(list)] ELSE list[j]
<1> DEFINE moved == [list EXCEPT ![i] = list[Len(list)]]
<1>1. Len(list) \in Nat /\ DOMAIN list = 1..Len(list)
  OBVIOUS
<1>2. i \in 1..Len(list) /\ Len(list) \in 1..Len(list)
  BY <1>1
<1>3. list[Len(list)] \in S
  BY <1>1, <1>2
<1>4. moved \in Seq(S) /\ Len(moved) = Len(list)
  BY <1>1, <1>3
<1>5. \A j \in 1..Len(list) : moved[j] = IF j = i THEN list[Len(list)] ELSE list[j]
  BY <1>1
<1>6. /\ SubSeq(moved, 1, Len(list) - 1) \in Seq(S)
      /\ Len(SubSeq(moved, 1, Len(list) - 1)) = Len(list) - 1
      /\ \A j \in 1..Len(list) - 1 : SubSeq(moved, 1, Len(list) - 1)[j] = moved[j]
  BY <1>1, <1>2, <1>4
<1>7. QED
  BY <1>1, <1>5, <1>6 DEF RemoveAt

\* The inductive invariant: that a name is listed once is what makes the removal of one
\* entry the removal of the name, so that no entry loses the connection it stands for.
IndInv == TypeOK /\ ListedOnce /\ ListedAreServed

\* The list starts empty.
LEMMA InitHolds == Init => IndInv
<1> SUFFICES ASSUME Init PROVE IndInv
  OBVIOUS
<1>1. active = <<>> /\ Len(active) = 0 /\ DOMAIN active = {} /\ active \in Seq(Users)
  BY DEF Init
<1>2. TypeOK
  BY <1>1 DEF Init, TypeOK
<1>3. ListedOnce /\ ListedAreServed
  BY <1>1, MaxUsersAssumption DEF ListedOnce, ListedAreServed
<1>4. QED
  BY <1>2, <1>3 DEF IndInv

\* Each step of a connection's thread keeps the inductive invariant.
LEMMA StepKeeps == IndInv /\ [Next]_vars => IndInv'
<1> SUFFICES ASSUME IndInv, [Next]_vars PROVE IndInv'
  OBVIOUS
<1> USE DEF IndInv
<1>0. /\ active \in Seq(Users) /\ Len(active) \in Nat
      /\ DOMAIN active = 1..Len(active)
  BY DEF TypeOK
<1>1. ASSUME NEW s \in Sessions, NEW u \in Users, Accept(s, u) PROVE IndInv'
  <2>1. TypeOK'
    BY <1>1 DEF Accept, TypeOK
  <2>2. ListedOnce'
    BY <1>1 DEF Accept, ListedOnce
  <2>3. ListedAreServed'
    BY <1>1 DEF Accept, ListedAreServed, TypeOK
  <2>4. QED
    BY <2>1, <2>2, <2>3
<1>2. ASSUME NEW s \in Sessions, Register(s) PROVE IndInv'
  <2>1. user[s] \in Users /\ user' = user
    BY <1>2 DEF Register, TypeOK
  <2>2. CASE Len(active) >= MaxUsers \/ user[s] \in Names
    <3>1. active' = active
      BY <1>2, <2>2 DEF Register
    <3>2. QED
      BY <1>2, <3>1 DEF Register, TypeOK, ListedOnce, ListedAreServed
  <2>3. CASE ~(Len(active) >= MaxUsers \/ user[s] \in Names)
    <3>1. active' = Append(active, user[s])
      BY <1>2, <2>3 DEF Register
    <3>2. /\ active' \in Seq(Users) /\ Len(active') = Len(active) + 1
          /\ DOMAIN active' = 1..Len(active) + 1
          /\ \A j \in 1..Len(active) : active'[j] = active[j]
          /\ active'[Len(active) + 1] = user[s]
      BY <1>0, <2>1, <3>1
    <3>3. \A j \in 1..Len(active) : active[j] # user[s]
      BY <1>0, <2>3 DEF Names
    <3>4. TypeOK'
      BY <1>2, <3>2 DEF Register, TypeOK
    <3>5. ListedOnce'
      <4>1. Len(active') <= MaxUsers
        BY <1>0, <2>3, <3>2, MaxUsersAssumption
      <4>2. ASSUME NEW i \in 1..Len(active) + 1, NEW j \in 1..Len(active) + 1,
                   active'[i] = active'[j]
            PROVE  i = j
        BY <1>0, <3>2, <3>3, <4>2 DEF ListedOnce
      <4>3. QED
        BY <3>2, <4>1, <4>2 DEF ListedOnce
    <3>6. ListedAreServed'
      <4>1. SUFFICES ASSUME NEW j \in 1..Len(active) + 1
                     PROVE  \E t \in Sessions :
                              user[t] = active'[j] /\ pc'[t] \in {"open", "deregister"}
        BY <2>1, <3>2 DEF ListedAreServed
      <4>2. CASE j = Len(active) + 1
        BY <1>2, <3>2, <4>2 DEF Register, TypeOK
      <4>3. CASE j \in 1..Len(active)
        <5>1. PICK t \in Sessions : user[t] = active[j] /\ pc[t] \in {"open", "deregister"}
          BY <1>0, <4>3 DEF ListedAreServed
        <5>2. QED
          BY <1>2, <3>2, <4>3, <5>1 DEF Register, TypeOK
      <4>4. QED
        BY <1>0, <4>2, <4>3
    <3>7. QED
      BY <3>4, <3>5, <3>6
  <2>4. QED
    BY <2>2, <2>3
<1>3. ASSUME NEW s \in Sessions, Leave(s) PROVE IndInv'
  <2>1. TypeOK'
    BY <1>3 DEF Leave, TypeOK
  <2>2. ListedOnce'
    BY <1>3 DEF Leave, ListedOnce
  <2>3. ListedAreServed'
    BY <1>3 DEF Leave, ListedAreServed, TypeOK
  <2>4. QED
    BY <2>1, <2>2, <2>3
<1>4. ASSUME NEW s \in Sessions, Deregister(s) PROVE IndInv'
  <2>1. user' = user /\ pc' = [pc EXCEPT ![s] = "off"] /\ pc[s] = "deregister"
    BY <1>4 DEF Deregister
  <2>2. CASE user[s] \notin Names
    <3>1. active' = active
      BY <1>4, <2>2 DEF Deregister
    <3>2. \A j \in DOMAIN active : active[j] # user[s]
      BY <2>2 DEF Names
    <3>3. QED
      BY <2>1, <3>1, <3>2 DEF TypeOK, ListedOnce, ListedAreServed
  <2>3. CASE user[s] \in Names
    <3>1. PICK i \in DOMAIN active : active[i] = user[s] /\ active' = RemoveAt(active, i)
      BY <1>4, <2>3 DEF Deregister
    <3>2. /\ active' \in Seq(Users) /\ Len(active') = Len(active) - 1
          /\ \A j \in 1..Len(active) - 1 :
               active'[j] = IF j = i THEN active[Len(active)] ELSE active[j]
      BY <1>0, <3>1, RemoveAtEntries
    <3>3. DOMAIN active' = 1..Len(active) - 1 /\ i \in 1..Len(active)
      BY <1>0, <3>1, <3>2
    <3>4. TypeOK'
      BY <2>1, <3>2 DEF TypeOK
    <3>5. ListedOnce'
      <4>1. Len(active') <= MaxUsers
        BY <1>0, <3>2, MaxUsersAssumption DEF ListedOnce
      <4>2. ASSUME NEW j \in 1..Len(active) - 1, NEW k \in 1..Len(active) - 1,
                   active'[j] = active'[k]
            PROVE  j = k
        BY <1>0, <3>2, <4>2 DEF ListedOnce
      <4>3. QED
        BY <3>3, <4>1, <4>2 DEF ListedOnce
    <3>6. ListedAreServed'
      <4>1. SUFFICES ASSUME NEW j \in 1..Len(active) - 1
                     PROVE  \E t \in Sessions :
                              user[t] = active'[j] /\ pc'[t] \in {"open", "deregister"}
        BY <2>1, <3>3 DEF ListedAreServed
      <4>2. PICK k \in 1..Len(active) : active'[j] = active[k] /\ k # i
        BY <1>0, <3>2, <3>3
      <4>3. active[k] # user[s]
        BY <1>0, <3>1, <3>3, <4>2 DEF ListedOnce
      <4>4. PICK t \in Sessions : user[t] = active[k] /\ pc[t] \in {"open", "deregister"}
        BY <1>0, <4>2 DEF ListedAreServed
      <4>5. t # s
        BY <4>3, <4>4
      <4>6. QED
        BY <2>1, <4>2, <4>4, <4>5 DEF TypeOK
    <3>7. QED
      BY <3>4, <3>5, <3>6
  <2>4. QED
    BY <2>2, <2>3
<1>5. CASE UNCHANGED vars
  BY <1>5 DEF vars, TypeOK, ListedOnce, ListedAreServed
<1>6. QED
  BY <1>1, <1>2, <1>3, <1>4, <1>5 DEF Next

\* The inductive invariant holds of every reachable state.
LEMMA Invariance == Spec => []IndInv
  BY InitHolds, StepKeeps, PTL DEF Spec

\* LIST never reads a hole of the array.
THEOREM TypeCorrect == Spec => []TypeOK
<1>1. IndInv => TypeOK
  BY DEF IndInv
<1>2. QED
  BY <1>1, Invariance, PTL

\* No overlap of two connections of a user lists the user twice, or overruns the array.
THEOREM NamesAreUnique == Spec => []ListedOnce
<1>1. IndInv => ListedOnce
  BY DEF IndInv
<1>2. QED
  BY <1>1, Invariance, PTL

\* A listed user has a connection that is served or about to take the name away.
THEOREM NoGhosts == Spec => []ListedAreServed
<1>1. IndInv => ListedAreServed
  BY DEF IndInv
<1>2. QED
  BY <1>1, Invariance, PTL
=============================================================================
