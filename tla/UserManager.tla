---------------------------- MODULE UserManager ----------------------------
(***************************************************************************)
(* The list of active users (name_server/user_manager.c) and the part of   *)
(* the client connection that keeps it (handle_client_connection): a       *)
(* thread enters its user when a connection has registered and removes it  *)
(* after the connection is over.  The list has one entry per user name,    *)
(* not one per connection.                                                 *)
(***************************************************************************)
EXTENDS Naturals, Sequences

CONSTANTS
  Sessions,       \* client connections, each served by a thread of its own
  Users,
  MaxUsers        \* MAX_ACTIVE_USERS

ASSUME MaxUsersAssumption == MaxUsers \in Nat \ {0}

VARIABLES
  active,         \* active_users[0 .. user_count - 1]
  pc,             \* where the thread of each connection stands
  user            \* client_username

vars == <<active, pc, user>>

\* user_manager_get_list.
Names == {active[i] : i \in DOMAIN active}

Init ==
  /\ active = <<>>
  /\ pc = [s \in Sessions |-> "off"]
  /\ user \in [Sessions -> Users]

\* The first message is MSG_REGISTER_CLIENT; it is acknowledged.
Accept(s, u) ==
  /\ pc[s] = "off"
  /\ pc' = [pc EXCEPT ![s] = "register"]
  /\ user' = [user EXCEPT ![s] = u]
  /\ UNCHANGED active

\* Mutant: the duplicate check is gone.
RegisterAgain(s) ==
  /\ pc[s] = "register"
  /\ active' = IF Len(active) >= MaxUsers THEN active ELSE Append(active, user[s])
  /\ pc' = [pc EXCEPT ![s] = "open"]
  /\ UNCHANGED user

\* user_manager_register: a full list, or one that has the name, stays as it is.
Register(s) ==
  /\ pc[s] = "register"
  /\ active' = IF Len(active) >= MaxUsers \/ user[s] \in Names THEN active
               ELSE Append(active, user[s])
  /\ pc' = [pc EXCEPT ![s] = "open"]
  /\ UNCHANGED user

\* recv_header fails, or MSG_EXEC has closed the socket: the loop is over.
Leave(s) ==
  /\ pc[s] = "open"
  /\ pc' = [pc EXCEPT ![s] = "deregister"]
  /\ UNCHANGED <<active, user>>

\* Mutant: the entry is cleared where it is.
RemoveLeavesHole(list, i) == [list EXCEPT ![i] = ""]

\* The last name takes the place of the one at index i.
RemoveAt(list, i) ==
  SubSeq([list EXCEPT ![i] = list[Len(list)]], 1, Len(list) - 1)

\* Mutant: the last entry is dropped, whoever it is.
DeregisterLast(s) ==
  /\ pc[s] = "deregister"
  /\ active' = IF user[s] \in Names THEN SubSeq(active, 1, Len(active) - 1) ELSE active
  /\ pc' = [pc EXCEPT ![s] = "off"]
  /\ UNCHANGED user

\* user_manager_deregister: the name goes, whoever else uses it.
Deregister(s) ==
  /\ pc[s] = "deregister"
  /\ IF user[s] \in Names
     THEN \E i \in DOMAIN active :
            /\ active[i] = user[s]
            /\ \A j \in 1..(i - 1) : active[j] # user[s]
            /\ active' = RemoveAt(active, i)
     ELSE UNCHANGED active
  /\ pc' = [pc EXCEPT ![s] = "off"]
  /\ UNCHANGED user

Next ==
  \E s \in Sessions :
    \/ \E u \in Users : Accept(s, u)
    \/ Register(s) \/ Leave(s) \/ Deregister(s)

Spec == Init /\ [][Next]_vars

-----------------------------------------------------------------------------
(* Properties *)

\* The list is an array prefix of user names without holes; threads are at known points.
TypeOK ==
  /\ active \in Seq(Users)
  /\ pc \in [Sessions -> {"off", "register", "open", "deregister"}]
  /\ user \in [Sessions -> Users]

\* A user is listed once and the list never outgrows its array, however connections of
\* the same user overlap.
ListedOnce ==
  /\ Len(active) <= MaxUsers
  /\ \A i, j \in DOMAIN active : active[i] = active[j] => i = j

\* LIST shows no user whose connections are all over: whatever the order in which the
\* threads of one user register and deregister, the last one to go takes the name along.
ListedAreServed ==
  \A i \in DOMAIN active :
    \E s \in Sessions : user[s] = active[i] /\ pc[s] \in {"open", "deregister"}

\* README: "LIST: Lists all registered users": a user with an open connection is listed.
OpenAreListed ==
  \A s \in Sessions : pc[s] = "open" => user[s] \in Names
=============================================================================
