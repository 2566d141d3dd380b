------------------------ MODULE ClientSessionProofs -------------------------
(***************************************************************************)
(* Proofs about ClientSession, for any documents: the client and the name  *)
(* server stay in step when no argument is longer than a buffer, and when  *)
(* no recv ends inside a marker no line is discarded, no success but that  *)
(* of an approval is reported for a command that was not carried out, and  *)
(* what a command prints of a text is what the storage server sent.        *)
(***************************************************************************)
EXTENDS ClientSession, SequenceTheorems, WellFoundedInduction, TLAPS

-----------------------------------------------------------------------------
(* The inductive invariants *)

\* No argument of the user's is longer than the buffer of the handler that reads it.
Short == "long" \notin Lengths

\* The places at which the client expects nothing from the name server.
InLoop == {"prompt", "connect", "ack", "recv", "more", "type", "reply"}

Quiet == c2n = <<>> /\ n2c = <<>> /\ ns = "header"

\* A request of type t from the client's send to the answer that is under way.
Sent(t) ==
  /\ c2n \in {<<Header(t, "none")>>, <<Header(t, "fits"), Payload>>}
  /\ n2c = <<>> /\ ns = "header"
Worked(t) == c2n = <<>> /\ n2c = <<>> /\ ns \in {"answer", "asking"} /\ req.type = t
Asking(t) ==
  \/ Sent(t)
  \/ c2n = <<Payload>> /\ n2c = <<>> /\ ns = "payload" /\ req.type = t
  \/ Worked(t)
  \/ c2n = <<>> /\ n2c \in Answers(t) /\ ns = "header"

Executing ==
  \/ c2n = <<Header("EXEC", "none")>> /\ n2c = <<>> /\ ns = "header"
  \/ Worked("EXEC")

LoggingIn ==
  \/ c2n = <<Header("REGISTER_CLIENT", "none")>> /\ n2c = <<>> /\ ns = "register"
  \/ c2n = <<>> /\ n2c = <<Ack>> /\ ns = "header"

\* What is under way between the client and a name server's thread that runs, by the place
\* the client stands at.
StepInv ==
  ns # "none" =>
    /\ pc = "login" => LoggingIn
    /\ pc \in InLoop => Quiet
    /\ pc = "header" => cmd # "EXEC" /\ Asking(MessageType(cmd))
    /\ pc = "report" => Asking("DEADREPORT")
    /\ pc = "payload" => c2n = <<>> /\ n2c = <<Payload>> /\ ns = "header"
    /\ pc = "exec" => Executing

\* The commands that are answered by one line, and the lines a client sends.
OneLine == {"CHECKPOINT", "REVERT", "REQUESTACCESS", "APPROVEREQUEST", "DENYREQUEST"}
Lines   == {"USER", "edit", "ETIRW", "EXIT"} \cup Redirected \cup Located

\* At most one line is under way, and on an open connection none while a reply is.
LineInv ==
  /\ c2s = <<>> \/ \E line \in Lines : c2s = <<line>>
  /\ sock <=> pc \in {"ack", "recv", "more", "type", "reply"}
  /\ sock /\ (s2c # <<>> \/ ss = "none") => c2s = <<>>
  /\ pc = "more" => c2s = <<>>

\* The line that is under way is the one that belongs to the client's place.
PlaceInv ==
  /\ pc \in {"connect", "ack", "recv"} => cmd \in Redirected \cup Located
  /\ pc = "ack" => /\ ss \in {"none", "user", "command"} /\ ~editing
                   /\ c2s = <<>> \/ (c2s = <<"USER">> /\ ss = "user")
                   /\ s2c = <<>> \/ (s2c = Pieces("USER_ACCEPTED") /\ ss # "user")
  /\ pc = "recv" => ss # "user" /\ c2s \in {<<>>, <<cmd>>}
  /\ pc = "reply" => c2s \in {<<>>, <<"edit">>, <<"ETIRW">>}
  /\ pc = "type" => c2s = <<>> /\ s2c = <<>>
  /\ pc \in {"type", "reply"} => cmd = "WRITE"
  /\ pc = "more" => cmd = "VIEWREQUESTS"
  /\ sock /\ ss \in {"stream", "pause"} => c2s = <<>>

\* A reply that says the command is carried out comes after it was, but for an approval.
DoneInv ==
  /\ pc = "recv" /\ cmd \in OneLine =>
       /\ ss \in {"none", "command"} /\ ~editing
       /\ s2c = <<>> \/ \E m \in Errors \cup {"COMPLETED"} :
                          s2c = Pieces(m) /\ (m = "COMPLETED" => (done \/ cmd = "APPROVEREQUEST"))
  /\ pc \in {"recv", "type", "reply"} /\ cmd = "WRITE" =>
       /\ ss \in {"none", "command"}
       /\ s2c = <<>> \/ \E m \in Markers : s2c = Pieces(m) /\ (m = "WRITE_COMPLETED" => done)
  /\ outcome = "ok" /\ cmd \in Redirected \cup Located =>
       (done \/ cmd = "APPROVEREQUEST") /\ pc \in {"prompt", "off"} /\ c2s \in {<<>>, <<"EXIT">>}

SessionInv == LineInv /\ PlaceInv /\ DoneInv

-----------------------------------------------------------------------------
(* Sequences of one and two elements *)

\* What the reader of a stream takes and leaves.
LEMMA ShortReads ==
  ASSUME NEW x, NEW y
  PROVE  /\ Head(<<x>>) = x /\ Tail(<<x>>) = <<>>
         /\ Head(<<x, y>>) = x /\ Tail(<<x, y>>) = <<y>>
         /\ <<x>> # <<>> /\ <<x, y>> # <<>>
<1>1. Head(<<x>>) = x /\ Head(<<x, y>>) = x /\ <<x>> # <<>> /\ <<x, y>> # <<>>
  OBVIOUS
<1>2. Tail(<<x>>) = <<>>
  <2>1. <<x>> \in Seq({x}) /\ Len(<<x>>) = 1
    OBVIOUS
  <2>2. Tail(<<x>>) \in Seq({x}) /\ Len(Tail(<<x>>)) = 0
    BY <1>1, <2>1, HeadTailProperties
  <2>3. QED
    BY <2>2, EmptySeq
<1>3. Tail(<<x, y>>) = <<y>>
  <2> DEFINE s == <<x, y>>
  <2>1. s \in Seq({x, y}) /\ Len(s) = 2 /\ s[2] = y /\ s # <<>>
    OBVIOUS
  <2> HIDE DEF s
  <2>2. /\ Tail(s) \in Seq({x, y}) /\ Len(Tail(s)) = 1
        /\ \A i \in 1..Len(Tail(s)) : Tail(s)[i] = s[i + 1]
    BY <2>1, HeadTailProperties
  <2>3. Tail(s)[1] = y
    BY <2>1, <2>2
  <2>a. <<y>> \in Seq({x, y}) /\ Len(<<y>>) = 1 /\ <<y>>[1] = y
    OBVIOUS
  <2> DEFINE t == Tail(s)
             u == <<y>>
  <2>b. /\ t \in Seq({x, y}) /\ u \in Seq({x, y}) /\ Len(t) = Len(u)
        /\ \A i \in 1..Len(t) : t[i] = u[i]
    <3>a. \A n : n = 1 => 1..n = {1}
      OBVIOUS
    <3>1. 1..Len(t) = {1}
      BY <2>2, <3>a
    <3>2. QED
      BY <2>2, <2>3, <2>a, <3>1
  <2> HIDE DEF t, u
  <2>c. t = u
    BY <2>b, SeqEqual
  <2>4. Tail(s) = <<y>>
    BY <2>c DEF t, u
  <2>5. QED
    BY <2>4 DEF s
<1>4. QED
  BY <1>1, <1>2, <1>3

\* What a sender leaves on an empty stream.
LEMMA ShortSends ==
  ASSUME NEW x, NEW y
  PROVE  /\ <<>> \o <<x>> = <<x>> /\ <<>> \o <<x, y>> = <<x, y>> /\ <<>> \o <<>> = <<>>
         /\ Append(<<>>, x) = <<x>>
<1>1. <<>> \o <<x>> = <<x>>
  <2>1. <<x>> \in Seq({x})
    OBVIOUS
  <2>2. QED
    BY <2>1, ConcatEmptySeq
<1>2. <<>> \o <<x, y>> = <<x, y>>
  <2>1. <<x, y>> \in Seq({x, y})
    OBVIOUS
  <2>2. QED
    BY <2>1, ConcatEmptySeq
<1>3. <<>> \o <<>> = <<>>
  <2>1. <<>> \in Seq({x})
    OBVIOUS
  <2>2. QED
    BY <2>1, ConcatEmptySeq
<1>4. Append(<<>>, x) = <<x>>
  OBVIOUS
<1>5. QED
  BY <1>1, <1>2, <1>3, <1>4

\* client_handler_thread: the only line is taken, and nothing is left behind it.
LEMMA OneUnread ==
  ASSUME NEW line, c2s = <<line>>
  PROVE  Unread = {<<>>}
<1>1. Len(c2s) = 1
  OBVIOUS
<1>2. 2 .. Len(c2s) + 1 = {2}
  BY <1>1
<1>3. SubSeq(c2s, 2, Len(c2s)) = <<>>
  BY <1>1
<1>4. QED
  BY <1>2, <1>3 DEF Unread

\* A marker under way is received whole or not at all when no recv ends inside one.
LEMMA WholeMarker ==
  ASSUME Whole, NEW m \in Markers, s2c = Pieces(m)
  PROVE  /\ Cuts(s2c) = {<<>>, Pieces(m)} /\ Packets = {Pieces(m)}
         /\ Rest(Pieces(m)) = <<>> /\ Pieces(m) # <<>>
<1>1. s2c = <<<<m, 1>>, <<m, 2>>>> /\ Pieces(m) = s2c
  BY DEF Pieces
<1>2. Len(s2c) = 2 /\ s2c[1][2] = 1 /\ s2c[2][2] = 2 /\ s2c # <<>>
  BY <1>1
<1>3. {k \in 0 .. Len(s2c) : Whole /\ k > 0 => s2c[k][2] # 1} = {0, 2}
  <2>1. 0 .. Len(s2c) = {0, 1, 2}
    BY <1>2
  <2>2. QED
    BY <1>2, <2>1
<1>4. SubSeq(s2c, 1, 0) = <<>> /\ SubSeq(s2c, 1, 2) = s2c
  <2>1. s2c \in Seq({<<m, 1>>, <<m, 2>>})
    BY <1>1
  <2>2. QED
    BY <1>2, <2>1, SubSeqFull, SubSeqEmpty
<1>5. Cuts(s2c) = {<<>>, s2c}
  <2> DEFINE K == {k \in 0 .. Len(s2c) : Whole /\ k > 0 => s2c[k][2] # 1}
  <2>1. Cuts(s2c) = {SubSeq(s2c, 1, n) : n \in K} /\ K = {0, 2}
    BY <1>3 DEF Cuts
  <2> HIDE DEF K
  <2>2. QED
    BY <1>4, <2>1
<1>6. SubSeq(s2c, Len(s2c) + 1, Len(s2c)) = <<>>
  BY <1>1, <1>2
<1>7. QED
  BY <1>1, <1>2, <1>5, <1>6 DEF Packets, Rest

\* Nothing can be received while nothing is under way.
LEMMA NoPackets ==
  ASSUME s2c = <<>>
  PROVE  Cuts(s2c) = {<<>>} /\ Packets = {}
<1>1. Len(s2c) = 0 /\ SubSeq(s2c, 1, 0) = <<>>
  OBVIOUS
<1>2. {k \in 0 .. Len(s2c) : Whole /\ k > 0 => s2c[k][2] # 1} = {0}
  BY <1>1
<1>3. Cuts(s2c) = {<<>>}
  <2> DEFINE K == {k \in 0 .. Len(s2c) : Whole /\ k > 0 => s2c[k][2] # 1}
  <2>1. Cuts(s2c) = {SubSeq(s2c, 1, n) : n \in K} /\ K = {0}
    BY <1>2 DEF Cuts
  <2> HIDE DEF K
  <2>2. QED
    BY <1>1, <2>1
<1>4. QED
  BY <1>3 DEF Packets

-----------------------------------------------------------------------------
(* The client's steps *)

\* The commands that are carried out by a storage server.
Remote == Redirected \cup Located

\* The commands that print a text, and the markers around it.
Texts == {"READ", "VIEWCHECKPOINT", "LISTCHECKPOINTS"}

HeadOf(c) ==
  CASE c = "READ" -> "FILE_CONTENT"
    [] c = "VIEWCHECKPOINT" -> "CHECKPOINT_CONTENT"
    [] OTHER -> "CHECKPOINT_LIST"

EndOf(c) ==
  CASE c = "READ" -> "END_OF_FILE"
    [] c = "VIEWCHECKPOINT" -> "END_OF_CHECKPOINT"
    [] OTHER -> "END_OF_LIST"

\* The steps of a handler on the socket to the storage server.
SocketStep ==
  \/ cmd \in Remote /\ (Connect \/ GiveUp \/ Greet \/ \E looks \in BOOLEAN : GreetOrClose(looks))
  \/ cmd \in Texts /\ \E stops : MarkedReply(HeadOf(cmd), EndOf(cmd), stops)
  \/ cmd = "STREAM" /\ StreamReply
  \/ cmd \in OneLine /\ OneReply
  \/ cmd = "VIEWREQUESTS" /\ ViewRequestsReply
  \/ cmd = "WRITE" /\ WriteReply
  \/ TypeLine

\* recv_header: the answer is read, and result with place is what the handler makes of it;
\* or the name server is gone.
HeaderRead(place) ==
  /\ pc = "header" /\ n2c # <<>> /\ n2c' = Tail(n2c) /\ pc' = place
  /\ UNCHANGED <<cmd, c2n, ns, req, nsUp, sock, ssVars, first, shown>>
PayloadRead(place) ==
  /\ pc = "payload" /\ n2c # <<>> /\ n2c' = Tail(n2c) /\ pc' = place
  /\ UNCHANGED <<cmd, c2n, ns, req, nsUp, sock, ssVars, first, shown>>
ReadFails ==
  /\ pc \in {"header", "payload", "report"} /\ Lost /\ Return("lost") /\ UNCHANGED n2c
  /\ UNCHANGED <<cmd, c2n, ns, req, nsUp, sock, ssVars, first, shown>>
ReportRead ==
  /\ pc = "report" /\ n2c # <<>> /\ n2c' = Tail(n2c) /\ Return("lost")
  /\ UNCHANGED <<cmd, c2n, ns, req, nsUp, sock, ssVars, first, shown>>

\* The type of the answer that has a payload.
Response ==
  CASE cmd = "LIST" -> "LIST_RESPONSE"
    [] cmd \in Views -> "VIEW_RESPONSE"
    [] cmd = "INFO" -> "INFO_RESPONSE"
    [] cmd \in Redirected -> "READ_REDIRECT"
    [] OTHER -> "LOCATE_RESPONSE"

\* The answer to a command that has no listing; to one that has; a refusal; the header of a
\* listing or an address; the payload with a listing; the payload with an address.
AckRead ==
  /\ cmd \in Proxied \cup Accesses \cup Moves
  /\ HeaderRead("prompt") /\ outcome' \in {"ok", "error"}
EmptyRead ==
  /\ cmd \in {"LIST"} \cup Views /\ HeaderRead("prompt") /\ outcome' \in {"ok", "error"}
  /\ Head(n2c).type # Response \/ Head(n2c).length = "none"
RefusalRead ==
  /\ cmd \in {"INFO"} \cup Remote /\ HeaderRead("prompt") /\ outcome' = "error"
  /\ Head(n2c).type # Response
Announced ==
  /\ cmd \in {"LIST", "INFO"} \cup Views \cup Remote /\ HeaderRead("payload")
  /\ outcome' = outcome /\ Head(n2c).type = Response
  /\ cmd \in {"LIST"} \cup Views => Head(n2c).length # "none"
ListingRead == cmd \in {"LIST", "INFO"} \cup Views /\ PayloadRead("prompt") /\ outcome' = "ok"
AddressRead == cmd \in Remote /\ PayloadRead("connect") /\ outcome' = outcome
Reported    == cmd \in Remote /\ (ReportDead \/ ReportRead)

\* Every step of a handler is one of these.
LEMMA ClientForms ==
  ASSUME Client
  PROVE  \/ LoginReply \/ AckRead \/ EmptyRead \/ RefusalRead \/ Announced \/ ListingRead
         \/ AddressRead \/ ReadFails \/ handle_exec_command \/ Reported \/ SocketStep
<1>1. ASSUME handle_proxy_command \/ handle_access_command \/ handle_move_commands
      PROVE  AckRead \/ ReadFails
  BY <1>1 DEF handle_proxy_command, handle_access_command, handle_move_commands, NSReply,
     IsAck, Return, HeaderRead, ReadFails, AckRead
<1>2. ASSUME handle_list_command
      PROVE  EmptyRead \/ Announced \/ ListingRead \/ ReadFails
  <2>1. cmd = "LIST"
    BY <1>2 DEF handle_list_command, NSReply, NSPayload
  <2>2. Response = "LIST_RESPONSE"
    BY <2>1 DEF Views, Redirected, Response
  <2>3. QED
    BY <1>2, <2>1, <2>2 DEF handle_list_command, NSReply, NSPayload, Listing, Listed, Return,
       HeaderRead, PayloadRead, ReadFails, EmptyRead, Announced, ListingRead
<1>3. ASSUME handle_view_command
      PROVE  EmptyRead \/ Announced \/ ListingRead \/ ReadFails
  <2>1. cmd \in Views
    BY <1>3 DEF handle_view_command, NSReply, NSPayload
  <2>2. Response = "VIEW_RESPONSE"
    BY <2>1 DEF Views, Redirected, Response
  <2>3. QED
    BY <1>3, <2>1, <2>2 DEF handle_view_command, NSReply, NSPayload, Listing, Listed, Return,
       HeaderRead, PayloadRead, ReadFails, EmptyRead, Announced, ListingRead
<1>4. ASSUME handle_info_command
      PROVE  RefusalRead \/ Announced \/ ListingRead \/ ReadFails
  <2>1. cmd = "INFO"
    BY <1>4 DEF handle_info_command, NSReply, NSPayload
  <2>2. Response = "INFO_RESPONSE" /\ cmd \notin {"LIST"} \cup Views
    BY <2>1 DEF Views, Redirected, Response
  <2>3. QED
    BY <1>4, <2>1, <2>2 DEF handle_info_command, NSReply, NSPayload, Expect, Listed, Return,
       HeaderRead, PayloadRead, ReadFails, RefusalRead, Announced, ListingRead
<1>5. ASSUME NEW t, cmd \in Remote, t = Response, Redirect(t)
      PROVE  RefusalRead \/ Announced \/ AddressRead \/ ReadFails
  <2>1. cmd \notin {"LIST"} \cup Views
    BY <1>5 DEF Views, Remote, Redirected, Located
  <2>2. QED
    BY <1>5, <2>1 DEF Redirect, NSReply, NSPayload, Expect, Return, HeaderRead, PayloadRead,
       ReadFails, RefusalRead, Announced, AddressRead
<1>6. ASSUME cmd \in Remote, handle_ss_dead_report
      PROVE  Reported \/ ReadFails
  BY <1>6 DEF handle_ss_dead_report, NSReply, ReportRead, ReadFails, Return, Reported
<1>7. ASSUME cmd \in Redirected, Reach
      PROVE  RefusalRead \/ Announced \/ AddressRead \/ ReadFails \/ Reported \/ SocketStep
  <2>1. Response = "READ_REDIRECT" /\ cmd \in Remote
    BY <1>7 DEF Redirected, Views, Response, Remote
  <2>2. QED
    BY <1>5, <1>6, <1>7, <2>1 DEF Reach, SocketStep
<1>8. ASSUME cmd \in Located, Locate \/ \E looks \in BOOLEAN : GreetOrClose(looks)
      PROVE  RefusalRead \/ Announced \/ AddressRead \/ ReadFails \/ SocketStep
  <2>1. Response = "LOCATE_RESPONSE" /\ cmd \in Remote
    BY <1>8 DEF Located, Redirected, Views, Response, Remote
  <2>2. QED
    BY <1>5, <1>8, <2>1 DEF Locate, SocketStep
<1>9. ASSUME \/ handle_redirect_command \/ handle_checkpoint_command
             \/ handle_viewcheckpoint_command \/ handle_revert_command
             \/ handle_listcheckpoints_command
      PROVE  (cmd \in Redirected /\ Reach) \/ SocketStep
  BY <1>9 DEF handle_redirect_command, handle_checkpoint_command,
     handle_viewcheckpoint_command, handle_revert_command, handle_listcheckpoints_command,
     Redirected, SocketStep, OneLine, Texts, HeadOf, EndOf
<1>10. ASSUME \/ handle_requestaccess_command \/ handle_viewrequests_command
              \/ handle_approverequest_command \/ handle_denyrequest_command
       PROVE  \/ cmd \in Located /\ (Locate \/ \E looks \in BOOLEAN : GreetOrClose(looks))
              \/ SocketStep
  BY <1>10 DEF handle_requestaccess_command, handle_viewrequests_command,
     handle_approverequest_command, handle_denyrequest_command, Located, SocketStep, OneLine
<1>11. QED
  BY <1>1, <1>2, <1>3, <1>4, <1>7, <1>8, <1>9, <1>10 DEF Client

\* What a step on the storage server's socket may do to the rest.
LEMMA SocketEffects ==
  ASSUME SocketStep
  PROVE  /\ UNCHANGED <<cmd, nsVars, ssUp>>
         /\ pc \in {"connect", "ack", "recv", "more", "type", "reply"} /\ pc' \in InLoop \cup {"off"}
         /\ ss' \in {ss, "user"} /\ sock' \in {sock, TRUE, FALSE}
         /\ editing' \in {editing, FALSE} /\ done' \in {done, FALSE} /\ first' \in {first, FALSE}
         /\ outcome' \in {outcome, "ok", "error", "lost", "end", "stop", "quit"}
<1> USE DEF InLoop, Alone, Return, Quit, SendSS, Close, Finish, Keep
<1>1. ASSUME Connect \/ GiveUp
      PROVE  /\ UNCHANGED <<cmd, nsVars, ssUp>>
             /\ pc = "connect" /\ pc' \in {"ack", "prompt"}
             /\ ss' \in {ss, "user"} /\ sock' \in {sock, TRUE}
             /\ editing' \in {editing, FALSE} /\ done' \in {done, FALSE} /\ first' = first
             /\ outcome' \in {outcome, "lost"}
  BY <1>1 DEF Connect, GiveUp, ssVars, output
<1> DEFINE Same == UNCHANGED <<cmd, nsVars, ss, ssUp, editing, done>>
<1>2. ASSUME Greet \/ \E looks \in BOOLEAN : GreetOrClose(looks)
      PROVE  /\ Same /\ pc = "ack" /\ pc' \in {"recv", "prompt", "off"} /\ sock' \in {sock, FALSE}
             /\ first' = first /\ outcome' \in {outcome, "error", "lost"}
  BY <1>2 DEF Greet, GreetOrClose, output
<1>3. ASSUME \E head, end, stops : MarkedReply(head, end, stops)
      PROVE  /\ Same /\ pc = "recv" /\ pc' \in {"recv", "prompt", "off"} /\ sock' \in {sock, FALSE}
             /\ first' \in {first, FALSE} /\ outcome' \in {outcome, "end", "stop", "lost"}
  <2>1. PICK head, end, stops : MarkedReply(head, end, stops)
    BY <1>3
  <2>2. Same /\ pc = "recv"
    BY <2>1 DEF MarkedReply
  <2>3. CASE Closed /\ Finish("lost") /\ UNCHANGED <<first, shown>>
    BY <2>2, <2>3
  <2>4. CASE \E buf \in Packets : \/ Finish("stop") /\ UNCHANGED first
                                  \/ Finish("end") /\ UNCHANGED first
                                  \/ Keep(buf) /\ first' = FALSE
    BY <2>2, <2>4
  <2>5. QED
    BY <2>1, <2>3, <2>4 DEF MarkedReply
<1>4. ASSUME StreamReply
      PROVE  /\ Same /\ pc = "recv" /\ pc' \in {"recv", "prompt", "off"} /\ sock' \in {sock, FALSE}
             /\ first' = first /\ outcome' \in {outcome, "end", "stop", "error", "lost"}
  BY <1>4 DEF StreamReply
<1>5. ASSUME OneReply
      PROVE  /\ Same /\ pc = "recv" /\ pc' \in {"prompt", "off"} /\ sock' = FALSE
             /\ first' = first /\ outcome' \in {"ok", "error", "lost"}
  BY <1>5 DEF OneReply
<1>6. ASSUME ViewRequestsReply
      PROVE  /\ Same /\ pc \in {"recv", "more"} /\ pc' \in {"more", "prompt", "off"}
             /\ sock' \in {sock, FALSE} /\ first' = first
             /\ outcome' \in {outcome, "end", "error", "lost"}
  BY <1>6 DEF ViewRequestsReply
<1>7. ASSUME WriteReply
      PROVE  /\ Same /\ pc \in {"recv", "reply"} /\ pc' \in {"type", "prompt", "off"}
             /\ sock' \in {sock, FALSE} /\ first' = first
             /\ outcome' \in {outcome, "ok", "error", "lost"}
  BY <1>7 DEF WriteReply
<1>8. ASSUME TypeLine
      PROVE  /\ Same /\ pc = "type" /\ pc' \in {"reply", "prompt", "off"}
             /\ sock' \in {sock, FALSE} /\ first' = first /\ outcome' \in {outcome, "quit"}
  BY <1>8 DEF TypeLine
<1>9. QED
  BY <1>1, <1>2, <1>3, <1>4, <1>5, <1>6, <1>7, <1>8 DEF SocketStep

\* What the storage server's process does to the rest.
LEMMA ServerEffects ==
  ASSUME SSThread \/ SSDown \/ SSUp, TypeOK
  PROVE  /\ UNCHANGED <<pc, cmd, nsVars, sock, output>>
         /\ ss' \in {"none", "user", "command", "stream", "pause"}
         /\ ssUp' \in BOOLEAN /\ editing' \in BOOLEAN /\ done' \in BOOLEAN
<1>1. ASSUME SSUser \/ SSStreamWord \/ SSStreamCheck \/ SSHangUp \/ SSDown \/ SSUp
      PROVE  /\ UNCHANGED <<pc, cmd, nsVars, sock, output>>
             /\ ss' \in {"none", "user", "command", "stream", "pause"}
             /\ ssUp' \in BOOLEAN /\ editing' \in BOOLEAN /\ done' \in BOOLEAN
  BY <1>1 DEF SSUser, SSStreamWord, SSStreamCheck, SSHangUp, SSDown, SSUp, SSOnly, TypeOK
<1>2. ASSUME SSCommand
      PROVE  /\ UNCHANGED <<pc, cmd, nsVars, sock, ssUp, output>>
             /\ ss' \in {"none", "command", "stream"}
             /\ editing' \in BOOLEAN /\ done' \in BOOLEAN
  <2>1. UNCHANGED <<pc, cmd, nsVars, sock, ssUp, output>> /\ ss = "command"
    BY <1>2 DEF SSCommand, SSOnly
  <2>2. ASSUME NEW line, SSWriteMode(line)
        PROVE  ss' = "command" /\ editing' \in BOOLEAN /\ done' \in BOOLEAN
    BY <2>1, <2>2 DEF SSWriteMode, SSReplies, TypeOK
  <2>3. ASSUME SSRead \/ SSViewCheckpoint \/ SSListCheckpoints \/ SSViewRequests \/ SSStream
        PROVE  ss' \in {"command", "stream"} /\ editing' = editing /\ done' = done
    BY <2>1, <2>3 DEF SSRead, SSViewCheckpoint, SSListCheckpoints, SSViewRequests, SSStream,
       SSReplies, SSServes
  <2>4. ASSUME (\E line : SSDo(line)) \/ SSWrite \/ SSExit
        PROVE  ss' \in {"command", "none"} /\ editing' \in BOOLEAN /\ done' \in BOOLEAN
    BY <2>1, <2>4 DEF SSDo, SSWrite, SSExit, SSReplies, TypeOK
  <2>5. ASSUME SSReplies("ERR_400"), UNCHANGED <<editing, done>>
        PROVE  ss' = "command" /\ editing' = editing /\ done' = done
    BY <2>1, <2>5 DEF SSReplies
  <2>6. QED
    BY <1>2, <2>1, <2>2, <2>3, <2>4, <2>5 DEF SSCommand, TypeOK
<1>3. QED
  BY <1>1, <1>2 DEF SSThread, TypeOK

\* The places and results of ClientSession are those of TypeOK.
LEMMA TypeStep ==
  ASSUME TypeOK, [Next]_vars
  PROVE  TypeOK'
<1> USE DEF TypeOK
<1>1. ASSUME LoginReply \/ handle_exec_command
      PROVE  TypeOK'
  BY <1>1 DEF LoginReply, handle_exec_command, Connected, Quit, ssVars, output
<1>2. ASSUME AckRead \/ EmptyRead \/ RefusalRead \/ Announced \/ ListingRead
      PROVE  TypeOK'
  BY <1>2 DEF AckRead, EmptyRead, RefusalRead, Announced, ListingRead, HeaderRead, PayloadRead,
     ssVars
<1>3. ASSUME AddressRead \/ ReadFails \/ Reported
      PROVE  TypeOK'
  BY <1>3 DEF AddressRead, PayloadRead, ReadFails, Reported, ReportDead, ReportRead, SendNS,
     Quit, Return, ssVars, output
<1>4. ASSUME SocketStep
      PROVE  TypeOK'
  <2>1. /\ UNCHANGED <<cmd, nsVars, ssUp>> /\ pc' \in InLoop \cup {"off"} /\ ss' \in {ss, "user"}
        /\ outcome' \in {outcome, "ok", "error", "lost", "end", "stop", "quit"}
    BY <1>4, SocketEffects
  <2>2. sock' \in BOOLEAN
    BY <1>4, SocketEffects
  <2>3. editing' \in BOOLEAN
    BY <1>4, SocketEffects
  <2>4. done' \in BOOLEAN
    BY <1>4, SocketEffects
  <2>5. first' \in BOOLEAN
    BY <1>4, SocketEffects
  <2>6. QED
    BY <2>1, <2>2, <2>3, <2>4, <2>5 DEF InLoop, nsVars
<1>5. ASSUME Start \/ Leave
      PROVE  TypeOK'
  <2>1. "LIST" \in Commands
    BY DEF Commands
  <2>2. QED
    BY <1>5, <2>1 DEF Start, Leave, Connected, Quit, nsVars, ssVars, output
<1>6. ASSUME NEW c \in Commands, Command(c)
      PROVE  TypeOK'
  BY <1>6 DEF Command, SendNS, Quit
<1>7. ASSUME NSThread \/ NSAsked \/ NSDown \/ NSUp
      PROVE  TypeOK'
  <2>1. NSOnly
    BY <1>7 DEF NSThread, NSDown, NSUp, NSRegister, NSHeader, NSReceive, NSAnswer, NSAsk,
       NSAsked, NSAskFails, NSReplies, NSHangUp
  <2>2. /\ ns' \in {"none", "register", "header", "payload", "answer", "asking"}
        /\ nsUp' \in {"up", "stopped", "killed"}
    BY <1>7 DEF NSThread, NSDown, NSUp, NSRegister, NSHeader, NSReceive, NSAnswer, NSAsk,
       NSAsked, NSAskFails, NSReplies, NSHangUp, NSSend
  <2>3. QED
    BY <2>1, <2>2 DEF NSOnly, ssVars, output
<1>8. ASSUME SSThread \/ SSDown \/ SSUp
      PROVE  TypeOK'
  BY <1>8, ServerEffects DEF nsVars, output
<1>9. ASSUME UNCHANGED vars
      PROVE  TypeOK'
  BY <1>9 DEF vars, nsVars, ssVars, output
<1>10. QED
  BY <1>1, <1>2, <1>3, <1>4, <1>5, <1>6, <1>7, <1>8, <1>9, ClientForms DEF Next, User, SocketStep

\* Every handler of the client and every thread of the servers stays at its places.
THEOREM TypeCorrect == Spec => []TypeOK
<1>1. Init => TypeOK
  BY DEF Init, TypeOK, Commands
<1>2. TypeOK /\ [Next]_vars => TypeOK'
  BY TypeStep
<1>3. QED
  BY <1>1, <1>2, PTL DEF Spec

-----------------------------------------------------------------------------
(* Client and name server in step *)

\* The type of a request is not taken for a payload, and only EXEC has the type EXEC.
LEMMA RequestTypes ==
  ASSUME cmd \in Commands
  PROVE  /\ MessageType(cmd) # "payload"
         /\ cmd # "EXEC" => MessageType(cmd) # "EXEC"
         /\ MessageType("DEADREPORT") = "DEADREPORT" /\ MessageType("EXEC") = "EXEC"
  BY DEF Commands, MessageType, Proxied, Accesses, Moves, Views, Redirected, Located

\* An answer is a header, or a header and a payload.
LEMMA AnswerSeqs ==
  ASSUME NEW t, NEW messages \in Answers(t)
  PROVE  <<>> \o messages = messages
<1>1. messages = <<Ack>> \/ messages = <<Err>> \/ (\E x : messages = <<x>>)
      \/ (\E x, y : messages = <<x, y>>)
  BY DEF Answers, WithPayload
<1>2. QED
  BY <1>1, ShortSends

\* With or without the exchange, a handler sends one of its answers.
LEMMA AnswersAre ==
  ASSUME NEW t
  PROVE  AtOnce(t) \subseteq Answers(t) /\ Afterwards(t) \subseteq Answers(t)
<1>1. ASSUME t \in {"CREATE", "UNDO", "INFO"} \cup Accesses PROVE <<Err>> \in Answers(t)
  BY <1>1 DEF Answers, Views, Accesses
<1>2. ASSUME t \in {"DELETE", "MOVEFOLDER"} PROVE <<Ack>> \in Answers(t)
  BY <1>2 DEF Answers, Views
<1>3. QED
  BY <1>1, <1>2 DEF AtOnce, Afterwards

\* What the handlers of the name server answer to the client's commands.
LEMMA AnswerForms ==
  ASSUME cmd \in Commands, NEW messages \in Answers(MessageType(cmd))
  PROVE  /\ cmd \in Proxied \cup Accesses \cup Moves => messages \in {<<Ack>>, <<Err>>}
         /\ cmd \in {"LIST"} \cup Views =>
              messages \in {<<Header(Response, "none")>>, WithPayload(Response)}
         /\ cmd \in {"INFO"} \cup Remote => messages \in {<<Err>>, WithPayload(Response)}
<1>1. ASSUME cmd \in Proxied \cup Accesses \cup Moves PROVE messages \in {<<Ack>>, <<Err>>}
  <2>1. MessageType(cmd) = cmd
    BY <1>1 DEF MessageType, Proxied, Accesses, Moves, Located
  <2>2. messages \in Answers(cmd)
    BY <2>1
  <2>3. QED
    BY <1>1, <2>2 DEF Answers, Proxied, Accesses, Moves, Views
<1>2. ASSUME cmd = "LIST"
      PROVE  messages \in {<<Header(Response, "none")>>, WithPayload(Response)}
  <2>1. MessageType(cmd) = cmd /\ Response = "LIST_RESPONSE"
    BY <1>2 DEF MessageType, Located, Response, Views, Redirected
  <2>2. QED
    BY <1>2, <2>1 DEF Answers, Views
<1>3. ASSUME cmd \in Views
      PROVE  messages \in {<<Header(Response, "none")>>, WithPayload(Response)}
  <2>1. MessageType(cmd) = cmd /\ Response = "VIEW_RESPONSE"
    BY <1>3 DEF MessageType, Located, Response, Views, Redirected
  <2>2. QED
    BY <1>3, <2>1 DEF Answers, Views
<1>4. ASSUME cmd = "INFO" PROVE messages \in {<<Err>>, WithPayload(Response)}
  <2>1. MessageType(cmd) = cmd /\ Response = "INFO_RESPONSE"
    BY <1>4 DEF MessageType, Located, Response, Views, Redirected
  <2>2. QED
    BY <1>4, <2>1 DEF Answers, Views
<1>5. ASSUME cmd \in Redirected PROVE messages \in {<<Err>>, WithPayload(Response)}
  <2>1. MessageType(cmd) \in {"READ", "WRITE", "STREAM"} /\ Response = "READ_REDIRECT"
    BY <1>5 DEF MessageType, Located, Response, Views, Redirected
  <2>2. QED
    BY <1>5, <2>1 DEF Answers, Views
<1>6. ASSUME cmd \in Located PROVE messages \in {<<Err>>, WithPayload(Response)}
  <2>1. MessageType(cmd) = "LOCATE_FILE" /\ Response = "LOCATE_RESPONSE"
    BY <1>6 DEF MessageType, Located, Response, Views, Redirected
  <2>2. QED
    BY <1>6, <2>1 DEF Answers, Views
<1>7. QED
  BY <1>1, <1>2, <1>3, <1>4, <1>5, <1>6 DEF Remote

\* The name server's thread works a request off, one step after the other.
LEMMA AskingStep ==
  ASSUME NEW t, t # "payload", t # "EXEC", pc # "off", Asking(t), NSThread \/ NSAsked
  PROVE  Asking(t)' \/ ns' = "none"
<1> USE ShortReads
<1>1. ~NSRegister /\ ~NSHangUp
  BY DEF NSRegister, NSHangUp, Asking, Sent, Worked
<1>2. ASSUME NSHeader PROVE Asking(t)' \/ ns' = "none"
  <2>1. c2n # <<>> /\ ns = "header" /\ c2n' = Tail(c2n)
    BY <1>2 DEF NSHeader
  <2>2. Sent(t)
    BY <2>1 DEF Asking, Worked
  <2>3. /\ Header(t, "none") # Payload /\ Header(t, "fits") # Payload
        /\ Header(t, "none").length = "none" /\ Header(t, "fits").length = "fits"
        /\ Header(t, "none").type = t /\ Header(t, "fits").type = t
    BY DEF Header, Payload
  <2>4. CASE c2n = <<Header(t, "none")>>
    <3>1. Head(c2n) = Header(t, "none") /\ c2n' = <<>>
      BY <2>1, <2>4
    <3>2. ns' = "answer" /\ req' = Header(t, "none") /\ UNCHANGED n2c
      BY <1>2, <2>3, <3>1 DEF NSHeader
    <3>3. QED
      BY <2>2, <2>3, <3>1, <3>2 DEF Asking, Worked, Sent
  <2>5. CASE c2n = <<Header(t, "fits"), Payload>>
    <3>1. Head(c2n) = Header(t, "fits") /\ c2n' = <<Payload>>
      BY <2>1, <2>5
    <3>2. ns' = "payload" /\ req' = Header(t, "fits") /\ UNCHANGED n2c
      BY <1>2, <2>3, <3>1 DEF NSHeader
    <3>3. QED
      BY <2>2, <2>3, <3>1, <3>2 DEF Asking, Sent
  <2>6. QED
    BY <2>2, <2>4, <2>5 DEF Sent
<1>3. ASSUME NSReceive PROVE Asking(t)' \/ ns' = "none"
  <2>1. /\ c2n = <<Payload>> /\ n2c = <<>> /\ req.type = t
        /\ c2n' = Tail(c2n) /\ ns' = "answer" /\ UNCHANGED <<n2c, req>>
    BY <1>3 DEF NSReceive, Asking, Sent, Worked
  <2>2. c2n' = <<>>
    BY <2>1
  <2>3. QED
    BY <2>1, <2>2 DEF Asking, Worked
<1>4. ASSUME NSAnswer \/ NSAsked \/ (NSAskFails /\ NSReplies(Afterwards(req.type)))
      PROVE  Asking(t)' \/ ns' = "none"
  <2>1. Worked(t)
    BY <1>4 DEF NSAnswer, NSAsked, NSAskFails, Asking, Sent
  <2>2. NSReplies(AtOnce(t)) \/ NSReplies(Afterwards(t))
    BY <1>4, <2>1 DEF NSAnswer, NSAsked, NSAskFails, Worked
  <2>3. AtOnce(t) \subseteq Answers(t) /\ Afterwards(t) \subseteq Answers(t)
    BY AnswersAre
  <2>4. PICK messages \in Answers(t) : n2c' = n2c \o messages /\ ns' = "header" /\ UNCHANGED c2n
    BY <2>1, <2>2, <2>3 DEF NSReplies, NSSend, Worked
  <2>5. n2c' = messages
    BY <2>1, <2>4, AnswerSeqs DEF Worked
  <2>6. QED
    BY <2>1, <2>4, <2>5 DEF Asking, Worked
<1>5. ASSUME NSAsk PROVE Asking(t)' \/ ns' = "none"
  BY <1>5 DEF NSAsk, Asking, Sent, Worked
<1>6. NSAskFails => NSReplies(Afterwards(req.type)) \/ ns' = "none"
  BY DEF NSAskFails
<1>7. QED
  BY <1>1, <1>2, <1>3, <1>4, <1>5, <1>6 DEF NSThread

\* EXEC is worked off until the name server closes the connection.
LEMMA ExecStep ==
  ASSUME pc # "off", Executing, NSThread \/ NSAsked
  PROVE  Executing' \/ ns' = "none"
<1> USE ShortReads
<1>1. ~NSRegister /\ ~NSReceive /\ ~NSHangUp
  BY DEF NSRegister, NSReceive, NSHangUp, Executing, Worked
<1>2. ASSUME NSHeader PROVE Executing'
  <2> DEFINE h == Header("EXEC", "none")
  <2>1. c2n = <<h>> /\ n2c = <<>> /\ c2n' = Tail(c2n)
    BY <1>2 DEF NSHeader, Executing, Worked
  <2>2. Head(c2n) = h /\ c2n' = <<>>
    BY <2>1
  <2>3. h # Payload /\ h.length = "none" /\ h.type = "EXEC"
    BY DEF Header, Payload
  <2>4. ns' = "answer" /\ req' = h /\ UNCHANGED n2c
    BY <1>2, <2>2, <2>3 DEF NSHeader
  <2>5. QED
    BY <2>1, <2>2, <2>3, <2>4 DEF Executing, Worked
<1>3. ASSUME NSAnswer \/ NSAsked \/ NSAskFails PROVE ns' = "none"
  <2>1. req.type = "EXEC"
    BY <1>3 DEF NSAnswer, NSAsked, NSAskFails, Executing, Worked
  <2>2. QED
    BY <1>3, <2>1 DEF NSAnswer, NSAsked, NSAskFails, NSReplies, NSSend
<1>4. ASSUME NSAsk PROVE Executing'
  BY <1>4 DEF NSAsk, Executing, Worked
<1>5. QED
  BY <1>1, <1>2, <1>3, <1>4 DEF NSThread

\* The login is acknowledged, and the thread waits for a header.
LEMMA LoginStep ==
  ASSUME pc # "off", LoggingIn, NSThread \/ NSAsked
  PROVE  LoggingIn'
<1>1. NSRegister
  BY DEF NSThread, NSHeader, NSReceive, NSAnswer, NSAsk, NSAsked, NSAskFails,
       NSReplies, NSHangUp, LoggingIn
<1>2. c2n' = Tail(c2n) /\ c2n = <<Header("REGISTER_CLIENT", "none")>> /\ n2c = <<>>
  BY <1>1 DEF NSRegister, LoggingIn
<1>3. n2c' = n2c \o <<Ack>> /\ ns' = "header"
  BY <1>1 DEF NSRegister, NSSend
<1>4. c2n' = <<>> /\ n2c' = <<Ack>>
  BY <1>2, <1>3, ShortReads, ShortSends
<1>5. QED
  BY <1>3, <1>4 DEF LoggingIn

\* A thread that waits for a header while none is under way does nothing.
LEMMA WaitStep ==
  ASSUME pc # "off", c2n = <<>>, ns = "header", NSThread \/ NSAsked
  PROVE  FALSE
  BY DEF NSThread, NSRegister, NSHeader, NSReceive, NSAnswer, NSAsk, NSAsked, NSAskFails,
       NSReplies, NSHangUp

\* The client and the name server's thread stay in step.
LEMMA InStepStep ==
  ASSUME Short, TypeOK, StepInv, [Next]_vars
  PROVE  StepInv'
<1>0. ASSUME UNCHANGED <<pc, cmd, c2n, n2c, ns, req>> PROVE StepInv'
  BY <1>0 DEF StepInv, LoggingIn, Quiet, Asking, Sent, Worked, Executing
<1>a. ASSUME pc' = "off" \/ ns' = "none" PROVE StepInv'
  BY <1>a DEF StepInv, InLoop
<1>b. ASSUME pc' \in InLoop, Quiet' PROVE StepInv'
  BY <1>b DEF StepInv, InLoop
<1>1. ASSUME LoginReply
      PROVE  StepInv'
  <2>1. CASE ns = "none" \/ pc' = "off"
    BY <1>1, <1>a, <2>1 DEF LoginReply
  <2>2. CASE ns # "none" /\ pc' # "off"
    <3>1. pc' = "prompt" /\ n2c # <<>> /\ n2c' = Tail(n2c) /\ UNCHANGED <<c2n, ns>>
      BY <1>1, <2>2 DEF LoginReply, Quit, Lost
    <3>2. c2n = <<>> /\ n2c = <<Ack>> /\ ns = "header"
      BY <1>1, <2>2, <3>1 DEF LoginReply, StepInv, LoggingIn
    <3>3. n2c' = <<>>
      BY <3>1, <3>2, ShortReads
    <3>4. QED
      BY <1>b, <3>1, <3>2, <3>3 DEF Quiet, InLoop
  <2>3. QED
    BY <2>1, <2>2
<1>2. ASSUME AckRead \/ EmptyRead \/ RefusalRead \/ Announced
      PROVE  StepInv'
  <2>1. /\ pc = "header" /\ n2c # <<>> /\ n2c' = Tail(n2c) /\ UNCHANGED <<cmd, c2n, ns, req>>
        /\ cmd \in Commands
    BY <1>2 DEF AckRead, EmptyRead, RefusalRead, Announced, HeaderRead, TypeOK
  <2>2. CASE ns = "none"
    BY <1>a, <2>1, <2>2
  <2>3. CASE ns # "none"
    <3>1. c2n = <<>> /\ n2c \in Answers(MessageType(cmd)) /\ ns = "header"
      BY <2>1, <2>3 DEF StepInv, Asking, Sent, Worked
    <3>2. CASE \E x : n2c = <<x>> /\ pc' = "prompt"
      <4>1. n2c' = <<>>
        BY <2>1, <3>2, ShortReads
      <4>2. QED
        BY <1>b, <2>1, <3>1, <3>2, <4>1 DEF Quiet, InLoop
    <3>3. CASE \E x : n2c = <<x, Payload>> /\ pc' = "payload"
      <4>1. n2c' = <<Payload>>
        BY <2>1, <3>3, ShortReads
      <4>2. QED
        BY <2>1, <3>1, <3>3, <4>1 DEF StepInv, InLoop
    <3>4. CASE AckRead
      <4>1. n2c \in {<<Ack>>, <<Err>>} /\ pc' = "prompt"
        BY <2>1, <3>1, <3>4, AnswerForms DEF AckRead, HeaderRead
      <4>2. QED
        BY <3>2, <4>1
    <3>5. CASE EmptyRead
      <4> DEFINE h == Header(Response, "fits")
      <4>1. /\ n2c \in {<<Header(Response, "none")>>, <<h, Payload>>} /\ pc' = "prompt"
            /\ Head(n2c).type # Response \/ Head(n2c).length = "none"
        BY <2>1, <3>1, <3>5, AnswerForms DEF EmptyRead, HeaderRead, WithPayload
      <4>2. h.type = Response /\ h.length = "fits"
        BY DEF Header
      <4> HIDE DEF h
      <4>3. n2c # <<h, Payload>>
        BY <4>1, <4>2, ShortReads
      <4>4. QED
        BY <3>2, <4>1, <4>3
    <3>6. CASE RefusalRead
      <4> DEFINE h == Header(Response, "fits")
      <4>1. /\ n2c \in {<<Err>>, <<h, Payload>>} /\ pc' = "prompt"
            /\ Head(n2c).type # Response
        BY <2>1, <3>1, <3>6, AnswerForms DEF RefusalRead, HeaderRead, WithPayload
      <4>2. h.type = Response
        BY DEF Header
      <4> HIDE DEF h
      <4>3. n2c # <<h, Payload>>
        BY <4>1, <4>2, ShortReads
      <4>4. QED
        BY <3>2, <4>1, <4>3
    <3>7. CASE Announced
      <4> DEFINE h == Header(Response, "fits")
                 g == Header(Response, "none")
      <4>1. /\ \/ cmd \in {"LIST"} \cup Views /\ n2c \in {<<g>>, <<h, Payload>>}
               \/ n2c \in {<<Err>>, <<h, Payload>>}
            /\ pc' = "payload"
            /\ Head(n2c).type = Response
            /\ cmd \in {"LIST"} \cup Views => Head(n2c).length # "none"
        BY <2>1, <3>1, <3>7, AnswerForms DEF Announced, HeaderRead, WithPayload
      <4>2. g.length = "none"
        BY DEF Header
      <4>3. Err.type # Response
        BY DEF Response, Err, Header
      <4> HIDE DEF h, g
      <4>4. n2c = <<h, Payload>>
        BY <4>1, <4>2, <4>3, ShortReads
      <4>5. QED
        BY <3>3, <4>1, <4>4
    <3>8. QED
      BY <1>2, <3>4, <3>5, <3>6, <3>7
  <2>4. QED
    BY <2>2, <2>3
<1>3. ASSUME ListingRead \/ AddressRead
      PROVE  StepInv'
  <2>1. /\ pc = "payload" /\ pc' \in {"prompt", "connect"} /\ n2c' = Tail(n2c)
        /\ UNCHANGED <<cmd, c2n, ns, req>>
    BY <1>3 DEF ListingRead, AddressRead, PayloadRead
  <2>2. CASE ns = "none"
    BY <1>a, <2>1, <2>2
  <2>3. CASE ns # "none"
    <3>1. c2n = <<>> /\ n2c = <<Payload>> /\ ns = "header"
      BY <2>1, <2>3 DEF StepInv
    <3>2. n2c' = <<>>
      BY <2>1, <3>1, ShortReads
    <3>3. QED
      BY <1>b, <2>1, <3>1, <3>2 DEF Quiet, InLoop
  <2>4. QED
    BY <2>2, <2>3
<1>4. ASSUME ReadFails
      PROVE  StepInv'
  BY <1>4, <1>a DEF ReadFails, Lost
<1>5. ASSUME handle_exec_command
      PROVE  StepInv'
  <2>1. CASE Lost /\ Connected
    BY <2>1 DEF Connected, StepInv, LoggingIn, InLoop
  <2>2. CASE Lost /\ ~Connected
    BY <1>5, <1>a, <2>2 DEF handle_exec_command, Quit, Lost
  <2>3. CASE ~Lost
    <3>1. n2c # <<>> /\ pc = "exec" /\ UNCHANGED <<pc, ns>>
      BY <1>5, <2>3 DEF handle_exec_command
    <3>2. ns = "none"
      BY <3>1 DEF StepInv, Executing, Worked
    <3>3. QED
      BY <1>a, <3>1, <3>2
  <2>4. QED
    BY <2>1, <2>2, <2>3
<1>6. ASSUME Reported
      PROVE  StepInv'
  <2>1. CASE ReportDead
    <3>1. CASE ns = "none"
      BY <1>a, <2>1, <3>1 DEF ReportDead
    <3>2. CASE ns # "none"
      <4>1. pc = "connect" /\ Quiet
        BY <2>1, <3>2 DEF ReportDead, StepInv, InLoop
      <4> DEFINE h == Header("DEADREPORT", "fits")
      <4>2. Message("DEADREPORT", "fits") = <<h, Payload>>
        BY DEF Message, MessageType, Located
      <4>3. c2n' = c2n \o <<h, Payload>> /\ pc' = "report" /\ UNCHANGED <<n2c, ns>>
        BY <2>1, <3>2, <4>2 DEF ReportDead, SendNS
      <4>4. c2n' = <<h, Payload>>
        BY <4>1, <4>3, ShortSends DEF Quiet
      <4>5. QED
        BY <4>1, <4>3, <4>4 DEF StepInv, Asking, Sent, Quiet, InLoop
    <3>3. QED
      BY <3>1, <3>2
  <2>2. CASE ReportRead
    <3>1. pc = "report" /\ n2c # <<>> /\ n2c' = Tail(n2c) /\ pc' = "prompt" /\ UNCHANGED <<c2n, ns>>
      BY <2>2 DEF ReportRead, Return
    <3>2. CASE ns = "none"
      BY <1>a, <3>1, <3>2
    <3>3. CASE ns # "none"
      <4>1. c2n = <<>> /\ n2c \in Answers("DEADREPORT") /\ ns = "header"
        BY <3>1, <3>3 DEF StepInv, Asking, Sent, Worked
      <4>2. n2c = <<Ack>>
        BY <4>1 DEF Answers, Views
      <4>3. n2c' = <<>>
        BY <3>1, <4>2, ShortReads
      <4>4. QED
        BY <1>b, <3>1, <4>1, <4>3 DEF Quiet, InLoop
    <3>4. QED
      BY <3>2, <3>3
  <2>3. QED
    BY <1>6, <2>1, <2>2 DEF Reported
<1>7. ASSUME SocketStep
      PROVE  StepInv'
  <2>1. UNCHANGED <<c2n, n2c, ns>> /\ pc \in InLoop /\ pc' \in InLoop \cup {"off"}
    BY <1>7, SocketEffects DEF nsVars, InLoop
  <2>2. ns = "none" \/ Quiet
    BY <2>1 DEF StepInv
  <2>3. QED
    BY <1>a, <1>b, <2>1, <2>2 DEF Quiet
<1>8. ASSUME Start \/ Leave
      PROVE  StepInv'
  BY <1>8, <1>a DEF Start, Leave, Quit, Connected, StepInv, LoggingIn, InLoop
<1>9. ASSUME NEW c \in Commands, Command(c)
      PROVE  StepInv'
  <2>1. pc = "prompt" /\ cmd' = c /\ UNCHANGED <<n2c, ns, req>>
    BY <1>9 DEF Command
  <2>2. CASE ns = "none"
    BY <1>a, <2>1, <2>2
  <2>3. CASE ns # "none"
    <3>1. PICK length \in Sizes(c) :
            /\ c2n' = c2n \o Message(c, length)
            /\ pc' = IF c = "EXEC" THEN "exec" ELSE "header"
      BY <1>9, <2>3 DEF Command, SendNS
    <3>2. length \in {"none", "fits"} /\ (c = "EXEC" => length = "none")
      BY LengthsAssumption DEF Sizes, Short, Moves, Views
    <3>3. Quiet
      BY <2>1, <2>3 DEF StepInv, InLoop
    <3> DEFINE g == Header(MessageType(c), "none")
               h == Header(MessageType(c), "fits")
    <3>4. Message(c, length) \in {<<g>>, <<h, Payload>>} /\ (c = "EXEC" => Message(c, length) = <<g>>)
      BY <3>2 DEF Message
    <3>5. c2n' = Message(c, length)
      BY <3>1, <3>3, <3>4, ShortSends DEF Quiet
    <3>6. CASE c = "EXEC"
      <4>1. c2n' = <<Header("EXEC", "none")>> /\ pc' = "exec"
        BY <3>1, <3>4, <3>5, <3>6, RequestTypes DEF TypeOK
      <4>2. QED
        BY <2>1, <3>3, <4>1 DEF StepInv, Executing, Quiet, InLoop
    <3>7. CASE c # "EXEC"
      <4>1. pc' = "header" /\ c2n' \in {<<g>>, <<h, Payload>>}
        BY <3>1, <3>4, <3>5, <3>7
      <4>2. Sent(MessageType(cmd))'
        BY <2>1, <3>3, <4>1 DEF Sent, Quiet
      <4>3. QED
        BY <2>1, <3>7, <4>1, <4>2 DEF StepInv, Asking, InLoop
    <3>8. QED
      BY <3>6, <3>7
  <2>4. QED
    BY <2>2, <2>3
<1>10. ASSUME NSThread \/ NSAsked
       PROVE  StepInv'
  <2>1. UNCHANGED <<pc, cmd>>
    BY <1>10 DEF NSThread, NSRegister, NSHeader, NSReceive, NSAnswer, NSAsk, NSAsked, NSAskFails,
       NSReplies, NSHangUp,
       NSOnly
  <2>2. CASE pc = "off" \/ ns = "none"
    <3>1. ns = "none" => FALSE
      BY <1>10 DEF NSThread, NSRegister, NSHeader, NSReceive, NSAnswer, NSAsk, NSAsked, NSAskFails,
       NSReplies, NSHangUp
    <3>2. QED
      BY <1>a, <2>1, <2>2, <3>1
  <2>3. CASE pc # "off" /\ ns # "none"
    <3>1. CASE pc = "login"
      BY <1>10, <2>1, <2>3, <3>1, LoginStep DEF StepInv, InLoop
    <3>2. CASE pc \in InLoop \cup {"payload"}
      BY <1>10, <2>3, <3>2, WaitStep DEF StepInv, Quiet
    <3>3. CASE pc = "header"
      <4>1. cmd # "EXEC" /\ Asking(MessageType(cmd)) /\ cmd \in Commands
        BY <2>3, <3>3 DEF StepInv, TypeOK
      <4>2. PICK t : t = MessageType(cmd)
        OBVIOUS
      <4>3. t # "payload" /\ t # "EXEC" /\ Asking(t)
        BY <4>1, <4>2, RequestTypes
      <4>4. Asking(t)' \/ ns' = "none"
        BY <1>10, <2>3, <4>3, AskingStep
      <4>5. t = MessageType(cmd')
        BY <2>1, <4>2
      <4>6. QED
        BY <1>a, <2>1, <3>3, <4>1, <4>4, <4>5 DEF StepInv, InLoop
    <3>4. CASE pc = "report"
      BY <1>10, <1>a, <2>1, <2>3, <3>4, AskingStep DEF StepInv, InLoop
    <3>5. CASE pc = "exec"
      BY <1>10, <1>a, <2>1, <2>3, <3>5, ExecStep DEF StepInv, InLoop
    <3>6. QED
      BY <2>3, <3>1, <3>2, <3>3, <3>4, <3>5 DEF TypeOK, InLoop
  <2>4. QED
    BY <2>2, <2>3
<1>11. ASSUME NSDown
       PROVE  StepInv'
  BY <1>11, <1>a DEF NSDown
<1>12. ASSUME NSUp \/ SSThread \/ SSDown \/ SSUp \/ UNCHANGED vars
       PROVE  StepInv'
  BY <1>12, <1>0, ServerEffects DEF NSUp, NSOnly, vars, nsVars
<1>13. QED
  BY <1>1, <1>2, <1>3, <1>4, <1>5, <1>6, <1>7, <1>8, <1>9, <1>10, <1>11, <1>12, ClientForms
     DEF Next, User, SocketStep

\* When no argument is longer than the buffer of its handler, nothing is under way between
\* the client at its prompt and the name server, whatever stops and starts: no command
\* takes the answer of another for its own.
THEOREM AnswersPaired ==
  ASSUME Short
  PROVE  Spec => []InStep
<1>1. Init => TypeOK /\ StepInv
  BY DEF Init, TypeOK, Commands, StepInv
<1>2. TypeOK /\ StepInv /\ [Next]_vars => (TypeOK /\ StepInv)'
  BY TypeStep, InStepStep
<1>3. StepInv => InStep
  BY DEF StepInv, InStep, Quiet, InLoop
<1>4. QED
  BY <1>1, <1>2, <1>3, PTL DEF Spec

-----------------------------------------------------------------------------
(* Lines and replies of a storage server connection *)

\* A reply is received when something is under way, and then no line is.
LEMMA ReplyComes ==
  ASSUME LineInv, sock, NEW buf \in Packets
  PROVE  c2s = <<>> /\ s2c # <<>>
  BY NoPackets DEF LineInv

\* A marker that is alone on the stream.
LEMMA OneMarker ==
  ASSUME NEW m \in Markers
  PROVE  /\ <<>> \o Pieces(m) = Pieces(m) /\ Pieces(m) # <<>>
         /\ Pieces(m)[1] = <<m, 1>> /\ Pieces(m)[2] = <<m, 2>>
         /\ \A n \in Markers : Pieces(n) = Pieces(m) => n = m
<1>1. ASSUME NEW n \in Markers PROVE Pieces(n) = <<<<n, 1>>, <<n, 2>>>>
  BY DEF Pieces
<1>2. <<>> \o Pieces(m) = Pieces(m)
  BY <1>1, ShortSends
<1>3. QED
  BY <1>1, <1>2

\* The marks of a reply by which the client tells success.
LEMMA SuccessMarks ==
  ASSUME NEW m \in Markers
  PROVE  /\ StartsOK(Pieces(m)) => m \notin Errors
         /\ 1 \in Places(Pieces(m), "WRITE_COMPLETED") => m = "WRITE_COMPLETED"
<1>1. Pieces(m)[1] = <<m, 1>> /\ Pieces(m)[2] = <<m, 2>>
  BY OneMarker
<1>2. "WRITE_COMPLETED" \in Markers
  BY DEF Markers
<1>3. Pieces("WRITE_COMPLETED") = <<<<"WRITE_COMPLETED", 1>>, <<"WRITE_COMPLETED", 2>>>>
  BY <1>2 DEF Pieces
<1>4. ASSUME StartsOK(Pieces(m)) PROVE m \notin Errors
  BY <1>1, <1>4 DEF StartsOK, Greetings
<1>5. ASSUME 1 \in Places(Pieces(m), "WRITE_COMPLETED") PROVE m = "WRITE_COMPLETED"
  <2>1. <<Pieces(m)[1], Pieces(m)[2]>> = Pieces("WRITE_COMPLETED")
    BY <1>5 DEF Places
  <2>2. <<m, 1>> = <<"WRITE_COMPLETED", 1>>
    BY <1>1, <1>3, <2>1
  <2>3. QED
    BY <2>2
<1>6. QED
  BY <1>4, <1>5

\* The commands of a storage server are none of those the name server carries out.
LEMMA RemoteCommands ==
  /\ Remote \cap (Proxied \cup Accesses \cup Moves \cup Views \cup {"LIST", "INFO", "EXEC"}) = {}
  /\ OneLine \cup {"WRITE", "STREAM", "VIEWREQUESTS"} \subseteq Remote
  /\ "WRITE" \notin OneLine /\ Remote \subseteq Lines
  /\ Errors \cup {"COMPLETED", "USER_ACCEPTED", "WRITE_COMPLETED", "WRITE_MODE",
                  "CONTENT_INSERTED"} \subseteq Markers
  /\ "COMPLETED" \notin Errors
  BY DEF Remote, Redirected, Located, Proxied, Accesses, Moves, Views, OneLine, Lines, Errors,
     Markers

\* A client that has left the storage server, or not yet reached it.
LEMMA OutsideInv ==
  ASSUME pc' \in {"off", "login", "prompt", "header", "payload", "report", "exec", "connect"},
         sock' = FALSE, c2s' = <<>> \/ \E line \in Lines : c2s' = <<line>>,
         pc' = "connect" => cmd' \in Remote,
         outcome' = "ok" /\ cmd' \in Remote =>
           (done' \/ cmd' = "APPROVEREQUEST") /\ pc' \in {"prompt", "off"} /\ c2s' \in {<<>>, <<"EXIT">>}
  PROVE  SessionInv'
  BY DEF SessionInv, LineInv, PlaceInv, DoneInv, Remote

\* The same for a step that leaves the storage server's side alone.
LEMMA OutsideStep ==
  ASSUME SessionInv, UNCHANGED ssVars, sock' = FALSE,
         pc' \in {"off", "login", "prompt", "header", "payload", "report", "exec", "connect"},
         pc' = "connect" => cmd' \in Remote,
         \/ outcome' # "ok" \/ cmd' \notin Remote
         \/ UNCHANGED <<outcome, cmd>> /\ (pc \in {"prompt", "off"} => pc' \in {"prompt", "off"})
  PROVE  SessionInv'
<1>1. UNCHANGED <<c2s, done>>
  BY DEF ssVars
<1>2. c2s' = <<>> \/ \E line \in Lines : c2s' = <<line>>
  BY <1>1 DEF SessionInv, LineInv
<1>3. outcome' = "ok" /\ cmd' \in Remote =>
        (done' \/ cmd' = "APPROVEREQUEST") /\ pc' \in {"prompt", "off"} /\ c2s' \in {<<>>, <<"EXIT">>}
  BY <1>1 DEF SessionInv, DoneInv, Remote
<1>4. QED
  BY <1>2, <1>3, OutsideInv

\* close, with the line EXIT or without it.
LEMMA FinishStep ==
  ASSUME NEW r, Finish(r), Alone, SessionInv, c2s = <<>> \/ ss = "none",
         r = "ok" => (done \/ cmd = "APPROVEREQUEST") /\ c2s = <<>>
  PROVE  SessionInv'
<1>1. pc' \in {"prompt", "off"} /\ sock' = FALSE /\ outcome' = r /\ UNCHANGED <<cmd, done>>
  BY DEF Finish, Alone
<1>2. c2s' = c2s \/ c2s' = <<"EXIT">>
  BY ShortSends DEF Finish
<1>3. "EXIT" \in Lines
  BY DEF Lines
<1>4. c2s' = <<>> \/ \E line \in Lines : c2s' = <<line>>
  BY <1>2, <1>3 DEF SessionInv, LineInv
<1>5. QED
  BY <1>1, <1>2, <1>4, OutsideInv

\* close without a line.
LEMMA CloseStep ==
  ASSUME NEW r, Close(r), Alone, SessionInv, r # "ok"
  PROVE  SessionInv'
<1>1. /\ pc' = "prompt" /\ sock' = FALSE /\ outcome' = r /\ UNCHANGED <<cmd, done, c2s>>
  BY DEF Close, Return, Alone
<1>2. c2s' = <<>> \/ \E line \in Lines : c2s' = <<line>>
  BY <1>1 DEF SessionInv, LineInv
<1>3. QED
  BY <1>1, <1>2, OutsideInv

\* A line is sent to the storage server when none is under way; or SIGPIPE ends the client.
LEMMA SendForms ==
  ASSUME NEW line \in Lines, NEW label, SendSS(line, label), c2s = <<>>
  PROVE  \/ pc' = "off" /\ sock' = FALSE /\ c2s' = <<>>
         \/ pc' = label /\ UNCHANGED sock /\ c2s' \in {<<>>, <<line>>} /\ (ss = "none" => c2s' = <<>>)
  BY ShortSends DEF SendSS, Quit

\* The client's steps on the socket keep at most one line under way, in its place.
LEMMA SocketSession ==
  ASSUME Whole, TypeOK, SessionInv, SocketStep
  PROVE  SessionInv'
<1> USE DEF SessionInv
<1>0. outcome # "ok" \/ cmd \notin Remote
  BY SocketEffects DEF DoneInv, Remote
<1>1. ASSUME cmd \in Remote, Connect
      PROVE  SessionInv'
  <2>1. /\ pc' = "ack" /\ c2s' = <<"USER">> /\ s2c' = <<>> /\ ss' = "user" /\ sock' = TRUE
        /\ editing' = FALSE /\ UNCHANGED <<cmd, outcome>>
    BY <1>1 DEF Connect, output
  <2>2. "USER" \in Lines /\ cmd' \in Remote
    BY <1>1, <2>1 DEF Lines
  <2>3. QED
    BY <1>0, <2>1, <2>2 DEF LineInv, PlaceInv, DoneInv, Remote
<1>2. ASSUME GiveUp
      PROVE  SessionInv'
  <2>1. sock = FALSE
    BY <1>2 DEF GiveUp, LineInv, TypeOK
  <2>2. /\ UNCHANGED <<cmd, ssVars>> /\ sock' = FALSE /\ pc' = "prompt" /\ outcome' = "lost"
    BY <1>2, <2>1 DEF GiveUp, Return
  <2>3. QED
    BY <2>2, OutsideStep
<1>3. ASSUME cmd \in Remote, Greet \/ \E looks \in BOOLEAN : GreetOrClose(looks)
      PROVE  SessionInv'
  <2>1. Alone /\ pc = "ack" /\ sock
    BY <1>3 DEF Greet, GreetOrClose, LineInv
  <2>2. CASE \E r \in {"error", "lost"} : Close(r)
    BY <2>1, <2>2, CloseStep
  <2>3. ASSUME SendSS(cmd, "recv"), UNCHANGED outcome, s2c' = <<>>, c2s = <<>>, ss # "user"
        PROVE  SessionInv'
    <3>1. cmd \in Lines /\ cmd' \in Remote /\ cmd' = cmd
      BY <1>3, <2>1, RemoteCommands DEF Alone
    <3>2. \/ pc' = "off" /\ sock' = FALSE /\ c2s' = <<>>
          \/ /\ pc' = "recv" /\ UNCHANGED sock /\ c2s' \in {<<>>, <<cmd>>}
             /\ ss = "none" => c2s' = <<>>
      BY <2>3, <3>1, SendForms
    <3>3. ss' = ss /\ editing' = editing /\ ss \in {"none", "command"} /\ ~editing
      BY <2>1, <2>3 DEF Alone, PlaceInv
    <3>4. CASE pc' = "off"
      BY <1>0, <2>3, <3>1, <3>2, <3>4, OutsideInv
    <3>5. CASE pc' = "recv"
      BY <1>0, <2>1, <2>3, <3>1, <3>2, <3>3, <3>5 DEF LineInv, PlaceInv, DoneInv, Remote
    <3>6. QED
      BY <3>2, <3>4, <3>5
  <2>4. ASSUME NEW buf \in Packets, s2c' = Rest(buf), SendSS(cmd, "recv"), UNCHANGED outcome
        PROVE  SessionInv'
    <3>1. c2s = <<>> /\ s2c # <<>>
      BY <2>1, ReplyComes
    <3>2. s2c = Pieces("USER_ACCEPTED") /\ ss # "user" /\ "USER_ACCEPTED" \in Markers
      BY <2>1, <3>1, RemoteCommands DEF PlaceInv
    <3>3. s2c' = <<>>
      BY <2>4, <3>2, WholeMarker
    <3>4. QED
      BY <2>3, <2>4, <3>1, <3>2, <3>3
  <2>5. ASSUME Closed, UNCHANGED <<s2c, outcome>>, SendSS(cmd, "recv")
        PROVE  SessionInv'
    <3>1. s2c' = <<>> /\ c2s = <<>> /\ ss # "user"
      BY <2>1, <2>5 DEF Closed, LineInv
    <3>2. QED
      BY <2>3, <2>5, <3>1
  <2>6. CASE Greet
    BY <2>4, <2>5, <2>6 DEF Greet, output
  <2>7. CASE \E looks \in BOOLEAN : GreetOrClose(looks)
    BY <2>2, <2>4, <2>7 DEF GreetOrClose
  <2>8. QED
    BY <1>3, <2>6, <2>7
\* The replies that are read in a loop.
<1>4. ASSUME NEW buf \in Packets, Keep(buf), Alone, pc \in {"recv", "more"},
             cmd \notin OneLine \cup {"WRITE"}
      PROVE  SessionInv'
  <2>1. sock /\ c2s = <<>>
    BY <1>4, ReplyComes DEF LineInv
  <2>2. UNCHANGED <<pc, sock, c2s, outcome, cmd, ss, editing, done>>
    BY <1>4 DEF Keep, Alone
  <2>3. QED
    BY <1>0, <1>4, <2>1, <2>2 DEF LineInv, PlaceInv, DoneInv, Remote
<1>5. ASSUME NEW buf \in Packets, NEW r, Finish(r), Alone, pc \in {"recv", "more", "reply"},
             r = "ok" => (done \/ cmd = "APPROVEREQUEST")
      PROVE  SessionInv'
  <2>1. c2s = <<>>
    BY <1>5, ReplyComes DEF LineInv
  <2>2. QED
    BY <1>5, <2>1, FinishStep
<1>6. ASSUME Closed, Finish("lost"), Alone
      PROVE  SessionInv'
  BY <1>6, FinishStep DEF Closed
<1>7. ASSUME cmd \in Texts,
             NEW head, NEW end, NEW stops, MarkedReply(head, end, stops)
      PROVE  SessionInv'
  <2>1. Alone /\ pc = "recv" /\ cmd \notin OneLine \cup {"WRITE"}
    BY <1>7 DEF MarkedReply, OneLine, Texts
  <2>2. \/ \E buf \in Packets : Finish("stop") \/ Finish("end") \/ Keep(buf)
        \/ Closed /\ Finish("lost")
    BY <1>7 DEF MarkedReply
  <2>3. QED
    BY <1>4, <1>5, <1>6, <2>1, <2>2
<1>8. ASSUME cmd = "STREAM", StreamReply
      PROVE  SessionInv'
  <2>1. Alone /\ pc = "recv" /\ cmd \notin OneLine \cup {"WRITE"}
    BY <1>8 DEF StreamReply, OneLine
  <2>2. \/ \E buf \in Packets : Finish("stop") \/ Finish("end") \/ Finish("error") \/ Keep(buf)
        \/ Closed /\ Finish("lost")
    BY <1>8 DEF StreamReply
  <2>3. QED
    BY <1>4, <1>5, <1>6, <2>1, <2>2
<1>9. ASSUME cmd = "VIEWREQUESTS", ViewRequestsReply
      PROVE  SessionInv'
  <2>1. Alone /\ pc \in {"recv", "more"} /\ cmd \notin OneLine \cup {"WRITE"}
    BY <1>9 DEF ViewRequestsReply, OneLine
  <2>2. ASSUME NEW buf \in Packets, pc' = "more", UNCHANGED <<sock, c2s, outcome>>
        PROVE  SessionInv'
    <3>1. sock /\ c2s = <<>>
      BY <2>1, ReplyComes DEF LineInv
    <3>2. UNCHANGED <<cmd, ss, editing, done>>
      BY <2>1 DEF Alone
    <3>3. QED
      BY <1>0, <1>9, <2>2, <3>1, <3>2, RemoteCommands DEF LineInv, PlaceInv, DoneInv, Remote
  <2>3. \/ \E buf \in Packets : \/ Finish("end") \/ Finish("error") \/ Keep(buf)
                                \/ pc' = "more" /\ UNCHANGED <<sock, c2s, outcome>>
        \/ Closed /\ Finish("lost")
    BY <1>9 DEF ViewRequestsReply
  <2>4. QED
    BY <1>4, <1>5, <1>6, <2>1, <2>2, <2>3
<1>10. ASSUME cmd \in OneLine, OneReply
       PROVE  SessionInv'
  <2>1. Alone /\ pc = "recv" /\ sock
    BY <1>10 DEF OneReply, LineInv
  <2>2. ASSUME NEW buf \in Packets, Finish(IF StartsOK(buf) THEN "ok" ELSE "error")
        PROVE  SessionInv'
    <3>1. s2c # <<>>
      BY <2>1, <2>2, ReplyComes
    <3>2. PICK m \in Errors \cup {"COMPLETED"} : s2c = Pieces(m) /\ (m = "COMPLETED" => (done \/ cmd = "APPROVEREQUEST"))
      BY <1>10, <2>1, <3>1 DEF DoneInv
    <3>3. m \in Markers
      BY RemoteCommands
    <3>4. buf = Pieces(m)
      BY <2>2, <3>2, <3>3, WholeMarker
    <3>5. StartsOK(buf) => (done \/ cmd = "APPROVEREQUEST")
      BY <3>2, <3>3, <3>4, SuccessMarks
    <3>6. QED
      BY <1>5, <2>1, <2>2, <3>5
  <2>3. QED
    BY <1>6, <1>10, <2>1, <2>2 DEF OneReply
<1>11. ASSUME cmd = "WRITE", WriteReply
       PROVE  SessionInv'
  <2>1. Alone /\ pc \in {"recv", "reply"} /\ sock
    BY <1>11 DEF WriteReply, LineInv
  <2>2. ASSUME NEW buf \in Packets
        PROVE  /\ c2s = <<>>
               /\ \E m \in Markers : buf = Pieces(m) /\ (m = "WRITE_COMPLETED" => done)
               /\ Rest(buf) = <<>>
    <3>1. c2s = <<>> /\ s2c # <<>>
      BY <2>1, <2>2, ReplyComes
    <3>2. PICK m \in Markers : s2c = Pieces(m) /\ (m = "WRITE_COMPLETED" => done)
      BY <1>11, <2>1, <3>1 DEF DoneInv
    <3>3. buf = Pieces(m) /\ Rest(buf) = <<>>
      BY <2>2, <3>2, WholeMarker
    <3>4. QED
      BY <3>1, <3>2, <3>3
  <2>3. ASSUME NEW buf \in Packets, pc' = "type", s2c' = Rest(buf), UNCHANGED <<sock, c2s, outcome>>
        PROVE  SessionInv'
    <3>1. c2s' = <<>> /\ s2c' = <<>> /\ sock'
      BY <2>1, <2>2, <2>3
    <3>2. UNCHANGED <<cmd, ss, editing, done>> /\ ss \in {"none", "command"}
      BY <1>11, <2>1 DEF Alone, DoneInv
    <3>3. QED
      BY <1>0, <1>11, <2>3, <3>1, <3>2, RemoteCommands DEF LineInv, PlaceInv, DoneInv, Remote
  <2>4. ASSUME NEW buf \in Packets, 1 \in Places(buf, "WRITE_COMPLETED"), Finish("ok")
        PROVE  SessionInv'
    <3>1. PICK m \in Markers : buf = Pieces(m) /\ (m = "WRITE_COMPLETED" => done)
      BY <2>2
    <3>2. done
      BY <2>4, <3>1, SuccessMarks
    <3>3. QED
      BY <1>5, <2>1, <2>4, <3>2
  <2>5. CASE \E r \in {"error", "lost"} : Close(r)
    BY <2>1, <2>5, CloseStep
  <2>6. \/ \E r \in {"error", "lost"} : Close(r)
        \/ Closed /\ Finish("lost")
        \/ \E buf \in Packets : 1 \in Places(buf, "WRITE_COMPLETED") /\ Finish("ok")
        \/ \E buf \in Packets : pc' = "type" /\ s2c' = Rest(buf) /\ UNCHANGED <<sock, c2s, outcome>>
    BY <1>11 DEF WriteReply
  <2>7. QED
    BY <1>6, <2>1, <2>3, <2>4, <2>5, <2>6
<1>12. ASSUME TypeLine
       PROVE  SessionInv'
  <2>1. Alone /\ pc = "type" /\ cmd = "WRITE" /\ sock /\ c2s = <<>> /\ s2c = <<>>
    BY <1>12 DEF TypeLine, LineInv, PlaceInv
  <2>2. CASE Finish("quit")
    BY <2>1, <2>2, FinishStep
  <2>3. ASSUME NEW line \in {"edit", "ETIRW"}, SendSS(line, "reply"), UNCHANGED <<s2c, outcome>>
        PROVE  SessionInv'
    <3>1. line \in Lines
      BY <2>3 DEF Lines
    <3>2. \/ pc' = "off" /\ sock' = FALSE /\ c2s' = <<>>
          \/ /\ pc' = "reply" /\ UNCHANGED sock /\ c2s' \in {<<>>, <<line>>}
             /\ ss = "none" => c2s' = <<>>
      BY <2>1, <2>3, <3>1, SendForms
    <3>3. UNCHANGED <<cmd, ss, editing, done>> /\ ss \in {"none", "command"} /\ cmd \in Remote
      BY <2>1, RemoteCommands DEF Alone, DoneInv
    <3>4. CASE pc' = "off"
      BY <1>0, <2>3, <3>2, <3>3, <3>4, OutsideInv
    <3>5. CASE pc' = "reply"
      BY <1>0, <2>1, <2>3, <3>1, <3>2, <3>3, <3>5 DEF LineInv, PlaceInv, DoneInv, Remote
    <3>6. QED
      BY <3>2, <3>4, <3>5
  <2>4. QED
    BY <1>12, <2>2, <2>3 DEF TypeLine
<1>13. QED
  BY <1>1, <1>2, <1>3, <1>7, <1>8, <1>9, <1>10, <1>11, <1>12 DEF SocketStep

\* The storage server's steps: it replies to the line it has read, with one reply where the
\* client reads one.
LEMMA ServerSession ==
  ASSUME Whole, TypeOK, SessionInv, SSThread \/ SSDown \/ SSUp
  PROVE  SessionInv'
<1> USE DEF SessionInv
<1>0. UNCHANGED <<pc, cmd, sock, outcome>>
  BY ServerEffects DEF output
<1>a. ASSUME c2s' = <<>>, ~sock, outcome = "ok" /\ cmd \in Remote => (done' \/ cmd = "APPROVEREQUEST")
      PROVE  SessionInv'
  <2>1. /\ pc' \in {"off", "login", "prompt", "header", "payload", "report", "exec", "connect"}
        /\ sock' = FALSE /\ (pc' = "connect" => cmd' \in Remote)
    BY <1>0, <1>a DEF LineInv, PlaceInv, TypeOK, Remote
  <2>2. outcome' = "ok" /\ cmd' \in Remote => pc' \in {"prompt", "off"}
    BY <1>0 DEF DoneInv, Remote
  <2>3. QED
    BY <1>0, <1>a, <2>1, <2>2, OutsideInv
<1>1. ASSUME SSUser
      PROVE  SessionInv'
  <2>1. PICK line \in Lines : c2s = <<line>>
    BY <1>1 DEF SSUser, LineInv
  <2>2. c2s' = <<>> /\ ss = "user" /\ ss' = "command" /\ UNCHANGED <<editing, done>>
    BY <1>1, <2>1, OneUnread DEF SSUser
  <2>3. CASE ~sock
    BY <1>a, <2>2, <2>3 DEF DoneInv, Remote
  <2>4. CASE sock
    <3>1. pc = "ack"
      BY <2>1, <2>2, <2>4 DEF LineInv, PlaceInv, DoneInv
    <3>2. s2c = <<>>
      BY <2>2, <3>1 DEF PlaceInv
    <3>3. s2c' = Pieces("USER_ACCEPTED")
      BY <1>1, <2>4, <3>2, OneMarker, RemoteCommands DEF SSUser, SSSend
    <3>4. QED
      BY <1>0, <2>2, <2>4, <3>1, <3>3 DEF LineInv, PlaceInv, DoneInv
  <2>5. QED
    BY <2>3, <2>4
<1>2. ASSUME SSCommand
      PROVE  SessionInv'
  <2>1. PICK line \in Lines : c2s = <<line>>
    BY <1>2 DEF SSCommand, LineInv
  <2>2. /\ c2s' = <<>> /\ ss = "command" /\ Head(c2s) = line /\ c2s # <<>>
        /\ ss' \in {"none", "command", "stream"}
    <3>1. c2s' = <<>> /\ ss = "command" /\ Head(c2s) = line /\ c2s # <<>>
      BY <1>2, <2>1, OneUnread, ShortReads DEF SSCommand
    <3>2. ss' \in {ss, "none", "stream"}
      BY <1>2 DEF SSCommand, SSWriteMode, SSRead, SSViewCheckpoint, SSListCheckpoints,
         SSViewRequests, SSStream, SSDo, SSWrite, SSExit, SSReplies, SSServes
    <3>3. QED
      BY <3>1, <3>2
  <2>3. CASE ~sock
    <3>1. ASSUME outcome = "ok", cmd \in Remote PROVE (done' \/ cmd = "APPROVEREQUEST")
      <4>1. line = "EXIT" /\ (done \/ cmd = "APPROVEREQUEST")
        BY <2>1, <3>1 DEF DoneInv, Remote
      <4>2. SSWriteMode(line) \/ SSExit
        BY <1>2, <2>2, <4>1 DEF SSCommand
      <4>3. QED
        BY <4>1, <4>2 DEF SSWriteMode, SSExit
    <3>2. QED
      BY <1>a, <2>2, <2>3, <3>1
  <2>4. CASE sock
    <3>1. s2c = <<>> /\ ((pc = "recv" /\ line = cmd) \/ (pc = "reply" /\ line \in {"edit", "ETIRW"}))
      <4>1. \A x, y : <<x>> = <<y>> => x = y
        OBVIOUS
      <4>2. s2c = <<>> /\ pc \in {"recv", "reply"}
        BY <2>1, <2>2, <2>4 DEF LineInv, PlaceInv
      <4>3. pc = "recv" => c2s = <<cmd>>
        BY <2>2 DEF PlaceInv
      <4>4. pc = "reply" => c2s = <<"edit">> \/ c2s = <<"ETIRW">>
        BY <2>2 DEF PlaceInv
      <4>5. QED
        BY <2>1, <4>1, <4>2, <4>3, <4>4
    <3>2. ASSUME NEW m \in Markers, SSReplies(m) PROVE s2c' = Pieces(m) /\ ss' = "command"
      BY <2>2, <2>4, <3>1, <3>2, OneMarker DEF SSReplies, SSSend
    <3>3. outcome # "ok" \/ cmd \notin Remote
      BY <3>1 DEF DoneInv, Remote
    <3>4. CASE cmd \in OneLine
      <4>1. pc = "recv" /\ line = cmd /\ ~editing
        BY <3>1, <3>4, RemoteCommands DEF PlaceInv, DoneInv
      <4>2. SSDo(cmd)
        BY <1>2, <2>2, <3>4, <4>1 DEF SSCommand, OneLine
      <4>3. /\ \/ SSReplies("COMPLETED") /\ (done' \/ cmd = "APPROVEREQUEST")
               \/ \E m \in Errors : SSReplies(m)
        BY <4>2 DEF SSDo
      <4>4. PICK m \in Errors \cup {"COMPLETED"} :
              SSReplies(m) /\ (m = "COMPLETED" => done' \/ cmd = "APPROVEREQUEST")
        BY <4>3, RemoteCommands
      <4>5. s2c' = Pieces(m) /\ ss' = "command"
        BY <3>2, <4>4, RemoteCommands
      <4>6. UNCHANGED editing
        BY <4>2 DEF SSDo
      <4>7. cmd \in Remote /\ cmd # "WRITE"
        BY <3>4, RemoteCommands
      <4>8. QED
        BY <1>0, <2>2, <2>4, <3>3, <4>1, <4>4, <4>5, <4>6, <4>7 DEF LineInv, PlaceInv, DoneInv, Remote
    <3>5. CASE cmd = "WRITE"
      <4>1. line \in {"WRITE", "edit", "ETIRW"}
        BY <3>1, <3>5
      <4>2. \/ SSWriteMode(line) \/ SSWrite
            \/ SSReplies("ERR_400") /\ UNCHANGED <<editing, done>>
        BY <1>2, <2>2, <4>1 DEF SSCommand
      <4>3. \E m \in Markers : SSReplies(m) /\ (m = "WRITE_COMPLETED" => done')
        BY <4>1, <4>2 DEF SSWriteMode, SSWrite, Markers
      <4>4. PICK m \in Markers : s2c' = Pieces(m) /\ ss' = "command" /\ (m = "WRITE_COMPLETED" => done')
        BY <3>2, <4>3
      <4>5. "WRITE" \notin OneLine /\ "WRITE" \in Remote
        BY RemoteCommands
      <4>6. QED
        BY <1>0, <2>2, <2>4, <3>1, <3>3, <3>5, <4>4, <4>5 DEF LineInv, PlaceInv, DoneInv, Remote
    <3>6. CASE cmd \notin OneLine \cup {"WRITE"}
      <4>1. pc = "recv"
        BY <3>1, <3>6 DEF PlaceInv
      <4>2. QED
        BY <1>0, <2>2, <2>4, <3>3, <3>6, <4>1 DEF LineInv, PlaceInv, DoneInv, Remote
    <3>7. QED
      BY <3>4, <3>5, <3>6
  <2>5. QED
    BY <2>3, <2>4
<1>3. ASSUME SSStreamWord \/ SSStreamCheck
      PROVE  SessionInv'
  <2>1. /\ ss \in {"stream", "pause"} /\ ss' \in {"stream", "pause", "command"}
        /\ UNCHANGED <<editing, done>>
    BY <1>3 DEF SSStreamWord, SSStreamCheck
  <2>2. c2s' \in {c2s, <<>>}
    <3>1. ASSUME c2s # <<>>, c2s' \in Unread PROVE c2s' = <<>>
      BY <3>1, OneUnread DEF LineInv
    <3>2. QED
      BY <1>3, <3>1 DEF SSStreamWord, SSStreamCheck
  <2>3. CASE ~sock
    <3>1. CASE c2s' = <<>>
      BY <1>a, <2>1, <2>3, <3>1 DEF DoneInv, Remote
    <3>2. CASE c2s' = c2s
      BY <1>0, <2>1, <2>3, <3>2 DEF LineInv, PlaceInv, DoneInv
    <3>3. QED
      BY <2>2, <3>1, <3>2
  <2>4. CASE sock
    <3>1. c2s = <<>> /\ c2s' = <<>>
      BY <2>1, <2>2, <2>4 DEF PlaceInv
    <3>2. pc \in {"recv", "more"} /\ (pc = "recv" => cmd \notin OneLine \cup {"WRITE"})
      BY <2>1, <2>4 DEF LineInv, PlaceInv, DoneInv
    <3>3. QED
      BY <1>0, <2>1, <2>4, <3>1, <3>2 DEF LineInv, PlaceInv, DoneInv
  <2>5. QED
    BY <2>3, <2>4
<1>4. ASSUME SSHangUp
      PROVE  SessionInv'
  <2>1. ~sock /\ c2s' = <<>> /\ UNCHANGED done
    BY <1>4 DEF SSHangUp
  <2>2. QED
    BY <1>a, <2>1 DEF DoneInv, Remote
<1>5. ASSUME SSDown
      PROVE  SessionInv'
  <2>1. c2s' = <<>> /\ ss' = "none" /\ editing' = FALSE /\ s2c' \in Cuts(s2c) /\ UNCHANGED done
    BY <1>5 DEF SSDown
  <2>2. s2c = <<>> => s2c' = <<>>
    BY <2>1, NoPackets
  <2>3. \A m \in Markers : s2c = Pieces(m) => s2c' \in {<<>>, s2c}
    BY <2>1, WholeMarker
  <2>4. Errors \cup {"COMPLETED", "USER_ACCEPTED"} \subseteq Markers
    BY RemoteCommands
  <2>5. LineInv' /\ PlaceInv'
    BY <1>0, <2>1, <2>2, <2>3, <2>4 DEF LineInv, PlaceInv
  <2>6. DoneInv'
    <3>1. pc = "recv" /\ cmd \in OneLine =>
            s2c' = <<>> \/ \E m \in Errors \cup {"COMPLETED"} :
                             s2c' = Pieces(m) /\ (m = "COMPLETED" => (done \/ cmd = "APPROVEREQUEST"))
      BY <2>2, <2>3, <2>4 DEF DoneInv
    <3>2. pc \in {"recv", "type", "reply"} /\ cmd = "WRITE" =>
            s2c' = <<>> \/ \E m \in Markers : s2c' = Pieces(m) /\ (m = "WRITE_COMPLETED" => done)
      BY <2>2, <2>3 DEF DoneInv
    <3>3. QED
      BY <1>0, <2>1, <3>1, <3>2 DEF DoneInv
  <2>7. QED
    BY <2>5, <2>6
<1>6. ASSUME SSUp
      PROVE  SessionInv'
  BY <1>6 DEF SSUp, output, LineInv, PlaceInv, DoneInv
<1>7. QED
  BY <1>1, <1>2, <1>3, <1>4, <1>5, <1>6 DEF SSThread

\* Every step keeps lines and replies in order.
LEMMA SessionStep ==
  ASSUME Whole, TypeOK, SessionInv, [Next]_vars
  PROVE  SessionInv'
<1>0. /\ sock = FALSE \/ pc \in {"ack", "recv", "more", "type", "reply"}
      /\ outcome = "ok" /\ cmd \in Remote => pc \in {"prompt", "off"}
  BY DEF SessionInv, LineInv, DoneInv, TypeOK, Remote
<1>1. ASSUME LoginReply
      PROVE  SessionInv'
  BY <1>0, <1>1, OutsideStep DEF LoginReply, Quit, output
<1>2. ASSUME AckRead \/ EmptyRead \/ RefusalRead \/ ListingRead
      PROVE  SessionInv'
  <2>1. pc \in {"header", "payload"} /\ pc' = "prompt" /\ UNCHANGED <<cmd, sock, ssVars>>
    BY <1>2 DEF AckRead, EmptyRead, RefusalRead, ListingRead, HeaderRead, PayloadRead
  <2>2. outcome' # "ok" \/ cmd' \notin Remote
    BY <1>2, <2>1, RemoteCommands DEF AckRead, EmptyRead, RefusalRead, ListingRead
  <2>3. QED
    BY <1>0, <2>1, <2>2, OutsideStep
<1>3. ASSUME Announced \/ AddressRead
      PROVE  SessionInv'
  <2>1. /\ pc \in {"header", "payload"} /\ pc' \in {"payload", "connect"}
        /\ UNCHANGED <<cmd, sock, ssVars, outcome>> /\ (pc' = "connect" => cmd \in Remote)
    BY <1>3 DEF Announced, AddressRead, HeaderRead, PayloadRead
  <2>2. QED
    BY <1>0, <2>1, OutsideStep
<1>4. ASSUME ReadFails
      PROVE  SessionInv'
  BY <1>0, <1>4, OutsideStep DEF ReadFails, Return
<1>5. ASSUME handle_exec_command
      PROVE  SessionInv'
  <2>1. /\ pc = "exec" /\ cmd' = "EXEC" /\ UNCHANGED ssVars /\ pc' \in {"exec", "login", "off"}
        /\ sock' \in {sock, FALSE}
    BY <1>5 DEF handle_exec_command, Connected, Quit
  <2>2. cmd' \notin Remote
    BY <2>1, RemoteCommands
  <2>3. QED
    BY <1>0, <2>1, <2>2, OutsideStep
<1>6. ASSUME Reported
      PROVE  SessionInv'
  <2>1. /\ pc \in {"connect", "report"} /\ pc' \in {"report", "prompt", "off"}
        /\ UNCHANGED <<cmd, ssVars>> /\ sock' \in {sock, FALSE} /\ outcome' \in {outcome, "lost"}
    BY <1>6 DEF Reported, ReportDead, ReportRead, SendNS, Quit, Return, output
  <2>2. QED
    BY <1>0, <2>1, OutsideStep
<1>7. ASSUME SocketStep
      PROVE  SessionInv'
  BY <1>7, SocketSession
<1>8. ASSUME Start
      PROVE  SessionInv'
  BY <1>0, <1>8, OutsideStep DEF Start, Connected
<1>9. ASSUME Leave
      PROVE  SessionInv'
  BY <1>9, OutsideStep DEF Leave, Quit, output
<1>10. ASSUME NEW c \in Commands, Command(c)
       PROVE  SessionInv'
  <2>1. /\ pc = "prompt" /\ pc' \in {"exec", "header", "off"} /\ sock' \in {sock, FALSE}
        /\ UNCHANGED c2s /\ outcome' = "none"
    BY <1>10 DEF Command, SendNS, Quit
  <2>2. c2s' = <<>> \/ \E line \in Lines : c2s' = <<line>>
    BY <2>1 DEF SessionInv, LineInv
  <2>3. QED
    BY <1>0, <2>1, <2>2, OutsideInv
<1>11. ASSUME NSThread \/ NSAsked \/ NSDown \/ NSUp \/ UNCHANGED vars
       PROVE  SessionInv'
  <2>1. UNCHANGED <<pc, cmd, sock, ssVars, output>>
    BY <1>11 DEF NSThread, NSDown, NSUp, NSRegister, NSHeader, NSReceive, NSAnswer, NSAsk,
       NSAsked, NSAskFails, NSReplies, NSHangUp, NSOnly, vars
  <2>2. QED
    BY <2>1 DEF ssVars, output, SessionInv, LineInv, PlaceInv, DoneInv
<1>12. ASSUME SSThread \/ SSDown \/ SSUp
       PROVE  SessionInv'
  BY <1>12, ServerSession
<1>13. QED
  BY <1>1, <1>2, <1>3, <1>4, <1>5, <1>6, <1>7, <1>8, <1>9, <1>10, <1>11, <1>12, ClientForms
     DEF Next, User, SocketStep

\* The invariant holds in every state when no recv ends inside a marker.
LEMMA Sessions ==
  ASSUME Whole
  PROVE  Spec => [](TypeOK /\ SessionInv)
<1>1. Init => TypeOK /\ SessionInv
  BY DEF Init, TypeOK, Commands, SessionInv, LineInv, PlaceInv, DoneInv
<1>2. TypeOK /\ SessionInv /\ [Next]_vars => (TypeOK /\ SessionInv)'
  BY TypeStep, SessionStep
<1>3. QED
  BY <1>1, <1>2, PTL DEF Spec

\* For any documents, no line a client sends is lost behind another one in the buffer of
\* client_handler_thread, when no recv ends inside a marker.
THEOREM LinesSeparate ==
  ASSUME Whole
  PROVE  Spec => []NoLineDiscarded
<1>1. SessionInv => NoLineDiscarded
  <2>1. Len(<<>>) <= 1 /\ \A x : Len(<<x>>) <= 1
    OBVIOUS
  <2>2. SessionInv => c2s = <<>> \/ \E line : c2s = <<line>>
    BY DEF SessionInv, LineInv
  <2>3. QED
    BY <2>1, <2>2 DEF NoLineDiscarded
<1>2. QED
  BY <1>1, Sessions, PTL

\* For any documents, the client reports success only for what the storage server has
\* done since the command was typed, wherever either side or the name server stops, when
\* no recv ends inside a marker.  (An approval is reported whether or not it is granted.)
THEOREM SuccessTrue ==
  ASSUME Whole
  PROVE  Spec => []SuccessMeansDone
<1>1. SessionInv => SuccessMeansDone
  BY DEF SessionInv, DoneInv, SuccessMeansDone
<1>2. QED
  BY <1>1, Sessions, PTL

-----------------------------------------------------------------------------
(* Texts that are printed: the inductive invariant *)

\* No document holds the text of a marker that ends one.
Unmarked ==
  \A d \in Docs : \A i \in DOMAIN d : d[i] \notin {"END_OF_FILE", "END_OF_CHECKPOINT", "END_OF_LIST"}

Bytes == (STRING \cup Markers) \X {0, 1, 2}

\* s is the beginning of t.
Begins(s, t) == Len(s) <= Len(t) /\ \A i \in 1 .. Len(s) : s[i] = t[i]

\* The commands that print what they receive, piece by piece.
Printing == Texts \cup {"STREAM"}

ByteInv ==
  /\ s2c \in Seq(Bytes) /\ served \in Seq(Bytes) /\ todo \in Seq(STRING)
  /\ cmd \in Printing => shown \in Seq(Bytes)

\* Nothing is printed before the storage server answers, and after the command no line that
\* would be answered by another text is under way.
FreshInv ==
  cmd \in Printing =>
    /\ pc \notin {"recv", "prompt", "off"} => shown = <<>> /\ first
    /\ shown # <<>> \/ outcome = "end" =>
         pc \in {"recv", "prompt", "off"} /\ c2s \in {<<>>, <<"EXIT">>}
    /\ outcome = "end" => pc # "recv"
    /\ pc = "recv" => ~editing

\* The answer is to come; it is one marker; a marker was printed for want of a text; a text
\* is under way from its first marker on; a text is printed in part.
Unanswered == shown = <<>> /\ first /\ s2c = <<>>
Refused(ms) == shown = <<>> /\ first /\ c2s = <<>> /\ \E m \in ms : s2c = Pieces(m)
Stuck == ~first /\ c2s = <<>> /\ s2c = <<>>
IsText == \E d \in Docs : served = Text(d)
Opened ==
  /\ shown = <<>> /\ first /\ c2s = <<>> /\ IsText
  /\ Begins(s2c, Pieces(HeadOf(cmd)) \o (served \o Pieces(EndOf(cmd))))
Printed ==
  /\ ~first /\ c2s = <<>> /\ IsText
  /\ Begins(shown \o s2c, served \o Pieces(EndOf(cmd)))
  /\ Len(shown) <= Len(served)

ReadInv ==
  cmd \in Texts =>
    /\ outcome = "end" /\ Unmarked => shown = served
    /\ pc = "recv" =>
         /\ ss \in {"none", "command"}
         /\ \/ Unanswered \/ Refused({"ERR_404", "EMPTY_FILE", "EMPTY_CHECKPOINT"})
            \/ Stuck \/ Opened \/ Printed

\* The words of a STREAM: some are sent; or all, and the end, or the thread has stopped.
Opening == Pieces("STREAM_START")
Streaming ==
  /\ c2s = <<>> /\ ss \in {"stream", "pause"}
  /\ \E d \in Docs : \E i \in 0 .. Len(d) :
       /\ served = Text(d) /\ todo = SubSeq(d, i + 1, Len(d))
       /\ shown \o s2c = Opening \o Text(SubSeq(d, 1, i))
Streamed ==
  /\ c2s = <<>> /\ ss \in {"none", "command"}
  /\ Begins(shown \o s2c, (Opening \o served) \o Pieces("STREAM_COMPLETE"))

StreamInv ==
  cmd = "STREAM" =>
    /\ Begins(shown, Opening \o served)
    /\ pc = "recv" =>
         \/ ss \in {"none", "command"} /\ (Unanswered \/ Refused({"ERR_404", "EMPTY_FILE_STREAM"}))
         \/ Streaming \/ Streamed

TextInv == ByteInv /\ FreshInv /\ ReadInv /\ StreamInv

-----------------------------------------------------------------------------
(* The text of a document, word by word *)

\* Induction over the naturals, for a set in place of a predicate.
LEMMA Induction ==
  ASSUME NEW S, 0 \in S, \A n \in Nat : n \in S => n + 1 \in S
  PROVE  Nat \subseteq S
<1> DEFINE R == OpToRel(<, Nat)
           T == Nat \ S
<1>1. \A x, y \in Nat : y < x => <<y, x>> \in R
  BY Zenon DEF OpToRel
<1>2. IsWellFoundedOn(R, Nat)
  BY Zenon, NatLessThanWellFounded
<1> HIDE DEF R
<1>3. SUFFICES ASSUME T # {} PROVE FALSE
  OBVIOUS
<1>4. T \subseteq Nat
  OBVIOUS
<1>5. PICK x \in T : \A y \in T : ~(<<y, x>> \in R)
  BY <1>2, <1>3, <1>4, WFMin
<1>6. x \in Nat /\ x # 0 /\ x - 1 \in Nat /\ x - 1 < x /\ (x - 1) + 1 = x
  BY <1>4, <1>5
<1>7. x - 1 \in T
  BY <1>5, <1>6
<1>8. QED
  BY <1>1, <1>5, <1>6, <1>7

\* The pieces of a word.
LEMMA PieceSeqs ==
  ASSUME NEW w, w \in STRING \/ w \in Markers
  PROVE  /\ Pieces(w) \in Seq(Bytes)
         /\ \A i \in 1 .. Len(Pieces(w)) : Pieces(w)[i][1] = w
         /\ Pieces(w) # <<>>
<1>1. <<w, 0>> \in Bytes /\ <<w, 1>> \in Bytes /\ <<w, 2>> \in Bytes
  BY DEF Bytes
<1>2. ASSUME NEW a \in Bytes, NEW b \in Bytes
      PROVE  /\ <<a, b>> \in Seq(Bytes) /\ Len(<<a, b>>) = 2 /\ <<a, b>>[1] = a /\ <<a, b>>[2] = b
             /\ <<a>> \in Seq(Bytes) /\ Len(<<a>>) = 1 /\ <<a>>[1] = a
  BY <1>2
<1>3. 1 .. 1 = {1} /\ 1 .. 2 = {1, 2}
  OBVIOUS
<1>4. <<w, 0>>[1] = w /\ <<w, 1>>[1] = w /\ <<w, 2>>[1] = w
  OBVIOUS
<1>5. ASSUME NEW a \in Bytes, NEW b \in Bytes, a[1] = w, b[1] = w,
             Pieces(w) = <<a, b>> \/ Pieces(w) = <<a>>
      PROVE  /\ Pieces(w) \in Seq(Bytes) /\ Len(Pieces(w)) \in {1, 2}
             /\ \A i \in 1 .. Len(Pieces(w)) : Pieces(w)[i][1] = w
  <2>1. CASE Pieces(w) = <<a, b>>
    <3>1. Pieces(w) \in Seq(Bytes) /\ Len(Pieces(w)) = 2 /\ Pieces(w)[1] = a /\ Pieces(w)[2] = b
      BY <1>2, <1>5, <2>1
    <3>2. QED
      BY <1>3, <1>5, <3>1
  <2>2. CASE Pieces(w) = <<a>>
    <3>1. Pieces(w) \in Seq(Bytes) /\ Len(Pieces(w)) = 1 /\ Pieces(w)[1] = a
      BY <1>2, <1>5, <2>2
    <3>2. QED
      BY <1>3, <1>5, <3>1
  <2>3. QED
    BY <1>5, <2>1, <2>2
<1>6. \/ Pieces(w) = <<<<w, 1>>, <<w, 2>>>>
      \/ Pieces(w) = <<<<w, 0>>>>
  BY DEF Pieces
<1>7. /\ Pieces(w) \in Seq(Bytes) /\ Len(Pieces(w)) \in {1, 2}
      /\ \A i \in 1 .. Len(Pieces(w)) : Pieces(w)[i][1] = w
  <2>1. PICK a, b, c : a = <<w, 1>> /\ b = <<w, 2>> /\ c = <<w, 0>>
    OBVIOUS
  <2>2. a \in Bytes /\ b \in Bytes /\ c \in Bytes /\ a[1] = w /\ b[1] = w /\ c[1] = w
    BY <1>1, <1>4, <2>1
  <2>3. Pieces(w) = <<a, b>> \/ Pieces(w) = <<c>>
    BY <1>6, <2>1
  <2>4. QED
    BY <1>5, <2>2, <2>3
<1>8. Pieces(w) # <<>>
  <2>1. \A x, y : <<x>> # <<>> /\ <<x, y>> # <<>>
    BY ShortReads
  <2>2. QED
    BY <1>6, <2>1, Zenon
<1>9. QED
  BY <1>7, <1>8

\* A loop that joins the first n of some pieces.
Joins(s, n, g) == g = [i \in 1 .. n |-> IF i = 1 THEN s[i] ELSE g[i - 1] \o s[i]]

\* There is one for any number of pieces: it grows with them.
LEMMA JoinExists ==
  ASSUME NEW s, NEW n \in Nat
  PROVE  \E g : Joins(s, n, g)
<1> DEFINE S == {k \in Nat : \E g : Joins(s, k, g)}
<1>1. 0 \in S
  <2>1. Joins(s, 0, [i \in 1 .. 0 |-> s[i]])
    BY DEF Joins
  <2>2. QED
    BY <2>1
<1>2. ASSUME NEW k \in Nat, k \in S PROVE k + 1 \in S
  <2>1. PICK g : Joins(s, k, g)
    BY <1>2
  <2> DEFINE h == [i \in 1 .. k + 1 |-> IF i <= k THEN g[i]
                                        ELSE IF i = 1 THEN s[i] ELSE g[k] \o s[i]]
  <2>2. \A i \in 1 .. k : h[i] = g[i]
    OBVIOUS
  <2>3. \A i \in 1 .. k : g[i] = IF i = 1 THEN s[i] ELSE g[i - 1] \o s[i]
    BY <2>1 DEF Joins
  <2>4. h[k + 1] = IF k + 1 = 1 THEN s[k + 1] ELSE g[k] \o s[k + 1]
    OBVIOUS
  <2>5. h = [i \in 1 .. k + 1 |-> h[i]]
    OBVIOUS
  <2> HIDE DEF h
  <2>6. ASSUME NEW i \in 1 .. k + 1 PROVE h[i] = IF i = 1 THEN s[i] ELSE h[i - 1] \o s[i]
    <3>1. CASE i = k + 1
      <4>1. i # 1 => k \in 1 .. k /\ i - 1 = k
        BY <3>1
      <4>2. QED
        BY <2>2, <2>4, <3>1, <4>1
    <3>2. CASE i # k + 1
      <4>1. i \in 1 .. k /\ (i # 1 => i - 1 \in 1 .. k)
        BY <3>2
      <4>2. QED
        BY <2>2, <2>3, <4>1
    <3>3. QED
      BY <3>1, <3>2
  <2>7. Joins(s, k + 1, h)
    BY <2>5, <2>6 DEF Joins
  <2>8. QED
    BY <2>7
<1> HIDE DEF S
<1>3. Nat \subseteq S
  BY <1>1, <1>2, Induction
<1>4. QED
  BY <1>3 DEF S

\* Two loops agree as far as their pieces do.
LEMMA JoinUnique ==
  ASSUME NEW s, NEW t, NEW m \in Nat, NEW n \in Nat, m <= n, NEW g, NEW h,
         Joins(s, m, g), Joins(t, n, h), \A i \in 1 .. m : s[i] = t[i]
  PROVE  \A i \in 1 .. m : g[i] = h[i]
<1> DEFINE S == {k \in Nat : k \in 1 .. m => g[k] = h[k]}
<1>1. \A i \in 1 .. m : g[i] = IF i = 1 THEN s[i] ELSE g[i - 1] \o s[i]
  BY DEF Joins
<1>2. \A i \in 1 .. n : h[i] = IF i = 1 THEN t[i] ELSE h[i - 1] \o t[i]
  BY DEF Joins
<1>3. 0 \in S
  OBVIOUS
<1>4. ASSUME NEW k \in Nat, k \in S PROVE k + 1 \in S
  <2>1. SUFFICES ASSUME k + 1 \in 1 .. m PROVE g[k + 1] = h[k + 1]
    OBVIOUS
  <2>2. k + 1 \in 1 .. n /\ (k + 1) - 1 = k /\ (k + 1 # 1 => k \in 1 .. m)
    BY <2>1
  <2>3. QED
    BY <1>1, <1>2, <1>4, <2>1, <2>2
<1> HIDE DEF S
<1>5. Nat \subseteq S
  BY <1>3, <1>4, Induction
<1>6. QED
  BY <1>5 DEF S

\* FlattenSeq is that loop.
LEMMA TextLoop ==
  ASSUME NEW d \in Seq(STRING), d # <<>>
  PROVE  \E g : Joins([i \in 1 .. Len(d) |-> Pieces(d[i])], Len(d), g) /\ Text(d) = g[Len(d)]
<1> DEFINE s == [i \in 1 .. Len(d) |-> Pieces(d[i])]
           n == Len(d)
<1>1. n \in Nat /\ n # 0 /\ DOMAIN d = 1 .. n
  BY EmptySeq, LenProperties
<1>2. Len(s) = n
  BY <1>1
<1>3. Text(d) = FlattenSeq(s)
  BY <1>1 DEF Text
<1> HIDE DEF s, n
<1> DEFINE f == CHOOSE f : f = [i \in 1 .. Len(s) |-> IF i = 1 THEN s[i] ELSE f[i - 1] \o s[i]]
<1>4. Text(d) = f[n]
  BY <1>1, <1>2, <1>3, Zenon DEF FlattenSeq
<1>5. \E g : g = [i \in 1 .. Len(s) |-> IF i = 1 THEN s[i] ELSE g[i - 1] \o s[i]]
  BY <1>1, <1>2, JoinExists DEF Joins
<1>6. f = [i \in 1 .. Len(s) |-> IF i = 1 THEN s[i] ELSE f[i - 1] \o s[i]]
  BY <1>5, Zenon
<1> HIDE DEF f
<1>7. Joins(s, n, f)
  BY <1>2, <1>6 DEF Joins
<1>8. QED
  BY <1>4, <1>7 DEF s, n

\* The text of one more word.
LEMMA TextGrows ==
  ASSUME NEW d \in Seq(STRING)
  PROVE  /\ Text(SubSeq(d, 1, 0)) = <<>>
         /\ \A n \in 0 .. Len(d) - 1 :
              Text(SubSeq(d, 1, n + 1)) = Text(SubSeq(d, 1, n)) \o Pieces(d[n + 1])
         /\ Text(SubSeq(d, 1, Len(d))) = Text(d)
<1>0. Len(d) \in Nat /\ \A i \in 1 .. Len(d) : d[i] \in STRING
  BY LenProperties, ElementOfSeq
<1>1. Text(<<>>) = <<>>
  <2>1. [i \in DOMAIN <<>> |-> Pieces(<<>>[i])] = <<>>
    OBVIOUS
  <2>2. FlattenSeq(<<>>) = <<>>
    BY DEF FlattenSeq
  <2>3. QED
    BY <2>1, <2>2 DEF Text
<1>2. SubSeq(d, 1, 0) = <<>>
  BY SubSeqEmpty
<1>3. ASSUME NEW n \in 0 .. Len(d) - 1
      PROVE  Text(SubSeq(d, 1, n + 1)) = Text(SubSeq(d, 1, n)) \o Pieces(d[n + 1])
  <2> DEFINE e == SubSeq(d, 1, n + 1)
             c == SubSeq(d, 1, n)
  <2>1. /\ e \in Seq(STRING) /\ Len(e) = n + 1 /\ \A i \in 1 .. n + 1 : e[i] = d[i]
        /\ c \in Seq(STRING) /\ Len(c) = n /\ \A i \in 1 .. n : c[i] = d[i]
    BY <1>0, <1>3, SubSeqProperties
  <2>2. e # <<>> /\ n \in Nat
    BY <1>0, <1>3, <2>1, EmptySeq
  <2> HIDE DEF e, c
  <2>a. PICK s : s = [i \in 1 .. Len(e) |-> Pieces(e[i])]
    OBVIOUS
  <2>b. PICK t : t = [i \in 1 .. Len(c) |-> Pieces(c[i])]
    OBVIOUS
  <2>3. PICK h : Joins(s, Len(e), h) /\ Text(e) = h[Len(e)]
    BY <2>1, <2>2, <2>a, TextLoop
  <2>4. s[n + 1] = Pieces(d[n + 1]) /\ \A i \in 1 .. n : t[i] = s[i]
    BY <2>1, <2>2, <2>a, <2>b
  <2>5. h[n + 1] = IF n + 1 = 1 THEN s[n + 1] ELSE h[n] \o s[n + 1]
    <3>1. \A i \in 1 .. n + 1 : h[i] = IF i = 1 THEN s[i] ELSE h[i - 1] \o s[i]
      BY <2>1, <2>3 DEF Joins
    <3>2. n + 1 \in 1 .. n + 1 /\ (n + 1) - 1 = n
      BY <2>2
    <3>3. QED
      BY <3>1, <3>2
  <2>6. CASE n = 0
    <3>1. c = <<>>
      BY <1>2, <2>6 DEF c
    <3>2. Text(e) = Pieces(d[n + 1]) /\ d[n + 1] \in STRING
      BY <1>0, <1>3, <2>1, <2>3, <2>4, <2>5, <2>6
    <3>3. <<>> \o Pieces(d[n + 1]) = Pieces(d[n + 1])
      BY <3>2, PieceSeqs, ConcatEmptySeq
    <3>4. QED
      BY <1>1, <3>1, <3>2, <3>3 DEF e, c
  <2>7. CASE n # 0
    <3>1. c # <<>>
      BY <2>1, <2>7, EmptySeq
    <3>2. PICK g : Joins(t, Len(c), g) /\ Text(c) = g[Len(c)]
      BY <2>1, <2>b, <3>1, TextLoop
    <3>3. n \in 1 .. n /\ n <= n + 1
      BY <2>2, <2>7
    <3>4. Joins(t, n, g) /\ Joins(s, n + 1, h) /\ n + 1 \in Nat
      BY <2>1, <2>2, <2>3, <3>2
    <3>5. \A i \in 1 .. n : g[i] = h[i]
      <4>1. \A i \in 1 .. n : t[i] = s[i]
        BY <2>4
      <4>2. QED
        BY <2>2, <3>3, <3>4, <4>1, JoinUnique
    <3>6. g[n] = h[n] /\ n + 1 # 1
      BY <2>2, <2>7, <3>3, <3>5
    <3>7. Text(e) = h[n] \o Pieces(d[n + 1]) /\ Text(c) = h[n]
      BY <2>1, <2>3, <2>4, <2>5, <3>2, <3>6
    <3>8. QED
      BY <3>7 DEF e, c
  <2>8. QED
    BY <2>6, <2>7
<1>4. SubSeq(d, 1, Len(d)) = d
  BY SubSeqFull
<1>5. QED
  BY <1>1, <1>2, <1>3, <1>4

\* The beginnings of a concatenation.
LEMMA BeginsConcat ==
  ASSUME NEW s \in Seq(Bytes), NEW t \in Seq(Bytes), NEW u \in Seq(Bytes)
  PROVE  /\ Begins(s, s \o t)
         /\ Begins(t, u) => Begins(s \o t, s \o u)
         /\ Begins(s, t) /\ Begins(t, u) => Begins(s, u)
<1>1. Len(s) \in Nat /\ Len(t) \in Nat /\ Len(u) \in Nat
  BY LenProperties
<1>2. /\ Len(s \o t) = Len(s) + Len(t)
      /\ \A i \in 1 .. Len(s) + Len(t) : (s \o t)[i] = IF i <= Len(s) THEN s[i] ELSE t[i - Len(s)]
  BY ConcatProperties
<1>3. /\ Len(s \o u) = Len(s) + Len(u)
      /\ \A i \in 1 .. Len(s) + Len(u) : (s \o u)[i] = IF i <= Len(s) THEN s[i] ELSE u[i - Len(s)]
  BY ConcatProperties
<1>4. Begins(s, s \o t)
  BY <1>1, <1>2 DEF Begins
<1>5. ASSUME Begins(t, u) PROVE Begins(s \o t, s \o u)
  <2>1. Len(s \o t) <= Len(s \o u)
    BY <1>1, <1>2, <1>3, <1>5 DEF Begins
  <2>2. ASSUME NEW i \in 1 .. Len(s) + Len(t) PROVE (s \o t)[i] = (s \o u)[i]
    <3>1. i \in 1 .. Len(s) + Len(u)
      BY <1>1, <1>5, <2>2 DEF Begins
    <3>2. i > Len(s) => i - Len(s) \in 1 .. Len(t)
      BY <1>1, <2>2
    <3>3. QED
      BY <1>1, <1>2, <1>3, <1>5, <2>2, <3>1, <3>2 DEF Begins
  <2>3. QED
    BY <1>2, <2>1, <2>2 DEF Begins
<1>6. ASSUME Begins(s, t), Begins(t, u) PROVE Begins(s, u)
  BY <1>1, <1>6 DEF Begins
<1>7. QED
  BY <1>4, <1>5, <1>6

\* What a recv, or the end of the sender, leaves is a beginning, and the rest follows it.
LEMMA CutParts ==
  ASSUME NEW s \in Seq(Bytes), NEW n \in 0 .. Len(s)
  PROVE  /\ SubSeq(s, 1, n) \in Seq(Bytes) /\ Len(SubSeq(s, 1, n)) = n
         /\ \A i \in 1 .. n : SubSeq(s, 1, n)[i] = s[i]
         /\ Begins(SubSeq(s, 1, n), s)
         /\ SubSeq(s, n + 1, Len(s)) \in Seq(Bytes)
         /\ SubSeq(s, 1, n) \o SubSeq(s, n + 1, Len(s)) = s
<1>1. Len(s) \in Nat /\ \A i \in 1 .. Len(s) : s[i] \in Bytes
  BY LenProperties, ElementOfSeq
<1>2. /\ SubSeq(s, 1, n) \in Seq(Bytes) /\ Len(SubSeq(s, 1, n)) = n
      /\ \A i \in 1 .. n : SubSeq(s, 1, n)[i] = s[i]
  BY <1>1, SubSeqProperties
<1>3. Begins(SubSeq(s, 1, n), s)
  BY <1>1, <1>2 DEF Begins
<1>4. SubSeq(s, n + 1, Len(s)) \in Seq(Bytes)
  <2>1. n + 1 \in Int /\ Len(s) \in Int /\ \A i \in n + 1 .. Len(s) : s[i] \in Bytes
    BY <1>1
  <2>2. QED
    BY <2>1, SubSeqProperties
<1>5. SubSeq(s, 1, n) \o SubSeq(s, n + 1, Len(s)) = SubSeq(s, 1, Len(s))
  <2>1. 1 \in 1 .. Len(s) + 1 /\ n \in 1 - 1 .. Len(s) /\ Len(s) \in n .. Len(s)
    BY <1>1
  <2>2. QED
    BY <2>1, ConcatAdjacentSubSeq
<1>6. SubSeq(s, 1, Len(s)) = s
  BY SubSeqFull
<1>7. QED
  BY <1>2, <1>3, <1>4, <1>5, <1>6

\* The text of a document's first words: its bytes, their words, and what follows.
LEMMA TextParts ==
  ASSUME NEW d \in Seq(STRING), NEW n \in 0 .. Len(d)
  PROVE  /\ Text(SubSeq(d, 1, n)) \in Seq(Bytes)
         /\ \A j \in 1 .. Len(Text(SubSeq(d, 1, n))) :
              \E k \in 1 .. Len(d) : Text(SubSeq(d, 1, n))[j][1] = d[k]
<1> DEFINE T(m) == Text(SubSeq(d, 1, m))
           Good(m) == /\ T(m) \in Seq(Bytes)
                      /\ \A j \in 1 .. Len(T(m)) : \E k \in 1 .. Len(d) : T(m)[j][1] = d[k]
           S == {m \in Nat : m <= Len(d) => Good(m)}
<1>0. Len(d) \in Nat /\ \A k \in 1 .. Len(d) : d[k] \in STRING
  BY LenProperties, ElementOfSeq
<1>1. T(0) = <<>> /\ \A m \in 0 .. Len(d) - 1 : T(m + 1) = T(m) \o Pieces(d[m + 1])
  BY TextGrows
<1> HIDE DEF T
<1>2. 0 \in S
  <2>1. <<>> \in Seq(Bytes) /\ Len(<<>>) = 0
    BY EmptySeq
  <2>2. T(0) \in Seq(Bytes) /\ Len(T(0)) = 0
    BY <1>1, <2>1, Zenon
  <2>3. 1 .. Len(T(0)) = {}
    BY <2>2
  <2>4. QED
    BY <2>2, <2>3
<1>3. ASSUME NEW m \in Nat, m \in S PROVE m + 1 \in S
  <2>1. SUFFICES ASSUME m + 1 <= Len(d) PROVE Good(m + 1)
    OBVIOUS
  <2>2. m \in 0 .. Len(d) - 1 /\ m + 1 \in 1 .. Len(d) /\ Good(m)
    BY <1>0, <1>3, <2>1
  <2>3. PICK w \in STRING : w = d[m + 1]
    BY <1>0, <2>2
  <2>4. PICK p \in Seq(Bytes) : p = Pieces(w) /\ \A i \in 1 .. Len(p) : p[i][1] = w
    BY PieceSeqs
  <2>5. PICK x \in Seq(Bytes) : x = T(m)
    BY <2>2
  <2>6. PICK y : y = T(m + 1)
    OBVIOUS
  <2>7. y = x \o p
    BY <1>1, <2>2, <2>3, <2>4, <2>5, <2>6
  <2>8. /\ y \in Seq(Bytes) /\ Len(y) = Len(x) + Len(p) /\ Len(x) \in Nat /\ Len(p) \in Nat
        /\ \A i \in 1 .. Len(x) + Len(p) : y[i] = IF i <= Len(x) THEN x[i] ELSE p[i - Len(x)]
    BY <2>7, ConcatProperties, LenProperties
  <2>9. \A j \in 1 .. Len(x) : \E k \in 1 .. Len(d) : x[j][1] = d[k]
    BY <2>2, <2>5
  <2>10. ASSUME NEW j \in 1 .. Len(y) PROVE \E k \in 1 .. Len(d) : y[j][1] = d[k]
    <3>1. CASE j <= Len(x)
      <4>1. j \in 1 .. Len(x) /\ y[j] = x[j]
        BY <2>8, <2>10, <3>1
      <4>2. QED
        BY <2>9, <4>1
    <3>2. CASE j > Len(x)
      <4>1. j - Len(x) \in 1 .. Len(p) /\ y[j] = p[j - Len(x)]
        BY <2>8, <2>10, <3>2
      <4>2. y[j][1] = d[m + 1]
        BY <2>3, <2>4, <4>1
      <4>3. QED
        BY <2>2, <4>2
    <3>3. QED
      BY <2>8, <3>1, <3>2
  <2>11. QED
    BY <2>6, <2>8, <2>10
<1>4. Nat \subseteq S
  <2> HIDE DEF S
  <2>1. QED
    BY <1>2, <1>3, Induction
<1>5. n \in Nat /\ n <= Len(d)
  BY <1>0
<1>6. Good(n)
  BY <1>4, <1>5
<1>7. QED
  BY <1>6 DEF T

\* The text of the first words is the beginning of the text.
LEMMA TextBegins ==
  ASSUME NEW d \in Seq(STRING), NEW n \in 0 .. Len(d)
  PROVE  Text(d) \in Seq(Bytes) /\ Begins(Text(SubSeq(d, 1, n)), Text(d))
<1> DEFINE T(m) == Text(SubSeq(d, 1, m))
           S == {k \in Nat : n + k <= Len(d) => Begins(T(n), T(n + k))}
<1>0. Len(d) \in Nat /\ \A k \in 1 .. Len(d) : d[k] \in STRING
  BY LenProperties, ElementOfSeq
<1>1. /\ \A m \in 0 .. Len(d) - 1 : T(m + 1) = T(m) \o Pieces(d[m + 1])
      /\ T(Len(d)) = Text(d)
  BY TextGrows
<1>2. \A m \in 0 .. Len(d) : T(m) \in Seq(Bytes)
  BY TextParts
<1> HIDE DEF T
<1>3. 0 \in S
  <2>1. n + 0 = n /\ T(n) \in Seq(Bytes)
    BY <1>0, <1>2
  <2>2. Begins(T(n), T(n))
    BY <2>1, LenProperties DEF Begins
  <2>3. QED
    BY <2>1, <2>2
<1>4. ASSUME NEW k \in Nat, k \in S PROVE k + 1 \in S
  <2>1. SUFFICES ASSUME n + (k + 1) <= Len(d) PROVE Begins(T(n), T(n + (k + 1)))
    OBVIOUS
  <2>2. PICK m \in 0 .. Len(d) - 1 : m = n + k
    BY <1>0, <2>1
  <2>3. /\ Begins(T(n), T(m)) /\ m + 1 = n + (k + 1) /\ m \in 0 .. Len(d) /\ m + 1 \in 1 .. Len(d)
    BY <1>0, <1>4, <2>1, <2>2
  <2>4. T(m + 1) = T(m) \o Pieces(d[m + 1]) /\ Pieces(d[m + 1]) \in Seq(Bytes)
    BY <1>0, <1>1, <2>2, <2>3, PieceSeqs
  <2>5. T(n) \in Seq(Bytes) /\ T(m) \in Seq(Bytes) /\ T(m + 1) \in Seq(Bytes)
    BY <1>0, <1>2, <2>3, <2>4, ConcatProperties
  <2>6. Begins(T(m), T(m + 1))
    BY <2>4, <2>5, BeginsConcat
  <2>7. Begins(T(n), T(m + 1))
    BY <2>3, <2>5, <2>6, BeginsConcat
  <2>8. QED
    BY <2>3, <2>7
<1>5. Nat \subseteq S
  <2> HIDE DEF S
  <2>1. QED
    BY <1>3, <1>4, Induction
<1>6. Len(d) - n \in Nat /\ n + (Len(d) - n) = Len(d) /\ Len(d) \in 0 .. Len(d)
  BY <1>0
<1>7. Begins(T(n), T(Len(d))) /\ T(Len(d)) \in Seq(Bytes)
  <2>1. PICK k \in Nat : k = Len(d) - n
    BY <1>6
  <2>2. n + k = Len(d) /\ Len(d) <= Len(d) /\ k \in S
    BY <1>0, <1>5, <2>1
  <2>3. Begins(T(n), T(n + k))
    BY <2>2
  <2>4. QED
    BY <1>2, <1>6, <2>2, <2>3
<1>8. QED
  BY <1>1, <1>7 DEF T

\* Beginnings again: of the part after a common one, and of the part that is long enough.
LEMMA BeginsParts ==
  ASSUME NEW s \in Seq(Bytes), NEW t \in Seq(Bytes), NEW u \in Seq(Bytes)
  PROVE  /\ Begins(s \o t, s \o u) => Begins(t, u)
         /\ Begins(s, t \o u) /\ Len(s) <= Len(t) => Begins(s, t)
         /\ Begins(s, t) => IsPrefix(s, t)
         /\ Begins(<<>>, t)
<1>1. Len(s) \in Nat /\ Len(t) \in Nat /\ Len(u) \in Nat
  BY LenProperties
<1>2. /\ Len(s \o t) = Len(s) + Len(t)
      /\ \A i \in 1 .. Len(s) + Len(t) : (s \o t)[i] = IF i <= Len(s) THEN s[i] ELSE t[i - Len(s)]
  BY ConcatProperties
<1>3. /\ Len(s \o u) = Len(s) + Len(u)
      /\ \A i \in 1 .. Len(s) + Len(u) : (s \o u)[i] = IF i <= Len(s) THEN s[i] ELSE u[i - Len(s)]
  BY ConcatProperties
<1>4. ASSUME Begins(s \o t, s \o u) PROVE Begins(t, u)
  <2>1. Len(t) <= Len(u)
    BY <1>1, <1>2, <1>3, <1>4 DEF Begins
  <2>2. ASSUME NEW i \in 1 .. Len(t) PROVE t[i] = u[i]
    <3>1. PICK j \in 1 .. Len(s) + Len(t) : j = Len(s) + i
      BY <1>1, <2>2
    <3>2. ~(j <= Len(s)) /\ j - Len(s) = i /\ j \in 1 .. Len(s) + Len(u)
      BY <1>1, <2>1, <2>2, <3>1
    <3>3. (s \o t)[j] = t[i] /\ (s \o u)[j] = u[i]
      BY <1>2, <1>3, <3>1, <3>2
    <3>4. (s \o t)[j] = (s \o u)[j]
      BY <1>2, <1>4, <3>1 DEF Begins
    <3>5. QED
      BY <3>3, <3>4
  <2>3. QED
    BY <2>1, <2>2 DEF Begins
<1>5. ASSUME Begins(s, t \o u), Len(s) <= Len(t) PROVE Begins(s, t)
  <2>1. \A i \in 1 .. Len(t) + Len(u) : (t \o u)[i] = IF i <= Len(t) THEN t[i] ELSE u[i - Len(t)]
    BY ConcatProperties
  <2>2. ASSUME NEW i \in 1 .. Len(s) PROVE s[i] = t[i]
    <3>1. i \in 1 .. Len(t) + Len(u) /\ i <= Len(t)
      BY <1>1, <1>5, <2>2
    <3>2. (t \o u)[i] = t[i]
      BY <2>1, <3>1
    <3>3. QED
      BY <1>5, <2>2, <3>2 DEF Begins
  <2>3. QED
    BY <1>5, <2>2 DEF Begins
<1>6. ASSUME Begins(s, t) PROVE IsPrefix(s, t)
  <2>1. SubSeq(s, 1, Len(s)) = s
    BY SubSeqFull
  <2>2. Len(s) \in 0 .. Len(t)
    BY <1>1, <1>6 DEF Begins
  <2>3. /\ SubSeq(t, 1, Len(s)) \in Seq(Bytes) /\ Len(SubSeq(t, 1, Len(s))) = Len(s)
        /\ \A i \in 1 .. Len(s) : SubSeq(t, 1, Len(s))[i] = t[i]
    BY <2>2, CutParts
  <2>4. SubSeq(t, 1, Len(s)) = s
    <3>1. PICK r : r = SubSeq(t, 1, Len(s))
      OBVIOUS
    <3>2. r \in Seq(Bytes) /\ Len(s) = Len(r) /\ \A i \in 1 .. Len(s) : s[i] = r[i]
      BY <1>6, <2>3, <3>1 DEF Begins
    <3>3. s = r
      BY <3>2, SeqEqual
    <3>4. QED
      BY <3>1, <3>3
  <2>5. QED
    BY <1>6, <2>1, <2>4 DEF IsPrefix, Begins
<1>7. Begins(<<>>, t)
  <2>1. Len(<<>>) = 0
    OBVIOUS
  <2>2. 1 .. Len(<<>>) = {}
    BY <2>1
  <2>3. QED
    BY <1>1, <2>1, <2>2 DEF Begins
<1>8. QED
  BY <1>4, <1>5, <1>6, <1>7

\* What one recv returns when none ends inside a marker.
LEMMA PacketForm ==
  ASSUME Whole, s2c \in Seq(Bytes), NEW buf \in Packets
  PROVE  /\ buf \in Seq(Bytes) /\ Len(buf) \in 1 .. Len(s2c) /\ Len(s2c) \in Nat
         /\ buf[Len(buf)][2] # 1 /\ Begins(buf, s2c)
         /\ Rest(buf) \in Seq(Bytes) /\ buf \o Rest(buf) = s2c
<1>1. PICK n \in 0 .. Len(s2c) : buf = SubSeq(s2c, 1, n) /\ (n > 0 => s2c[n][2] # 1) /\ buf # <<>>
  BY DEF Packets, Cuts
<1>2. /\ buf \in Seq(Bytes) /\ Len(buf) = n /\ (\A i \in 1 .. n : buf[i] = s2c[i])
      /\ Begins(buf, s2c)
  <2>1. /\ SubSeq(s2c, 1, n) \in Seq(Bytes) /\ Len(SubSeq(s2c, 1, n)) = n
        /\ \A i \in 1 .. n : SubSeq(s2c, 1, n)[i] = s2c[i]
        /\ Begins(SubSeq(s2c, 1, n), s2c)
    BY CutParts
  <2>2. QED
    BY <1>1, <2>1
<1>3. SubSeq(s2c, n + 1, Len(s2c)) \in Seq(Bytes) /\ buf \o SubSeq(s2c, n + 1, Len(s2c)) = s2c
  <2>1. /\ SubSeq(s2c, n + 1, Len(s2c)) \in Seq(Bytes)
        /\ SubSeq(s2c, 1, n) \o SubSeq(s2c, n + 1, Len(s2c)) = s2c
    BY CutParts
  <2>2. QED
    BY <1>1, <2>1
<1>4. Len(s2c) \in Nat /\ n \in 1 .. Len(s2c) /\ n \in 1 .. n
  <2>1. Len(s2c) \in Nat
    BY LenProperties
  <2>2. n # 0
    BY <1>1, <1>2, EmptySeq
  <2>3. QED
    BY <2>1, <2>2
<1>5. Rest(buf) = SubSeq(s2c, n + 1, Len(s2c))
  BY <1>2 DEF Rest
<1>6. Rest(buf) \in Seq(Bytes) /\ buf \o Rest(buf) = s2c
  BY <1>3, <1>5
<1>7. buf[Len(buf)][2] # 1 /\ Len(buf) \in 1 .. Len(s2c)
  BY <1>1, <1>2, <1>4
<1>8. QED
  BY <1>2, <1>4, <1>6, <1>7

\* The pieces of a marker.
LEMMA MarkerPieces ==
  ASSUME NEW m \in Markers
  PROVE  /\ Pieces(m) \in Seq(Bytes) /\ Len(Pieces(m)) = 2
         /\ Pieces(m)[1] = <<m, 1>> /\ Pieces(m)[2] = <<m, 2>>
<1>2. Pieces(m) = <<<<m, 1>>, <<m, 2>>>>
  BY DEF Pieces
<1>3. \A x, y : Len(<<x, y>>) = 2
  OBVIOUS
<1>4. Len(Pieces(m)) = 2
  BY <1>2, <1>3
<1>5. QED
  BY <1>4, PieceSeqs, OneMarker

\* strstr finds a marker where its first and its second piece are.
LEMMA PlaceOf ==
  ASSUME NEW buf, NEW m \in Markers
  PROVE  \A i \in 1 .. Len(buf) - 1 :
           i \in Places(buf, m) <=> buf[i] = <<m, 1>> /\ buf[i + 1] = <<m, 2>>
<1>1. Pieces(m) = <<<<m, 1>>, <<m, 2>>>>
  BY DEF Pieces
<1>2. \A a, b, c, d : <<a, b>> = <<c, d>> <=> a = c /\ b = d
  OBVIOUS
<1>3. QED
  BY <1>1, <1>2 DEF Places

\* A text that has come up to its end marker, or not yet, of which x was printed before.
LEMMA EndFound ==
  ASSUME NEW e \in Markers, NEW t \in Seq(Bytes), NEW x \in Seq(Bytes), NEW b \in Seq(Bytes),
         Len(x) <= Len(t), Begins(x \o b, t \o Pieces(e)), Len(b) > 0 => b[Len(b)][2] # 1
  PROVE  /\ ~Has(b, e) => Len(x \o b) <= Len(t)
         /\ (\A j \in 1 .. Len(t) : t[j][1] # e) /\ Has(b, e) =>
              x \o Upto(b, e) = t
<1>1. PICK nt \in Nat, nx \in Nat, nb \in Nat :
        /\ nt = Len(t) /\ nx = Len(x) /\ nb = Len(b) /\ nx <= nt /\ (nb > 0 => b[nb][2] # 1)
  BY LenProperties
<1>2. PICK p \in Seq(Bytes) : p = Pieces(e) /\ Len(p) = 2 /\ p[1] = <<e, 1>> /\ p[2] = <<e, 2>>
  BY MarkerPieces
<1>a. PICK y : y = x \o b
  OBVIOUS
<1>b. PICK z : z = t \o p
  OBVIOUS
<1>3. /\ Len(y) = nx + nb
      /\ \A i \in 1 .. nx + nb : y[i] = IF i <= nx THEN x[i] ELSE b[i - nx]
  BY <1>1, <1>a, ConcatProperties
<1>4. /\ Len(z) = nt + 2
      /\ \A i \in 1 .. nt + 2 : z[i] = IF i <= nt THEN t[i] ELSE p[i - nt]
  <2>1. /\ Len(t \o p) = Len(t) + Len(p)
        /\ \A i \in 1 .. Len(t) + Len(p) : (t \o p)[i] = IF i <= Len(t) THEN t[i] ELSE p[i - Len(t)]
    BY ConcatProperties
  <2>2. QED
    BY <1>1, <1>2, <1>b, <2>1
<1>5. nx + nb <= nt + 2 /\ \A i \in 1 .. nx + nb : y[i] = z[i]
  <2>1. Begins(y, z)
    BY <1>2, <1>a, <1>b
  <2>2. QED
    BY <1>3, <1>4, <2>1 DEF Begins
<1>6. z[nt + 1] = <<e, 1>> /\ z[nt + 2] = <<e, 2>>
  <2>1. /\ nt + 1 \in 1 .. nt + 2 /\ ~(nt + 1 <= nt) /\ (nt + 1) - nt = 1
        /\ nt + 2 \in 1 .. nt + 2 /\ ~(nt + 2 <= nt) /\ (nt + 2) - nt = 2
    BY <1>1
  <2>2. QED
    BY <1>2, <1>4, <2>1
<1>7. ASSUME NEW i \in 1 .. nb PROVE b[i] = z[nx + i]
  <2>1. PICK k \in 1 .. nx + nb : k = nx + i
    BY <1>1, <1>7
  <2>2. ~(k <= nx) /\ k - nx = i
    BY <1>1, <1>7, <2>1
  <2>3. y[k] = b[i] /\ y[k] = z[k]
    BY <1>3, <1>5, <2>1, <2>2
  <2>4. QED
    BY <2>1, <2>3
<1>8. \A i \in 1 .. nb - 1 : i \in Places(b, e) <=> b[i] = <<e, 1>> /\ b[i + 1] = <<e, 2>>
  BY <1>1, PlaceOf
<1>9. ASSUME ~Has(b, e) PROVE Len(x \o b) <= nt
  <2>1. SUFFICES ASSUME nx + nb > nt PROVE FALSE
    BY <1>1, <1>3, <1>a
  <2>2. CASE nx + nb = nt + 1
    <3>1. nb > 0 /\ nb \in 1 .. nb /\ nx + nb = nt + 1
      BY <1>1, <2>2
    <3>2. b[nb] = <<e, 1>>
      BY <1>6, <1>7, <3>1
    <3>3. QED
      BY <1>1, <3>1, <3>2
  <2>3. CASE nx + nb = nt + 2
    <3>1. PICK i \in 1 .. nb - 1 : i = nb - 1
      BY <1>1, <2>3
    <3>2. /\ i \in 1 .. nb /\ i + 1 \in 1 .. nb
          /\ nx + i = nt + 1 /\ nx + (i + 1) = nt + 2
      BY <1>1, <2>3, <3>1
    <3>3. b[i] = <<e, 1>> /\ b[i + 1] = <<e, 2>>
      BY <1>6, <1>7, <3>2
    <3>4. QED
      BY <1>8, <1>9, <3>1, <3>3 DEF Has
  <2>4. QED
    <3>1. nx + nb <= nt + 2 /\ nx + nb > nt /\ nx \in Nat /\ nb \in Nat /\ nt \in Nat
      BY <1>1, <1>5, <2>1
    <3>2. nx + nb = nt + 1 \/ nx + nb = nt + 2
      BY <3>1
    <3>3. QED
      BY <2>2, <2>3, <3>2
<1>10. ASSUME \A j \in 1 .. nt : t[j][1] # e, Has(b, e) PROVE x \o Upto(b, e) = t
  <2>1. ASSUME NEW i \in Places(b, e) PROVE i = nt + 1 - nx
    <3>1. i \in 1 .. nb - 1
      BY <1>1, <2>1 DEF Places
    <3>2. i \in 1 .. nb /\ b[i] = <<e, 1>>
      BY <1>1, <1>8, <2>1, <3>1
    <3>3. PICK k \in 1 .. nt + 2 : k = nx + i
      BY <1>1, <1>5, <3>2
    <3>4. z[k] = <<e, 1>>
      BY <1>7, <3>2, <3>3
    <3>5. ~(k <= nt)
      <4>1. SUFFICES ASSUME k <= nt PROVE FALSE
        OBVIOUS
      <4>2. k \in 1 .. nt /\ z[k] = t[k]
        BY <1>1, <1>4, <4>1
      <4>3. t[k][1] = e
        BY <3>4, <4>2
      <4>4. QED
        BY <1>10, <4>2, <4>3
    <3>6. k + 1 <= nt + 2
      BY <1>1, <1>5, <3>1, <3>3
    <3>7. QED
      BY <1>1, <3>1, <3>3, <3>5, <3>6
  <2>2. PICK n : n = nt + 1 - nx
    OBVIOUS
  <2>3. Places(b, e) = {n} /\ n \in 1 .. nb - 1
    <3>1. \A i \in Places(b, e) : i = n /\ i \in 1 .. nb - 1
      BY <1>1, <2>1, <2>2 DEF Places
    <3>2. QED
      BY <1>10, <3>1 DEF Has
  <2>4. Min(Places(b, e)) = n
    <3>1. \A i \in {n} : (\A j \in {n} : i <= j) <=> i = n
      BY <1>1, <2>2
    <3>2. Min({n}) = n
      BY <1>1, <2>2 DEF Min
    <3>3. QED
      BY <2>3, <3>2
  <2>5. PICK k \in 0 .. nb : k = n - 1 /\ k = nt - nx
    <3>1. n \in Nat /\ n >= 1 /\ n <= nb - 1 /\ n = nt + 1 - nx /\ nt \in Nat /\ nx \in Nat /\ nb \in Nat
      BY <1>1, <2>2, <2>3
    <3>2. n - 1 \in 0 .. nb /\ n - 1 = nt - nx
      BY <3>1
    <3>3. QED
      BY <3>2
  <2>6. PICK u \in Seq(Bytes) : u = Upto(b, e) /\ Len(u) = k /\ \A i \in 1 .. k : u[i] = b[i]
    <3>1. Upto(b, e) = SubSeq(b, 1, k)
      BY <2>4, <2>5 DEF Upto
    <3>2. /\ SubSeq(b, 1, k) \in Seq(Bytes) /\ Len(SubSeq(b, 1, k)) = k
          /\ \A i \in 1 .. k : SubSeq(b, 1, k)[i] = b[i]
      BY <1>1, CutParts
    <3>3. QED
      BY <3>1, <3>2
  <2>a. PICK v : v = x \o u
    OBVIOUS
  <2>7. /\ v \in Seq(Bytes) /\ Len(v) = nx + k
        /\ \A i \in 1 .. nx + k : v[i] = IF i <= nx THEN x[i] ELSE u[i - nx]
    <3>1. /\ x \o u \in Seq(Bytes) /\ Len(x \o u) = Len(x) + Len(u)
          /\ \A i \in 1 .. Len(x) + Len(u) : (x \o u)[i] = IF i <= Len(x) THEN x[i] ELSE u[i - Len(x)]
      BY ConcatProperties
    <3>2. QED
      BY <1>1, <2>6, <2>a, <3>1
  <2>8. Len(v) = nt
    BY <1>1, <2>5, <2>7
  <2>9. ASSUME NEW i \in 1 .. nt PROVE v[i] = t[i]
    <3>1. i \in 1 .. nx + k /\ i \in 1 .. nx + nb /\ i \in 1 .. nt + 2 /\ i <= nt
      BY <1>1, <2>5, <2>9
    <3>2. z[i] = t[i] /\ y[i] = z[i]
      BY <1>4, <1>5, <3>1
    <3>3. v[i] = y[i]
      <4>1. CASE i <= nx
        BY <1>3, <2>7, <3>1, <4>1
      <4>2. CASE ~(i <= nx)
        <5>1. i - nx \in 1 .. k
          BY <1>1, <3>1, <4>2
        <5>2. QED
          BY <1>3, <2>6, <2>7, <3>1, <4>2, <5>1
      <4>3. QED
        BY <4>1, <4>2
    <3>4. QED
      BY <3>2, <3>3
  <2>10. v = t
    BY <1>1, <2>7, <2>8, <2>9, SeqEqual
  <2>11. QED
    BY <2>6, <2>a, <2>10
<1>11. QED
  BY <1>1, <1>9, <1>10

\* The first packet of a text has the whole header marker; what follows it is printed.
LEMMA HeadSkipped ==
  ASSUME NEW h \in Markers, NEW r \in Seq(Bytes), NEW b \in Seq(Bytes), Len(b) > 0,
         b[Len(b)][2] # 1, Begins(b, Pieces(h) \o r)
  PROVE  /\ Has(b, h) /\ Past(b, h) \in Seq(Bytes) /\ Pieces(h) \o Past(b, h) = b
         /\ Len(Past(b, h)) > 0 => Past(b, h)[Len(Past(b, h))][2] # 1
<1>1. Len(r) \in Nat /\ Len(b) \in Nat
  BY LenProperties
<1>2. PICK p \in Seq(Bytes) : p = Pieces(h) /\ Len(p) = 2 /\ p[1] = <<h, 1>> /\ p[2] = <<h, 2>>
  BY MarkerPieces
<1>a. PICK z : z = p \o r
  OBVIOUS
<1>3. /\ Len(z) = 2 + Len(r)
      /\ \A i \in 1 .. 2 + Len(r) : z[i] = IF i <= 2 THEN p[i] ELSE r[i - 2]
  <2>1. /\ Len(p \o r) = Len(p) + Len(r)
        /\ \A i \in 1 .. Len(p) + Len(r) : (p \o r)[i] = IF i <= Len(p) THEN p[i] ELSE r[i - Len(p)]
    BY ConcatProperties
  <2>2. QED
    BY <1>2, <1>a, <2>1
<1>4. Len(b) <= 2 + Len(r) /\ \A i \in 1 .. Len(b) : b[i] = z[i]
  <2>1. Begins(b, z)
    BY <1>2, <1>a
  <2>2. QED
    BY <1>3, <2>1 DEF Begins
<1>5. z[1] = <<h, 1>> /\ z[2] = <<h, 2>>
  <2>1. 1 \in 1 .. 2 + Len(r) /\ 2 \in 1 .. 2 + Len(r) /\ 1 <= 2 /\ 2 <= 2
    BY <1>1
  <2>2. QED
    BY <1>2, <1>3, <2>1
<1>6. Len(b) # 1
  <2>1. SUFFICES ASSUME Len(b) = 1 PROVE FALSE
    OBVIOUS
  <2>2. 1 \in 1 .. Len(b)
    BY <2>1
  <2>3. b[Len(b)] = <<h, 1>>
    BY <1>4, <1>5, <2>1, <2>2
  <2>4. QED
    BY <2>3
<1>7. /\ Len(b) >= 2 /\ 1 \in 1 .. Len(b) /\ 2 \in 1 .. Len(b) /\ 1 \in 1 .. Len(b) - 1
      /\ 2 \in 0 .. Len(b)
  <2>1. PICK n \in Nat : n = Len(b) /\ n > 0 /\ n # 1
    BY <1>1, <1>6
  <2>2. n >= 2 /\ 1 \in 1 .. n /\ 2 \in 1 .. n /\ 1 \in 1 .. n - 1 /\ 2 \in 0 .. n
    BY <2>1
  <2>3. QED
    BY <2>1, <2>2
<1>8. b[1] = <<h, 1>> /\ b[1 + 1] = <<h, 2>>
  <2>1. b[1] = z[1] /\ b[2] = z[2] /\ 1 + 1 = 2
    BY <1>4, <1>7
  <2>2. QED
    BY <1>5, <2>1
<1>9. 1 \in Places(b, h)
  BY <1>7, <1>8, PlaceOf
<1>10. Min(Places(b, h)) = 1
  <2>1. \A i \in Places(b, h) : i \in Nat /\ 1 <= i
    BY DEF Places
  <2>2. \A i \in Places(b, h) : (\A j \in Places(b, h) : i <= j) => i = 1
    BY <1>9, <2>1
  <2>3. QED
    BY <1>9, <2>1, <2>2 DEF Min
<1>11. Past(b, h) = SubSeq(b, 2 + 1, Len(b))
  <2>1. Past(b, h) = SubSeq(b, 1 + 2, Len(b))
    BY <1>10 DEF Past
  <2>2. 1 + 2 = 2 + 1
    OBVIOUS
  <2>3. QED
    BY <2>1, <2>2
<1>12. PICK q \in Seq(Bytes) : q = Past(b, h) /\ SubSeq(b, 1, 2) \o q = b
  <2>1. SubSeq(b, 2 + 1, Len(b)) \in Seq(Bytes) /\ SubSeq(b, 1, 2) \o SubSeq(b, 2 + 1, Len(b)) = b
    BY <1>7, CutParts
  <2>2. QED
    BY <1>11, <2>1
<1>13. SubSeq(b, 1, 2) = p
  <2>1. /\ SubSeq(b, 1, 2) \in Seq(Bytes) /\ Len(SubSeq(b, 1, 2)) = 2
        /\ \A i \in 1 .. 2 : SubSeq(b, 1, 2)[i] = b[i]
    BY <1>7, CutParts
  <2>2. PICK w \in Seq(Bytes) : w = SubSeq(b, 1, 2) /\ Len(w) = 2 /\ \A i \in 1 .. 2 : w[i] = b[i]
    BY <2>1
  <2>3. 1 .. 2 = {1, 2} /\ 1 + 1 = 2
    OBVIOUS
  <2>4. Len(w) = Len(p) /\ \A i \in 1 .. Len(w) : w[i] = p[i]
    BY <1>2, <1>8, <2>2, <2>3
  <2>5. w = p
    BY <2>4, SeqEqual
  <2>6. QED
    BY <2>2, <2>5
<1>14. p \o q = b /\ Len(b) = 2 + Len(q) /\ Len(q) \in Nat
  <2>1. p \o q = b
    BY <1>12, <1>13
  <2>2. Len(p \o q) = Len(p) + Len(q) /\ Len(q) \in Nat
    BY ConcatProperties, LenProperties
  <2>3. QED
    BY <1>2, <2>1, <2>2
<1>15. ASSUME Len(q) > 0 PROVE q[Len(q)][2] # 1
  <2>1. \A i \in 1 .. 2 + Len(q) : (p \o q)[i] = IF i <= 2 THEN p[i] ELSE q[i - 2]
    <3>1. \A i \in 1 .. Len(p) + Len(q) : (p \o q)[i] = IF i <= Len(p) THEN p[i] ELSE q[i - Len(p)]
      BY ConcatProperties
    <3>2. QED
      BY <1>2, <3>1
  <2>2. PICK n \in 1 .. 2 + Len(q) : n = Len(b) /\ ~(n <= 2) /\ n - 2 = Len(q)
    BY <1>14, <1>15
  <2>3. b[n] = q[Len(q)]
    BY <1>14, <2>1, <2>2
  <2>4. QED
    BY <2>2, <2>3
<1>16. QED
  BY <1>2, <1>9, <1>12, <1>14, <1>15 DEF Has

\* A reply of one marker is not taken for another.
LEMMA OneHas ==
  ASSUME NEW m \in Markers, NEW n \in Markers, Has(Pieces(m), n)
  PROVE  m = n
<1>1. Len(Pieces(m)) = 2 /\ Pieces(m)[1] = <<m, 1>>
  BY MarkerPieces
<1>2. PICK i : i \in Places(Pieces(m), n)
  BY DEF Has
<1>3. i \in 1 .. Len(Pieces(m)) - 1
  BY <1>2 DEF Places
<1>4. i = 1
  BY <1>1, <1>3
<1>5. Pieces(m)[1] = <<n, 1>>
  BY <1>2, <1>3, <1>4, PlaceOf
<1>6. QED
  BY <1>1, <1>5

-----------------------------------------------------------------------------
(* The steps of a connection that carries a text *)

\* A document's text has none of the markers that end it.
LEMMA NoEndInside ==
  ASSUME Unmarked, NEW d \in Docs, NEW c
  PROVE  Text(d) \in Seq(Bytes) /\ \A j \in 1 .. Len(Text(d)) : Text(d)[j][1] # EndOf(c)
<1>1. d \in Seq(STRING)
  BY DocsAssumption
<1>2. Len(d) \in 0 .. Len(d) /\ DOMAIN d = 1 .. Len(d)
  BY <1>1, LenProperties
<1>3. Text(SubSeq(d, 1, Len(d))) = Text(d)
  BY <1>1, TextGrows
<1>4. Text(d) \in Seq(Bytes) /\ \A j \in 1 .. Len(Text(d)) : \E k \in 1 .. Len(d) : Text(d)[j][1] = d[k]
  <2>1. PICK n \in 0 .. Len(d) : n = Len(d)
    BY <1>2
  <2>2. /\ Text(SubSeq(d, 1, n)) \in Seq(Bytes)
        /\ \A j \in 1 .. Len(Text(SubSeq(d, 1, n))) :
             \E k \in 1 .. Len(d) : Text(SubSeq(d, 1, n))[j][1] = d[k]
    BY <1>1, TextParts
  <2>3. Text(SubSeq(d, 1, n)) = Text(d)
    BY <1>3, <2>1
  <2>4. QED
    BY <2>2, <2>3
<1>5. \A k \in 1 .. Len(d) : d[k] # EndOf(c)
  <2>1. EndOf(c) \in {"END_OF_FILE", "END_OF_CHECKPOINT", "END_OF_LIST"}
    BY DEF EndOf
  <2>2. QED
    BY <1>2, <2>1 DEF Unmarked
<1>6. QED
  BY <1>4, <1>5

\* The markers of the commands that print.
LEMMA PrintMarkers ==
  /\ \A c : HeadOf(c) \in Markers /\ EndOf(c) \in Markers
  /\ {"ERR_404", "EMPTY_FILE", "EMPTY_CHECKPOINT", "EMPTY_FILE_STREAM", "STREAM_START",
      "STREAM_COMPLETE"} \subseteq Markers
  /\ \A c : EndOf(c) \notin {"ERR_404", "EMPTY_FILE", "EMPTY_CHECKPOINT"}
  /\ \A c : HeadOf(c) \notin {"ERR_404", "EMPTY_FILE", "EMPTY_CHECKPOINT"}
  /\ "STREAM" \notin Texts /\ Printing \subseteq Remote
  /\ Printing \cap (OneLine \cup {"WRITE", "VIEWREQUESTS"}) = {}
  /\ Opening \in Seq(Bytes) /\ Opening # <<>>
<1>1. \A c : HeadOf(c) \in Markers /\ EndOf(c) \in Markers
  BY DEF HeadOf, EndOf, Markers
<1>2. {"ERR_404", "EMPTY_FILE", "EMPTY_CHECKPOINT", "EMPTY_FILE_STREAM", "STREAM_START",
       "STREAM_COMPLETE"} \subseteq Markers
  BY DEF Markers
<1>3. \A c : /\ EndOf(c) \notin {"ERR_404", "EMPTY_FILE", "EMPTY_CHECKPOINT"}
             /\ HeadOf(c) \notin {"ERR_404", "EMPTY_FILE", "EMPTY_CHECKPOINT"}
  BY DEF HeadOf, EndOf
<1>4. /\ "STREAM" \notin Texts /\ Printing \subseteq Remote
      /\ Printing \cap (OneLine \cup {"WRITE", "VIEWREQUESTS"}) = {}
  BY DEF Texts, Printing, Remote, Redirected, Located, OneLine
<1>5. "STREAM_START" \in Markers
  BY <1>2
<1>6. Opening \in Seq(Bytes) /\ Opening # <<>>
  BY <1>5, PieceSeqs DEF Opening
<1>7. QED
  BY <1>1, <1>2, <1>3, <1>4, <1>6

\* A client that waits for no answer of the storage server.
LEMMA TextOutside ==
  ASSUME ByteInv',
         cmd' \in Printing =>
           /\ pc' # "recv"
           /\ pc' \notin {"prompt", "off"} => shown' = <<>> /\ first'
           /\ shown' # <<>> \/ outcome' = "end" =>
                pc' \in {"prompt", "off"} /\ c2s' \in {<<>>, <<"EXIT">>}
           /\ cmd' \in Texts /\ outcome' = "end" /\ Unmarked => shown' = served'
           /\ cmd' = "STREAM" => Begins(shown', Opening \o served')
  PROVE  TextInv'
<1>1. FreshInv'
  BY DEF FreshInv
<1>2. ReadInv'
  BY DEF ReadInv, Printing
<1>3. StreamInv'
  BY DEF StreamInv, Printing
<1>4. QED
  BY <1>1, <1>2, <1>3 DEF TextInv

\* Nothing is printed yet.
LEMMA TextUnprinted ==
  ASSUME ByteInv', pc' # "recv", shown' = <<>>, first' \/ pc' \in {"prompt", "off"},
         outcome' # "end"
  PROVE  TextInv'
<1>1. Begins(<<>>, Opening \o served')
  <2>1. served' \in Seq(Bytes)
    BY DEF ByteInv
  <2>2. Opening \o served' \in Seq(Bytes)
    BY <2>1, PrintMarkers, ConcatProperties
  <2>3. QED
    BY <2>2, BeginsParts
<1>2. QED
  BY <1>1, TextOutside

\* What the client's steps on the socket leave of the bytes under way.
LEMMA SocketBytes ==
  ASSUME Whole, ByteInv, SocketStep
  PROVE  s2c' \in Seq(Bytes) /\ served' \in Seq(Bytes) /\ todo' \in Seq(STRING)
<1>1. <<>> \in Seq(Bytes) /\ <<>> \in Seq(STRING)
  BY EmptySeq
<1>2. \A buf \in Packets : Rest(buf) \in Seq(Bytes)
  BY PacketForm DEF ByteInv
<1>3. served' \in {served, <<>>} /\ todo' \in {todo, <<>>}
  BY DEF SocketStep, Connect, GiveUp, Greet, GreetOrClose, MarkedReply, StreamReply, OneReply,
     ViewRequestsReply, WriteReply, TypeLine, Alone, ssVars
<1>4. s2c' \in {s2c, <<>>} \cup {Rest(buf) : buf \in Packets}
  <2>1. ASSUME Connect \/ GiveUp \/ Greet \/ \E looks \in BOOLEAN : GreetOrClose(looks)
        PROVE  s2c' \in {s2c, <<>>} \cup {Rest(buf) : buf \in Packets}
    BY <2>1 DEF Connect, GiveUp, Greet, GreetOrClose, Close, ssVars
  <2>2. ASSUME NEW head, NEW end, NEW stops, MarkedReply(head, end, stops)
        PROVE  s2c' \in {s2c, <<>>} \cup {Rest(buf) : buf \in Packets}
    BY <2>2 DEF MarkedReply, Finish, Keep
  <2>3. ASSUME StreamReply \/ OneReply
        PROVE  s2c' \in {s2c, <<>>} \cup {Rest(buf) : buf \in Packets}
    BY <2>3 DEF StreamReply, OneReply, Finish, Keep
  <2>4. ASSUME ViewRequestsReply \/ WriteReply \/ TypeLine
        PROVE  s2c' \in {s2c, <<>>} \cup {Rest(buf) : buf \in Packets}
    BY <2>4 DEF ViewRequestsReply, WriteReply, TypeLine, Finish, Close, Keep
  <2>5. QED
    BY <2>1, <2>2, <2>3, <2>4 DEF SocketStep
<1>5. QED
  BY <1>1, <1>2, <1>3, <1>4 DEF ByteInv

\* strstr returns the first place, and what stands before it is printed.
LEMMA UptoBytes ==
  ASSUME NEW b \in Seq(Bytes), NEW e, Has(b, e)
  PROVE  Upto(b, e) \in Seq(Bytes)
<1> DEFINE R == OpToRel(<, Nat)
<1>1. \A x, y \in Nat : y < x => <<y, x>> \in R
  BY Zenon DEF OpToRel
<1>2. IsWellFoundedOn(R, Nat)
  BY Zenon, NatLessThanWellFounded
<1> HIDE DEF R
<1>3. PICK S : S = Places(b, e)
  OBVIOUS
<1>4. Len(b) \in Nat /\ S # {} /\ S \subseteq Nat /\ \A i \in S : i \in 1 .. Len(b) - 1
  BY <1>3, LenProperties DEF Has, Places
<1>5. PICK x \in S : \A y \in S : ~(<<y, x>> \in R)
  BY <1>2, <1>4, WFMin
<1>6. \A y \in S : x <= y
  <2>1. \A y \in S : ~(y < x) /\ x \in Nat /\ y \in Nat
    BY <1>1, <1>4, <1>5
  <2>2. QED
    BY <2>1
<1>7. Min(S) \in S
  BY <1>5, <1>6 DEF Min
<1>8. PICK n \in 0 .. Len(b) : n = Min(S) - 1
  <2>1. Min(S) \in 1 .. Len(b) - 1
    BY <1>4, <1>7
  <2>2. Min(S) - 1 \in 0 .. Len(b)
    BY <1>4, <2>1
  <2>3. QED
    BY <2>2
<1>9. Upto(b, e) = SubSeq(b, 1, n)
  BY <1>3, <1>8 DEF Upto
<1>10. QED
  BY <1>9, CutParts

\* close with the line EXIT, at the end of what a command prints.
LEMMA TextFinish ==
  ASSUME NEW r, Finish(r), Alone, c2s = <<>>, ByteInv', cmd \in Printing,
         r = "end" /\ cmd \in Texts /\ Unmarked => shown' = served,
         cmd = "STREAM" => Begins(shown', Opening \o served)
  PROVE  TextInv'
<1>1. pc' \in {"prompt", "off"} /\ outcome' = r /\ UNCHANGED <<cmd, served>>
  BY DEF Finish, Alone
<1>2. c2s' \in {<<>>, <<"EXIT">>}
  BY ShortSends DEF Finish
<1>3. QED
  BY <1>1, <1>2, TextOutside

\* A packet that is printed whole.
LEMMA FreshKeep ==
  ASSUME NEW buf, Keep(buf), Alone, FreshInv, cmd \in Printing, pc = "recv", c2s = <<>>
  PROVE  FreshInv' /\ outcome' # "end" /\ pc' = "recv" /\ c2s' = <<>>
<1>1. UNCHANGED <<pc, sock, c2s, outcome, cmd, editing>>
  BY DEF Keep, Alone
<1>2. outcome # "end" /\ ~editing
  BY DEF FreshInv
<1>3. QED
  BY <1>1, <1>2 DEF FreshInv

\* Sequences of bytes one after another, and the beginning of a beginning.
LEMMA Joined ==
  ASSUME NEW s \in Seq(Bytes), NEW t \in Seq(Bytes), NEW u \in Seq(Bytes)
  PROVE  /\ (s \o t) \o u = s \o (t \o u) /\ s \o t \in Seq(Bytes)
         /\ Begins(s, t) /\ Begins(t, u) => Begins(s, u)
<1>1. (s \o t) \o u = s \o (t \o u)
  BY ConcatAssociative
<1>2. s \o t \in Seq(Bytes)
  BY ConcatProperties
<1>3. Begins(s, t) /\ Begins(t, u) => Begins(s, u)
  BY BeginsConcat
<1>4. QED
  BY <1>1, <1>2, <1>3

\* What READ, VIEWCHECKPOINT and LISTCHECKPOINTS print of a packet of a text.
LEMMA PacketText ==
  ASSUME Whole, ByteInv, cmd \in Texts, Opened \/ Printed, NEW buf \in Packets, NEW text,
         text = IF first /\ Has(buf, HeadOf(cmd)) THEN Past(buf, HeadOf(cmd)) ELSE buf
  PROVE  /\ text \in Seq(Bytes) /\ (Len(text) > 0 => text[Len(text)][2] # 1)
         /\ IsText /\ Len(shown) <= Len(served)
         /\ Begins((shown \o text) \o Rest(buf), served \o Pieces(EndOf(cmd)))
         /\ Begins(shown \o text, served \o Pieces(EndOf(cmd)))
<1>1. s2c \in Seq(Bytes) /\ served \in Seq(Bytes) /\ shown \in Seq(Bytes)
  BY DEF ByteInv, Printing
<1>2. PICK r \in Seq(Bytes) : r = Rest(buf) /\ buf \o r = s2c
  BY <1>1, PacketForm
<1>3. buf \in Seq(Bytes) /\ Len(buf) > 0 /\ buf[Len(buf)][2] # 1
  BY <1>1, PacketForm
<1>4. HeadOf(cmd) \in Markers /\ EndOf(cmd) \in Markers
  BY PrintMarkers
<1>5. PICK z \in Seq(Bytes) : z = served \o Pieces(EndOf(cmd))
  BY <1>1, <1>4, MarkerPieces, ConcatProperties
<1>6. /\ text \in Seq(Bytes) /\ (Len(text) > 0 => text[Len(text)][2] # 1)
      /\ IsText /\ Len(shown) <= Len(served)
      /\ Begins(shown \o (text \o r), z)
  <2>1. CASE Opened
    <3>1. shown = <<>> /\ first /\ IsText /\ Begins(s2c, Pieces(HeadOf(cmd)) \o z)
      BY <1>5, <2>1 DEF Opened
    <3>2. PICK p \in Seq(Bytes) : p = Pieces(HeadOf(cmd))
      BY <1>4, MarkerPieces
    <3>3. p \o z \in Seq(Bytes) /\ Begins(buf, p \o z)
      <4>1. p \o z \in Seq(Bytes)
        BY ConcatProperties
      <4>2. Begins(buf, buf \o r)
        BY <1>3, BeginsConcat
      <4>3. Begins(buf, s2c) /\ Begins(s2c, p \o z)
        BY <1>2, <3>1, <3>2, <4>2
      <4>4. QED
        <5>1. PICK q \in Seq(Bytes) : q = p \o z
          BY <4>1
        <5>2. PICK w \in Seq(Bytes) : w = s2c
          BY <1>1
        <5>3. Begins(buf, w) /\ Begins(w, q)
          BY <4>3, <5>1, <5>2
        <5>4. Begins(buf, q)
          BY <1>3, <5>3, Joined
        <5>5. QED
          BY <4>1, <5>1, <5>4
    <3>4. /\ Has(buf, HeadOf(cmd)) /\ Past(buf, HeadOf(cmd)) \in Seq(Bytes)
          /\ Pieces(HeadOf(cmd)) \o Past(buf, HeadOf(cmd)) = buf
          /\ Len(Past(buf, HeadOf(cmd))) > 0 =>
               Past(buf, HeadOf(cmd))[Len(Past(buf, HeadOf(cmd)))][2] # 1
      BY <1>3, <1>4, <3>2, <3>3, HeadSkipped
    <3>5. text = Past(buf, HeadOf(cmd))
      BY <3>1, <3>4
    <3>6. text \in Seq(Bytes) /\ (Len(text) > 0 => text[Len(text)][2] # 1) /\ p \o text = buf
      BY <3>2, <3>4, <3>5
    <3>7. p \o (text \o r) = s2c /\ text \o r \in Seq(Bytes)
      <4>1. (p \o text) \o r = p \o (text \o r)
        BY <3>6, Joined
      <4>2. text \o r \in Seq(Bytes)
        BY <3>6, Joined
      <4>3. QED
        BY <1>2, <3>6, <4>1, <4>2
    <3>8. Begins(p \o (text \o r), p \o z)
      BY <3>1, <3>2, <3>7
    <3>9. Begins(text \o r, z)
      BY <3>7, <3>8, BeginsParts
    <3>10. shown \o (text \o r) = text \o r
      BY <3>1, <3>7, ConcatEmptySeq
    <3>11. Len(shown) <= Len(served)
      <4>1. Len(shown) = 0 /\ Len(served) \in Nat
        BY <1>1, <3>1, EmptySeq, LenProperties
      <4>2. QED
        BY <4>1
    <3>12. QED
      BY <3>1, <3>6, <3>9, <3>10, <3>11
  <2>2. CASE Printed
    <3>1. text = buf
      BY <2>2 DEF Printed
    <3>2. IsText /\ Begins(shown \o s2c, z) /\ Len(shown) <= Len(served)
      BY <1>5, <2>2 DEF Printed
    <3>3. QED
      BY <1>2, <1>3, <3>1, <3>2
  <2>3. QED
    BY <2>1, <2>2
<1>7. (shown \o text) \o r = shown \o (text \o r) /\ shown \o text \in Seq(Bytes)
  <2>0. shown \in Seq(Bytes) /\ text \in Seq(Bytes)
    BY <1>1, <1>6
  <2>a. PICK x \in Seq(Bytes), y \in Seq(Bytes) : x = shown /\ y = text
    BY <2>0
  <2>b. (x \o y) \o r = x \o (y \o r)
    BY Joined
  <2>1. (shown \o text) \o r = shown \o (text \o r)
    BY <2>a, <2>b
  <2>2. shown \o text \in Seq(Bytes)
    BY <2>0, Joined
  <2>3. QED
    BY <2>1, <2>2
<1>8. Begins(shown \o text, (shown \o text) \o r)
  BY <1>7, BeginsConcat
<1>9. Begins((shown \o text) \o r, z)
  BY <1>6, <1>7
<1>10. (shown \o text) \o r \in Seq(Bytes)
  BY <1>7, ConcatProperties
<1>11. Begins(shown \o text, z)
  BY <1>7, <1>8, <1>9, <1>10, BeginsConcat
<1>12. QED
  BY <1>2, <1>5, <1>6, <1>9, <1>11

\* The loop of READ, VIEWCHECKPOINT and LISTCHECKPOINTS.
LEMMA MarkedText ==
  ASSUME Whole, TypeOK, SessionInv, TextInv, cmd \in Texts, SocketStep,
         NEW stops, MarkedReply(HeadOf(cmd), EndOf(cmd), stops)
  PROVE  TextInv'
<1>1. /\ pc = "recv" /\ Alone /\ sock /\ cmd \in Printing /\ cmd # "STREAM"
      /\ UNCHANGED <<cmd, ss, editing, served, todo>>
  BY PrintMarkers DEF MarkedReply, Alone, SessionInv, LineInv, Printing
<1>2. s2c' \in Seq(Bytes) /\ served' \in Seq(Bytes) /\ todo' \in Seq(STRING)
  BY SocketBytes DEF TextInv
<1>3. shown \in Seq(Bytes) /\ served \in Seq(Bytes) /\ FreshInv /\ ReadInv /\ ByteInv
  BY <1>1 DEF TextInv, ByteInv
<1>a. ASSUME shown' \in Seq(Bytes) PROVE ByteInv'
  BY <1>2, <1>a DEF ByteInv
<1>4. ASSUME Closed, Finish("lost"), UNCHANGED shown PROVE TextInv'
  <2>1. c2s = <<>>
    BY <1>1, <1>4 DEF SessionInv, LineInv, Closed
  <2>2. QED
    BY <1>1, <1>3, <1>4, <1>a, <2>1, TextFinish
<1>5. ASSUME NEW buf \in Packets, NEW text,
             text = IF first /\ Has(buf, HeadOf(cmd)) THEN Past(buf, HeadOf(cmd)) ELSE buf,
             \/ Finish("stop") /\ UNCHANGED shown
             \/ Has(text, EndOf(cmd)) /\ Finish("end") /\ shown' = shown \o Upto(text, EndOf(cmd))
             \/ ~Has(text, EndOf(cmd)) /\ Keep(buf) /\ shown' = shown \o text /\ first' = FALSE
      PROVE  TextInv'
  <2>1. c2s = <<>> /\ s2c # <<>>
    BY <1>1, <1>5, ReplyComes DEF SessionInv
  <2>2. /\ ss \in {"none", "command"}
        /\ Refused({"ERR_404", "EMPTY_FILE", "EMPTY_CHECKPOINT"}) \/ Opened \/ Printed
    BY <1>1, <1>3, <2>1 DEF ReadInv, Unanswered, Stuck
  <2>3. EndOf(cmd) \in Markers /\ HeadOf(cmd) \in Markers
    BY PrintMarkers
  <2>4. CASE Finish("stop") /\ UNCHANGED shown
    BY <1>1, <1>3, <1>a, <2>1, <2>4, TextFinish
  <2>5. CASE Refused({"ERR_404", "EMPTY_FILE", "EMPTY_CHECKPOINT"})
    <3>1. PICK m \in {"ERR_404", "EMPTY_FILE", "EMPTY_CHECKPOINT"} : s2c = Pieces(m)
      BY <2>5 DEF Refused
    <3>2. m \in Markers /\ m # HeadOf(cmd) /\ m # EndOf(cmd)
      BY <3>1, PrintMarkers
    <3>3. buf = Pieces(m) /\ Rest(buf) = <<>>
      BY <1>5, <3>1, <3>2, WholeMarker
    <3>4. ~Has(buf, HeadOf(cmd)) /\ ~Has(buf, EndOf(cmd))
      BY <2>3, <3>2, <3>3, OneHas
    <3>5. text = buf /\ text \in Seq(Bytes)
      BY <1>5, <3>2, <3>3, <3>4, MarkerPieces
    <3>6. CASE Keep(buf) /\ shown' = shown \o text /\ first' = FALSE
      <4>1. s2c' = <<>>
        BY <3>3, <3>6 DEF Keep
      <4>2. FreshInv' /\ outcome' # "end" /\ pc' = "recv" /\ c2s' = <<>>
        BY <1>1, <1>3, <2>1, <3>6, FreshKeep
      <4>3. ByteInv'
        BY <1>3, <1>a, <3>5, <3>6, Joined
      <4>4. Stuck'
        BY <3>6, <4>1, <4>2 DEF Stuck
      <4>5. ReadInv' /\ StreamInv'
        BY <1>1, <2>2, <4>2, <4>4 DEF ReadInv, StreamInv
      <4>6. QED
        BY <4>2, <4>3, <4>5 DEF TextInv
    <3>7. QED
      BY <1>5, <2>4, <3>4, <3>5, <3>6
  <2>6. CASE Opened \/ Printed
    <3>1. /\ text \in Seq(Bytes) /\ (Len(text) > 0 => text[Len(text)][2] # 1)
          /\ IsText /\ Len(shown) <= Len(served)
          /\ Begins((shown \o text) \o Rest(buf), served \o Pieces(EndOf(cmd)))
          /\ Begins(shown \o text, served \o Pieces(EndOf(cmd)))
      BY <1>3, <1>5, <2>6, PacketText
    <3>2. /\ ~Has(text, EndOf(cmd)) => Len(shown \o text) <= Len(served)
          /\ (\A j \in 1 .. Len(served) : served[j][1] # EndOf(cmd)) /\ Has(text, EndOf(cmd)) =>
               shown \o Upto(text, EndOf(cmd)) = served
      BY <1>3, <2>3, <3>1, EndFound
    <3>3. CASE Has(text, EndOf(cmd)) /\ Finish("end") /\ shown' = shown \o Upto(text, EndOf(cmd))
      <4>1. shown' \in Seq(Bytes)
        BY <1>3, <3>1, <3>3, UptoBytes, Joined
      <4>2. ASSUME Unmarked PROVE shown' = served
        <5>1. PICK d \in Docs : served = Text(d)
          BY <3>1 DEF IsText
        <5>2. \A j \in 1 .. Len(served) : served[j][1] # EndOf(cmd)
          BY <4>2, <5>1, NoEndInside
        <5>3. QED
          BY <3>2, <3>3, <5>2
      <4>3. QED
        BY <1>1, <1>a, <2>1, <3>3, <4>1, <4>2, TextFinish
    <3>4. CASE ~Has(text, EndOf(cmd)) /\ Keep(buf) /\ shown' = shown \o text /\ first' = FALSE
      <4>1. s2c' = Rest(buf)
        BY <3>4 DEF Keep
      <4>2. FreshInv' /\ outcome' # "end" /\ pc' = "recv" /\ c2s' = <<>>
        BY <1>1, <1>3, <2>1, <3>4, FreshKeep
      <4>3. ByteInv'
        BY <1>3, <1>a, <3>1, <3>4, Joined
      <4>4. IsText'
        BY <1>1, <3>1 DEF IsText
      <4>5. Begins(shown' \o s2c', served' \o Pieces(EndOf(cmd'))) /\ Len(shown') <= Len(served')
        BY <1>1, <3>1, <3>2, <3>4, <4>1
      <4>6. Printed'
        BY <3>4, <4>2, <4>4, <4>5 DEF Printed
      <4>7. ReadInv' /\ StreamInv'
        BY <1>1, <2>2, <4>2, <4>6 DEF ReadInv, StreamInv
      <4>8. QED
        BY <4>2, <4>3, <4>7 DEF TextInv
    <3>5. QED
      BY <1>5, <2>4, <3>3, <3>4
  <2>7. QED
    BY <2>2, <2>5, <2>6
<1>6. QED
  <2>1. \/ Closed /\ Finish("lost") /\ UNCHANGED shown
        \/ \E buf \in Packets : \E text :
             /\ text = IF first /\ Has(buf, HeadOf(cmd)) THEN Past(buf, HeadOf(cmd)) ELSE buf
             /\ \/ Finish("stop") /\ UNCHANGED shown
                \/ Has(text, EndOf(cmd)) /\ Finish("end") /\ shown' = shown \o Upto(text, EndOf(cmd))
                \/ ~Has(text, EndOf(cmd)) /\ Keep(buf) /\ shown' = shown \o text /\ first' = FALSE
    BY DEF MarkedReply
  <2>2. QED
    BY <1>4, <1>5, <2>1

\* The loop of STREAM.
LEMMA StreamText ==
  ASSUME Whole, TypeOK, SessionInv, TextInv, cmd = "STREAM", SocketStep, StreamReply
  PROVE  TextInv'
<1>1. /\ pc = "recv" /\ Alone /\ sock /\ cmd \in Printing /\ cmd \notin Texts
      /\ UNCHANGED <<cmd, ss, editing, served, todo>>
  BY PrintMarkers DEF StreamReply, Alone, SessionInv, LineInv, Printing
<1>2. s2c' \in Seq(Bytes) /\ served' \in Seq(Bytes) /\ todo' \in Seq(STRING)
  BY SocketBytes DEF TextInv
<1>3. /\ shown \in Seq(Bytes) /\ served \in Seq(Bytes) /\ s2c \in Seq(Bytes) /\ FreshInv /\ StreamInv
      /\ Begins(shown, Opening \o served)
  BY <1>1 DEF TextInv, ByteInv, StreamInv
<1>a. ASSUME shown' \in Seq(Bytes) PROVE ByteInv'
  BY <1>2, <1>a DEF ByteInv
<1>4. ASSUME NEW r, Finish(r), UNCHANGED shown, c2s = <<>> PROVE TextInv'
  BY <1>1, <1>3, <1>4, <1>a, TextFinish
<1>5. ASSUME Closed, Finish("lost"), UNCHANGED shown PROVE TextInv'
  <2>1. c2s = <<>>
    BY <1>1, <1>5 DEF SessionInv, LineInv, Closed
  <2>2. QED
    BY <1>4, <1>5, <2>1
<1>6. ASSUME NEW buf \in Packets, \E r : Finish(r), UNCHANGED shown PROVE TextInv'
  <2>1. c2s = <<>>
    BY <1>1, <1>6, ReplyComes DEF SessionInv
  <2>2. QED
    BY <1>4, <1>6, <2>1
<1>7. ASSUME NEW buf \in Packets, ~Has(buf, "STREAM_COMPLETE"), ~Has(buf, "EMPTY_FILE_STREAM"),
             ~HasError(buf), Keep(buf), shown' = shown \o buf
      PROVE  TextInv'
  <2>1. c2s = <<>> /\ s2c # <<>>
    BY <1>1, <1>7, ReplyComes DEF SessionInv
  <2>2. "STREAM_COMPLETE" \in Markers /\ "EMPTY_FILE_STREAM" \in Markers /\ "ERR_404" \in Markers
    BY PrintMarkers
  <2>3. ~Refused({"ERR_404", "EMPTY_FILE_STREAM"})
    <3>1. SUFFICES ASSUME NEW m \in {"ERR_404", "EMPTY_FILE_STREAM"}, s2c = Pieces(m) PROVE FALSE
      BY DEF Refused
    <3>2. m \in Markers
      BY <2>2
    <3>3. buf = Pieces(m)
      BY <1>7, <3>1, <3>2, WholeMarker
    <3>4. Len(buf) = 2 /\ buf[1] = <<m, 1>> /\ buf[2] = <<m, 2>> /\ buf \in Seq(Bytes)
      BY <3>2, <3>3, MarkerPieces
    <3>5. CASE m = "ERR_404"
      <4>1. 1 \in DOMAIN buf
        BY <3>4, LenProperties
      <4>2. buf[1][1] \in Errors /\ buf[1][2] = 1
        BY <3>4, <3>5 DEF Errors
      <4>3. QED
        BY <1>7, <4>1, <4>2 DEF HasError
    <3>6. CASE m = "EMPTY_FILE_STREAM"
      <4>1. 1 \in 1 .. Len(buf) - 1 /\ 1 + 1 = 2
        BY <3>4
      <4>2. 1 \in Places(buf, m)
        BY <3>2, <3>4, <4>1, PlaceOf
      <4>3. QED
        BY <1>7, <3>6, <4>2 DEF Has
    <3>7. QED
      BY <3>1, <3>5, <3>6
  <2>4. Streaming \/ Streamed
    BY <1>1, <1>3, <2>1, <2>3 DEF StreamInv, Unanswered
  <2>5. PICK r \in Seq(Bytes) : r = Rest(buf) /\ buf \o r = s2c
    BY <1>3, <1>7, PacketForm
  <2>6. buf \in Seq(Bytes) /\ Len(buf) > 0 /\ buf[Len(buf)][2] # 1
    BY <1>3, <1>7, PacketForm
  <2>7. PICK x \in Seq(Bytes) : x = shown
    BY <1>3
  <2>8. /\ x \o buf \in Seq(Bytes) /\ (x \o buf) \o r = x \o (buf \o r)
        /\ Begins(x \o buf, (x \o buf) \o r) /\ (x \o buf) \o r \in Seq(Bytes)
    <3>1. x \o buf \in Seq(Bytes)
      BY <2>6, Joined
    <3>2. (x \o buf) \o r = x \o (buf \o r)
      BY <2>6, Joined
    <3>3. Begins(x \o buf, (x \o buf) \o r) /\ (x \o buf) \o r \in Seq(Bytes)
      BY <3>1, BeginsConcat, Joined
    <3>4. QED
      BY <3>1, <3>2, <3>3
  <2>9. shown' = x \o buf /\ s2c' = r /\ shown' \o s2c' = shown \o s2c
    BY <1>7, <2>5, <2>7, <2>8 DEF Keep
  <2>10. FreshInv' /\ outcome' # "end" /\ pc' = "recv" /\ c2s' = <<>>
    BY <1>1, <1>3, <1>7, <2>1, FreshKeep
  <2>11. ByteInv'
    BY <1>a, <2>8, <2>9
  <2>12. PICK t \in Seq(Bytes) : t = Opening \o served
    BY <1>3, PrintMarkers, Joined
  <2>13. PICK y \in Seq(Bytes) : y = shown \o s2c /\ Begins(x \o buf, y) /\ y = shown' \o s2c'
    BY <2>5, <2>7, <2>8, <2>9
  <2>14. ASSUME Begins(x \o buf, t), Streaming' \/ Streamed' PROVE TextInv'
    <3>1. StreamInv'
      BY <1>1, <2>9, <2>12, <2>14 DEF StreamInv
    <3>2. ReadInv'
      BY <1>1 DEF ReadInv
    <3>3. QED
      BY <2>10, <2>11, <3>1, <3>2 DEF TextInv
  <2>15. CASE Streaming
    <3>a. PICK d \in Docs : \E i \in 0 .. Len(d) :
            /\ served = Text(d) /\ todo = SubSeq(d, i + 1, Len(d))
            /\ shown \o s2c = Opening \o Text(SubSeq(d, 1, i))
      BY <2>15 DEF Streaming
    <3>1. PICK i \in 0 .. Len(d) :
            /\ served = Text(d) /\ todo = SubSeq(d, i + 1, Len(d))
            /\ shown \o s2c = Opening \o Text(SubSeq(d, 1, i))
      BY <3>a
    <3>2. Streaming'
      BY <1>1, <2>9, <2>10, <2>15, <3>1 DEF Streaming
    <3>3. d \in Seq(STRING)
      BY <3>1, DocsAssumption
    <3>4. PICK a \in Seq(Bytes), b \in Seq(Bytes) :
            a = Text(SubSeq(d, 1, i)) /\ b = Text(d) /\ Begins(a, b)
      BY <3>1, <3>3, TextParts, TextBegins
    <3>5. Begins(Opening \o a, Opening \o b)
      BY <3>4, PrintMarkers, BeginsConcat
    <3>6. Begins(y, t)
      BY <2>12, <2>13, <3>1, <3>4, <3>5
    <3>7. PICK q \in Seq(Bytes) : q = x \o buf
      BY <2>8
    <3>8. Begins(q, y)
      BY <2>13, <3>7
    <3>9. Begins(q, t)
      BY <3>6, <3>8, Joined
    <3>10. QED
      BY <2>14, <3>2, <3>7, <3>9
  <2>16. CASE Streamed
    <3>1. PICK z \in Seq(Bytes) : z = t \o Pieces("STREAM_COMPLETE")
      BY <2>2, MarkerPieces, Joined
    <3>2. Begins(y, z)
      BY <2>12, <2>13, <2>16, <3>1 DEF Streamed
    <3>3. PICK q \in Seq(Bytes) : q = x \o buf
      BY <2>8
    <3>4. Begins(q, y)
      BY <2>13, <3>3
    <3>5. Begins(q, z)
      BY <3>2, <3>4, Joined
    <3>6. Len(x) <= Len(t)
      BY <1>3, <2>7, <2>12 DEF Begins
    <3>7. Begins(x \o buf, t \o Pieces("STREAM_COMPLETE"))
      BY <3>1, <3>3, <3>5
    <3>8. Len(x \o buf) <= Len(t)
      BY <1>7, <2>2, <2>6, <3>6, <3>7, EndFound
    <3>9. Begins(q, t)
      <4>1. PICK p \in Seq(Bytes) : p = Pieces("STREAM_COMPLETE")
        BY <2>2, MarkerPieces
      <4>2. Begins(q, t \o p) /\ Len(q) <= Len(t)
        BY <3>3, <3>7, <3>8, <4>1
      <4>3. QED
        BY <4>2, BeginsParts
    <3>10. Streamed'
      BY <1>1, <2>9, <2>10, <2>16 DEF Streamed
    <3>11. QED
      BY <2>14, <3>3, <3>9, <3>10
  <2>17. QED
    BY <2>4, <2>15, <2>16
<1>8. QED
  BY <1>5, <1>6, <1>7 DEF StreamReply

\* The command is sent, and its answer is to come.
LEMMA TextAsked ==
  ASSUME ByteInv', FreshInv', pc' = "recv", Unanswered', ss' \in {"none", "command"}, outcome' # "end"
  PROVE  TextInv'
<1>1. Begins(<<>>, Opening \o served')
  <2>1. served' \in Seq(Bytes)
    BY DEF ByteInv
  <2>2. Opening \o served' \in Seq(Bytes)
    BY <2>1, PrintMarkers, ConcatProperties
  <2>3. QED
    BY <2>2, BeginsParts
<1>2. shown' = <<>>
  BY DEF Unanswered
<1>3. ReadInv'
  BY DEF ReadInv
<1>4. StreamInv'
  BY <1>1, <1>2 DEF StreamInv
<1>5. QED
  BY <1>3, <1>4 DEF TextInv

\* The client's steps on the socket.
LEMMA SocketText ==
  ASSUME Whole, TypeOK, SessionInv, TextInv, SocketStep
  PROVE  TextInv'
<1>1. s2c' \in Seq(Bytes) /\ served' \in Seq(Bytes) /\ todo' \in Seq(STRING)
  BY SocketBytes DEF TextInv
<1>2. UNCHANGED cmd
  BY DEF SocketStep, Connect, GiveUp, Greet, GreetOrClose, MarkedReply, StreamReply, OneReply,
     ViewRequestsReply, WriteReply, TypeLine, Alone
<1>3. CASE cmd \notin Printing
  <2>1. ByteInv'
    BY <1>1, <1>2, <1>3 DEF ByteInv
  <2>2. QED
    BY <1>2, <1>3, <2>1, TextOutside
<1>4. ASSUME cmd \in Printing, Connect \/ GiveUp \/ Greet \/ \E looks \in BOOLEAN : GreetOrClose(looks)
      PROVE  TextInv'
  <2>1. pc \in {"connect", "ack"} /\ UNCHANGED <<first, shown>>
    BY <1>4 DEF Connect, GiveUp, Greet, GreetOrClose, output
  <2>2. shown = <<>> /\ first /\ outcome # "end"
    BY <1>4, <2>1 DEF TextInv, FreshInv
  <2>3. shown' = <<>> /\ first'
    BY <2>1, <2>2
  <2>4. ByteInv'
    <3>1. shown' \in Seq(Bytes)
      BY <1>4, <2>1 DEF TextInv, ByteInv
    <3>2. QED
      BY <1>1, <3>1 DEF ByteInv
  <2>5. CASE Connect \/ GiveUp
    BY <2>2, <2>3, <2>4, <2>5, TextUnprinted DEF Connect, GiveUp, Return, output
  <2>6. CASE \E r \in {"error", "lost"} : Close(r)
    BY <2>3, <2>4, <2>6, TextUnprinted DEF Close, Return
  <2>7. ASSUME SendSS(cmd, "recv"), UNCHANGED outcome, s2c' = <<>>, ss # "user", Alone, pc = "ack"
        PROVE  TextInv'
    <3>1. pc' \in {"recv", "off"} /\ UNCHANGED <<ss, editing>>
      BY <2>7 DEF SendSS, Quit, Alone
    <3>2. CASE pc' = "off"
      BY <2>2, <2>3, <2>4, <2>7, <3>2, TextUnprinted
    <3>3. CASE pc' = "recv"
      <4>1. ss' \in {"none", "command"} /\ ~editing'
        BY <2>7, <3>1 DEF SessionInv, PlaceInv
      <4>2. FreshInv'
        BY <2>2, <2>3, <2>7, <3>3, <4>1 DEF FreshInv
      <4>3. Unanswered'
        BY <2>3, <2>7 DEF Unanswered
      <4>4. QED
        BY <2>2, <2>4, <2>7, <3>3, <4>1, <4>2, <4>3, TextAsked
    <3>4. QED
      BY <3>1, <3>2, <3>3
  <2>8. ASSUME pc = "ack", Alone, SendSS(cmd, "recv"), UNCHANGED outcome,
               (\E buf \in Packets : s2c' = Rest(buf)) \/ (Closed /\ UNCHANGED s2c)
        PROVE  TextInv'
    <3>1. sock
      BY <2>8 DEF SessionInv, LineInv
    <3>2. ASSUME NEW buf \in Packets, s2c' = Rest(buf) PROVE TextInv'
      <4>1. c2s = <<>> /\ s2c # <<>>
        BY <3>1, <3>2, ReplyComes DEF SessionInv
      <4>2. s2c = Pieces("USER_ACCEPTED") /\ ss # "user" /\ "USER_ACCEPTED" \in Markers
        BY <2>8, <4>1, RemoteCommands DEF SessionInv, PlaceInv
      <4>3. s2c' = <<>>
        BY <3>2, <4>2, WholeMarker
      <4>4. QED
        BY <2>7, <2>8, <4>2, <4>3
    <3>3. ASSUME Closed, UNCHANGED s2c PROVE TextInv'
      BY <2>7, <2>8, <3>3 DEF Closed
    <3>4. QED
      BY <2>8, <3>2, <3>3
  <2>9. CASE Greet
    BY <2>8, <2>9 DEF Greet, output
  <2>10. CASE \E looks \in BOOLEAN : GreetOrClose(looks)
    BY <2>6, <2>8, <2>10 DEF GreetOrClose
  <2>11. QED
    BY <1>4, <2>5, <2>9, <2>10
<1>5. ASSUME cmd \in Printing, TypeLine PROVE FALSE
  BY <1>5, PrintMarkers DEF TypeLine
<1>6. QED
  <2>1. CASE cmd \in Printing
    <3>1. cmd \notin OneLine /\ cmd # "VIEWREQUESTS" /\ cmd # "WRITE"
      BY <2>1, PrintMarkers
    <3>2. QED
      BY <1>4, <1>5, <2>1, <3>1, MarkedText, StreamText DEF SocketStep
  <2>2. QED
    BY <1>3, <2>1

\* What the storage server sends, and what it leaves when it stops.
LEMMA ServerBytes ==
  ASSUME ByteInv, SSThread \/ SSDown \/ SSUp
  PROVE  s2c' \in Seq(Bytes) /\ served' \in Seq(Bytes) /\ todo' \in Seq(STRING)
<1>1. s2c \in Seq(Bytes) /\ served \in Seq(Bytes) /\ todo \in Seq(STRING)
  BY DEF ByteInv
<1>2. ASSUME NEW bytes \in Seq(Bytes), SSSend(bytes) PROVE s2c' \in Seq(Bytes)
  BY <1>1, <1>2, Joined DEF SSSend
<1>3. ASSUME NEW m \in Markers, SSSend(Pieces(m)) PROVE s2c' \in Seq(Bytes)
  BY <1>2, <1>3, MarkerPieces
<1>4. ASSUME NEW d \in Docs PROVE Text(d) \in Seq(Bytes) /\ d \in Seq(STRING)
  <2>1. d \in Seq(STRING)
    BY <1>4, DocsAssumption
  <2>2. 0 \in 0 .. Len(d)
    BY <2>1, LenProperties
  <2>3. QED
    BY <2>1, <2>2, TextBegins
<1>5. ASSUME NEW m \in Markers, SSReplies(m)
      PROVE  s2c' \in Seq(Bytes) /\ served' \in Seq(Bytes) /\ todo' \in Seq(STRING)
  BY <1>1, <1>3, <1>5 DEF SSReplies
<1>6. ASSUME NEW h \in Markers, NEW e \in Markers, NEW d \in Docs, SSServes(h, d, e)
      PROVE  s2c' \in Seq(Bytes) /\ served' \in Seq(Bytes) /\ todo' \in Seq(STRING)
  <2>1. PICK a \in Seq(Bytes), b \in Seq(Bytes), c \in Seq(Bytes) :
          a = Pieces(h) /\ b = Text(d) /\ c = Pieces(e)
    BY <1>4, <1>6, MarkerPieces
  <2>2. a \o b \in Seq(Bytes)
    BY Joined
  <2>3. (a \o b) \o c \in Seq(Bytes)
    BY <2>2, Joined
  <2>4. QED
    BY <1>1, <1>2, <1>4, <1>6, <2>1, <2>3 DEF SSServes
<1>7. ASSUME SSUser
      PROVE  s2c' \in Seq(Bytes) /\ served' \in Seq(Bytes) /\ todo' \in Seq(STRING)
  BY <1>1, <1>3, <1>7, RemoteCommands DEF SSUser
<1>8. ASSUME SSCommand
      PROVE  s2c' \in Seq(Bytes) /\ served' \in Seq(Bytes) /\ todo' \in Seq(STRING)
  <2>1. \/ \E m \in Markers : SSReplies(m)
        \/ \E h \in Markers, e \in Markers, d \in Docs : SSServes(h, d, e)
        \/ \E d \in Docs : SSSend(Pieces("STREAM_START")) /\ todo' = d /\ served' = Text(d)
        \/ SSSend(Pieces("BYE")) /\ UNCHANGED <<todo, served>>
    BY <1>8 DEF SSCommand, SSWriteMode, SSRead, SSViewCheckpoint, SSListCheckpoints,
       SSViewRequests, SSStream, SSDo, SSWrite, SSExit, Markers, Errors
  <2>2. "STREAM_START" \in Markers /\ "BYE" \in Markers
    BY DEF Markers
  <2>3. QED
    BY <1>1, <1>3, <1>4, <1>5, <1>6, <2>1, <2>2
<1>9. ASSUME SSStreamWord
      PROVE  s2c' \in Seq(Bytes) /\ served' \in Seq(Bytes) /\ todo' \in Seq(STRING)
  <2>1. CASE todo = <<>>
    BY <1>1, <1>3, <1>9, <2>1, PrintMarkers DEF SSStreamWord
  <2>2. CASE todo # <<>>
    <3>1. Head(todo) \in STRING /\ Tail(todo) \in Seq(STRING)
      BY <1>1, <2>2, HeadTailProperties
    <3>2. Pieces(Head(todo)) \in Seq(Bytes)
      BY <3>1, PieceSeqs
    <3>3. QED
      BY <1>1, <1>2, <1>9, <2>2, <3>1, <3>2 DEF SSStreamWord
  <2>3. QED
    BY <2>1, <2>2
<1>10. ASSUME SSStreamCheck \/ SSHangUp \/ SSUp
       PROVE  s2c' \in Seq(Bytes) /\ served' \in Seq(Bytes) /\ todo' \in Seq(STRING)
  BY <1>1, <1>10, EmptySeq DEF SSStreamCheck, SSHangUp, SSUp
<1>11. ASSUME SSDown
       PROVE  s2c' \in Seq(Bytes) /\ served' \in Seq(Bytes) /\ todo' \in Seq(STRING)
  <2>1. PICK n \in 0 .. Len(s2c) : s2c' = SubSeq(s2c, 1, n)
    BY <1>11 DEF SSDown, Cuts
  <2>2. s2c' \in Seq(Bytes)
    BY <1>1, <2>1, CutParts
  <2>3. QED
    BY <1>1, <1>11, <2>2, EmptySeq DEF SSDown
<1>12. QED
  BY <1>7, <1>8, <1>9, <1>10, <1>11 DEF SSThread

\* After the command has printed, only EXIT is read, and it is not answered by a text.
LEMMA ServerAfter ==
  ASSUME SessionInv, c2s \in {<<>>, <<"EXIT">>}, SSThread \/ SSDown \/ SSUp
  PROVE  c2s' \in {<<>>, <<"EXIT">>} /\ served' = served
<1>1. ASSUME c2s # <<>>, c2s' \in Unread PROVE c2s' = <<>>
  BY <1>1, OneUnread
<1>2. c2s' \in {<<>>, <<"EXIT">>}
  BY <1>1 DEF SSThread, SSUser, SSCommand, SSStreamWord, SSStreamCheck, SSHangUp, SSDown, SSUp
<1>3. ASSUME SSCommand PROVE served' = served
  <2>1. Head(c2s) = "EXIT"
    BY <1>3, ShortReads DEF SSCommand
  <2>2. SSWriteMode(Head(c2s)) \/ SSExit
    BY <1>3, <2>1 DEF SSCommand
  <2>3. QED
    BY <2>2 DEF SSWriteMode, SSExit, SSReplies
<1>4. QED
  BY <1>2, <1>3 DEF SSThread, SSUser, SSStreamWord, SSStreamCheck, SSHangUp, SSDown, SSUp

\* client_handler_thread answers a command that prints: with a refusal, with a text, or with
\* the start of a STREAM.
LEMMA TextAnswered ==
  ASSUME TypeOK, SessionInv, TextInv, cmd \in Printing, pc = "recv", SSCommand
  PROVE  TextInv'
<1>1. /\ c2s = <<cmd>> /\ c2s' = <<>> /\ ss = "command" /\ Head(c2s) = cmd /\ sock /\ c2s # <<>>
      /\ UNCHANGED <<pc, cmd, sock, first, shown, outcome>>
  <2>1. c2s = <<cmd>> /\ ss = "command" /\ sock /\ c2s # <<>>
    BY DEF SSCommand, SessionInv, PlaceInv, LineInv
  <2>2. c2s' = <<>> /\ Head(c2s) = cmd
    BY <2>1, OneUnread, ShortReads DEF SSCommand
  <2>3. QED
    BY <2>1, <2>2 DEF SSCommand, SSOnly, output
<1>2. Unanswered /\ ~editing /\ outcome # "end"
  BY <1>1, PrintMarkers DEF TextInv, FreshInv, ReadInv, StreamInv, Printing, Refused, Stuck, Opened,
     Printed, Streaming, Streamed
<1>3. s2c = <<>> /\ shown' = <<>> /\ first'
  BY <1>1, <1>2 DEF Unanswered
<1>4. s2c' \in Seq(Bytes) /\ served' \in Seq(Bytes) /\ todo' \in Seq(STRING)
  BY ServerBytes DEF SSThread, TextInv
<1>5. ByteInv'
  <2>1. shown' \in Seq(Bytes)
    BY <1>1 DEF TextInv, ByteInv
  <2>2. QED
    BY <1>4, <2>1 DEF ByteInv
<1>6. Begins(<<>>, Opening \o served')
  <2>1. Opening \o served' \in Seq(Bytes)
    BY <1>4, PrintMarkers, ConcatProperties
  <2>2. QED
    BY <2>1, BeginsParts
<1>7. ASSUME NEW bytes \in Seq(Bytes), SSSend(bytes) PROVE s2c' = bytes
  BY <1>1, <1>3, <1>7, ConcatEmptySeq DEF SSSend
<1>8. cmd # "EXIT" /\ cmd \notin {"edit", "ETIRW", "WRITE", "VIEWREQUESTS"} /\ cmd \notin OneLine
  BY DEF Printing, Texts, OneLine
<1>9. ASSUME UNCHANGED editing PROVE FreshInv'
  BY <1>1, <1>2, <1>3, <1>9 DEF FreshInv
<1>10. ASSUME cmd \in Texts PROVE TextInv'
  <2>1. \/ cmd = "READ" /\ SSRead
        \/ cmd = "VIEWCHECKPOINT" /\ SSViewCheckpoint
        \/ cmd = "LISTCHECKPOINTS" /\ SSListCheckpoints
    BY <1>1, <1>2, <1>10 DEF SSCommand, Texts
  <2>2. UNCHANGED editing /\ cmd # "STREAM"
    BY <2>1 DEF SSRead, SSViewCheckpoint, SSListCheckpoints
  <2>3. \/ \E m \in {"ERR_404", "EMPTY_FILE", "EMPTY_CHECKPOINT"} : SSReplies(m)
        \/ \E d \in Docs : SSServes(HeadOf(cmd), d, EndOf(cmd))
    BY <2>1 DEF SSRead, SSViewCheckpoint, SSListCheckpoints, HeadOf, EndOf
  <2>4. ASSUME ss' = "command", Refused({"ERR_404", "EMPTY_FILE", "EMPTY_CHECKPOINT"})' \/ Opened'
        PROVE  TextInv'
    <3>1. ReadInv'
      BY <1>1, <1>2, <2>4 DEF ReadInv
    <3>2. StreamInv'
      BY <1>1, <2>2 DEF StreamInv
    <3>3. QED
      BY <1>5, <1>9, <2>2, <3>1, <3>2 DEF TextInv
  <2>5. ASSUME NEW m \in {"ERR_404", "EMPTY_FILE", "EMPTY_CHECKPOINT"}, SSReplies(m)
        PROVE  TextInv'
    <3>1. m \in Markers
      BY PrintMarkers
    <3>2. s2c' = Pieces(m) /\ ss' = "command"
      BY <1>1, <1>7, <2>5, <3>1, MarkerPieces DEF SSReplies
    <3>3. Refused({"ERR_404", "EMPTY_FILE", "EMPTY_CHECKPOINT"})'
      BY <1>1, <1>3, <3>2 DEF Refused
    <3>4. QED
      BY <2>4, <3>2, <3>3
  <2>6. ASSUME NEW d \in Docs, SSServes(HeadOf(cmd), d, EndOf(cmd)) PROVE TextInv'
    <3>1. served' = Text(d) /\ ss' = "command" /\ IsText'
      BY <1>1, <2>6 DEF SSServes, IsText
    <3>2. PICK a \in Seq(Bytes), b \in Seq(Bytes), c \in Seq(Bytes) :
            a = Pieces(HeadOf(cmd)) /\ b = Text(d) /\ c = Pieces(EndOf(cmd))
      BY <1>4, <3>1, PrintMarkers, MarkerPieces
    <3>3. (a \o b) \o c = a \o (b \o c) /\ a \o b \in Seq(Bytes) /\ (a \o b) \o c \in Seq(Bytes)
      <4>1. (a \o b) \o c = a \o (b \o c) /\ a \o b \in Seq(Bytes)
        BY Joined
      <4>2. (a \o b) \o c \in Seq(Bytes)
        BY <4>1, Joined
      <4>3. QED
        BY <4>1, <4>2
    <3>4. s2c' = (a \o b) \o c
      BY <1>7, <2>6, <3>2, <3>3 DEF SSServes
    <3>5. Begins(s2c', Pieces(HeadOf(cmd')) \o (served' \o Pieces(EndOf(cmd'))))
      <4>1. s2c' = Pieces(HeadOf(cmd')) \o (served' \o Pieces(EndOf(cmd')))
        BY <1>1, <3>1, <3>2, <3>3, <3>4
      <4>2. Len(s2c') \in Nat
        BY <1>4, LenProperties
      <4>3. Begins(s2c', s2c')
        BY <4>2 DEF Begins
      <4>4. QED
        BY <4>1, <4>3
    <3>6. Opened'
      BY <1>1, <1>3, <3>1, <3>5 DEF Opened
    <3>7. QED
      BY <2>4, <3>1, <3>6
  <2>7. QED
    BY <2>3, <2>5, <2>6
<1>11. ASSUME cmd = "STREAM" PROVE TextInv'
  <2>1. SSStream
    BY <1>1, <1>2, <1>11 DEF SSCommand
  <2>2. UNCHANGED editing /\ cmd \notin Texts
    BY <1>11, <2>1, PrintMarkers DEF SSStream
  <2>3. ASSUME \/ ss' = "command" /\ Refused({"ERR_404", "EMPTY_FILE_STREAM"})'
               \/ Streaming'
        PROVE  TextInv'
    <3>1. StreamInv'
      BY <1>3, <1>6, <2>3 DEF StreamInv
    <3>2. ReadInv'
      BY <1>1, <2>2 DEF ReadInv
    <3>3. QED
      BY <1>5, <1>9, <2>2, <3>1, <3>2 DEF TextInv
  <2>4. ASSUME NEW m \in {"ERR_404", "EMPTY_FILE_STREAM"}, SSReplies(m)
        PROVE  TextInv'
    <3>1. m \in Markers
      BY PrintMarkers
    <3>2. s2c' = Pieces(m) /\ ss' = "command"
      BY <1>1, <1>7, <2>4, <3>1, MarkerPieces DEF SSReplies
    <3>3. Refused({"ERR_404", "EMPTY_FILE_STREAM"})'
      BY <1>1, <1>3, <3>2 DEF Refused
    <3>4. QED
      BY <2>3, <3>2, <3>3
  <2>5. ASSUME NEW d \in Docs, SSSend(Pieces("STREAM_START")), ss' = "stream", todo' = d,
               served' = Text(d)
        PROVE  TextInv'
    <3>1. d \in Seq(STRING)
      BY <2>5, DocsAssumption
    <3>2. 0 \in 0 .. Len(d) /\ SubSeq(d, 0 + 1, Len(d)) = d
      BY <3>1, LenProperties, SubSeqFull
    <3>3. Opening \o Text(SubSeq(d, 1, 0)) = Opening
      BY <3>1, TextGrows, PrintMarkers, ConcatEmptySeq
    <3>4. s2c' = Opening
      BY <1>7, <2>5, PrintMarkers DEF Opening
    <3>5. shown' \o s2c' = Opening
      BY <1>3, <3>4, PrintMarkers, ConcatEmptySeq
    <3>6. Streaming'
      BY <1>1, <2>5, <3>2, <3>3, <3>5 DEF Streaming
    <3>7. QED
      BY <2>3, <3>6
  <2>6. QED
    BY <2>1, <2>4, <2>5 DEF SSStream
<1>12. QED
  BY <1>10, <1>11 DEF Printing

\* The loop of STREAM sends a word, or the end when all words are sent.
LEMMA TextStreams ==
  ASSUME TypeOK, SessionInv, TextInv, cmd \in Printing, pc = "recv", SSStreamWord \/ SSStreamCheck
  PROVE  TextInv'
<1>1. /\ ss \in {"stream", "pause"} /\ sock /\ UNCHANGED <<pc, cmd, sock, first, shown, outcome>>
      /\ UNCHANGED <<editing, served>>
  BY DEF SSStreamWord, SSStreamCheck, SSOnly, output, SessionInv, LineInv
<1>2. cmd = "STREAM" /\ cmd \notin Texts /\ Streaming
  BY <1>1, PrintMarkers DEF TextInv, ReadInv, StreamInv, Printing, Streamed
<1>3. c2s = <<>> /\ c2s' = <<>>
  BY <1>1, <1>2 DEF Streaming, SSStreamWord, SSStreamCheck
<1>4. s2c' \in Seq(Bytes) /\ served' \in Seq(Bytes) /\ todo' \in Seq(STRING)
  BY ServerBytes DEF SSThread, TextInv
<1>5. /\ shown \in Seq(Bytes) /\ s2c \in Seq(Bytes) /\ served \in Seq(Bytes)
      /\ Begins(shown, Opening \o served)
  BY <1>2 DEF TextInv, ByteInv, Printing, StreamInv
<1>6. ByteInv'
  BY <1>1, <1>4, <1>5 DEF ByteInv
<1>7. FreshInv'
  BY <1>1, <1>3 DEF TextInv, FreshInv
<1>8. ASSUME Streaming' \/ Streamed' PROVE TextInv'
  <2>1. StreamInv'
    BY <1>1, <1>5, <1>8 DEF StreamInv
  <2>2. ReadInv'
    BY <1>1, <1>2 DEF ReadInv
  <2>3. QED
    BY <1>6, <1>7, <2>1, <2>2 DEF TextInv
<1>9. PICK d \in Docs : \E i \in 0 .. Len(d) :
        /\ served = Text(d) /\ todo = SubSeq(d, i + 1, Len(d))
        /\ shown \o s2c = Opening \o Text(SubSeq(d, 1, i))
  BY <1>2 DEF Streaming
<1>10. PICK i \in 0 .. Len(d) :
        /\ served = Text(d) /\ todo = SubSeq(d, i + 1, Len(d))
        /\ shown \o s2c = Opening \o Text(SubSeq(d, 1, i))
  BY <1>9
<1>11. d \in Seq(STRING) /\ Len(d) \in Nat
  BY DocsAssumption, LenProperties
<1>12. ASSUME SSStreamCheck PROVE TextInv'
  <2>1. ss' = "stream" /\ UNCHANGED <<s2c, todo>>
    BY <1>1, <1>3, <1>12 DEF SSStreamCheck
  <2>2. Streaming'
    BY <1>1, <1>3, <1>10, <2>1 DEF Streaming
  <2>3. QED
    BY <1>8, <2>2
<1>13. PICK x \in Seq(Bytes), y \in Seq(Bytes), a \in Seq(Bytes), o \in Seq(Bytes) :
         x = shown /\ y = s2c /\ a = Text(SubSeq(d, 1, i)) /\ o = Opening /\ x \o y = o \o a
  BY <1>5, <1>10, <1>11, TextParts, PrintMarkers
<1>14. ASSUME NEW w \in Seq(Bytes), SSSend(w) PROVE shown' \o s2c' = o \o (a \o w)
  <2>1. s2c' = y \o w /\ shown' = x
    BY <1>1, <1>13, <1>14 DEF SSSend
  <2>2. (x \o y) \o w = x \o (y \o w) /\ (o \o a) \o w = o \o (a \o w)
    BY Joined
  <2>3. QED
    BY <1>13, <2>1, <2>2
<1>15. ASSUME SSStreamWord, todo = <<>> PROVE TextInv'
  <2>1. "STREAM_COMPLETE" \in Markers
    BY PrintMarkers
  <2>2. PICK w \in Seq(Bytes) : w = Pieces("STREAM_COMPLETE")
    BY <2>1, MarkerPieces
  <2>3. shown' \o s2c' = o \o (a \o w) /\ ss' = "command"
    BY <1>14, <1>15, <2>2 DEF SSStreamWord
  <2>4. i = Len(d)
    <3>1. Len(todo) = 0
      BY <1>15
    <3>2. i < Len(d) => Len(SubSeq(d, i + 1, Len(d))) = Len(d) - i
      <4>1. i + 1 \in Int /\ Len(d) \in Int /\ \A j \in i + 1 .. Len(d) : d[j] \in STRING
        BY <1>11, ElementOfSeq
      <4>2. Len(SubSeq(d, i + 1, Len(d))) = IF i + 1 <= Len(d) THEN Len(d) - (i + 1) + 1 ELSE 0
        BY <4>1, SubSeqProperties
      <4>3. QED
        BY <1>11, <4>2
    <3>3. QED
      BY <1>10, <1>11, <3>1, <3>2
  <2>5. a = served /\ served = served'
    BY <1>1, <1>10, <1>11, <1>13, <2>4, TextGrows
  <2>6. (o \o a) \o w = o \o (a \o w) /\ o \o a \in Seq(Bytes)
    BY Joined
  <2>7. PICK z \in Seq(Bytes) : z = (o \o a) \o w
    BY <2>6, Joined
  <2>8. Begins(z, z)
    <3>1. Len(z) \in Nat
      BY LenProperties
    <3>2. QED
      BY <3>1 DEF Begins
  <2>9. z = shown' \o s2c' /\ z = (Opening \o served') \o Pieces("STREAM_COMPLETE")
    BY <1>13, <2>2, <2>3, <2>5, <2>6, <2>7
  <2>10. Streamed'
    BY <1>3, <2>3, <2>8, <2>9 DEF Streamed
  <2>11. QED
    BY <1>8, <2>10
<1>16. ASSUME SSStreamWord, todo # <<>> PROVE TextInv'
  <2>1. i < Len(d)
    <3>1. i = Len(d) => SubSeq(d, i + 1, Len(d)) = <<>>
      BY <1>11, SubSeqEmpty
    <3>2. QED
      BY <1>10, <1>11, <1>16, <3>1
  <2>2. Head(todo) = d[i + 1] /\ Tail(todo) = SubSeq(d, (i + 1) + 1, Len(d))
    BY <1>10, <1>11, <2>1, HeadTailOfSubSeq
  <2>3. d[i + 1] \in STRING /\ i + 1 \in 0 .. Len(d) /\ i \in 0 .. Len(d) - 1
    BY <1>11, <2>1, ElementOfSeq
  <2>4. PICK w \in Seq(Bytes) : w = Pieces(d[i + 1])
    BY <2>3, PieceSeqs
  <2>5. shown' \o s2c' = o \o (a \o w) /\ ss' = "pause" /\ todo' = Tail(todo)
    BY <1>14, <1>16, <2>2, <2>4 DEF SSStreamWord
  <2>6. Text(SubSeq(d, 1, i + 1)) = a \o w
    BY <1>11, <1>13, <2>3, <2>4, TextGrows
  <2>7. PICK j \in 0 .. Len(d) : j = i + 1
    BY <2>3
  <2>8. /\ served' = Text(d) /\ todo' = SubSeq(d, j + 1, Len(d))
        /\ shown' \o s2c' = Opening \o Text(SubSeq(d, 1, j))
    BY <1>1, <1>10, <1>13, <2>2, <2>5, <2>6, <2>7
  <2>9. Streaming'
    BY <1>3, <2>5, <2>8 DEF Streaming
  <2>10. QED
    BY <1>8, <2>9
<1>17. QED
  BY <1>12, <1>15, <1>16

\* The storage server stops: what it has sent is cut somewhere.
LEMMA TextCut ==
  ASSUME Whole, TypeOK, SessionInv, TextInv, cmd \in Printing, pc = "recv", SSDown
  PROVE  TextInv'
<1>1. /\ c2s' = <<>> /\ ss' = "none" /\ editing' = FALSE /\ s2c' \in Cuts(s2c)
      /\ UNCHANGED <<pc, cmd, first, shown, outcome, served>>
  BY DEF SSDown, output
<1>2. s2c \in Seq(Bytes) /\ shown \in Seq(Bytes) /\ served \in Seq(Bytes)
  BY DEF TextInv, ByteInv
<1>3. s2c' \in Seq(Bytes) /\ served' \in Seq(Bytes) /\ todo' \in Seq(STRING)
  BY ServerBytes DEF TextInv
<1>4. ByteInv'
  BY <1>1, <1>2, <1>3 DEF ByteInv
<1>5. FreshInv' /\ outcome' # "end"
  BY <1>1 DEF TextInv, FreshInv
<1>6. PICK n \in 0 .. Len(s2c) : s2c' = SubSeq(s2c, 1, n)
  BY <1>1 DEF Cuts
<1>7. PICK x \in Seq(Bytes), y \in Seq(Bytes), c \in Seq(Bytes) :
        x = shown /\ y = s2c /\ c = s2c' /\ Begins(c, y)
  BY <1>2, <1>3, <1>6, CutParts
<1>8. Begins(x \o c, x \o y) /\ x \o c \in Seq(Bytes) /\ x \o y \in Seq(Bytes)
  BY <1>7, BeginsConcat, Joined
<1>9. ASSUME NEW z \in Seq(Bytes), Begins(shown \o s2c, z) PROVE Begins(shown' \o s2c', z)
  <2>1. PICK p \in Seq(Bytes), q \in Seq(Bytes) : p = x \o c /\ q = x \o y
    BY <1>8
  <2>2. Begins(p, q) /\ Begins(q, z)
    BY <1>7, <1>8, <1>9, <2>1
  <2>3. Begins(p, z)
    BY <2>2, Joined
  <2>4. QED
    BY <1>1, <1>7, <2>1, <2>3
<1>10. ASSUME NEW z \in Seq(Bytes), Begins(s2c, z) PROVE Begins(s2c', z)
  <2>1. Begins(c, z)
    BY <1>7, <1>10, Joined
  <2>2. QED
    BY <1>7, <2>1
<1>11. ASSUME Unanswered PROVE Unanswered'
  BY <1>1, <1>11, NoPackets DEF Unanswered
<1>12. ASSUME NEW ms, ms \subseteq Markers, Refused(ms) PROVE Unanswered' \/ Refused(ms)'
  <2>1. PICK m \in ms : s2c = Pieces(m)
    BY <1>12 DEF Refused
  <2>2. s2c' \in {<<>>, Pieces(m)}
    BY <1>1, <1>12, <2>1, WholeMarker
  <2>3. QED
    BY <1>1, <1>12, <2>1, <2>2 DEF Refused, Unanswered
<1>13. CASE cmd \in Texts
  <2>1. cmd # "STREAM" /\ {"ERR_404", "EMPTY_FILE", "EMPTY_CHECKPOINT"} \subseteq Markers
    BY <1>13, PrintMarkers
  <2>2. HeadOf(cmd) \in Markers /\ EndOf(cmd) \in Markers
    BY PrintMarkers
  <2>3. PICK h \in Seq(Bytes), e \in Seq(Bytes), t \in Seq(Bytes) :
          h = Pieces(HeadOf(cmd)) /\ e = Pieces(EndOf(cmd)) /\ t = served
    BY <1>2, <2>2, MarkerPieces
  <2>4. t \o e \in Seq(Bytes) /\ h \o (t \o e) \in Seq(Bytes)
    <3>1. t \o e \in Seq(Bytes)
      BY Joined
    <3>2. QED
      BY <3>1, Joined
  <2>5. IsText => IsText'
    BY <1>1 DEF IsText
  <2>6. ASSUME Opened PROVE Opened'
    <3>1. Begins(s2c, h \o (t \o e))
      BY <2>3, <2>6 DEF Opened
    <3>2. Begins(s2c', h \o (t \o e))
      BY <1>10, <2>4, <3>1
    <3>3. QED
      BY <1>1, <2>3, <2>5, <2>6, <3>2 DEF Opened
  <2>7. ASSUME Printed PROVE Printed'
    <3>1. Begins(shown \o s2c, t \o e)
      BY <2>3, <2>7 DEF Printed
    <3>2. Begins(shown' \o s2c', t \o e)
      BY <1>9, <2>4, <3>1
    <3>3. QED
      BY <1>1, <2>3, <2>5, <2>7, <3>2 DEF Printed
  <2>8. ASSUME Stuck PROVE Stuck'
    BY <1>1, <2>8, NoPackets DEF Stuck
  <2>9. \/ Unanswered' \/ Refused({"ERR_404", "EMPTY_FILE", "EMPTY_CHECKPOINT"})'
        \/ Stuck' \/ Opened' \/ Printed'
    <3>1. \/ Unanswered \/ Refused({"ERR_404", "EMPTY_FILE", "EMPTY_CHECKPOINT"})
          \/ Stuck \/ Opened \/ Printed
      BY <1>13 DEF TextInv, ReadInv
    <3>2. QED
      BY <1>11, <1>12, <2>1, <2>6, <2>7, <2>8, <3>1
  <2>10. ReadInv' /\ StreamInv'
    BY <1>1, <1>5, <2>1, <2>9 DEF ReadInv, StreamInv
  <2>11. QED
    BY <1>4, <1>5, <2>10 DEF TextInv
<1>14. CASE cmd = "STREAM"
  <2>1. cmd \notin Texts /\ {"ERR_404", "EMPTY_FILE_STREAM"} \subseteq Markers
    BY <1>14, PrintMarkers
  <2>a. "STREAM_COMPLETE" \in Markers /\ Opening \in Seq(Bytes)
    BY PrintMarkers
  <2>2. PICK o \in Seq(Bytes), t \in Seq(Bytes), e \in Seq(Bytes) :
          o = Opening /\ t = served /\ e = Pieces("STREAM_COMPLETE")
    BY <1>2, <2>a, MarkerPieces
  <2>3. PICK u \in Seq(Bytes) : u = o \o t
    BY Joined
  <2>b. u \o e \in Seq(Bytes) /\ Begins(u, u \o e)
    <3>1. u \o e \in Seq(Bytes)
      BY Joined
    <3>2. Begins(u, u \o e)
      BY BeginsConcat
    <3>3. QED
      BY <3>1, <3>2
  <2>4. PICK z \in Seq(Bytes) : z = u \o e /\ Begins(u, z)
    BY <2>b
  <2>5. ASSUME Begins(shown \o s2c, z) PROVE Streamed'
    <3>1. Begins(shown' \o s2c', z)
      BY <1>9, <2>5
    <3>2. z = (Opening \o served') \o Pieces("STREAM_COMPLETE")
      BY <1>1, <2>2, <2>3, <2>4
    <3>3. QED
      BY <1>1, <3>1, <3>2 DEF Streamed
  <2>6. ASSUME Streamed PROVE Streamed'
    <3>1. Begins(shown \o s2c, z)
      BY <2>2, <2>3, <2>4, <2>6 DEF Streamed
    <3>2. QED
      BY <2>5, <3>1
  <2>7. ASSUME Streaming PROVE Streamed'
    <3>1. PICK d \in Docs : \E i \in 0 .. Len(d) :
            served = Text(d) /\ shown \o s2c = Opening \o Text(SubSeq(d, 1, i))
      BY <2>7 DEF Streaming
    <3>2. PICK i \in 0 .. Len(d) :
            served = Text(d) /\ shown \o s2c = Opening \o Text(SubSeq(d, 1, i))
      BY <3>1
    <3>3. d \in Seq(STRING)
      BY DocsAssumption
    <3>4. PICK a \in Seq(Bytes) : a = Text(SubSeq(d, 1, i)) /\ Begins(a, t)
      BY <2>2, <3>2, <3>3, TextParts, TextBegins
    <3>a. o \o a \in Seq(Bytes) /\ Begins(o \o a, o \o t)
      <4>1. o \o a \in Seq(Bytes)
        BY Joined
      <4>2. Begins(o \o a, o \o t)
        BY <3>4, BeginsConcat
      <4>3. QED
        BY <4>1, <4>2
    <3>5. PICK w \in Seq(Bytes) : w = o \o a /\ Begins(w, u)
      BY <2>3, <3>a
    <3>6. Begins(w, z)
      BY <2>4, <3>5, Joined
    <3>7. QED
      BY <2>2, <2>5, <3>2, <3>4, <3>5, <3>6
  <2>8. Unanswered' \/ Refused({"ERR_404", "EMPTY_FILE_STREAM"})' \/ Streamed'
    <3>1. Unanswered \/ Refused({"ERR_404", "EMPTY_FILE_STREAM"}) \/ Streaming \/ Streamed
      BY <1>14 DEF TextInv, StreamInv
    <3>2. QED
      BY <1>11, <1>12, <2>1, <2>6, <2>7, <3>1
  <2>9. Begins(shown', Opening \o served')
    BY <1>1, <1>14 DEF TextInv, StreamInv
  <2>10. StreamInv' /\ ReadInv'
    BY <1>1, <2>1, <2>8, <2>9 DEF StreamInv, ReadInv
  <2>11. QED
    BY <1>4, <1>5, <2>10 DEF TextInv
<1>15. QED
  BY <1>13, <1>14 DEF Printing

\* The storage server's steps.
LEMMA ServerText ==
  ASSUME Whole, TypeOK, SessionInv, TextInv, SSThread \/ SSDown \/ SSUp
  PROVE  TextInv'
<1>1. UNCHANGED <<pc, cmd, sock, first, shown, outcome>>
  BY ServerEffects DEF output
<1>2. ByteInv'
  <2>1. s2c' \in Seq(Bytes) /\ served' \in Seq(Bytes) /\ todo' \in Seq(STRING)
    BY ServerBytes DEF TextInv
  <2>2. QED
    BY <1>1, <2>1 DEF TextInv, ByteInv
<1>3. CASE cmd \notin Printing
  BY <1>1, <1>2, <1>3, TextOutside
<1>4. CASE cmd \in Printing /\ pc # "recv"
  <2>1. CASE shown = <<>> /\ outcome # "end"
    <3>1. first \/ pc \in {"prompt", "off"}
      BY <1>4 DEF TextInv, FreshInv
    <3>2. QED
      BY <1>1, <1>2, <1>4, <2>1, <3>1, TextUnprinted
  <2>2. CASE shown # <<>> \/ outcome = "end"
    <3>1. pc \in {"prompt", "off"} /\ c2s \in {<<>>, <<"EXIT">>}
      BY <1>4, <2>2 DEF TextInv, FreshInv
    <3>2. c2s' \in {<<>>, <<"EXIT">>} /\ served' = served
      BY <3>1, ServerAfter
    <3>3. cmd \in Texts /\ outcome = "end" /\ Unmarked => shown = served
      BY DEF TextInv, ReadInv
    <3>4. cmd = "STREAM" => Begins(shown, Opening \o served)
      BY DEF TextInv, StreamInv
    <3>5. QED
      BY <1>1, <1>2, <3>1, <3>2, <3>3, <3>4, TextOutside
  <2>3. QED
    BY <2>1, <2>2
<1>5. CASE cmd \in Printing /\ pc = "recv"
  <2>1. sock /\ ss # "user"
    BY <1>5 DEF SessionInv, LineInv, PlaceInv
  <2>2. ~SSUser /\ ~SSHangUp
    BY <2>1 DEF SSUser, SSHangUp
  <2>3. CASE SSUp
    <3>1. UNCHANGED <<pc, cmd, c2s, s2c, ss, editing, todo, served, first, shown, outcome>>
      BY <2>3 DEF SSUp, output
    <3>2. FreshInv' /\ StreamInv'
      BY <3>1 DEF TextInv, FreshInv, StreamInv, Unanswered, Refused, Streaming, Streamed
    <3>3. ReadInv'
      BY <3>1 DEF TextInv, ReadInv, Unanswered, Refused, Stuck, IsText, Opened, Printed
    <3>4. QED
      BY <1>2, <3>2, <3>3 DEF TextInv
  <2>4. QED
    BY <1>5, <2>2, <2>3, TextAnswered, TextStreams, TextCut DEF SSThread
<1>6. QED
  BY <1>3, <1>4, <1>5

\* Every step keeps what is printed in agreement with what is sent.
LEMMA TextStep ==
  ASSUME Whole, TypeOK, SessionInv, TextInv, [Next]_vars
  PROVE  TextInv'
<1>1. ASSUME UNCHANGED <<ssVars, cmd, first, shown>>, pc \notin {"recv", "prompt", "off"},
             pc' # "recv", outcome' = outcome \/ outcome' # "end"
      PROVE  TextInv'
  <2>1. ByteInv'
    BY <1>1 DEF ssVars, TextInv, ByteInv
  <2>2. CASE cmd \notin Printing
    BY <1>1, <2>1, <2>2, TextOutside
  <2>3. CASE cmd \in Printing
    <3>1. shown = <<>> /\ first /\ outcome # "end"
      BY <1>1, <2>3 DEF TextInv, FreshInv
    <3>2. QED
      BY <1>1, <2>1, <3>1, TextUnprinted
  <2>4. QED
    BY <2>2, <2>3
<1>2. ASSUME LoginReply
      PROVE  TextInv'
  BY <1>1, <1>2 DEF LoginReply, Quit, output
<1>3. ASSUME AckRead \/ EmptyRead \/ RefusalRead \/ ListingRead \/ Announced \/ AddressRead
      PROVE  TextInv'
  BY <1>1, <1>3 DEF AckRead, EmptyRead, RefusalRead, ListingRead, Announced, AddressRead,
     HeaderRead, PayloadRead
<1>4. ASSUME ReadFails
      PROVE  TextInv'
  BY <1>1, <1>4 DEF ReadFails, Return
<1>5. ASSUME handle_exec_command
      PROVE  TextInv'
  BY <1>1, <1>5 DEF handle_exec_command, Connected, Quit
<1>6. ASSUME Reported
      PROVE  TextInv'
  BY <1>1, <1>6 DEF Reported, ReportDead, ReportRead, SendNS, Quit, Return, output
<1>7. ASSUME SocketStep
      PROVE  TextInv'
  BY <1>7, SocketText
<1>8. ASSUME Start \/ \E c \in Commands : Command(c)
      PROVE  TextInv'
  <2>1. pc' # "recv" /\ shown' = <<>> /\ first' /\ outcome' = "none"
    BY <1>8 DEF Start, Connected, Command, SendNS, Quit
  <2>2. UNCHANGED <<s2c, todo>> /\ served' \in {served, <<>>}
    BY <1>8 DEF Start, Command, ssVars
  <2>3. <<>> \in Seq(Bytes)
    BY EmptySeq
  <2>4. ByteInv'
    BY <2>1, <2>2, <2>3 DEF TextInv, ByteInv
  <2>5. QED
    BY <2>1, <2>4, TextUnprinted
<1>9. ASSUME Leave
      PROVE  TextInv'
  <2>1. pc # "off" /\ pc' = "off" /\ UNCHANGED <<cmd, c2s, s2c, todo, served, first, shown, outcome>>
    BY <1>9 DEF Leave, Quit, ssVars, output
  <2>2. ByteInv'
    BY <2>1 DEF TextInv, ByteInv
  <2>3. cmd \in Printing /\ (shown # <<>> \/ outcome = "end") => c2s \in {<<>>, <<"EXIT">>}
    BY DEF TextInv, FreshInv
  <2>4. cmd \in Texts /\ outcome = "end" /\ Unmarked => shown = served
    BY DEF TextInv, ReadInv
  <2>5. cmd = "STREAM" => Begins(shown, Opening \o served)
    BY DEF TextInv, StreamInv
  <2>6. QED
    BY <2>1, <2>2, <2>3, <2>4, <2>5, TextOutside
<1>10. ASSUME NSThread \/ NSAsked \/ NSDown \/ NSUp \/ UNCHANGED vars
       PROVE  TextInv'
  <2>1. UNCHANGED <<pc, cmd, c2s, s2c, ss, editing, todo, served, first, shown, outcome>>
    BY <1>10 DEF NSThread, NSDown, NSUp, NSRegister, NSHeader, NSReceive, NSAnswer, NSAsk,
       NSAsked, NSAskFails, NSReplies, NSHangUp, NSOnly, vars, ssVars, output
  <2>2. FreshInv' /\ StreamInv'
    BY <2>1 DEF TextInv, FreshInv, StreamInv, Unanswered, Refused, Streaming, Streamed
  <2>3. ReadInv'
    BY <2>1 DEF TextInv, ReadInv, Unanswered, Refused, Stuck, IsText, Opened, Printed
  <2>4. ByteInv'
    BY <2>1 DEF TextInv, ByteInv
  <2>5. QED
    BY <2>2, <2>3, <2>4 DEF TextInv
<1>11. ASSUME SSThread \/ SSDown \/ SSUp
       PROVE  TextInv'
  BY <1>11, ServerText
<1>12. QED
  BY <1>2, <1>3, <1>4, <1>5, <1>6, <1>7, <1>8, <1>9, <1>10, <1>11, ClientForms
     DEF Next, User, SocketStep

\* The invariant holds in every state when no recv ends inside a marker.
LEMMA TextsKept ==
  ASSUME Whole
  PROVE  Spec => []TextInv
<1>1. Init => TextInv
  <2>1. SUFFICES ASSUME Init PROVE TextInv
    OBVIOUS
  <2>2. ByteInv
    BY <2>1, EmptySeq DEF Init, ByteInv
  <2>3. cmd \notin Printing
    BY <2>1 DEF Init, Printing, Texts
  <2>4. FreshInv /\ ReadInv /\ StreamInv
    BY <2>3 DEF FreshInv, ReadInv, StreamInv, Printing
  <2>5. QED
    BY <2>2, <2>4 DEF TextInv
<1>2. TypeOK /\ SessionInv /\ TextInv /\ [Next]_vars => TextInv'
  BY TextStep
<1>3. QED
  BY <1>1, <1>2, Sessions, PTL DEF Spec

\* For any documents without an end marker of their own, what READ, VIEWCHECKPOINT and
\* LISTCHECKPOINTS have printed at the end marker is the text the storage server sent, whole,
\* however the packets are joined, when no recv ends inside a marker.
THEOREM ShownTrue ==
  ASSUME Whole, Unmarked
  PROVE  Spec => []ShownIsServed
<1>1. TextInv => ShownIsServed
  BY DEF TextInv, ReadInv, ShownIsServed, Texts
<1>2. QED
  BY <1>1, TextsKept, PTL

\* For any documents, what STREAM has printed is the start message and the first words of the
\* file, wherever the storage server stops, when no recv ends inside a marker.
THEOREM StreamTrue ==
  ASSUME Whole
  PROVE  Spec => []StreamShowsPrefix
<1>1. TextInv => StreamShowsPrefix
  <2>1. SUFFICES ASSUME TextInv, cmd = "STREAM" PROVE IsPrefix(shown, Opening \o served)
    BY DEF StreamShowsPrefix, Opening
  <2>2. shown \in Seq(Bytes) /\ served \in Seq(Bytes) /\ Begins(shown, Opening \o served)
    BY <2>1 DEF TextInv, ByteInv, StreamInv, Printing
  <2>3. Opening \o served \in Seq(Bytes)
    BY <2>2, PrintMarkers, ConcatProperties
  <2>4. QED
    BY <2>2, <2>3, BeginsParts
<1>2. QED
  BY <1>1, TextsKept, PTL

=============================================================================
