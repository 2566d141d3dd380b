--------------------------- MODULE ClientSession ----------------------------
(***************************************************************************)
(* The client program (client/main.c) and the two connections it talks     *)
(* over.  To the name server it sends headers and payloads that both ends  *)
(* read by length (common/protocol.c).  To the storage server a redirect   *)
(* names it sends lines of text, and it reads replies with single recv     *)
(* calls on a byte stream, where one recv may return several sends or, if  *)
(* ~Whole, half a marker.  The name server's answers and the files of the  *)
(* storage server are whatever other clients have made of them: a choice   *)
(* among what the handlers can send.                                       *)
(***************************************************************************)
EXTENDS Naturals, Sequences, SequencesExt

CONSTANTS
  Docs,       \* contents of files, checkpoints and lists: sequences of words
  Whole,      \* TRUE: a recv never ends inside the bytes of a marker
  Lengths     \* lengths the user's arguments may have: "fits" and "long"

ASSUME DocsAssumption == \A d \in Docs : d \in Seq(STRING)
ASSUME WholeAssumption == Whole \in BOOLEAN
ASSUME LengthsAssumption == Lengths \subseteq {"fits", "long"}

-----------------------------------------------------------------------------
(* Bytes of a storage server connection *)

Markers == {"USER_ACCEPTED", "FILE_CONTENT", "END_OF_FILE", "EMPTY_FILE",
            "CHECKPOINT_CONTENT", "END_OF_CHECKPOINT", "EMPTY_CHECKPOINT",
            "CHECKPOINT_LIST", "END_OF_LIST", "ACCESS_REQUESTS", "END_OF_REQUESTS",
            "STREAM_START", "STREAM_COMPLETE", "EMPTY_FILE_STREAM",
            "WRITE_MODE", "CONTENT_INSERTED", "WRITE_COMPLETED", "COMPLETED", "BYE",
            "ERR_400", "ERR_403", "ERR_404", "ERR_409", "ERR_500"}

Errors == {"ERR_400", "ERR_403", "ERR_404", "ERR_409", "ERR_500"}

\* Replies whose first bytes are OK_200; the others are ends of a text or errors.
Greetings == Markers \ (Errors \cup {"END_OF_FILE", "END_OF_CHECKPOINT", "END_OF_LIST",
                                     "END_OF_REQUESTS", "STREAM_COMPLETE"})

\* The text of a marker is two pieces, the first with OK_200 or ERR_ when it has one;
\* another word is one piece.  A document may hold the text of a marker.
Pieces(w) == IF w \in Markers THEN <<<<w, 1>>, <<w, 2>>>> ELSE <<<<w, 0>>>>

Text(d) == FlattenSeq([i \in DOMAIN d |-> Pieces(d[i])])

\* strstr: the places where the marker's two pieces follow one another.
Places(buf, m) == {i \in 1 .. Len(buf) - 1 : <<buf[i], buf[i + 1]>> = Pieces(m)}

Has(buf, m) == Places(buf, m) # {}

Upto(buf, m) == SubSeq(buf, 1, Min(Places(buf, m)) - 1)

Past(buf, m) == SubSeq(buf, Min(Places(buf, m)) + 2, Len(buf))

\* strncmp(buf, "OK_200", 6) and strstr(buf, "ERR_").
StartsOK(buf) == buf[1][1] \in Greetings /\ buf[1][2] = 1

HasError(buf) == \E i \in DOMAIN buf : buf[i][1] \in Errors /\ buf[i][2] = 1

\* What a recv, or the end of the sender, may leave of the bytes sent.
Cuts(s) == {SubSeq(s, 1, n) : n \in {k \in 0 .. Len(s) : Whole /\ k > 0 => s[k][2] # 1}}

-----------------------------------------------------------------------------
(* Commands and the messages of the name server connection *)

Proxied    == {"CREATE", "DELETE", "UNDO", "CREATEFOLDER"}
Accesses   == {"ADDACCESS", "REMACCESS"}
Moves      == {"MOVE", "MOVEFOLDER"}
Views      == {"VIEW", "VIEWFOLDER"}
Redirected == {"READ", "STREAM", "WRITE", "CHECKPOINT", "VIEWCHECKPOINT", "REVERT",
               "LISTCHECKPOINTS"}
Located    == {"REQUESTACCESS", "VIEWREQUESTS", "APPROVEREQUEST", "DENYREQUEST"}
Commands   == Proxied \cup Accesses \cup Moves \cup Views \cup Redirected \cup Located
              \cup {"LIST", "INFO", "EXEC"}

\* The commands whose handler at the name server asks the storage server itself, with the
\* socket_mutex of its slot held until the answer is there.
Exchanged == {"CREATE", "DELETE", "UNDO", "INFO", "EXEC"} \cup Accesses \cup Moves \cup Views

Header(t, length) == [type |-> t, length |-> length]

\* A payload.  A "long" one has the size of a header, so that a reader that takes it
\* for a header consumes just it.
Payload == Header("payload", "none")

Ack == Header("ACK", "none")
Err == Header("ERROR", "none")

\* The type the client puts into the header of a command.
MessageType(c) ==
  CASE c \in {"CHECKPOINT", "VIEWCHECKPOINT", "REVERT", "LISTCHECKPOINTS"} -> "READ"
    [] c \in Located -> "LOCATE_FILE"
    [] OTHER -> c

\* The lengths of the payload a command is sent with.  A folder and a user to remove
\* are sent as typed; the other payloads are structures.
Sizes(c) ==
  CASE c \in Moves \cup {"REMACCESS"} -> Lengths
    [] c \in Views \cup {"ADDACCESS", "DEADREPORT"} -> {"fits"}
    [] OTHER -> {"none"}

Message(c, length) ==
  IF length = "none" THEN <<Header(MessageType(c), "none")>>
  ELSE <<Header(MessageType(c), length), Payload>>

-----------------------------------------------------------------------------

VARIABLES
  pc, cmd,         \* the client: where it stands, the command it executes
  c2n, n2c,        \* bytes under way between client and name server
  ns, req,         \* the name server's thread for this client; the header it works on
  nsUp,            \* the name server process: "up", "stopped" or "killed"
  sock, c2s, s2c,  \* client's socket to the storage server, bytes under way on it
  ss, ssUp,        \* the storage server's thread for that socket; its process
  editing, todo,   \* the connection is in WRITE mode; words of a STREAM not sent yet
  first,           \* the next packet of a reply is its first
  shown, outcome,  \* what the command has printed of a text, and how it ended
  served, done     \* history: the text the storage server sends; it did the command

nsVars == <<c2n, n2c, ns, req, nsUp>>
ssVars == <<c2s, s2c, ss, ssUp, editing, todo, served, done>>
output == <<first, shown, outcome>>
vars   == <<pc, cmd, nsVars, sock, ssVars, output>>

Init ==
  /\ pc = "off" /\ cmd = "LIST"
  /\ c2n = <<>> /\ n2c = <<>> /\ ns = "none" /\ req = Ack /\ nsUp = "up"
  /\ sock = FALSE /\ c2s = <<>> /\ s2c = <<>> /\ ss = "none" /\ ssUp = TRUE
  /\ editing = FALSE /\ todo = <<>>
  /\ first = TRUE /\ shown = <<>> /\ outcome = "none"
  /\ served = <<>> /\ done = FALSE

-----------------------------------------------------------------------------
(* The client: its connection to the name server *)

\* connect_and_login, from the start of the program or after EXEC.  The thread of an
\* earlier connection is left to itself.
Connected ==
  /\ pc' = "login"
  /\ c2n' = <<Header("REGISTER_CLIENT", "none")>>
  /\ n2c' = <<>>
  /\ ns' = "register"
  /\ UNCHANGED <<req, nsUp>>

Start ==
  /\ pc = "off" /\ nsUp = "up"
  /\ Connected
  /\ cmd' = "LIST" /\ first' = TRUE /\ shown' = <<>> /\ outcome' = "none"
  /\ UNCHANGED <<sock, ssVars>>

\* The name server is gone and all it has sent is read: recv fails.
Lost == n2c = <<>> /\ ns = "none"

\* The client ends: both sockets are closed.
Quit == pc' = "off" /\ sock' = FALSE

\* recv_header of the login: without an ACK the program exits.
LoginReply ==
  /\ pc = "login"
  /\ \/ /\ n2c # <<>>
        /\ n2c' = Tail(n2c)
        /\ IF Head(n2c) = Ack THEN pc' = "prompt" /\ UNCHANGED sock ELSE Quit
     \/ Lost /\ Quit /\ UNCHANGED n2c
  /\ UNCHANGED <<cmd, c2n, ns, req, nsUp, ssVars, output>>

\* A handler has printed its result and returns to command_loop.
Return(result) == outcome' = result /\ pc' = "prompt"

\* send_header and send_all.  To a name server that is gone the bytes are lost, or
\* SIGPIPE ends the client.
SendNS(message, label) ==
  IF ns # "none"
  THEN c2n' = c2n \o message /\ pc' = label /\ UNCHANGED sock
  ELSE UNCHANGED c2n /\ (Quit \/ (pc' = label /\ UNCHANGED sock))

\* command_loop: a line of the user's, up to the request of its handler.
Command(c) ==
  /\ pc = "prompt"
  /\ cmd' = c
  /\ \E length \in Sizes(c) :
       SendNS(Message(c, length), IF c = "EXEC" THEN "exec" ELSE "header")
  /\ first' = TRUE /\ shown' = <<>> /\ outcome' = "none"
  /\ served' = <<>> /\ done' = FALSE
  /\ UNCHANGED <<n2c, ns, req, nsUp, c2s, s2c, ss, ssUp, editing, todo>>

\* EXIT, the end of the input, or a signal at any point.
Leave ==
  /\ pc # "off"
  /\ Quit
  /\ UNCHANGED <<cmd, nsVars, ssVars, output>>

\* recv_header(g_ns_socket): use is what the handler does with the answer; a failure
\* ends it.
NSReply(use) ==
  /\ \/ /\ n2c # <<>>
        /\ n2c' = Tail(n2c)
        /\ use
     \/ Lost /\ Return("lost") /\ UNCHANGED n2c
  /\ UNCHANGED <<cmd, c2n, ns, req, nsUp, sock, ssVars, first, shown>>

\* recv_all of the answer's payload.
NSPayload(use) ==
  /\ pc = "payload"
  /\ NSReply(use)

IsAck == Return(IF Head(n2c) = Ack THEN "ok" ELSE "error")

handle_proxy_command ==
  /\ cmd \in Proxied /\ pc = "header"
  /\ NSReply(IsAck)

handle_access_command ==
  /\ cmd \in Accesses /\ pc = "header"
  /\ NSReply(IsAck)

handle_move_commands ==
  /\ cmd \in Moves /\ pc = "header"
  /\ NSReply(IsAck)

\* An answer of type t; its payload is read when it has one.
Listing(t) ==
  IF Head(n2c).type # t THEN Return("error")
  ELSE IF Head(n2c).length = "none" THEN Return("ok")
  ELSE pc' = "payload" /\ UNCHANGED outcome

\* An answer of type t always has a payload.
Expect(t) ==
  IF Head(n2c).type # t THEN Return("error") ELSE pc' = "payload" /\ UNCHANGED outcome

Listed == Return("ok")

handle_list_command ==
  /\ cmd = "LIST"
  /\ \/ pc = "header" /\ NSReply(Listing("LIST_RESPONSE"))
     \/ NSPayload(Listed)

\* Mutant: the listing is printed from the header alone.
ViewNeverReads ==
  /\ cmd \in Views
  /\ \/ pc = "header" /\ NSReply(Listed)
     \/ NSPayload(Listed)

handle_view_command ==
  /\ cmd \in Views
  /\ \/ pc = "header" /\ NSReply(Listing("VIEW_RESPONSE"))
     \/ NSPayload(Listed)

handle_info_command ==
  /\ cmd = "INFO"
  /\ \/ pc = "header" /\ NSReply(Expect("INFO_RESPONSE"))
     \/ NSPayload(Listed)

\* EXEC prints raw bytes until the name server closes, and logs in again; the program
\* exits if there is no name server any more.
handle_exec_command ==
  /\ cmd = "EXEC" /\ pc = "exec"
  /\ \/ n2c # <<>> /\ n2c' = <<>> /\ UNCHANGED <<pc, sock, c2n, ns, req, nsUp, outcome>>
     \/ Lost /\ nsUp = "up" /\ Connected /\ outcome' = "ok" /\ UNCHANGED sock
     \/ Lost /\ nsUp # "up" /\ Quit /\ UNCHANGED <<c2n, n2c, ns, req, nsUp, outcome>>
  /\ UNCHANGED <<cmd, ssVars, first, shown>>

-----------------------------------------------------------------------------
(* The client: commands that go to a storage server *)

\* The answer to the request for a storage server, and its payload with the address.
Redirect(t) ==
  \/ pc = "header" /\ NSReply(Expect(t))
  \/ NSPayload(pc' = "connect" /\ UNCHANGED outcome)

\* connect_socket_no_exit, and the line USER.
Connect ==
  /\ pc = "connect" /\ ssUp
  /\ sock' = TRUE /\ ss' = "user" /\ c2s' = <<"USER">> /\ s2c' = <<>>
  /\ editing' = FALSE /\ todo' = <<>> /\ served' = <<>> /\ done' = FALSE
  /\ pc' = "ack"
  /\ UNCHANGED <<cmd, nsVars, ssUp, output>>

\* The storage server cannot be reached: handle_ss_dead_report.
ReportDead ==
  /\ pc = "connect" /\ ~ssUp
  /\ SendNS(Message("DEADREPORT", "fits"), "report")
  /\ UNCHANGED <<cmd, n2c, ns, req, nsUp, ssVars, output>>

handle_ss_dead_report ==
  \/ ReportDead
  \/ pc = "report" /\ NSReply(Return("lost"))

\* The commands about access requests report nothing.
GiveUp ==
  /\ pc = "connect" /\ ~ssUp
  /\ Return("lost")
  /\ UNCHANGED <<cmd, nsVars, sock, ssVars, first, shown>>

Packets == Cuts(s2c) \ {<<>>}

Rest(buf) == SubSeq(s2c, Len(buf) + 1, Len(s2c))

\* The storage server is gone and all it has sent is read.
Closed == s2c = <<>> /\ ss = "none"

\* send on the storage server's socket: like SendNS.
SendSS(line, label) ==
  IF ss # "none"
  THEN c2s' = Append(c2s, line) /\ pc' = label /\ UNCHANGED sock
  ELSE UNCHANGED c2s /\ (Quit \/ (pc' = label /\ UNCHANGED sock))

\* close, without and with the line EXIT before it.
Close(result) ==
  Return(result) /\ sock' = FALSE /\ s2c' = <<>> /\ UNCHANGED c2s

Finish(result) ==
  /\ outcome' = result /\ sock' = FALSE /\ s2c' = <<>>
  /\ IF ss # "none" THEN c2s' = Append(c2s, "EXIT") /\ pc' = "prompt"
     ELSE UNCHANGED c2s /\ pc' \in {"prompt", "off"}

\* What the client's steps on the storage server's socket leave alone.
Alone == UNCHANGED <<cmd, nsVars, ss, ssUp, editing, todo, served, done>>

\* Mutant: the command is sent without waiting for the acknowledgement of USER.
GreetUnread ==
  /\ pc = "ack"
  /\ SendSS(cmd, "recv")
  /\ UNCHANGED s2c
  /\ Alone /\ UNCHANGED output

\* The acknowledgement of USER, read and not looked at, then the command.
Greet ==
  /\ pc = "ack"
  /\ \/ \E buf \in Packets : s2c' = Rest(buf)
     \/ Closed /\ UNCHANGED s2c
  /\ SendSS(cmd, "recv")
  /\ Alone /\ UNCHANGED output

\* The commands about access requests give up when there is none; the one that requests
\* access looks at it.
GreetOrClose(looks) ==
  /\ pc = "ack"
  /\ \/ \E buf \in Packets :
          IF looks => StartsOK(buf) THEN SendSS(cmd, "recv") /\ s2c' = Rest(buf) /\ UNCHANGED outcome
          ELSE Close("error")
     \/ Closed /\ Close("lost")
  /\ Alone /\ UNCHANGED <<first, shown>>

Keep(buf) == s2c' = Rest(buf) /\ UNCHANGED <<pc, sock, c2s, outcome>>

\* Mutant: the end marker is tested before the header is skipped, and printed.
MarkedPastEnd(head, end, stops) ==
  /\ pc = "recv"
  /\ \/ \E buf \in Packets :
          /\ shown' = shown \o buf
          /\ first' = FALSE
          /\ IF Has(buf, end) THEN Finish("end") ELSE Keep(buf)
     \/ Closed /\ Finish("lost") /\ UNCHANGED <<first, shown>>
  /\ Alone

\* Mutant: the end marker is looked for in the first packet only.
MarkedFirstOnly(head, end, stops) ==
  /\ pc = "recv"
  /\ \/ \E buf \in Packets :
          LET text == IF first /\ Has(buf, head) THEN Past(buf, head) ELSE buf
          IN
          IF \E m \in stops : Has(buf, m) THEN Finish("stop") /\ UNCHANGED <<first, shown>>
          ELSE IF first /\ Has(text, end)
          THEN Finish("end") /\ shown' = shown \o Upto(text, end) /\ UNCHANGED first
          ELSE Keep(buf) /\ shown' = shown \o text /\ first' = FALSE
     \/ Closed /\ Finish("lost") /\ UNCHANGED <<first, shown>>
  /\ Alone

\* The loop of READ, VIEWCHECKPOINT and LISTCHECKPOINTS: a marker of stops ends it, the
\* header is skipped in the first packet, the text is printed up to the end marker.
MarkedReply(head, end, stops) ==
  /\ pc = "recv"
  /\ \/ \E buf \in Packets :
          LET text == IF first /\ Has(buf, head) THEN Past(buf, head) ELSE buf
              stop == {m \in stops : Has(buf, m)}
          IN
          \/ stop # {} /\ Finish("stop") /\ UNCHANGED <<first, shown>>
          \/ stop = {} /\ Has(text, end) /\ Finish("end")
             /\ shown' = shown \o Upto(text, end) /\ UNCHANGED first
          \/ stop = {} /\ ~Has(text, end) /\ Keep(buf)
             /\ shown' = shown \o text /\ first' = FALSE
     \/ Closed /\ Finish("lost") /\ UNCHANGED <<first, shown>>
  /\ Alone

\* Mutant: a packet is printed before it is looked at.
StreamPrintsAll ==
  /\ pc = "recv"
  /\ \/ \E buf \in Packets :
          /\ shown' = shown \o buf
          /\ IF Has(buf, "STREAM_COMPLETE") THEN Finish("end") ELSE Keep(buf)
     \/ Closed /\ Finish("lost") /\ UNCHANGED shown
  /\ Alone /\ UNCHANGED first

\* The loop of STREAM: a packet is a word unless it has one of the markers in it.
StreamReply ==
  /\ pc = "recv"
  /\ \/ \E buf \in Packets :
          IF Has(buf, "STREAM_COMPLETE") THEN Finish("end") /\ UNCHANGED shown
          ELSE IF Has(buf, "EMPTY_FILE_STREAM") THEN Finish("stop") /\ UNCHANGED shown
          ELSE IF HasError(buf) THEN Finish("error") /\ UNCHANGED shown
          ELSE Keep(buf) /\ shown' = shown \o buf
     \/ Closed /\ Finish("lost") /\ UNCHANGED shown
  /\ Alone /\ UNCHANGED first

\* Mutant: any reply is taken for success.
OneReplyAny ==
  /\ pc = "recv"
  /\ \/ \E buf \in Packets : Finish("ok")
     \/ Closed /\ Finish("lost")
  /\ Alone /\ UNCHANGED <<first, shown>>

\* The commands with one reply: it is read by one recv.
OneReply ==
  /\ pc = "recv"
  /\ \/ \E buf \in Packets : Finish(IF StartsOK(buf) THEN "ok" ELSE "error")
     \/ Closed /\ Finish("lost")
  /\ Alone /\ UNCHANGED <<first, shown>>

\* VIEWREQUESTS: what comes with the first line is dropped; then all is collected until
\* the end marker is in it.
ViewRequestsReply ==
  /\ \/ /\ pc = "recv"
        /\ \E buf \in Packets :
             IF StartsOK(buf)
             THEN pc' = "more" /\ s2c' = Rest(buf) /\ UNCHANGED <<sock, c2s, outcome>>
             ELSE Finish("error")
        /\ UNCHANGED shown
     \/ /\ pc = "more"
        /\ \E buf \in Packets :
             LET content == shown \o buf
             IN IF Has(content, "END_OF_REQUESTS")
                THEN Finish("end") /\ shown' = Upto(content, "END_OF_REQUESTS")
                ELSE Keep(buf) /\ shown' = content
     \/ pc \in {"recv", "more"} /\ Closed /\ Finish("lost") /\ UNCHANGED shown
  /\ Alone /\ UNCHANGED first

\* WRITE: the lock is refused, or lines are typed until one is answered by WRITE COMPLETED.
WriteReply ==
  /\ \/ /\ pc = "recv"
        /\ \/ \E buf \in Packets :
                IF StartsOK(buf)
                THEN pc' = "type" /\ s2c' = Rest(buf) /\ UNCHANGED <<sock, c2s, outcome>>
                ELSE Close("error")
           \/ Closed /\ Close("lost")
     \/ /\ pc = "reply"
        /\ \/ \E buf \in Packets :
                IF 1 \in Places(buf, "WRITE_COMPLETED") THEN Finish("ok")
                ELSE pc' = "type" /\ s2c' = Rest(buf) /\ UNCHANGED <<sock, c2s, outcome>>
           \/ Closed /\ Finish("lost")
  /\ Alone /\ UNCHANGED <<first, shown>>

\* The user types an edit, ETIRW or the end of the input.
TypeLine ==
  /\ cmd = "WRITE" /\ pc = "type"
  /\ \/ /\ \E line \in {"edit", "ETIRW"} : SendSS(line, "reply")
        /\ UNCHANGED <<s2c, outcome>>
     \/ Finish("quit")
  /\ Alone /\ UNCHANGED <<first, shown>>

\* The way to the storage server of the commands that ask for a redirect.
Reach == Redirect("READ_REDIRECT") \/ Connect \/ handle_ss_dead_report \/ Greet

handle_redirect_command ==
  \/ cmd \in {"READ", "STREAM", "WRITE"} /\ Reach
  \/ cmd = "READ" /\ MarkedReply("FILE_CONTENT", "END_OF_FILE", {"EMPTY_FILE"})
  \/ cmd = "STREAM" /\ StreamReply
  \/ cmd = "WRITE" /\ WriteReply

handle_checkpoint_command == cmd = "CHECKPOINT" /\ (Reach \/ OneReply)

handle_viewcheckpoint_command ==
  /\ cmd = "VIEWCHECKPOINT"
  /\ \/ Reach
     \/ MarkedReply("CHECKPOINT_CONTENT", "END_OF_CHECKPOINT", {"EMPTY_CHECKPOINT", "ERR_404"})

handle_revert_command == cmd = "REVERT" /\ (Reach \/ OneReply)

handle_listcheckpoints_command ==
  /\ cmd = "LISTCHECKPOINTS"
  /\ Reach \/ MarkedReply("CHECKPOINT_LIST", "END_OF_LIST", {})

\* The way of the commands about access requests.
Locate == Redirect("LOCATE_RESPONSE") \/ Connect \/ GiveUp

handle_requestaccess_command ==
  /\ cmd = "REQUESTACCESS"
  /\ Locate \/ GreetOrClose(TRUE) \/ OneReply

handle_viewrequests_command ==
  /\ cmd = "VIEWREQUESTS"
  /\ Locate \/ GreetOrClose(FALSE) \/ ViewRequestsReply

handle_approverequest_command ==
  /\ cmd = "APPROVEREQUEST"
  /\ Locate \/ GreetOrClose(FALSE) \/ OneReply

handle_denyrequest_command ==
  /\ cmd = "DENYREQUEST"
  /\ Locate \/ GreetOrClose(FALSE) \/ OneReply

-----------------------------------------------------------------------------
(* The name server's thread for this client *)

\* send_header and send_all to the client.  The first send to a client that is gone is
\* lost; the name server does not ignore SIGPIPE, and a second one may kill it.
NSSend(messages, label) ==
  \/ /\ n2c' = IF pc = "off" THEN n2c ELSE n2c \o messages
     /\ ns' = label
     /\ UNCHANGED nsUp
  \/ pc = "off" /\ Len(messages) >= 2 /\ nsUp' = "killed" /\ ns' = "none" /\ UNCHANGED n2c

NSOnly == UNCHANGED <<pc, cmd, sock, ssVars, output>>

\* handle_connection reads the first header, handle_client_connection acknowledges it.
NSRegister ==
  /\ ns = "register" /\ c2n # <<>>
  /\ c2n' = Tail(c2n)
  /\ NSSend(<<Ack>>, "header")
  /\ UNCHANGED req /\ NSOnly

\* recv_header of the loop.  A payload longer than the handler's buffer is refused and
\* left in the stream, where it is the next header: of no known type.
NSHeader ==
  /\ ns = "header" /\ c2n # <<>>
  /\ c2n' = Tail(c2n)
  /\ CASE Head(c2n) = Payload \/ Head(c2n).length = "long" ->
              NSSend(<<Err>>, "header") /\ UNCHANGED req
       [] Head(c2n).length = "fits" ->
              ns' = "payload" /\ req' = Head(c2n) /\ UNCHANGED <<n2c, nsUp>>
       [] OTHER ->
              ns' = "answer" /\ req' = Head(c2n) /\ UNCHANGED <<n2c, nsUp>>
  /\ NSOnly

\* recv_all of the request's payload.
NSReceive ==
  /\ ns = "payload" /\ c2n # <<>>
  /\ c2n' = Tail(c2n)
  /\ ns' = "answer"
  /\ UNCHANGED <<n2c, req, nsUp>> /\ NSOnly

WithPayload(t) == <<Header(t, "fits"), Payload>>

\* What the handler of a request may send: the answer depends on files and users of all
\* clients.
Answers(t) ==
  CASE t = "LIST" -> {<<Header("LIST_RESPONSE", "none")>>, WithPayload("LIST_RESPONSE")}
    [] t \in Views -> {<<Header("VIEW_RESPONSE", "none")>>, WithPayload("VIEW_RESPONSE")}
    [] t = "INFO" -> {<<Err>>, WithPayload("INFO_RESPONSE")}
    [] t \in {"READ", "WRITE", "STREAM"} -> {<<Err>>, WithPayload("READ_REDIRECT")}
    [] t = "LOCATE_FILE" -> {<<Err>>, WithPayload("LOCATE_RESPONSE")}
    [] t = "DEADREPORT" -> {<<Ack>>}
    [] t = "MOVE" -> {<<Err>>}
    [] OTHER -> {<<Ack>>, <<Err>>}

\* The answers that need no word of the storage server: of these commands only refusals.
AtOnce(t) ==
  IF t \in {"CREATE", "UNDO", "INFO"} \cup Accesses THEN {<<Err>>} ELSE Answers(t)

\* The answers after the exchange: DELETE and MOVEFOLDER acknowledge whatever came of it.
Afterwards(t) == IF t \in {"DELETE", "MOVEFOLDER"} THEN {<<Ack>>} ELSE Answers(t)

\* EXEC sends an error, or the lines a command prints, and ends the connection.
Printouts == {<<Err>>, <<>>, <<Payload>>, <<Payload, Payload>>}

\* The handler's answer to its request.
NSReplies(messages) ==
  /\ \E m \in messages : NSSend(m, IF req.type = "EXEC" THEN "none" ELSE "header")
  /\ req' = Ack
  /\ UNCHANGED c2n /\ NSOnly

\* A handler that returns without asking the storage server.
NSAnswer ==
  /\ ns = "answer"
  /\ NSReplies(IF req.type = "EXEC" THEN {<<Err>>} ELSE AtOnce(req.type))

\* A handler waits for the socket_mutex or, holding it, for the storage server's answer.
NSAsk ==
  /\ ns = "answer" /\ req.type \in Exchanged
  /\ ns' = "asking"
  /\ UNCHANGED <<c2n, n2c, req, nsUp>> /\ NSOnly

\* The answer comes, or what EXEC runs ends.  It need not come: a CREATE, DELETE or UNDO
\* that fails there is not acknowledged, MSG_INTERNAL_SET_FOLDER of MOVE and MOVEFOLDER
\* never is, and the thread of any of them keeps the socket_mutex from all the others.
NSAsked ==
  /\ ns = "asking" /\ req.type \notin Moves
  /\ NSReplies(IF req.type = "EXEC" THEN Printouts ELSE Afterwards(req.type))

\* The storage server has stopped: the handler's recv fails, or its second send on that
\* socket raises SIGPIPE.
NSAskFails ==
  /\ ns = "asking" /\ ~ssUp
  /\ \/ req.type # "EXEC" /\ NSReplies(Afterwards(req.type))
     \/ /\ nsUp' = "killed" /\ ns' = "none" /\ req' = Ack /\ c2n' = <<>>
        /\ UNCHANGED n2c /\ NSOnly

\* recv_header fails: the thread ends.
NSHangUp ==
  /\ pc = "off" /\ c2n = <<>> /\ ns \in {"register", "header", "payload"}
  /\ ns' = "none"
  /\ UNCHANGED <<c2n, n2c, req, nsUp>> /\ NSOnly

NSThread ==
  NSRegister \/ NSHeader \/ NSReceive \/ NSAnswer \/ NSAsk \/ NSAskFails \/ NSHangUp

\* The name server is stopped, and started again.
NSDown ==
  /\ nsUp = "up"
  /\ nsUp' = "stopped" /\ ns' = "none" /\ req' = Ack /\ c2n' = <<>>
  /\ \E n \in 0 .. Len(n2c) : n2c' = SubSeq(n2c, 1, n)
  /\ NSOnly

NSUp ==
  /\ nsUp # "up"
  /\ nsUp' = "up"
  /\ UNCHANGED <<c2n, n2c, ns, req>> /\ NSOnly

-----------------------------------------------------------------------------
(* The storage server's thread for this client: client_handler_thread *)

\* recv takes what has come; only the first line is used.
Unread == {SubSeq(c2s, k, Len(c2s)) : k \in 2 .. Len(c2s) + 1}

\* send: to a socket the client has closed the bytes are lost.
SSSend(bytes) == s2c' = IF sock THEN s2c \o bytes ELSE s2c

SSOnly == UNCHANGED <<pc, cmd, nsVars, sock, ssUp, output>>

SSUser ==
  /\ ss = "user" /\ c2s # <<>>
  /\ c2s' \in Unread
  /\ SSSend(Pieces("USER_ACCEPTED"))
  /\ ss' = "command"
  /\ UNCHANGED <<editing, todo, served, done>> /\ SSOnly

\* A reply of one line.
SSReplies(m) == SSSend(Pieces(m)) /\ UNCHANGED <<ss, todo, served>>

\* A text between two markers.
SSServes(head, d, end) ==
  /\ SSSend(Pieces(head) \o Text(d) \o Pieces(end))
  /\ served' = Text(d)
  /\ UNCHANGED <<ss, todo>>

SSRead ==
  /\ \/ SSReplies("ERR_404")
     \/ \E d \in Docs : IF d = <<>> THEN SSReplies("EMPTY_FILE")
                       ELSE SSServes("FILE_CONTENT", d, "END_OF_FILE")
  /\ UNCHANGED <<editing, done>>

SSViewCheckpoint ==
  /\ \/ SSReplies("ERR_404")
     \/ \E d \in Docs : IF d = <<>> THEN SSReplies("EMPTY_CHECKPOINT")
                       ELSE SSServes("CHECKPOINT_CONTENT", d, "END_OF_CHECKPOINT")
  /\ UNCHANGED <<editing, done>>

\* A list is never empty: it says that there are none.
SSListCheckpoints ==
  /\ \E d \in Docs \ {<<>>} : SSServes("CHECKPOINT_LIST", d, "END_OF_LIST")
  /\ UNCHANGED <<editing, done>>

SSViewRequests ==
  /\ \/ SSReplies("ERR_403")
     \/ \E d \in Docs \ {<<>>} : SSServes("ACCESS_REQUESTS", d, "END_OF_REQUESTS")
  /\ UNCHANGED <<editing, done>>

SSStream ==
  /\ \/ SSReplies("ERR_404")
     \/ \E d \in Docs :
          IF d = <<>> THEN SSReplies("EMPTY_FILE_STREAM")
          ELSE SSSend(Pieces("STREAM_START")) /\ ss' = "stream" /\ todo' = d /\ served' = Text(d)
  /\ UNCHANGED <<editing, done>>

\* CHECKPOINT, REVERT, REQUESTACCESS, APPROVEREQUEST, DENYREQUEST: one line of reply.  An
\* approval is reported whatever persist_set_acl did with it: a grant for which the list
\* has no place is dropped.
SSDo(line) ==
  /\ \/ /\ SSReplies("COMPLETED")
        /\ done' \in IF line = "APPROVEREQUEST" THEN BOOLEAN ELSE {TRUE}
     \/ (\E m \in Errors : SSReplies(m)) /\ done' = FALSE
  /\ UNCHANGED editing

SSWrite ==
  /\ \/ SSReplies("WRITE_MODE") /\ editing' = TRUE
     \/ (\E m \in {"ERR_404", "ERR_409"} : SSReplies(m)) /\ UNCHANGED editing
  /\ UNCHANGED done

\* A line in WRITE mode.  ETIRW ends the mode even when the document cannot be written.
SSWriteMode(line) ==
  \/ line = "ETIRW" /\ editing' = FALSE
     /\ \/ SSReplies("WRITE_COMPLETED") /\ done' = TRUE
        \/ SSReplies("ERR_500") /\ UNCHANGED done
  \/ line # "ETIRW"
     /\ \E m \in IF line = "edit" THEN {"CONTENT_INSERTED", "ERR_400", "ERR_404", "ERR_500"}
                  ELSE {"ERR_400"} : SSReplies(m)
     /\ UNCHANGED <<editing, done>>

SSExit ==
  /\ SSSend(Pieces("BYE"))
  /\ ss' = "none"
  /\ UNCHANGED <<editing, todo, served, done>>

SSCommand ==
  /\ ss = "command" /\ c2s # <<>>
  /\ c2s' \in Unread
  /\ LET line == Head(c2s) IN
     \/ editing /\ SSWriteMode(line)
     \/ /\ ~editing
        /\ \/ line = "READ" /\ SSRead
           \/ line = "VIEWCHECKPOINT" /\ SSViewCheckpoint
           \/ line = "LISTCHECKPOINTS" /\ SSListCheckpoints
           \/ line = "VIEWREQUESTS" /\ SSViewRequests
           \/ line = "STREAM" /\ SSStream
           \/ line \in {"CHECKPOINT", "REVERT", "REQUESTACCESS", "APPROVEREQUEST", "DENYREQUEST"}
              /\ SSDo(line)
           \/ line = "WRITE" /\ SSWrite
           \/ line = "EXIT" /\ SSExit
           \/ line \in {"edit", "ETIRW"} /\ SSReplies("ERR_400") /\ UNCHANGED <<editing, done>>
  /\ SSOnly

\* Mutant: any line that comes during a STREAM pauses it.
SSStreamPauses ==
  /\ ss = "pause"
  /\ \/ c2s # <<>> /\ c2s' \in Unread /\ ss' = "paused" /\ UNCHANGED todo
     \/ c2s = <<>> /\ ss' = "stream" /\ UNCHANGED <<c2s, todo>>
  /\ UNCHANGED <<s2c, editing, served, done>> /\ SSOnly

\* The loop of STREAM: a word, and after a pause a look at the socket.  A line that has
\* come is taken and, being neither STOP nor PAUSE, has no effect.
SSStreamWord ==
  /\ ss = "stream"
  /\ IF todo = <<>> THEN SSSend(Pieces("STREAM_COMPLETE")) /\ ss' = "command" /\ UNCHANGED todo
     ELSE SSSend(Pieces(Head(todo))) /\ ss' = "pause" /\ todo' = Tail(todo)
  /\ UNCHANGED <<c2s, editing, served, done>> /\ SSOnly

SSStreamCheck ==
  /\ ss = "pause"
  /\ \/ c2s # <<>> /\ c2s' \in Unread /\ ss' = "stream" /\ UNCHANGED todo
     \/ c2s = <<>> /\ sock /\ ss' = "stream" /\ UNCHANGED <<c2s, todo>>
     \/ c2s = <<>> /\ ~sock /\ ss' = "command" /\ todo' = <<>> /\ UNCHANGED c2s
  /\ UNCHANGED <<s2c, editing, served, done>> /\ SSOnly

\* Mutant: only an error of recv ends the loop, not its 0.
SSHangUpOnError ==
  /\ ss = "user" /\ c2s = <<>> /\ ~sock
  /\ ss' = "none" /\ editing' = FALSE
  /\ UNCHANGED <<c2s, s2c, todo, served, done>> /\ SSOnly

\* recv returns 0: the thread releases its locks and ends.
SSHangUp ==
  /\ ss \in {"user", "command"} /\ c2s = <<>> /\ ~sock
  /\ ss' = "none" /\ editing' = FALSE
  /\ UNCHANGED <<c2s, s2c, todo, served, done>> /\ SSOnly

SSThread == SSUser \/ SSCommand \/ SSStreamWord \/ SSStreamCheck \/ SSHangUp

\* The storage server is stopped, and started again.
SSDown ==
  /\ ssUp
  /\ ssUp' = FALSE /\ ss' = "none" /\ c2s' = <<>> /\ todo' = <<>> /\ editing' = FALSE
  /\ s2c' \in Cuts(s2c)
  /\ UNCHANGED <<pc, cmd, nsVars, sock, served, done, output>>

SSUp ==
  /\ ~ssUp
  /\ ssUp' = TRUE
  /\ UNCHANGED <<pc, cmd, nsVars, sock, c2s, s2c, ss, editing, todo, served, done, output>>

-----------------------------------------------------------------------------

\* What the client does by itself; the rest is up to the user.
Client ==
  \/ LoginReply
  \/ handle_proxy_command
  \/ handle_access_command
  \/ handle_move_commands
  \/ handle_list_command
  \/ handle_view_command
  \/ handle_info_command
  \/ handle_exec_command
  \/ handle_redirect_command
  \/ handle_checkpoint_command
  \/ handle_viewcheckpoint_command
  \/ handle_revert_command
  \/ handle_listcheckpoints_command
  \/ handle_requestaccess_command
  \/ handle_viewrequests_command
  \/ handle_approverequest_command
  \/ handle_denyrequest_command

User == Start \/ (\E c \in Commands : Command(c)) \/ TypeLine \/ Leave

Next ==
  Client \/ User \/ NSThread \/ NSAsked \/ NSDown \/ NSUp \/ SSThread \/ SSDown \/ SSUp

\* The three threads go on; users, operators and crashes owe nothing, and neither do the
\* other end of a handler's exchange and the holder of the socket_mutex it wants.
Fairness == WF_vars(Client) /\ WF_vars(NSThread) /\ WF_vars(SSThread)

Spec == Init /\ [][Next]_vars /\ Fairness

-----------------------------------------------------------------------------
(* Properties *)

\* The places a handler of command_loop, the name server's thread and the storage server's
\* thread can stand at, and the ways a command of command_loop ends.
TypeOK ==
  /\ pc \in {"off", "login", "prompt", "header", "payload", "report", "exec", "connect", "ack",
             "recv", "more", "type", "reply"}
  /\ cmd \in Commands
  /\ ns \in {"none", "register", "header", "payload", "answer", "asking"}
  /\ nsUp \in {"up", "stopped", "killed"}
  /\ ss \in {"none", "user", "command", "stream", "pause"}
  /\ sock \in BOOLEAN /\ ssUp \in BOOLEAN /\ editing \in BOOLEAN
  /\ first \in BOOLEAN /\ done \in BOOLEAN
  /\ outcome \in {"none", "ok", "error", "lost", "end", "stop", "quit"}

\* When command_loop prompts, nothing is under way on the connection to the name server
\* and its thread waits for a header: no command takes the answer of another for its own.
InStep ==
  pc = "prompt" /\ ns # "none" => c2n = <<>> /\ n2c = <<>> /\ ns = "header"

\* When READ, VIEWCHECKPOINT or LISTCHECKPOINTS has found the end marker, it has printed
\* the text the storage server sent, no marker and no word less.
ShownIsServed ==
  outcome = "end" /\ cmd \in {"READ", "VIEWCHECKPOINT", "LISTCHECKPOINTS"} => shown = served

\* STREAM prints the start message and the first words of the file, in order, however the
\* packets are joined and wherever either side stops.
StreamShowsPrefix ==
  cmd = "STREAM" => IsPrefix(shown, Pieces("STREAM_START") \o served)

\* "Created", "reverted", "submitted", "denied" and the end of WRITE mode are printed only
\* for a command the storage server has carried out since it was typed; "approved" is
\* not among them (ApprovalGrants).
SuccessMeansDone ==
  outcome = "ok" /\ cmd \in (Redirected \cup Located) \ {"APPROVEREQUEST"} => done

\* The client never sends a line while the one before it is unread: client_handler_thread
\* uses only the first line of what a recv returns.
NoLineDiscarded == Len(c2s) <= 1

Waiting == pc \notin {"off", "prompt", "type"}

\* The commands the name server answers by itself come back to the prompt (or, for WRITE,
\* to the user), whatever stops and starts meanwhile; READ and VIEWREQUESTS may wait for
\* ever for an end marker.  The commands for which it asks the storage server may wait for
\* ever as long as that runs (ExchangeEnds), and come back when it has stopped; EXEC waits
\* for the command it runs.
CommandEnds ==
  /\ (Waiting /\ cmd \notin Exchanged \cup {"READ", "VIEWREQUESTS"}) ~> ~Waiting
  /\ (Waiting /\ cmd \in Exchanged \ {"EXEC"} /\ ~ssUp) ~> (~Waiting \/ ssUp)

\* The storage server's thread of a client that has closed its socket ends, and with it
\* the locks of the connection, in the middle of a WRITE or a STREAM too.
ThreadEnds == (~sock /\ ss # "none") ~> (ss = "none" \/ sock)

-----------------------------------------------------------------------------
(* What the code does not keep *)

\* client/main.c: "It handles partial reads and looks for the *exact* terminators your SS is
\* sending": a READ that is sent a text comes to its end.  Violated when ~Whole, by a
\* recv that ends inside END_OF_FILE.
TextEnds == (cmd = "READ" /\ pc = "recv" /\ served # <<>>) ~> pc # "recv"

\* "approved" is printed only when the grant is in the list.
ApprovalGrants == outcome = "ok" /\ cmd = "APPROVEREQUEST" => done

\* README: "NM relays confirmation to client": CREATE, DELETE, UNDO and the others for which
\* the name server asks the storage server come back to the prompt.
ExchangeEnds == (Waiting /\ cmd \in Exchanged) ~> ~Waiting

\* READ ends for a file that is gone as well.
ReadEnds == (cmd = "READ" /\ pc = "recv") ~> pc # "recv"

\* VIEWREQUESTS ends.
ViewRequestsEnds == (cmd = "VIEWREQUESTS" /\ pc = "more") ~> pc # "more"

\* A STREAM that ends with its marker has printed every word.
StreamShowsAll == cmd = "STREAM" /\ outcome = "end" => shown = Pieces("STREAM_START") \o served

\* No client brings the name server down.
NeverKilled == nsUp # "killed"

=============================================================================
