--------------------------- MODULE SocksHandshake ---------------------------
(***************************************************************************)
(* One SOCKS connection inside the extension: BSocksClient, on the reactor  *)
(* of tun2socks, talks to a ChildThread of Antinat, which reads field after *)
(* field with blocking reads, connects through shadowsocks, answers, and    *)
(* hands the connection to a forwarder.  TCP cuts both streams anywhere.    *)
(* A byte is a pair of the field it belongs to and its value; payload is    *)
(* numbered.  tun2socks offers no password and Antinat asks for none.       *)
(***************************************************************************)
EXTENDS Naturals, Sequences, SequencesExt

CONSTANTS
  Addresses,  \* address types of the destinations asked for: "v4", "v6"
  AddrLen,    \* bytes of an IPv4 address and its port; IPv6 is longer by one
  Payload     \* bound on the payload bytes in each direction

ASSUME HandshakeAssumption ==
  /\ Addresses \subseteq {"v4", "v6"} /\ AddrLen \in Nat \ {0} /\ Payload \in Nat

VARIABLES
  state,   \* BSocksClient's state
  con,     \* its BConnection and interfaces: "none", "control" or "up"
  buffer,  \* o->buffer is allocated
  op,      \* the operation on the buffer: "none", "send" or "recv"
  todo,    \* bytes the send has not handed over
  total,   \* recv_total - recv_len
  recvd,   \* bytes of the reply received so far
  told,    \* the last event the user was told
  freed,   \* BSocksClient_Free was called
  up, upEnd,      \* client to server: bytes under way, end of stream
  down, downEnd,  \* server to client
  child,   \* the field ChildThread reads next, or what it does
  unread,  \* bytes of that field still to read
  asked,   \* the address type the client asks for
  dest,    \* where Antinat connects to: "none", "asked" or "garbage"
  userSent, relayed, remoteSent, userGot  \* payload, by direction

control == <<buffer, op, todo, total, recvd>>
client  == <<state, con, control, told, freed>>
server  == <<child, unread, dest>>
payload == <<userSent, relayed, remoteSent, userGot>>
vars == <<client, up, upEnd, down, downEnd, server, asked, payload>>

Bytes(field, value, n) == [i \in 1 .. n |-> <<field, value>>]
LengthOf(atyp) == IF atyp = "v6" THEN AddrLen + 1 ELSE AddrLen

Hello == <<<<"version", 5>>, <<"nmethods", 1>>, <<"methods", 0>>>>
Request(atyp) ==
  <<<<"rversion", 5>>, <<"cmd", 1>>, <<"rsv", 0>>, <<"atyp", atyp>>>>
  \o Bytes("addr", 0, LengthOf(atyp))
HelloReply(method) == <<<<"version", 5>>, <<"method", method>>>>

\* Mutant of Reply: the port is left out.
ReplyShort(rep) ==
  <<<<"version", 5>>, <<"rep", rep>>, <<"rsv", 0>>, <<"atyp", "v4">>>>
  \o Bytes("addr", 0, AddrLen - 1)

\* Antinat is built without IPv6 and answers with an IPv4 address, or with zeros.
Reply(rep) ==
  <<<<"version", 5>>, <<"rep", rep>>, <<"rsv", 0>>, <<"atyp", "v4">>>>
  \o Bytes("addr", 0, AddrLen)

Init ==
  /\ state = "connecting" /\ con = "none" /\ buffer = FALSE
  /\ op = "none" /\ todo = <<>> /\ total = 0 /\ recvd = <<>>
  /\ told = "none" /\ freed = FALSE
  /\ up = <<>> /\ upEnd = FALSE /\ down = <<>> /\ downEnd = FALSE
  /\ child = "none" /\ unread = 0 /\ asked \in Addresses /\ dest = "none"
  /\ userSent = 0 /\ relayed = 0 /\ remoteSent = 0 /\ userGot = 0

-----------------------------------------------------------------------------
(* BSocksClient *)

\* Callbacks come until the user is told of an end; it frees the client there.
Live == ~freed /\ told \notin {"error", "closed"}

report_error == told' = "error" /\ UNCHANGED <<state, con, control, freed>>

\* PacketPassInterface_Sender_Send from the buffer.
Send(msg, s) ==
  /\ buffer' = TRUE /\ op' = "send" /\ todo' = msg /\ total' = 0 /\ recvd' = <<>>
  /\ state' = s
  /\ UNCHANGED <<told, freed>>

start_receive(n, s) ==
  /\ op' = "recv" /\ total' = n /\ recvd' = <<>> /\ todo' = <<>>
  /\ state' = s
  /\ UNCHANGED <<con, told, freed>>

\* Connected: the hello is sent; Antinat's accept loop starts a ChildThread.
connector_handler ==
  /\ Live /\ state = "connecting"
  /\ Send(Hello, "sending_hello") /\ con' = "control"
  /\ child' = "version" /\ unread' = 1
  /\ UNCHANGED <<up, upEnd, down, downEnd, asked, dest, payload>>

\* No connection, or no memory: whatever was set up is freed here, and the
\* state stays STATE_CONNECTING.
connector_handler_fail ==
  /\ Live /\ state = "connecting"
  /\ report_error
  /\ UNCHANGED <<up, upEnd, down, downEnd, server, asked, payload>>

\* PacketStreamSender: the socket takes n bytes.
output_handler_done(n) ==
  /\ Live /\ op = "send" /\ n <= Len(todo) /\ ~upEnd
  /\ up' = up \o SubSeq(todo, 1, n)
  /\ todo' = SubSeq(todo, n + 1, Len(todo))
  /\ UNCHANGED <<state, con, buffer, op, total, recvd, told, freed>>
  /\ UNCHANGED <<upEnd, down, downEnd, server, asked, payload>>

send_handler_done ==
  /\ Live /\ op = "send" /\ todo = <<>>
  /\ \/ /\ state = "sending_hello"
        /\ start_receive(Len(HelloReply(0)), "sent_hello")
        /\ UNCHANGED buffer
     \/ /\ state = "sending_request"
        /\ start_receive(4, "sent_request")
        /\ UNCHANGED buffer
     \/ report_error
  /\ UNCHANGED <<up, upEnd, down, downEnd, server, asked, payload>>

\* n bytes have come, and more are wanted.
recv_handler_more(n) ==
  /\ Live /\ op = "recv" /\ n <= Len(down) /\ n < total
  /\ recvd' = recvd \o SubSeq(down, 1, n)
  /\ down' = SubSeq(down, n + 1, Len(down))
  /\ total' = total - n
  /\ UNCHANGED <<state, con, buffer, op, todo, told, freed>>
  /\ UNCHANGED <<up, upEnd, downEnd, server, asked, payload>>

received_hello(msg) ==
  \/ msg[2][2] = 0 /\ Send(Request(asked), "sending_request") /\ UNCHANGED con
  \/ report_error

received_header(msg) ==
  \/ /\ msg[2][2] = 0 /\ msg[4][2] \in {"v4", "v6"}
     /\ start_receive(LengthOf(msg[4][2]), "received_header")
     /\ UNCHANGED buffer
  \/ /\ msg[2][2] # 0
     /\ report_error

\* Mutant of received_rest: the buffer is kept for the data to come.
received_rest_keep ==
  /\ op' = "none" /\ total' = 0 /\ recvd' = <<>> /\ todo' = <<>>
  /\ con' = "up" /\ state' = "up" /\ told' = "up"
  /\ UNCHANGED <<buffer, freed>>

received_rest ==
  /\ buffer' = FALSE /\ op' = "none" /\ total' = 0 /\ recvd' = <<>> /\ todo' = <<>>
  /\ con' = "up" /\ state' = "up" /\ told' = "up"
  /\ UNCHANGED freed

\* The last byte of what was asked for: the message is dealt with.
recv_handler_done ==
  /\ Live /\ op = "recv" /\ total <= Len(down)
  /\ LET msg == recvd \o SubSeq(down, 1, total)
     IN  \/ state = "sent_hello" /\ received_hello(msg)
         \/ state = "sent_request" /\ received_header(msg)
         \/ state = "received_header" /\ received_rest
  /\ down' = SubSeq(down, total + 1, Len(down))
  /\ UNCHANGED <<up, upEnd, downEnd, server, asked, payload>>

Receiving == op = "recv" \/ con = "up"

\* Mutant of ClosedEvent: an end of stream is an orderly end in every state.
ClosedEventAlways == "closed"

ClosedEvent == IF state = "up" THEN "closed" ELSE "error"

\* The server's end of stream, seen by a receive.
connection_handler_closed ==
  /\ Live /\ con # "none" /\ Receiving /\ down = <<>> /\ downEnd
  /\ told' = ClosedEvent
  /\ UNCHANGED <<state, con, control, freed>>
  /\ UNCHANGED <<up, upEnd, down, downEnd, server, asked, payload>>

\* Any other event of the connection, such as a reset.
connection_handler_error ==
  /\ Live /\ con # "none" /\ downEnd
  /\ report_error
  /\ UNCHANGED <<up, upEnd, down, downEnd, server, asked, payload>>

FreeConnection == con' = IF state # "connecting" THEN "none" ELSE con

\* tun2socks frees it when told of an end, and whenever its own client goes.
BSocksClient_Free ==
  /\ ~freed /\ freed' = TRUE
  /\ FreeConnection
  /\ buffer' = FALSE /\ op' = "none" /\ todo' = <<>> /\ total' = 0 /\ recvd' = <<>>
  /\ upEnd' = (con # "none")
  /\ UNCHANGED <<state, told, up, down, downEnd, server, asked, payload>>

\* Once up, tun2socks sends and receives payload through the same connection.
user_send ==
  /\ Live /\ state = "up" /\ userSent < Payload /\ ~upEnd
  /\ userSent' = userSent + 1
  /\ up' = Append(up, <<"payload", userSent'>>)
  /\ UNCHANGED <<client, upEnd, down, downEnd, server, asked, relayed, remoteSent, userGot>>

user_recv ==
  /\ Live /\ state = "up" /\ down # <<>>
  /\ userGot' = userGot + 1
  /\ down' = Tail(down)
  /\ UNCHANGED <<client, up, upEnd, downEnd, server, asked, userSent, relayed, remoteSent>>

-----------------------------------------------------------------------------
(* Antinat: ChildThread, socks5_handler, then a forwarder *)

Reading == child \in {"version", "nmethods", "methods", "rversion", "cmd", "rsv", "atyp", "addr"}

Read(field, n) == child' = field /\ unread' = n

\* ret == FALSE: the last answer is out and the socket closed, with what is unread.
barfed(answer) ==
  /\ down' = down \o answer
  /\ child' = "refused" /\ unread' = 0 /\ downEnd' = TRUE /\ UNCHANGED dest

\* Mutant of Following: the reserved byte is not read.
FollowingNoRsv(field) ==
  CASE field = "version" -> "nmethods" [] field = "nmethods" -> "methods"
    [] field = "rversion" -> "cmd"     [] field = "cmd" -> "atyp"
    [] field = "rsv" -> "atyp"

\* The field that follows one read by conn_getChar alone.
Following(field) ==
  CASE field = "version" -> "nmethods" [] field = "nmethods" -> "methods"
    [] field = "rversion" -> "cmd"     [] field = "cmd" -> "rsv"
    [] field = "rsv" -> "atyp"

conn_getChar ==
  /\ child \in {"version", "nmethods", "rversion", "cmd", "rsv"} /\ up # <<>>
  /\ Read(Following(child), 1)
  /\ up' = Tail(up)
  /\ UNCHANGED <<client, upEnd, down, downEnd, dest, asked, payload>>

\* The methods: a choice is sent; 0xff means none, and ends the connection.
socks5_initial ==
  /\ child = "methods" /\ up # <<>>
  /\ up' = Tail(up)
  /\ \/ Read("rversion", 1) /\ down' = down \o HelloReply(0) /\ UNCHANGED <<downEnd, dest>>
     \/ barfed(HelloReply(255))
  /\ UNCHANGED <<client, upEnd, asked, payload>>

\* The address type: only IPv4 has a resolver.
socks5_resolve ==
  /\ child = "atyp" /\ up # <<>>
  /\ up' = Tail(up)
  /\ IF Head(up)[2] = "v4" THEN Read("addr", AddrLen) /\ UNCHANGED <<down, downEnd, dest>>
     ELSE barfed(Reply(8))
  /\ UNCHANGED <<client, upEnd, asked, payload>>

conn_getSlab(n) ==
  /\ child = "addr" /\ n <= Len(up) /\ n <= unread
  /\ up' = SubSeq(up, n + 1, Len(up))
  /\ unread' = unread - n
  /\ UNCHANGED <<client, upEnd, down, downEnd, child, dest, asked, payload>>

\* The whole address is there.
socks5_resolve_ipv4 ==
  /\ child = "addr" /\ unread = 0
  /\ child' = "allowed" /\ dest' = "asked"
  /\ UNCHANGED <<client, up, upEnd, down, downEnd, unread, asked, payload>>

\* The client's end of stream, or five minutes without a byte (a send that has
\* begun is done by then).  The address is taken as it is, from the stack.
conn_waitForData ==
  /\ Reading /\ unread > 0 /\ up = <<>> /\ (upEnd \/ todo = <<>>)
  /\ IF child = "addr" THEN /\ dest' = "garbage" /\ child' = "allowed" /\ unread' = 0
                            /\ UNCHANGED <<down, downEnd>>
     ELSE barfed(<<>>)
  /\ UNCHANGED <<client, up, upEnd, asked, payload>>

\* The filter lets the connection through, or ends it without an answer.
config_isallowed ==
  /\ child = "allowed"
  /\ \/ child' = "connecting" /\ UNCHANGED <<unread, dest, down, downEnd>>
     \/ barfed(<<>>)
  /\ UNCHANGED <<client, up, upEnd, asked, payload>>

\* Connected through shadowsocks: success is answered before anything is forwarded.
socks5_cmd_conn ==
  /\ child = "connecting"
  /\ down' = down \o Reply(0)
  /\ child' = "answered"
  /\ UNCHANGED <<client, up, upEnd, downEnd, unread, dest, asked, payload>>

\* A forwarder takes the connection over; or there is no pipe, no memory or no
\* thread for one, which socks5_cmd_conn does not look at: it is left open, and
\* nobody reads or closes it any more.
conn_forwardData ==
  /\ child = "answered"
  /\ child' \in {"relaying", "stranded"}
  /\ UNCHANGED <<client, up, upEnd, down, downEnd, unread, dest, asked, payload>>

\* Mutant of Failure: the refusal is answered like a success.
FailureZero == 0

Failure == 5

socks5_cmd_conn_fail ==
  /\ child = "connecting"
  /\ barfed(Reply(Failure))
  /\ UNCHANGED <<client, up, upEnd, asked, payload>>

\* The forwarder: a byte from the client to the server, and one back.
forward_up ==
  /\ child = "relaying" /\ up # <<>>
  /\ relayed' = relayed + 1 /\ up' = Tail(up)
  /\ UNCHANGED <<client, upEnd, down, downEnd, server, asked, userSent, remoteSent, userGot>>

forward_down ==
  /\ child = "relaying" /\ remoteSent < Payload
  /\ remoteSent' = remoteSent + 1
  /\ down' = Append(down, <<"payload", remoteSent'>>)
  /\ UNCHANGED <<client, up, upEnd, downEnd, server, asked, userSent, relayed, userGot>>

\* Either side has ended: the client when all of it is read, the server any time.
forward_close ==
  /\ child = "relaying"
  /\ child' = "closed" /\ downEnd' = TRUE
  /\ UNCHANGED <<client, up, upEnd, down, unread, dest, asked, payload>>

-----------------------------------------------------------------------------
ClientStep ==
  \/ connector_handler \/ connector_handler_fail
  \/ \E n \in 1 .. Len(todo) : output_handler_done(n)
  \/ send_handler_done
  \/ \E n \in 1 .. Len(down) : recv_handler_more(n)
  \/ recv_handler_done
  \/ connection_handler_closed \/ connection_handler_error

ServerStep ==
  \/ conn_getChar \/ socks5_initial \/ socks5_resolve
  \/ \E n \in 1 .. Len(up) : conn_getSlab(n)
  \/ socks5_resolve_ipv4 \/ conn_waitForData \/ config_isallowed
  \/ socks5_cmd_conn \/ socks5_cmd_conn_fail \/ conn_forwardData

Next ==
  \/ ClientStep \/ BSocksClient_Free \/ user_send \/ user_recv
  \/ ServerStep \/ forward_up \/ forward_down \/ forward_close

\* The reactor and the child's thread run; every wait of the child is bounded.
Fairness == WF_vars(ClientStep) /\ WF_vars(ServerStep)

Spec == Init /\ [][Next]_vars /\ Fairness

-----------------------------------------------------------------------------
(* Properties *)

\* Types of the control state.
TypeOK ==
  /\ state \in {"connecting", "sending_hello", "sent_hello", "sending_request",
                "sent_request", "received_header", "up"}
  /\ con \in {"none", "control", "up"} /\ buffer \in BOOLEAN
  /\ op \in {"none", "send", "recv"} /\ told \in {"none", "up", "error", "closed"}
  /\ freed \in BOOLEAN /\ upEnd \in BOOLEAN /\ downEnd \in BOOLEAN
  /\ dest \in {"none", "asked", "garbage"} /\ total \in Nat /\ unread \in Nat
  /\ child \in {"none", "version", "nmethods", "methods", "rversion", "cmd", "rsv", "atyp",
                "addr", "allowed", "connecting", "answered", "relaying", "stranded",
                "refused", "closed"}
  /\ asked \in Addresses
  /\ userSent \in Nat /\ relayed \in Nat /\ remoteSent \in Nat /\ userGot \in Nat

\* Both sides read at the same place of the stream: the next byte is of the
\* field ChildThread reads, and neither forwarder nor tun2socks ever sees a
\* control byte or misses a byte of payload, however TCP cuts the streams.
InSync ==
  /\ up # <<>> /\ Reading /\ unread > 0 => Head(up)[1] = child
  /\ up # <<>> /\ child = "relaying" => Head(up) = <<"payload", relayed + 1>>
  /\ down # <<>> /\ state = "up" => Head(down) = <<"payload", userGot + 1>>
  /\ op = "recv" => \A i \in 1 .. Len(down) : i <= total => down[i][1] # "payload"

\* BSOCKSCLIENT_EVENT_UP says that Antinat has connected to what was asked for;
\* an address cut short never gets that far.  It does not say that a forwarder
\* could be created, which is only tried after the answer.
UpIsConnected ==
  state = "up" =>
    /\ child \in {"answered", "relaying", "stranded", "closed"}
    /\ dest = "asked" /\ asked = "v4"

\* The connection and the buffer are held exactly as long as the state says, so
\* BSocksClient_Free releases each once and no operation outlives its buffer.
HeldAsStateSays ==
  /\ op # "none" => buffer /\ con = "control" /\ ~freed
  /\ freed => con = "none" /\ ~buffer
  /\ ~freed => (con = "none") = (state = "connecting")
  /\ ~freed => (con = "up") = (state = "up") /\ (state = "up" => ~buffer)

\* What the handler tells its user, and what Tun2SocksClient relies on: up at
\* most once and first, closed only after up, nothing after an end or a free.
EventsInOrder ==
  [][/\ ~freed
     /\ \/ told = "none" /\ told' \in {"up", "error"}
        \/ told = "up" /\ told' \in {"error", "closed"}]_told

\* Nobody waits for a byte the other will not send: a connected client is told
\* how the handshake ended, or is freed.
HandshakeEnds == (state # "connecting") ~> (told # "none" \/ freed)

-----------------------------------------------------------------------------
(* The inductive invariant behind the safety properties.  Each direction is  *)
(* one stream, in which both sides know their place.                         *)

Ended == {"refused", "closed"}
Answered == {"answered", "relaying", "stranded", "closed"}

\* Which operation is under way, and what is held, follows from the state.
ClientOK ==
  /\ freed => op = "none" /\ con = "none" /\ ~buffer
  /\ op # "send" => todo = <<>>
  /\ op # "recv" => recvd = <<>>
  /\ ~freed =>
       /\ op = "send" <=> state \in {"sending_hello", "sending_request"}
       /\ op = "recv" <=> state \in {"sent_hello", "sent_request", "received_header"}
       /\ con = (CASE state = "connecting" -> "none" [] state = "up" -> "up" [] OTHER -> "control")
       /\ buffer <=> op # "none"
  /\ upEnd => freed
  /\ state # "up" => userSent = 0 /\ userGot = 0
  /\ told = "up" => state = "up"
  /\ told = "none" => state # "up"
  /\ told = "closed" => state = "up"

\* What the child reads and where it connects to, by its place.
ChildOK ==
  /\ child = "none" <=> state = "connecting"
  /\ child = "none" => up = <<>> /\ down = <<>>
  /\ Reading /\ child # "addr" => unread = 1
  /\ child = "addr" => unread <= AddrLen
  /\ ~freed /\ state \in {"sending_hello", "sent_hello"} =>
       child \in {"version", "nmethods", "methods", "rversion", "refused"}
  /\ child \notin Answered => relayed = 0 /\ remoteSent = 0
  /\ child = "none" \/ Reading => dest = "none"
  /\ child \in {"allowed", "connecting"} \cup Answered => dest # "none"
  /\ child \in {"addr", "allowed", "connecting"} \cup Answered => asked = "v4"
  /\ dest = "garbage" => freed /\ up = <<>> /\ state \notin {"received_header", "up"}
  /\ state \in {"received_header", "up"} => child \in Answered

\* The stream from the client: the hello, the request, then payload.
Control(atyp) == Hello \o Request(atyp)
UpByte(atyp, k) ==
  IF k <= Len(Control(atyp)) THEN Control(atyp)[k] ELSE <<"payload", k - Len(Control(atyp))>>

\* How much of it the child has read, and how much the client has begun to send.
ReadPos ==
  CASE child = "version" -> 0 [] child = "nmethods" -> 1 [] child = "methods" -> 2
    [] child = "rversion" -> 3 [] child = "cmd" -> 4 [] child = "rsv" -> 5 [] child = "atyp" -> 6
    [] child = "addr" -> (7 + AddrLen) - unread
    [] OTHER -> 7 + AddrLen + relayed
SendPos ==
  IF state \in {"sending_hello", "sent_hello"} THEN 3 ELSE 7 + LengthOf(asked) + userSent

UpOK ==
  child \notin {"none"} \cup Ended /\ dest # "garbage" =>
    /\ \A i \in 1 .. Len(up) : up[i] = UpByte(asked, ReadPos + i)
    /\ \A i \in 1 .. Len(todo) : todo[i] = UpByte(asked, ReadPos + Len(up) + i)
    /\ ~freed => ReadPos + Len(up) + Len(todo) = SendPos

\* The stream to the client: the method, the reply, then payload.  Only an
\* answer that data is forwarded has a zero in its fourth byte.
ReplyLen == 6 + AddrLen
DownAt(c, b, k) ==
  /\ k <= ReplyLen => b[1] # "payload"
  /\ k = 4 => c \in Answered \cup Ended /\ (b[2] = 0 <=> c \in Answered)
  /\ k = 6 => b[2] = "v4"
  /\ k > ReplyLen => b = <<"payload", k - ReplyLen>>

\* How much of it the client has read, and how much the child has written.
Passed ==
  CASE state \in {"sending_request", "sent_request"} -> 2
    [] state = "received_header" -> 6
    [] state = "up" -> ReplyLen + userGot
    [] OTHER -> 0
WritePos ==
  CASE child \in {"none", "version", "nmethods", "methods"} -> 0
    [] child \in Answered -> ReplyLen + remoteSent
    [] OTHER -> 2

InPlace ==
  /\ \A i \in 1 .. Len(recvd) : DownAt(child, recvd[i], Passed + i)
  /\ \A i \in 1 .. Len(down) : DownAt(child, down[i], Passed + Len(recvd) + i)
  /\ IF child = "refused" THEN Passed + Len(recvd) + Len(down) <= ReplyLen
     ELSE Passed + Len(recvd) + Len(down) = WritePos
  /\ op = "recv" =>
       total + Len(recvd) = (CASE state = "sent_hello" -> 2 [] state = "sent_request" -> 4
                               [] OTHER -> AddrLen)

\* A client that gave up at a reply has lost its place, but no payload follows.
GivenUp ==
  /\ told = "error"
  /\ child = "refused" \/ (child = "rversion" /\ state = "sent_hello")
  /\ \A i \in 1 .. Len(down) : down[i][1] # "payload"

DownOK == ~freed \/ state = "up" => GivenUp \/ InPlace

IInv == TypeOK /\ ClientOK /\ ChildOK /\ UpOK /\ DownOK

=============================================================================
