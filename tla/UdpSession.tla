----------------------------- MODULE UdpSession -----------------------------
(***************************************************************************)
(* UDP through the tunnel interface: handleUDPPacket notes, under the       *)
(* address of the server, which local port asked, and sends the payload     *)
(* through one GCDAsyncUdpSocket; didReceiveData looks the port up again,   *)
(* builds the packet and leaves it to the main queue.  The dictionary is    *)
(* written on the packet flow's queue and read on the socket's, without a   *)
(* lock: a store is two steps, and a lookup between them may see the old    *)
(* entry, the new one, none, or crash.                                      *)
(***************************************************************************)
EXTENDS Naturals, Sequences, SequencesExt

CONSTANTS
  Ports,       \* local addresses and ports of the device's programs
  Servers,     \* remote addresses and ports
  V6Servers,   \* the ones a NAT64 network reaches, and answers from, by IPv6
  NoPort,      \* what the lookup of an unknown address is read as, 0.0.0.0:0
  MaxPackets,  \* bound on the datagrams sent
  MaxReplies   \* bound on the answers to each of them

ASSUME SessionAssumption ==
  /\ NoPort \notin Ports /\ V6Servers \subseteq Servers
  /\ MaxPackets \in Nat /\ MaxReplies \in Nat

VARIABLES
  session,  \* udpSession: who asked each server last, or NoPort
  asked,    \* the datagrams taken from the packet flow: [port, server]
  storing,  \* the last of them is being stored
  queue,    \* sendQueue: the numbers of those that wait in the socket
  socket,   \* "receiving", "closed" or "deaf": opened again, only to send
  network,  \* replies under way: [of, nr]
  inbox,    \* replies handed to the delegate's queue
  packets,  \* packets handed to the main queue: [reply, port, raced]
  written,  \* packets given to the packet flow
  crashed   \* a lookup met a dictionary in the middle of a change

socketVars == <<queue, socket, network>>
vars == <<session, asked, storing, socketVars, inbox, packets, written, crashed>>

Init ==
  /\ session = [s \in Servers |-> NoPort] /\ asked = <<>> /\ storing = FALSE
  /\ queue = <<>> /\ socket = "receiving" /\ network = {}
  /\ inbox = <<>> /\ packets = <<>> /\ written = {} /\ crashed = FALSE

-----------------------------------------------------------------------------
(* The packet flow's queue *)

handleUDPPacket(p, s) ==
  /\ ~crashed /\ ~storing /\ Len(asked) < MaxPackets
  /\ asked' = Append(asked, [port |-> p, server |-> s])
  /\ storing' = TRUE
  /\ UNCHANGED <<session, socketVars, inbox, packets, written, crashed>>

\* Mutant of Store: every server's entry is changed.
StoreAll(a) == [s \in Servers |-> a.port]

Store(a) == [session EXCEPT ![a.server] = a.port]

\* The entry is in place; the socket queues the payload.
sendData ==
  /\ ~crashed /\ storing
  /\ session' = Store(Last(asked))
  /\ storing' = FALSE
  /\ queue' = Append(queue, Len(asked))
  /\ UNCHANGED <<asked, socket, network, inbox, packets, written, crashed>>

-----------------------------------------------------------------------------
(* The socket: one serial queue *)

\* A closed socket is created again for a send, without beginReceiving.
Reopen == IF socket = "closed" THEN "deaf" ELSE socket

\* sendto succeeds; the server may answer, but only to a socket that still reads.
maybeDequeueSend ==
  /\ ~crashed /\ queue # <<>>
  /\ socket' = Reopen
  /\ queue' = Tail(queue)
  /\ network' = network \union
       (IF socket' = "receiving" THEN {[of |-> Head(queue), nr |-> n] : n \in 1 .. MaxReplies}
        ELSE {})
  /\ UNCHANGED <<session, asked, storing, inbox, packets, written, crashed>>

\* The name is not resolved or thirty seconds are over: this datagram only.
doSendTimeout ==
  /\ ~crashed /\ queue # <<>>
  /\ socket' = Reopen
  /\ queue' = Tail(queue)
  /\ UNCHANGED <<session, asked, storing, network, inbox, packets, written, crashed>>

\* Any other error of sendto, or stop: everything queued is dropped.
closeWithError ==
  /\ ~crashed
  /\ socket' = "closed" /\ queue' = <<>>
  /\ UNCHANGED <<session, asked, storing, network, inbox, packets, written, crashed>>

\* A reply arrives: late, twice or out of order, as UDP allows.
doReceive(r) ==
  /\ ~crashed /\ socket = "receiving"
  /\ network' = network \ {r}
  /\ inbox' = Append(inbox, r)
  /\ UNCHANGED <<session, asked, storing, queue, socket, packets, written, crashed>>

-----------------------------------------------------------------------------
(* The delegate's queue *)

Server(r) == asked[r.of].server

\* Mutant of Entry: an unknown server is taken for the last one asked.
EntryOfLast(s) == IF s \in V6Servers THEN Last(asked).port ELSE session[s]

\* A sockaddr_in6 read as a sockaddr_in gives no address that was ever stored.
Entry(s) == IF s \in V6Servers THEN NoPort ELSE session[s]

\* Outcomes of a lookup while the last packet is being stored.
Racing(s) ==
  {Entry(s), NoPort} \union (IF Last(asked).server = s /\ s \notin V6Servers THEN {Last(asked).port} ELSE {})

\* Mutant of Deliver: the packet of a server that is not known is dropped.
DeliverKnown(r, p) ==
  packets' = IF p = NoPort THEN packets
             ELSE Append(packets, [reply |-> r, port |-> p, raced |-> storing])

Deliver(r, p) == packets' = Append(packets, [reply |-> r, port |-> p, raced |-> storing])

didReceiveData ==
  /\ ~crashed /\ inbox # <<>>
  /\ LET r == Head(inbox)
     IN  \E p \in IF storing THEN Racing(Server(r)) ELSE {Entry(Server(r))} : Deliver(r, p)
  /\ inbox' = Tail(inbox)
  /\ UNCHANGED <<session, asked, storing, socketVars, written, crashed>>

didReceiveData_crash ==
  /\ ~crashed /\ inbox # <<>> /\ storing
  /\ crashed' = TRUE
  /\ UNCHANGED <<session, asked, storing, socketVars, inbox, packets, written>>

(* The main queue *)

writePacket ==
  /\ ~crashed /\ packets # <<>>
  /\ written' = written \union {Head(packets)}
  /\ packets' = Tail(packets)
  /\ UNCHANGED <<session, asked, storing, socketVars, inbox, crashed>>

-----------------------------------------------------------------------------
Next ==
  \/ \E p \in Ports, s \in Servers : handleUDPPacket(p, s)
  \/ sendData
  \/ maybeDequeueSend \/ doSendTimeout \/ closeWithError
  \/ \E r \in network : doReceive(r)
  \/ didReceiveData \/ didReceiveData_crash
  \/ writePacket

\* Blocks handed to a dispatch queue run; the network promises nothing.
Fairness ==
  /\ WF_vars(sendData)
  /\ WF_vars(didReceiveData)
  /\ WF_vars(writePacket)

Spec == Init /\ [][Next]_vars /\ Fairness

-----------------------------------------------------------------------------
(* Properties *)

Replies == [of : 1 .. MaxPackets, nr : 1 .. MaxReplies]
Packets == [reply : Replies, port : Ports \union {NoPort}, raced : BOOLEAN]

\* Types; every reply belongs to a datagram that was taken from the flow.
TypeOK ==
  /\ session \in [Servers -> Ports \union {NoPort}]
  /\ asked \in Seq([port : Ports, server : Servers]) /\ Len(asked) <= MaxPackets
  /\ storing \in BOOLEAN /\ (storing => asked # <<>>)
  /\ queue \in Seq(1 .. Len(asked)) /\ socket \in {"receiving", "closed", "deaf"}
  /\ network \subseteq [of : 1 .. Len(asked), nr : 1 .. MaxReplies]
  /\ inbox \in Seq([of : 1 .. Len(asked), nr : 1 .. MaxReplies])
  /\ packets \in Seq(Packets) /\ written \subseteq Packets /\ crashed \in BOOLEAN

Out == written \union Range(packets)

SharedServer(k) ==
  \E j \in 1 .. Len(asked) :
    asked[j].server = asked[k].server /\ asked[j].port # asked[k].port

\* didReceiveData gives a reply to the port that asked, unless another port has
\* used the same server, or the lookup ran into a store, or the answer came by IPv6.
ReplyToAsker ==
  \A d \in Out :
    \/ d.port = asked[d.reply.of].port
    \/ d.raced \/ SharedServer(d.reply.of) \/ Server(d.reply) \in V6Servers

\* Even then nobody is given what came from a server he never sent to: the
\* entry didReceiveData finds is of a sender to that server, or missing.
NoStranger ==
  \A d \in Out :
    d.port # NoPort => \E j \in 1 .. Len(asked) :
      asked[j] = [port |-> d.port, server |-> Server(d.reply)]

\* What the socket handed over reaches the packet flow, after a close too.
RepliesWritten ==
  \A k \in 1 .. MaxPackets, n \in 1 .. MaxReplies :
    [of |-> k, nr |-> n] \in Range(inbox) ~>
      crashed \/ \E d \in written : d.reply = [of |-> k, nr |-> n]

-----------------------------------------------------------------------------
(* The inductive invariant behind the safety properties. *)

\* The entry of datagram k was put in place, before anything of it was sent.
Stored(k) == storing => k < Len(asked)

\* An entry is of somebody who asked that server, and is never taken back.
SessionOK ==
  /\ \A s \in Servers :
       session[s] # NoPort => \E j \in 1 .. Len(asked) :
         asked[j] = [port |-> session[s], server |-> s]
  /\ \A k \in 1 .. Len(asked) : Stored(k) => session[asked[k].server] # NoPort

\* Only what is stored is sent, and only what was sent is answered.
FlightOK ==
  /\ \A i \in 1 .. Len(queue) : Stored(queue[i])
  /\ \A r \in network : Stored(r.of)
  /\ \A i \in 1 .. Len(inbox) : Stored(inbox[i].of)
  /\ \A d \in Out : d.reply.of <= Len(asked)

IInv == TypeOK /\ SessionOK /\ FlightOK /\ ReplyToAsker /\ NoStranger

=============================================================================
