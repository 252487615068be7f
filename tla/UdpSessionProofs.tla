-------------------------- MODULE UdpSessionProofs --------------------------
(* Whose port a reply goes to, for any number of datagrams and replies. *)
EXTENDS UdpSession, SequenceTheorems, TLAPS

\* A packet handed to the main queue is one more on its way to the flow.
LEMMA RangeAppend ==
  \A s \in Seq(Packets), d \in Packets : Range(Append(s, d)) = Range(s) \cup {d}
<1> SUFFICES ASSUME NEW s \in Seq(Packets), NEW d \in Packets
             PROVE  Range(Append(s, d)) = Range(s) \cup {d}
  OBVIOUS
<1>1. /\ DOMAIN Append(s, d) = 1 .. Len(s) + 1 /\ DOMAIN s = 1 .. Len(s)
      /\ Append(s, d)[Len(s) + 1] = d
      /\ \A i \in 1 .. Len(s) : Append(s, d)[i] = s[i]
  OBVIOUS
<1>2. Len(s) \in Nat /\ 1 .. Len(s) + 1 = (1 .. Len(s)) \cup {Len(s) + 1}
  OBVIOUS
<1> QED BY <1>1, <1>2 DEF Range

\* The main queue takes its packets from the front.
LEMMA RangeTail ==
  \A s \in Seq(Packets) : s # <<>> => {Head(s)} \cup Range(Tail(s)) = Range(s)
<1> SUFFICES ASSUME NEW s \in Seq(Packets), s # <<>>
             PROVE  {Head(s)} \cup Range(Tail(s)) = Range(s)
  OBVIOUS
<1>1. /\ Len(s) \in Nat /\ Len(s) > 0 /\ Head(s) = s[1]
      /\ DOMAIN Tail(s) = 1 .. Len(s) - 1 /\ DOMAIN s = 1 .. Len(s)
      /\ \A i \in 1 .. Len(s) - 1 : Tail(s)[i] = s[i + 1]
  OBVIOUS
<1>2. \A i \in 2 .. Len(s) : i - 1 \in 1 .. Len(s) - 1 /\ s[i] = Tail(s)[i - 1]
  BY <1>1
<1>3. \A i \in 1 .. Len(s) : i = 1 \/ i \in 2 .. Len(s)
  BY <1>1
<1>4. \A i \in 1 .. Len(s) - 1 : i + 1 \in 1 .. Len(s)
  BY <1>1
<1>5. Range(s) \subseteq {Head(s)} \cup Range(Tail(s))
  <2> SUFFICES ASSUME NEW i \in 1 .. Len(s) PROVE s[i] \in {Head(s)} \cup Range(Tail(s))
    BY <1>1 DEF Range
  <2>1. CASE i = 1
    BY <1>1, <2>1
  <2>2. CASE i \in 2 .. Len(s)
    BY <1>1, <1>2, <2>2 DEF Range
  <2> QED BY <1>3, <2>1, <2>2
<1>6. {Head(s)} \cup Range(Tail(s)) \subseteq Range(s)
  BY <1>1, <1>4 DEF Range
<1> QED BY <1>5, <1>6

\* Whatever is on its way to the packet flow is a packet.
LEMMA OutType == TypeOK => Out \subseteq Packets
BY DEF TypeOK, Out, Range

\* What a datagram is.
LEMMA AskedType ==
  ASSUME TypeOK, NEW k \in 1 .. Len(asked)
  PROVE  /\ asked[k] \in [port : Ports, server : Servers]
         /\ asked[k].port \in Ports /\ asked[k].server \in Servers
         /\ asked[k] = [port |-> asked[k].port, server |-> asked[k].server]
<1>1. asked \in Seq([port : Ports, server : Servers])
  BY DEF TypeOK
<1>2. asked[k] \in [port : Ports, server : Servers]
  BY <1>1, ElementOfSeq, Zenon
<1> QED BY <1>2

\* What a reply in the delegate's queue is.
LEMMA InboxType ==
  ASSUME TypeOK, NEW i \in 1 .. Len(inbox)
  PROVE  /\ inbox[i] \in [of : 1 .. Len(asked), nr : 1 .. MaxReplies]
         /\ inbox[i].of \in 1 .. Len(asked)
<1>1. inbox \in Seq([of : 1 .. Len(asked), nr : 1 .. MaxReplies])
  BY DEF TypeOK
<1>2. inbox[i] \in [of : 1 .. Len(asked), nr : 1 .. MaxReplies]
  BY <1>1, ElementOfSeq, Zenon
<1> QED BY <1>2

\* While a datagram is being stored there is a last one.
LEMMA LastAsked ==
  ASSUME TypeOK, storing
  PROVE  Len(asked) \in 1 .. Len(asked) /\ Last(asked) = asked[Len(asked)]
<1>1. asked \in Seq([port : Ports, server : Servers]) /\ asked # <<>>
  BY DEF TypeOK
<1>2. Len(asked) \in Nat /\ Len(asked) # 0
  BY <1>1
<1> QED BY <1>2 DEF Last

\* The steps of the socket keep the invariant: it sends what is stored, in
\* order, drops some of it, and takes in replies in any order.
LEMMA SocketIInv ==
  ASSUME IInv,
         \/ maybeDequeueSend \/ doSendTimeout \/ closeWithError
         \/ \E r \in network : doReceive(r)
  PROVE  IInv'
<1>0. /\ UNCHANGED <<session, asked, storing, packets, written, crashed>>
      /\ Out' = Out
  BY DEF maybeDequeueSend, doSendTimeout, closeWithError, doReceive, Out
<1>1. SessionOK' /\ ReplyToAsker' /\ NoStranger'
  BY <1>0 DEF IInv, SessionOK, Stored, ReplyToAsker, NoStranger, SharedServer, Server
<1>2. CASE maybeDequeueSend
  <2>1. /\ queue # <<>> /\ queue' = Tail(queue) /\ inbox' = inbox /\ socket' = Reopen
        /\ \A r \in network' :
             r \in network \/ \E n \in 1 .. MaxReplies : r = [of |-> Head(queue), nr |-> n]
    BY <1>2 DEF maybeDequeueSend
  <2>2. Head(queue) \in 1 .. Len(asked) /\ Stored(Head(queue))
    BY <2>1 DEF IInv, TypeOK, FlightOK
  <2>3. TypeOK'
    BY <1>0, <2>1, <2>2 DEF IInv, TypeOK, Reopen
  <2>4. FlightOK'
    BY <1>0, <2>1, <2>2 DEF IInv, TypeOK, FlightOK, Stored
  <2> QED BY <1>1, <2>3, <2>4 DEF IInv
<1>3. CASE doSendTimeout \/ closeWithError
  <2>1. /\ (queue # <<>> /\ queue' = Tail(queue)) \/ queue' = <<>>
        /\ inbox' = inbox /\ network' = network /\ socket' \in {"receiving", "closed", "deaf"}
    BY <1>3 DEF doSendTimeout, closeWithError, Reopen, IInv, TypeOK
  <2>2. /\ queue' \in Seq(1 .. Len(asked))
        /\ \A i \in 1 .. Len(queue') : Stored(queue'[i])
    <3>1. CASE queue # <<>> /\ queue' = Tail(queue)
      <4>1. queue \in Seq(1 .. Len(asked)) /\ \A i \in 1 .. Len(queue) : Stored(queue[i])
        BY DEF IInv, TypeOK, FlightOK
      <4>2. /\ Tail(queue) \in Seq(1 .. Len(asked)) /\ Len(Tail(queue)) = Len(queue) - 1
            /\ \A i \in 1 .. Len(Tail(queue)) : Tail(queue)[i] = queue[i + 1]
        BY <3>1, <4>1, HeadTailProperties
      <4>3. ASSUME NEW i \in 1 .. Len(Tail(queue)) PROVE Stored(Tail(queue)[i])
        <5>1. Len(queue) \in Nat /\ Len(Tail(queue)) = Len(queue) - 1
          BY <4>1, <4>2
        <5>2. i + 1 \in 1 .. Len(queue)
          BY <5>1
        <5> QED BY <4>1, <4>2, <5>2
      <4> QED BY <3>1, <4>2, <4>3
    <3>2. CASE queue' = <<>>
      BY <3>2
    <3> QED BY <2>1, <3>1, <3>2
  <2>3. TypeOK'
    BY <1>0, <2>1, <2>2 DEF IInv, TypeOK
  <2>4. FlightOK'
    BY <1>0, <2>1, <2>2 DEF IInv, FlightOK, Stored
  <2> QED BY <1>1, <2>3, <2>4 DEF IInv
<1>4. CASE \E r \in network : doReceive(r)
  <2>1. PICK r \in network : doReceive(r)
    BY <1>4
  <2>2. TypeOK'
    BY <1>0, <2>1 DEF doReceive, IInv, TypeOK
  <2>3. FlightOK'
    BY <1>0, <2>1 DEF doReceive, IInv, TypeOK, FlightOK, Stored
  <2> QED BY <1>1, <2>2, <2>3 DEF IInv
<1> QED BY <1>2, <1>3, <1>4

\* A datagram taken from the flow keeps it: who asked before is not forgotten.
LEMMA TakeIInv ==
  ASSUME IInv, NEW p \in Ports, NEW s \in Servers, handleUDPPacket(p, s)
  PROVE  IInv'
<1> USE DEF handleUDPPacket, socketVars
<1>1. /\ Len(asked) \in Nat /\ Len(asked') = Len(asked) + 1
      /\ asked' \in Seq([port : Ports, server : Servers])
      /\ \A k \in 1 .. Len(asked) : k \in 1 .. Len(asked') /\ asked'[k] = asked[k]
  BY DEF IInv, TypeOK
<1>2. Out' = Out /\ Out \subseteq Packets
  BY OutType DEF Out, IInv
<1>3. TypeOK'
  <2>1. 1 .. Len(asked) \subseteq 1 .. Len(asked')
    BY <1>1
  <2>2. queue' \in Seq(1 .. Len(asked'))
    BY <2>1 DEF IInv, TypeOK
  <2>3. network' \subseteq [of : 1 .. Len(asked'), nr : 1 .. MaxReplies]
    BY <2>1 DEF IInv, TypeOK
  <2>4. inbox' \in Seq([of : 1 .. Len(asked'), nr : 1 .. MaxReplies])
    <3> DEFINE S == [of : 1 .. Len(asked), nr : 1 .. MaxReplies]
               T == [of : 1 .. Len(asked'), nr : 1 .. MaxReplies]
    <3>1. inbox' = inbox /\ inbox \in Seq(S)
      BY DEF IInv, TypeOK
    <3>2. S \subseteq T
      BY <2>1
    <3> HIDE DEF S, T
    <3>3. inbox' \in Seq(T)
      BY <3>1, <3>2, SeqMonotonic
    <3> QED BY <3>3 DEF T
  <2>5. Len(asked') <= MaxPackets /\ asked' # <<>>
    <3>1. Len(asked) < MaxPackets /\ MaxPackets \in Nat
      BY SessionAssumption
    <3>2. Len(asked) \in Nat /\ Len(asked') = Len(asked) + 1
      BY <1>1
    <3>3. Len(asked') <= MaxPackets /\ Len(asked') # 0
      BY <3>1, <3>2
    <3> QED BY <3>3, EmptySeq
  <2> QED BY <1>1, <2>2, <2>3, <2>4, <2>5 DEF IInv, TypeOK
<1>4. SessionOK'
  <2>1. \A t \in Servers :
          session[t] # NoPort => \E j \in 1 .. Len(asked') :
            asked'[j] = [port |-> session[t], server |-> t]
    BY <1>1 DEF IInv, SessionOK
  <2>2. \A k \in 1 .. Len(asked') : Stored(k)' => k \in 1 .. Len(asked)
    BY <1>1 DEF Stored
  <2>3. \A k \in 1 .. Len(asked) : session[asked'[k].server] # NoPort
    BY <1>1 DEF IInv, SessionOK, Stored
  <2> QED BY <2>1, <2>2, <2>3 DEF SessionOK
<1>5. FlightOK'
  <2>1. \A k \in 1 .. Len(asked) : Stored(k)'
    BY <1>1 DEF Stored
  <2>2. /\ \A i \in 1 .. Len(queue) : queue[i] \in 1 .. Len(asked)
        /\ \A r \in network : r.of \in 1 .. Len(asked)
        /\ \A i \in 1 .. Len(inbox) : inbox[i].of \in 1 .. Len(asked)
    BY InboxType DEF IInv, TypeOK
  <2>3. \A d \in Out' : d.reply.of <= Len(asked')
    <3>1. \A d \in Out : d.reply.of \in Nat /\ d.reply.of <= Len(asked)
      BY <1>2 DEF IInv, FlightOK, Packets, Replies
    <3> QED BY <1>1, <1>2, <3>1
  <2> QED BY <2>1, <2>2, <2>3 DEF FlightOK
<1>6. \A d \in Out : d.reply.of \in 1 .. Len(asked) /\ asked'[d.reply.of] = asked[d.reply.of]
  BY <1>1, <1>2 DEF IInv, FlightOK, Packets, Replies
<1>7. ReplyToAsker'
  BY <1>1, <1>2, <1>6 DEF IInv, ReplyToAsker, SharedServer, Server
<1>8. NoStranger'
  BY <1>1, <1>2, <1>6 DEF IInv, NoStranger, Server
<1> QED BY <1>3, <1>4, <1>5, <1>7, <1>8 DEF IInv

\* The store keeps it: the new entry is of the last datagram.
LEMMA StoreIInv ==
  ASSUME IInv, sendData
  PROVE  IInv'
<1> USE DEF sendData
<1> DEFINE a == asked[Len(asked)]
<1>0. Len(asked) \in 1 .. Len(asked) /\ Last(asked) = a
  BY LastAsked DEF IInv
<1>1. /\ a \in [port : Ports, server : Servers] /\ a.port \in Ports /\ a.server \in Servers
      /\ a = [port |-> a.port, server |-> a.server]
      /\ session' = [session EXCEPT ![a.server] = a.port]
  BY <1>0, AskedType DEF IInv, Store
<1>2. Out' = Out /\ asked' = asked
  BY DEF Out
<1>3. TypeOK'
  <2>1. session' \in [Servers -> Ports \cup {NoPort}]
    BY <1>1 DEF IInv, TypeOK
  <2>2. queue' \in Seq(1 .. Len(asked'))
    BY <1>0, <1>2 DEF IInv, TypeOK
  <2> QED BY <2>1, <2>2 DEF IInv, TypeOK
<1>4. SessionOK'
  <2>1. a.port # NoPort
    BY <1>1, SessionAssumption
  <2>2. \A t \in Servers : t # a.server => session'[t] = session[t]
    BY <1>1 DEF IInv, TypeOK
  <2>3. session'[a.server] = a.port
    BY <1>1 DEF IInv, TypeOK
  <2>4. \A t \in Servers :
          session'[t] # NoPort => \E j \in 1 .. Len(asked) :
            asked[j] = [port |-> session'[t], server |-> t]
    BY <1>0, <1>1, <2>1, <2>2, <2>3 DEF IInv, SessionOK
  <2>5. \A k \in 1 .. Len(asked) : session'[asked[k].server] # NoPort
    <3> SUFFICES ASSUME NEW k \in 1 .. Len(asked) PROVE session'[asked[k].server] # NoPort
      OBVIOUS
    <3>1. asked[k].server \in Servers
      BY AskedType DEF IInv
    <3>2. CASE asked[k].server = a.server
      BY <3>2, <2>1, <2>3
    <3>3. CASE asked[k].server # a.server
      <4>1. k # Len(asked)
        BY <3>3
      <4>2. k < Len(asked)
        BY <4>1 DEF IInv, TypeOK
      <4> QED BY <3>1, <3>3, <4>2, <2>2 DEF IInv, SessionOK, Stored
    <3> QED BY <3>2, <3>3
  <2> QED BY <1>2, <2>4, <2>5 DEF SessionOK
<1>5. FlightOK'
  BY <1>0, <1>2 DEF IInv, TypeOK, FlightOK, Stored
<1>6. ReplyToAsker' /\ NoStranger'
  BY <1>2 DEF IInv, ReplyToAsker, NoStranger, SharedServer, Server
<1> QED BY <1>3, <1>4, <1>5, <1>6 DEF IInv

\* A lookup finds the one who asked, when nothing is being stored and only one
\* has asked that server.
LEMMA EntryOfAsker ==
  ASSUME IInv, ~storing, NEW k \in 1 .. Len(asked),
         ~SharedServer(k), asked[k].server \notin V6Servers
  PROVE  Entry(asked[k].server) = asked[k].port
<1>1. asked[k].server \in Servers /\ session[asked[k].server] # NoPort
  BY AskedType DEF IInv, SessionOK, Stored
<1>2. PICK j \in 1 .. Len(asked) :
        asked[j] = [port |-> session[asked[k].server], server |-> asked[k].server]
  BY <1>1 DEF IInv, SessionOK
<1>3. asked[j].port = asked[k].port
  BY <1>2 DEF SharedServer
<1> QED BY <1>2, <1>3 DEF Entry

\* A lookup, also one that runs into the store, finds no stranger.
LEMMA EntryNoStranger ==
  ASSUME IInv, NEW s \in Servers,
         NEW p \in IF storing THEN Racing(s) ELSE {Entry(s)}
  PROVE  /\ p \in Ports \cup {NoPort}
         /\ p # NoPort => \E j \in 1 .. Len(asked) : asked[j] = [port |-> p, server |-> s]
<1>1. CASE p \in {Entry(s), NoPort}
  BY <1>1 DEF Entry, IInv, TypeOK, SessionOK
<1>2. CASE storing /\ Last(asked).server = s /\ p = Last(asked).port
  <2>1. Len(asked) \in 1 .. Len(asked) /\ Last(asked) = asked[Len(asked)]
    BY <1>2, LastAsked DEF IInv
  <2>2. p \in Ports /\ asked[Len(asked)] = [port |-> p, server |-> s]
    BY <1>2, <2>1, AskedType DEF IInv
  <2> QED BY <2>1, <2>2
<1> QED BY <1>1, <1>2 DEF Racing

\* didReceiveData keeps it.
LEMMA ReceiveIInv ==
  ASSUME IInv, didReceiveData
  PROVE  IInv'
<1> DEFINE r == Head(inbox)
           s == asked[r.of].server
<1>1. /\ inbox # <<>> /\ inbox' = Tail(inbox)
      /\ UNCHANGED <<session, asked, storing, queue, socket, network, written, crashed>>
  BY DEF didReceiveData, socketVars
<1>2. r.of \in 1 .. Len(asked) /\ s \in Servers /\ r \in Replies
  <2>0. 1 \in 1 .. Len(inbox) /\ r = inbox[1]
    BY <1>1 DEF IInv, TypeOK
  <2>1. r \in [of : 1 .. Len(asked), nr : 1 .. MaxReplies]
    BY <2>0, InboxType DEF IInv
  <2>2. r.of \in 1 .. Len(asked)
    BY <2>1
  <2>3. 1 .. Len(asked) \subseteq 1 .. MaxPackets
    BY SessionAssumption DEF IInv, TypeOK
  <2> QED BY <2>1, <2>2, <2>3, AskedType DEF IInv, Replies
<1>3. PICK p \in IF storing THEN Racing(s) ELSE {Entry(s)} : Deliver(r, p)
  BY DEF didReceiveData, Server
<1>4. /\ p \in Ports \cup {NoPort}
      /\ p # NoPort => \E j \in 1 .. Len(asked) : asked[j] = [port |-> p, server |-> s]
  BY <1>2, <1>3, EntryNoStranger
<1> DEFINE d == [reply |-> r, port |-> p, raced |-> storing]
<1>5. d \in Packets /\ packets' = Append(packets, d)
  BY <1>2, <1>3, <1>4 DEF Packets, Deliver, IInv, TypeOK
<1>6. Out' = Out \cup {d}
  BY <1>1, <1>5, RangeAppend DEF Out, IInv, TypeOK
<1>7. d.reply = r /\ d.port = p /\ d.raced = storing /\ Server(d.reply) = s /\ d.reply.of = r.of
  BY DEF Server
<1> HIDE DEF d
<1>8. TypeOK'
  BY <1>1, <1>5 DEF IInv, TypeOK
<1>9. SessionOK'
  BY <1>1 DEF IInv, SessionOK, Stored
<1>10. FlightOK'
  BY <1>1, <1>2, <1>6, <1>7 DEF IInv, TypeOK, FlightOK, Stored
<1>11. ReplyToAsker'
  <2>1. p = asked[r.of].port \/ storing \/ SharedServer(r.of) \/ s \in V6Servers
    BY <1>2, <1>3, EntryOfAsker
  <2>2. \/ d.port = asked[d.reply.of].port
        \/ d.raced \/ SharedServer(d.reply.of) \/ Server(d.reply) \in V6Servers
    BY <1>7, <2>1
  <2> QED BY <1>1, <1>6, <2>2 DEF IInv, ReplyToAsker, SharedServer, Server
<1>12. NoStranger'
  <2>1. d.port # NoPort => \E j \in 1 .. Len(asked) :
          asked[j] = [port |-> d.port, server |-> Server(d.reply)]
    BY <1>4, <1>7
  <2> QED BY <1>1, <1>6, <2>1 DEF IInv, NoStranger, Server
<1> QED BY <1>8, <1>9, <1>10, <1>11, <1>12 DEF IInv

\* A crash in the lookup, and the main queue's write, keep it.
LEMMA WriteIInv ==
  ASSUME IInv, didReceiveData_crash \/ writePacket
  PROVE  IInv'
<1>1. UNCHANGED <<session, asked, storing, queue, socket, network, inbox>>
  BY DEF didReceiveData_crash, writePacket, socketVars
<1>2. TypeOK' /\ Out' = Out
  <2>1. CASE didReceiveData_crash
    BY <1>1, <2>1 DEF didReceiveData_crash, IInv, TypeOK, Out
  <2>2. CASE writePacket
    <3>1. /\ packets # <<>> /\ written' = written \cup {Head(packets)}
          /\ packets' = Tail(packets) /\ crashed' = crashed
      BY <2>2 DEF writePacket
    <3>2. Out' = Out
      BY <3>1, RangeTail DEF IInv, TypeOK, Out
    <3>3. TypeOK'
      BY <1>1, <3>1 DEF IInv, TypeOK
    <3> QED BY <3>2, <3>3
  <2> QED BY <2>1, <2>2
<1>3. SessionOK' /\ FlightOK'
  BY <1>1, <1>2 DEF IInv, SessionOK, FlightOK, Stored
<1>4. ReplyToAsker' /\ NoStranger'
  BY <1>1, <1>2 DEF IInv, ReplyToAsker, NoStranger, SharedServer, Server
<1> QED BY <1>2, <1>3, <1>4 DEF IInv

\* IInv holds in every reachable state.
THEOREM Invariant == Spec => []IInv
<1>1. Init => IInv
  <2> SUFFICES ASSUME Init PROVE IInv
    OBVIOUS
  <2>1. Out = {}
    BY DEF Init, Out, Range
  <2>2. TypeOK
    <3>1. Len(asked) = 0 /\ queue \in Seq(1 .. 0) /\ packets \in Seq(Packets)
      BY DEF Init
    <3>2. inbox \in Seq([of : 1 .. Len(asked), nr : 1 .. MaxReplies])
      BY EmptySeq, Zenon DEF Init
    <3>3. network \subseteq [of : 1 .. Len(asked), nr : 1 .. MaxReplies]
      BY DEF Init
    <3>4. Len(asked) <= MaxPackets /\ queue \in Seq(1 .. Len(asked))
      BY <3>1, SessionAssumption
    <3>5. session \in [Servers -> Ports \union {NoPort}]
      BY DEF Init
    <3>6. asked \in Seq([port : Ports, server : Servers]) /\ storing = FALSE
      BY EmptySeq, Zenon DEF Init
    <3>7. socket = "receiving" /\ written = {} /\ crashed = FALSE
      BY DEF Init
    <3> QED BY <3>1, <3>2, <3>3, <3>4, <3>5, <3>6, <3>7, Zenon DEF TypeOK
  <2>3. SessionOK /\ FlightOK
    BY <2>1 DEF Init, SessionOK, FlightOK
  <2> QED BY <2>1, <2>2, <2>3 DEF IInv, ReplyToAsker, NoStranger
<1>2. IInv /\ [Next]_vars => IInv'
  <2> SUFFICES ASSUME IInv, [Next]_vars PROVE IInv'
    OBVIOUS
  <2>1. CASE UNCHANGED vars
    BY <2>1 DEF vars, socketVars, IInv, TypeOK, SessionOK, FlightOK, Stored, Out,
       ReplyToAsker, NoStranger, SharedServer, Server
  <2>2. CASE \E p \in Ports, s \in Servers : handleUDPPacket(p, s)
    BY <2>2, TakeIInv
  <2> QED BY <2>1, <2>2, StoreIInv, SocketIInv, ReceiveIInv, WriteIInv DEF Next
<1> QED BY <1>1, <1>2, PTL DEF Spec

\* The state stays within its types.
THEOREM TypeCorrect == Spec => []TypeOK
BY Invariant, PTL DEF IInv

\* didReceiveData gives a reply to the port that asked, but for the three cases
\* ReplyToAsker names.
THEOREM RepliesToAsker == Spec => []ReplyToAsker
BY Invariant, PTL DEF IInv

\* Nobody is given what came from a server he never sent to.
THEOREM RepliesToNoStranger == Spec => []NoStranger
BY Invariant, PTL DEF IInv

=============================================================================
