------------------------ MODULE SocksHandshakeProofs ------------------------
(* The SOCKS handshake never loses its place, for every length of address,  *)
(* any amount of payload and every way TCP cuts the streams.                 *)
EXTENDS SocksHandshake, SequenceTheorems, TLAPS

-----------------------------------------------------------------------------
(* Bytes and messages *)

Fields == {"version", "nmethods", "methods", "method", "rversion", "cmd", "rsv", "atyp", "addr",
           "rep", "payload"}
AnyByte == Fields \X (Nat \cup {"v4", "v6"})

StreamsOK ==
  /\ up \in Seq(AnyByte) /\ down \in Seq(AnyByte)
  /\ todo \in Seq(AnyByte) /\ recvd \in Seq(AnyByte)

\* What taking the first byte of a stream leaves.
LEMMA TailBytes ==
  \A s \in Seq(AnyByte) : s # <<>> =>
    /\ Tail(s) \in Seq(AnyByte) /\ Len(s) \in Nat /\ Len(s) >= 1 /\ Len(Tail(s)) = Len(s) - 1
    /\ Head(s) = s[1]
    /\ \A i \in 1 .. Len(Tail(s)) : i + 1 \in 1 .. Len(s) /\ Tail(s)[i] = s[i + 1]
OBVIOUS

\* What taking the first n bytes of a stream gives and leaves.
LEMMA SplitBytes ==
  \A s \in Seq(AnyByte) : \A n \in 0 .. Len(s) :
    /\ SubSeq(s, 1, n) \in Seq(AnyByte) /\ Len(SubSeq(s, 1, n)) = n
    /\ SubSeq(s, n + 1, Len(s)) \in Seq(AnyByte) /\ Len(SubSeq(s, n + 1, Len(s))) = Len(s) - n
    /\ \A i \in 1 .. n : i \in 1 .. Len(s) /\ SubSeq(s, 1, n)[i] = s[i]
    /\ \A i \in 1 .. Len(s) - n : n + i \in 1 .. Len(s) /\ SubSeq(s, n + 1, Len(s))[i] = s[n + i]
OBVIOUS

\* What putting t behind s gives.
LEMMA ConcatBytes ==
  \A s, t \in Seq(AnyByte) :
    /\ s \o t \in Seq(AnyByte) /\ Len(s \o t) = Len(s) + Len(t)
    /\ Len(s) \in Nat /\ Len(t) \in Nat
    /\ \A i \in 1 .. Len(s) : (s \o t)[i] = s[i]
    /\ \A i \in 1 .. Len(s) + Len(t) : i > Len(s) =>
         i - Len(s) \in 1 .. Len(t) /\ (s \o t)[i] = t[i - Len(s)]
OBVIOUS

\* A field and its value are a byte.
LEMMA ByteType ==
  /\ \A f \in Fields : \A v \in Nat : <<f, v>> \in AnyByte
  /\ \A f \in Fields : \A a \in {"v4", "v6"} : <<f, a>> \in AnyByte
BY DEF AnyByte

\* The messages of the client.
LEMMA HelloBytes ==
  /\ Hello \in Seq(AnyByte) /\ Len(Hello) = 3
  /\ Hello[1][1] = "version" /\ Hello[2][1] = "nmethods" /\ Hello[3][1] = "methods"
<1>1. <<"version", 5>> \in AnyByte /\ <<"nmethods", 1>> \in AnyByte /\ <<"methods", 0>> \in AnyByte
  BY DEF AnyByte, Fields
<1> QED BY <1>1 DEF Hello

\* The request names its address type in its fourth byte.
LEMMA RequestBytes ==
  \A a \in {"v4", "v6"} :
    /\ LengthOf(a) \in Nat /\ LengthOf(a) >= 1
    /\ Request(a) \in Seq(AnyByte) /\ Len(Request(a)) = 4 + LengthOf(a)
    /\ Request(a)[1][1] = "rversion" /\ Request(a)[2][1] = "cmd" /\ Request(a)[3][1] = "rsv"
    /\ Request(a)[4] = <<"atyp", a>>
    /\ \A i \in 5 .. 4 + LengthOf(a) : Request(a)[i][1] = "addr"
<1> SUFFICES ASSUME NEW a \in {"v4", "v6"}
             PROVE  /\ LengthOf(a) \in Nat /\ LengthOf(a) >= 1
                    /\ Request(a) \in Seq(AnyByte) /\ Len(Request(a)) = 4 + LengthOf(a)
                    /\ Request(a)[1][1] = "rversion" /\ Request(a)[2][1] = "cmd"
                    /\ Request(a)[3][1] = "rsv" /\ Request(a)[4] = <<"atyp", a>>
                    /\ \A i \in 5 .. 4 + LengthOf(a) : Request(a)[i][1] = "addr"
  OBVIOUS
<1> DEFINE h == <<<<"rversion", 5>>, <<"cmd", 1>>, <<"rsv", 0>>, <<"atyp", a>>>>
           n == LengthOf(a)
           t == Bytes("addr", 0, n)
<1>1. n \in Nat /\ n >= 1
  BY HandshakeAssumption DEF LengthOf
<1>2. /\ h \in Seq(AnyByte) /\ Len(h) = 4
      /\ h[1][1] = "rversion" /\ h[2][1] = "cmd" /\ h[3][1] = "rsv" /\ h[4] = <<"atyp", a>>
  <2>1. /\ <<"rversion", 5>> \in AnyByte /\ <<"cmd", 1>> \in AnyByte
        /\ <<"rsv", 0>> \in AnyByte /\ <<"atyp", a>> \in AnyByte
    BY DEF AnyByte, Fields
  <2> QED BY <2>1
<1>3. t \in Seq(AnyByte) /\ Len(t) = n /\ \A i \in 1 .. n : t[i] = <<"addr", 0>>
  <2>1. <<"addr", 0>> \in AnyByte
    BY DEF AnyByte, Fields
  <2> HIDE DEF n
  <2> QED BY <1>1, <2>1 DEF Bytes
<1>4. Request(a) = h \o t
  BY DEF Request
<1> HIDE DEF h, n, t
<1>5. Request(a) \in Seq(AnyByte) /\ Len(Request(a)) = 4 + n
  BY <1>1, <1>2, <1>3, <1>4, ConcatBytes
<1>6. \A i \in 1 .. 4 : Request(a)[i] = h[i]
  <2>1. \A i \in 1 .. Len(h) : (h \o t)[i] = h[i]
    BY <1>2, <1>3, ConcatBytes
  <2> QED BY <1>2, <1>4, <2>1
<1>7. \A i \in 5 .. 4 + n : Request(a)[i] = <<"addr", 0>>
  <2> SUFFICES ASSUME NEW i \in 5 .. 4 + n PROVE Request(a)[i] = <<"addr", 0>>
    OBVIOUS
  <2>1. i \in 1 .. Len(h) + Len(t) /\ i > Len(h)
    BY <1>1, <1>2, <1>3
  <2>2. i - Len(h) \in 1 .. Len(t) /\ (h \o t)[i] = t[i - Len(h)]
    BY <1>2, <1>3, <2>1, ConcatBytes
  <2> QED BY <1>3, <1>4, <2>2
<1> QED BY <1>1, <1>2, <1>5, <1>6, <1>7 DEF n

\* The stream from the client, byte by byte.
LEMMA UpBytes ==
  \A a \in {"v4", "v6"} :
    /\ UpByte(a, 1)[1] = "version" /\ UpByte(a, 2)[1] = "nmethods" /\ UpByte(a, 3)[1] = "methods"
    /\ UpByte(a, 4)[1] = "rversion" /\ UpByte(a, 5)[1] = "cmd" /\ UpByte(a, 6)[1] = "rsv"
    /\ UpByte(a, 7) = <<"atyp", a>>
    /\ \A k \in 8 .. 7 + LengthOf(a) : UpByte(a, k)[1] = "addr"
    /\ \A k \in Nat : k > 7 + LengthOf(a) => UpByte(a, k) = <<"payload", k - (7 + LengthOf(a))>>
    /\ \A i \in 1 .. 3 : Hello[i] = UpByte(a, i)
    /\ \A i \in 1 .. 4 + LengthOf(a) : Request(a)[i] = UpByte(a, 3 + i)
<1> SUFFICES ASSUME NEW a \in {"v4", "v6"}
             PROVE  /\ UpByte(a, 1)[1] = "version" /\ UpByte(a, 2)[1] = "nmethods"
                    /\ UpByte(a, 3)[1] = "methods" /\ UpByte(a, 4)[1] = "rversion"
                    /\ UpByte(a, 5)[1] = "cmd" /\ UpByte(a, 6)[1] = "rsv"
                    /\ UpByte(a, 7) = <<"atyp", a>>
                    /\ \A k \in 8 .. 7 + LengthOf(a) : UpByte(a, k)[1] = "addr"
                    /\ \A k \in Nat : k > 7 + LengthOf(a) =>
                         UpByte(a, k) = <<"payload", k - (7 + LengthOf(a))>>
                    /\ \A i \in 1 .. 3 : Hello[i] = UpByte(a, i)
                    /\ \A i \in 1 .. 4 + LengthOf(a) : Request(a)[i] = UpByte(a, 3 + i)
  OBVIOUS
<1> DEFINE n == LengthOf(a)
           q == Request(a)
<1>1. /\ n \in Nat /\ n >= 1 /\ q \in Seq(AnyByte) /\ Len(q) = 4 + n
      /\ q[1][1] = "rversion" /\ q[2][1] = "cmd" /\ q[3][1] = "rsv" /\ q[4] = <<"atyp", a>>
      /\ \A i \in 5 .. 4 + n : q[i][1] = "addr"
  BY RequestBytes
<1>2. Control(a) = Hello \o q
  BY DEF Control
<1> HIDE DEF n, q
<1>3. Len(Control(a)) = 7 + n
  <2>1. Len(Hello \o q) = Len(Hello) + Len(q)
    BY <1>1, HelloBytes, ConcatBytes
  <2> QED BY <1>1, <1>2, <2>1, HelloBytes
<1>4. \A i \in 1 .. 3 : UpByte(a, i) = Hello[i]
  <2>1. \A i \in 1 .. Len(Hello) : (Hello \o q)[i] = Hello[i]
    BY <1>1, HelloBytes, ConcatBytes
  <2> QED BY <1>1, <1>2, <1>3, <2>1, HelloBytes DEF UpByte
<1>5. \A i \in 1 .. 4 + n : UpByte(a, 3 + i) = q[i]
  <2> SUFFICES ASSUME NEW i \in 1 .. 4 + n PROVE UpByte(a, 3 + i) = q[i]
    OBVIOUS
  <2>1. 3 + i \in 1 .. Len(Hello) + Len(q) /\ 3 + i > Len(Hello) /\ (3 + i) - Len(Hello) = i
    BY <1>1, HelloBytes
  <2>2. (Hello \o q)[3 + i] = q[(3 + i) - Len(Hello)]
    BY <1>1, <2>1, HelloBytes, ConcatBytes
  <2>3. 3 + i <= Len(Control(a))
    BY <1>1, <1>3
  <2> QED BY <1>2, <2>1, <2>2, <2>3 DEF UpByte
<1>6. \A k \in 8 .. 7 + n : UpByte(a, k)[1] = "addr"
  <2> SUFFICES ASSUME NEW k \in 8 .. 7 + n PROVE UpByte(a, k)[1] = "addr"
    OBVIOUS
  <2>1. k - 3 \in 5 .. 4 + n /\ k - 3 \in 1 .. 4 + n /\ 3 + (k - 3) = k
    BY <1>1
  <2> QED BY <1>1, <1>5, <2>1
<1>7. \A k \in Nat : k > 7 + n => UpByte(a, k) = <<"payload", k - (7 + n)>>
  BY <1>1, <1>3 DEF UpByte
<1>8. /\ UpByte(a, 1)[1] = "version" /\ UpByte(a, 2)[1] = "nmethods" /\ UpByte(a, 3)[1] = "methods"
  BY <1>4, HelloBytes
<1>9. /\ UpByte(a, 4) = q[1] /\ UpByte(a, 5) = q[2] /\ UpByte(a, 6) = q[3] /\ UpByte(a, 7) = q[4]
  <2>1. 1 \in 1 .. 4 + n /\ 2 \in 1 .. 4 + n /\ 3 \in 1 .. 4 + n /\ 4 \in 1 .. 4 + n
    BY <1>1
  <2>2. 4 = 3 + 1 /\ 5 = 3 + 2 /\ 6 = 3 + 3 /\ 7 = 3 + 4
    OBVIOUS
  <2> QED BY <1>5, <2>1, <2>2
<1> QED BY <1>1, <1>4, <1>5, <1>6, <1>7, <1>8, <1>9 DEF n, q

\* The answer to the hello belongs at the start of the stream to the client.
LEMMA HelloReplyBytes ==
  \A m \in Nat :
    /\ HelloReply(m) \in Seq(AnyByte) /\ Len(HelloReply(m)) = 2
    /\ \A c : \A i \in 1 .. 2 : DownAt(c, HelloReply(m)[i], i)
<1> SUFFICES ASSUME NEW m \in Nat
             PROVE  /\ HelloReply(m) \in Seq(AnyByte) /\ Len(HelloReply(m)) = 2
                    /\ \A c : \A i \in 1 .. 2 : DownAt(c, HelloReply(m)[i], i)
  OBVIOUS
<1>1. HelloReply(m) \in Seq(AnyByte) /\ Len(HelloReply(m)) = 2
  <2>1. <<"version", 5>> \in AnyByte /\ <<"method", m>> \in AnyByte
    BY DEF AnyByte, Fields
  <2> QED BY <2>1 DEF HelloReply
<1>2. HelloReply(m)[1][1] = "version" /\ HelloReply(m)[2][1] = "method"
  BY DEF HelloReply
<1>3. ReplyLen \in Nat /\ ReplyLen >= 7
  BY HandshakeAssumption DEF ReplyLen
<1>4. \A i \in 1 .. 2 : i = 1 \/ i = 2
  OBVIOUS
<1> QED BY <1>1, <1>2, <1>3, <1>4 DEF DownAt

\* The reply belongs behind it: zero with data to follow, anything else without.
LEMMA ReplyBytes ==
  \A rep \in Nat :
    /\ Reply(rep) \in Seq(AnyByte) /\ Len(Reply(rep)) = 4 + AddrLen
    /\ \A c \in Answered \cup Ended : (rep = 0 <=> c \in Answered) =>
         \A i \in 1 .. 4 + AddrLen : DownAt(c, Reply(rep)[i], 2 + i)
<1> SUFFICES ASSUME NEW rep \in Nat
             PROVE  /\ Reply(rep) \in Seq(AnyByte) /\ Len(Reply(rep)) = 4 + AddrLen
                    /\ \A c \in Answered \cup Ended : (rep = 0 <=> c \in Answered) =>
                         \A i \in 1 .. 4 + AddrLen : DownAt(c, Reply(rep)[i], 2 + i)
  OBVIOUS
<1> DEFINE h == <<<<"version", 5>>, <<"rep", rep>>, <<"rsv", 0>>, <<"atyp", "v4">>>>
           t == Bytes("addr", 0, AddrLen)
<1>1. AddrLen \in Nat /\ AddrLen >= 1
  BY HandshakeAssumption
<1>2. /\ h \in Seq(AnyByte) /\ Len(h) = 4 /\ h[1][1] = "version" /\ h[2] = <<"rep", rep>>
      /\ h[3][1] = "rsv" /\ h[4] = <<"atyp", "v4">>
  <2>1. /\ <<"version", 5>> \in AnyByte /\ <<"rep", rep>> \in AnyByte
        /\ <<"rsv", 0>> \in AnyByte /\ <<"atyp", "v4">> \in AnyByte
    BY DEF AnyByte, Fields
  <2> QED BY <2>1
<1>3. t \in Seq(AnyByte) /\ Len(t) = AddrLen /\ \A i \in 1 .. AddrLen : t[i] = <<"addr", 0>>
  <2>1. <<"addr", 0>> \in AnyByte
    BY DEF AnyByte, Fields
  <2> QED BY <1>1, <2>1 DEF Bytes
<1>4. Reply(rep) = h \o t
  BY DEF Reply
<1> HIDE DEF h, t
<1>5. Reply(rep) \in Seq(AnyByte) /\ Len(Reply(rep)) = 4 + AddrLen
  <2>1. h \o t \in Seq(AnyByte) /\ Len(h \o t) = Len(h) + Len(t)
    BY <1>2, <1>3, ConcatBytes
  <2>2. Len(h) + Len(t) = 4 + AddrLen
    BY <1>2, <1>3
  <2> QED BY <1>4, <2>1, <2>2
<1>6. \A i \in 1 .. 4 : Reply(rep)[i] = h[i]
  <2>1. \A i \in 1 .. Len(h) : (h \o t)[i] = h[i]
    BY <1>2, <1>3, ConcatBytes
  <2> QED BY <1>2, <1>4, <2>1
<1>7. \A i \in 5 .. 4 + AddrLen : Reply(rep)[i] = <<"addr", 0>>
  <2> SUFFICES ASSUME NEW i \in 5 .. 4 + AddrLen PROVE Reply(rep)[i] = <<"addr", 0>>
    OBVIOUS
  <2>1. i \in 1 .. Len(h) + Len(t) /\ i > Len(h)
    BY <1>1, <1>2, <1>3
  <2>2. i - Len(h) \in 1 .. Len(t) /\ (h \o t)[i] = t[i - Len(h)]
    BY <1>2, <1>3, <2>1, ConcatBytes
  <2> QED BY <1>3, <1>4, <2>2
<1>8. ASSUME NEW c \in Answered \cup Ended, rep = 0 <=> c \in Answered,
             NEW i \in 1 .. 4 + AddrLen
      PROVE  DownAt(c, Reply(rep)[i], 2 + i)
  <2>1. /\ Reply(rep)[i][1] # "payload"
        /\ i = 2 => Reply(rep)[i][2] = rep
        /\ i = 4 => Reply(rep)[i][2] = "v4"
    <3>1. CASE i \in 5 .. 4 + AddrLen
      BY <1>7, <3>1
    <3>2. CASE i = 1 \/ i = 2 \/ i = 3 \/ i = 4
      BY <1>2, <1>6, <3>2
    <3>3. i \in 5 .. 4 + AddrLen \/ i = 1 \/ i = 2 \/ i = 3 \/ i = 4
      BY <1>1
    <3> QED BY <3>1, <3>2, <3>3
  <2>2. 2 + i <= ReplyLen /\ ReplyLen \in Nat
    BY <1>1 DEF ReplyLen
  <2>3. /\ 2 + i = 4 => i = 2
        /\ 2 + i = 6 => i = 4
    OBVIOUS
  <2> QED BY <1>8, <2>1, <2>2, <2>3 DEF DownAt
<1> QED BY <1>5, <1>8
-----------------------------------------------------------------------------
(* The invariant, with the types of the streams, and what each step does to it *)

SInv == IInv /\ StreamsOK

\* A client that was told of no end yet is in its place.
LEMMA LiveInPlace == SInv /\ Live => InPlace
BY DEF SInv, IInv, DownOK, GivenUp, Live

\* An event changes nothing but what the user was told.
LEMMA ToldInv ==
  ASSUME SInv,
         connector_handler_fail \/ connection_handler_closed \/ connection_handler_error
  PROVE  SInv'
<1>1. /\ Live /\ told' \in {"error", "closed"} /\ (told' = "closed" => state = "up")
      /\ UNCHANGED <<state, con, buffer, op, todo, total, recvd, freed, up, upEnd, down, downEnd,
                     child, unread, dest, asked, userSent, relayed, remoteSent, userGot>>
  BY DEF connector_handler_fail, connection_handler_closed, connection_handler_error,
     report_error, ClosedEvent, control, server, payload
<1>2. TypeOK' /\ StreamsOK'
  BY <1>1 DEF SInv, IInv, TypeOK, StreamsOK
<1>3. ClientOK' /\ ChildOK'
  BY <1>1 DEF SInv, IInv, ClientOK, ChildOK, Reading
<1>4. UpOK'
  BY <1>1 DEF SInv, IInv, UpOK, ReadPos, SendPos
<1>5. InPlace'
  BY <1>1, LiveInPlace DEF InPlace, Passed, WritePos
<1> QED BY <1>2, <1>3, <1>4, <1>5 DEF SInv, IInv, DownOK

\* The hello is the start of the stream.
LEMMA ConnectInv ==
  ASSUME SInv, connector_handler
  PROVE  SInv'
<1>1. /\ Live /\ state = "connecting" /\ state' = "sending_hello" /\ con' = "control"
      /\ buffer' = TRUE /\ op' = "send" /\ todo' = Hello /\ total' = 0 /\ recvd' = <<>>
      /\ child' = "version" /\ unread' = 1
      /\ UNCHANGED <<told, freed, up, upEnd, down, downEnd, asked, dest, userSent, relayed,
                     remoteSent, userGot>>
  BY DEF connector_handler, Send, payload
<1>2. child = "none" /\ up = <<>> /\ down = <<>> /\ dest = "none" /\ ~freed
      /\ userSent = 0 /\ userGot = 0 /\ relayed = 0 /\ remoteSent = 0
  BY <1>1 DEF SInv, IInv, ClientOK, ChildOK, Answered, Live
<1>3. TypeOK' /\ StreamsOK'
  BY <1>1, HelloBytes DEF SInv, IInv, TypeOK, StreamsOK
<1>4. ClientOK'
  BY <1>1, <1>2 DEF SInv, IInv, TypeOK, ClientOK
<1>5. ChildOK'
  BY <1>1, <1>2 DEF SInv, IInv, ChildOK, Reading, Answered
<1>6. UpOK'
  <2>1. asked \in {"v4", "v6"}
    BY HandshakeAssumption DEF SInv, IInv, TypeOK
  <2>2. \A i \in 1 .. Len(todo') : todo'[i] = UpByte(asked, i)
    BY <1>1, <2>1, HelloBytes, UpBytes
  <2>3. ReadPos' = 0 /\ SendPos' = 3 /\ Len(up') = 0 /\ Len(todo') = 3
    BY <1>1, <1>2, HelloBytes DEF ReadPos, SendPos
  <2> QED BY <1>1, <2>2, <2>3 DEF UpOK
<1>7. InPlace'
  BY <1>1, <1>2 DEF InPlace, Passed, WritePos, Answered
<1> QED BY <1>3, <1>4, <1>5, <1>6, <1>7 DEF SInv, IInv, DownOK

\* The socket takes n bytes: they move from the sender to the stream.
LEMMA OutputInv ==
  ASSUME SInv, NEW n \in 1 .. Len(todo), output_handler_done(n)
  PROVE  SInv'
<1>1. /\ Live /\ op = "send"
      /\ up' = up \o SubSeq(todo, 1, n) /\ todo' = SubSeq(todo, n + 1, Len(todo))
      /\ UNCHANGED <<state, con, buffer, op, total, recvd, told, freed, upEnd, down, downEnd,
                     child, unread, dest, asked, userSent, relayed, remoteSent, userGot>>
  BY DEF output_handler_done, server, payload
<1> DEFINE t == SubSeq(todo, 1, n)
<1>2. /\ n \in 0 .. Len(todo) /\ Len(todo) \in Nat /\ Len(up) \in Nat
      /\ t \in Seq(AnyByte) /\ Len(t) = n /\ todo' \in Seq(AnyByte) /\ Len(todo') = Len(todo) - n
      /\ \A i \in 1 .. n : i \in 1 .. Len(todo) /\ t[i] = todo[i]
      /\ \A i \in 1 .. Len(todo) - n : n + i \in 1 .. Len(todo) /\ todo'[i] = todo[n + i]
  <2>1. todo \in Seq(AnyByte) /\ up \in Seq(AnyByte) /\ n \in 0 .. Len(todo)
    BY DEF SInv, StreamsOK
  <2> QED BY <1>1, <2>1, SplitBytes
<1> HIDE DEF t
<1>3. /\ up' = up \o t /\ up' \in Seq(AnyByte) /\ Len(up') = Len(up) + n
      /\ \A i \in 1 .. Len(up) : up'[i] = up[i]
      /\ \A i \in 1 .. Len(up) + n : i > Len(up) =>
           i - Len(up) \in 1 .. n /\ up'[i] = t[i - Len(up)]
  <2>1. up' = up \o t /\ up \in Seq(AnyByte)
    BY <1>1 DEF SInv, StreamsOK, t
  <2> QED BY <1>2, <2>1, ConcatBytes
<1>4. TypeOK' /\ StreamsOK'
  BY <1>1, <1>2, <1>3, SMTT(20) DEF SInv, IInv, TypeOK, StreamsOK
<1>5. ClientOK'
  BY <1>1 DEF SInv, IInv, ClientOK
<1>6. ChildOK'
  <2>1. child # "none" /\ dest # "garbage"
    BY <1>1 DEF SInv, IInv, ClientOK, ChildOK, Live
  <2> QED BY <1>1, <2>1 DEF SInv, IInv, ChildOK, Reading
<1>7. UpOK'
  <2> SUFFICES ASSUME child \notin {"none"} \cup Ended, dest # "garbage"
               PROVE  /\ \A i \in 1 .. Len(up') : up'[i] = UpByte(asked, ReadPos + i)
                      /\ \A i \in 1 .. Len(todo') : todo'[i] = UpByte(asked, ReadPos + Len(up') + i)
                      /\ ~freed => ReadPos + Len(up') + Len(todo') = SendPos
    BY <1>1 DEF UpOK, ReadPos, SendPos
  <2>1. /\ \A i \in 1 .. Len(up) : up[i] = UpByte(asked, ReadPos + i)
        /\ \A i \in 1 .. Len(todo) : todo[i] = UpByte(asked, ReadPos + Len(up) + i)
        /\ ~freed => ReadPos + Len(up) + Len(todo) = SendPos
    BY DEF SInv, IInv, UpOK
  <2>2. ReadPos \in Nat
    BY HandshakeAssumption DEF SInv, IInv, TypeOK, ChildOK, ReadPos
  <2>3. ASSUME NEW i \in 1 .. Len(up') PROVE up'[i] = UpByte(asked, ReadPos + i)
    <3>1. CASE i \in 1 .. Len(up)
      BY <1>3, <2>1, <3>1
    <3>2. CASE i > Len(up)
      <4>1. /\ i - Len(up) \in 1 .. n /\ up'[i] = todo[i - Len(up)]
            /\ i - Len(up) \in 1 .. Len(todo)
        BY <1>2, <1>3, <3>2
      <4>2. ReadPos + Len(up) + (i - Len(up)) = ReadPos + i
        BY <1>2, <2>2
      <4> QED BY <2>1, <4>1, <4>2
    <3> QED BY <1>2, <3>1, <3>2
  <2>4. ASSUME NEW i \in 1 .. Len(todo') PROVE todo'[i] = UpByte(asked, ReadPos + Len(up') + i)
    <3>1. n + i \in 1 .. Len(todo) /\ todo'[i] = todo[n + i]
      BY <1>2
    <3>2. ReadPos + Len(up) + (n + i) = ReadPos + Len(up') + i
      BY <1>2, <1>3, <2>2
    <3> QED BY <2>1, <3>1, <3>2
  <2>5. ReadPos + Len(up') + Len(todo') = ReadPos + Len(up) + Len(todo)
    BY <1>2, <1>3, <2>2
  <2> QED BY <2>1, <2>3, <2>4, <2>5
<1>8. InPlace'
  BY <1>1, LiveInPlace DEF InPlace, Passed, WritePos
<1> QED BY <1>4, <1>5, <1>6, <1>7, <1>8 DEF SInv, IInv, DownOK
\* The request or the hello is sent: the client waits for the answer.
LEMMA SentInv ==
  ASSUME SInv, send_handler_done
  PROVE  SInv'
<1>1. /\ Live /\ op = "send" /\ todo = <<>> /\ ~freed
      /\ UNCHANGED <<con, buffer, freed, up, upEnd, down, downEnd, child, unread, dest, asked,
                     userSent, relayed, remoteSent, userGot>>
      /\ \/ /\ state = "sending_hello" /\ state' = "sent_hello" /\ total' = 2
            /\ op' = "recv" /\ recvd' = <<>> /\ todo' = <<>> /\ told' = told
         \/ /\ state = "sending_request" /\ state' = "sent_request" /\ total' = 4
            /\ op' = "recv" /\ recvd' = <<>> /\ todo' = <<>> /\ told' = told
         \/ told' = "error" /\ UNCHANGED <<state, op, total, recvd, todo>>
  BY DEF send_handler_done, start_receive, report_error, control, server, payload, HelloReply,
     Live
<1>2. TypeOK' /\ StreamsOK'
  <2>1. TypeOK'
    BY <1>1 DEF SInv, IInv, TypeOK
  <2>2. recvd' \in Seq(AnyByte) /\ todo' \in Seq(AnyByte)
    BY <1>1, EmptySeq DEF SInv, StreamsOK
  <2> QED BY <1>1, <2>1, <2>2 DEF SInv, StreamsOK
<1>3. ClientOK' /\ ChildOK'
  BY <1>1 DEF SInv, IInv, ClientOK, ChildOK, Reading
<1>4. UpOK'
  BY <1>1 DEF SInv, IInv, UpOK, ReadPos, SendPos
<1>5. InPlace'
  <2>1. recvd = <<>> /\ Len(recvd) = 0 /\ InPlace
    BY <1>1, LiveInPlace DEF SInv, IInv, ClientOK
  <2>2. Passed' = Passed /\ WritePos' = WritePos
    BY <1>1 DEF Passed, WritePos
  <2> QED BY <1>1, <2>1, <2>2 DEF InPlace
<1> QED BY <1>2, <1>3, <1>4, <1>5 DEF SInv, IInv, DownOK

\* The places in the stream to the client are numbers.
LEMMA PlacesDown ==
  SInv => /\ Passed \in Nat /\ WritePos \in Nat /\ ReplyLen \in Nat /\ ReplyLen >= 7
          /\ Len(recvd) \in Nat /\ Len(down) \in Nat /\ total \in Nat
          /\ recvd \in Seq(AnyByte) /\ down \in Seq(AnyByte)
BY HandshakeAssumption, SMTT(20) DEF SInv, IInv, TypeOK, StreamsOK, Passed, WritePos, ReplyLen

\* So are the places in the stream from the client.
LEMMA PlacesUp ==
  SInv => /\ ReadPos \in Nat /\ SendPos \in Nat /\ Len(up) \in Nat /\ Len(todo) \in Nat
          /\ up \in Seq(AnyByte) /\ todo \in Seq(AnyByte) /\ asked \in {"v4", "v6"}
<1> SUFFICES ASSUME SInv
             PROVE  /\ ReadPos \in Nat /\ SendPos \in Nat /\ Len(up) \in Nat /\ Len(todo) \in Nat
                    /\ up \in Seq(AnyByte) /\ todo \in Seq(AnyByte) /\ asked \in {"v4", "v6"}
  OBVIOUS
<1>1. asked \in {"v4", "v6"}
  BY HandshakeAssumption DEF SInv, IInv, TypeOK
<1>2. /\ AddrLen \in Nat /\ relayed \in Nat /\ userSent \in Nat /\ unread \in Nat
      /\ child = "addr" => unread <= AddrLen
  BY HandshakeAssumption DEF SInv, IInv, TypeOK, ChildOK
<1>3. ReadPos \in Nat
  BY <1>2 DEF ReadPos
<1>4. LengthOf(asked) \in Nat
  BY <1>2 DEF LengthOf
<1>5. SendPos \in Nat
  BY <1>2, <1>4 DEF SendPos
<1> QED BY <1>1, <1>3, <1>5 DEF SInv, StreamsOK

\* Places add up.
LEMMA Regroup == \A a, b, c, d \in Nat : a + b + (c + d) = a + (b + c) + d
OBVIOUS

\* What the first n bytes to come add to what was received, and what they leave.
LEMMA Received ==
  ASSUME SInv, InPlace, NEW n \in 0 .. Len(down),
         NEW msg, msg = recvd \o SubSeq(down, 1, n),
         NEW rest, rest = SubSeq(down, n + 1, Len(down))
  PROVE  /\ msg \in Seq(AnyByte) /\ Len(msg) = Len(recvd) + n
         /\ rest \in Seq(AnyByte) /\ Len(rest) = Len(down) - n
         /\ \A i \in 1 .. Len(msg) : DownAt(child, msg[i], Passed + i)
         /\ \A i \in 1 .. Len(rest) : DownAt(child, rest[i], Passed + Len(msg) + i)
<1> DEFINE t == SubSeq(down, 1, n)
<1>1. /\ Passed \in Nat /\ Len(recvd) \in Nat /\ Len(down) \in Nat /\ n \in Nat
      /\ recvd \in Seq(AnyByte) /\ down \in Seq(AnyByte)
  BY PlacesDown
<1>2. /\ t \in Seq(AnyByte) /\ Len(t) = n /\ rest \in Seq(AnyByte) /\ Len(rest) = Len(down) - n
      /\ \A i \in 1 .. n : i \in 1 .. Len(down) /\ t[i] = down[i]
      /\ \A i \in 1 .. Len(down) - n : n + i \in 1 .. Len(down) /\ rest[i] = down[n + i]
  BY <1>1, SplitBytes
<1>0. msg = recvd \o t
  OBVIOUS
<1> HIDE DEF t
<1>3. /\ msg \in Seq(AnyByte) /\ Len(msg) = Len(recvd) + n
      /\ \A i \in 1 .. Len(recvd) : msg[i] = recvd[i]
      /\ \A i \in 1 .. Len(recvd) + n : i > Len(recvd) =>
           i - Len(recvd) \in 1 .. n /\ msg[i] = t[i - Len(recvd)]
  BY <1>0, <1>1, <1>2, ConcatBytes
<1>4. ASSUME NEW i \in 1 .. Len(msg) PROVE DownAt(child, msg[i], Passed + i)
  <2>1. CASE i \in 1 .. Len(recvd)
    BY <1>3, <2>1 DEF InPlace
  <2>2. CASE i > Len(recvd)
    <3>1. /\ i - Len(recvd) \in 1 .. Len(down) /\ msg[i] = down[i - Len(recvd)]
      BY <1>2, <1>3, <2>2
    <3>2. Passed + Len(recvd) + (i - Len(recvd)) = Passed + i
      BY <1>1
    <3> QED BY <3>1, <3>2 DEF InPlace
  <2> QED BY <1>1, <2>1, <2>2
<1>5. ASSUME NEW i \in 1 .. Len(rest) PROVE DownAt(child, rest[i], Passed + Len(msg) + i)
  <2>1. n + i \in 1 .. Len(down) /\ rest[i] = down[n + i]
    BY <1>2
  <2>2. i \in Nat /\ Len(msg) = Len(recvd) + n
    BY <1>3
  <2>3. Passed + Len(recvd) + (n + i) = Passed + (Len(recvd) + n) + i
    BY <1>1, <2>2, Regroup
  <2> QED BY <2>1, <2>2, <2>3 DEF InPlace
<1> QED BY <1>2, <1>3, <1>4, <1>5

\* n bytes move from the stream to what was received.
LEMMA MoreInv ==
  ASSUME SInv, NEW n \in 1 .. Len(down), recv_handler_more(n)
  PROVE  SInv'
<1>1. /\ Live /\ op = "recv" /\ n < total
      /\ recvd' = recvd \o SubSeq(down, 1, n) /\ down' = SubSeq(down, n + 1, Len(down))
      /\ total' = total - n
      /\ UNCHANGED <<state, con, buffer, op, todo, told, freed, up, upEnd, downEnd,
                     child, unread, dest, asked, userSent, relayed, remoteSent, userGot>>
  BY DEF recv_handler_more, server, payload
<1>2. /\ InPlace /\ Len(recvd) \in Nat /\ Len(down) \in Nat /\ total \in Nat /\ Passed \in Nat
      /\ n \in 0 .. Len(down) /\ n \in Nat
  BY <1>1, LiveInPlace, PlacesDown
<1>3. /\ recvd' \in Seq(AnyByte) /\ Len(recvd') = Len(recvd) + n
      /\ down' \in Seq(AnyByte) /\ Len(down') = Len(down) - n
      /\ \A i \in 1 .. Len(recvd') : DownAt(child, recvd'[i], Passed + i)
      /\ \A i \in 1 .. Len(down') : DownAt(child, down'[i], Passed + Len(recvd') + i)
  BY <1>1, <1>2, Received
<1>4. TypeOK' /\ StreamsOK'
  BY <1>1, <1>2, <1>3 DEF SInv, IInv, TypeOK, StreamsOK
<1>5. ClientOK' /\ ChildOK'
  BY <1>1 DEF SInv, IInv, ClientOK, ChildOK, Reading
<1>6. UpOK'
  BY <1>1 DEF SInv, IInv, UpOK, ReadPos, SendPos
<1>7. InPlace'
  <2>1. Passed' = Passed /\ WritePos' = WritePos
    BY <1>1 DEF Passed, WritePos
  <2>2. /\ Passed + Len(recvd') + Len(down') = Passed + Len(recvd) + Len(down)
        /\ total' + Len(recvd') = total + Len(recvd)
    <3>1. Len(recvd') = Len(recvd) + n /\ Len(down') = Len(down) - n /\ total' = total - n
      BY <1>1, <1>3
    <3>2. Len(recvd) \in Nat /\ Len(down) \in Nat /\ total \in Nat /\ Passed \in Nat /\ n \in Nat
      BY <1>2
    <3> QED BY <3>1, <3>2
  <2> QED BY <1>1, <1>2, <1>3, <2>1, <2>2 DEF InPlace
<1> QED BY <1>4, <1>5, <1>6, <1>7 DEF SInv, IInv, DownOK
\* The answer to the hello is complete: the request follows, or the client
\* gives up, and then the child has nothing more to read.
LEMMA ReceivedHelloInv ==
  ASSUME SInv, recv_handler_done, state = "sent_hello"
  PROVE  SInv'
<1>1. /\ Live /\ ~freed /\ op = "recv" /\ total <= Len(down)
      /\ down' = SubSeq(down, total + 1, Len(down))
      /\ UNCHANGED <<con, freed, up, upEnd, downEnd, child, unread, dest, asked,
                     userSent, relayed, remoteSent, userGot>>
      /\ \/ /\ buffer' = TRUE /\ op' = "send" /\ todo' = Request(asked) /\ total' = 0
            /\ recvd' = <<>> /\ state' = "sending_request" /\ told' = told
         \/ /\ told' = "error" /\ UNCHANGED <<state, buffer, op, todo, total, recvd>>
  BY DEF recv_handler_done, received_hello, Send, report_error, control, server, payload, Live
<1>2. /\ InPlace /\ Len(recvd) \in Nat /\ Len(down) \in Nat /\ total \in Nat /\ Passed = 0
      /\ total \in 0 .. Len(down) /\ total + Len(recvd) = 2
  BY <1>1, LiveInPlace, PlacesDown DEF InPlace, Passed
<1>3. /\ down' \in Seq(AnyByte) /\ Len(down') = Len(down) - total
      /\ \A i \in 1 .. Len(down') : DownAt(child, down'[i], 2 + i)
  <2> DEFINE m == recvd \o SubSeq(down, 1, total)
  <2>1. /\ Len(m) = Len(recvd) + total /\ down' \in Seq(AnyByte) /\ Len(down') = Len(down) - total
        /\ \A i \in 1 .. Len(down') : DownAt(child, down'[i], Passed + Len(m) + i)
    BY <1>1, <1>2, Received
  <2> HIDE DEF m
  <2> QED BY <1>2, <2>1
<1>4. /\ child \in {"rversion", "refused"} /\ todo = <<>>
      /\ child = "rversion" => Len(down') = 0 /\ WritePos = 2 /\ Len(up) = 0
      /\ child = "refused" => 2 + Len(down') <= ReplyLen
  <2>1. child \in {"version", "nmethods", "methods", "rversion", "refused"} /\ todo = <<>>
    BY <1>1 DEF SInv, IInv, ClientOK, ChildOK
  <2>2. child # "refused" => WritePos = 2 + Len(down')
    BY <1>2, <1>3 DEF InPlace
  <2>3. child \notin {"version", "nmethods", "methods"}
    <3>1. child \in {"version", "nmethods", "methods"} => WritePos = 0 /\ child # "refused"
      BY DEF WritePos, Answered
    <3>2. Len(down') \in Nat
      BY <1>2, <1>3
    <3> QED BY <2>2, <3>1, <3>2
  <2>4. child = "rversion" => WritePos = 2
    BY DEF WritePos, Answered
  <2>5. child = "refused" => 2 + Len(down') <= ReplyLen
    BY <1>2, <1>3, PlacesDown DEF InPlace
  <2>6. child = "rversion" => ReadPos = 3 /\ SendPos = 3 /\ dest = "none"
    BY DEF ReadPos, SendPos, SInv, IInv, ChildOK, Reading
  <2>7. child = "rversion" => 3 + Len(up) + Len(todo) = 3
    BY <1>1, <2>6 DEF SInv, IInv, UpOK, Ended
  <2> QED BY <1>2, <1>3, <2>1, <2>2, <2>3, <2>4, <2>5, <2>7, PlacesUp
<1>5. asked \in {"v4", "v6"} /\ LengthOf(asked) \in Nat
  BY PlacesUp, RequestBytes
<1>6. StreamsOK'
  <2>1. recvd' \in Seq(AnyByte) /\ todo' \in Seq(AnyByte)
    BY <1>1, <1>5, EmptySeq, RequestBytes DEF SInv, StreamsOK
  <2> QED BY <1>1, <1>3, <2>1 DEF SInv, StreamsOK
<1>7. ChildOK'
  BY <1>1, <1>4 DEF SInv, IInv, ChildOK, Reading, Answered
<1>8. CASE told' = "error" /\ UNCHANGED <<state, buffer, op, todo, total, recvd>>
  <2>1. TypeOK' /\ ClientOK'
    BY <1>1, <1>8 DEF SInv, IInv, TypeOK, ClientOK
  <2>2. UpOK'
    BY <1>1, <1>8 DEF SInv, IInv, UpOK, ReadPos, SendPos
  <2>3. ASSUME NEW i \in 1 .. Len(down') PROVE down'[i][1] # "payload"
    <3>1. 2 + i <= ReplyLen
      BY <1>2, <1>3, <1>4, PlacesDown
    <3> QED BY <1>3, <3>1 DEF DownAt
  <2>4. GivenUp'
    BY <1>1, <1>4, <1>8, <2>3 DEF GivenUp
  <2> QED BY <1>6, <1>7, <2>1, <2>2, <2>4 DEF SInv, IInv, DownOK
<1>9. CASE /\ buffer' = TRUE /\ op' = "send" /\ todo' = Request(asked) /\ total' = 0
           /\ recvd' = <<>> /\ state' = "sending_request" /\ told' = told
  <2>0. TypeOK' /\ ClientOK'
    BY <1>1, <1>9 DEF SInv, IInv, TypeOK, ClientOK
  <2>1. UpOK'
    <3> SUFFICES ASSUME child = "rversion" PROVE UpOK'
      BY <1>1, <1>4 DEF UpOK, Ended
    <3>1. ReadPos' = 3 /\ Len(up') = 0 /\ SendPos' = 7 + LengthOf(asked)
      BY <1>1, <1>4, <1>5, <1>9 DEF ReadPos, SendPos, SInv, IInv, ClientOK
    <3>2. /\ Len(todo') = 4 + LengthOf(asked)
          /\ \A i \in 1 .. Len(todo') : todo'[i] = UpByte(asked, 3 + i)
      BY <1>5, <1>9, RequestBytes, UpBytes
    <3> QED BY <1>1, <1>5, <3>1, <3>2 DEF UpOK
  <2>2. InPlace'
    <3>1. Passed' = 2 /\ Len(recvd') = 0 /\ WritePos' = WritePos
      BY <1>1, <1>9 DEF Passed, WritePos
    <3> QED BY <1>1, <1>3, <1>4, <1>9, <3>1, PlacesDown DEF InPlace
  <2> QED BY <1>6, <1>7, <2>0, <2>1, <2>2 DEF SInv, IInv, DownOK
<1> QED BY <1>1, <1>8, <1>9
\* The header of the reply is complete: its zero says that data is forwarded,
\* and its address type how much follows; otherwise the child has refused.
LEMMA ReceivedHeaderInv ==
  ASSUME SInv, recv_handler_done, state = "sent_request"
  PROVE  SInv'
<1> DEFINE m == recvd \o SubSeq(down, 1, total)
<1>1. /\ Live /\ ~freed /\ op = "recv" /\ total <= Len(down)
      /\ down' = SubSeq(down, total + 1, Len(down))
      /\ UNCHANGED <<con, buffer, freed, up, upEnd, downEnd, child, unread, dest, asked,
                     userSent, relayed, remoteSent, userGot>>
      /\ \/ /\ m[2][2] = 0 /\ m[4][2] \in {"v4", "v6"}
            /\ op' = "recv" /\ total' = LengthOf(m[4][2]) /\ recvd' = <<>> /\ todo' = <<>>
            /\ state' = "received_header" /\ told' = told
         \/ /\ m[2][2] # 0 /\ told' = "error" /\ UNCHANGED <<state, op, todo, total, recvd>>
  BY DEF recv_handler_done, received_header, start_receive, report_error, control, server,
     payload, Live
<1>2. /\ InPlace /\ Len(recvd) \in Nat /\ Len(down) \in Nat /\ total \in Nat /\ Passed = 2
      /\ total \in 0 .. Len(down) /\ total + Len(recvd) = 4
  BY <1>1, LiveInPlace, PlacesDown DEF InPlace, Passed
<1>3. /\ Len(m) = 4 /\ down' \in Seq(AnyByte) /\ Len(down') = Len(down) - total
      /\ \A i \in 1 .. 4 : DownAt(child, m[i], 2 + i)
      /\ \A i \in 1 .. Len(down') : DownAt(child, down'[i], 6 + i)
  <2>1. /\ Len(m) = Len(recvd) + total /\ down' \in Seq(AnyByte) /\ Len(down') = Len(down) - total
        /\ \A i \in 1 .. Len(m) : DownAt(child, m[i], Passed + i)
        /\ \A i \in 1 .. Len(down') : DownAt(child, down'[i], Passed + Len(m) + i)
    BY <1>1, <1>2, Received
  <2> HIDE DEF m
  <2> QED BY <1>2, <2>1
<1> HIDE DEF m
<1>4. /\ child \in Answered \cup Ended /\ (m[2][2] = 0 <=> child \in Answered)
      /\ m[4][2] = "v4"
  <2>1. DownAt(child, m[2], 4) /\ DownAt(child, m[4], 6)
    BY <1>3
  <2> QED BY <2>1 DEF DownAt
<1>5. StreamsOK'
  <2>1. recvd' \in Seq(AnyByte) /\ todo' \in Seq(AnyByte)
    BY <1>1, EmptySeq DEF SInv, StreamsOK
  <2> QED BY <1>1, <1>3, <2>1 DEF SInv, StreamsOK
<1>6. CASE m[2][2] # 0 /\ told' = "error" /\ UNCHANGED <<state, op, todo, total, recvd>>
  <2>1. TypeOK' /\ ClientOK' /\ ChildOK'
    BY <1>1, <1>6 DEF SInv, IInv, TypeOK, ClientOK, ChildOK, Reading
  <2>2. UpOK'
    BY <1>1, <1>6 DEF SInv, IInv, UpOK, ReadPos, SendPos
  <2>3. child = "refused"
    BY <1>4, <1>6 DEF Answered, Ended
  <2>4. 6 + Len(down') <= ReplyLen
    BY <1>2, <1>3, <2>3, PlacesDown DEF InPlace
  <2>5. ASSUME NEW i \in 1 .. Len(down') PROVE down'[i][1] # "payload"
    <3>1. 6 + i <= ReplyLen
      BY <1>2, <1>3, <2>4, PlacesDown
    <3> QED BY <1>3, <3>1 DEF DownAt
  <2>6. GivenUp'
    BY <1>1, <1>6, <2>3, <2>5 DEF GivenUp
  <2> QED BY <1>5, <2>1, <2>2, <2>6 DEF SInv, IInv, DownOK
<1>7. CASE /\ m[2][2] = 0 /\ op' = "recv" /\ total' = LengthOf(m[4][2]) /\ recvd' = <<>>
           /\ todo' = <<>> /\ state' = "received_header" /\ told' = told
  <2>1. child \in Answered /\ total' = AddrLen /\ AddrLen \in Nat
    BY <1>4, <1>7, HandshakeAssumption DEF LengthOf
  <2>2. TypeOK' /\ ClientOK'
    BY <1>1, <1>7, <2>1 DEF SInv, IInv, TypeOK, ClientOK
  <2>3. ChildOK'
    BY <1>1, <1>7, <2>1 DEF SInv, IInv, ChildOK, Reading, Answered
  <2>4. UpOK'
    BY <1>1, <1>7 DEF SInv, IInv, UpOK, ReadPos, SendPos, ClientOK
  <2>5. InPlace'
    <3>1. Passed' = 6 /\ Len(recvd') = 0 /\ WritePos' = WritePos
      BY <1>1, <1>7 DEF Passed, WritePos
    <3>2. child # "refused" /\ 6 + Len(down') = WritePos
      BY <1>2, <1>3, <2>1, PlacesDown DEF InPlace, Answered
    <3>3. 6 + 0 + Len(down') = WritePos /\ AddrLen + 0 = AddrLen
      BY <2>1, <3>2
    <3>4. \A i \in 1 .. Len(down') : DownAt(child, down'[i], 6 + 0 + i)
      BY <1>3
    <3>5. child' = child /\ op' = "recv" /\ state' = "received_header"
      BY <1>1, <1>7
    <3>6. /\ \A i \in 1 .. Len(recvd') : DownAt(child', recvd'[i], Passed' + i)
          /\ \A i \in 1 .. Len(down') : DownAt(child', down'[i], Passed' + Len(recvd') + i)
      BY <3>1, <3>4, <3>5
    <3>7. Passed' + Len(recvd') + Len(down') = WritePos' /\ total' + Len(recvd') = AddrLen
      BY <2>1, <3>1, <3>3
    <3> QED BY <3>2, <3>5, <3>6, <3>7 DEF InPlace
  <2> QED BY <1>5, <2>2, <2>3, <2>4, <2>5 DEF SInv, IInv, DownOK
<1> QED BY <1>1, <1>6, <1>7

\* The reply is complete: the client is up and payload is what comes next.
LEMMA ReceivedRestInv ==
  ASSUME SInv, recv_handler_done, state = "received_header"
  PROVE  SInv'
<1> DEFINE m == recvd \o SubSeq(down, 1, total)
<1>1. /\ Live /\ ~freed /\ op = "recv" /\ total <= Len(down)
      /\ down' = SubSeq(down, total + 1, Len(down))
      /\ UNCHANGED <<freed, up, upEnd, downEnd, child, unread, dest, asked,
                     userSent, relayed, remoteSent, userGot>>
      /\ buffer' = FALSE /\ op' = "none" /\ total' = 0 /\ recvd' = <<>> /\ todo' = <<>>
      /\ con' = "up" /\ state' = "up" /\ told' = "up"
  BY DEF recv_handler_done, received_rest, server, payload, Live
<1>2. /\ InPlace /\ Len(recvd) \in Nat /\ Len(down) \in Nat /\ total \in Nat /\ Passed = 6
      /\ total \in 0 .. Len(down) /\ total + Len(recvd) = AddrLen
      /\ ReplyLen = 6 + AddrLen /\ AddrLen \in Nat
  BY <1>1, LiveInPlace, PlacesDown, HandshakeAssumption DEF InPlace, Passed, ReplyLen
<1>3. /\ down' \in Seq(AnyByte) /\ Len(down') = Len(down) - total
      /\ \A i \in 1 .. Len(down') : DownAt(child, down'[i], ReplyLen + i)
  <2>1. /\ Len(m) = Len(recvd) + total /\ down' \in Seq(AnyByte) /\ Len(down') = Len(down) - total
        /\ \A i \in 1 .. Len(down') : DownAt(child, down'[i], Passed + Len(m) + i)
    BY <1>1, <1>2, Received
  <2> HIDE DEF m
  <2>2. Len(m) = Len(recvd) + total
    BY <2>1
  <2>3. Len(m) = AddrLen
    BY <1>2, <2>2
  <2>4. Passed + Len(m) = ReplyLen
    BY <1>2, <2>3
  <2> QED BY <2>1, <2>4
<1> HIDE DEF m
<1>4. StreamsOK'
  <2>1. recvd' \in Seq(AnyByte) /\ todo' \in Seq(AnyByte)
    BY <1>1, EmptySeq
  <2> QED BY <1>1, <1>3, <2>1 DEF SInv, StreamsOK
<1>5. TypeOK' /\ ClientOK'
  BY <1>1 DEF SInv, IInv, TypeOK, ClientOK
<1>6. child \in Answered /\ userGot = 0
  BY DEF SInv, IInv, ChildOK, ClientOK
<1>7. ChildOK'
  BY <1>1, <1>6 DEF SInv, IInv, ChildOK, Reading, Answered
<1>8. UpOK'
  BY <1>1 DEF SInv, IInv, UpOK, ReadPos, SendPos, ClientOK
<1>9. InPlace'
  <2>1. Passed' = ReplyLen + 0 /\ Len(recvd') = 0 /\ WritePos' = WritePos
    BY <1>1, <1>6 DEF Passed, WritePos, ReplyLen
  <2>2. Passed' = ReplyLen /\ ReplyLen + 0 = ReplyLen
    BY <1>2, <2>1
  <2>3. child # "refused" /\ ReplyLen + Len(down') = WritePos
    <3>1. child # "refused" /\ 6 + Len(recvd) + Len(down) = WritePos
      BY <1>2, <1>6 DEF InPlace, Answered
    <3>2. Len(down') = Len(down) - total /\ AddrLen = total + Len(recvd)
      BY <1>2, <1>3
    <3>3. ReplyLen + Len(down') = 6 + Len(recvd) + Len(down)
      BY <1>2, <3>2
    <3> QED BY <3>1, <3>3
  <2> QED BY <1>1, <1>3, <2>1, <2>2, <2>3 DEF InPlace
<1> QED BY <1>4, <1>5, <1>7, <1>8, <1>9 DEF SInv, IInv, DownOK
\* BSocksClient_Free ends the stream where it is.
LEMMA FreeInv ==
  ASSUME SInv, BSocksClient_Free
  PROVE  SInv'
<1>1. /\ ~freed /\ freed' = TRUE /\ con' = (IF state # "connecting" THEN "none" ELSE con)
      /\ buffer' = FALSE /\ op' = "none" /\ todo' = <<>> /\ total' = 0 /\ recvd' = <<>>
      /\ upEnd' = (con # "none")
      /\ UNCHANGED <<state, told, up, down, downEnd, child, unread, dest, asked, userSent, relayed,
                     remoteSent, userGot>>
  BY DEF BSocksClient_Free, FreeConnection, server, payload
<1>2. StreamsOK'
  <2>1. recvd' \in Seq(AnyByte) /\ todo' \in Seq(AnyByte)
    BY <1>1, EmptySeq
  <2> QED BY <1>1, <2>1 DEF SInv, StreamsOK
<1>3. con' = "none"
  BY <1>1 DEF SInv, IInv, ClientOK
<1>4. TypeOK'
  BY <1>1, <1>3 DEF SInv, IInv, TypeOK
<1>5. ClientOK' /\ ChildOK'
  BY <1>1, <1>3 DEF SInv, IInv, ClientOK, ChildOK, Reading
<1>6. UpOK'
  BY <1>1 DEF SInv, IInv, UpOK, ReadPos, SendPos
<1>7. state = "up" => InPlace'
  <2> SUFFICES ASSUME state = "up" PROVE InPlace'
    OBVIOUS
  <2>1. recvd = <<>> /\ op # "recv" /\ child \in Answered
    BY <1>1 DEF SInv, IInv, ClientOK, ChildOK
  <2>2. InPlace
    BY <1>1, <2>1 DEF SInv, IInv, DownOK, GivenUp, Answered
  <2> QED BY <1>1, <2>1, <2>2 DEF InPlace, Passed, WritePos
<1> QED BY <1>1, <1>2, <1>4, <1>5, <1>6, <1>7 DEF SInv, IInv, DownOK

\* tun2socks sends payload behind all that was sent.
LEMMA UserSendInv ==
  ASSUME SInv, user_send
  PROVE  SInv'
<1> DEFINE b == <<"payload", userSent + 1>>
<1>1. /\ Live /\ ~freed /\ state = "up" /\ userSent' = userSent + 1 /\ up' = Append(up, b)
      /\ UNCHANGED <<state, con, buffer, op, todo, total, recvd, told, freed, upEnd, down, downEnd,
                     child, unread, dest, asked, relayed, remoteSent, userGot>>
  BY DEF user_send, client, control, server, Live
<1>2. b \in AnyByte /\ userSent \in Nat
  <2>1. userSent \in Nat /\ userSent + 1 \in Nat
    BY DEF SInv, IInv, TypeOK
  <2> QED BY <2>1 DEF AnyByte, Fields
<1>3. /\ up' \in Seq(AnyByte) /\ Len(up') = Len(up) + 1 /\ up'[Len(up) + 1] = b
      /\ \A i \in 1 .. Len(up) : up'[i] = up[i]
  <2> HIDE DEF b
  <2> QED BY <1>1, <1>2, PlacesUp, AppendProperties
<1>4. TypeOK' /\ StreamsOK'
  BY <1>1, <1>2, <1>3 DEF SInv, IInv, TypeOK, StreamsOK
<1>5. /\ child \in Answered /\ asked = "v4" /\ todo = <<>> /\ Len(todo) = 0 /\ dest # "garbage"
      /\ op # "recv"
  BY <1>1 DEF SInv, IInv, ClientOK, ChildOK, Answered
<1>6. ClientOK' /\ ChildOK'
  BY <1>1, <1>5 DEF SInv, IInv, ClientOK, ChildOK, Reading, Answered
<1>7. UpOK'
  <2> SUFFICES ASSUME child \in {"answered", "relaying", "stranded"} PROVE UpOK'
    BY <1>1, <1>5 DEF UpOK, Ended, Answered
  <2>1. /\ \A i \in 1 .. Len(up) : up[i] = UpByte(asked, ReadPos + i)
        /\ ReadPos + Len(up) + 0 = SendPos
    BY <1>1, <1>5 DEF SInv, IInv, UpOK, Ended
  <2>2. /\ ReadPos' = ReadPos /\ SendPos = 7 + LengthOf(asked) + userSent
        /\ SendPos' = 7 + LengthOf(asked) + (userSent + 1)
    BY <1>1 DEF ReadPos, SendPos
  <2>3. asked \in {"v4", "v6"} /\ LengthOf(asked) \in Nat /\ ReadPos \in Nat /\ Len(up) \in Nat
    BY PlacesUp, RequestBytes
  <2>4. ReadPos + (Len(up) + 1) = 7 + LengthOf(asked) + (userSent + 1)
    BY <1>2, <2>1, <2>2, <2>3
  <2>5. UpByte(asked, ReadPos + (Len(up) + 1)) = b
    <3>1. /\ ReadPos + (Len(up) + 1) \in Nat /\ ReadPos + (Len(up) + 1) > 7 + LengthOf(asked)
          /\ (ReadPos + (Len(up) + 1)) - (7 + LengthOf(asked)) = userSent + 1
      BY <1>2, <2>3, <2>4
    <3> QED BY <2>3, <3>1, UpBytes
  <2> HIDE DEF b
  <2>6. ASSUME NEW i \in 1 .. Len(up') PROVE up'[i] = UpByte(asked, ReadPos + i)
    <3>1. CASE i \in 1 .. Len(up)
      BY <1>3, <2>1, <3>1
    <3>2. CASE i = Len(up) + 1
      BY <1>3, <2>5, <3>2
    <3> QED BY <1>3, <2>3, <3>1, <3>2
  <2>7. ReadPos + Len(up') + Len(todo') = SendPos'
    BY <1>1, <1>3, <1>5, <2>2, <2>3, <2>4
  <2> QED BY <1>1, <1>5, <2>2, <2>6, <2>7 DEF UpOK
<1>8. InPlace'
  BY <1>1, <1>5, LiveInPlace DEF InPlace, Passed, WritePos
<1> QED BY <1>4, <1>6, <1>7, <1>8 DEF SInv, IInv, DownOK

\* tun2socks takes a byte of payload.
LEMMA UserRecvInv ==
  ASSUME SInv, user_recv
  PROVE  SInv'
<1>1. /\ Live /\ ~freed /\ state = "up" /\ userGot' = userGot + 1 /\ down # <<>>
      /\ down' = Tail(down)
      /\ UNCHANGED <<state, con, buffer, op, todo, total, recvd, told, freed, up, upEnd, downEnd,
                     child, unread, dest, asked, userSent, relayed, remoteSent>>
  BY DEF user_recv, client, control, server, Live
<1>2. /\ down' \in Seq(AnyByte) /\ Len(down) \in Nat /\ Len(down) >= 1
      /\ Len(down') = Len(down) - 1
      /\ \A i \in 1 .. Len(down') : i + 1 \in 1 .. Len(down) /\ down'[i] = down[i + 1]
  BY <1>1, PlacesDown, TailBytes
<1>3. TypeOK' /\ StreamsOK'
  BY <1>1, <1>2 DEF SInv, IInv, TypeOK, StreamsOK
<1>4. child \in Answered /\ recvd = <<>> /\ Len(recvd) = 0 /\ op # "recv" /\ userGot \in Nat
  BY <1>1 DEF SInv, IInv, TypeOK, ClientOK, ChildOK
<1>5. ClientOK' /\ ChildOK'
  BY <1>1, <1>4 DEF SInv, IInv, ClientOK, ChildOK, Reading, Answered
<1>6. UpOK'
  BY <1>1 DEF SInv, IInv, UpOK, ReadPos, SendPos
<1>7. InPlace'
  <2>1. InPlace /\ ReplyLen \in Nat
    BY <1>1, LiveInPlace, PlacesDown
  <2>2. Passed = ReplyLen + userGot /\ Passed' = ReplyLen + (userGot + 1) /\ WritePos' = WritePos
    BY <1>1 DEF Passed, WritePos, ReplyLen
  <2>3. Passed + Len(recvd) + Len(down) = WritePos /\ child # "refused"
    BY <1>4, <2>1 DEF InPlace, Answered
  <2>4. Passed' + Len(recvd') + Len(down') = WritePos'
    BY <1>1, <1>2, <1>4, <2>1, <2>2, <2>3
  <2>5. ASSUME NEW i \in 1 .. Len(down')
        PROVE  DownAt(child, down'[i], Passed' + Len(recvd') + i)
    <3>1. DownAt(child, down[i + 1], Passed + Len(recvd) + (i + 1))
      BY <1>2, <2>1 DEF InPlace
    <3>2. i \in Nat
      BY <1>2
    <3>3. Passed + Len(recvd) + (i + 1) = Passed' + Len(recvd') + i
      BY <1>1, <1>4, <2>1, <2>2, <3>2
    <3> QED BY <1>2, <3>1, <3>3
  <2> QED BY <1>1, <1>4, <2>3, <2>4, <2>5 DEF InPlace
<1> QED BY <1>3, <1>5, <1>6, <1>7 DEF SInv, IInv, DownOK
-----------------------------------------------------------------------------
(* The steps of the child and the forwarder *)

\* They leave the client as it is.
LEMMA ServerClientOK ==
  ASSUME SInv, UNCHANGED <<client, upEnd, userSent, userGot>>
  PROVE  ClientOK'
BY DEF SInv, IInv, ClientOK, client, control

\* A byte that is read moves the place by one.
LEMMA UpTaken ==
  ASSUME SInv, child \notin {"none"} \cup Ended, dest # "garbage", up # <<>>,
         up' = Tail(up), ReadPos' = ReadPos + 1, UNCHANGED <<client, asked, userSent>>
  PROVE  UpOK' /\ up' \in Seq(AnyByte)
<1>1. /\ up' \in Seq(AnyByte) /\ Len(up) \in Nat /\ Len(up) >= 1 /\ Len(up') = Len(up) - 1
      /\ \A i \in 1 .. Len(up') : i + 1 \in 1 .. Len(up) /\ up'[i] = up[i + 1]
      /\ ReadPos \in Nat /\ Len(todo) \in Nat
  BY PlacesUp, TailBytes
<1>2. /\ \A i \in 1 .. Len(up) : up[i] = UpByte(asked, ReadPos + i)
      /\ \A i \in 1 .. Len(todo) : todo[i] = UpByte(asked, ReadPos + Len(up) + i)
      /\ ~freed => ReadPos + Len(up) + Len(todo) = SendPos
  BY DEF SInv, IInv, UpOK
<1>3. ReadPos' + Len(up') = ReadPos + Len(up)
  BY <1>1
<1>4. ASSUME NEW i \in 1 .. Len(up') PROVE up'[i] = UpByte(asked, ReadPos' + i)
  <2>1. ReadPos + (i + 1) = ReadPos' + i
    BY <1>1
  <2> QED BY <1>1, <1>2, <2>1
<1>5. UNCHANGED <<todo, freed, asked>> /\ SendPos' = SendPos
  BY DEF client, control, SendPos
<1> QED BY <1>1, <1>2, <1>3, <1>4, <1>5 DEF UpOK

\* A child that goes on without reading stays in its place.
LEMMA UpKept ==
  ASSUME SInv, child \notin {"none"} \cup Ended,
         ReadPos' = ReadPos \/ dest' = "garbage", dest' # "garbage" => dest # "garbage",
         UNCHANGED <<client, up, asked, userSent>>
  PROVE  UpOK'
<1>1. UNCHANGED <<todo, freed, asked, up>> /\ SendPos' = SendPos
  BY DEF client, control, SendPos
<1> QED BY <1>1 DEF SInv, IInv, UpOK

\* A child that goes on without writing leaves the client in its place.
LEMMA DownKept ==
  ASSUME SInv, child # "refused", child' # "refused", child \in Answered <=> child' \in Answered,
         child = "rversion" => freed \/ state # "sent_hello",
         WritePos' = WritePos, UNCHANGED <<client, down, userGot>>
  PROVE  DownOK'
<1>1. /\ UNCHANGED <<state, op, total, recvd, told, freed, down>> /\ Passed' = Passed
  BY DEF client, control, Passed
<1>2. \A b, k : DownAt(child, b, k) <=> DownAt(child', b, k)
  BY DEF DownAt, Answered, Ended
<1>3. ~freed \/ state = "up" => InPlace
  BY DEF SInv, IInv, DownOK, GivenUp
<1>4. InPlace => InPlace'
  BY <1>1, <1>2 DEF InPlace
<1> QED BY <1>1, <1>3, <1>4 DEF DownOK

\* What the child writes goes behind all it wrote, and is what belongs there.
LEMMA DownWritten ==
  ASSUME SInv, child \notin Answered \cup Ended, NEW ans \in Seq(AnyByte), down' = down \o ans,
         IF child' = "refused" THEN WritePos + Len(ans) <= ReplyLen
                               ELSE child # "rversion" /\ WritePos' = WritePos + Len(ans),
         \A i \in 1 .. Len(ans) : DownAt(child', ans[i], WritePos + i),
         UNCHANGED <<client, userGot>>
  PROVE  DownOK' /\ down' \in Seq(AnyByte)
<1>1. /\ UNCHANGED <<state, op, total, recvd, told, freed>> /\ Passed' = Passed
  BY DEF client, control, Passed
<1>2. /\ Passed \in Nat /\ WritePos \in Nat /\ ReplyLen \in Nat /\ ReplyLen >= 7
      /\ Len(recvd) \in Nat /\ Len(down) \in Nat /\ Len(ans) \in Nat
      /\ WritePos <= 2
  <2>1. WritePos <= 2
    BY DEF WritePos
  <2> QED BY <2>1, PlacesDown
<1>3. /\ down' \in Seq(AnyByte) /\ Len(down') = Len(down) + Len(ans)
      /\ \A i \in 1 .. Len(down) : down'[i] = down[i]
      /\ \A i \in 1 .. Len(down) + Len(ans) : i > Len(down) =>
           i - Len(down) \in 1 .. Len(ans) /\ down'[i] = ans[i - Len(down)]
  BY PlacesDown, ConcatBytes
<1>4. CASE InPlace
  <2>1. Passed + Len(recvd) + Len(down) = WritePos
    BY <1>4 DEF InPlace, Ended
  <2>2. \A b : \A k \in Nat : k <= 2 /\ DownAt(child, b, k) => DownAt(child', b, k)
    BY <1>2 DEF DownAt
  <2>3. ASSUME NEW i \in 1 .. Len(recvd) PROVE DownAt(child', recvd[i], Passed + i)
    <3>1. Passed + i \in Nat /\ Passed + i <= 2
      BY <1>2, <2>1
    <3> QED BY <1>4, <2>2, <3>1 DEF InPlace
  <2>4. ASSUME NEW i \in 1 .. Len(down') PROVE DownAt(child', down'[i], Passed + Len(recvd) + i)
    <3>1. CASE i \in 1 .. Len(down)
      <4>1. Passed + Len(recvd) + i \in Nat /\ Passed + Len(recvd) + i <= 2
        BY <1>2, <2>1, <3>1
      <4> QED BY <1>3, <1>4, <2>2, <3>1, <4>1 DEF InPlace
    <3>2. CASE i > Len(down)
      <4>1. i - Len(down) \in 1 .. Len(ans) /\ down'[i] = ans[i - Len(down)]
        BY <1>2, <1>3, <3>2
      <4>2. i \in Nat
        BY <1>2, <1>3
      <4>3. WritePos + (i - Len(down)) = Passed + Len(recvd) + i
        BY <1>2, <2>1, <4>2
      <4> QED BY <4>1, <4>3
    <3> QED BY <1>2, <3>1, <3>2
  <2>5. Passed + Len(recvd) + Len(down') = WritePos + Len(ans)
    BY <1>2, <1>3, <2>1
  <2> QED BY <1>1, <1>3, <1>4, <2>3, <2>4, <2>5 DEF InPlace, DownOK
<1>5. CASE GivenUp
  <2>1. child' = "refused" /\ WritePos = 2
    BY <1>5 DEF GivenUp, WritePos, Answered, Ended
  <2>2. ASSUME NEW i \in 1 .. Len(down') PROVE down'[i][1] # "payload"
    <3>1. CASE i \in 1 .. Len(down)
      BY <1>3, <1>5, <3>1 DEF GivenUp
    <3>2. CASE i > Len(down)
      <4>1. i - Len(down) \in 1 .. Len(ans) /\ down'[i] = ans[i - Len(down)]
        BY <1>2, <1>3, <3>2
      <4>2. WritePos + (i - Len(down)) <= ReplyLen
        BY <1>2, <2>1, <4>1
      <4> QED BY <4>1, <4>2 DEF DownAt
    <3> QED BY <1>2, <3>1, <3>2
  <2>3. GivenUp'
    BY <1>1, <1>5, <2>1, <2>2 DEF GivenUp
  <2> QED BY <1>3, <2>3 DEF DownOK
<1>6. CASE freed /\ state # "up"
  BY <1>1, <1>3, <1>6 DEF DownOK
<1> QED BY <1>4, <1>5, <1>6 DEF SInv, IInv, DownOK
\* A field of one byte is read.
LEMMA GetCharInv ==
  ASSUME SInv, conn_getChar
  PROVE  SInv'
<1>1. /\ child \in {"version", "nmethods", "rversion", "cmd", "rsv"} /\ up # <<>>
      /\ child' = Following(child) /\ unread' = 1 /\ up' = Tail(up)
      /\ UNCHANGED <<client, upEnd, down, downEnd, dest, asked, userSent, relayed, remoteSent, userGot>>
  BY DEF conn_getChar, Read, payload
<1>2. dest = "none" /\ child \notin {"none"} \cup Ended
  BY <1>1 DEF SInv, IInv, ChildOK, Reading, Ended
<1>3. ReadPos' = ReadPos + 1
  BY <1>1 DEF ReadPos, Following
<1>4. UpOK' /\ up' \in Seq(AnyByte)
  BY <1>1, <1>2, <1>3, UpTaken
<1>5. ~freed /\ state \in {"sending_hello", "sent_hello"} => child # "rversion"
  <2> SUFFICES ASSUME ~freed, state \in {"sending_hello", "sent_hello"}, child = "rversion"
               PROVE  FALSE
    OBVIOUS
  <2>1. ReadPos = 3 /\ SendPos = 3
    BY DEF ReadPos, SendPos
  <2>2. 3 + Len(up) + Len(todo) = 3
    BY <1>2, <2>1 DEF SInv, IInv, UpOK
  <2>3. Len(up) >= 1
    BY <1>1, PlacesUp, TailBytes
  <2> QED BY <2>2, <2>3, PlacesUp
<1>6. /\ child' \in {"nmethods", "methods", "cmd", "rsv", "atyp"}
      /\ child = "rversion" \/ child' \in {"nmethods", "methods"} \/ child \in {"cmd", "rsv"}
      /\ WritePos' = WritePos
  BY <1>1 DEF Following, WritePos, Answered
<1>7. DownOK'
  BY <1>1, <1>5, <1>6, DownKept DEF Answered
<1>8. TypeOK' /\ StreamsOK'
  BY <1>1, <1>4, <1>6 DEF SInv, IInv, TypeOK, StreamsOK, client, control
<1>9. ChildOK'
  BY <1>1, <1>2, <1>5, <1>6 DEF SInv, IInv, ChildOK, Reading, Answered, client, control
<1> QED BY <1>1, <1>4, <1>7, <1>8, <1>9, ServerClientOK DEF SInv, IInv

\* The methods are read and one is chosen, or none.
LEMMA InitialInv ==
  ASSUME SInv, socks5_initial
  PROVE  SInv'
<1>1. /\ child = "methods" /\ up # <<>> /\ up' = Tail(up)
      /\ UNCHANGED <<client, upEnd, dest, asked, userSent, relayed, remoteSent, userGot>>
      /\ \/ /\ child' = "rversion" /\ unread' = 1 /\ downEnd' = downEnd
            /\ down' = down \o HelloReply(0)
         \/ /\ child' = "refused" /\ unread' = 0 /\ downEnd' = TRUE
            /\ down' = down \o HelloReply(255)
  BY DEF socks5_initial, Read, barfed, payload
<1>2. dest = "none" /\ child \notin {"none"} \cup Ended /\ child \notin Answered \cup Ended
      /\ WritePos = 0
  BY <1>1 DEF SInv, IInv, ChildOK, Reading, Answered, Ended, WritePos
<1>3. UpOK' /\ up' \in Seq(AnyByte)
  <2>1. CASE child' = "rversion"
    <3>1. ReadPos' = ReadPos + 1
      BY <1>1, <2>1 DEF ReadPos
    <3> QED BY <1>1, <1>2, <3>1, UpTaken
  <2>2. CASE child' = "refused"
    BY <1>1, <2>2, PlacesUp, TailBytes DEF UpOK, Ended
  <2> QED BY <1>1, <2>1, <2>2
<1>4. DownOK' /\ down' \in Seq(AnyByte)
  <2>1. PICK m \in Nat : down' = down \o HelloReply(m)
    BY <1>1
  <2> DEFINE ans == HelloReply(m)
  <2>2. /\ ans \in Seq(AnyByte) /\ Len(ans) = 2
        /\ \A i \in 1 .. Len(ans) : DownAt(child', ans[i], 0 + i)
    BY HelloReplyBytes
  <2> HIDE DEF ans
  <2>3. down' = down \o ans
    BY <2>1 DEF ans
  <2>4. IF child' = "refused" THEN WritePos + Len(ans) <= ReplyLen
        ELSE child # "rversion" /\ WritePos' = WritePos + Len(ans)
    <3>1. child' = "rversion" => WritePos' = 2
      BY DEF WritePos, Answered
    <3> QED BY <1>1, <1>2, <2>2, <3>1, PlacesDown
  <2>5. \A i \in 1 .. Len(ans) : DownAt(child', ans[i], WritePos + i)
    BY <1>2, <2>2
  <2> QED BY <1>1, <1>2, <2>2, <2>3, <2>4, <2>5, DownWritten
<1>5. TypeOK' /\ StreamsOK'
  <2>1. downEnd \in BOOLEAN
    BY DEF SInv, IInv, TypeOK
  <2>2. downEnd' \in BOOLEAN
    BY <1>1, <2>1, Zenon
  <2>3. unread' \in Nat /\ child' \in {"rversion", "refused"}
    BY <1>1
  <2> QED BY <1>1, <1>3, <1>4, <2>2, <2>3 DEF SInv, IInv, TypeOK, StreamsOK, client, control
<1>6. ChildOK'
  BY <1>1, <1>2 DEF SInv, IInv, ChildOK, Reading, Answered, client, control
<1> QED BY <1>1, <1>3, <1>4, <1>5, <1>6, ServerClientOK DEF SInv, IInv

\* The reply with a refusal, or nothing, ends the stream to the client.
LEMMA RefusedInv ==
  ASSUME SInv, child \notin {"none"} \cup Answered \cup Ended,
         NEW rep \in Nat \ {0}, NEW ans \in {<<>>, Reply(rep)},
         ans = <<>> \/ child \in {"atyp", "connecting"},
         barfed(ans), up' \in Seq(AnyByte), up' = up \/ up # <<>>,
         UNCHANGED <<client, upEnd, asked, userSent, relayed, remoteSent, userGot>>
  PROVE  SInv'
<1>1. /\ child' = "refused" /\ unread' = 0 /\ downEnd' = TRUE /\ dest' = dest
      /\ down' = down \o ans
  BY DEF barfed
<1>2. UpOK'
  BY <1>1 DEF UpOK, Ended
<1>3. /\ ans \in Seq(AnyByte) /\ WritePos + Len(ans) <= ReplyLen
      /\ \A i \in 1 .. Len(ans) : DownAt(child', ans[i], WritePos + i)
  <2>1. CASE ans = <<>>
    <3>1. WritePos <= 2 /\ Len(ans) = 0 /\ ans \in Seq(AnyByte)
      BY <2>1, EmptySeq DEF WritePos
    <3> QED BY <3>1, PlacesDown
  <2>2. CASE ans = Reply(rep) /\ child \in {"atyp", "connecting"}
    <3>1. WritePos = 2
      BY <2>2 DEF WritePos, Answered
    <3>2. ans \in Seq(AnyByte) /\ Len(ans) = 4 + AddrLen /\ AddrLen \in Nat
      BY <2>2, ReplyBytes, HandshakeAssumption
    <3>3. \A i \in 1 .. 4 + AddrLen : DownAt("refused", ans[i], 2 + i)
      BY <2>2, ReplyBytes DEF Answered, Ended
    <3> QED BY <1>1, <3>1, <3>2, <3>3 DEF ReplyLen
  <2> QED BY <2>1, <2>2
<1>4. DownOK' /\ down' \in Seq(AnyByte)
  BY <1>1, <1>3, DownWritten
<1>5. TypeOK' /\ StreamsOK'
  BY <1>1, <1>4 DEF SInv, IInv, TypeOK, StreamsOK, client, control
<1>6. ChildOK'
  BY <1>1 DEF SInv, IInv, ChildOK, Reading, Answered, Ended, client, control
<1> QED BY <1>2, <1>4, <1>5, <1>6, ServerClientOK DEF SInv, IInv
\* The address type is read: the child goes on only if it is IPv4.
LEMMA ResolveInv ==
  ASSUME SInv, socks5_resolve
  PROVE  SInv'
<1>1. /\ child = "atyp" /\ up # <<>> /\ up' = Tail(up)
      /\ UNCHANGED <<client, upEnd, asked, userSent, relayed, remoteSent, userGot>>
      /\ IF Head(up)[2] = "v4"
         THEN /\ child' = "addr" /\ unread' = AddrLen /\ UNCHANGED <<down, downEnd, dest>>
         ELSE barfed(Reply(8))
  BY DEF socks5_resolve, Read, payload
<1>2. dest = "none" /\ child \notin {"none"} \cup Ended /\ child \notin Answered \cup Ended
  BY <1>1 DEF SInv, IInv, ChildOK, Reading, Answered, Ended
<1>3. CASE Head(up)[2] # "v4"
  <2>1. up' \in Seq(AnyByte) /\ 8 \in Nat \ {0}
    BY <1>1, PlacesUp, TailBytes
  <2> QED BY <1>1, <1>2, <1>3, <2>1, RefusedInv
<1>4. CASE Head(up)[2] = "v4"
  <2>1. asked = "v4"
    <3>1. ReadPos = 6 /\ 1 \in 1 .. Len(up) /\ Head(up) = up[1]
      BY <1>1, PlacesUp, TailBytes DEF ReadPos
    <3>2. Head(up) = UpByte(asked, 7)
      BY <1>2, <3>1 DEF SInv, IInv, UpOK
    <3> QED BY <1>4, <3>2, PlacesUp, UpBytes
  <2>2. AddrLen \in Nat /\ (7 + AddrLen) - AddrLen = 7
    BY HandshakeAssumption
  <2>3. ReadPos' = ReadPos + 1
    BY <1>1, <1>4, <2>2 DEF ReadPos
  <2>4. UpOK' /\ up' \in Seq(AnyByte)
    BY <1>1, <1>2, <2>3, UpTaken
  <2>5. DownOK'
    <3>1. WritePos' = WritePos
      BY <1>1, <1>4 DEF WritePos, Answered
    <3> QED BY <1>1, <1>4, <3>1, DownKept DEF Answered
  <2>6. TypeOK' /\ StreamsOK'
    BY <1>1, <1>4, <2>2, <2>4 DEF SInv, IInv, TypeOK, StreamsOK, client, control
  <2>7. ChildOK'
    BY <1>1, <1>2, <1>4, <2>1, <2>2 DEF SInv, IInv, ChildOK, Reading, Answered, client, control
  <2> QED BY <1>1, <2>4, <2>5, <2>6, <2>7, ServerClientOK DEF SInv, IInv
<1> QED BY <1>3, <1>4

\* Part of the address is read.
LEMMA GetSlabInv ==
  ASSUME SInv, NEW n \in 1 .. Len(up), conn_getSlab(n)
  PROVE  SInv'
<1>1. /\ child = "addr" /\ n <= unread /\ up' = SubSeq(up, n + 1, Len(up))
      /\ unread' = unread - n
      /\ UNCHANGED <<client, upEnd, down, downEnd, child, dest, asked, userSent, relayed,
                     remoteSent, userGot>>
  BY DEF conn_getSlab, payload
<1>2. dest = "none" /\ unread <= AddrLen /\ unread \in Nat /\ AddrLen \in Nat /\ Len(up) \in Nat
      /\ n \in Nat /\ n \in 0 .. Len(up) /\ ReadPos \in Nat /\ Len(todo) \in Nat
  BY <1>1, PlacesUp, HandshakeAssumption DEF SInv, IInv, TypeOK, ChildOK, Reading
<1>3. /\ up' \in Seq(AnyByte) /\ Len(up') = Len(up) - n
      /\ \A i \in 1 .. Len(up) - n : n + i \in 1 .. Len(up) /\ up'[i] = up[n + i]
  BY <1>1, <1>2, PlacesUp, SplitBytes
<1>4. UpOK'
  <2>1. ReadPos' = ReadPos + n
    BY <1>1, <1>2 DEF ReadPos
  <2>2. /\ \A i \in 1 .. Len(up) : up[i] = UpByte(asked, ReadPos + i)
        /\ \A i \in 1 .. Len(todo) : todo[i] = UpByte(asked, ReadPos + Len(up) + i)
        /\ ~freed => ReadPos + Len(up) + Len(todo) = SendPos
    BY <1>1, <1>2 DEF SInv, IInv, UpOK, Ended
  <2>3. ReadPos' + Len(up') = ReadPos + Len(up)
    BY <1>2, <1>3, <2>1
  <2>4. ASSUME NEW i \in 1 .. Len(up') PROVE up'[i] = UpByte(asked, ReadPos' + i)
    <3>1. i \in Nat /\ n + i \in 1 .. Len(up) /\ up'[i] = up[n + i]
      BY <1>2, <1>3
    <3>2. ReadPos + (n + i) = ReadPos' + i
      BY <1>2, <2>1, <3>1
    <3> QED BY <2>2, <3>1, <3>2
  <2>5. UNCHANGED <<todo, freed, asked>> /\ SendPos' = SendPos
    BY <1>1 DEF client, control, SendPos
  <2> QED BY <2>2, <2>3, <2>4, <2>5 DEF UpOK
<1>5. DownOK'
  <2>1. WritePos' = WritePos
    BY <1>1 DEF WritePos
  <2> QED BY <1>1, <2>1, DownKept
<1>6. unread' \in Nat /\ unread' <= AddrLen
  BY <1>1, <1>2
<1>7. TypeOK' /\ StreamsOK'
  BY <1>1, <1>3, <1>6 DEF SInv, IInv, TypeOK, StreamsOK, client, control
<1>8. ChildOK'
  BY <1>1, <1>2, <1>6 DEF SInv, IInv, ChildOK, Reading, Answered, client, control
<1> QED BY <1>1, <1>4, <1>5, <1>7, <1>8, ServerClientOK DEF SInv, IInv

\* The address is complete, or is taken as it is; then the filter is asked.
LEMMA AllowedInv ==
  ASSUME SInv, child \in {"addr", "allowed"}, child' \in {"allowed", "connecting"},
         unread' \in Nat,
         \/ child = "addr" /\ unread = 0 /\ dest' = "asked"
         \/ child = "addr" /\ dest' = "garbage" /\ freed /\ up = <<>>
         \/ child = "allowed" /\ dest' = dest,
         UNCHANGED <<client, up, upEnd, down, downEnd, asked, userSent, relayed, remoteSent, userGot>>
  PROVE  SInv'
<1>1. UpOK'
  <2>1. AddrLen \in Nat /\ relayed = 0
    BY HandshakeAssumption DEF SInv, IInv, ChildOK, Answered
  <2>2. ReadPos' = ReadPos \/ dest' = "garbage"
    BY <2>1 DEF ReadPos
  <2>3. dest' # "garbage" => dest # "garbage"
    BY DEF SInv, IInv, ChildOK, Reading
  <2> QED BY <2>2, <2>3, UpKept DEF Ended
<1>2. DownOK'
  <2>1. WritePos' = WritePos
    BY DEF WritePos, Answered
  <2> QED BY <2>1, DownKept DEF Answered
<1>3. TypeOK' /\ StreamsOK'
  BY DEF SInv, IInv, TypeOK, StreamsOK, client, control
<1>4. ChildOK'
  BY DEF SInv, IInv, ChildOK, Reading, Answered, client, control
<1> QED BY <1>1, <1>2, <1>3, <1>4, ServerClientOK DEF SInv, IInv

\* The address is complete.
LEMMA ResolvedInv ==
  ASSUME SInv, socks5_resolve_ipv4
  PROVE  SInv'
BY AllowedInv DEF socks5_resolve_ipv4, payload, SInv, IInv, TypeOK

\* No byte comes any more.  An address is cut short only by a client that is
\* gone: one that still waits has sent the whole of it.
LEMMA WaitInv ==
  ASSUME SInv, conn_waitForData
  PROVE  SInv'
<1>1. /\ Reading /\ unread > 0 /\ up = <<>> /\ (upEnd \/ todo = <<>>)
      /\ UNCHANGED <<client, up, upEnd, asked, userSent, relayed, remoteSent, userGot>>
      /\ IF child = "addr" THEN /\ dest' = "garbage" /\ child' = "allowed" /\ unread' = 0
                                /\ UNCHANGED <<down, downEnd>>
         ELSE barfed(<<>>)
  BY DEF conn_waitForData, payload
<1>2. CASE child = "addr"
  <2>1. freed
    <3> SUFFICES ASSUME ~freed PROVE FALSE
      OBVIOUS
    <3>1. todo = <<>> /\ Len(todo) = 0 /\ Len(up) = 0
      BY <1>1 DEF SInv, IInv, ClientOK
    <3>2. /\ unread \in Nat /\ unread <= AddrLen /\ AddrLen \in Nat /\ dest = "none" /\ asked = "v4"
          /\ userSent \in Nat /\ state \notin {"sending_hello", "sent_hello"}
      BY <1>2, HandshakeAssumption DEF SInv, IInv, TypeOK, ChildOK, Reading
    <3>3. ReadPos = (7 + AddrLen) - unread /\ SendPos = 7 + AddrLen + userSent
      BY <1>2, <3>2 DEF ReadPos, SendPos, LengthOf
    <3>4. ReadPos + 0 + 0 = SendPos
      BY <1>2, <3>1, <3>2 DEF SInv, IInv, UpOK, Ended
    <3> QED BY <1>1, <3>2, <3>3, <3>4
  <2>2. unread' \in Nat
    BY <1>1, <1>2
  <2> QED BY <1>1, <1>2, <2>1, <2>2, AllowedInv
<1>3. CASE child # "addr"
  <2>1. child \notin {"none"} \cup Answered \cup Ended /\ up' \in Seq(AnyByte) /\ up' = up
    BY <1>1, PlacesUp DEF Reading, Answered, Ended
  <2>2. 1 \in Nat \ {0}
    OBVIOUS
  <2> QED BY <1>1, <1>3, <2>1, <2>2, RefusedInv
<1> QED BY <1>2, <1>3

\* The filter lets the connection through or not.
LEMMA FilterInv ==
  ASSUME SInv, config_isallowed
  PROVE  SInv'
<1>1. /\ child = "allowed"
      /\ UNCHANGED <<client, up, upEnd, asked, userSent, relayed, remoteSent, userGot>>
      /\ \/ child' = "connecting" /\ UNCHANGED <<unread, dest, down, downEnd>>
         \/ barfed(<<>>)
  BY DEF config_isallowed, payload
<1>2. CASE child' = "connecting" /\ UNCHANGED <<unread, dest, down, downEnd>>
  <2>1. unread' \in Nat
    BY <1>2 DEF SInv, IInv, TypeOK
  <2> QED BY <1>1, <1>2, <2>1, AllowedInv
<1>3. CASE barfed(<<>>)
  <2>1. child \notin {"none"} \cup Answered \cup Ended /\ up' \in Seq(AnyByte) /\ up' = up
    BY <1>1, PlacesUp DEF Answered, Ended
  <2>2. 1 \in Nat \ {0}
    OBVIOUS
  <2> QED BY <1>1, <1>3, <2>1, <2>2, RefusedInv
<1> QED BY <1>1, <1>2, <1>3

\* A connection that was not made is answered with a refusal.
LEMMA FailedInv ==
  ASSUME SInv, socks5_cmd_conn_fail
  PROVE  SInv'
<1>1. /\ child = "connecting" /\ barfed(Reply(5))
      /\ UNCHANGED <<client, up, upEnd, asked, userSent, relayed, remoteSent, userGot>>
  BY DEF socks5_cmd_conn_fail, Failure, payload
<1>2. child \notin {"none"} \cup Answered \cup Ended /\ up' \in Seq(AnyByte) /\ up' = up
  BY <1>1, PlacesUp DEF Answered, Ended
<1>3. 5 \in Nat \ {0}
  OBVIOUS
<1> QED BY <1>1, <1>2, <1>3, RefusedInv

\* A connection that was made is answered with success.
LEMMA ConnectedInv ==
  ASSUME SInv, socks5_cmd_conn
  PROVE  SInv'
<1> DEFINE ans == Reply(0)
<1>1. /\ child = "connecting" /\ child' = "answered" /\ down' = down \o ans
      /\ UNCHANGED <<client, up, upEnd, downEnd, unread, dest, asked, userSent, relayed,
                     remoteSent, userGot>>
  BY DEF socks5_cmd_conn, payload
<1>2. /\ ans \in Seq(AnyByte) /\ Len(ans) = 4 + AddrLen
      /\ \A i \in 1 .. 4 + AddrLen : DownAt("answered", ans[i], 2 + i)
  <2>1. 0 \in Nat /\ "answered" \in Answered \cup Ended /\ "answered" \in Answered
    BY DEF Answered
  <2> QED BY <2>1, ReplyBytes
<1> HIDE DEF ans
<1>3. relayed = 0 /\ remoteSent = 0 /\ AddrLen \in Nat /\ dest # "none" /\ asked = "v4"
  BY <1>1, HandshakeAssumption DEF SInv, IInv, ChildOK, Answered
<1>4. UpOK'
  <2>1. ReadPos' = ReadPos
    BY <1>1 DEF ReadPos
  <2> QED BY <1>1, <2>1, UpKept DEF Ended
<1>5. DownOK' /\ down' \in Seq(AnyByte)
  <2>1. WritePos = 2 /\ WritePos' = 6 + AddrLen
    BY <1>1, <1>3 DEF WritePos, Answered, ReplyLen
  <2>2. WritePos' = WritePos + Len(ans)
    BY <1>2, <1>3, <2>1
  <2>3. \A i \in 1 .. Len(ans) : DownAt(child', ans[i], WritePos + i)
    BY <1>1, <1>2, <2>1
  <2> QED BY <1>1, <1>2, <2>2, <2>3, DownWritten DEF Answered, Ended
<1>6. TypeOK' /\ StreamsOK'
  BY <1>1, <1>5 DEF SInv, IInv, TypeOK, StreamsOK, client, control
<1>7. ChildOK'
  BY <1>1, <1>3 DEF SInv, IInv, ChildOK, Reading, Answered, client, control
<1> QED BY <1>1, <1>4, <1>5, <1>6, <1>7, ServerClientOK DEF SInv, IInv

\* Nothing is read or written when a forwarder is created, or is not.
LEMMA ForwardDataInv ==
  ASSUME SInv, conn_forwardData
  PROVE  SInv'
<1>1. /\ child = "answered" /\ child' \in {"relaying", "stranded"}
      /\ UNCHANGED <<client, up, upEnd, down, downEnd, unread, dest, asked, userSent, relayed,
                     remoteSent, userGot>>
  BY DEF conn_forwardData, payload
<1>2. UpOK'
  <2>1. ReadPos' = ReadPos
    BY <1>1 DEF ReadPos
  <2> QED BY <1>1, <2>1, UpKept DEF Ended
<1>3. DownOK'
  <2>1. WritePos' = WritePos
    BY <1>1 DEF WritePos, Answered
  <2> QED BY <1>1, <2>1, DownKept DEF Answered
<1>4. TypeOK' /\ StreamsOK'
  BY <1>1 DEF SInv, IInv, TypeOK, StreamsOK, client, control
<1>5. ChildOK'
  BY <1>1 DEF SInv, IInv, ChildOK, Reading, Answered, client, control
<1> QED BY <1>1, <1>2, <1>3, <1>4, <1>5, ServerClientOK DEF SInv, IInv

\* The forwarder takes a byte of payload from the client.
LEMMA ForwardUpInv ==
  ASSUME SInv, forward_up
  PROVE  SInv'
<1>1. /\ child = "relaying" /\ up # <<>> /\ up' = Tail(up) /\ relayed' = relayed + 1
      /\ UNCHANGED <<client, upEnd, down, downEnd, child, unread, dest, asked, userSent,
                     remoteSent, userGot>>
  BY DEF forward_up, server
<1>2. relayed \in Nat /\ AddrLen \in Nat /\ dest # "garbage" /\ child \notin {"none"} \cup Ended
  BY <1>1, HandshakeAssumption DEF SInv, IInv, TypeOK, ChildOK, Ended
<1>3. ReadPos' = ReadPos + 1
  <2>1. ReadPos = 7 + AddrLen + relayed /\ ReadPos' = 7 + AddrLen + (relayed + 1)
    BY <1>1 DEF ReadPos
  <2> QED BY <1>2, <2>1
<1>4. UpOK' /\ up' \in Seq(AnyByte)
  BY <1>1, <1>2, <1>3, UpTaken
<1>5. DownOK'
  <2>1. WritePos' = WritePos
    BY <1>1 DEF WritePos
  <2> QED BY <1>1, <2>1, DownKept
<1>6. TypeOK' /\ StreamsOK'
  BY <1>1, <1>2, <1>4 DEF SInv, IInv, TypeOK, StreamsOK, client, control
<1>7. ChildOK'
  BY <1>1, <1>2 DEF SInv, IInv, ChildOK, Reading, Answered, client, control
<1> QED BY <1>1, <1>4, <1>5, <1>6, <1>7, ServerClientOK DEF SInv, IInv

\* The forwarder hands a byte of payload to the client.
LEMMA ForwardDownInv ==
  ASSUME SInv, forward_down
  PROVE  SInv'
<1> DEFINE b == <<"payload", remoteSent + 1>>
<1>1. /\ child = "relaying" /\ remoteSent' = remoteSent + 1 /\ down' = Append(down, b)
      /\ UNCHANGED <<client, up, upEnd, downEnd, child, unread, dest, asked, userSent, relayed,
                     userGot>>
  BY DEF forward_down, server
<1>2. b \in AnyByte /\ remoteSent \in Nat
  <2>1. remoteSent \in Nat /\ remoteSent + 1 \in Nat
    BY DEF SInv, IInv, TypeOK
  <2> QED BY <2>1 DEF AnyByte, Fields
<1>3. /\ down' \in Seq(AnyByte) /\ Len(down') = Len(down) + 1 /\ down'[Len(down) + 1] = b
      /\ \A i \in 1 .. Len(down) : down'[i] = down[i]
  <2> HIDE DEF b
  <2> QED BY <1>1, <1>2, PlacesDown, AppendProperties
<1>4. UpOK'
  <2>1. ReadPos' = ReadPos
    BY <1>1 DEF ReadPos
  <2> QED BY <1>1, <2>1, UpKept DEF Ended
<1>5. DownOK'
  <2> SUFFICES ASSUME ~freed \/ state = "up" PROVE InPlace'
    BY <1>1 DEF DownOK, client
  <2>1. InPlace
    BY <1>1 DEF SInv, IInv, DownOK, GivenUp
  <2>2. UNCHANGED <<state, op, total, recvd, child>> /\ Passed' = Passed
    BY <1>1 DEF client, control, Passed
  <2>3. /\ Passed \in Nat /\ Len(recvd) \in Nat /\ Len(down) \in Nat /\ ReplyLen \in Nat
        /\ ReplyLen >= 7
    BY PlacesDown
  <2>4. WritePos = ReplyLen + remoteSent /\ WritePos' = ReplyLen + (remoteSent + 1)
    BY <1>1 DEF WritePos, Answered, ReplyLen
  <2>5. Passed + Len(recvd) + Len(down) = WritePos
    BY <1>1, <2>1 DEF InPlace
  <2>6. DownAt(child, b, Passed + Len(recvd) + (Len(down) + 1))
    <3>1. /\ Passed + Len(recvd) + (Len(down) + 1) > ReplyLen
          /\ ~(Passed + Len(recvd) + (Len(down) + 1) <= ReplyLen)
          /\ Passed + Len(recvd) + (Len(down) + 1) # 4
          /\ Passed + Len(recvd) + (Len(down) + 1) # 6
          /\ (Passed + Len(recvd) + (Len(down) + 1)) - ReplyLen = remoteSent + 1
      BY <1>2, <2>3, <2>4, <2>5
    <3> QED BY <3>1 DEF DownAt
  <2> HIDE DEF b
  <2>7. ASSUME NEW i \in 1 .. Len(down') PROVE DownAt(child, down'[i], Passed + Len(recvd) + i)
    <3>1. CASE i \in 1 .. Len(down)
      BY <1>3, <2>1, <3>1 DEF InPlace
    <3>2. CASE i = Len(down) + 1
      BY <1>3, <2>6, <3>2
    <3> QED BY <1>3, <2>3, <3>1, <3>2
  <2>8. Passed' + Len(recvd') + Len(down') = WritePos'
    BY <1>2, <1>3, <2>2, <2>3, <2>4, <2>5
  <2> QED BY <1>1, <2>1, <2>2, <2>7, <2>8 DEF InPlace
<1>6. TypeOK' /\ StreamsOK'
  BY <1>1, <1>2, <1>3 DEF SInv, IInv, TypeOK, StreamsOK, client, control
<1>7. ChildOK'
  BY <1>1, <1>2 DEF SInv, IInv, ChildOK, Reading, Answered, client, control
<1> QED BY <1>1, <1>3, <1>4, <1>5, <1>6, <1>7, ServerClientOK DEF SInv, IInv

\* The forwarder ends.
LEMMA ForwardCloseInv ==
  ASSUME SInv, forward_close
  PROVE  SInv'
<1>1. /\ child = "relaying" /\ child' = "closed" /\ downEnd' = TRUE
      /\ UNCHANGED <<client, up, upEnd, down, unread, dest, asked, userSent, relayed, remoteSent,
                     userGot>>
  BY DEF forward_close, payload
<1>2. UpOK'
  BY <1>1 DEF UpOK, Ended
<1>3. DownOK'
  <2>1. WritePos' = WritePos
    BY <1>1 DEF WritePos, Answered
  <2> QED BY <1>1, <2>1, DownKept DEF Answered
<1>4. TypeOK' /\ StreamsOK'
  BY <1>1 DEF SInv, IInv, TypeOK, StreamsOK, client, control
<1>5. ChildOK'
  BY <1>1 DEF SInv, IInv, ChildOK, Reading, Answered, client, control
<1> QED BY <1>1, <1>2, <1>3, <1>4, <1>5, ServerClientOK DEF SInv, IInv

-----------------------------------------------------------------------------
(* The theorems *)

\* Before anything is sent both streams are empty and both sides at their start.
LEMMA InitInv == Init => SInv
<1> SUFFICES ASSUME Init PROVE SInv
  OBVIOUS
<1>1. TypeOK /\ ClientOK /\ ChildOK
  BY DEF Init, TypeOK, ClientOK, ChildOK, Reading, Answered
<1>2. UpOK
  BY DEF Init, UpOK
<1>3. InPlace
  <2>1. recvd = <<>> /\ down = <<>> /\ Len(recvd) = 0 /\ Len(down) = 0 /\ op # "recv"
        /\ child = "none" /\ Passed = 0 /\ WritePos = 0
    BY DEF Init, Passed, WritePos, Answered
  <2> QED BY <2>1 DEF InPlace
<1>4. StreamsOK
  BY EmptySeq DEF Init, StreamsOK
<1> QED BY <1>1, <1>2, <1>3, <1>4 DEF SInv, IInv, DownOK

\* A complete reply is dealt with in one of the three states that wait for one.
LEMMA DoneInv ==
  ASSUME SInv, recv_handler_done
  PROVE  SInv'
<1>1. state = "sent_hello" \/ state = "sent_request" \/ state = "received_header"
  BY DEF recv_handler_done
<1> QED BY <1>1, ReceivedHelloInv, ReceivedHeaderInv, ReceivedRestInv

\* Every step keeps the invariant.
LEMMA StepInv == SInv /\ [Next]_vars => SInv'
<1> SUFFICES ASSUME SInv, [Next]_vars PROVE SInv'
  OBVIOUS
<1>1. CASE ClientStep
  BY <1>1, ConnectInv, ToldInv, OutputInv, SentInv, MoreInv, DoneInv DEF ClientStep
<1>2. CASE BSocksClient_Free \/ user_send \/ user_recv
  BY <1>2, FreeInv, UserSendInv, UserRecvInv
<1>3. CASE ServerStep
  BY <1>3, GetCharInv, InitialInv, ResolveInv, GetSlabInv, ResolvedInv, WaitInv, FilterInv,
     ConnectedInv, FailedInv, ForwardDataInv DEF ServerStep
<1>4. CASE forward_up \/ forward_down \/ forward_close
  BY <1>4, ForwardUpInv, ForwardDownInv, ForwardCloseInv
<1>5. CASE UNCHANGED vars
  <2>1. UNCHANGED <<state, con, buffer, op, todo, total, recvd, told, freed, up, upEnd, down,
                    downEnd, child, unread, dest, asked, userSent, relayed, remoteSent, userGot>>
    BY <1>5 DEF vars, client, control, server, payload
  <2>2. TypeOK' /\ StreamsOK' /\ ClientOK' /\ ChildOK'
    BY <2>1 DEF SInv, IInv, TypeOK, StreamsOK, ClientOK, ChildOK, Reading
  <2>3. UpOK'
    BY <2>1 DEF SInv, IInv, UpOK, ReadPos, SendPos
  <2>4. DownOK'
    BY <2>1 DEF SInv, IInv, DownOK, GivenUp, InPlace, Passed, WritePos
  <2> QED BY <2>2, <2>3, <2>4 DEF SInv, IInv
<1> QED BY <1>1, <1>2, <1>3, <1>4, <1>5 DEF Next

\* Both sides keep their place in both streams, whatever TCP, the user and the
\* remote server do.
THEOREM Invariant == Spec => []SInv
BY InitInv, StepInv, PTL DEF Spec

\* The control state keeps its types.
THEOREM TypeCorrect == Spec => []TypeOK
<1>1. SInv => TypeOK
  BY DEF SInv, IInv
<1> QED BY <1>1, Invariant, PTL

\* ChildThread reads each field where the client wrote it, and neither the
\* forwarder nor tun2socks sees a control byte or misses one of payload.
THEOREM BothInSync == Spec => []InSync
<1>1. SInv => InSync
  <2> SUFFICES ASSUME SInv PROVE InSync
    OBVIOUS
  <2>1. ASSUME up # <<>>, child \notin {"none"} \cup Ended, dest # "garbage"
        PROVE  Head(up) = UpByte(asked, ReadPos + 1) /\ asked \in {"v4", "v6"}
    <3>1. 1 \in 1 .. Len(up) /\ Head(up) = up[1]
      BY <2>1, PlacesUp, TailBytes
    <3> QED BY <2>1, <3>1, PlacesUp DEF SInv, IInv, UpOK
  <2>2. ASSUME up # <<>>, Reading, unread > 0 PROVE Head(up)[1] = child
    <3>1. dest = "none" /\ child \notin {"none"} \cup Ended
      BY <2>2 DEF SInv, IInv, ChildOK, Reading, Ended
    <3>2. Head(up) = UpByte(asked, ReadPos + 1) /\ asked \in {"v4", "v6"}
      BY <2>1, <2>2, <3>1
    <3>3. CASE child = "addr"
      <4>1. /\ unread \in Nat /\ unread <= AddrLen /\ AddrLen \in Nat /\ asked = "v4"
            /\ LengthOf(asked) = AddrLen /\ ReadPos = (7 + AddrLen) - unread
        BY <3>3, HandshakeAssumption DEF SInv, IInv, TypeOK, ChildOK, LengthOf, ReadPos
      <4>2. ReadPos + 1 \in 8 .. 7 + LengthOf(asked)
        BY <2>2, <4>1
      <4> QED BY <3>2, <3>3, <4>2, UpBytes
    <3>4. CASE child # "addr"
      <4>1. \/ child = "version" /\ ReadPos + 1 = 1
            \/ child = "nmethods" /\ ReadPos + 1 = 2
            \/ child = "methods" /\ ReadPos + 1 = 3
            \/ child = "rversion" /\ ReadPos + 1 = 4
            \/ child = "cmd" /\ ReadPos + 1 = 5
            \/ child = "rsv" /\ ReadPos + 1 = 6
            \/ child = "atyp" /\ ReadPos + 1 = 7
        BY <2>2, <3>4 DEF Reading, ReadPos
      <4> QED BY <3>2, <4>1, UpBytes
    <3> QED BY <3>3, <3>4
  <2>3. ASSUME up # <<>>, child = "relaying" PROVE Head(up) = <<"payload", relayed + 1>>
    <3>1. dest # "garbage" /\ child \notin {"none"} \cup Ended /\ asked = "v4"
      BY <2>3 DEF SInv, IInv, ChildOK, Ended, Answered
    <3>2. Head(up) = UpByte(asked, ReadPos + 1) /\ asked \in {"v4", "v6"}
      BY <2>1, <2>3, <3>1
    <3>3. /\ AddrLen \in Nat /\ relayed \in Nat /\ LengthOf(asked) = AddrLen
          /\ ReadPos = 7 + AddrLen + relayed
      BY <2>3, <3>1, HandshakeAssumption DEF SInv, IInv, TypeOK, LengthOf, ReadPos
    <3>4. /\ ReadPos + 1 \in Nat /\ ReadPos + 1 > 7 + LengthOf(asked)
          /\ (ReadPos + 1) - (7 + LengthOf(asked)) = relayed + 1
      BY <3>3
    <3> QED BY <3>2, <3>4, UpBytes
  <2>4. ASSUME down # <<>>, state = "up" PROVE Head(down) = <<"payload", userGot + 1>>
    <3>1. InPlace /\ recvd = <<>> /\ Len(recvd) = 0 /\ userGot \in Nat
      BY <2>4 DEF SInv, IInv, TypeOK, ClientOK, ChildOK, DownOK, GivenUp, Answered
    <3>2. 1 \in 1 .. Len(down) /\ Head(down) = down[1]
      BY <2>4, PlacesDown, TailBytes
    <3>3. DownAt(child, down[1], Passed + Len(recvd) + 1)
      BY <3>1, <3>2 DEF InPlace
    <3>4. Passed = ReplyLen + userGot /\ ReplyLen \in Nat
      BY <2>4, PlacesDown DEF Passed
    <3>5. Passed + Len(recvd) + 1 > ReplyLen /\ (Passed + Len(recvd) + 1) - ReplyLen = userGot + 1
      BY <3>1, <3>4
    <3> QED BY <3>2, <3>3, <3>5 DEF DownAt
  <2>5. ASSUME op = "recv", NEW i \in 1 .. Len(down), i <= total PROVE down[i][1] # "payload"
    <3>1. ~freed /\ state \in {"sent_hello", "sent_request", "received_header"}
      BY <2>5 DEF SInv, IInv, ClientOK
    <3>2. CASE GivenUp
      BY <3>2 DEF GivenUp
    <3>3. CASE InPlace
      <4>1. DownAt(child, down[i], Passed + Len(recvd) + i)
        BY <3>3 DEF InPlace
      <4>2. /\ i \in Nat /\ total \in Nat /\ Len(recvd) \in Nat /\ Passed \in Nat
            /\ AddrLen \in Nat /\ AddrLen >= 1
        BY PlacesDown, HandshakeAssumption
      <4>3. \/ Passed = 0 /\ total + Len(recvd) = 2
            \/ Passed = 2 /\ total + Len(recvd) = 4
            \/ Passed = 6 /\ total + Len(recvd) = AddrLen
        BY <2>5, <3>1, <3>3 DEF InPlace, Passed
      <4>4. Passed + Len(recvd) + i <= ReplyLen
        BY <2>5, <4>2, <4>3 DEF ReplyLen
      <4> QED BY <4>1, <4>4 DEF DownAt
    <3> QED BY <3>1, <3>2, <3>3 DEF SInv, IInv, DownOK
  <2> QED BY <2>2, <2>3, <2>4, <2>5 DEF InSync
<1> QED BY <1>1, Invariant, PTL

\* A client is told "up" only when Antinat has connected to the destination it
\* asked for; whether data is forwarded is decided after that answer.
THEOREM UpIsTrue == Spec => []UpIsConnected
<1>1. SInv => UpIsConnected
  BY DEF SInv, IInv, TypeOK, ChildOK, UpIsConnected, Answered
<1> QED BY <1>1, Invariant, PTL

\* The connection and the buffer are held exactly as long as the state says.
THEOREM Held == Spec => []HeldAsStateSays
<1>1. SInv => HeldAsStateSays
  BY DEF SInv, IInv, TypeOK, ClientOK, HeldAsStateSays
<1> QED BY <1>1, Invariant, PTL

\* The user is told up at most once and first, closed only after up, and
\* nothing after an end or a free.
THEOREM Events == Spec => EventsInOrder
<1> DEFINE Ordered == /\ ~freed
                      /\ \/ told = "none" /\ told' \in {"up", "error"}
                         \/ told = "up" /\ told' \in {"error", "closed"}
<1>1. SInv /\ [Next]_vars => [Ordered]_told
  <2> SUFFICES ASSUME SInv, Next, told' # told PROVE Ordered
    BY DEF vars, client
  <2>1. \/ connector_handler_fail \/ send_handler_done \/ recv_handler_done
        \/ connection_handler_closed \/ connection_handler_error
    BY DEF Next, ClientStep, ServerStep, connector_handler, Send, output_handler_done,
       recv_handler_more, BSocksClient_Free, user_send, user_recv, conn_getChar, socks5_initial,
       socks5_resolve, conn_getSlab, socks5_resolve_ipv4, conn_waitForData, config_isallowed,
       socks5_cmd_conn, socks5_cmd_conn_fail, conn_forwardData, forward_up, forward_down,
       forward_close, client
  <2>2. Live /\ told \in {"none", "up"} /\ ~freed
    <3>1. Live
      BY <2>1 DEF connector_handler_fail, send_handler_done, recv_handler_done,
         connection_handler_closed, connection_handler_error
    <3> QED BY <3>1 DEF Live, SInv, IInv, TypeOK
  <2>3. \/ told' = "error"
        \/ told' = "closed" /\ state = "up"
        \/ told' = "up" /\ state = "received_header"
    BY <2>1 DEF connector_handler_fail, send_handler_done, recv_handler_done, received_hello,
       received_header, received_rest, connection_handler_closed, connection_handler_error,
       report_error, start_receive, Send, ClosedEvent
  <2>4. (told = "up" => state = "up") /\ (told = "none" => state # "up")
    BY DEF SInv, IInv, ClientOK
  <2> QED BY <2>2, <2>3, <2>4
<1> QED BY <1>1, Invariant, PTL DEF Spec, EventsInOrder

=============================================================================
