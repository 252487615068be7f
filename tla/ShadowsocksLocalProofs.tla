----------------------- MODULE ShadowsocksLocalProofs -----------------------
(***************************************************************************)
(* Proofs that IInv is an inductive invariant of ShadowsocksLocal and that  *)
(* its safety properties follow from it, for every buffer size, every       *)
(* stream length and every way the streams are cut into segments.           *)
(***************************************************************************)
EXTENDS ShadowsocksLocal, SequenceTheorems, TLAPS

-----------------------------------------------------------------------------
(* Streams of positions *)

\* A run of stream positions is a sequence of naturals of the expected length.
LEMMA PositionsType ==
  \A lo, hi \in Nat : lo <= hi =>
    /\ Positions(lo, hi) \in Seq(Nat)
    /\ Len(Positions(lo, hi)) = hi - lo
    /\ \A i \in 1 .. (hi - lo) : Positions(lo, hi)[i] = lo + i
BY DEF Positions

\* What recv() delivers next continues what it delivered before.
LEMMA PositionsConcat ==
  \A lo, mid, hi \in Nat : lo <= mid /\ mid <= hi =>
    Positions(lo, mid) \o Positions(mid, hi) = Positions(lo, hi)
BY DEF Positions

\* Stripping n positions off the front of a run leaves the rest of it.
LEMMA PositionsSuffix ==
  \A lo, hi, n \in Nat : lo + n <= hi =>
    SubSeq(Positions(lo, hi), n + 1, hi - lo) = Positions(lo + n, hi)
BY DEF Positions

-----------------------------------------------------------------------------
(* Lemmas on the stream and buffer operators. *)

\* Plain turns positions into bytes that were never encrypted.
LEMMA PlainType ==
  \A s \in Seq(Nat) : 
         /\ Plain(s) \in Seq(Bytes) /\ Len(Plain(s)) = Len(s)
         /\ \A i \in 1 .. Len(s) : Plain(s)[i] = Byte(s[i], 0)
BY DEF Plain, Byte, Bytes

\* Encrypt keeps the positions and counts one more encryption of each byte.
LEMMA EncryptType ==
  \A s \in Seq(Bytes) :
         /\ Encrypt(s) \in Seq(Bytes) /\ Len(Encrypt(s)) = Len(s)
         /\ \A i \in 1 .. Len(s) : Encrypt(s)[i] = Byte(s[i].pos, s[i].enc + 1)
<1> TAKE s \in Seq(Bytes)
<1>1. \A i \in 1 .. Len(s) : s[i] \in Bytes
  OBVIOUS
<1>2. \A i \in 1 .. Len(s) : Byte(s[i].pos, s[i].enc + 1) \in Bytes
  BY <1>1 DEF Byte, Bytes
<1>3. QED
  BY <1>2 DEF Encrypt

\* Plain works byte by byte.
LEMMA PlainConcat ==
  \A s, t \in Seq(Nat) : Plain(s \o t) = Plain(s) \o Plain(t)
BY DEF Plain, Byte

\* Encryption works byte by byte (the position of a byte in a call is immaterial).
LEMMA EncryptConcat ==
  \A s, t \in Seq(Bytes) : Encrypt(s \o t) = Encrypt(s) \o Encrypt(t)
BY DEF Encrypt, Byte, Bytes

\* recv() into a buffer whose idx is 0 appends to what it holds.
LEMMA ReceivedOK ==
  ASSUME NEW D, NEW b \in BufType(D), NEW s \in Seq(D), BufOK(b), b.idx = 0
  PROVE  /\ Received(b, s) = [data |-> b.data \o s, idx |-> 0, len |-> b.len + Len(s)]
         /\ Received(b, s) \in BufType(D)
         /\ BufOK(Received(b, s))
         /\ Pending(Received(b, s)) = b.data \o s
<1>1. b.data \in Seq(D) /\ b.len \in Nat /\ b.len = Len(b.data) /\ b = [data |-> b.data, idx |-> 0, len |-> b.len]
  BY DEF BufType, BufOK
<1>2. SubSeq(b.data, 1, b.len) = b.data
  BY <1>1
<1>3. Received(b, s) = [data |-> b.data \o s, idx |-> 0, len |-> b.len + Len(s)]
  BY <1>1, <1>2 DEF Received
<1>4. b.data \o s \in Seq(D) /\ Len(b.data \o s) = b.len + Len(s)
  BY <1>1
<1>5. SubSeq(b.data \o s, 1, b.len + Len(s)) = b.data \o s
  BY <1>4, SubSeqFull
<1>6. QED
  BY <1>1, <1>3, <1>4, <1>5 DEF BufType, BufOK, Pending

\* A slice up to the end splits at any point in between.
LEMMA SubSeqSplit ==
  ASSUME NEW D, NEW d \in Seq(D), NEW i \in Nat, NEW k \in Nat, i <= k, k <= Len(d)
  PROVE  /\ SubSeq(d, i + 1, k) \in Seq(D)
         /\ SubSeq(d, k + 1, Len(d)) \in Seq(D)
         /\ SubSeq(d, i + 1, k) \o SubSeq(d, k + 1, Len(d)) = SubSeq(d, i + 1, Len(d))
<1>1. /\ SubSeq(d, i + 1, k) \in Seq(D)
      /\ SubSeq(d, k + 1, Len(d)) \in Seq(D)
  OBVIOUS
<1>2. SubSeq(d, i + 1, k) \o SubSeq(d, k + 1, Len(d)) = SubSeq(d, i + 1, Len(d))
  <2>1. i + 1 \in 1 .. Len(d) + 1 /\ k \in (i + 1) - 1 .. Len(d) /\ Len(d) \in k .. Len(d)
    OBVIOUS
  <2>2. QED
    BY <2>1, ConcatAdjacentSubSeq
<1>3. QED
  BY <1>1, <1>2

\* The pending part of a buffer given by its fields.
LEMMA PendingOf ==
  \A d, i, l : Pending([data |-> d, idx |-> i, len |-> l]) = SubSeq(d, i + 1, i + l)
BY DEF Pending

\* The pending part of a well-formed buffer is a sequence, empty when len is 0.
LEMMA PendingType ==
  \A D : \A b \in BufType(D) : BufOK(b) =>
    Pending(b) \in Seq(D) /\ (b.len = 0 => Pending(b) = <<>>)
BY DEF BufType, BufOK, Pending

\* send() of n bytes: what was taken and what stays pending is what was pending.
LEMMA SentOK ==
  ASSUME NEW D, NEW b \in BufType(D), NEW n \in 0 .. b.len, BufOK(b)
  PROVE  /\ Sent(b, n, b.idx + n) \in BufType(D)
         /\ BufOK(Sent(b, n, b.idx + n))
         /\ Sent(b, n, b.idx + n).len = b.len - n
         /\ SubSeq(b.data, b.idx + 1, b.idx + n) \in Seq(D)
         /\ SubSeq(b.data, b.idx + 1, b.idx + n) \o Pending(Sent(b, n, b.idx + n)) = Pending(b)
<1> DEFINE d == b.data
           i == b.idx
           k == b.idx + n
<1>1. /\ d \in Seq(D) /\ i \in Nat /\ k \in Nat /\ i <= k /\ k <= Len(d)
      /\ i + b.len = Len(d) /\ b.len \in Nat /\ n \in Nat
  BY DEF BufType, BufOK
<1>2. /\ SubSeq(d, i + 1, k) \in Seq(D)
      /\ SubSeq(d, i + 1, k) \o SubSeq(d, k + 1, Len(d)) = SubSeq(d, i + 1, Len(d))
  <2> HIDE DEF d, i, k
  <2> QED BY <1>1, SubSeqSplit
<1>3. CASE n = b.len
  <2>1. Sent(b, n, k) = EmptyBuf
    BY <1>3 DEF Sent
  <2>2. Pending(EmptyBuf) = <<>> /\ EmptyBuf \in BufType(D) /\ BufOK(EmptyBuf) /\ EmptyBuf.len = 0
    BY DEF Pending, EmptyBuf, BufType, BufOK
  <2>3. SubSeq(d, i + 1, k) \o <<>> = SubSeq(d, i + 1, k)
    BY <1>2, ConcatEmptySeq
  <2>4. QED
    <3>1. Pending(b) = SubSeq(d, i + 1, k)
      BY <1>3 DEF Pending
    <3>2. EmptyBuf.len = b.len - n
      BY <1>1, <1>3, <2>2
    <3> QED BY <1>2, <2>1, <2>2, <2>3, <3>1, <3>2
<1>4. CASE n # b.len
  <2>1. Sent(b, n, k) = [data |-> d, idx |-> k, len |-> b.len - n]
    BY <1>4 DEF Sent
  <2>2. b.len - n \in Nat /\ k + (b.len - n) = Len(d) /\ b.len - n # 0
    BY <1>1, <1>4
  <2>3. /\ Sent(b, n, k) \in BufType(D)
        /\ BufOK(Sent(b, n, k))
        /\ Sent(b, n, k).len = b.len - n
    BY <1>1, <2>1, <2>2 DEF BufType, BufOK
  <2>4. Pending(Sent(b, n, k)) = SubSeq(d, k + 1, Len(d))
    BY <2>1, <2>2, PendingOf
  <2>5. QED
    BY <1>1, <1>2, <2>3, <2>4 DEF Pending
<1>5. QED
  BY <1>3, <1>4

\* What the remote must have been sent grows with what the client sent.
LEMMA WireType ==
  ASSUME direct \in BOOLEAN, NEW n \in Nat, NEW m \in Nat, HandshakeLen <= n, n <= m
  PROVE  /\ Wire(n) \in Seq(Bytes)
         /\ Wire(m) = Wire(n) \o (IF direct THEN Plain(Positions(n, m))
                                  ELSE Encrypt(Plain(Positions(n, m))))
<1> DEFINE h == HandshakeLen
           p == Positions(h, n)
           q == Positions(n, m)
<1>0. h \in Nat
  BY DEF HandshakeLen, GreetingLen, RequestLen
<1>1. p \in Seq(Nat) /\ q \in Seq(Nat) /\ Positions(h, m) = p \o q
  BY <1>0, PositionsType, PositionsConcat
<1>2. Plain(p) \in Seq(Bytes) /\ Plain(q) \in Seq(Bytes) /\ Plain(p \o q) = Plain(p) \o Plain(q)
  BY <1>1, PlainType, PlainConcat
<1>3. /\ Encrypt(Plain(p)) \in Seq(Bytes) /\ Encrypt(Plain(q)) \in Seq(Bytes)
      /\ Encrypt(Plain(p) \o Plain(q)) = Encrypt(Plain(p)) \o Encrypt(Plain(q))
  BY <1>2, EncryptType, EncryptConcat
<1>4. <<Byte(0, 1)>> \in Seq(Bytes)
  BY DEF Byte, Bytes
<1> HIDE DEF p, q
<1>5. CASE direct
  BY <1>1, <1>2, <1>5 DEF Wire, p, q
<1>6. CASE ~direct
  <2>1. Wire(n) = <<Byte(0, 1)>> \o Encrypt(Plain(p))
    BY <1>6 DEF Wire, p
  <2>2. Wire(m) = <<Byte(0, 1)>> \o (Encrypt(Plain(p)) \o Encrypt(Plain(q)))
    BY <1>6, <1>1, <1>2, <1>3 DEF Wire
  <2>3. Wire(m) = (<<Byte(0, 1)>> \o Encrypt(Plain(p))) \o Encrypt(Plain(q))
    BY <2>2, <1>3, <1>4, ConcatAssociative
  <2>4. Wire(n) \in Seq(Bytes)
    BY <2>1, <1>3, <1>4, ConcatProperties
  <2> QED BY <1>6, <2>1, <2>3, <2>4 DEF q
<1> QED BY <1>5, <1>6

\* A fresh buffer is well formed.
LEMMA EmptyBufOK ==
  \A D : EmptyBuf \in BufType(D) /\ BufOK(EmptyBuf)
BY DEF EmptyBuf, BufType, BufOK

-----------------------------------------------------------------------------
(* The initial state and one lemma per callback. *)

\* The invariant holds before the connection is accepted.
LEMMA InitIInv == Init => IInv
<1> SUFFICES ASSUME Init PROVE IInv
  OBVIOUS
<1>1. TypeOK
  <2>1. 0 \in 0 .. ClientLen /\ 0 \in 0 .. RemoteLen
    BY SizesAssumption
  <2>2. sbuf \in BufType(Nat) /\ rbuf \in BufType(Bytes)
    BY EmptyBufOK DEF Init
  <2>3. remote \in BOOLEAN /\ direct \in BOOLEAN /\ connected \in BOOLEAN
    BY DEF Init
  <2>4. /\ abuf \in Seq(Bytes) /\ chunk \in Seq(Nat) /\ replies \in Nat
        /\ toRemote \in Seq(Bytes) /\ toClient \in Seq(Nat)
    BY DEF Init
  <2>5. /\ req \in Requests /\ fate \in Fates /\ stage \in Stages
        /\ active \subseteq ServerWatchers \union RemoteWatchers
    BY DEF Init, Fates, Stages
  <2>6. recvd \in 0 .. ClientLen /\ rrecvd \in 0 .. RemoteLen
    BY <2>1 DEF Init
  <2> QED BY <2>2, <2>3, <2>4, <2>5, <2>6 DEF TypeOK
<1>2. BufOK(sbuf) /\ BufOK(rbuf)
  BY DEF Init, BufOK, EmptyBuf
<1>3. Positions(0, 0) = <<>>
  BY DEF Positions
<1>4. QED
  BY <1>1, <1>2, <1>3 DEF Init, IInv, WatchersOK, PairOK, HandshakeData, UploadOK, DownloadOK,
     UploadIntact, DownloadIntact, EofFlushed, EmptyBuf

\* Closing the pair keeps the invariant, and loses no data of a finished stream.
LEMMA CloseIInv ==
  ASSUME IInv, fate = "open", NEW why \in {"clientEof", "remoteEof", "failed"},
         why = "clientEof" => "server_recv" \in active,
         why = "remoteEof" => "remote_recv" \in active,
         CloseNow(why)
  PROVE  IInv'
<1> USE DEF CloseNow, Close, relayVars, IInv
<1>1. TypeOK'
  BY DEF TypeOK, Fates
<1>2. WatchersOK'
  BY DEF WatchersOK, PairOK, TypeOK, ServerWatchers, RemoteWatchers
<1>3. PairOK' /\ HandshakeData' /\ UploadOK' /\ DownloadOK' /\ UploadIntact' /\ DownloadIntact'
  BY DEF PairOK, HandshakeData, UploadOK, DownloadOK, UploadIntact, DownloadIntact
<1>4. BufOK(sbuf)' /\ BufOK(rbuf)'
  BY DEF BufOK
<1>5. EofFlushed'
  <2>1. CASE why = "clientEof" /\ connected
    <3>1. stage = "STREAM" /\ rbuf.len = 0 /\ "delayed_connect" \notin active
      BY <2>1 DEF WatchersOK, PairOK, UploadOK
    <3>2. Pending(rbuf) = <<>>
      BY <3>1, SubSeqEmpty DEF TypeOK, BufType, Pending
    <3>3. toRemote = Wire(recvd)
      BY <3>1, <3>2 DEF UploadIntact, TypeOK
    <3> QED BY <2>1, <3>3 DEF EofFlushed, Wire
  <2>2. CASE why = "remoteEof"
    <3>1. connected /\ "server_send" \notin active
      BY <2>2 DEF WatchersOK
    <3>2. toClient \o chunk = Positions(0, rrecvd)
      BY <3>1 DEF DownloadIntact, TypeOK
    <3> QED BY <2>2, <3>2 DEF EofFlushed
  <2>3. CASE why = "failed" \/ (why = "clientEof" /\ ~connected)
    BY <2>3 DEF EofFlushed
  <2> QED BY <2>1, <2>2, <2>3 DEF TypeOK
<1> QED BY <1>1, <1>2, <1>3, <1>4, <1>5

\* accept_cb keeps the invariant.
LEMMA AcceptIInv == ASSUME IInv, accept_cb PROVE IInv'
<1> USE DEF accept_cb, relayVars, IInv
<1>1. TypeOK'
  BY DEF TypeOK, Fates, ServerWatchers
<1>2. WatchersOK' /\ PairOK' /\ HandshakeData'
  BY DEF WatchersOK, PairOK, HandshakeData
<1>3. UploadOK' /\ DownloadOK' /\ UploadIntact' /\ DownloadIntact' /\ EofFlushed'
  BY DEF PairOK, UploadOK, DownloadOK, UploadIntact, DownloadIntact, EofFlushed
<1>4. BufOK(sbuf)' /\ BufOK(rbuf)'
  BY DEF BufOK
<1> QED BY <1>1, <1>2, <1>3, <1>4

\* What follows the SOCKS request in server->buf is the start of the payload.
LEMMA RestOfRequest ==
  ASSUME NEW r \in Nat, NEW b \in BufType(Nat), BufOK(b), b.idx = 0,
         r >= GreetingLen, b.data = Positions(GreetingLen, r), RequestLen <= b.len
  PROVE  /\ SubSeq(b.data, RequestLen + 1, b.len) = Positions(HandshakeLen, r)
         /\ SubSeq(b.data, RequestLen + 1, b.len) \in Seq(Nat)
         /\ Len(SubSeq(b.data, RequestLen + 1, b.len)) = b.len - RequestLen
         /\ b.len - RequestLen \in Nat /\ r >= HandshakeLen
<1> DEFINE g == GreetingLen
           q == RequestLen
<1>0. g \in Nat /\ q \in Nat /\ HandshakeLen = g + q
  BY DEF HandshakeLen, GreetingLen, RequestLen
<1> HIDE DEF g, q
<1>1. b.len \in Nat /\ b.len = Len(Positions(g, r)) /\ g <= r
  BY <1>0 DEF BufType, BufOK, g
<1>2. b.len = r - g
  BY <1>0, <1>1, PositionsType
<1>3. g + q <= r /\ b.len - q = r - (g + q) /\ r - (g + q) \in Nat
  BY <1>0, <1>1, <1>2 DEF q
<1>4. SubSeq(Positions(g, r), q + 1, r - g) = Positions(g + q, r)
  BY <1>0, <1>3, PositionsSuffix
<1>5. Positions(g + q, r) \in Seq(Nat) /\ Len(Positions(g + q, r)) = r - (g + q)
  <2>1. g + q \in Nat
    BY <1>0
  <2> QED BY <2>1, <1>3, PositionsType
<1> QED BY <1>0, <1>2, <1>3, <1>4, <1>5 DEF g, q

\* The request branch of server_recv_cb keeps the invariant in all its exits.
LEMMA RequestIInv ==
  ASSUME IInv, ServerReadable, stage # "STREAM",
         NEW st \in {"HANDSHAKE", "PARSE"},
         NEW b \in BufType(Nat), BufOK(b), b.idx = 0,
         recvd' \in 0 .. ClientLen, recvd' >= GreetingLen,
         b.data = Positions(GreetingLen, recvd'),
         HandleRequest(st, b),
         UNCHANGED <<chunk, rrecvd, toRemote, toClient>>
  PROVE  IInv'
<1> USE DEF ServerReadable, IInv
<1>a. active = {"server_recv"} /\ ~remote /\ ~connected
  BY DEF WatchersOK, PairOK, TypeOK
<1>1. CASE \/ WaitRequest(b)
           \/ HoldRequest(st, b)
           \/ AwaitHostname(st, b)
  <2>1. /\ UNCHANGED <<fate, active, remote, direct, connected, req, rbuf>>
        /\ sbuf' = b /\ stage' \in {"HANDSHAKE", "PARSE"}
        /\ replies' \in {replies, replies + 1}
        /\ abuf' \in {abuf, <<Byte(0, 0)>>}
    BY <1>1 DEF WaitRequest, HoldRequest, AwaitHostname, Reply
  <2>2. TypeOK'
    <3>0. <<Byte(0, 0)>> \in Seq(Bytes)
      BY DEF Byte, Bytes
    <3>1. abuf' \in Seq(Bytes)
      BY <2>1, <3>0 DEF TypeOK
    <3> QED BY <2>1, <3>1 DEF TypeOK, Stages
  <2>3. WatchersOK' /\ PairOK'
    BY <2>1, <1>a DEF WatchersOK, PairOK
  <2>4. HandshakeData'
    BY <2>1 DEF HandshakeData
  <2>5. UploadOK' /\ DownloadOK' /\ UploadIntact' /\ DownloadIntact' /\ EofFlushed'
    BY <2>1, <1>a DEF UploadOK, DownloadOK, UploadIntact, DownloadIntact, EofFlushed
  <2> QED BY <2>1, <2>2, <2>3, <2>4, <2>5 DEF BufOK
<1>2. CASE RejectRequest(st, b) \/ Underflow(st, b)
  <2>1. /\ fate' \in {"failed", "crashed"} /\ active' = {}
        /\ UNCHANGED <<stage, remote, direct, connected, req, sbuf, rbuf, abuf>>
        /\ replies' \in {replies, replies + 1}
    BY <1>2, <1>a DEF RejectRequest, Underflow, Close, Reply, ServerWatchers
  <2>2. TypeOK'
    BY <2>1 DEF TypeOK, Fates
  <2>3. WatchersOK' /\ PairOK'
    BY <2>1 DEF WatchersOK, PairOK
  <2>4. HandshakeData' /\ UploadOK' /\ DownloadOK'
    BY <2>1 DEF HandshakeData, UploadOK, DownloadOK
  <2>5. UploadIntact' /\ DownloadIntact' /\ EofFlushed'
    BY <2>1, <1>a DEF UploadIntact, DownloadIntact, EofFlushed
  <2> QED BY <2>1, <2>2, <2>3, <2>4, <2>5 DEF BufOK
<1>3. CASE StartStream(st, b)
  <2> DEFINE rest == SubSeq(b.data, RequestLen + 1, b.len)
             n == b.len - RequestLen
  <2>1. /\ rest = Positions(HandshakeLen, recvd') /\ rest \in Seq(Nat)
        /\ Len(rest) = n /\ n \in Nat /\ recvd' >= HandshakeLen
    <3>1. RequestLen <= b.len /\ recvd' \in Nat
      BY <1>3, SizesAssumption DEF StartStream
    <3> QED BY <3>1, RestOfRequest
  <2>4. Plain(rest) \in Seq(Bytes) /\ Len(Plain(rest)) = n
    BY <2>1, PlainType
  <2>5. /\ sbuf' = [data |-> rest, idx |-> 0, len |-> n]
        /\ rbuf' = [data |-> Plain(rest), idx |-> 0, len |-> n]
        /\ direct' \in BOOLEAN
        /\ abuf' = <<Byte(0, IF direct' THEN 0 ELSE 1)>>
        /\ remote' = TRUE /\ stage' = "STREAM" /\ fate' = "open"
        /\ replies' \in {replies, replies + 1}
        /\ active' = {"server_recv", "delayed_connect"}
        /\ UNCHANGED <<connected, req>>
    BY <1>3, <1>a DEF StartStream, Reply
  <2> HIDE DEF rest, n
  <2>6. TypeOK' /\ BufOK(sbuf)' /\ BufOK(rbuf)'
    <3>1. abuf' \in Seq(Bytes)
      BY <2>5 DEF Byte, Bytes
    <3>2. sbuf' \in BufType(Nat) /\ rbuf' \in BufType(Bytes) /\ BufOK(sbuf)' /\ BufOK(rbuf)'
      BY <2>1, <2>4, <2>5 DEF BufType, BufOK
    <3> QED BY <2>5, <3>1, <3>2 DEF TypeOK, Stages, ServerWatchers, Fates
  <2>7. WatchersOK' /\ PairOK' /\ HandshakeData'
    BY <2>5, <1>a DEF WatchersOK, PairOK, HandshakeData
  <2>8. UploadOK' /\ DownloadOK' /\ DownloadIntact' /\ EofFlushed'
    BY <2>1, <2>5, <1>a DEF UploadOK, DownloadOK, DownloadIntact, EofFlushed
  <2>9. UploadIntact'
    <3>1. Pending(rbuf)' = Plain(rest)
      <4>1. SubSeq(Plain(rest), 1, n) = Plain(rest)
        BY <2>4, SubSeqFull
      <4> QED BY <2>1, <2>5, <4>1, PendingOf DEF Pending
    <3>2. toRemote' = <<>>
      BY DEF HandshakeData
    <3> QED BY <2>1, <2>5, <3>1, <3>2 DEF UploadIntact
  <2> QED BY <2>6, <2>7, <2>8, <2>9
<1> QED BY <1>1, <1>2, <1>3 DEF HandleRequest

\* A recv() from the client delivers the next run of its positions.
LEMMA RecvUpToOK ==
  ASSUME IInv, NEW b, NEW to \in Breaks, RecvUpTo(b, to)
  PROVE  /\ recvd' \in 0 .. ClientLen /\ recvd' = to /\ recvd < to
         /\ Positions(recvd, to) \in Seq(Nat) /\ Len(Positions(recvd, to)) = to - recvd
         /\ to - recvd \in Nat
<1>1. recvd \in Nat /\ to \in Nat /\ recvd < to /\ recvd' = to /\ to \in 0 .. ClientLen
  BY BreaksAssumption, SizesAssumption DEF RecvUpTo, IInv, TypeOK
<1>2. to - recvd \in Nat /\ recvd <= to
  BY <1>1
<1>3. Positions(recvd, to) \in Seq(Nat) /\ Len(Positions(recvd, to)) = to - recvd
  BY <1>1, <1>2, PositionsType
<1> QED BY <1>1, <1>2, <1>3

\* server_recv_cb keeps the invariant in STAGE_INIT.
LEMMA RecvInitIInv == ASSUME IInv, server_recv_cb_init PROVE IInv'
<1>1. PICK to \in Breaks :
        /\ RecvUpTo(sbuf, to)
        /\ LET b == Received(sbuf, Positions(recvd, to)) IN
            \/ /\ b.len < GreetingLen
               /\ sbuf' = b
               /\ UNCHANGED <<fate, active, stage, remote, direct, connected, req,
                              rbuf, abuf, replies>>
            \/ /\ b.len >= GreetingLen
               /\ HandleRequest("HANDSHAKE",
                    [data |-> SubSeq(b.data, GreetingLen + 1, b.len),
                     idx  |-> 0, len |-> b.len - GreetingLen])
  BY DEF server_recv_cb_init
<1> DEFINE b == Received(sbuf, Positions(recvd, to))
<1>2. /\ recvd' \in 0 .. ClientLen /\ recvd' = to /\ recvd < to
      /\ Positions(recvd, to) \in Seq(Nat)
  BY <1>1, RecvUpToOK
<1>3. /\ stage = "INIT" /\ fate = "open" /\ ServerReadable
      /\ UNCHANGED <<chunk, rrecvd, toRemote, toClient>>
      /\ sbuf \in BufType(Nat) /\ BufOK(sbuf) /\ sbuf.idx = 0 /\ sbuf.data = Positions(0, recvd)
      /\ recvd \in Nat /\ to \in Nat
  BY <1>2 DEF server_recv_cb_init, ServerReadable, IInv, HandshakeData, TypeOK
<1>4. /\ b.data = Positions(0, to) /\ b.idx = 0 /\ b.len = to
      /\ b \in BufType(Nat) /\ BufOK(b)
  <2>1. b = [data |-> sbuf.data \o Positions(recvd, to), idx |-> 0, len |-> sbuf.len + Len(Positions(recvd, to))]
        /\ b \in BufType(Nat) /\ BufOK(b)
    BY <1>2, <1>3, ReceivedOK
  <2>2. sbuf.data \o Positions(recvd, to) = Positions(0, to)
    <3>1. 0 <= recvd /\ recvd <= to
      BY <1>2, <1>3
    <3>2. Positions(0, recvd) \o Positions(recvd, to) = Positions(0, to)
      <4> 0 \in Nat
        OBVIOUS
      <4> QED BY <1>3, <3>1, PositionsConcat
    <3> QED BY <1>3, <3>2
  <2>3. Len(Positions(0, to)) = to
    BY <1>3, PositionsType
  <2> HIDE DEF b
  <2> QED BY <2>1, <2>2, <2>3, <1>3 DEF BufOK, BufType
<1> HIDE DEF b
<1>5. CASE /\ sbuf' = b
           /\ UNCHANGED <<fate, active, stage, remote, direct, connected, req, rbuf, abuf, replies>>
  <2>1. TypeOK' /\ BufOK(sbuf)' /\ BufOK(rbuf)'
    BY <1>2, <1>3, <1>4, <1>5 DEF IInv, TypeOK, BufOK
  <2>2. WatchersOK' /\ PairOK' /\ HandshakeData' /\ DownloadOK'
    BY <1>2, <1>3, <1>4, <1>5 DEF IInv, WatchersOK, PairOK, HandshakeData, DownloadOK
  <2>3. UploadOK' /\ UploadIntact' /\ DownloadIntact' /\ EofFlushed'
    BY <1>3, <1>5 DEF IInv, PairOK, UploadOK, UploadIntact, DownloadIntact, EofFlushed
  <2> QED BY <2>1, <2>2, <2>3 DEF IInv
<1>6. CASE /\ b.len >= GreetingLen
           /\ HandleRequest("HANDSHAKE",
                    [data |-> SubSeq(b.data, GreetingLen + 1, b.len),
                     idx  |-> 0, len |-> b.len - GreetingLen])
  <2> DEFINE c == [data |-> SubSeq(b.data, GreetingLen + 1, b.len),
                     idx  |-> 0, len |-> b.len - GreetingLen]
  <2>1. to >= GreetingLen /\ c.data = Positions(GreetingLen, to) /\ c.len = to - GreetingLen /\ c.idx = 0
    <3>1. SubSeq(Positions(0, to), 2 + 1, to - 0) = Positions(0 + 2, to)
      BY <1>3, <1>4, <1>6, PositionsSuffix DEF GreetingLen
    <3> QED BY <3>1, <1>3, <1>4, <1>6 DEF GreetingLen
  <2>2. c.data \in Seq(Nat) /\ Len(c.data) = to - GreetingLen /\ to - GreetingLen \in Nat
    <3>1. 2 <= to /\ c.data = Positions(2, to)
      BY <2>1 DEF GreetingLen
    <3>2. Positions(2, to) \in Seq(Nat) /\ Len(Positions(2, to)) = to - 2
      BY <1>3, <3>1, PositionsType
    <3> HIDE DEF c
    <3> QED BY <1>3, <3>1, <3>2 DEF GreetingLen
  <2>3. c \in BufType(Nat) /\ BufOK(c)
    BY <2>1, <2>2 DEF BufType, BufOK
  <2>4. HandleRequest("HANDSHAKE", c)
    BY <1>6
  <2> HIDE DEF c
  <2> QED BY <1>2, <1>3, <2>1, <2>3, <2>4, RequestIInv
<1> QED BY <1>1, <1>5, <1>6 DEF b

\* server_recv_cb keeps the invariant in STAGE_HANDSHAKE and STAGE_PARSE.
LEMMA RecvRequestIInv == ASSUME IInv, server_recv_cb_request PROVE IInv'
<1>1. PICK to \in Breaks :
        /\ RecvUpTo(sbuf, to)
        /\ HandleRequest(stage, Received(sbuf, Positions(recvd, to)))
  BY DEF server_recv_cb_request
<1> DEFINE b == Received(sbuf, Positions(recvd, to))
<1>2. /\ recvd' \in 0 .. ClientLen /\ recvd' = to /\ recvd < to
      /\ Positions(recvd, to) \in Seq(Nat)
  BY <1>1, RecvUpToOK
<1>3. /\ stage \in {"HANDSHAKE", "PARSE"} /\ fate = "open" /\ ServerReadable
      /\ UNCHANGED <<chunk, rrecvd, toRemote, toClient>>
      /\ sbuf \in BufType(Nat) /\ BufOK(sbuf) /\ sbuf.idx = 0
      /\ sbuf.data = Positions(GreetingLen, recvd) /\ recvd >= GreetingLen
      /\ recvd \in Nat /\ to \in Nat
  BY <1>2 DEF server_recv_cb_request, ServerReadable, IInv, HandshakeData, TypeOK
<1>4. /\ b = [data |-> sbuf.data \o Positions(recvd, to), idx |-> 0,
              len |-> sbuf.len + Len(Positions(recvd, to))]
      /\ b \in BufType(Nat) /\ BufOK(b)
  BY <1>2, <1>3, ReceivedOK
<1>5. sbuf.data \o Positions(recvd, to) = Positions(GreetingLen, to)
  <2>1. 2 <= recvd /\ recvd <= to
    BY <1>2, <1>3 DEF GreetingLen
  <2>2. Positions(2, recvd) \o Positions(recvd, to) = Positions(2, to)
    BY <1>3, <2>1, PositionsConcat
  <2> QED BY <1>3, <2>2 DEF GreetingLen
<1>6. HandleRequest(stage, b)
  BY <1>1
<1>7. b.idx = 0 /\ b.data = Positions(GreetingLen, recvd') /\ recvd' >= GreetingLen
  <2> HIDE DEF b
  <2> QED BY <1>2, <1>3, <1>4, <1>5 DEF GreetingLen
<1> HIDE DEF b
<1> QED BY <1>2, <1>3, <1>4, <1>6, <1>7, RequestIInv

\* Concatenation of streams is associative.
LEMMA Assoc ==
  /\ \A s, t, u \in Seq(Bytes) : (s \o t) \o u = s \o (t \o u)
  /\ \A s, t, u \in Seq(Nat) : (s \o t) \o u = s \o (t \o u)
BY ConcatAssociative

\* Which phase a running watcher proves the pair to be in.
LEMMA Phases ==
  ASSUME IInv, fate = "open"
  PROVE  /\ "remote_send" \in active => stage = "STREAM"
         /\ "remote_send" \in active /\ ~connected =>
              active = {"remote_send", "send_timer"} \/ active = {"remote_send"}
         /\ "remote_send" \in active /\ connected =>
              \E down \in {"remote_recv", "server_send"} : active = {"recv_timer", "remote_send", down}
         /\ "server_send" \in active => connected /\
              \E up \in {"server_recv", "remote_send"} : active = {"recv_timer", up, "server_send"}
         /\ "remote_recv" \in active => connected /\
              \E up \in {"server_recv", "remote_send"} : active = {"recv_timer", up, "remote_recv"}
<1> USE DEF IInv, WatchersOK
<1>1. CASE ~connected
  BY <1>1
<1>2. CASE connected
  <2>1. stage = "STREAM"
    BY <1>2 DEF PairOK
  <2>2. PICK up \in {"server_recv", "remote_send"}, down \in {"remote_recv", "server_send"} :
          active = {"recv_timer", up, down}
    BY <1>2
  <2> QED BY <1>2, <2>1, <2>2
<1> QED BY <1>1, <1>2 DEF TypeOK

\* The encrypted buffer is well formed: the header in front, every byte once.
LEMMA OutgoingOK ==
  ASSUME IInv, NEW b \in BufType(Bytes), BufOK(b), b.idx = 0
  PROVE  /\ Outgoing(b) \in BufType(Bytes) /\ BufOK(Outgoing(b)) /\ Outgoing(b).idx = 0
         /\ Outgoing(b).data = IF direct THEN b.data ELSE abuf \o Encrypt(b.data)
<1>1. /\ b.data \in Seq(Bytes) /\ b.len = Len(b.data) /\ abuf \in Seq(Bytes) /\ direct \in BOOLEAN
  BY DEF IInv, TypeOK, BufType, BufOK
<1>2. CASE direct
  BY <1>1, <1>2 DEF Outgoing
<1>3. CASE ~direct
  <2>1. SubSeq(b.data, 1, b.len) = b.data
    BY <1>1, SubSeqFull
  <2>2. Encrypt(b.data) \in Seq(Bytes)
    BY <1>1, EncryptType
  <2>3. abuf \o Encrypt(b.data) \in Seq(Bytes)
    BY <1>1, <2>2, ConcatProperties
  <2>4. Outgoing(b) = [data |-> abuf \o Encrypt(b.data), idx |-> 0,
                       len |-> Len(abuf \o Encrypt(b.data))]
    BY <1>3, <2>1 DEF Outgoing
  <2> QED BY <1>3, <2>3, <2>4 DEF BufType, BufOK
<1> QED BY <1>1, <1>2, <1>3

\* A failed encryption, connect() or send() keeps the invariant.
LEMMA StreamFailureIInv ==
  ASSUME IInv, fate = "open", stage = "STREAM", recvd' \in 0 .. ClientLen, StreamFailure
  PROVE  IInv'
<1> USE DEF StreamFailure, Close, IInv
<1>1. TypeOK' /\ BufOK(sbuf)' /\ BufOK(rbuf)'
  BY DEF TypeOK, Fates, BufOK
<1>2. WatchersOK' /\ PairOK'
  BY DEF WatchersOK, PairOK, TypeOK, ServerWatchers, RemoteWatchers
<1>3. HandshakeData' /\ UploadOK' /\ DownloadOK' /\ UploadIntact' /\ DownloadIntact' /\ EofFlushed'
  BY DEF HandshakeData, UploadOK, DownloadOK, UploadIntact, DownloadIntact, EofFlushed
<1> QED BY <1>1, <1>2, <1>3

\* A pass of STAGE_STREAM keeps the invariant, whatever the socket accepts.
LEMMA StreamPassIInv ==
  ASSUME IInv, fate = "open", stage = "STREAM", "server_recv" \in active,
         NEW b \in BufType(Bytes), BufOK(b), b.idx = 0,
         recvd' \in 0 .. ClientLen, recvd' >= HandshakeLen,
         toRemote \o Outgoing(b).data = Wire(recvd'),
         StreamPass(b)
  PROVE  IInv'
<1> DEFINE out == Outgoing(b)
<1>1. /\ out \in BufType(Bytes) /\ BufOK(out) /\ out.idx = 0
      /\ out.data \in Seq(Bytes) /\ out.len = Len(out.data) /\ out.len \in Nat
      /\ toRemote \in Seq(Bytes) /\ toRemote \o out.data = Wire(recvd')
  <2>1. out \in BufType(Bytes) /\ BufOK(out) /\ out.idx = 0
    BY OutgoingOK
  <2> HIDE DEF out
  <2>2. out.data \in Seq(Bytes) /\ out.len = Len(out.data) /\ out.len \in Nat
    BY <2>1 DEF BufType, BufOK
  <2> QED BY <2>1, <2>2 DEF IInv, TypeOK, out
<1>2. /\ UNCHANGED <<req, fate, stage, remote, direct, connected, sbuf, chunk,
                      rrecvd, replies, toClient>>
      /\ abuf' = IF direct THEN abuf ELSE <<>>
      /\ IF connected THEN SendToRemote(out) ELSE ConnectRemote(out)
  BY DEF StreamPass
<1> HIDE DEF out
<1>3. Pending(out) = out.data
  BY <1>1, SubSeqFull DEF Pending
\* What a pass that hands n bytes to the socket leaves behind.
<1>4. ASSUME NEW n \in 0 .. out.len
      PROVE  /\ Sent(out, n, n) \in BufType(Bytes) /\ BufOK(Sent(out, n, n))
             /\ Sent(out, n, n).len = out.len - n
             /\ SubSeq(out.data, 1, n) \in Seq(Bytes)
             /\ toRemote \o SubSeq(out.data, 1, n) \in Seq(Bytes)
             /\ (toRemote \o SubSeq(out.data, 1, n)) \o Pending(Sent(out, n, n)) = Wire(recvd')
             /\ n = out.len => Sent(out, n, n) = EmptyBuf
  <2>1. /\ Sent(out, n, out.idx + n) \in BufType(Bytes)
        /\ BufOK(Sent(out, n, out.idx + n))
        /\ Sent(out, n, out.idx + n).len = out.len - n
        /\ SubSeq(out.data, out.idx + 1, out.idx + n) \in Seq(Bytes)
        /\ SubSeq(out.data, out.idx + 1, out.idx + n) \o Pending(Sent(out, n, out.idx + n)) = Pending(out)
    BY <1>1, SentOK
  <2>2. out.idx + n = n /\ out.idx + 1 = 1
    BY <1>1
  <2> DEFINE s == SubSeq(out.data, 1, n)
             p == Pending(Sent(out, n, n))
  <2>3. s \in Seq(Bytes) /\ s \o p = out.data
    BY <2>1, <2>2, <1>3
  <2>4. p \in Seq(Bytes)
    <3>1. \A c \in BufType(Bytes) : BufOK(c) => Pending(c) \in Seq(Bytes)
      BY DEF BufType, BufOK, Pending
    <3> QED BY <3>1, <2>1, <2>2
  <2>5. (toRemote \o s) \o p = toRemote \o (s \o p)
    <3> HIDE DEF s, p
    <3> QED BY <1>1, <2>3, <2>4, Assoc
  <2>6. toRemote \o s \in Seq(Bytes)
    <3> HIDE DEF s
    <3> QED BY <1>1, <2>3, ConcatProperties
  <2>7. n = out.len => Sent(out, n, n) = EmptyBuf
    BY DEF Sent
  <2> QED BY <2>1, <2>2, <2>3, <2>5, <2>6, <2>7, <1>1
\* The state after a pass, whichever branch it took.
<1>5. /\ rbuf' \in BufType(Bytes) /\ BufOK(rbuf)' /\ toRemote' \in Seq(Bytes)
      /\ toRemote' \o Pending(rbuf)' = Wire(recvd')
      /\ \/ /\ connected /\ rbuf' = EmptyBuf /\ active' = active \ {"delayed_connect"}
         \/ connected /\ rbuf'.len > 0 /\ PauseReading({})
         \/ ~connected /\ PauseReading({"send_timer"})
         \/ ~connected /\ FastOpen /\ PauseReading({})
  <2>1. CASE connected
    <3>1. PICK n \in 0 .. out.len :
            /\ rbuf' = Sent(out, n, n)
            /\ toRemote' = toRemote \o SubSeq(out.data, 1, n)
            /\ IF n = out.len THEN active' = active \ {"delayed_connect"}
                              ELSE PauseReading({})
      BY <1>2, <2>1 DEF SendToRemote
    <3>2. n # out.len => out.len - n > 0
      BY <1>1
    <3> QED BY <1>4, <2>1, <3>1, <3>2 DEF Pending, BufOK
  <2>2. CASE ~connected
    <3>1. CASE /\ rbuf' = [out EXCEPT !.idx = 0] /\ UNCHANGED toRemote
               /\ \/ PauseReading({"send_timer"})
                  \/ FastOpen /\ PauseReading({})
      <4>1. rbuf' = out
        BY <1>1, <3>1 DEF BufType
      <4> QED BY <1>1, <1>3, <2>2, <3>1, <4>1 DEF Pending, BufOK
    <3>2. CASE /\ \E n \in 1 .. out.len :
                    /\ rbuf' = Sent(out, n, n)
                    /\ toRemote' = toRemote \o SubSeq(out.data, 1, n)
               /\ PauseReading({"send_timer"})
      <4>1. PICK n \in 1 .. out.len :
              /\ rbuf' = Sent(out, n, n)
              /\ toRemote' = toRemote \o SubSeq(out.data, 1, n)
        BY <3>2
      <4>2. n \in 0 .. out.len
        BY <1>1
      <4> QED BY <1>4, <2>2, <3>2, <4>1, <4>2 DEF Pending, BufOK
    <3> QED BY <1>2, <2>2, <3>1, <3>2 DEF ConnectRemote
  <2> QED BY <2>1, <2>2 DEF IInv, TypeOK
<1>6. WatchersOK' /\ "delayed_connect" \notin active' /\ active' \subseteq ServerWatchers \union RemoteWatchers
  <2>1. CASE connected
    <3>1. PICK down \in {"remote_recv", "server_send"} : active = {"recv_timer", "server_recv", down}
      BY <2>1 DEF IInv, WatchersOK
    <3>2. active' = active \/ active' = {"recv_timer", "remote_send", down}
      BY <1>5, <2>1, <3>1 DEF PauseReading
    <3> QED BY <1>2, <2>1, <3>1, <3>2 DEF WatchersOK, ServerWatchers, RemoteWatchers
  <2>2. CASE ~connected
    <3>1. active = {"server_recv", "delayed_connect"}
      BY <2>2 DEF IInv, WatchersOK
    <3>2. active' = {"remote_send", "send_timer"} \/ (FastOpen /\ active' = {"remote_send"})
      BY <1>5, <2>2, <3>1 DEF PauseReading
    <3> QED BY <1>2, <2>2, <3>2 DEF WatchersOK, ServerWatchers, RemoteWatchers
  <2> QED BY <2>1, <2>2 DEF IInv, TypeOK
<1>7. TypeOK' /\ BufOK(sbuf)' /\ BufOK(rbuf)'
  <2>1. abuf' \in Seq(Bytes)
    BY <1>2 DEF IInv, TypeOK
  <2> QED BY <1>2, <1>5, <1>6, <2>1 DEF IInv, TypeOK, BufOK
<1>8. PairOK' /\ HandshakeData' /\ EofFlushed'
  BY <1>2 DEF IInv, PairOK, HandshakeData, EofFlushed
<1>9. UploadOK'
  <2>1. "server_recv" \in active' => connected /\ rbuf' = EmptyBuf
    BY <1>5 DEF PauseReading
  <2>2. "remote_send" \in active' /\ connected => rbuf'.len > 0
    <3>1. CASE connected /\ active' = active \ {"delayed_connect"}
      <4>1. PICK down \in {"remote_recv", "server_send"} : active = {"recv_timer",
     "server_recv", down}
        BY <3>1 DEF IInv, WatchersOK
      <4> QED BY <3>1, <4>1
    <3> QED BY <1>5, <3>1
  <2>3. ~direct => abuf' = <<>>
    BY <1>2
  <2> QED BY <1>2, <1>6, <2>1, <2>2, <2>3 DEF UploadOK, EmptyBuf
<1>10. DownloadOK' /\ DownloadIntact'
  <2>1. "server_send" \in active' <=> "server_send" \in active
    BY <1>5 DEF PauseReading
  <2> QED BY <1>2, <2>1 DEF IInv, DownloadOK, DownloadIntact, Pending
<1>11. UploadIntact'
  BY <1>2, <1>5, <1>6 DEF UploadIntact, Wire
<1> QED BY <1>7, <1>6, <1>8, <1>9, <1>10, <1>11 DEF IInv

\* server_recv_cb keeps the invariant in STAGE_STREAM.
LEMMA RecvStreamIInv == ASSUME IInv, server_recv_cb_stream PROVE IInv'
<1>1. PICK to \in Breaks :
        /\ RecvUpTo(rbuf, to)
        /\ \/ StreamPass(Received(rbuf, Plain(Positions(recvd, to))))
           \/ StreamFailure
  BY DEF server_recv_cb_stream
<1> DEFINE new == Plain(Positions(recvd, to))
           b == Received(rbuf, new)
<1>2. /\ recvd' \in 0 .. ClientLen /\ recvd' = to /\ recvd < to
      /\ Positions(recvd, to) \in Seq(Nat)
  BY <1>1, RecvUpToOK
<1>3. /\ stage = "STREAM" /\ fate = "open" /\ "server_recv" \in active
      /\ rbuf \in BufType(Bytes) /\ BufOK(rbuf) /\ rbuf.idx = 0
      /\ recvd \in Nat /\ to \in Nat /\ recvd <= to
      /\ recvd >= HandshakeLen
  BY <1>2 DEF server_recv_cb_stream, ServerReadable, IInv, UploadOK, TypeOK
<1>4. new \in Seq(Bytes)
  BY <1>2, PlainType
<1>5. CASE StreamFailure
  BY <1>2, <1>3, <1>5, StreamFailureIInv
<1>6. CASE StreamPass(b)
  <2>1. /\ b \in BufType(Bytes) /\ BufOK(b) /\ b.idx = 0 /\ b.data = rbuf.data \o new
    <3> HIDE DEF new
    <3>1. /\ b = [data |-> rbuf.data \o new, idx |-> 0, len |-> rbuf.len + Len(new)]
          /\ b \in BufType(Bytes) /\ BufOK(b)
      BY <1>3, <1>4, ReceivedOK
    <3> HIDE DEF b
    <3> QED BY <3>1
  <2>2. Outgoing(b).data = IF direct THEN b.data ELSE abuf \o Encrypt(b.data)
    <3> HIDE DEF b
    <3> QED BY <2>1, OutgoingOK
  <2>3. toRemote \o Outgoing(b).data = Wire(to)
    <3>1. CASE "delayed_connect" \in active
      <4>1. ~connected /\ toRemote = <<>> /\ Pending(rbuf) = Plain(Positions(HandshakeLen,
     recvd))
            /\ (~direct => abuf = <<Byte(0, 1)>>)
        BY <1>3, <3>1 DEF IInv, UploadIntact, UploadOK, WatchersOK
      <4>2. rbuf.data = Plain(Positions(HandshakeLen, recvd))
        <5>1. Pending(rbuf) = rbuf.data
          BY <1>3, SubSeqFull DEF Pending, BufType, BufOK
        <5> QED BY <4>1, <5>1
      <4>3. b.data = Plain(Positions(HandshakeLen, to))
        <5> DEFINE h == HandshakeLen
        <5>1. h \in Nat /\ h <= recvd
          BY <1>3 DEF HandshakeLen, GreetingLen, RequestLen
        <5> HIDE DEF h
        <5>2. Positions(h, recvd) \in Seq(Nat)
          BY <5>1, <1>3, PositionsType
        <5>3. Positions(h, recvd) \o Positions(recvd, to) = Positions(h, to)
          BY <5>1, <1>3, PositionsConcat
        <5>4. Plain(Positions(h, recvd)) \o Plain(Positions(recvd, to)) = Plain(Positions(h,
     to))
          BY <5>2, <5>3, <1>2, PlainConcat
        <5> QED BY <5>4, <2>1, <4>2 DEF h
      <4>4. Outgoing(b).data = Wire(to)
        BY <2>2, <4>1, <4>3 DEF Wire
      <4>5. Wire(to) \in Seq(Bytes)
        <5>1. to >= HandshakeLen /\ to <= to
          BY <1>3 DEF HandshakeLen, GreetingLen, RequestLen
        <5> QED BY <1>3, <5>1, WireType DEF IInv, TypeOK
      <4> QED BY <4>1, <4>4, <4>5, ConcatEmptySeq
    <3>2. CASE "delayed_connect" \notin active
      <4>1. connected /\ rbuf.len = 0 /\ (~direct => abuf = <<>>)
            /\ toRemote \o Pending(rbuf) = Wire(recvd)
        BY <1>3, <3>2 DEF IInv, UploadIntact, UploadOK, WatchersOK
      <4>2. rbuf.data = <<>> /\ Pending(rbuf) = <<>>
        BY <1>3, <4>1, SubSeqEmpty DEF Pending, BufType, BufOK
      <4>3. toRemote = Wire(recvd) /\ toRemote \in Seq(Bytes)
        BY <4>1, <4>2, ConcatEmptySeq DEF IInv, TypeOK
      <4>4. b.data = new
        BY <2>1, <4>2, <1>4, ConcatEmptySeq
      <4>5. Outgoing(b).data = IF direct THEN new ELSE Encrypt(new)
        <5>1. Encrypt(new) \in Seq(Bytes)
          BY <1>4, EncryptType
        <5> QED BY <2>2, <4>1, <4>4, <5>1, ConcatEmptySeq DEF IInv, TypeOK
      <4>6. Wire(to) = Wire(recvd) \o (IF direct THEN new ELSE Encrypt(new))
        BY <1>3, WireType DEF IInv, TypeOK
      <4> QED BY <4>3, <4>5, <4>6
    <3> QED BY <3>1, <3>2
  <2>4. recvd' >= HandshakeLen
    BY <1>2, <1>3 DEF HandshakeLen, GreetingLen, RequestLen
  <2> HIDE DEF b
  <2> QED BY <1>2, <1>3, <1>6, <2>1, <2>3, <2>4, StreamPassIInv
<1> QED BY <1>1, <1>5, <1>6

\* delayed_connect_cb keeps the invariant.
LEMMA DelayedConnectIInv == ASSUME IInv, delayed_connect_cb PROVE IInv'
<1>1. /\ fate = "open" /\ "delayed_connect" \in active /\ UNCHANGED recvd
      /\ StreamPass(rbuf) \/ StreamFailure
  BY DEF delayed_connect_cb
<1>2. stage = "STREAM" /\ ~connected /\ "server_recv" \in active
  BY <1>1 DEF IInv, WatchersOK, PairOK
<1>3. /\ recvd' \in 0 .. ClientLen /\ recvd' >= HandshakeLen /\ recvd' = recvd
      /\ rbuf \in BufType(Bytes) /\ BufOK(rbuf) /\ rbuf.idx = 0
      /\ toRemote = <<>> /\ Pending(rbuf) = Plain(Positions(HandshakeLen, recvd))
      /\ ~direct => abuf = <<Byte(0, 1)>>
  BY <1>1, <1>2 DEF IInv, TypeOK, UploadOK, UploadIntact
<1>4. Outgoing(rbuf).data = Wire(recvd')
  <2>1. Pending(rbuf) = rbuf.data
    BY <1>3, SubSeqFull DEF Pending, BufType, BufOK
  <2>2. Outgoing(rbuf).data = IF direct THEN rbuf.data ELSE abuf \o Encrypt(rbuf.data)
    BY <1>3, OutgoingOK
  <2> QED BY <1>3, <2>1, <2>2 DEF Wire
<1>5. toRemote \o Outgoing(rbuf).data = Wire(recvd')
  <2>1. Outgoing(rbuf).data \in Seq(Bytes)
    BY <1>3, OutgoingOK DEF BufType
  <2> QED BY <1>3, <1>4, <2>1, ConcatEmptySeq
<1> QED BY <1>1, <1>2, <1>3, <1>5, StreamPassIInv, StreamFailureIInv

\* remote_send_cb keeps the invariant, on the connect and on every later send().
LEMMA RemoteSendIInv == ASSUME IInv, remote_send_cb PROVE IInv'
<1> DEFINE act == IF connected THEN active ELSE Established
           resumed == (act \ {"remote_send"}) \union {"server_recv"}
<1>1. /\ fate = "open" /\ "remote_send" \in active /\ connected' = TRUE
      /\ UNCHANGED <<req, fate, stage, remote, direct, abuf, sbuf, chunk, recvd,
                     rrecvd, replies, toClient>>
      /\ \/ /\ ~connected /\ rbuf.len = 0
            /\ active' = resumed
            /\ UNCHANGED <<rbuf, toRemote>>
         \/ \E n \in 0 .. rbuf.len :
            /\ rbuf.len # 0
            /\ rbuf' = Sent(rbuf, n, rbuf.idx + n)
            /\ toRemote' = toRemote \o SubSeq(rbuf.data, rbuf.idx + 1, rbuf.idx + n)
            /\ active' = IF n = rbuf.len THEN resumed ELSE act
  BY DEF remote_send_cb, RemoteWritable
<1>2. /\ stage = "STREAM" /\ "server_recv" \notin active /\ "delayed_connect" \notin active
      /\ rbuf \in BufType(Bytes) /\ BufOK(rbuf) /\ toRemote \in Seq(Bytes)
      /\ toRemote \o Pending(rbuf) = Wire(recvd)
  <2>1. stage = "STREAM" /\ "server_recv" \notin active /\ "delayed_connect" \notin active
    BY <1>1, Phases DEF IInv, TypeOK
  <2> QED BY <1>1, <2>1 DEF IInv, TypeOK, UploadIntact
<1>3. \E down \in {"remote_recv", "server_send"} :
        /\ act = {"recv_timer", "remote_send", down}
        /\ resumed = {"recv_timer", "server_recv", down}
        /\ ~connected => down = "remote_recv"
        /\ connected => ("server_send" \in active <=> down = "server_send")
  <2>1. CASE connected
    <3>1. PICK down \in {"remote_recv", "server_send"} : active = {"recv_timer", "remote_send", down}
      BY <1>1, <2>1, Phases
    <3> QED BY <2>1, <3>1
  <2>2. CASE ~connected
    <3>1. active = {"remote_send", "send_timer"} \/ active = {"remote_send"}
      BY <1>1, <2>2, Phases
    <3>2. act = {"recv_timer", "remote_send", "remote_recv"}
      BY <2>2, <3>1 DEF Established
    <3> QED BY <2>2, <3>2
  <2> QED BY <2>1, <2>2 DEF IInv, TypeOK
<1> HIDE DEF act, resumed
<1>4. /\ rbuf' \in BufType(Bytes) /\ BufOK(rbuf)' /\ toRemote' \in Seq(Bytes)
      /\ toRemote' \o Pending(rbuf)' = Wire(recvd)
      /\ \/ active' = resumed /\ rbuf'.len = 0 /\ rbuf'.idx = 0
         \/ active' = act /\ rbuf'.len > 0
  <2>1. CASE ~connected /\ rbuf.len = 0 /\ active' = resumed /\ UNCHANGED <<rbuf, toRemote>>
    BY <1>2, <2>1 DEF BufOK, Pending
  <2>2. CASE \E n \in 0 .. rbuf.len :
               /\ rbuf.len # 0
               /\ rbuf' = Sent(rbuf, n, rbuf.idx + n)
               /\ toRemote' = toRemote \o SubSeq(rbuf.data, rbuf.idx + 1, rbuf.idx + n)
               /\ active' = IF n = rbuf.len THEN resumed ELSE act
    <3>1. PICK n \in 0 .. rbuf.len :
            /\ rbuf' = Sent(rbuf, n, rbuf.idx + n)
            /\ toRemote' = toRemote \o SubSeq(rbuf.data, rbuf.idx + 1, rbuf.idx + n)
            /\ active' = IF n = rbuf.len THEN resumed ELSE act
      BY <2>2
    <3> DEFINE s == SubSeq(rbuf.data, rbuf.idx + 1, rbuf.idx + n)
               p == Pending(Sent(rbuf, n, rbuf.idx + n))
    <3>2. /\ rbuf' \in BufType(Bytes) /\ BufOK(Sent(rbuf, n, rbuf.idx + n)) /\ rbuf'.len = rbuf.len - n
          /\ s \in Seq(Bytes) /\ s \o p = Pending(rbuf)
      BY <1>2, <3>1, SentOK
    <3>3. BufOK(rbuf)' /\ Pending(rbuf)' = p
      BY <3>1, <3>2 DEF BufOK, Pending
    <3>4. p \in Seq(Bytes)
      BY <3>1, <3>2, PendingType
    <3>5. toRemote' = toRemote \o s
      BY <3>1
    <3> HIDE DEF s, p
    <3>6. toRemote' \in Seq(Bytes) /\ toRemote' \o p = toRemote \o Pending(rbuf)
      <4>1. toRemote \o s \in Seq(Bytes)
        BY <1>2, <3>2, ConcatProperties
      <4>2. (toRemote \o s) \o p = toRemote \o (s \o p)
        BY <1>2, <3>2, <3>4, Assoc
      <4> QED BY <3>2, <3>5, <4>1, <4>2
    <3>7. \/ active' = resumed /\ rbuf'.len = 0 /\ rbuf'.idx = 0
          \/ active' = act /\ rbuf'.len > 0
      BY <1>2, <3>1, <3>2, <3>3 DEF BufOK, BufType
    <3> QED BY <1>2, <3>2, <3>3, <3>6, <3>7
  <2> QED BY <1>1, <2>1, <2>2
<1>5. WatchersOK' /\ PairOK' /\ HandshakeData' /\ EofFlushed'
  BY <1>1, <1>2, <1>3, <1>4 DEF IInv, WatchersOK, PairOK, HandshakeData, EofFlushed
<1>6. TypeOK' /\ BufOK(sbuf)'
  <2>1. active' \subseteq ServerWatchers \union RemoteWatchers
    BY <1>3, <1>4 DEF ServerWatchers, RemoteWatchers
  <2> QED BY <1>1, <1>4, <2>1 DEF IInv, TypeOK, BufOK
<1>7. UploadOK'
  BY <1>1, <1>2, <1>3, <1>4 DEF IInv, UploadOK
<1>8. UploadIntact'
  BY <1>1, <1>3, <1>4 DEF UploadIntact, Wire
<1>9. DownloadOK' /\ DownloadIntact'
  <2>1. CASE connected
    <3>1. "server_send" \in active' <=> "server_send" \in active
      BY <1>3, <1>4, <2>1
    <3> QED BY <1>1, <2>1, <3>1 DEF IInv, DownloadOK, DownloadIntact, Pending
  <2>2. CASE ~connected
    <3>1. "server_send" \notin active'
      BY <1>3, <1>4, <2>2
    <3>2. rrecvd = 0 /\ chunk = <<>> /\ toClient = <<>> /\ Positions(0, 0) = <<>>
      BY <2>2 DEF IInv, DownloadOK, Positions
    <3> QED BY <1>1, <3>1, <3>2 DEF DownloadOK, DownloadIntact
  <2> QED BY <2>1, <2>2 DEF IInv, TypeOK
<1> QED BY <1>4, <1>5, <1>6, <1>7, <1>8, <1>9 DEF IInv

\* server_send_cb keeps the invariant.
LEMMA ServerSendIInv == ASSUME IInv, server_send_cb PROVE IInv'
<1>1. PICK n \in 1 .. sbuf.len :
        /\ sbuf' = Sent(sbuf, n, sbuf.idx + n)
        /\ toClient' = toClient \o SubSeq(sbuf.data, sbuf.idx + 1, sbuf.idx + n)
        /\ active' = IF n = sbuf.len
                     THEN (active \ {"server_send"}) \union {"remote_recv"}
                     ELSE active
  BY DEF server_send_cb
<1>2. /\ fate = "open" /\ "server_send" \in active
      /\ UNCHANGED <<req, fate, stage, remote, direct, connected, abuf, rbuf, chunk,
                     recvd, rrecvd, replies, toRemote>>
  BY DEF server_send_cb, ClientWritable
<1>3. /\ connected /\ stage = "STREAM"
      /\ sbuf \in BufType(Nat) /\ BufOK(sbuf) /\ n \in 0 .. sbuf.len
      /\ toClient \in Seq(Nat) /\ chunk \in Seq(Nat)
      /\ toClient \o Pending(sbuf) \o chunk = Positions(0, rrecvd)
  <2>1. connected /\ stage = "STREAM"
    BY <1>2, Phases DEF IInv, PairOK
  <2>2. /\ sbuf \in BufType(Nat) /\ BufOK(sbuf)
        /\ toClient \in Seq(Nat) /\ chunk \in Seq(Nat)
    BY DEF IInv, TypeOK
  <2>3. toClient \o Pending(sbuf) \o chunk = Positions(0, rrecvd)
    BY <1>2, <2>1 DEF IInv, DownloadIntact
  <2>4. n \in 0 .. sbuf.len
    BY <2>2 DEF BufType
  <2> QED BY <2>1, <2>2, <2>3, <2>4
<1>4. PICK up \in {"server_recv", "remote_send"} :
        /\ active = {"recv_timer", up, "server_send"}
        /\ active' = IF n = sbuf.len THEN {"recv_timer", up, "remote_recv"} ELSE active
  BY <1>1, <1>2, <1>3 DEF IInv, WatchersOK
<1> DEFINE s == SubSeq(sbuf.data, sbuf.idx + 1, sbuf.idx + n)
           p == Pending(Sent(sbuf, n, sbuf.idx + n))
<1>5. /\ sbuf' \in BufType(Nat) /\ BufOK(Sent(sbuf, n, sbuf.idx + n)) /\ sbuf'.len = sbuf.len - n
      /\ s \in Seq(Nat) /\ s \o p = Pending(sbuf)
  BY <1>1, <1>3, SentOK
<1>6. BufOK(sbuf)' /\ Pending(sbuf)' = p
  BY <1>1, <1>5 DEF BufOK, Pending
<1>7. p \in Seq(Nat) /\ (sbuf'.len = 0 => p = <<>>)
  BY <1>1, <1>5, <1>6, PendingType
<1>8. toClient' = toClient \o s
  BY <1>1
<1> HIDE DEF s, p
<1>9. toClient' \in Seq(Nat) /\ toClient' \o p = toClient \o Pending(sbuf)
  <2>1. toClient \o s \in Seq(Nat)
    BY <1>3, <1>5, ConcatProperties
  <2>2. (toClient \o s) \o p = toClient \o (s \o p)
    BY <1>3, <1>5, <1>7, Assoc
  <2> QED BY <1>5, <1>8, <2>1, <2>2
<1>10. DownloadOK' /\ DownloadIntact'
  <2>1. CASE n = sbuf.len
    <3>1. "server_send" \notin active' /\ sbuf'.len = 0
      BY <1>3, <1>4, <1>5, <2>1 DEF BufType
    <3>2. toClient' \o <<>> = toClient \o Pending(sbuf)
      BY <1>7, <1>9, <3>1
    <3> QED BY <1>2, <1>3, <3>1, <3>2 DEF DownloadOK, DownloadIntact
  <2>2. CASE n # sbuf.len
    <3>1. "server_send" \in active' /\ sbuf'.len > 0
      BY <1>3, <1>4, <1>5, <2>2 DEF BufType
    <3> QED BY <1>2, <1>3, <1>6, <1>9, <3>1 DEF DownloadOK, DownloadIntact
  <2> QED BY <2>1, <2>2
<1>11. TypeOK' /\ BufOK(rbuf)'
  <2>1. active' \subseteq ServerWatchers \union RemoteWatchers
    BY <1>4 DEF ServerWatchers, RemoteWatchers
  <2> QED BY <1>2, <1>5, <1>9, <2>1 DEF IInv, TypeOK, BufOK
<1>12. WatchersOK' /\ PairOK' /\ HandshakeData' /\ EofFlushed'
  BY <1>2, <1>3, <1>4 DEF IInv, WatchersOK, PairOK, HandshakeData, EofFlushed
<1>13. UploadOK' /\ UploadIntact'
  <2>1. \A w \in {"server_recv", "remote_send", "delayed_connect"} : w \in active' <=> w \in active
    BY <1>4
  <2> QED BY <1>2, <2>1 DEF IInv, UploadOK, UploadIntact, Pending, Wire
<1> QED BY <1>6, <1>10, <1>11, <1>12, <1>13 DEF IInv

\* remote_recv_cb keeps the invariant, whatever is decrypted and sent.
LEMMA RemoteRecvIInv == ASSUME IInv, remote_recv_cb PROVE IInv'
<1>1. PICK to \in (rrecvd + 1) .. RemoteLen :
       /\ rrecvd' = to
       /\ LET act == active \union {"recv_timer"}
              all == chunk \o Positions(rrecvd, to)
          IN
            \/ /\ ~direct
               /\ chunk' = all
               /\ active' = act
               /\ UNCHANGED <<sbuf, toClient>>
            \/ \E k \in (IF direct THEN {Len(all)} ELSE 1 .. Len(all)) : \E n \in 0 .. k :
                 /\ chunk' = SubSeq(all, k + 1, Len(all))
                 /\ toClient' = toClient \o SubSeq(all, 1, n)
                 /\ sbuf' = Sent([data |-> SubSeq(all, 1, k), idx |-> 0, len |-> k], n, n)
                 /\ active' = IF n = k THEN act
                              ELSE (act \ {"remote_recv"}) \union {"server_send"}
  BY DEF remote_recv_cb
<1> DEFINE all == chunk \o Positions(rrecvd, to)
<1>2. /\ fate = "open" /\ "remote_recv" \in active
      /\ UNCHANGED <<req, fate, stage, remote, direct, connected, abuf, rbuf, recvd,
                     replies, toRemote>>
  BY DEF remote_recv_cb, RemoteReadable
<1>3. connected /\ stage = "STREAM"
  BY <1>2, Phases DEF IInv, PairOK
<1>4. PICK up \in {"server_recv", "remote_send"} : active = {"recv_timer", up, "remote_recv"}
  BY <1>2, Phases
<1>5. /\ rrecvd \in Nat /\ to \in 0 .. RemoteLen /\ to \in Nat /\ rrecvd <= to
      /\ toClient \in Seq(Nat) /\ chunk \in Seq(Nat)
  BY SizesAssumption DEF IInv, TypeOK
<1>6. all \in Seq(Nat) /\ toClient \o all = Positions(0, to)
  <2>1. Positions(rrecvd, to) \in Seq(Nat)
    BY <1>5, PositionsType
  <2>2. all \in Seq(Nat)
    BY <1>5, <2>1, ConcatProperties
  <2>3. toClient \o <<>> \o chunk = Positions(0, rrecvd)
    BY <1>2, <1>3, <1>4 DEF IInv, DownloadIntact
  <2>4. toClient \o chunk = Positions(0, rrecvd)
    BY <1>5, <2>3, ConcatEmptySeq
  <2>5. (toClient \o chunk) \o Positions(rrecvd, to) = toClient \o all
    BY <1>5, <2>1, Assoc
  <2>6. Positions(0, rrecvd) \o Positions(rrecvd, to) = Positions(0, to)
    <3> 0 \in Nat /\ 0 <= rrecvd
      BY <1>5
    <3> QED BY <1>5, PositionsConcat
  <2> QED BY <2>2, <2>4, <2>5, <2>6
<1> HIDE DEF all
\* What the callback leaves in the buffers, whatever was decrypted and sent.
<1>7. /\ sbuf' \in BufType(Nat) /\ BufOK(sbuf)' /\ chunk' \in Seq(Nat) /\ toClient' \in Seq(Nat)
      /\ \/ /\ active' = active
            /\ toClient' \o chunk' = Positions(0, to)
         \/ /\ active' = {"recv_timer", up, "server_send"} /\ sbuf'.len > 0
            /\ (toClient' \o Pending(sbuf)') \o chunk' = Positions(0, to)
  <2>1. CASE /\ chunk' = all
             /\ active' = active \union {"recv_timer"}
             /\ UNCHANGED <<sbuf, toClient>>
    BY <1>4, <1>5, <1>6, <2>1 DEF IInv, TypeOK, BufOK
  <2>2. CASE \E k \in (IF direct THEN {Len(all)} ELSE 1 .. Len(all)) : \E n \in 0 .. k :
                 /\ chunk' = SubSeq(all, k + 1, Len(all))
                 /\ toClient' = toClient \o SubSeq(all, 1, n)
                 /\ sbuf' = Sent([data |-> SubSeq(all, 1, k), idx |-> 0, len |-> k], n, n)
                 /\ active' = IF n = k THEN active \union {"recv_timer"}
                              ELSE ((active \union {"recv_timer"}) \ {"remote_recv"}) \union {"server_send"}
    <3>1. PICK k \in 0 .. Len(all) : \E n \in 0 .. k :
                 /\ chunk' = SubSeq(all, k + 1, Len(all))
                 /\ toClient' = toClient \o SubSeq(all, 1, n)
                 /\ sbuf' = Sent([data |-> SubSeq(all, 1, k), idx |-> 0, len |-> k], n, n)
                 /\ active' = IF n = k THEN active \union {"recv_timer"}
                              ELSE ((active \union {"recv_timer"}) \ {"remote_recv"}) \union {"server_send"}
      <4>1. (IF direct THEN {Len(all)} ELSE 1 .. Len(all)) \subseteq 0 .. Len(all)
        BY <1>6
      <4> QED BY <2>2, <4>1
    <3>2. PICK n \in 0 .. k :
                 /\ toClient' = toClient \o SubSeq(all, 1, n)
                 /\ sbuf' = Sent([data |-> SubSeq(all, 1, k), idx |-> 0, len |-> k], n, n)
                 /\ active' = IF n = k THEN active \union {"recv_timer"}
                              ELSE ((active \union {"recv_timer"}) \ {"remote_recv"}) \union {"server_send"}
      BY <3>1
    <3> DEFINE d == SubSeq(all, 1, k)
               c == SubSeq(all, k + 1, Len(all))
               b == [data |-> d, idx |-> 0, len |-> k]
               s == SubSeq(d, 0 + 1, 0 + n)
               p == Pending(Sent(b, n, 0 + n))
    <3>3. /\ d \in Seq(Nat) /\ c \in Seq(Nat) /\ d \o c = all /\ Len(d) = k /\ k \in Nat
      <4>1. Len(all) \in Nat /\ k \in Nat /\ k <= Len(all) /\ 0 \in Nat /\ 0 <= k
        BY <1>6
      <4>2. /\ SubSeq(all, 0 + 1, k) \in Seq(Nat) /\ SubSeq(all, k + 1, Len(all)) \in Seq(Nat)
            /\ SubSeq(all, 0 + 1, k) \o SubSeq(all, k + 1, Len(all)) = SubSeq(all, 0 + 1, Len(all))
        BY <1>6, <4>1, SubSeqSplit
      <4>3. SubSeq(all, 1, Len(all)) = all /\ Len(SubSeq(all, 1, k)) = k
        BY <1>6, <4>1
      <4>4. 0 + 1 = 1
        OBVIOUS
      <4>5. SubSeq(all, 0 + 1, k) = d /\ SubSeq(all, 0 + 1, Len(all)) = all
        BY <4>3, <4>4
      <4> QED BY <4>1, <4>2, <4>3, <4>5
    <3>4. SubSeq(all, 1, n) = s /\ 0 + n = n
      <4>1. 0 + n = n /\ 0 + 1 = 1 /\ n \in Nat /\ n <= k /\ k <= Len(all) /\ k \in Nat
        BY <1>6, <3>3
      <4>2. SubSeq(SubSeq(all, 1, k), 1, n) = SubSeq(all, 1, n)
        BY <1>6, <4>1
      <4> QED BY <4>1, <4>2
    <3> HIDE DEF d, c
    <3>5. b \in BufType(Nat) /\ BufOK(b) /\ b.idx = 0 /\ b.len = k /\ b.data = d
      BY <3>3 DEF BufType, BufOK
    <3>6. /\ Sent(b, n, 0 + n) \in BufType(Nat) /\ BufOK(Sent(b, n, 0 + n))
          /\ Sent(b, n, 0 + n).len = k - n
          /\ s \in Seq(Nat) /\ s \o p = Pending(b)
      <4> HIDE DEF b
      <4> QED BY <3>5, SentOK
    <3>7. Pending(b) = d
      BY <3>3, SubSeqFull DEF Pending
    <3>8. sbuf' = Sent(b, n, 0 + n) /\ toClient' = toClient \o s /\ chunk' = c
      <4>1. sbuf' = Sent(b, n, n) /\ toClient' = toClient \o SubSeq(all, 1, n) /\ chunk' = c
        BY <3>1, <3>2 DEF d, c
      <4> HIDE DEF b, s
      <4> QED BY <3>4, <4>1
    <3> HIDE DEF b
    <3>9. p \in Seq(Nat) /\ (k - n = 0 => p = <<>>)
      BY <3>6, PendingType
    <3>10. Pending(sbuf)' = p /\ BufOK(sbuf)'
      BY <3>6, <3>8 DEF Pending, BufOK
    <3> HIDE DEF s, p
    <3>11. toClient' \in Seq(Nat)
      BY <1>5, <3>6, <3>8, ConcatProperties
    <3>12. (toClient' \o p) \o c = Positions(0, to)
      <4>1. (toClient \o s) \o p = toClient \o d
        <5>1. s \in Seq(Nat) /\ p \in Seq(Nat)
          BY <3>6, <3>9
        <5>2. (toClient \o s) \o p = toClient \o (s \o p)
          BY <1>5, <5>1, Assoc
        <5>3. s \o p = d
          BY <3>6, <3>7
        <5> QED BY <5>2, <5>3
      <4>2. (toClient \o d) \o c = toClient \o all
        BY <1>5, <3>3, Assoc
      <4> QED BY <1>6, <3>8, <4>1, <4>2
    <3>13. CASE n = k
      <4>1. active' = active /\ p = <<>>
        BY <1>4, <3>2, <3>3, <3>9, <3>13
      <4>2. toClient' \o p = toClient'
        BY <3>11, <4>1, ConcatEmptySeq
      <4> QED BY <3>3, <3>6, <3>8, <3>10, <3>11, <3>12, <4>1, <4>2
    <3>14. CASE n # k
      <4>1. active' = {"recv_timer", up, "server_send"}
        BY <1>4, <3>2, <3>14
      <4>2. k - n > 0
        BY <3>3, <3>14
      <4> QED BY <3>3, <3>6, <3>8, <3>10, <3>11, <3>12, <4>1, <4>2
    <3> QED BY <3>13, <3>14
  <2> QED BY <1>1, <2>1, <2>2 DEF all
<1>8. TypeOK' /\ BufOK(rbuf)'
  <2>1. active' \subseteq ServerWatchers \union RemoteWatchers
    BY <1>4, <1>7 DEF ServerWatchers, RemoteWatchers
  <2> QED BY <1>1, <1>2, <1>5, <1>7, <2>1 DEF IInv, TypeOK, BufOK
<1>9. WatchersOK' /\ PairOK' /\ HandshakeData' /\ EofFlushed'
  BY <1>2, <1>3, <1>4, <1>7 DEF IInv, WatchersOK, PairOK, HandshakeData, EofFlushed
<1>10. UploadOK' /\ UploadIntact'
  <2>1. \A w \in {"server_recv", "remote_send", "delayed_connect"} : w \in active' <=> w \in active
    BY <1>4, <1>7
  <2> QED BY <1>2, <2>1 DEF IInv, UploadOK, UploadIntact, Pending, Wire
<1>11. DownloadOK' /\ DownloadIntact'
  <2>1. CASE active' = active /\ toClient' \o chunk' = Positions(0, to)
    <3>1. "server_send" \notin active'
      BY <1>4, <2>1
    <3>2. toClient' \o <<>> = toClient'
      BY <1>7, ConcatEmptySeq
    <3> QED BY <1>1, <1>2, <1>3, <2>1, <3>1, <3>2 DEF DownloadOK, DownloadIntact
  <2>2. CASE /\ active' = {"recv_timer", up, "server_send"} /\ sbuf'.len > 0
             /\ (toClient' \o Pending(sbuf)') \o chunk' = Positions(0, to)
    BY <1>1, <1>2, <1>3, <2>2 DEF DownloadOK, DownloadIntact
  <2> QED BY <1>7, <2>1, <2>2
<1> QED BY <1>7, <1>8, <1>9, <1>10, <1>11 DEF IInv

-----------------------------------------------------------------------------
(* The theorems. *)

\* Every step of the connection keeps the invariant.
LEMMA StepIInv == IInv /\ [Next]_vars => IInv'
<1> SUFFICES ASSUME IInv, [Next]_vars PROVE IInv'
  OBVIOUS
<1>1. CASE accept_cb
  BY <1>1, AcceptIInv
<1>2. CASE server_recv_cb_eof
  BY <1>2, CloseIInv DEF server_recv_cb_eof, ServerReadable
<1>3. CASE server_recv_cb_error
  BY <1>3, CloseIInv DEF server_recv_cb_error, ServerReadable
<1>4. CASE server_recv_cb_init
  BY <1>4, RecvInitIInv
<1>5. CASE server_recv_cb_request
  BY <1>5, RecvRequestIInv
<1>6. CASE server_recv_cb_stream
  BY <1>6, RecvStreamIInv
<1>7. CASE delayed_connect_cb
  BY <1>7, DelayedConnectIInv
<1>8. CASE server_send_cb
  BY <1>8, ServerSendIInv
<1>9. CASE server_send_cb_close
  BY <1>9, CloseIInv DEF server_send_cb_close, ClientWritable
<1>10. CASE remote_send_cb
  BY <1>10, RemoteSendIInv
<1>11. CASE remote_send_cb_close
  BY <1>11, CloseIInv DEF remote_send_cb_close, RemoteWritable
<1>12. CASE remote_recv_cb
  BY <1>12, RemoteRecvIInv
<1>13. CASE remote_recv_cb_eof
  BY <1>13, CloseIInv DEF remote_recv_cb_eof, RemoteReadable
<1>14. CASE remote_recv_cb_error
  BY <1>14, CloseIInv DEF remote_recv_cb_error, RemoteReadable
<1>15. CASE remote_timeout_cb
  BY <1>15, CloseIInv DEF remote_timeout_cb
<1>16. CASE UNCHANGED vars
  <2> USE <1>16 DEF vars, relayVars, IInv
  <2>1. TypeOK' /\ BufOK(sbuf)' /\ BufOK(rbuf)'
    BY DEF TypeOK, BufOK
  <2>2. WatchersOK' /\ PairOK' /\ HandshakeData'
    BY DEF WatchersOK, PairOK, HandshakeData
  <2>3. UploadOK' /\ DownloadOK' /\ EofFlushed'
    BY DEF UploadOK, DownloadOK, EofFlushed, Wire
  <2>4. UploadIntact'
    BY DEF UploadIntact, Pending, Wire
  <2>5. DownloadIntact'
    BY DEF DownloadIntact, Pending
  <2> QED BY <2>1, <2>2, <2>3, <2>4, <2>5
<1> QED
  BY <1>1, <1>2, <1>3, <1>4, <1>5, <1>6, <1>7, <1>8, <1>9, <1>10, <1>11, <1>12, <1>13,
     <1>14, <1>15, <1>16 DEF Next, ServerIO, RemoteIO

\* IInv holds in every state of every connection: the watchers of the pair
\* follow its phase and both streams are accounted for byte by byte.
THEOREM Invariance == Spec => []IInv
<1>1. Init => IInv
  BY InitIInv
<1>2. IInv /\ [Next]_vars => IInv'
  BY StepIInv
<1> QED BY <1>1, <1>2, PTL DEF Spec

\* The fields of server_t and remote_t keep their types: no length of a
\* buffer is ever negative and no stream is read past its end.
THEOREM TypeCorrect == Spec => []TypeOK
<1>1. IInv => TypeOK
  BY DEF IInv
<1> QED BY <1>1, Invariance, PTL

\* Whichever early return closed the pair, no watcher is left running on it.
THEOREM WatchersStopped == Spec => []NoWatcherAfterFree
<1>1. IInv => NoWatcherAfterFree
  BY DEF IInv, WatchersOK, NoWatcherAfterFree
<1> QED BY <1>1, Invariance, PTL

\* The pauses and resumptions of the two directions never give a buffer two
\* owners and never leave it without one.
THEOREM Backpressure == Spec => []OneOwnerPerBuffer
<1>1. IInv => OneOwnerPerBuffer
  <2> SUFFICES ASSUME IInv, fate = "open", stage = "STREAM"
               PROVE  /\ ("server_recv" \in active) # ("remote_send" \in active)
                      /\ connected => ("remote_recv" \in active) # ("server_send" \in active)
    BY DEF OneOwnerPerBuffer
  <2>1. CASE ~connected
    BY <2>1 DEF IInv, WatchersOK
  <2>2. CASE connected
    <3>1. PICK up \in {"server_recv", "remote_send"}, down \in {"remote_recv", "server_send"} :
            active = {"recv_timer", up, down}
      BY <2>2 DEF IInv, WatchersOK
    <3> QED BY <3>1
  <2> QED BY <2>1, <2>2 DEF IInv, TypeOK
<1> QED BY <1>1, Invariance, PTL

\* The branches of remote_send_cb and server_send_cb that close a pair for an
\* empty buffer are dead code.
THEOREM SendersHaveData == Spec => []SendHasData
<1>1. IInv => SendHasData
  BY Phases DEF IInv, UploadOK, DownloadOK, SendHasData
<1> QED BY <1>1, Invariance, PTL

\* No byte of the upload is lost, duplicated, reordered or encrypted twice.
THEOREM UploadCorrect == Spec => []UploadIntact
<1>1. IInv => UploadIntact
  BY DEF IInv
<1> QED BY <1>1, Invariance, PTL

\* No byte of the download is lost, duplicated or reordered.
THEOREM DownloadCorrect == Spec => []DownloadIntact
<1>1. IInv => DownloadIntact
  BY DEF IInv
<1> QED BY <1>1, Invariance, PTL

\* When the client's end of stream closes a connected pair, all that the client
\* sent has been handed to the remote, and when the remote's does, all that the
\* remote sent has been handed to the client.  Nothing is said of the opposite
\* direction's buffer, nor of a client that ends before the connect.
THEOREM EofCorrect == Spec => []EofFlushed
<1>1. IInv => EofFlushed
  BY DEF IInv
<1> QED BY <1>1, Invariance, PTL

\* Without fast open, every connect in progress has a timer that ends it.
THEOREM ConnectBounded == Spec => []ConnectIsBounded
<1>1. IInv => ConnectIsBounded
  BY DEF IInv, WatchersOK, ConnectIsBounded
<1> QED BY <1>1, Invariance, PTL

\* The length a recv() during the handshake leaves in server->buf.
LEMMA HandshakeLength ==
  ASSUME IInv, fate = "open", stage # "STREAM", NEW to \in Breaks, RecvUpTo(sbuf, to)
  PROVE  /\ to \in Nat /\ recvd \in Nat /\ recvd < to
         /\ Received(sbuf, Positions(recvd, to)).len =
              IF stage = "INIT" THEN to ELSE to - GreetingLen
         /\ stage # "INIT" => recvd >= GreetingLen
<1>1. /\ to \in Nat /\ recvd \in Nat /\ recvd < to /\ recvd <= to /\ to - recvd \in Nat
      /\ Positions(recvd, to) \in Seq(Nat) /\ Len(Positions(recvd, to)) = to - recvd
  BY RecvUpToOK DEF IInv, TypeOK
<1>2. /\ sbuf \in BufType(Nat) /\ BufOK(sbuf) /\ sbuf.idx = 0
      /\ stage = "INIT" => sbuf.data = Positions(0, recvd)
      /\ stage # "INIT" => recvd >= 2 /\ sbuf.data = Positions(2, recvd)
  BY DEF IInv, TypeOK, HandshakeData, GreetingLen
<1>3. Received(sbuf, Positions(recvd, to)).len = sbuf.len + (to - recvd)
  BY <1>1, <1>2, ReceivedOK
<1>4. sbuf.len = Len(sbuf.data) /\ sbuf.len \in Nat
  BY <1>2 DEF BufType, BufOK
<1>5. CASE stage = "INIT"
  <2>1. Len(Positions(0, recvd)) = recvd
    BY <1>1, PositionsType
  <2>2. sbuf.len = recvd
    BY <1>2, <1>4, <1>5, <2>1
  <2>3. sbuf.len + (to - recvd) = to
    BY <1>1, <2>2
  <2> QED BY <1>1, <1>3, <1>5, <2>3
<1>6. CASE stage # "INIT"
  <2>1. Len(Positions(2, recvd)) = recvd - 2
    BY <1>1, <1>2, <1>6, PositionsType
  <2>2. sbuf.len = recvd - 2 /\ recvd >= 2
    BY <1>2, <1>4, <1>6, <2>1
  <2>3. sbuf.len + (to - recvd) = to - 2
    BY <1>1, <2>2
  <2> QED BY <1>1, <1>3, <1>6, <2>2, <2>3 DEF GreetingLen
<1> QED BY <1>5, <1>6

\* A request that is there as a whole, or not at all, is answered at most once.
LEMMA RequestOnce ==
  ASSUME IInv, WholeMessages, AnsweredOnce, fate = "open",
         NEW st \in {"HANDSHAKE", "PARSE"}, st = "HANDSHAKE" => replies = 0,
         NEW b, b.len \in Nat, (b.len = 0 /\ st = "HANDSHAKE") \/ b.len >= RequestLen,
         HandleRequest(st, b)
  PROVE  AnsweredOnce'
<1>1. req.cmd # "udp" /\ replies \in Nat
  BY DEF IInv, TypeOK, WholeMessages
<1>2. /\ Reply(st) \in Nat /\ Reply(st) <= 1 /\ replies <= 1
  BY <1>1 DEF Reply, AnsweredOnce, HandshakeSane
<1>3. AddressLen \in {2, 3} /\ RequestLen = 3
  BY DEF AddressLen, RequestLen
<1>4. CASE WaitRequest(b)
  <2>1. b.len = 0 /\ st = "HANDSHAKE"
    BY <1>3, <1>4 DEF WaitRequest
  <2> QED BY <1>4, <2>1 DEF WaitRequest, AnsweredOnce, HandshakeSane
<1>5. CASE RejectRequest(st, b)
  <2>1. fate' = "failed" /\ replies' \in {replies, Reply(st)}
    BY <1>5 DEF RejectRequest, Close
  <2> QED BY <1>2, <2>1 DEF AnsweredOnce, HandshakeSane
<1>6. CASE HoldRequest(st, b)
  <2>1. b.len > 0 /\ b.len < AddressLen
    BY <1>1, <1>6 DEF HoldRequest
  <2> QED BY <1>3, <2>1
<1>7. CASE AwaitHostname(st, b)
  <2>1. stage' = "PARSE" /\ fate' = "open" /\ replies' = Reply(st)
    BY <1>7 DEF AwaitHostname
  <2> QED BY <1>2, <2>1 DEF AnsweredOnce, HandshakeSane
<1>8. CASE Underflow(st, b)
  <2>1. AddressLen <= b.len /\ b.len < RequestLen
    BY <1>8 DEF Underflow
  <2> QED BY <1>3, <2>1
<1>9. CASE StartStream(st, b)
  <2>1. stage' = "STREAM" /\ fate' = "open" /\ replies' = Reply(st)
    BY <1>9 DEF StartStream
  <2> QED BY <1>2, <2>1 DEF AnsweredOnce, HandshakeSane
<1> QED BY <1>4, <1>5, <1>6, <1>7, <1>8, <1>9 DEF HandleRequest

\* Every step keeps it: only the handshake answers.
LEMMA StepOnce == WholeMessages /\ IInv /\ AnsweredOnce /\ [Next]_vars => AnsweredOnce'
<1> SUFFICES ASSUME WholeMessages, IInv, AnsweredOnce, [Next]_vars PROVE AnsweredOnce'
  OBVIOUS
<1>0. ASSUME NEW to \in Breaks, to \in Nat PROVE to = 2 \/ to >= 5
  BY <1>0 DEF WholeMessages, GreetingLen, HandshakeLen, RequestLen
<1>1. CASE server_recv_cb_init
  <2>1. PICK to \in Breaks :
          /\ RecvUpTo(sbuf, to)
          /\ LET b == Received(sbuf, Positions(recvd, to)) IN
               \/ /\ b.len < GreetingLen
                  /\ UNCHANGED <<fate, stage, replies>>
               \/ /\ b.len >= GreetingLen
                  /\ HandleRequest("HANDSHAKE",
                       [data |-> SubSeq(b.data, GreetingLen + 1, b.len),
                        idx  |-> 0, len |-> b.len - GreetingLen])
    BY <1>1 DEF server_recv_cb_init
  <2> DEFINE b == Received(sbuf, Positions(recvd, to))
             c == [data |-> SubSeq(b.data, GreetingLen + 1, b.len),
                   idx  |-> 0, len |-> b.len - GreetingLen]
  <2>2. fate = "open" /\ stage = "INIT" /\ replies = 0
    BY <1>1 DEF server_recv_cb_init, ServerReadable, AnsweredOnce
  <2>3. b.len = to /\ to \in Nat
    BY <2>1, <2>2, HandshakeLength
  <2>4. c.len = b.len - 2
    BY DEF GreetingLen
  <2>5. (b.len < GreetingLen /\ UNCHANGED <<fate, stage, replies>>) \/ HandleRequest("HANDSHAKE", c)
    BY <2>1
  <2> HIDE DEF b, c
  <2>6. c.len \in Nat /\ (c.len = 0 \/ c.len >= RequestLen)
    BY <1>0, <2>3, <2>4 DEF RequestLen
  <2>7. ~(b.len < GreetingLen)
    BY <1>0, <2>3 DEF GreetingLen
  <2> QED BY <2>2, <2>5, <2>6, <2>7, RequestOnce
<1>2. CASE server_recv_cb_request
  <2>1. PICK to \in Breaks :
          RecvUpTo(sbuf, to) /\ HandleRequest(stage, Received(sbuf, Positions(recvd, to)))
    BY <1>2 DEF server_recv_cb_request
  <2> DEFINE b == Received(sbuf, Positions(recvd, to))
  <2>2. /\ fate = "open" /\ stage \in {"HANDSHAKE", "PARSE"}
        /\ stage = "HANDSHAKE" => replies = 0
    BY <1>2 DEF server_recv_cb_request, ServerReadable, AnsweredOnce
  <2>3. b.len = to - 2 /\ to \in Nat /\ to > 2
    BY <2>1, <2>2, HandshakeLength DEF GreetingLen
  <2>4. HandleRequest(stage, b)
    BY <2>1
  <2> HIDE DEF b
  <2>5. b.len \in Nat /\ b.len >= RequestLen
    BY <1>0, <2>3 DEF RequestLen
  <2> QED BY <2>2, <2>4, <2>5, RequestOnce
<1>3. CASE accept_cb
  BY <1>3 DEF accept_cb, relayVars, AnsweredOnce, HandshakeSane
<1>4. CASE \/ server_recv_cb_eof \/ server_recv_cb_error \/ server_send_cb_close
           \/ remote_send_cb_close \/ remote_recv_cb_eof \/ remote_recv_cb_error
           \/ remote_timeout_cb
  <2>1. fate' \in {"clientEof", "remoteEof", "failed"} /\ replies' = replies
    BY <1>4 DEF server_recv_cb_eof, server_recv_cb_error, server_send_cb_close,
       remote_send_cb_close, remote_recv_cb_eof, remote_recv_cb_error, remote_timeout_cb,
       CloseNow, Close, relayVars
  <2> QED BY <2>1 DEF AnsweredOnce, HandshakeSane
<1>5. CASE server_recv_cb_stream \/ delayed_connect_cb
  <2>1. replies' = replies /\ (fate' = "failed" \/ UNCHANGED <<fate, stage>>)
    BY <1>5 DEF server_recv_cb_stream, delayed_connect_cb, StreamPass, StreamFailure, Close
  <2> QED BY <2>1 DEF AnsweredOnce, HandshakeSane
<1>6. CASE server_send_cb \/ remote_send_cb \/ remote_recv_cb \/ UNCHANGED vars
  <2>1. UNCHANGED <<fate, stage, replies>>
    BY <1>6 DEF server_send_cb, remote_send_cb, remote_recv_cb, vars, relayVars
  <2> QED BY <2>1 DEF AnsweredOnce, HandshakeSane
<1> QED BY <1>1, <1>2, <1>3, <1>4, <1>5, <1>6 DEF Next, ServerIO, RemoteIO

\* A client whose messages arrive whole gets one reply, and the length
\* arithmetic of its request never wraps.  (A message that TCP cuts can make
\* either go wrong.)
THEOREM HandshakeOnce == WholeMessages => (Spec => []HandshakeSane)
<1> SUFFICES ASSUME WholeMessages PROVE Spec => []HandshakeSane
  OBVIOUS
<1>1. Init => AnsweredOnce
  BY DEF Init, AnsweredOnce, HandshakeSane
<1>2. IInv /\ AnsweredOnce /\ [Next]_vars => AnsweredOnce'
  BY StepOnce
<1>3. AnsweredOnce => HandshakeSane
  BY DEF AnsweredOnce
<1> QED BY <1>1, <1>2, <1>3, Invariance, PTL DEF Spec

=============================================================================
