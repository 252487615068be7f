------------------------ MODULE Tun2SocksClientProofs ------------------------
(***************************************************************************)
(* Proof that IInv is an inductive invariant of Tun2SocksClient, for every  *)
(* window, buffer size and stream length, and its safety properties.        *)
(***************************************************************************)
EXTENDS Tun2SocksClient, SequenceTheorems, TLAPS

-----------------------------------------------------------------------------
(* Streams of positions *)

\* Streams of positions may be regrouped.
LEMMA StreamAssoc == \A s, t, u \in Seq(Nat) : (s \o t) \o u = s \o (t \o u)
BY ConcatAssociative

\* Appending nothing, or appending to nothing, changes nothing.
LEMMA StreamEmpty == \A s \in Seq(Nat) : s \o <<>> = s /\ <<>> \o s = s
BY ConcatEmptySeq

\* Concatenation adds the lengths.
LEMMA StreamConcat ==
  \A s, t \in Seq(Nat) : s \o t \in Seq(Nat) /\ Len(s \o t) = Len(s) + Len(t)
BY ConcatProperties

\* Taking the first n elements of a buffer and keeping the rest loses nothing.
LEMMA AfterSplit ==
  \A s \in Seq(Nat) : \A n \in 0 .. Len(s) :
    /\ SubSeq(s, 1, n) \in Seq(Nat) /\ Len(SubSeq(s, 1, n)) = n
    /\ After(s, n) \in Seq(Nat) /\ Len(After(s, n)) = Len(s) - n
    /\ SubSeq(s, 1, n) \o After(s, n) = s
<1> TAKE s \in Seq(Nat)
<1> TAKE n \in 0 .. Len(s)
<1>1. n \in Nat /\ n <= Len(s) /\ Len(s) \in Nat
  OBVIOUS
<1>2. SubSeq(s, 1, n) \in Seq(Nat) /\ Len(SubSeq(s, 1, n)) = n
  BY <1>1
<1>3. After(s, n) \in Seq(Nat) /\ Len(After(s, n)) = Len(s) - n
  BY <1>1 DEF After
<1>4. SubSeq(s, 1, n) \o After(s, n) = s
  <2>1. 1 \in 1 .. Len(s) + 1 /\ n \in 1 - 1 .. Len(s) /\ Len(s) \in n .. Len(s)
    BY <1>1
  <2>2. SubSeq(s, 1, n) \o SubSeq(s, n + 1, Len(s)) = SubSeq(s, 1, Len(s))
    BY <2>1, ConcatAdjacentSubSeq
  <2> QED BY <1>1, <2>2, SubSeqFull DEF After
<1> QED BY <1>2, <1>3, <1>4

\* What n more positions do to a stream.
LEMMA PositionsGrow ==
  \A p, n \in Nat :
    /\ Positions(p, p + n) \in Seq(Nat) /\ Len(Positions(p, p + n)) = n
    /\ Positions(0, p) \o Positions(p, p + n) = Positions(0, p + n)
    /\ Positions(0, p) \in Seq(Nat) /\ Len(Positions(0, p)) = p
<1> TAKE p, n \in Nat
<1>1. /\ p + n \in Nat /\ p <= p + n /\ (p + n) - p = n /\ 0 \in Nat /\ 0 <= p /\ p - 0 = p
  OBVIOUS
<1>2. Positions(p, p + n) \in Seq(Nat) /\ Len(Positions(p, p + n)) = n
  BY <1>1 DEF Positions
<1>3. Positions(0, p) \in Seq(Nat) /\ Len(Positions(0, p)) = p
  BY <1>1 DEF Positions
<1>4. Positions(0, p) \o Positions(p, p + n) = Positions(0, p + n)
  BY <1>1 DEF Positions
<1> QED BY <1>2, <1>3, <1>4

\* The front of a run of positions is a run of positions.
LEMMA PositionsPrefix ==
  \A s, t \in Seq(Nat) : \A n \in Nat : s \o t = Positions(0, n) =>
    s = Positions(0, Len(s)) /\ Len(s) \in Nat /\ Len(s) <= n
<1> TAKE s, t \in Seq(Nat)
<1> TAKE n \in Nat
<1> HAVE s \o t = Positions(0, n)
<1>1. Len(s) \in Nat /\ Len(t) \in Nat /\ Len(s \o t) = Len(s) + Len(t)
  OBVIOUS
<1>2. Len(Positions(0, n)) = n
  BY PositionsGrow
<1>3. Len(s) <= n
  BY <1>1, <1>2
<1>4. \A i \in 1 .. Len(s) : s[i] = (s \o t)[i]
  BY <1>1
<1>5. \A i \in 1 .. n : Positions(0, n)[i] = 0 + i
  BY DEF Positions
<1>6. \A i \in 1 .. Len(s) : s[i] = 0 + i
  BY <1>1, <1>3, <1>4, <1>5
<1>7. s = [i \in 1 .. Len(s) |-> s[i]]
  OBVIOUS
<1>8. Len(s) - 0 = Len(s)
  BY <1>1
<1>9. s = Positions(0, Len(s))
  BY <1>6, <1>7, <1>8 DEF Positions
<1> QED BY <1>1, <1>3, <1>9

\* The invariant holds before the connection is accepted.
LEMMA InitIInv == Init => IInv
<1> SUFFICES ASSUME Init PROVE IInv
  OBVIOUS
<1>1. Positions(0, 0) = <<>>
  BY DEF Positions
<1>2. TypeOK
  <2>1. 0 \in 0 .. ClientLen /\ 0 \in 0 .. SocksLen /\ TcpWnd \in Nat
    BY WindowAssumption, StreamAssumption
  <2>2. <<>> \in Seq(Nat)
    OBVIOUS
  <2> QED BY <2>1, <2>2 DEF Init, TypeOK
<1>3. FreshOK /\ NotUpOK /\ CallbacksOK /\ EndedOK
  BY DEF Init, FreshOK, NotUpOK, CallbacksOK, EndedOK
<1>4. UploadInOrder
  BY <1>1 DEF Init, UploadInOrder
<1> QED BY <1>2, <1>3, <1>4 DEF Init, IInv, NoCallbackAfterFree, WindowIsRoom, DownloadInOrder,
     NoStall, LingerHasCause, GracefulEnd

\* Accepting a connection keeps the invariant.
LEMMA AcceptIInv ==
  ASSUME IInv, listener_accept_func \/ listener_accept_func_fail
  PROVE  IInv'
<1> USE DEF IInv, listener_accept_func, listener_accept_func_fail, upload, download
<1>1. TypeOK'
  BY DEF TypeOK
<1>2. FreshOK' /\ NotUpOK' /\ CallbacksOK' /\ EndedOK' /\ NoCallbackAfterFree' /\ LingerHasCause'
  BY DEF FreshOK, NotUpOK, CallbacksOK, EndedOK, NoCallbackAfterFree, LingerHasCause
<1>3. WindowIsRoom'
  BY WindowAssumption DEF FreshOK, WindowIsRoom, TypeOK, NoCallbackAfterFree
<1>4. UploadInOrder'
  BY DEF UploadInOrder
<1>5. DownloadInOrder'
  <2>1. Positions(0, 0) = <<>>
    BY DEF Positions
  <2>2. /\ toClient' = <<>> /\ rest' = <<>> /\ rgot' = 0 /\ pending' = 0 /\ acked' = 0
    BY DEF FreshOK, NotUpOK
  <2>3. <<>> \o <<>> = <<>> /\ Len(<<>>) = 0 /\ 0 + 0 = 0
    OBVIOUS
  <2> QED BY <2>1, <2>2, <2>3 DEF DownloadInOrder
<1>6. NoStall' /\ GracefulEnd'
  BY DEF FreshOK, NoStall, GracefulEnd
<1> QED BY <1>1, <1>2, <1>3, <1>4, <1>5, <1>6

\* A registered callback is one of a live client whose pcb is still ours.
LEMMA CallbackLive ==
  ASSUME IInv, NEW c \in cbs
  PROVE  life = "live" /\ ~client_closed
BY DEF IInv, NoCallbackAfterFree, TypeOK

\* client_recv_func keeps the invariant.
LEMMA RecvIInv == ASSUME IInv, client_recv_func PROVE IInv'
<1>1. /\ life = "live" /\ ~client_closed /\ ~socks_closed /\ "recv" \in cbs
      /\ UNCHANGED <<sides, download, recvBusy, toSocks>>
  BY CallbackLive DEF client_recv_func, IInv, CallbacksOK
<1>2. PICK n \in 1 .. wnd :
        /\ got + n <= ClientLen
        /\ wnd' = wnd - n
        /\ got' = got + n
        /\ buf' = buf \o Positions(got, got + n)
        /\ sendLen' = StartSend(n)
  BY DEF client_recv_func
<1>3. n \in Nat /\ n > 0 /\ n <= wnd /\ got \in Nat /\ wnd \in Nat /\ TcpWnd \in Nat
      /\ buf \in Seq(Nat) /\ toSocks \in Seq(Nat) /\ Len(buf) \in Nat /\ sendLen \in Nat
  BY WindowAssumption DEF IInv, TypeOK
<1>4. /\ Positions(got, got + n) \in Seq(Nat) /\ Len(Positions(got, got + n)) = n
      /\ Positions(0, got) \o Positions(got, got + n) = Positions(0, got + n)
  BY <1>3, PositionsGrow
<1>5. buf' \in Seq(Nat) /\ Len(buf') = Len(buf) + n
  BY <1>2, <1>3, <1>4, StreamConcat
<1>6. sendLen' = IF Len(buf) = 0 /\ socks_up THEN n ELSE sendLen
  BY <1>2 DEF StartSend
<1>7. TypeOK'
  <2>1. got' \in 0 .. ClientLen /\ wnd' \in Nat /\ sendLen' \in Nat
    BY <1>2, <1>3, <1>6, StreamAssumption
  <2> QED BY <1>1, <1>5, <2>1 DEF IInv, TypeOK, sides, download
<1>8. WindowIsRoom'
  <2>1. wnd + Len(buf) = TcpWnd
    BY <1>1 DEF IInv, WindowIsRoom
  <2>2. wnd' + Len(buf') = TcpWnd
    <3>1. wnd' = wnd - n /\ Len(buf') = Len(buf) + n
      BY <1>2, <1>5
    <3>2. \A w, l \in Nat : (w - n) + (l + n) = w + l
      BY <1>3
    <3>3. (wnd - n) + (Len(buf) + n) = wnd + Len(buf)
      BY <1>3, <3>2
    <3>4. wnd' + Len(buf') = (wnd - n) + (Len(buf) + n)
      BY <3>1
    <3> QED BY <2>1, <3>3, <3>4
  <2> QED BY <2>2 DEF WindowIsRoom
<1>9. UploadInOrder'
  <2>1. toSocks \o buf = Positions(0, got)
    BY <1>1 DEF IInv, UploadInOrder
  <2>2. (toSocks \o buf) \o Positions(got, got + n) = toSocks \o buf'
    BY <1>2, <1>3, <1>4, StreamAssoc
  <2> QED BY <1>1, <1>2, <1>4, <2>1, <2>2 DEF UploadInOrder, sides
<1>10. NoStall'
  <2>1. socks_up => sendLen' = Len(buf') \/ (0 < sendLen' /\ sendLen' < Len(buf'))
    BY <1>1, <1>3, <1>5, <1>6 DEF IInv, NoStall
  <2> QED BY <1>1, <2>1 DEF IInv, NoStall, sides, download
<1>11. FreshOK' /\ NotUpOK' /\ CallbacksOK' /\ EndedOK' /\ NoCallbackAfterFree'
  BY <1>1, <1>6 DEF IInv, FreshOK, NotUpOK, CallbacksOK, EndedOK, NoCallbackAfterFree, sides,
     download
<1>12. LingerHasCause' /\ GracefulEnd' /\ DownloadInOrder'
  BY <1>1 DEF IInv, LingerHasCause, GracefulEnd, DownloadInOrder, sides, download
<1> QED BY <1>7, <1>8, <1>9, <1>10, <1>11, <1>12 DEF IInv

\* Letting go of the client keeps the invariant, whether it lingers or not.
LEMMA FreedClientIInv ==
  ASSUME IInv, life = "live", ~client_closed, NEW busy \in BOOLEAN,
         busy => socks_up, HandleFreedClient(busy),
         UNCHANGED <<socks_up, upload>>,
         rest' \in Seq(Nat), waiting' \in BOOLEAN, pending' \in Nat, toClient' \in Seq(Nat),
         acked' \in Nat, rgot' \in 0 .. SocksLen,
         ~socks_up => UNCHANGED <<rest, pending, toClient, acked, rgot>>
  PROVE  IInv'
<1> USE DEF upload
<1>1. client_closed' /\ cbs' = {} /\ ended' = ended \union {"client"}
  BY DEF HandleFreedClient
<1>2. \/ /\ Len(buf) > 0 /\ ~socks_closed /\ recvBusy' = busy
         /\ UNCHANGED <<life, socks_closed, sendLen>>
      \/ /\ ~(Len(buf) > 0 /\ ~socks_closed)
         /\ life' = "freed" /\ socks_closed' /\ sendLen' = 0 /\ ~recvBusy'
  BY DEF HandleFreedClient
<1>3. TypeOK'
  <2>1. /\ client_closed' \in BOOLEAN /\ socks_closed' \in BOOLEAN /\ recvBusy' \in BOOLEAN
        /\ socks_up' \in BOOLEAN /\ waiting' \in BOOLEAN
    BY DEF IInv, TypeOK, HandleFreedClient
  <2>2. life' \in {"live", "freed"} /\ sendLen' \in Nat
    BY <1>2 DEF IInv, TypeOK
  <2> QED BY <1>1, <2>1, <2>2 DEF IInv, TypeOK
<1>4. FreshOK' /\ CallbacksOK' /\ EndedOK' /\ NoCallbackAfterFree'
  BY <1>1, <1>2 DEF IInv, TypeOK, FreshOK, CallbacksOK, EndedOK, NoCallbackAfterFree
<1>5. NotUpOK' /\ WindowIsRoom' /\ DownloadInOrder'
  BY <1>1, <1>2 DEF IInv, NotUpOK, WindowIsRoom, DownloadInOrder
<1>6. UploadInOrder' /\ NoStall' /\ LingerHasCause'
  BY <1>1, <1>2 DEF IInv, UploadInOrder, NoStall, LingerHasCause
<1>7. GracefulEnd'
  <2> SUFFICES ASSUME life' = "freed"
               PROVE  /\ ended' = {"client"} => toSocks' = Positions(0, got')
                      /\ ended' # {"socks"}
    BY DEF GracefulEnd
  <2>1. "client" \in ended' /\ "client" # "socks"
    BY <1>1
  <2>2. ASSUME ended' = {"client"} PROVE toSocks = Positions(0, got)
    <3>1. ~socks_closed
      BY <1>1, <2>2 DEF IInv, EndedOK
    <3>2. buf \in Seq(Nat) /\ toSocks \in Seq(Nat) /\ ~(Len(buf) > 0)
      BY <1>2, <3>1 DEF IInv, TypeOK
    <3>3. buf = <<>>
      BY <3>2, EmptySeq
    <3>4. toSocks \o <<>> = Positions(0, got)
      BY <3>1, <3>3 DEF IInv, UploadInOrder
    <3> QED BY <3>2, <3>4, StreamEmpty
  <2> QED BY <2>1, <2>2
<1> QED BY <1>3, <1>4, <1>5, <1>6, <1>7 DEF IInv

\* Letting go of SOCKS after an event of its own keeps the invariant.
LEMMA FreeSocksIInv ==
  ASSUME IInv, SocksOpen, FreeSocks(rest # <<>> \/ pending > 0),
         ended' = ended \union {"socks"}, UNCHANGED <<socks_up, upload, download>>
  PROVE  IInv'
<1> USE DEF upload, download, SocksOpen
<1> DEFINE linger == socks_up /\ (rest # <<>> \/ pending > 0) /\ ~client_closed
<1>1. socks_closed' /\ sendLen' = 0 /\ ~recvBusy'
  BY DEF FreeSocks
<1>2. \/ linger /\ cbs' = cbs \ {"recv"} /\ UNCHANGED <<life, client_closed>>
      \/ ~linger /\ life' = "freed" /\ client_closed' /\ cbs' = {}
  BY DEF FreeSocks
<1>3. TypeOK'
  <2>1. /\ client_closed' \in BOOLEAN /\ socks_closed' \in BOOLEAN /\ recvBusy' \in BOOLEAN
        /\ socks_up' \in BOOLEAN /\ waiting' \in BOOLEAN
    BY DEF IInv, TypeOK, FreeSocks
  <2>2. life' \in {"live", "freed"} /\ cbs' \subseteq cbs
    BY <1>2
  <2> QED BY <1>1, <2>1, <2>2 DEF IInv, TypeOK
<1>4. FreshOK' /\ CallbacksOK' /\ EndedOK' /\ NoCallbackAfterFree'
  BY <1>1, <1>2 DEF IInv, TypeOK, FreshOK, CallbacksOK, EndedOK, NoCallbackAfterFree
<1>5. NotUpOK' /\ WindowIsRoom' /\ UploadInOrder'
  BY <1>1, <1>2 DEF IInv, NotUpOK, WindowIsRoom, UploadInOrder
<1>6. DownloadInOrder'
  BY <1>1, <1>2 DEF IInv, DownloadInOrder
<1>7. NoStall' /\ LingerHasCause'
  BY <1>1, <1>2 DEF IInv, NoStall, LingerHasCause, CallbacksOK
<1>8. GracefulEnd'
  <2> SUFFICES ASSUME life' = "freed"
               PROVE  /\ ended' # {"client"}
                      /\ ended' = {"socks"} => acked = rgot /\ toClient = Positions(0, rgot)
    BY DEF GracefulEnd
  <2>1. ended' # {"client"}
    OBVIOUS
  <2>2. ASSUME ended' = {"socks"} PROVE acked = rgot /\ toClient = Positions(0, rgot)
    <3>1. ~client_closed
      BY <2>2 DEF IInv, EndedOK
    <3>2. /\ rest \in Seq(Nat) /\ toClient \in Seq(Nat) /\ acked \in Nat /\ rgot \in Nat
          /\ pending \in Nat
      BY StreamAssumption DEF IInv, TypeOK
    <3>3. rest = <<>> /\ pending = 0
      <4>1. CASE ~socks_up
        BY <4>1 DEF IInv, NotUpOK
      <4>2. CASE socks_up
        BY <1>2, <3>1, <3>2, <4>2
      <4> QED BY <4>1, <4>2
    <3>4. toClient \o rest = Positions(0, rgot) /\ pending + acked = Len(toClient)
      BY <3>1 DEF IInv, DownloadInOrder
    <3>5. toClient = Positions(0, rgot)
      BY <3>2, <3>3, <3>4, StreamEmpty
    <3>6. Len(Positions(0, rgot)) = rgot
      BY <3>2, PositionsGrow
    <3>7. acked = Len(toClient)
      BY <3>2, <3>3, <3>4
    <3> QED BY <3>5, <3>6, <3>7
  <2> QED BY <2>1, <2>2
<1> QED BY <1>3, <1>4, <1>5, <1>6, <1>7, <1>8 DEF IInv

\* Handing data to lwIP keeps the invariant: the prefix tcp_write took and the
\* rest are what was there, and what waits has a confirmation to wait for.
LEMMA SendOutIInv ==
  ASSUME IInv, life = "live", ~client_closed, socks_up,
         NEW r \in Seq(Nat), r # <<>>, NEW pend \in Nat, SendOut(r, pend),
         UNCHANGED upload, acked' \in Nat, rgot' \in 0 .. SocksLen,
         toClient \o r = Positions(0, rgot'), pend + acked' = Len(toClient)
  PROVE  IInv'
<1>1. PICK m \in 0 .. Len(r) :
        /\ toClient' = toClient \o SubSeq(r, 1, m)
        /\ pending' = pend + m
        /\ rest' = After(r, m)
        /\ \/ /\ m < Len(r) => pend + m > 0
              /\ waiting' = (m < Len(r))
              /\ recvBusy' = (m = Len(r) /\ ~socks_closed)
              /\ UNCHANGED <<sides, sendLen>>
           \/ /\ waiting' = FALSE
              /\ HandleFreedClient(FALSE)
              /\ UNCHANGED socks_up
  BY DEF SendOut
<1>2. m \in Nat /\ m <= Len(r) /\ Len(r) \in Nat /\ Len(r) > 0 /\ toClient \in Seq(Nat)
  <2>1. Len(r) > 0
    BY EmptySeq
  <2> QED BY <2>1 DEF IInv, TypeOK
<1>3. /\ SubSeq(r, 1, m) \in Seq(Nat) /\ Len(SubSeq(r, 1, m)) = m
      /\ After(r, m) \in Seq(Nat) /\ Len(After(r, m)) = Len(r) - m
      /\ SubSeq(r, 1, m) \o After(r, m) = r
  BY AfterSplit
<1>4. toClient' \in Seq(Nat) /\ Len(toClient') = Len(toClient) + m
  BY <1>1, <1>2, <1>3, StreamConcat
<1>5. rest' \in Seq(Nat) /\ (rest' = <<>> <=> m = Len(r))
  <2>1. Len(rest') = Len(r) - m /\ rest' \in Seq(Nat)
    BY <1>1, <1>3
  <2>2. rest' = <<>> <=> Len(rest') = 0
    BY <2>1, EmptySeq
  <2> QED BY <1>2, <2>1, <2>2
<1>6. pending' \in Nat
  BY <1>1, <1>2
<1>7. CASE waiting' = FALSE /\ HandleFreedClient(FALSE) /\ UNCHANGED socks_up
  <2>1. waiting' \in BOOLEAN
    BY <1>7
  <2> QED BY <1>4, <1>5, <1>6, <1>7, <2>1, FreedClientIInv
<1>8. CASE /\ m < Len(r) => pend + m > 0
           /\ waiting' = (m < Len(r))
           /\ recvBusy' = (m = Len(r) /\ ~socks_closed)
           /\ UNCHANGED <<sides, sendLen>>
  <2>2. UNCHANGED <<sides, sendLen>>
    BY <1>8
  <2>7. pending' \in Nat /\ pending' > 0
    <3>1. pend + m > 0
      BY <1>8, <1>2
    <3> QED BY <1>1, <1>6, <3>1
  <2>8. TypeOK'
    <3>1. waiting' \in BOOLEAN /\ recvBusy' \in BOOLEAN
      BY <1>1, <1>8
    <3> QED BY <2>2, <1>4, <1>5, <2>7, <3>1 DEF IInv, TypeOK, sides, upload
  <2>9. FreshOK' /\ NotUpOK' /\ CallbacksOK' /\ EndedOK' /\ WindowIsRoom' /\ UploadInOrder'
    BY <2>2 DEF IInv, FreshOK, NotUpOK, CallbacksOK, EndedOK, WindowIsRoom, UploadInOrder,
       sides, upload
  <2>10. NoCallbackAfterFree' /\ GracefulEnd'
    <3>1. life' = "live" /\ ~client_closed'
      BY <2>2 DEF sides
    <3>2. socks_closed => ~recvBusy'
      BY <1>8, Zenon
    <3> QED BY <2>2, <3>1, <3>2 DEF IInv, NoCallbackAfterFree, GracefulEnd, sides
  <2>11. DownloadInOrder'
    <3>1. toClient' \o rest' = toClient \o r
      <4>1. (toClient \o SubSeq(r, 1, m)) \o After(r, m)
              = toClient \o (SubSeq(r, 1, m) \o After(r, m))
        BY <1>2, <1>3, StreamAssoc
      <4> QED BY <1>1, <1>8, <1>3, <4>1
    <3>2. pending' + acked' = Len(toClient')
      <4>1. Len(toClient) \in Nat /\ pending' = pend + m
        BY <1>1, <1>8, <1>2
      <4>2. (pend + m) + acked' = (pend + acked') + m
        BY <1>2
      <4>3. pending' + acked' = (pend + m) + acked'
        BY <4>1
      <4>4. Len(toClient') = (pend + acked') + m
        BY <1>4
      <4> QED BY <4>2, <4>3, <4>4
    <3> QED BY <3>1, <3>2 DEF DownloadInOrder
  <2>12. NoStall'
    <3>1. ~socks_closed => (recvBusy' <=> rest' = <<>>)
      BY <1>1, <1>8, <1>5
    <3>2. rest' # <<>> => waiting'
      <4>1. m # Len(r) => m < Len(r)
        BY <1>2
      <4>2. waiting' = (m < Len(r))
        BY <1>1, <1>8
      <4> QED BY <1>5, <4>1, <4>2
    <3> QED BY <2>2, <2>7, <3>1, <3>2 DEF IInv, NoStall, sides, upload
  <2>13. LingerHasCause'
    BY <2>2, <2>7 DEF IInv, LingerHasCause, CallbacksOK, sides
  <2> QED BY <2>8, <2>9, <2>10, <2>11, <2>12, <2>13 DEF IInv
<1> QED BY <1>1, <1>7, <1>8

\* client_sent_func keeps the invariant.
LEMMA SentIInv == ASSUME IInv, client_sent_func PROVE IInv'
<1>1. /\ life = "live" /\ ~client_closed /\ socks_up /\ "sent" \in cbs
      /\ UNCHANGED <<upload, rgot>>
  BY CallbackLive DEF client_sent_func, IInv, CallbacksOK
<1>2. PICK n \in 1 .. (Len(toClient) - acked) :
        /\ acked' = acked + n
        /\ \/ /\ rest # <<>>
              /\ SendOut(rest, pending - n)
           \/ /\ rest = <<>>
              /\ pending' = pending - n
              /\ IF socks_closed /\ pending' = 0
                 THEN life' = "freed" /\ client_closed' = TRUE /\ cbs' = {}
                 ELSE UNCHANGED <<life, client_closed, cbs>>
              /\ UNCHANGED <<socks_up, socks_closed, ended, rest, waiting, toClient,
                             sendLen, recvBusy>>
  BY DEF client_sent_func
<1>3. /\ toClient \in Seq(Nat) /\ Len(toClient) \in Nat /\ acked \in Nat /\ pending \in Nat
      /\ rest \in Seq(Nat) /\ rgot \in Nat
  BY StreamAssumption DEF IInv, TypeOK
<1>4. toClient \o rest = Positions(0, rgot) /\ pending + acked = Len(toClient)
  BY <1>1 DEF IInv, DownloadInOrder
<1>5. /\ n \in Nat /\ acked' \in Nat /\ pending - n \in Nat
      /\ (pending - n) + acked' = Len(toClient)
  <2>1. acked' = acked + n
    BY <1>2
  <2>2. n \in Nat /\ n <= Len(toClient) - acked
    BY <1>3
  <2>3. \A a, p, l \in Nat : p + a = l /\ n <= l - a => p - n \in Nat /\ (p - n) + (a + n) = l
    BY <2>2
  <2>4. pending - n \in Nat /\ (pending - n) + (acked + n) = Len(toClient)
    BY <1>3, <1>4, <2>2, <2>3
  <2>5. acked + n \in Nat
    BY <1>3, <2>2
  <2> QED BY <2>1, <2>2, <2>4, <2>5
<1>6. CASE rest # <<>> /\ SendOut(rest, pending - n)
  BY <1>1, <1>3, <1>4, <1>5, <1>6, SendOutIInv DEF IInv, TypeOK
<1>7. CASE /\ rest = <<>>
           /\ pending' = pending - n
           /\ IF socks_closed /\ pending' = 0
              THEN life' = "freed" /\ client_closed' = TRUE /\ cbs' = {}
              ELSE UNCHANGED <<life, client_closed, cbs>>
           /\ UNCHANGED <<socks_up, socks_closed, ended, rest, waiting, toClient,
                          sendLen, recvBusy>>
  <2>1. pending' \in Nat /\ pending' + acked' = Len(toClient)
    BY <1>5, <1>7
  <2>2. \/ /\ socks_closed /\ pending' = 0
           /\ life' = "freed" /\ client_closed' /\ cbs' = {}
        \/ ~(socks_closed /\ pending' = 0) /\ UNCHANGED <<life, client_closed, cbs>>
    BY <1>7
  <2>3. /\ rest = <<>>
        /\ UNCHANGED <<socks_up, socks_closed, ended, rest, waiting, toClient, sendLen, recvBusy>>
    BY <1>7
  <2>4. TypeOK'
    <3>1. client_closed' \in BOOLEAN /\ life' \in {"live", "freed"} /\ cbs' \subseteq cbs
      <4>1. client_closed' \in BOOLEAN
        BY <1>1, <1>7 DEF IInv, TypeOK
      <4>2. life' \in {"live", "freed"} /\ cbs' \subseteq cbs
        BY <1>1, <2>2
      <4> QED BY <4>1, <4>2
    <3> QED BY <1>1, <1>5, <2>1, <2>3, <3>1 DEF IInv, TypeOK, upload
  <2>5. FreshOK' /\ NotUpOK' /\ CallbacksOK' /\ EndedOK' /\ UploadInOrder'
    BY <1>1, <2>2, <2>3 DEF IInv, FreshOK, NotUpOK, CallbacksOK, EndedOK, UploadInOrder, upload
  <2>6. WindowIsRoom'
    BY <1>1, <2>2 DEF IInv, WindowIsRoom, upload
  <2>7. NoCallbackAfterFree'
    BY <1>1, <2>2, <2>3 DEF IInv, NoCallbackAfterFree
  <2>8. DownloadInOrder'
    BY <1>1, <1>4, <2>1, <2>2, <2>3 DEF DownloadInOrder
  <2>9. NoStall'
    BY <1>1, <2>2, <2>3 DEF IInv, NoStall, upload
  <2>10. LingerHasCause'
    BY <1>1, <2>1, <2>2, <2>3 DEF IInv, LingerHasCause
  <2>11. GracefulEnd'
    <3> SUFFICES ASSUME life' = "freed"
                 PROVE  ended # {"client"} /\ acked' = rgot /\ toClient = Positions(0, rgot)
      BY <1>1, <2>3 DEF GracefulEnd, upload
    <3>1. socks_closed /\ pending' = 0
      BY <1>1, <2>2
    <3>2. ended # {"client"}
      BY <1>1, <3>1 DEF IInv, EndedOK
    <3>3. toClient = Positions(0, rgot)
      BY <1>3, <1>4, <2>3, StreamEmpty
    <3>4. Len(Positions(0, rgot)) = rgot
      BY <1>3, PositionsGrow
    <3>5. acked' = Len(toClient)
      BY <1>5, <2>1, <3>1
    <3> QED BY <3>2, <3>3, <3>4, <3>5
  <2> QED BY <2>4, <2>5, <2>6, <2>7, <2>8, <2>9, <2>10, <2>11 DEF IInv
<1> QED BY <1>2, <1>6, <1>7

\* BSOCKSCLIENT_EVENT_UP keeps the invariant.
LEMMA UpIInv == ASSUME IInv, client_socks_handler_up PROVE IInv'
<1> USE DEF client_socks_handler_up, SocksOpen, upload
<1>1. /\ rest = <<>> /\ pending = 0 /\ buf \in Seq(Nat) /\ Len(buf) \in Nat
  BY DEF IInv, NotUpOK, TypeOK
<1>2. TypeOK'
  <2>1. /\ socks_up' \in BOOLEAN /\ recvBusy' \in BOOLEAN /\ pending' \in Nat /\ sendLen' \in Nat
        /\ cbs' \subseteq cbs \union {"sent"}
    BY <1>1
  <2> QED BY <2>1 DEF IInv, TypeOK
<1>3. FreshOK' /\ NotUpOK' /\ CallbacksOK' /\ EndedOK' /\ UploadInOrder' /\ GracefulEnd'
  BY DEF IInv, FreshOK, NotUpOK, CallbacksOK, EndedOK, UploadInOrder, GracefulEnd
<1>4. NoCallbackAfterFree' /\ WindowIsRoom' /\ LingerHasCause'
  BY DEF IInv, NoCallbackAfterFree, WindowIsRoom, LingerHasCause
<1>5. DownloadInOrder'
  BY <1>1 DEF IInv, DownloadInOrder
<1>6. NoStall'
  BY <1>1 DEF IInv, NoStall
<1> QED BY <1>2, <1>3, <1>4, <1>5, <1>6 DEF IInv

\* A completed send keeps the invariant, and deallocates a lingering client
\* only when nothing is left.
LEMMA SendDoneIInv == ASSUME IInv, client_socks_send_handler_done PROVE IInv'
<1>1. life = "live" /\ ~socks_closed /\ UNCHANGED <<socks_up, ended, got, download>>
  BY DEF client_socks_send_handler_done, SocksOpen
<1>2. PICK n \in 1 .. sendLen :
        /\ toSocks' = toSocks \o SubSeq(buf, 1, n)
        /\ buf' = After(buf, n)
        /\ wnd' = Confirm(n)
        /\ IF n = Len(buf) /\ client_closed
           THEN FreeSocks(FALSE)
           ELSE /\ sendLen' = Len(buf) - n
                /\ UNCHANGED <<life, client_closed, socks_closed, cbs, recvBusy>>
  BY DEF client_socks_send_handler_done
<1>3. /\ sendLen \in Nat /\ wnd \in Nat /\ buf \in Seq(Nat) /\ Len(buf) \in Nat
      /\ toSocks \in Seq(Nat) /\ got \in Nat
  BY StreamAssumption DEF IInv, TypeOK
<1>4. socks_up /\ sendLen <= Len(buf)
  <2>1. socks_up
    <3>1. sendLen > 0
      BY <1>2, <1>3
    <3> QED BY <1>1, <3>1 DEF IInv, NotUpOK
  <2> QED BY <1>1, <1>3, <2>1 DEF IInv, NoStall
<1>5. n \in Nat /\ n > 0 /\ n <= Len(buf) /\ n \in 0 .. Len(buf)
  BY <1>2, <1>3, <1>4
<1>6. /\ SubSeq(buf, 1, n) \in Seq(Nat) /\ After(buf, n) \in Seq(Nat)
      /\ Len(After(buf, n)) = Len(buf) - n /\ SubSeq(buf, 1, n) \o After(buf, n) = buf
  BY <1>3, <1>5, AfterSplit
<1>7. toSocks' \in Seq(Nat) /\ buf' \in Seq(Nat) /\ Len(buf') = Len(buf) - n
  BY <1>2, <1>3, <1>6, StreamConcat
<1>8. toSocks' \o buf' = Positions(0, got)
  <2>1. toSocks' \o buf' = toSocks \o buf
    <3>1. (toSocks \o SubSeq(buf, 1, n)) \o After(buf, n)
            = toSocks \o (SubSeq(buf, 1, n) \o After(buf, n))
      BY <1>3, <1>6, StreamAssoc
    <3> QED BY <1>2, <1>6, <3>1
  <2> QED BY <1>1, <2>1 DEF IInv, UploadInOrder
<1>9. wnd' = (IF client_closed THEN wnd ELSE wnd + n) /\ wnd' \in Nat
  BY <1>2, <1>3, <1>5 DEF Confirm
<1>10. CASE n = Len(buf) /\ client_closed
  <2>1. /\ life' = "freed" /\ client_closed' /\ socks_closed' /\ cbs' = {} /\ sendLen' = 0
        /\ ~recvBusy'
    BY <1>2, <1>10 DEF FreeSocks
  <2>2. client_closed' \in BOOLEAN /\ socks_closed' \in BOOLEAN /\ recvBusy' \in BOOLEAN
    BY <1>2, <1>10 DEF FreeSocks
  <2>3. TypeOK'
    BY <1>1, <1>7, <1>9, <2>1, <2>2 DEF IInv, TypeOK, download
  <2>4. FreshOK' /\ NotUpOK' /\ CallbacksOK' /\ EndedOK' /\ NoCallbackAfterFree'
    BY <2>1 DEF FreshOK, NotUpOK, CallbacksOK, EndedOK, NoCallbackAfterFree
  <2>5. WindowIsRoom' /\ UploadInOrder' /\ DownloadInOrder' /\ NoStall' /\ LingerHasCause'
    BY <2>1 DEF WindowIsRoom, UploadInOrder, DownloadInOrder, NoStall, LingerHasCause
  <2>6. GracefulEnd'
    <3>1. Len(buf') = 0
      BY <1>3, <1>7, <1>10
    <3>2. buf' = <<>>
      BY <1>7, <3>1, EmptySeq
    <3>3. toSocks' = Positions(0, got)
      BY <1>7, <1>8, <3>2, StreamEmpty
    <3>4. ended # {"socks"}
      BY <1>1, <1>10 DEF IInv, EndedOK
    <3> QED BY <1>1, <3>3, <3>4 DEF GracefulEnd
  <2> QED BY <2>3, <2>4, <2>5, <2>6 DEF IInv
<1>11. CASE ~(n = Len(buf) /\ client_closed)
  <2>1. sendLen' = Len(buf') /\ UNCHANGED <<life, client_closed, socks_closed, cbs, recvBusy>>
    BY <1>2, <1>7, <1>11
  <2>2. client_closed => Len(buf') > 0
    BY <1>3, <1>5, <1>7, <1>11
  <2>3. TypeOK'
    BY <1>1, <1>7, <1>9, <2>1 DEF IInv, TypeOK, download
  <2>4. FreshOK' /\ NotUpOK' /\ CallbacksOK' /\ EndedOK' /\ NoCallbackAfterFree'
    BY <1>1, <1>4, <2>1 DEF IInv, FreshOK, NotUpOK, CallbacksOK, EndedOK, NoCallbackAfterFree,
       download
  <2>5. WindowIsRoom'
    <3> SUFFICES ASSUME "recv" \in cbs' PROVE wnd' + Len(buf') = TcpWnd
      BY DEF WindowIsRoom
    <3>1. ~client_closed /\ wnd + Len(buf) = TcpWnd
      BY <2>1, CallbackLive DEF IInv, WindowIsRoom
    <3>2. wnd' = wnd + n /\ Len(buf') = Len(buf) - n
      BY <1>7, <1>9, <3>1
    <3>3. (wnd + n) + (Len(buf) - n) = wnd + Len(buf)
      BY <1>3, <1>5
    <3> QED BY <3>1, <3>2, <3>3
  <2>6. UploadInOrder' /\ DownloadInOrder' /\ GracefulEnd'
    BY <1>1, <1>8, <2>1 DEF IInv, UploadInOrder, DownloadInOrder, GracefulEnd, download
  <2>7. NoStall' /\ LingerHasCause'
    BY <1>1, <2>1, <2>2 DEF IInv, NoStall, LingerHasCause, download
  <2> QED BY <2>3, <2>4, <2>5, <2>6, <2>7 DEF IInv
<1> QED BY <1>10, <1>11

\* Data from SOCKS keeps the invariant, whether the client is there or not.
LEMMA RecvDoneIInv == ASSUME IInv, client_socks_recv_handler_done PROVE IInv'
<1>1. life = "live" /\ ~socks_closed /\ recvBusy /\ UNCHANGED <<upload, acked>>
  BY DEF client_socks_recv_handler_done, SocksOpen
<1>2. PICK n \in 1 .. RecvSize :
        /\ rgot + n <= SocksLen
        /\ rgot' = rgot + n
        /\ \/ /\ client_closed
              /\ recvBusy' = FALSE
              /\ UNCHANGED <<sides, sendLen, rest, waiting, pending, toClient>>
           \/ /\ ~client_closed
              /\ SendOut(Positions(rgot, rgot + n), pending)
  BY DEF client_socks_recv_handler_done
<1>3. /\ n \in Nat /\ n > 0 /\ rgot \in Nat /\ acked \in Nat /\ pending \in Nat
      /\ toClient \in Seq(Nat) /\ rest \in Seq(Nat)
  BY WindowAssumption, StreamAssumption DEF IInv, TypeOK
<1>4. rgot' \in 0 .. SocksLen
  BY <1>2, <1>3, StreamAssumption
<1>5. socks_up
  BY <1>1 DEF IInv, NotUpOK
<1>6. CASE /\ client_closed
           /\ recvBusy' = FALSE
           /\ UNCHANGED <<sides, sendLen, rest, waiting, pending, toClient>>
  <2>1. TypeOK'
    BY <1>1, <1>4, <1>6 DEF IInv, TypeOK, sides, upload
  <2>2. FreshOK' /\ NotUpOK' /\ CallbacksOK' /\ EndedOK' /\ NoCallbackAfterFree' /\ WindowIsRoom'
    BY <1>1, <1>5, <1>6 DEF IInv, FreshOK, NotUpOK, CallbacksOK, EndedOK, NoCallbackAfterFree,
       WindowIsRoom, sides, upload
  <2>3. UploadInOrder' /\ DownloadInOrder' /\ NoStall' /\ LingerHasCause' /\ GracefulEnd'
    BY <1>1, <1>6 DEF IInv, UploadInOrder, DownloadInOrder, NoStall, LingerHasCause,
       GracefulEnd, sides, upload
  <2> QED BY <2>1, <2>2, <2>3 DEF IInv
<1>7. CASE ~client_closed /\ SendOut(Positions(rgot, rgot + n), pending)
  <2> DEFINE r == Positions(rgot, rgot + n)
  <2>1. /\ r \in Seq(Nat) /\ Len(r) = n /\ Positions(0, rgot) \o r = Positions(0, rgot + n)
    BY <1>3, PositionsGrow
  <2>2. r # <<>>
    BY <1>3, <2>1
  <2>3. rest = <<>>
    BY <1>1, <1>5, <1>7 DEF IInv, NoStall
  <2>4. toClient \o rest = Positions(0, rgot) /\ pending + acked' = Len(toClient)
    BY <1>1, <1>7 DEF IInv, DownloadInOrder
  <2>5. toClient \o r = Positions(0, rgot')
    <3>1. toClient = Positions(0, rgot)
      BY <1>3, <2>3, <2>4, StreamEmpty
    <3> QED BY <1>2, <2>1, <3>1
  <2>6. acked' \in Nat /\ UNCHANGED upload
    BY <1>1, <1>3
  <2> HIDE DEF r
  <2>7. SendOut(r, pending)
    BY <1>7 DEF r
  <2> QED BY <1>1, <1>3, <1>4, <1>5, <1>7, <2>1, <2>2, <2>4, <2>5, <2>6, <2>7, SendOutIInv
<1> QED BY <1>2, <1>6, <1>7

\* The shutdown of tun2socks_main keeps the invariant.
LEMMA MurderIInv == ASSUME IInv, client_murder PROVE IInv'
<1> USE DEF client_murder, upload, download
<1>1. TypeOK'
  BY DEF IInv, TypeOK
<1>2. FreshOK' /\ NotUpOK' /\ CallbacksOK' /\ EndedOK' /\ NoCallbackAfterFree' /\ WindowIsRoom'
  BY DEF FreshOK, NotUpOK, CallbacksOK, EndedOK, NoCallbackAfterFree, WindowIsRoom
<1>3. UploadInOrder' /\ DownloadInOrder' /\ NoStall' /\ LingerHasCause' /\ GracefulEnd'
  BY DEF UploadInOrder, DownloadInOrder, NoStall, LingerHasCause, GracefulEnd
<1> QED BY <1>1, <1>2, <1>3 DEF IInv

-----------------------------------------------------------------------------
(* The theorems. *)

\* Every callback keeps the invariant.
LEMMA StepIInv == IInv /\ [Next]_vars => IInv'
<1> SUFFICES ASSUME IInv, [Next]_vars PROVE IInv'
  OBVIOUS
<1>1. CASE listener_accept_func \/ listener_accept_func_fail
  BY <1>1, AcceptIInv
<1>2. CASE client_recv_func
  BY <1>2, RecvIInv
<1>3. CASE client_recv_func_fin \/ client_err_func
  <2>1. life = "live" /\ ~client_closed
    BY <1>3, CallbackLive DEF client_recv_func_fin, client_err_func
  <2>2. HandleFreedClient(recvBusy) /\ UNCHANGED <<socks_up, upload, download>>
    BY <1>3 DEF client_recv_func_fin, client_err_func
  <2>3. /\ recvBusy \in BOOLEAN /\ acked \in Nat /\ rgot \in 0 .. SocksLen
        /\ rest \in Seq(Nat) /\ waiting \in BOOLEAN /\ pending \in Nat /\ toClient \in Seq(Nat)
    BY DEF IInv, TypeOK
  <2>4. recvBusy => socks_up
    BY <2>1 DEF IInv, NotUpOK
  <2>5. /\ UNCHANGED <<socks_up, upload, rest, waiting, pending, toClient>>
        /\ acked' = acked /\ rgot' = rgot
    BY <2>2 DEF download
  <2> QED BY <2>1, <2>2, <2>3, <2>4, <2>5, FreedClientIInv
<1>4. CASE client_sent_func
  BY <1>4, SentIInv
<1>5. CASE client_socks_handler_up
  BY <1>5, UpIInv
<1>6. CASE client_socks_handler_error \/ client_socks_handler_closed
  BY <1>6, FreeSocksIInv DEF client_socks_handler_error, client_socks_handler_closed
<1>7. CASE client_socks_send_handler_done
  BY <1>7, SendDoneIInv
<1>8. CASE client_socks_recv_handler_done
  BY <1>8, RecvDoneIInv
<1>9. CASE client_murder
  BY <1>9, MurderIInv
<1>10. CASE UNCHANGED vars
  <2> USE <1>10 DEF vars, sides, upload, download
  <2>1. TypeOK' /\ FreshOK' /\ NotUpOK'
    BY DEF IInv, TypeOK, FreshOK, NotUpOK
  <2>2. CallbacksOK' /\ EndedOK' /\ NoCallbackAfterFree' /\ WindowIsRoom'
    BY DEF IInv, CallbacksOK, EndedOK, NoCallbackAfterFree, WindowIsRoom
  <2>3. UploadInOrder' /\ DownloadInOrder' /\ NoStall' /\ LingerHasCause' /\ GracefulEnd'
    BY DEF IInv, UploadInOrder, DownloadInOrder, NoStall, LingerHasCause, GracefulEnd
  <2> QED BY <2>1, <2>2, <2>3 DEF IInv
<1> QED
  BY <1>1, <1>2, <1>3, <1>4, <1>5, <1>6, <1>7, <1>8, <1>9, <1>10 DEF Next

\* IInv holds in every state of every intercepted connection.
THEOREM Invariance == Spec => []IInv
<1>1. Init => IInv
  BY InitIInv
<1>2. IInv /\ [Next]_vars => IInv'
  BY StepIInv
<1> QED BY <1>1, <1>2, PTL DEF Spec

\* The fields of struct tcp_client keep their types; no counter goes negative.
THEOREM TypeCorrect == Spec => []TypeOK
<1>1. IInv => TypeOK
  BY DEF IInv
<1> QED BY <1>1, Invariance, PTL

\* No callback of lwIP or of BSocksClient reaches a side that was let go.
THEOREM CallbacksGone == Spec => []NoCallbackAfterFree
<1>1. IInv => NoCallbackAfterFree
  BY DEF IInv
<1> QED BY <1>1, Invariance, PTL

\* client_recv_func always has room for what the window lets through.
THEOREM WindowExact == Spec => []WindowIsRoom
<1>1. IInv => WindowIsRoom
  BY DEF IInv
<1> QED BY <1>1, Invariance, PTL

\* No byte of either direction is lost, duplicated or reordered.
THEOREM StreamsInOrder == Spec => [](UploadInOrder /\ DownloadInOrder)
<1>1. IInv => UploadInOrder /\ DownloadInOrder
  BY DEF IInv
<1> QED BY <1>1, Invariance, PTL

\* With both sides up, data is always being sent, read or waited for.
THEOREM NeverStalls == Spec => []NoStall
<1>1. IInv => NoStall
  BY DEF IInv
<1> QED BY <1>1, Invariance, PTL

\* A connection that has lost a side always has an event due that ends it.
THEOREM LingerJustified == Spec => []LingerHasCause
<1>1. IInv => LingerHasCause
  BY DEF IInv
<1> QED BY <1>1, Invariance, PTL

\* A side that ends the connection alone has all its data delivered.
THEOREM EndsGracefully == Spec => []GracefulEnd
<1>1. IInv => GracefulEnd
  BY DEF IInv
<1> QED BY <1>1, Invariance, PTL

-----------------------------------------------------------------------------
(* Refinement: both directions implement Relay. *)

\* The instances compute positions like this module.
LEMMA SamePositions ==
  \A a, b : Up!Positions(a, b) = Positions(a, b) /\ Down!Positions(a, b) = Positions(a, b)
BY DEF Up!Positions, Down!Positions, Positions

\* What a completed send does to the upload.
LEMMA SendDoneData ==
  ASSUME IInv, client_socks_send_handler_done
  PROVE  /\ ~socks_closed /\ got' = got /\ toSocks' \in Seq(Nat) /\ buf' \in Seq(Nat)
         /\ toSocks' \o buf' = Positions(0, got') /\ Len(toSocks) <= Len(toSocks')
<1>1. life = "live" /\ ~socks_closed /\ got' = got
  BY DEF client_socks_send_handler_done, SocksOpen
<1>2. PICK n \in 1 .. sendLen : toSocks' = toSocks \o SubSeq(buf, 1, n) /\ buf' = After(buf, n)
  BY DEF client_socks_send_handler_done
<1>3. /\ sendLen \in Nat /\ buf \in Seq(Nat) /\ Len(buf) \in Nat /\ toSocks \in Seq(Nat)
      /\ Len(toSocks) \in Nat
  BY DEF IInv, TypeOK
<1>4. sendLen <= Len(buf)
  <2>1. socks_up
    <3>1. sendLen > 0
      BY <1>2, <1>3
    <3> QED BY <1>1, <3>1 DEF IInv, NotUpOK
  <2> QED BY <1>1, <1>3, <2>1 DEF IInv, NoStall
<1>5. n \in 0 .. Len(buf)
  BY <1>2, <1>3, <1>4
<1>6. /\ SubSeq(buf, 1, n) \in Seq(Nat) /\ After(buf, n) \in Seq(Nat)
      /\ SubSeq(buf, 1, n) \o After(buf, n) = buf /\ Len(SubSeq(buf, 1, n)) = n
  BY <1>3, <1>5, AfterSplit
<1>7. toSocks' \in Seq(Nat) /\ Len(toSocks') = Len(toSocks) + n
  BY <1>2, <1>3, <1>6, StreamConcat
<1>8. (toSocks \o SubSeq(buf, 1, n)) \o After(buf, n) = toSocks \o (SubSeq(buf, 1, n) \o After(buf, n))
  BY <1>3, <1>6, StreamAssoc
<1>9. toSocks \o buf = Positions(0, got)
  BY <1>1 DEF IInv, UploadInOrder
<1>10. Len(toSocks) <= Len(toSocks')
  BY <1>3, <1>5, <1>7
<1> QED BY <1>1, <1>2, <1>6, <1>7, <1>8, <1>9, <1>10

\* Every step receives and delivers like the relay, or does neither.
LEMMA UpStep == IInv /\ IInv' /\ [Next]_vars => [Up!Move]_<<got, toSocks>>
<1> SUFFICES ASSUME IInv, IInv', [Next]_vars PROVE [Up!Move]_<<got, toSocks>>
  OBVIOUS
<1>1. CASE client_recv_func \/ client_socks_send_handler_done
  <2>1. /\ toSocks' \in Seq(Nat) /\ buf' \in Seq(Nat) /\ got \in Nat /\ got' \in 0 .. ClientLen
        /\ Len(toSocks) \in Nat /\ got' \in Nat
    BY StreamAssumption DEF IInv, TypeOK
  <2>2. got <= got' /\ toSocks' \o buf' = Positions(0, got') /\ Len(toSocks) <= Len(toSocks')
    <3>1. CASE client_recv_func
      <4>1. toSocks' = toSocks /\ got <= got'
        <5>1. PICK n \in 1 .. wnd : got' = got + n
          BY <3>1 DEF client_recv_func
        <5>2. got <= got'
          BY <2>1, <5>1
        <5> QED BY <3>1, <5>2 DEF client_recv_func
      <4>2. ~socks_closed'
        BY <3>1, CallbackLive DEF client_recv_func, sides, IInv, CallbacksOK
      <4> QED BY <2>1, <4>1, <4>2 DEF IInv, UploadInOrder
    <3>2. CASE client_socks_send_handler_done
      BY <2>1, <3>2, SendDoneData
    <3> QED BY <1>1, <3>1, <3>2
  <2>3. toSocks' = Positions(0, Len(toSocks')) /\ Len(toSocks') \in Nat /\ Len(toSocks') <= got'
    BY <2>1, <2>2, PositionsPrefix
  <2>4. got' \in got .. ClientLen /\ Len(toSocks') \in Len(toSocks) .. got'
    BY <2>1, <2>2, <2>3, StreamAssumption
  <2> QED BY <2>3, <2>4, SamePositions DEF Up!Move
<1>2. CASE ~(client_recv_func \/ client_socks_send_handler_done)
  <2>1. UNCHANGED <<got, toSocks>>
    BY <1>2 DEF Next, vars, upload, listener_accept_func, listener_accept_func_fail,
       client_recv_func_fin, client_err_func, client_sent_func, client_socks_handler_up,
       client_socks_handler_error, client_socks_handler_closed,
       client_socks_recv_handler_done, client_murder
  <2> QED BY <2>1
<1> QED BY <1>1, <1>2

\* The upload of a connection implements the abstract relay.
THEOREM UploadRefines == Spec => UploadRelays
<1>1. Init => Up!Init
  BY DEF Init, Up!Init
<1>2. IInv /\ IInv' /\ [Next]_vars => [Up!Move]_<<got, toSocks>>
  BY UpStep
<1> QED BY <1>1, <1>2, Invariance, PTL DEF Spec, UploadRelays, Up!Spec

\* What a step does to the download.
LEMMA DownData ==
  ASSUME IInv, IInv', [Next]_vars
  PROVE  /\ rgot <= rgot'
         /\ \/ toClient' = toClient
            \/ /\ Len(toClient) <= Len(toClient')
               /\ toClient' \o rest' = Positions(0, rgot')
<1>0. rgot \in Nat /\ rgot' \in Nat /\ toClient \in Seq(Nat) /\ rest \in Seq(Nat)
  BY StreamAssumption DEF IInv, TypeOK
<1>1. ASSUME NEW r \in Seq(Nat), NEW pend, SendOut(r, pend), toClient \o r = Positions(0, rgot')
      PROVE  /\ Len(toClient) <= Len(toClient')
             /\ toClient' \o rest' = Positions(0, rgot')
  <2>1. PICK m \in 0 .. Len(r) :
          toClient' = toClient \o SubSeq(r, 1, m) /\ rest' = After(r, m)
    BY <1>1 DEF SendOut
  <2>2. /\ SubSeq(r, 1, m) \in Seq(Nat) /\ Len(SubSeq(r, 1, m)) = m
        /\ After(r, m) \in Seq(Nat) /\ SubSeq(r, 1, m) \o After(r, m) = r
    BY <1>1, AfterSplit
  <2>3. Len(toClient') = Len(toClient) + m /\ Len(toClient) \in Nat /\ m \in Nat
    BY <1>0, <2>1, <2>2, StreamConcat
  <2>4. (toClient \o SubSeq(r, 1, m)) \o After(r, m)
          = toClient \o (SubSeq(r, 1, m) \o After(r, m))
    BY <1>0, <2>2, StreamAssoc
  <2>5. Len(toClient) <= Len(toClient')
    BY <2>3
  <2>6. toClient' \o rest' = Positions(0, rgot')
    BY <1>1, <2>1, <2>2, <2>4
  <2> QED BY <2>5, <2>6
<1>2. CASE client_socks_recv_handler_done
  <2>1. PICK n \in 1 .. RecvSize :
          /\ rgot' = rgot + n
          /\ \/ toClient' = toClient
             \/ ~client_closed /\ SendOut(Positions(rgot, rgot + n), pending)
    BY <1>2 DEF client_socks_recv_handler_done
  <2>2. n \in Nat /\ rgot <= rgot' /\ life = "live"
    BY <1>0, <1>2, <2>1, WindowAssumption DEF client_socks_recv_handler_done, SocksOpen
  <2>3. /\ Positions(rgot, rgot + n) \in Seq(Nat)
        /\ Positions(0, rgot) \o Positions(rgot, rgot + n) = Positions(0, rgot + n)
    BY <1>0, <2>2, PositionsGrow
  <2>4. ASSUME ~client_closed PROVE toClient = Positions(0, rgot)
    <3>1. recvBusy /\ ~socks_closed
      BY <1>2 DEF client_socks_recv_handler_done, SocksOpen
    <3>2. rest = <<>>
      BY <2>2, <2>4, <3>1 DEF IInv, NoStall, NotUpOK
    <3>3. toClient \o rest = Positions(0, rgot)
      BY <2>2, <2>4 DEF IInv, DownloadInOrder
    <3> QED BY <1>0, <3>2, <3>3, StreamEmpty
  <2>5. ~client_closed => toClient \o Positions(rgot, rgot + n) = Positions(0, rgot')
    BY <2>1, <2>3, <2>4
  <2> QED BY <1>1, <2>1, <2>2, <2>3, <2>5
<1>3. CASE client_sent_func
  <2>1. life = "live" /\ ~client_closed /\ rgot' = rgot
    BY <1>3, CallbackLive DEF client_sent_func
  <2>2. toClient' = toClient \/ \E n \in Nat : SendOut(rest, pending - n)
    <3>1. Len(toClient) \in Nat /\ acked \in Nat
      BY DEF IInv, TypeOK
    <3>2. \A n \in 1 .. (Len(toClient) - acked) : n \in Nat
      BY <3>1
    <3> QED BY <1>3, <3>2 DEF client_sent_func
  <2>3. rgot <= rgot'
    BY <1>0, <2>1
  <2>4. toClient \o rest = Positions(0, rgot')
    BY <2>1 DEF IInv, DownloadInOrder
  <2> QED BY <1>0, <1>1, <2>2, <2>3, <2>4
<1>4. CASE ~(client_socks_recv_handler_done \/ client_sent_func)
  <2>1. UNCHANGED <<rgot, toClient>>
    BY <1>4 DEF Next, vars, download, listener_accept_func, listener_accept_func_fail,
       client_recv_func, client_recv_func_fin, client_err_func, client_socks_handler_up,
       client_socks_handler_error, client_socks_handler_closed,
       client_socks_send_handler_done, client_murder
  <2>2. rgot <= rgot'
    BY <1>0, <2>1
  <2> QED BY <2>1, <2>2
<1> QED BY <1>2, <1>3, <1>4

\* The download keeps delivering a prefix, and moves like the relay.
LEMMA DownStep ==
  IInv /\ IInv' /\ DeliveredOK /\ [Next]_vars => DeliveredOK' /\ [Down!Move]_<<rgot, toClient>>
<1> SUFFICES ASSUME IInv, IInv', DeliveredOK, [Next]_vars
             PROVE  DeliveredOK' /\ Down!Move
  OBVIOUS
<1>1. /\ rgot \in Nat /\ rgot' \in 0 .. SocksLen /\ rgot' \in Nat /\ Len(toClient) \in Nat
      /\ toClient' \in Seq(Nat) /\ rest' \in Seq(Nat)
  BY StreamAssumption DEF IInv, TypeOK
<1>2. rgot <= rgot'
  BY DownData
<1>3. /\ toClient' = Positions(0, Len(toClient')) /\ Len(toClient') \in Nat
      /\ Len(toClient') <= rgot' /\ Len(toClient) <= Len(toClient')
  <2>1. CASE toClient' = toClient
    <3>1. toClient' = Positions(0, Len(toClient')) /\ Len(toClient') = Len(toClient)
      BY <2>1 DEF DeliveredOK
    <3>2. Len(toClient) <= rgot
      BY DEF DeliveredOK
    <3> QED BY <1>1, <1>2, <3>1, <3>2
  <2>2. CASE Len(toClient) <= Len(toClient') /\ toClient' \o rest' = Positions(0, rgot')
    BY <1>1, <2>2, PositionsPrefix
  <2> QED BY <2>1, <2>2, DownData
<1>4. rgot' \in rgot .. SocksLen /\ Len(toClient') \in Len(toClient) .. rgot'
  BY <1>1, <1>2, <1>3, StreamAssumption
<1> QED BY <1>3, <1>4, SamePositions DEF Down!Move, DeliveredOK

\* The download of a connection implements the abstract relay.
THEOREM DownloadRefines == Spec => DownloadRelays
<1>1. Init => Down!Init /\ DeliveredOK
  <2>1. Positions(0, 0) = <<>> /\ Len(<<>>) = 0
    BY DEF Positions
  <2> QED BY <2>1 DEF Init, Down!Init, DeliveredOK
<1>2. IInv /\ IInv' /\ DeliveredOK /\ [Next]_vars
        => DeliveredOK' /\ [Down!Move]_<<rgot, toClient>>
  BY DownStep
<1> QED BY <1>1, <1>2, Invariance, PTL DEF Spec, DownloadRelays, Down!Spec

=============================================================================
