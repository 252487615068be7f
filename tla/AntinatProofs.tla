--------------------------- MODULE AntinatProofs ---------------------------
(* Safety of Antinat's threads, for any finite number of connections. *)
EXTENDS Antinat, FiniteSetTheorems, TLAPS

\* The connections that hold a reference can be counted.
LEMMA HoldersFinite ==
  \A f \in [Conns -> BOOLEAN] :
    IsFiniteSet(Holders(f)) /\ Cardinality(Holders(f)) \in Nat
<1> SUFFICES ASSUME NEW f \in [Conns -> BOOLEAN]
             PROVE  IsFiniteSet(Holders(f)) /\ Cardinality(Holders(f)) \in Nat
  OBVIOUS
<1>1. Holders(f) \in SUBSET Conns
  BY DEF Holders
<1>2. IsFiniteSet(Holders(f))
  BY <1>1, ConnsAssumption, FS_Subset
<1> QED BY <1>2, FS_CardinalityType

\* A conn_t that is allocated is one more.
LEMMA HoldersAdd ==
  \A f \in [Conns -> BOOLEAN], c \in Conns :
    ~f[c] => Cardinality(Holders([f EXCEPT ![c] = TRUE])) = Cardinality(Holders(f)) + 1
<1> SUFFICES ASSUME NEW f \in [Conns -> BOOLEAN], NEW c \in Conns, ~f[c]
             PROVE  Cardinality(Holders([f EXCEPT ![c] = TRUE])) = Cardinality(Holders(f)) + 1
  OBVIOUS
<1>1. Holders([f EXCEPT ![c] = TRUE]) = Holders(f) \cup {c} /\ c \notin Holders(f)
  BY DEF Holders
<1> QED BY <1>1, HoldersFinite, FS_AddElement

\* One that is freed is one less, and there was one.
LEMMA HoldersRemove ==
  \A f \in [Conns -> BOOLEAN], c \in Conns :
    f[c] => /\ Cardinality(Holders(f)) > 0
            /\ Cardinality(Holders([f EXCEPT ![c] = FALSE])) = Cardinality(Holders(f)) - 1
<1> SUFFICES ASSUME NEW f \in [Conns -> BOOLEAN], NEW c \in Conns, f[c]
             PROVE  /\ Cardinality(Holders(f)) > 0
                    /\ Cardinality(Holders([f EXCEPT ![c] = FALSE])) = Cardinality(Holders(f)) - 1
  OBVIOUS
<1>1. Holders([f EXCEPT ![c] = FALSE]) = Holders(f) \ {c} /\ c \in Holders(f)
  BY DEF Holders
<1>2. Cardinality(Holders(f)) # 0
  BY <1>1, HoldersFinite, FS_EmptySet
<1>3. Cardinality(Holders(f)) \in Nat
  BY HoldersFinite
<1>4. Cardinality(Holders(f) \ {c}) = Cardinality(Holders(f)) - 1
  BY <1>1, HoldersFinite, FS_RemoveElement
<1>5. Cardinality(Holders(f)) > 0
  BY <1>2, <1>3
<1> QED BY <1>1, <1>4, <1>5

\* While a conn_t is allocated, or closeup has not dropped the server's own
\* reference, the configuration is there.
LEMMA ConfThere ==
  ASSUME IInv, ~touched, stop # "done" \/ \E c \in Conns : live[c]
  PROVE  refcount > 0
<1>1. Cardinality(Holders(live)) \in Nat
  BY HoldersFinite DEF IInv, TypeOK
<1>2. refcount = Cardinality(Holders(live)) + (IF stop = "done" THEN 0 ELSE 1)
  BY DEF IInv, RefcountExact
<1>3. CASE stop # "done"
  BY <1>1, <1>2, <1>3
<1>4. CASE \E c \in Conns : live[c]
  <2>1. Cardinality(Holders(live)) > 0
    BY <1>4, HoldersRemove DEF IInv, TypeOK
  <2> QED BY <1>1, <1>2, <2>1
<1> QED BY <1>3, <1>4

\* The accept loop's own steps keep the invariant.
LEMMA LoopIInv ==
  ASSUME IInv, realapp \/ while_active \/ accept_fail
  PROVE  IInv'
<1>1. CASE realapp
  <2>1. TypeOK'
    BY <1>1 DEF IInv, TypeOK, realapp, conf, threads
  <2>2. LoopOK'
    BY <1>1 DEF IInv, TypeOK, LoopOK, realapp, conf, threads
  <2>3. LateOK'
    BY <1>1 DEF IInv, TypeOK, LoopOK, LateOK, realapp, conf, threads
  <2>4. ConnHandedOver'
    BY <1>1 DEF IInv, TypeOK, ConnOK, ConnHandedOver, realapp, conf, threads
  <2>5. \A d \in Conns : ConnOK(d)'
    BY <1>1 DEF IInv, TypeOK, LoopOK, ConnOK, realapp, conf, threads
  <2>6. RefcountExact' /\ ConfOutlivesUsers'
    BY <1>1 DEF IInv, RefcountExact, ConfOutlivesUsers, realapp, conf, threads
  <2> QED BY <2>1, <2>2, <2>3, <2>4, <2>5, <2>6 DEF IInv
<1>2. CASE while_active
  <2>1. TypeOK'
    BY <1>2 DEF IInv, TypeOK, while_active, KeepAccepting, conf, threads
  <2>2. LoopOK'
    BY <1>2 DEF IInv, TypeOK, LoopOK, while_active, KeepAccepting, conf, threads
  <2>3. LateOK'
    BY <1>2 DEF IInv, TypeOK, LoopOK, LateOK, while_active, KeepAccepting, conf, threads
  <2>4. ConnHandedOver'
    BY <1>2 DEF IInv, TypeOK, ConnOK, ConnHandedOver, while_active, KeepAccepting, conf, threads
  <2>5. \A d \in Conns : ConnOK(d)'
    BY <1>2 DEF IInv, TypeOK, LoopOK, ConnOK, while_active, KeepAccepting, conf, threads
  <2>6. RefcountExact' /\ ConfOutlivesUsers'
    BY <1>2 DEF IInv, RefcountExact, ConfOutlivesUsers, while_active, KeepAccepting, conf,
       threads
  <2> QED BY <2>1, <2>2, <2>3, <2>4, <2>5, <2>6 DEF IInv
<1>3. CASE accept_fail
  <2>1. TypeOK'
    BY <1>3 DEF IInv, TypeOK, accept_fail, conf, threads
  <2>2. LoopOK'
    BY <1>3 DEF IInv, TypeOK, LoopOK, accept_fail, conf, threads
  <2>3. LateOK'
    BY <1>3 DEF IInv, TypeOK, LoopOK, LateOK, accept_fail, conf, threads
  <2>4. ConnHandedOver'
    BY <1>3 DEF IInv, TypeOK, ConnOK, ConnHandedOver, accept_fail, conf, threads
  <2>5. \A d \in Conns : ConnOK(d)'
    BY <1>3 DEF IInv, TypeOK, LoopOK, ConnOK, accept_fail, conf, threads
  <2>6. RefcountExact' /\ ConfOutlivesUsers'
    BY <1>3 DEF IInv, RefcountExact, ConfOutlivesUsers, accept_fail, conf, threads
  <2> QED BY <2>1, <2>2, <2>3, <2>4, <2>5, <2>6 DEF IInv
<1> QED BY <1>1, <1>2, <1>3

\* closeup keeps it, whenever it comes, and so does the end of the process.
LEMMA CloseupIInv ==
  ASSUME IInv, closeup_flag \/ closeup_dereference \/ Abort
  PROVE  IInv'
<1>1. CASE closeup_flag
  <2>1. TypeOK'
    BY <1>1 DEF IInv, TypeOK, closeup_flag, conf, threads
  <2>2. LoopOK'
    BY <1>1 DEF IInv, TypeOK, LoopOK, closeup_flag, conf, threads
  <2>3. LateOK'
    BY <1>1 DEF IInv, TypeOK, LoopOK, LateOK, closeup_flag, conf, threads
  <2>4. ConnHandedOver'
    BY <1>1 DEF IInv, TypeOK, ConnOK, ConnHandedOver, closeup_flag, conf, threads
  <2>5. \A d \in Conns : ConnOK(d)'
    BY <1>1 DEF IInv, TypeOK, LoopOK, ConnOK, closeup_flag, conf, threads
  <2>6. RefcountExact' /\ ConfOutlivesUsers'
    BY <1>1 DEF IInv, RefcountExact, ConfOutlivesUsers, closeup_flag, conf, threads
  <2> QED BY <2>1, <2>2, <2>3, <2>4, <2>5, <2>6 DEF IInv
<1>2. CASE closeup_dereference
  <2>1. TypeOK'
    BY <1>2 DEF IInv, TypeOK, closeup_dereference, config_dereference, main, threads
  <2>2. LoopOK'
    BY <1>2 DEF IInv, TypeOK, LoopOK, closeup_dereference, config_dereference, main, threads
  <2>3. LateOK'
    BY <1>2 DEF IInv, TypeOK, LoopOK, LateOK, closeup_dereference, config_dereference, main,
       threads
  <2>4. ConnHandedOver'
    BY <1>2 DEF IInv, TypeOK, ConnOK, ConnHandedOver, closeup_dereference, config_dereference,
       main, threads
  <2>5. \A d \in Conns : ConnOK(d)'
    BY <1>2 DEF IInv, TypeOK, LoopOK, ConnOK, closeup_dereference, config_dereference, main,
       threads
  <2>6. RefcountExact' /\ ConfOutlivesUsers'
    <3>1. touched' = touched /\ live' = live /\ late' = late
      BY <1>2, ConfThere DEF IInv, TypeOK, closeup_dereference, config_dereference, main,
         threads
    <3>2. ~touched => refcount' = refcount - 1
      BY <1>2, ConfThere DEF IInv, TypeOK, closeup_dereference, config_dereference, main,
         threads
    <3>3. Cardinality(Holders(live)) \in Nat
      BY HoldersFinite DEF IInv, TypeOK
    <3>4. stop = "flagged" /\ stop' = "done"
      BY <1>2 DEF closeup_dereference
    <3>5. RefcountExact'
      BY <3>1, <3>2, <3>3, <3>4 DEF IInv, RefcountExact
    <3> QED BY <3>1, <3>5 DEF IInv, ConfOutlivesUsers
  <2> QED BY <2>1, <2>2, <2>3, <2>4, <2>5, <2>6 DEF IInv
<1>3. CASE Abort
  <2>1. TypeOK'
    BY <1>3 DEF IInv, TypeOK, Abort, main, conf, threads
  <2>2. LoopOK'
    BY <1>3 DEF IInv, TypeOK, LoopOK, Abort, main, conf, threads
  <2>3. LateOK'
    BY <1>3 DEF IInv, TypeOK, LoopOK, LateOK, Abort, main, conf, threads
  <2>4. ConnHandedOver'
    BY <1>3 DEF IInv, TypeOK, ConnOK, ConnHandedOver, Abort, main, conf, threads
  <2>5. \A d \in Conns : ConnOK(d)'
    BY <1>3 DEF IInv, TypeOK, LoopOK, ConnOK, Abort, main, conf, threads
  <2>6. RefcountExact' /\ ConfOutlivesUsers'
    BY <1>3 DEF IInv, RefcountExact, ConfOutlivesUsers, Abort, main, conf, threads
  <2> QED BY <2>1, <2>2, <2>3, <2>4, <2>5, <2>6 DEF IInv
<1> QED BY <1>1, <1>2, <1>3

\* A connection that is accepted keeps it.
LEMMA AcceptIInv ==
  ASSUME IInv, NEW c \in Conns, accept(c)
  PROVE  IInv'
<1>1. TypeOK'
  BY DEF IInv, TypeOK, accept, conf, Sockets, Pipe
<1>2. LoopOK'
  BY DEF IInv, TypeOK, LoopOK, accept, conf, Sockets, Pipe
<1>3. LateOK'
  BY DEF IInv, TypeOK, LoopOK, LateOK, accept, conf, Sockets, Pipe
<1>4. ConnHandedOver'
  BY DEF IInv, TypeOK, ConnOK, ConnHandedOver, accept, conf, Sockets, Pipe
<1>5. \A d \in Conns : ConnOK(d)'
  <2> SUFFICES ASSUME NEW d \in Conns PROVE ConnOK(d)'
    OBVIOUS
  <2>1. CASE d = c
    <3>1. ConnOK(c) /\ c \notin cur /\ fds[c] = {} /\ fwd[c] = "none"
      BY DEF IInv, TypeOK, LoopOK, ConnOK, accept
    <3> QED BY <2>1, <3>1 DEF IInv, TypeOK, LoopOK, ConnOK, accept, conf, Sockets, Pipe
  <2>2. CASE d # c
    BY <2>2 DEF IInv, TypeOK, LoopOK, ConnOK, accept, conf, Sockets, Pipe
  <2> QED BY <2>1, <2>2
<1>6. RefcountExact' /\ ConfOutlivesUsers'
  BY DEF IInv, RefcountExact, ConfOutlivesUsers, accept, conf, Sockets, Pipe
<1> QED BY <1>1, <1>2, <1>3, <1>4, <1>5, <1>6 DEF IInv

\* HandleRequest keeps it, with or without a thread in the end.
LEMMA HandleRequestIInv ==
  ASSUME IInv, NEW c \in Conns, Accepting(c)
  PROVE  IInv'
<1>1. CASE HandleRequest_reference(c)
  <2>1. TypeOK'
    BY <1>1 DEF IInv, TypeOK, HandleRequest_reference, config_reference
  <2>2. LoopOK'
    BY <1>1 DEF IInv, TypeOK, LoopOK, HandleRequest_reference, config_reference
  <2>3. LateOK'
    BY <1>1 DEF IInv, TypeOK, LoopOK, LateOK, HandleRequest_reference, config_reference
  <2>4. ConnHandedOver'
    BY <1>1 DEF IInv, TypeOK, ConnOK, ConnHandedOver, HandleRequest_reference, config_reference
  <2>5. \A d \in Conns : ConnOK(d)'
    BY <1>1 DEF IInv, TypeOK, LoopOK, ConnOK, HandleRequest_reference, config_reference
  <2>6. RefcountExact' /\ ConfOutlivesUsers'
    <3>1. ~live[c] /\ live' = [live EXCEPT ![c] = TRUE] /\ stop' = stop
      BY <1>1 DEF IInv, LoopOK, ConnOK, HandleRequest_reference, config_reference
    <3>2. Cardinality(Holders(live')) = Cardinality(Holders(live)) + 1
      BY <3>1, HoldersAdd DEF IInv, TypeOK
    <3>3. ~touched' => ~touched /\ refcount' = refcount + 1
      BY <1>1 DEF IInv, TypeOK, HandleRequest_reference, config_reference
    <3>4. touched' => late' # {}
      <4>1. CASE stop = "done"
        BY <1>1, <4>1 DEF HandleRequest_reference, config_reference
      <4>2. CASE stop # "done"
        BY <1>1, <4>2, ConfThere DEF IInv, TypeOK, ConfOutlivesUsers, HandleRequest_reference,
           config_reference
      <4> QED BY <4>1, <4>2
    <3>5. Cardinality(Holders(live)) \in Nat
      BY HoldersFinite DEF IInv, TypeOK
    <3>6. RefcountExact'
      BY <3>1, <3>2, <3>3, <3>5 DEF IInv, RefcountExact
    <3> QED BY <3>4, <3>6 DEF ConfOutlivesUsers
  <2> QED BY <2>1, <2>2, <2>3, <2>4, <2>5, <2>6 DEF IInv
<1>2. CASE HandleRequest_thread(c)
  <2>1. TypeOK'
    BY <1>2 DEF IInv, TypeOK, HandleRequest_thread, conf
  <2>2. LoopOK'
    BY <1>2 DEF IInv, TypeOK, LoopOK, HandleRequest_thread, conf
  <2>3. LateOK'
    BY <1>2 DEF IInv, TypeOK, LoopOK, LateOK, HandleRequest_thread, conf
  <2>4. ConnHandedOver'
    BY <1>2 DEF IInv, TypeOK, ConnOK, ConnHandedOver, HandleRequest_thread, conf
  <2>5. \A d \in Conns : ConnOK(d)'
    BY <1>2 DEF IInv, TypeOK, LoopOK, ConnOK, HandleRequest_thread, conf
  <2>6. RefcountExact' /\ ConfOutlivesUsers'
    BY <1>2 DEF IInv, RefcountExact, ConfOutlivesUsers, HandleRequest_thread, conf
  <2> QED BY <2>1, <2>2, <2>3, <2>4, <2>5, <2>6 DEF IInv
<1>3. CASE HandleRequest_fail(c)
  <2>1. TypeOK'
    BY <1>3 DEF IInv, TypeOK, HandleRequest_fail, config_dereference, Sockets, Pipe
  <2>2. LoopOK'
    BY <1>3 DEF IInv, TypeOK, LoopOK, HandleRequest_fail, config_dereference, Sockets, Pipe
  <2>3. LateOK'
    BY <1>3 DEF IInv, TypeOK, LoopOK, LateOK, HandleRequest_fail, config_dereference, Sockets,
       Pipe
  <2>4. ConnHandedOver'
    BY <1>3 DEF IInv, TypeOK, ConnOK, ConnHandedOver, HandleRequest_fail, config_dereference,
       Sockets, Pipe
  <2>5. \A d \in Conns : ConnOK(d)'
    BY <1>3 DEF IInv, TypeOK, LoopOK, ConnOK, Forwarding, HandleRequest_fail, config_dereference, Sockets,
       Pipe
  <2>6. RefcountExact' /\ ConfOutlivesUsers'
    <3>1. live[c]
      BY <1>3 DEF IInv, TypeOK, LoopOK, ConnOK, HandleRequest_fail, config_dereference, Sockets,
         Pipe
    <3>2. touched' = touched
      BY <1>3, <3>1, ConfThere DEF IInv, TypeOK, HandleRequest_fail, config_dereference,
         Sockets, Pipe
    <3>3. live' = [live EXCEPT ![c] = FALSE] /\ stop' = stop /\ late' = late
      BY <1>3 DEF HandleRequest_fail, config_dereference, Sockets, Pipe
    <3>4. Cardinality(Holders(live')) = Cardinality(Holders(live)) - 1
      BY <3>1, <3>3, HoldersRemove DEF IInv, TypeOK
    <3>5. ~touched => refcount' = refcount - 1
      BY <1>3, <3>1, ConfThere DEF IInv, TypeOK, HandleRequest_fail, config_dereference,
         Sockets, Pipe
    <3>6. Cardinality(Holders(live)) \in Nat
      BY HoldersFinite DEF IInv, TypeOK
    <3>7. RefcountExact'
      BY <3>2, <3>3, <3>4, <3>5, <3>6 DEF IInv, RefcountExact
    <3> QED BY <3>2, <3>3, <3>7 DEF IInv, ConfOutlivesUsers
  <2> QED BY <2>1, <2>2, <2>3, <2>4, <2>5, <2>6 DEF IInv
<1> QED BY <1>1, <1>2, <1>3 DEF Accepting

\* The child keeps it while it reads and connects.
LEMMA HandshakeIInv ==
  ASSUME IInv, NEW c \in Conns,
         \/ socks5_request(c) \/ socks5_request_fail(c)
         \/ socks5_cmd_conn(c) \/ socks5_cmd_conn_fail(c)
  PROVE  IInv'
<1>1. CASE socks5_request(c)
  <2>1. TypeOK'
    BY <1>1 DEF IInv, TypeOK, socks5_request, UseConf, Step, Touches, main
  <2>2. LoopOK'
    BY <1>1 DEF IInv, TypeOK, LoopOK, socks5_request, UseConf, Step, Touches, main
  <2>3. LateOK'
    BY <1>1 DEF IInv, TypeOK, LoopOK, LateOK, socks5_request, UseConf, Step, Touches, main
  <2>4. ConnHandedOver'
    BY <1>1 DEF IInv, TypeOK, ConnOK, ConnHandedOver, socks5_request, UseConf, Step, Touches,
       main
  <2>5. \A d \in Conns : ConnOK(d)'
    BY <1>1 DEF IInv, TypeOK, LoopOK, ConnOK, socks5_request, UseConf, Step, Touches, main
  <2>6. RefcountExact' /\ ConfOutlivesUsers'
    <3>1. live[c]
      BY <1>1 DEF IInv, TypeOK, ConnOK, socks5_request, UseConf, Step, Touches, main
    <3>2. touched' = touched
      BY <1>1, <3>1, ConfThere DEF IInv, TypeOK, socks5_request, UseConf, Step, Touches, main
    <3> QED BY <1>1, <3>2 DEF IInv, RefcountExact, ConfOutlivesUsers, socks5_request, UseConf,
               Step, Touches, main
  <2> QED BY <2>1, <2>2, <2>3, <2>4, <2>5, <2>6 DEF IInv
<1>2. CASE socks5_request_fail(c)
  <2>1. TypeOK'
    BY <1>2 DEF IInv, TypeOK, socks5_request_fail, barfed, config_dereference, Step, Touches,
       main
  <2>2. LoopOK'
    BY <1>2 DEF IInv, TypeOK, LoopOK, socks5_request_fail, barfed, config_dereference, Step,
       Touches, main
  <2>3. LateOK'
    BY <1>2 DEF IInv, TypeOK, LoopOK, LateOK, socks5_request_fail, barfed, config_dereference,
       Step, Touches, main
  <2>4. ConnHandedOver'
    BY <1>2 DEF IInv, TypeOK, ConnOK, ConnHandedOver, socks5_request_fail, barfed,
       config_dereference, Step, Touches, main
  <2>5. \A d \in Conns : ConnOK(d)'
    BY <1>2 DEF IInv, TypeOK, LoopOK, ConnOK, Forwarding, socks5_request_fail, barfed, config_dereference,
       Step, Touches, main
  <2>6. RefcountExact' /\ ConfOutlivesUsers'
    <3>1. live[c]
      BY <1>2 DEF IInv, TypeOK, LoopOK, ConnOK, socks5_request_fail, barfed, config_dereference,
         Step, Touches, main
    <3>2. touched' = touched
      BY <1>2, <3>1, ConfThere DEF IInv, TypeOK, socks5_request_fail, barfed,
         config_dereference, Step, Touches, main
    <3>3. live' = [live EXCEPT ![c] = FALSE] /\ stop' = stop /\ late' = late
      BY <1>2 DEF socks5_request_fail, barfed, config_dereference, Step, Touches, main
    <3>4. Cardinality(Holders(live')) = Cardinality(Holders(live)) - 1
      BY <3>1, <3>3, HoldersRemove DEF IInv, TypeOK
    <3>5. ~touched => refcount' = refcount - 1
      BY <1>2, <3>1, ConfThere DEF IInv, TypeOK, socks5_request_fail, barfed,
         config_dereference, Step, Touches, main
    <3>6. Cardinality(Holders(live)) \in Nat
      BY HoldersFinite DEF IInv, TypeOK
    <3>7. RefcountExact'
      BY <3>2, <3>3, <3>4, <3>5, <3>6 DEF IInv, RefcountExact
    <3> QED BY <3>2, <3>3, <3>7 DEF IInv, ConfOutlivesUsers
  <2> QED BY <2>1, <2>2, <2>3, <2>4, <2>5, <2>6 DEF IInv
<1>3. CASE socks5_cmd_conn(c)
  <2>1. TypeOK'
    BY <1>3 DEF IInv, TypeOK, socks5_cmd_conn, conf, Sockets, Pipe, Step, Touches, main
  <2>2. LoopOK'
    BY <1>3 DEF IInv, TypeOK, LoopOK, socks5_cmd_conn, conf, Sockets, Pipe, Step, Touches, main
  <2>3. LateOK'
    BY <1>3 DEF IInv, TypeOK, LoopOK, LateOK, socks5_cmd_conn, conf, Sockets, Pipe, Step,
       Touches, main
  <2>4. ConnHandedOver'
    BY <1>3 DEF IInv, TypeOK, ConnOK, ConnHandedOver, socks5_cmd_conn, conf, Sockets, Pipe,
       Step, Touches, main
  <2>5. \A d \in Conns : ConnOK(d)'
    BY <1>3 DEF IInv, TypeOK, LoopOK, ConnOK, socks5_cmd_conn, conf, Sockets, Pipe, Step,
       Touches, main
  <2>6. RefcountExact' /\ ConfOutlivesUsers'
    BY <1>3 DEF IInv, RefcountExact, ConfOutlivesUsers, socks5_cmd_conn, conf, Sockets, Pipe,
       Step, Touches, main
  <2> QED BY <2>1, <2>2, <2>3, <2>4, <2>5, <2>6 DEF IInv
<1>4. CASE socks5_cmd_conn_fail(c)
  <2>1. TypeOK'
    BY <1>4 DEF IInv, TypeOK, socks5_cmd_conn_fail, barfed, config_dereference, Step, Touches,
       main
  <2>2. LoopOK'
    BY <1>4 DEF IInv, TypeOK, LoopOK, socks5_cmd_conn_fail, barfed, config_dereference, Step,
       Touches, main
  <2>3. LateOK'
    BY <1>4 DEF IInv, TypeOK, LoopOK, LateOK, socks5_cmd_conn_fail, barfed, config_dereference,
       Step, Touches, main
  <2>4. ConnHandedOver'
    BY <1>4 DEF IInv, TypeOK, ConnOK, ConnHandedOver, socks5_cmd_conn_fail, barfed,
       config_dereference, Step, Touches, main
  <2>5. \A d \in Conns : ConnOK(d)'
    BY <1>4 DEF IInv, TypeOK, LoopOK, ConnOK, Forwarding, socks5_cmd_conn_fail, barfed, config_dereference,
       Step, Touches, main
  <2>6. RefcountExact' /\ ConfOutlivesUsers'
    <3>1. live[c]
      BY <1>4 DEF IInv, TypeOK, LoopOK, ConnOK, socks5_cmd_conn_fail, barfed,
         config_dereference, Step, Touches, main
    <3>2. touched' = touched
      BY <1>4, <3>1, ConfThere DEF IInv, TypeOK, socks5_cmd_conn_fail, barfed,
         config_dereference, Step, Touches, main
    <3>3. live' = [live EXCEPT ![c] = FALSE] /\ stop' = stop /\ late' = late
      BY <1>4 DEF socks5_cmd_conn_fail, barfed, config_dereference, Step, Touches, main
    <3>4. Cardinality(Holders(live')) = Cardinality(Holders(live)) - 1
      BY <3>1, <3>3, HoldersRemove DEF IInv, TypeOK
    <3>5. ~touched => refcount' = refcount - 1
      BY <1>4, <3>1, ConfThere DEF IInv, TypeOK, socks5_cmd_conn_fail, barfed,
         config_dereference, Step, Touches, main
    <3>6. Cardinality(Holders(live)) \in Nat
      BY HoldersFinite DEF IInv, TypeOK
    <3>7. RefcountExact'
      BY <3>2, <3>3, <3>4, <3>5, <3>6 DEF IInv, RefcountExact
    <3> QED BY <3>2, <3>3, <3>7 DEF IInv, ConfOutlivesUsers
  <2> QED BY <2>1, <2>2, <2>3, <2>4, <2>5, <2>6 DEF IInv
<1> QED BY <1>1, <1>2, <1>3, <1>4

\* The child keeps it while it hands the connection over.
LEMMA ForwardDataIInv ==
  ASSUME IInv, NEW c \in Conns,
         \/ conn_forwardData(c) \/ os_pipe(c) \/ os_pipe_fail(c)
         \/ os_thread_exec(c) \/ os_thread_exec_fail(c) \/ conn_forwardData_unlock(c)
  PROVE  IInv'
<1>1. CASE conn_forwardData(c)
  <2>1. TypeOK'
    BY <1>1 DEF IInv, TypeOK, conn_forwardData, conf, Sockets, Pipe, Step, Touches, main
  <2>2. LoopOK'
    BY <1>1 DEF IInv, TypeOK, LoopOK, conn_forwardData, conf, Sockets, Pipe, Step, Touches, main
  <2>3. LateOK'
    BY <1>1 DEF IInv, TypeOK, LoopOK, LateOK, conn_forwardData, conf, Sockets, Pipe, Step,
       Touches, main
  <2>4. ConnHandedOver'
    BY <1>1 DEF IInv, TypeOK, ConnOK, ConnHandedOver, conn_forwardData, conf, Sockets, Pipe,
       Step, Touches, main
  <2>5. \A d \in Conns : ConnOK(d)'
    BY <1>1 DEF IInv, TypeOK, LoopOK, ConnOK, conn_forwardData, conf, Sockets, Pipe, Step,
       Touches, main
  <2>6. RefcountExact' /\ ConfOutlivesUsers'
    BY <1>1 DEF IInv, RefcountExact, ConfOutlivesUsers, conn_forwardData, conf, Sockets, Pipe,
       Step, Touches, main
  <2> QED BY <2>1, <2>2, <2>3, <2>4, <2>5, <2>6 DEF IInv
<1>2. CASE os_pipe(c)
  <2>1. TypeOK'
    BY <1>2 DEF IInv, TypeOK, os_pipe, conf, Sockets, Pipe, Step, Touches, main
  <2>2. LoopOK'
    BY <1>2 DEF IInv, TypeOK, LoopOK, os_pipe, conf, Sockets, Pipe, Step, Touches, main
  <2>3. LateOK'
    BY <1>2 DEF IInv, TypeOK, LoopOK, LateOK, os_pipe, conf, Sockets, Pipe, Step, Touches, main
  <2>4. ConnHandedOver'
    BY <1>2 DEF IInv, TypeOK, ConnOK, ConnHandedOver, os_pipe, conf, Sockets, Pipe, Step,
       Touches, main
  <2>5. \A d \in Conns : ConnOK(d)'
    BY <1>2 DEF IInv, TypeOK, LoopOK, ConnOK, os_pipe, conf, Sockets, Pipe, Step, Touches, main
  <2>6. RefcountExact' /\ ConfOutlivesUsers'
    BY <1>2 DEF IInv, RefcountExact, ConfOutlivesUsers, os_pipe, conf, Sockets, Pipe, Step,
       Touches, main
  <2> QED BY <2>1, <2>2, <2>3, <2>4, <2>5, <2>6 DEF IInv
<1>3. CASE os_pipe_fail(c)
  <2>1. TypeOK'
    BY <1>3 DEF IInv, TypeOK, os_pipe_fail, conf, Sockets, Pipe, Step, Touches, main
  <2>2. LoopOK'
    BY <1>3 DEF IInv, TypeOK, LoopOK, os_pipe_fail, conf, Sockets, Pipe, Step, Touches, main
  <2>3. LateOK'
    BY <1>3 DEF IInv, TypeOK, LoopOK, LateOK, os_pipe_fail, conf, Sockets, Pipe, Step, Touches,
       main
  <2>4. ConnHandedOver'
    BY <1>3 DEF IInv, TypeOK, ConnOK, ConnHandedOver, os_pipe_fail, conf, Sockets, Pipe, Step,
       Touches, main
  <2>5. \A d \in Conns : ConnOK(d)'
    BY <1>3 DEF IInv, TypeOK, LoopOK, ConnOK, Forwarding, os_pipe_fail, conf, Sockets, Pipe, Step, Touches,
       main
  <2>6. RefcountExact' /\ ConfOutlivesUsers'
    BY <1>3 DEF IInv, RefcountExact, ConfOutlivesUsers, os_pipe_fail, conf, Sockets, Pipe, Step,
       Touches, main
  <2> QED BY <2>1, <2>2, <2>3, <2>4, <2>5, <2>6 DEF IInv
<1>4. CASE os_thread_exec(c)
  <2>1. TypeOK'
    BY <1>4 DEF IInv, TypeOK, os_thread_exec, conf, Sockets, Pipe, Step, Touches, main
  <2>2. LoopOK'
    BY <1>4 DEF IInv, TypeOK, LoopOK, os_thread_exec, conf, Sockets, Pipe, Step, Touches, main
  <2>3. LateOK'
    BY <1>4 DEF IInv, TypeOK, LoopOK, LateOK, os_thread_exec, conf, Sockets, Pipe, Step,
       Touches, main
  <2>4. ConnHandedOver'
    BY <1>4 DEF IInv, TypeOK, ConnOK, ConnHandedOver, os_thread_exec, conf, Sockets, Pipe, Step,
       Touches, main
  <2>5. \A d \in Conns : ConnOK(d)'
    BY <1>4 DEF IInv, TypeOK, LoopOK, ConnOK, os_thread_exec, conf, Sockets, Pipe, Step,
       Touches, main
  <2>6. RefcountExact' /\ ConfOutlivesUsers'
    BY <1>4 DEF IInv, RefcountExact, ConfOutlivesUsers, os_thread_exec, conf, Sockets, Pipe,
       Step, Touches, main
  <2> QED BY <2>1, <2>2, <2>3, <2>4, <2>5, <2>6 DEF IInv
<1>5. CASE os_thread_exec_fail(c)
  <2>1. TypeOK'
    BY <1>5 DEF IInv, TypeOK, os_thread_exec_fail, conf, Sockets, Pipe, Step, Touches, main
  <2>2. LoopOK'
    BY <1>5 DEF IInv, TypeOK, LoopOK, os_thread_exec_fail, conf, Sockets, Pipe, Step, Touches,
       main
  <2>3. LateOK'
    BY <1>5 DEF IInv, TypeOK, LoopOK, LateOK, os_thread_exec_fail, conf, Sockets, Pipe, Step,
       Touches, main
  <2>4. ConnHandedOver'
    BY <1>5 DEF IInv, TypeOK, ConnOK, ConnHandedOver, os_thread_exec_fail, conf, Sockets, Pipe,
       Step, Touches, main
  <2>5. \A d \in Conns : ConnOK(d)'
    BY <1>5 DEF IInv, TypeOK, LoopOK, ConnOK, Forwarding, os_thread_exec_fail, conf, Sockets, Pipe, Step,
       Touches, main
  <2>6. RefcountExact' /\ ConfOutlivesUsers'
    BY <1>5 DEF IInv, RefcountExact, ConfOutlivesUsers, os_thread_exec_fail, conf, Sockets,
       Pipe, Step, Touches, main
  <2> QED BY <2>1, <2>2, <2>3, <2>4, <2>5, <2>6 DEF IInv
<1>6. CASE conn_forwardData_unlock(c)
  <2>1. TypeOK'
    BY <1>6 DEF IInv, TypeOK, conn_forwardData_unlock, conf, Sockets, Pipe, Step, Touches, main,
       Unlock
  <2>2. LoopOK'
    BY <1>6 DEF IInv, TypeOK, LoopOK, conn_forwardData_unlock, conf, Sockets, Pipe, Step,
       Touches, main, Unlock
  <2>3. LateOK'
    BY <1>6 DEF IInv, TypeOK, LoopOK, LateOK, conn_forwardData_unlock, conf, Sockets, Pipe,
       Step, Touches, main, Unlock
  <2>4. ConnHandedOver'
    BY <1>6 DEF IInv, TypeOK, ConnOK, ConnHandedOver, conn_forwardData_unlock, conf, Sockets,
       Pipe, Step, Touches, main, Unlock
  <2>5. \A d \in Conns : ConnOK(d)'
    BY <1>6 DEF IInv, TypeOK, LoopOK, ConnOK, conn_forwardData_unlock, conf, Sockets, Pipe,
       Step, Touches, main, Unlock
  <2>6. RefcountExact' /\ ConfOutlivesUsers'
    BY <1>6 DEF IInv, RefcountExact, ConfOutlivesUsers, conn_forwardData_unlock, conf, Sockets,
       Pipe, Step, Touches, main, Unlock
  <2> QED BY <2>1, <2>2, <2>3, <2>4, <2>5, <2>6 DEF IInv
<1> QED BY <1>1, <1>2, <1>3, <1>4, <1>5, <1>6

\* The forwarder keeps it.
LEMMA ForwarderIInv ==
  ASSUME IInv, NEW c \in Conns, Forwarder(c)
  PROVE  IInv'
<1>1. CASE forwarder_start(c)
  <2>1. TypeOK'
    BY <1>1 DEF IInv, TypeOK, forwarder_start, UseConf, main
  <2>2. LoopOK'
    BY <1>1 DEF IInv, TypeOK, LoopOK, forwarder_start, UseConf, main
  <2>3. LateOK'
    BY <1>1 DEF IInv, TypeOK, LoopOK, LateOK, forwarder_start, UseConf, main
  <2>4. ConnHandedOver'
    BY <1>1 DEF IInv, TypeOK, ConnOK, Forwarding, ConnHandedOver, forwarder_start, UseConf, main
  <2>5. \A d \in Conns : ConnOK(d)'
    BY <1>1 DEF IInv, TypeOK, LoopOK, ConnOK, Forwarding, forwarder_start, UseConf, main
  <2>6. RefcountExact' /\ ConfOutlivesUsers'
    <3>1. live[c]
      BY <1>1 DEF IInv, TypeOK, ConnOK, Forwarding, forwarder_start, UseConf, main
    <3>2. touched' = touched
      BY <1>1, <3>1, ConfThere DEF IInv, TypeOK, forwarder_start, UseConf, main
    <3> QED BY <1>1, <3>2 DEF IInv, RefcountExact, ConfOutlivesUsers, forwarder_start, UseConf,
               main
  <2> QED BY <2>1, <2>2, <2>3, <2>4, <2>5, <2>6 DEF IInv
<1>2. CASE forwarder_close(c)
  <2>1. TypeOK'
    BY <1>2 DEF IInv, TypeOK, forwarder_close, Closed, config_dereference, Sockets, Pipe, main
  <2>2. LoopOK'
    BY <1>2 DEF IInv, TypeOK, LoopOK, forwarder_close, Closed, config_dereference, Sockets,
       Pipe, main
  <2>3. LateOK'
    BY <1>2 DEF IInv, TypeOK, LoopOK, LateOK, forwarder_close, Closed, config_dereference,
       Sockets, Pipe, main
  <2>4. ConnHandedOver'
    BY <1>2 DEF IInv, TypeOK, ConnOK, Forwarding, ConnHandedOver, forwarder_close, Closed,
       config_dereference, Sockets, Pipe, main
  <2>5. \A d \in Conns : ConnOK(d)'
    <3> SUFFICES ASSUME NEW d \in Conns PROVE ConnOK(d)'
      OBVIOUS
    <3>1. CASE d = c
      <4>1. child[c] \in {"unlocking", "done"} /\ fds[c] = Sockets \cup Pipe
        BY <1>2 DEF IInv, TypeOK, ConnOK, Forwarding, forwarder_close
      <4>2. fwd'[c] = "emptied" /\ ~live'[c] /\ child' = child /\ fds'[c] = Pipe
        BY <1>2, <4>1 DEF IInv, TypeOK, forwarder_close, Closed, Sockets, Pipe
      <4> QED BY <3>1, <4>1, <4>2 DEF ConnOK, Forwarding
    <3>2. CASE d # c
      BY <1>2, <3>2 DEF IInv, TypeOK, LoopOK, ConnOK, forwarder_close, Closed,
         config_dereference, Sockets, Pipe, main
    <3> QED BY <3>1, <3>2
  <2>6. RefcountExact' /\ ConfOutlivesUsers'
    <3>1. live[c]
      BY <1>2 DEF IInv, TypeOK, LoopOK, ConnOK, Forwarding, forwarder_close, Closed, config_dereference,
         Sockets, Pipe, main
    <3>2. touched' = touched
      BY <1>2, <3>1, ConfThere DEF IInv, TypeOK, forwarder_close, Closed, config_dereference,
         Sockets, Pipe, main
    <3>3. live' = [live EXCEPT ![c] = FALSE] /\ stop' = stop /\ late' = late
      BY <1>2 DEF forwarder_close, Closed, config_dereference, Sockets, Pipe, main
    <3>4. Cardinality(Holders(live')) = Cardinality(Holders(live)) - 1
      BY <3>1, <3>3, HoldersRemove DEF IInv, TypeOK
    <3>5. ~touched => refcount' = refcount - 1
      BY <1>2, <3>1, ConfThere DEF IInv, TypeOK, forwarder_close, Closed, config_dereference,
         Sockets, Pipe, main
    <3>6. Cardinality(Holders(live)) \in Nat
      BY HoldersFinite DEF IInv, TypeOK
    <3>7. RefcountExact'
      BY <3>2, <3>3, <3>4, <3>5, <3>6 DEF IInv, RefcountExact
    <3> QED BY <3>2, <3>3, <3>7 DEF IInv, ConfOutlivesUsers
  <2> QED BY <2>1, <2>2, <2>3, <2>4, <2>5, <2>6 DEF IInv
<1>3. CASE forwarder_croak(c)
  <2>1. TypeOK'
    BY <1>3 DEF IInv, TypeOK, forwarder_croak, Sockets, Pipe, main, conf
  <2>2. LoopOK'
    BY <1>3 DEF IInv, TypeOK, LoopOK, forwarder_croak, Sockets, Pipe, main, conf
  <2>3. LateOK'
    BY <1>3 DEF IInv, TypeOK, LoopOK, LateOK, forwarder_croak, Sockets, Pipe, main, conf
  <2>4. ConnHandedOver'
    BY <1>3 DEF IInv, TypeOK, ConnOK, ConnHandedOver, forwarder_croak, Sockets, Pipe, main, conf
  <2>5. \A d \in Conns : ConnOK(d)'
    <3> SUFFICES ASSUME NEW d \in Conns PROVE ConnOK(d)'
      OBVIOUS
    <3>1. CASE d = c
      <4>1. child[c] \in {"unlocking", "done"} /\ fds[c] = Pipe /\ ~live[c]
        BY <1>3 DEF IInv, TypeOK, ConnOK, forwarder_croak
      <4>2. fwd'[c] = "ended" /\ ~live'[c] /\ child' = child /\ fds'[c] = {}
        BY <1>3, <4>1 DEF IInv, TypeOK, forwarder_croak
      <4> QED BY <3>1, <4>1, <4>2 DEF ConnOK, Forwarding
    <3>2. CASE d # c
      BY <1>3, <3>2 DEF IInv, TypeOK, LoopOK, ConnOK, forwarder_croak, Sockets, Pipe, main, conf
    <3> QED BY <3>1, <3>2
  <2>6. RefcountExact' /\ ConfOutlivesUsers'
    BY <1>3 DEF IInv, RefcountExact, ConfOutlivesUsers, forwarder_croak, Sockets, Pipe, main,
       conf
  <2> QED BY <2>1, <2>2, <2>3, <2>4, <2>5, <2>6 DEF IInv
<1> QED BY <1>1, <1>2, <1>3 DEF Forwarder

\* So does the transfer of data: conn_t is there while it is counted.
LEMMA TransferIInv ==
  ASSUME IInv, NEW c \in Conns, Transfer(c)
  PROVE  IInv'
<1>1. /\ fwd[c] \in {"running", "to_local", "to_remote"} /\ live[c]
      /\ \E t \in {"running", "to_local", "to_remote"} : fwd' = [fwd EXCEPT ![c] = t]
      /\ misused' = misused
      /\ UNCHANGED <<main, stop, early, late, conf, crashed, child, live, fds, lock, ended>>
  BY DEF IInv, TypeOK, ConnOK, Forwarding, ConnHandedOver, Transfer, forwarder_recv, forwarder_send
<1>2. TypeOK'
  BY <1>1 DEF IInv, TypeOK, main, conf
<1>3. LoopOK' /\ LateOK' /\ ConnHandedOver'
  BY <1>1 DEF IInv, LoopOK, LateOK, ConnHandedOver, main
<1>4. \A d \in Conns : ConnOK(d)'
  BY <1>1 DEF IInv, TypeOK, ConnOK, Forwarding, main
<1>5. RefcountExact' /\ ConfOutlivesUsers'
  BY <1>1 DEF IInv, RefcountExact, ConfOutlivesUsers, conf
<1> QED BY <1>2, <1>3, <1>4, <1>5 DEF IInv

\* A peer that ends keeps it.
LEMMA PeerIInv ==
  ASSUME IInv, NEW c \in Conns, peer_end(c)
  PROVE  IInv'
<1>1. TypeOK'
  BY DEF IInv, TypeOK, peer_end, main, conf, threads
<1>2. LoopOK'
  BY DEF IInv, TypeOK, LoopOK, peer_end, main, conf, threads
<1>3. LateOK'
  BY DEF IInv, TypeOK, LoopOK, LateOK, peer_end, main, conf, threads
<1>4. ConnHandedOver'
  BY DEF IInv, TypeOK, ConnOK, ConnHandedOver, peer_end, main, conf, threads
<1>5. \A d \in Conns : ConnOK(d)'
  BY DEF IInv, TypeOK, LoopOK, ConnOK, peer_end, main, conf, threads
<1>6. RefcountExact' /\ ConfOutlivesUsers'
  BY DEF IInv, RefcountExact, ConfOutlivesUsers, peer_end, main, conf, threads
<1> QED BY <1>1, <1>2, <1>3, <1>4, <1>5, <1>6 DEF IInv

\* IInv holds in every reachable state.
THEOREM Invariant == Spec => []IInv
<1>1. Init => IInv
  <2> SUFFICES ASSUME Init PROVE IInv
    OBVIOUS
  <2>1. TypeOK /\ LoopOK /\ LateOK /\ ConnHandedOver /\ ConfOutlivesUsers
    BY DEF Init, TypeOK, LoopOK, LateOK, ConnHandedOver, ConfOutlivesUsers
  <2>2. \A c \in Conns : ConnOK(c)
    BY DEF Init, ConnOK
  <2>3. Holders(live) = {}
    BY DEF Init, Holders
  <2>4. Cardinality(Holders(live)) = 0
    BY <2>3, FS_EmptySet
  <2>5. RefcountExact
    BY <2>4 DEF Init, RefcountExact
  <2> QED BY <2>1, <2>2, <2>5 DEF IInv
<1>2. IInv /\ [Next]_vars => IInv'
  <2> SUFFICES ASSUME IInv, [Next]_vars PROVE IInv'
    OBVIOUS
  <2>1. CASE realapp \/ while_active \/ accept_fail
    BY <2>1, LoopIInv
  <2>2. CASE closeup_flag \/ closeup_dereference \/ Abort
    BY <2>2, CloseupIInv
  <2>3. CASE \E c \in Conns : accept(c) \/ Accepting(c) \/ peer_end(c)
    BY <2>3, AcceptIInv, HandleRequestIInv, PeerIInv
  <2>4. CASE \E c \in Conns : Child(c)
    BY <2>4, HandshakeIInv, ForwardDataIInv DEF Child
  <2>5. CASE \E c \in Conns : Forwarder(c)
    BY <2>5, ForwarderIInv
  <2>6. CASE \E c \in Conns : Transfer(c)
    BY <2>6, TransferIInv
  <2>7. CASE UNCHANGED vars
    BY <2>7 DEF vars, main, conf, threads, IInv, TypeOK, LoopOK, LateOK, ConnHandedOver,
       ConnOK, RefcountExact, ConfOutlivesUsers
  <2> QED BY <2>1, <2>2, <2>3, <2>4, <2>5, <2>6, <2>7 DEF Next
<1> QED BY <1>1, <1>2, PTL DEF Spec

\* The state stays within its types.
THEOREM TypeCorrect == Spec => []TypeOK
BY Invariant, PTL DEF IInv

\* Every path of HandleRequest, of the child and of the forwarder drops the
\* reference it took, and none drops it twice.
THEOREM RefcountIsExact == Spec => []RefcountExact
BY Invariant, PTL DEF IInv

\* No thread of a connection taken in before closeup finds conf freed.
THEOREM ConfNotFreed == Spec => []ConfOutlivesUsers
BY Invariant, PTL DEF IInv

\* Neither the child nor the forwarder uses a conn_t the other has freed.
THEOREM HandedOver == Spec => []ConnHandedOver
BY Invariant, PTL DEF IInv

\* No path through a connection loses a descriptor or closes one twice.
THEOREM Descriptors == Spec => []DescriptorsHeld
<1>1. IInv => DescriptorsHeld
  BY DEF IInv, TypeOK, LoopOK, ConnOK, Forwarding, DescriptorsHeld, Stranded, Sockets, Pipe
<1> QED BY <1>1, Invariant, PTL

\* closeup lets at most one more connection in, unless it came too early.
THEOREM StopsAccepting == Spec => []OneAfterStop
<1>1. IInv => OneAfterStop
  <2> SUFFICES ASSUME IInv, ~early PROVE Cardinality(late) <= 1
    BY DEF OneAfterStop
  <2>1. CASE late = {}
    BY <2>1, FS_EmptySet
  <2>2. CASE late # {}
    <3>1. PICK c \in late : late = {c}
      BY <2>2 DEF IInv, LateOK
    <3> QED BY <3>1, FS_Singleton
  <2> QED BY <2>1, <2>2
<1> QED BY <1>1, Invariant, PTL

=============================================================================
