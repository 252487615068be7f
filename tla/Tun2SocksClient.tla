--------------------------- MODULE Tun2SocksClient ---------------------------
(***************************************************************************)
(* One TCP connection through tun2socks (struct tcp_client of tun2socks.c): *)
(* the lwIP pcb of the intercepted connection on one side, the SOCKS        *)
(* connection to the local proxy on the other, and the half-closed phases   *)
(* in which one side is gone and the other still has data to take.          *)
(* Every action is one lwIP or BSocksClient callback.  Jobs that            *)
(* SYNC_COMMIT runs inside a callback are the actions that may follow it.   *)
(***************************************************************************)
EXTENDS Streams

CONSTANTS
  TcpWnd,     \* TCP_WND: lwIP's receive window and the size of client->buf
  RecvSize,   \* CLIENT_SOCKS_RECV_BUF_SIZE
  ClientLen,  \* length of the stream the intercepted client sends
  SocksLen    \* length of the stream that comes back through SOCKS

ASSUME WindowAssumption == TcpWnd \in Nat \ {0} /\ RecvSize \in Nat \ {0}
ASSUME StreamAssumption == ClientLen \in Nat /\ SocksLen \in Nat

VARIABLES
  life,          \* "none", "live", "freed" (client_dealloc) or "refused"
  client_closed, socks_up, socks_closed,
  cbs,           \* the callbacks registered on the pcb
  wnd,           \* the receive window lwIP offers the client
  buf,           \* client->buf[0 .. buf_used)
  sendLen,       \* length of the StreamPass operation in progress, 0 if none
  recvBusy,      \* a StreamRecv operation is in progress
  rest,          \* socks_recv_buf[socks_recv_buf_sent .. socks_recv_buf_used)
  waiting,       \* socks_recv_waiting
  pending,       \* socks_recv_tcp_pending
  got, rgot,     \* positions received from the client and from SOCKS
  toSocks,       \* what the SOCKS connection has taken
  toClient,      \* what tcp_write has queued for the client
  acked,         \* how much of it the client has acknowledged
  ended          \* why the connection ends: "client", "socks", "murder"

sides  == <<life, client_closed, socks_up, socks_closed, cbs, ended>>
upload == <<wnd, buf, got, toSocks>>
download == <<rest, waiting, pending, rgot, toClient, acked>>
vars == <<sides, upload, download, sendLen, recvBusy>>

Init ==
  /\ life = "none" /\ cbs = {} /\ ended = {}
  /\ client_closed = FALSE /\ socks_up = FALSE /\ socks_closed = FALSE
  /\ wnd = TcpWnd /\ buf = <<>> /\ got = 0 /\ toSocks = <<>>
  /\ rest = <<>> /\ waiting = FALSE /\ pending = 0 /\ rgot = 0
  /\ toClient = <<>> /\ acked = 0
  /\ sendLen = 0 /\ recvBusy = FALSE

listener_accept_func ==
  /\ life = "none"
  /\ life' = "live" /\ cbs' = {"recv", "err"}
  /\ UNCHANGED <<client_closed, socks_up, socks_closed, ended, upload, download,
                 sendLen, recvBusy>>

\* malloc or BSocksClient_Init failed: lwIP aborts the pcb.
listener_accept_func_fail ==
  /\ life = "none"
  /\ life' = "refused"
  /\ UNCHANGED <<client_closed, socks_up, socks_closed, cbs, ended, upload,
                 download, sendLen, recvBusy>>

-----------------------------------------------------------------------------
(* The two ways to let go of a side.  Each decides whether the other side   *)
(* lingers to drain its buffer or the client is deallocated.                *)

\* Mutant of HandleFreedClient: tcp_sent(client->pcb, NULL) is missing.
HandleFreedKeepSent(busy) ==
  /\ client_closed' = TRUE /\ cbs' = cbs \intersect {"sent"}
  /\ ended' = ended \union {"client"}
  /\ IF Len(buf) > 0 /\ ~socks_closed
     THEN recvBusy' = busy /\ UNCHANGED <<life, socks_closed, sendLen>>
     ELSE life' = "freed" /\ socks_closed' = TRUE /\ sendLen' = 0 /\ recvBusy' = FALSE

\* client_handle_freed_client, after tcp_close, tcp_abort or an lwIP error;
\* busy says whether the receive operation is still in progress.
HandleFreedClient(busy) ==
  /\ client_closed' = TRUE /\ cbs' = {}
  /\ ended' = ended \union {"client"}
  /\ IF Len(buf) > 0 /\ ~socks_closed
     THEN recvBusy' = busy /\ UNCHANGED <<life, socks_closed, sendLen>>
     ELSE life' = "freed" /\ socks_closed' = TRUE /\ sendLen' = 0 /\ recvBusy' = FALSE

\* Mutants of FreeSocks: the client lingers with nothing to wait for, or is
\* dropped with data on its way.
FreeSocksLinger(left) ==
  /\ socks_closed' = TRUE /\ sendLen' = 0 /\ recvBusy' = FALSE
  /\ IF socks_up /\ ~client_closed
     THEN cbs' = cbs \ {"recv"} /\ UNCHANGED <<life, client_closed>>
     ELSE life' = "freed" /\ client_closed' = TRUE /\ cbs' = {}
FreeSocksNow(left) ==
  /\ socks_closed' = TRUE /\ sendLen' = 0 /\ recvBusy' = FALSE
  /\ life' = "freed" /\ client_closed' = TRUE /\ cbs' = {}

\* client_free_socks; left says whether the pcb still has to take data.
FreeSocks(left) ==
  /\ socks_closed' = TRUE /\ sendLen' = 0 /\ recvBusy' = FALSE
  /\ IF socks_up /\ left /\ ~client_closed
     THEN cbs' = cbs \ {"recv"} /\ UNCHANGED <<life, client_closed>>
     ELSE life' = "freed" /\ client_closed' = TRUE /\ cbs' = {}

-----------------------------------------------------------------------------
(* lwIP's callbacks *)

\* Mutant: sending is never started by arriving data.
StartSendNever(n) == sendLen

\* The operation in progress after n bytes arrived: a new one if nothing was
\* in the buffer before.
StartSend(n) == IF Len(buf) = 0 /\ socks_up THEN n ELSE sendLen

\* Data from the client: buffer it, and start sending if nothing was buffered.
client_recv_func ==
  /\ "recv" \in cbs
  /\ \E n \in 1 .. wnd :
       /\ got + n <= ClientLen
       /\ n <= TcpWnd - Len(buf)
       /\ wnd' = wnd - n
       /\ got' = got + n
       /\ buf' = buf \o Positions(got, got + n)
       /\ sendLen' = StartSend(n)
  /\ UNCHANGED <<sides, download, recvBusy, toSocks>>

\* The client's FIN closes both directions of the pcb.
client_recv_func_fin ==
  /\ "recv" \in cbs
  /\ HandleFreedClient(recvBusy)
  /\ UNCHANGED <<socks_up, upload, download>>

\* Reset, or given up by an lwIP timer; the pcb is gone.
client_err_func ==
  /\ "err" \in cbs
  /\ HandleFreedClient(recvBusy)
  /\ UNCHANGED <<socks_up, upload, download>>

\* Mutant of SendOut: socks_recv_buf_sent is not advanced on a partial write.
SendOutAgain(r, pend) ==
  \E m \in 0 .. Len(r) :
    /\ toClient' = toClient \o SubSeq(r, 1, m)
    /\ pending' = pend + m
    /\ rest' = IF m = Len(r) THEN <<>> ELSE r
    /\ \/ /\ m < Len(r) => pend + m > 0
          /\ waiting' = (m < Len(r))
          /\ recvBusy' = (m = Len(r) /\ ~socks_closed)
          /\ UNCHANGED <<sides, sendLen>>
       \/ /\ waiting' = FALSE
          /\ HandleFreedClient(FALSE)
          /\ UNCHANGED socks_up

\* client_socks_recv_send_out on the unsent bytes r with pend bytes
\* unconfirmed: tcp_write takes a prefix, and what it does not take waits for
\* client_sent_func, which only comes if something is unconfirmed.  The pcb is
\* aborted when tcp_write or tcp_output fails or nothing is unconfirmed.
SendOut(r, pend) ==
  \E m \in 0 .. Len(r) :
    /\ toClient' = toClient \o SubSeq(r, 1, m)
    /\ pending' = pend + m
    /\ rest' = After(r, m)
    /\ \/ /\ m < Len(r) => pend + m > 0
          /\ waiting' = (m < Len(r))
          /\ recvBusy' = (m = Len(r) /\ ~socks_closed)
          /\ UNCHANGED <<sides, sendLen>>
       \/ /\ waiting' = FALSE
          /\ HandleFreedClient(FALSE)
          /\ UNCHANGED socks_up

\* The client confirmed n bytes.
client_sent_func ==
  /\ "sent" \in cbs
  /\ \E n \in 1 .. (Len(toClient) - acked) :
       /\ acked' = acked + n
       /\ \/ /\ rest # <<>>
             /\ SendOut(rest, pending - n)
          \/ /\ rest = <<>>
             /\ pending' = pending - n
             /\ IF socks_closed /\ pending' = 0
                THEN life' = "freed" /\ client_closed' = TRUE /\ cbs' = {}
                ELSE UNCHANGED <<life, client_closed, cbs>>
             /\ UNCHANGED <<socks_up, socks_closed, ended, rest, waiting, toClient,
                            sendLen, recvBusy>>
  /\ UNCHANGED <<upload, rgot>>

-----------------------------------------------------------------------------
(* BSocksClient's callbacks *)

SocksOpen == life = "live" /\ ~socks_closed

\* BSOCKSCLIENT_EVENT_UP
client_socks_handler_up ==
  /\ SocksOpen /\ ~socks_up
  /\ socks_up' = TRUE
  /\ pending' = 0
  /\ cbs' = IF client_closed THEN cbs ELSE cbs \union {"sent"}
  /\ sendLen' = Len(buf)
  /\ recvBusy' = ~client_closed
  /\ UNCHANGED <<life, client_closed, socks_closed, ended, upload, rest, waiting,
                 rgot, toClient, acked>>

\* BSOCKSCLIENT_EVENT_ERROR
client_socks_handler_error ==
  /\ SocksOpen
  /\ FreeSocks(rest # <<>> \/ pending > 0)
  /\ ended' = ended \union {"socks"}
  /\ UNCHANGED <<socks_up, upload, download>>

\* BSOCKSCLIENT_EVENT_ERROR_CLOSED, noticed by the receive operation
client_socks_handler_closed ==
  /\ SocksOpen /\ socks_up /\ recvBusy
  /\ FreeSocks(rest # <<>> \/ pending > 0)
  /\ ended' = ended \union {"socks"}
  /\ UNCHANGED <<socks_up, upload, download>>

\* Mutant: the whole operation is confirmed to lwIP, not what was sent.
ConfirmAll(n) == IF client_closed THEN wnd ELSE wnd + sendLen

\* tcp_recved gives the window back for what left the buffer.
Confirm(n) == IF client_closed THEN wnd ELSE wnd + n

\* SOCKS took n bytes of the buffer.
client_socks_send_handler_done ==
  /\ SocksOpen
  /\ \E n \in 1 .. sendLen :
       /\ toSocks' = toSocks \o SubSeq(buf, 1, n)
       /\ buf' = After(buf, n)
       /\ wnd' = Confirm(n)
       /\ IF n = Len(buf) /\ client_closed
          THEN FreeSocks(FALSE)
          ELSE /\ sendLen' = Len(buf) - n
               /\ UNCHANGED <<life, client_closed, socks_closed, cbs, recvBusy>>
  /\ UNCHANGED <<socks_up, ended, got, download>>

\* SOCKS delivered data; a client that is gone stops the receiving.
client_socks_recv_handler_done ==
  /\ SocksOpen /\ recvBusy
  /\ \E n \in 1 .. RecvSize :
       /\ rgot + n <= SocksLen
       /\ rgot' = rgot + n
       /\ \/ /\ client_closed
             /\ recvBusy' = FALSE
             /\ UNCHANGED <<sides, sendLen, rest, waiting, pending, toClient>>
          \/ /\ ~client_closed
             /\ SendOut(Positions(rgot, rgot + n), pending)
  /\ UNCHANGED <<upload, acked>>

\* tun2socks_main frees the clients that are left when its loop ends.
client_murder ==
  /\ life = "live"
  /\ life' = "freed" /\ client_closed' = TRUE /\ socks_closed' = TRUE
  /\ cbs' = {} /\ sendLen' = 0 /\ recvBusy' = FALSE
  /\ ended' = ended \union {"murder"}
  /\ UNCHANGED <<socks_up, upload, download>>

-----------------------------------------------------------------------------
Next ==
  \/ listener_accept_func \/ listener_accept_func_fail
  \/ client_recv_func \/ client_recv_func_fin \/ client_err_func \/ client_sent_func
  \/ client_socks_handler_up \/ client_socks_handler_error \/ client_socks_handler_closed
  \/ client_socks_send_handler_done \/ client_socks_recv_handler_done
  \/ client_murder

\* The local proxy answers a SOCKS request in the end and takes what it is
\* sent, and a client that stays connected acknowledges what it is sent.
Fairness ==
  /\ WF_vars(client_socks_handler_up)
  /\ WF_vars(client_socks_send_handler_done)
  /\ WF_vars(client_sent_func)

Spec == Init /\ [][Next]_vars /\ Fairness

-----------------------------------------------------------------------------
(* Properties *)

\* The types of the fields of struct tcp_client; counts never go negative and
\* neither side hands over more than its stream.
TypeOK ==
  /\ life \in {"none", "live", "freed", "refused"}
  /\ client_closed \in BOOLEAN /\ socks_up \in BOOLEAN /\ socks_closed \in BOOLEAN
  /\ cbs \subseteq {"recv", "sent", "err"}
  /\ ended \subseteq {"client", "socks", "murder"}
  /\ wnd \in Nat /\ buf \in Seq(Nat) /\ got \in 0 .. ClientLen /\ toSocks \in Seq(Nat)
  /\ rest \in Seq(Nat) /\ waiting \in BOOLEAN /\ pending \in Nat
  /\ rgot \in 0 .. SocksLen /\ toClient \in Seq(Nat) /\ acked \in Nat
  /\ sendLen \in Nat /\ recvBusy \in BOOLEAN

\* lwIP and BSocksClient have no way back into a side that was let go, nor
\* into a client that was deallocated.
NoCallbackAfterFree ==
  /\ client_closed \/ life # "live" => cbs = {}
  /\ socks_closed \/ life # "live" => sendLen = 0 /\ ~recvBusy

\* The window the client may still use is exactly the room in client->buf:
\* "no buffer for data !?!" never happens, and a drained buffer reopens the
\* whole window.
WindowIsRoom == "recv" \in cbs => wnd + Len(buf) = TcpWnd

\* Upload: SOCKS has taken a prefix of the client's stream and the buffer
\* holds the rest, through every partial send and after the client is gone.
UploadInOrder == ~socks_closed => toSocks \o buf = Positions(0, got)

\* Download: lwIP has been given a prefix of the SOCKS stream and
\* socks_recv_buf holds the rest, and the count of unconfirmed bytes is exact.
DownloadInOrder ==
  life = "live" /\ ~client_closed =>
    /\ toClient \o rest = Positions(0, rgot)
    /\ pending + acked = Len(toClient)

\* While both sides are up neither direction stalls: buffered upload is being
\* sent, and SOCKS is being read unless the client has to confirm data first.
NoStall ==
  life = "live" /\ socks_up =>
    /\ ~socks_closed => sendLen = Len(buf) \/ (0 < sendLen /\ sendLen < Len(buf))
    /\ ~client_closed /\ ~socks_closed => (recvBusy <=> rest = <<>>)
    /\ ~client_closed /\ rest # <<>> => waiting /\ pending > 0

\* A client with one side gone lingers only while the other side can end it:
\* a closed SOCKS side waits for a confirmation that is due, a closed client
\* for buffered data that SOCKS will take.
LingerHasCause ==
  /\ life = "live" /\ socks_closed => ~client_closed /\ "sent" \in cbs /\ pending > 0
  /\ life = "live" /\ client_closed => ~socks_closed /\ Len(buf) > 0

\* If only the client ended the connection, all it sent reached SOCKS; if only
\* the SOCKS side ended it, all that came from there was confirmed by the
\* client.
GracefulEnd ==
  life = "freed" =>
    /\ ended = {"client"} => toSocks = Positions(0, got)
    /\ ended = {"socks"} => acked = rgot /\ toClient = Positions(0, rgot)

\* A connection that lost a side is deallocated in the end.
LingerEnds == (life = "live" /\ (client_closed \/ socks_closed)) ~> (life = "freed")

\* Each direction implements the abstract relay.
Up   == INSTANCE Relay WITH Max <- ClientLen, in <- got, out <- toSocks
Down == INSTANCE Relay WITH Max <- SocksLen, in <- rgot, out <- toClient

\* What the client sends is relayed to SOCKS, whatever happens to either side.
UploadRelays == Up!Spec

\* What SOCKS sends is relayed to lwIP, whatever happens to either side.
DownloadRelays == Down!Spec

-----------------------------------------------------------------------------
(* The inductive invariant behind the safety properties. *)

\* Before the accept nothing has happened.
FreshOK ==
  life \in {"none", "refused"} =>
    /\ ~client_closed /\ ~socks_up /\ ~socks_closed /\ ended = {}
    /\ wnd = TcpWnd /\ buf = <<>>

\* Before BSOCKSCLIENT_EVENT_UP nothing has come back.
NotUpOK ==
  life # "freed" /\ ~socks_up =>
    /\ ~socks_closed /\ sendLen = 0 /\ ~recvBusy
    /\ rest = <<>> /\ pending = 0 /\ acked = 0 /\ rgot = 0 /\ toClient = <<>>

\* The callbacks registered on a pcb that is still ours.
CallbacksOK ==
  life = "live" /\ ~client_closed =>
    /\ "err" \in cbs
    /\ "sent" \in cbs <=> socks_up
    /\ "recv" \in cbs <=> ~socks_closed

\* A live client has lost a side exactly when that side ended.
EndedOK ==
  life = "live" =>
    /\ "client" \in ended <=> client_closed
    /\ "socks" \in ended <=> socks_closed
    /\ "murder" \notin ended

\* Whatever became of the client, lwIP was given a prefix of the SOCKS stream
\* (an invariant of its own, for the refinement).
DeliveredOK == toClient = Positions(0, Len(toClient)) /\ Len(toClient) <= rgot

IInv ==
  /\ TypeOK /\ FreshOK /\ NotUpOK /\ CallbacksOK /\ EndedOK
  /\ NoCallbackAfterFree /\ WindowIsRoom /\ UploadInOrder /\ DownloadInOrder
  /\ NoStall /\ LingerHasCause /\ GracefulEnd

=============================================================================
