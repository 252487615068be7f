-------------------------- MODULE ShadowsocksLocal --------------------------
(***************************************************************************)
(* One client connection of the shadowsocks local proxy (shadowsocks-libev *)
(* local.c, built with LIB_ONLY): a server_t accepted from the SOCKS5      *)
(* client, the remote_t it is paired with, their libev watchers and their  *)
(* two buffers.  Every action is one libev callback, run to completion.    *)
(*                                                                         *)
(* The client's byte stream is the positions 1 .. ClientLen: positions 1-2 *)
(* are the method greeting, 3 the fixed part of the SOCKS request, 4 the   *)
(* address and the first port byte, 5 the last port byte, and everything   *)
(* after that is payload.  The remote's stream is 1 .. RemoteLen.          *)
(***************************************************************************)
EXTENDS Streams

CONSTANTS
  BufSize,    \* BUF_SIZE, in positions
  ClientLen,  \* length of the client's stream
  RemoteLen,  \* length of the remote's stream
  Breaks,     \* positions of the client's stream a recv() may end at
  FastOpen,   \* the global fast_open
  Requests    \* the SOCKS requests the client may send

GreetingLen  == 2
RequestLen   == 3
HandshakeLen == GreetingLen + RequestLen

ASSUME SizesAssumption ==
  /\ BufSize \in Nat /\ ClientLen \in Nat /\ RemoteLen \in Nat
  /\ BufSize > HandshakeLen
ASSUME BreaksAssumption == Breaks \subseteq 1 .. ClientLen
ASSUME FastOpenAssumption == FastOpen \in BOOLEAN
ASSUME RequestsAssumption ==
  Requests \subseteq [cmd: {"connect", "udp", "bind"},
                      atyp: {"ip", "domain", "bad"}, sni: BOOLEAN]

VARIABLES
  req,        \* the request of this client (chosen by the client)
  fate,       \* "new", "open", or how the connection ended
  stage,      \* server->stage
  active,     \* the running libev watchers of the pair
  remote,     \* server->remote # NULL
  direct,     \* remote->direct
  connected,  \* remote->send_ctx->connected
  abuf,       \* server->abuf; <<>> while it has no header and once it is NULL
  sbuf,       \* server->buf
  rbuf,       \* remote->buf
  chunk,      \* ciphertext the decryption context holds back
  recvd,      \* client positions received
  rrecvd,     \* remote positions received
  replies,    \* SOCKS success replies sent to the client
  toRemote,   \* what has been written to the remote's socket
  toClient    \* payload written to the client's socket

relayVars == <<abuf, sbuf, rbuf, chunk, recvd, rrecvd, replies, toRemote, toClient>>
vars == <<req, fate, stage, active, remote, direct, connected, relayVars>>

Stages == {"INIT", "HANDSHAKE", "PARSE", "STREAM"}

ServerWatchers == {"server_recv", "server_send", "delayed_connect"}
RemoteWatchers == {"remote_recv", "remote_send", "send_timer", "recv_timer"}

Fates == {"new", "open", "clientEof", "remoteEof", "failed", "crashed"}

-----------------------------------------------------------------------------
(* Buffers: data is the memory, [idx, idx + len) the part still to be used. *)

EmptyBuf == [data |-> <<>>, idx |-> 0, len |-> 0]

\* The bytes a send() is given.
Pending(b) == SubSeq(b.data, b.idx + 1, b.idx + b.len)

\* recv() writes behind the first len bytes, whatever idx is.
Received(b, s) == [data |-> SubSeq(b.data, 1, b.len) \o s,
                   idx  |-> b.idx,
                   len  |-> b.len + Len(s)]

\* Mutant of Sent: idx stays where it was.
SentInPlace(b, n, i) ==
  IF n = b.len THEN EmptyBuf ELSE [data |-> b.data, idx |-> b.idx, len |-> b.len - n]

\* n of the pending bytes were accepted and idx is set to i.
Sent(b, n, i) ==
  IF n = b.len THEN EmptyBuf ELSE [data |-> b.data, idx |-> i, len |-> b.len - n]

\* Bytes on their way to the remote: position 0 is the address header, enc
\* counts how often a byte went through crypto->encrypt.
Byte(p, e) == [pos |-> p, enc |-> e]
Plain(s)   == [i \in 1 .. Len(s) |-> Byte(s[i], 0)]
Encrypt(s) == [i \in 1 .. Len(s) |-> Byte(s[i].pos, s[i].enc + 1)]

-----------------------------------------------------------------------------
(* close_and_free_remote(remote); close_and_free_server(server).  The memory *)
(* keeps its last contents, nothing may look at it any more.                 *)

\* Mutant: close_and_free_server forgets ev_timer_stop(delayed_connect_watcher).
CloseKeepTimer(why) ==
  /\ fate' = why
  /\ active' = (IF remote THEN active \ RemoteWatchers ELSE active)
                 \ (ServerWatchers \ {"delayed_connect"})
  /\ UNCHANGED <<req, stage, remote, direct, connected>>

Close(why) ==
  /\ fate' = why
  /\ active' = (IF remote THEN active \ RemoteWatchers ELSE active) \ ServerWatchers
  /\ UNCHANGED <<req, stage, remote, direct, connected>>

\* A callback that closes the pair before it touched a buffer.
CloseNow(why) == Close(why) /\ UNCHANGED relayVars

Init ==
  /\ req \in Requests
  /\ fate = "new" /\ stage = "INIT" /\ active = {}
  /\ remote = FALSE /\ direct = FALSE /\ connected = FALSE
  /\ abuf = <<>> /\ sbuf = EmptyBuf /\ rbuf = EmptyBuf /\ chunk = <<>>
  /\ recvd = 0 /\ rrecvd = 0 /\ replies = 0
  /\ toRemote = <<>> /\ toClient = <<>>

accept_cb ==
  /\ fate = "new"
  /\ fate' = "open"
  /\ active' = {"server_recv"}
  /\ UNCHANGED <<req, stage, remote, direct, connected, relayVars>>

-----------------------------------------------------------------------------
(* server_recv_cb: recv() from the client, then the branch of the stage. *)

ServerReadable == fate = "open" /\ "server_recv" \in active

\* recv() returned 0 (the client's FIN, or no room left in the buffer).
server_recv_cb_eof == ServerReadable /\ CloseNow("clientEof")

\* recv() failed.
server_recv_cb_error == ServerReadable /\ CloseNow("failed")

\* recv() into buffer b took the client's bytes up to position to.
RecvUpTo(b, to) ==
  /\ to \in Breaks
  /\ recvd < to /\ to - recvd <= BufSize - b.len
  /\ recvd' = to

\* The request's fixed part has not arrived.
WaitRequest(b) ==
  /\ b.len = 0
  /\ sbuf' = b
  /\ stage' = "HANDSHAKE"
  /\ UNCHANGED <<fate, active, remote, direct, connected, req, rbuf, abuf, replies>>

\* Mutant: STAGE_PARSE answers again.
ReplyAlways(st) == replies + 1

\* The fake reply goes out in STAGE_HANDSHAKE only.
Reply(st) == IF st = "HANDSHAKE" THEN replies + 1 ELSE replies

\* Unsupported command or address type, short fake reply, no remote, failed
\* encryption: an answer may have gone out, then both halves are closed.
RejectRequest(st, b) ==
  /\ b.len > 0
  /\ replies' \in {replies} \union (IF req.cmd = "bind" THEN {} ELSE {Reply(st)})
  /\ Close("failed")
  /\ UNCHANGED <<sbuf, rbuf, abuf>>

\* What the address branch insists on; the test for domain names forgets the
\* length byte and is satisfied one byte too early.
AddressLen == IF req.atyp = "domain" THEN RequestLen - 1 ELSE RequestLen

\* The fake reply is out; an UDP association, or an address that has not
\* arrived, leaves the request in the buffer and the stage as it is.
HoldRequest(st, b) ==
  /\ b.len > 0
  /\ \/ req.cmd = "udp"
     \/ req.cmd = "connect" /\ req.atyp # "bad" /\ b.len < AddressLen
  /\ replies' = Reply(st)
  /\ sbuf' = b
  /\ stage' = st
  /\ UNCHANGED <<fate, active, remote, direct, connected, req, rbuf, abuf>>

\* An IP address on an HTTP or TLS port whose host name is still incomplete.
AwaitHostname(st, b) ==
  /\ RequestLen <= b.len /\ b.len < BufSize
  /\ req.cmd = "connect" /\ req.atyp = "ip" /\ req.sni
  /\ replies' = Reply(st)
  /\ sbuf' = b
  /\ stage' = "PARSE"
  /\ abuf' = <<Byte(0, 0)>>
  /\ UNCHANGED <<fate, active, remote, direct, connected, req, rbuf>>

\* buf->len -= 3 + abuf_len wraps below zero and the memmove runs away.
Underflow(st, b) ==
  /\ AddressLen <= b.len /\ b.len < RequestLen
  /\ req.cmd = "connect" /\ req.atyp # "bad"
  /\ fate' = "crashed"
  /\ active' = {}
  /\ replies' = Reply(st)
  /\ UNCHANGED <<stage, remote, direct, connected, req, sbuf, rbuf, abuf>>

\* The address is complete: create_remote (direct when the ACL bypasses the
\* proxy), encrypt the header for the proxy, hand the rest of the buffer
\* over and arm the delayed connect.
StartStream(st, b) ==
  /\ RequestLen <= b.len
  /\ req.cmd = "connect" /\ req.atyp # "bad"
  /\ LET rest == SubSeq(b.data, RequestLen + 1, b.len) IN
       /\ sbuf' = [data |-> rest, idx |-> 0, len |-> b.len - RequestLen]
       /\ rbuf' = [data |-> Plain(rest), idx |-> 0, len |-> b.len - RequestLen]
  /\ direct' \in BOOLEAN
  /\ abuf' = <<Byte(0, IF direct' THEN 0 ELSE 1)>>
  /\ remote' = TRUE
  /\ stage' = "STREAM"
  /\ replies' = Reply(st)
  /\ active' = active \union {"delayed_connect"}
  /\ UNCHANGED <<fate, connected, req>>

HandleRequest(st, b) ==
  \/ WaitRequest(b)
  \/ RejectRequest(st, b)
  \/ HoldRequest(st, b)
  \/ AwaitHostname(st, b)
  \/ Underflow(st, b)
  \/ StartStream(st, b)

\* STAGE_INIT: wait for the whole greeting, answer it, and go on with what
\* follows it in the same buffer.
server_recv_cb_init ==
  /\ ServerReadable /\ stage = "INIT"
  /\ \E to \in Breaks :
       /\ RecvUpTo(sbuf, to)
       /\ LET b == Received(sbuf, Positions(recvd, to)) IN
            \/ /\ b.len < GreetingLen
               /\ sbuf' = b
               /\ UNCHANGED <<fate, active, stage, remote, direct, connected, req,
                              rbuf, abuf, replies>>
            \/ /\ b.len >= GreetingLen
               /\ HandleRequest("HANDSHAKE",
                    [data |-> SubSeq(b.data, GreetingLen + 1, b.len),
                     idx  |-> 0, len |-> b.len - GreetingLen])
  /\ UNCHANGED <<chunk, rrecvd, toRemote, toClient>>

\* STAGE_HANDSHAKE and STAGE_PARSE.
server_recv_cb_request ==
  /\ ServerReadable /\ stage \in {"HANDSHAKE", "PARSE"}
  /\ \E to \in Breaks :
       /\ RecvUpTo(sbuf, to)
       /\ HandleRequest(stage, Received(sbuf, Positions(recvd, to)))
  /\ UNCHANGED <<chunk, rrecvd, toRemote, toClient>>

\* Mutant: the test of remote->direct is dropped.
OutgoingAlways(b) ==
  LET c == abuf \o Encrypt(SubSeq(b.data, 1, b.len))
  IN  [data |-> c, idx |-> b.idx, len |-> Len(c)]

\* STAGE_STREAM: for the proxy, encrypt what is in the buffer and put the
\* address header (once: abuf is freed) in front of it.
Outgoing(b) ==
  IF direct THEN b
  ELSE LET c == abuf \o Encrypt(SubSeq(b.data, 1, b.len))
       IN  [data |-> c, idx |-> b.idx, len |-> Len(c)]

\* Mutants of PauseReading: one of its watcher calls is missing.
PauseStillReading(timer) ==
  active' = (active \ {"delayed_connect"}) \union {"remote_send"} \union timer
PauseUntimed(timer) ==
  active' = (active \ {"server_recv", "delayed_connect"}) \union {"remote_send"}
\* Give up reading the client until the remote has taken the buffer.
PauseReading(timer) ==
  active' = (active \ {"server_recv", "delayed_connect"})
              \union {"remote_send"} \union timer

\* The first pass connects; with fast open some of the data may go with the
\* SYN, and a connect in progress then runs without the connect timer.
ConnectRemote(b) ==
  \/ /\ ~FastOpen \/ direct
     /\ rbuf' = [b EXCEPT !.idx = 0]
     /\ PauseReading({"send_timer"})
     /\ UNCHANGED toRemote
  \/ /\ FastOpen /\ ~direct
     /\ rbuf' = [b EXCEPT !.idx = 0]
     /\ PauseReading({})
     /\ UNCHANGED toRemote
  \/ /\ FastOpen /\ ~direct
     /\ \E n \in 1 .. b.len :
          /\ rbuf' = Sent(b, n, n)
          /\ toRemote' = toRemote \o SubSeq(b.data, 1, n)
     /\ PauseReading({"send_timer"})

\* Mutant: after a partial send() the remote's send watcher is not started.
SendAndStall(b) ==
  \E n \in 0 .. b.len :
    /\ rbuf' = Sent(b, n, n)
    /\ toRemote' = toRemote \o SubSeq(b.data, 1, n)
    /\ active' = active \ (IF n = b.len THEN {"delayed_connect"}
                           ELSE {"server_recv", "delayed_connect"})

\* Later passes send; what the socket does not take is left to remote_send_cb.
SendToRemote(b) ==
  \E n \in 0 .. b.len :
    /\ rbuf' = Sent(b, n, n)
    /\ toRemote' = toRemote \o SubSeq(b.data, 1, n)
    /\ IF n = b.len THEN active' = active \ {"delayed_connect"}
                    ELSE PauseReading({})

StreamPass(b) ==
  /\ LET out == Outgoing(b) IN
       IF connected THEN SendToRemote(out) ELSE ConnectRemote(out)
  /\ abuf' = IF direct THEN abuf ELSE <<>>
  /\ UNCHANGED <<req, fate, stage, remote, direct, connected, sbuf, chunk,
                 rrecvd, replies, toClient>>

\* Encryption, connect() or send() failed in the pass.
StreamFailure ==
  /\ Close("failed")
  /\ UNCHANGED <<abuf, sbuf, rbuf, chunk, rrecvd, replies, toRemote, toClient>>

server_recv_cb_stream ==
  /\ ServerReadable /\ stage = "STREAM"
  /\ \E to \in Breaks :
       /\ RecvUpTo(rbuf, to)
       /\ \/ StreamPass(Received(rbuf, Plain(Positions(recvd, to))))
          \/ StreamFailure

\* STAGE_WAIT: the timer enters the same branch without a recv().
delayed_connect_cb ==
  /\ fate = "open" /\ "delayed_connect" \in active
  /\ UNCHANGED recvd
  /\ StreamPass(rbuf) \/ StreamFailure

-----------------------------------------------------------------------------
(* The other watchers of the pair. *)

RemoteWritable == fate = "open" /\ "remote_send" \in active

\* getpeername succeeded: the connect is over, the remote may be read.
Established == (active \ {"send_timer"}) \union {"remote_recv", "recv_timer"}

remote_send_cb ==
  /\ RemoteWritable
  /\ LET act == IF connected THEN active ELSE Established IN
       \/ /\ ~connected /\ rbuf.len = 0
          /\ active' = (act \ {"remote_send"}) \union {"server_recv"}
          /\ UNCHANGED <<rbuf, toRemote>>
       \/ \E n \in 0 .. rbuf.len :
            /\ rbuf.len # 0
            /\ rbuf' = Sent(rbuf, n, rbuf.idx + n)
            /\ toRemote' = toRemote \o SubSeq(rbuf.data, rbuf.idx + 1, rbuf.idx + n)
            /\ active' = IF n = rbuf.len
                         THEN (act \ {"remote_send"}) \union {"server_recv"}
                         ELSE act
  /\ connected' = TRUE
  /\ UNCHANGED <<req, fate, stage, remote, direct, abuf, sbuf, chunk, recvd,
                 rrecvd, replies, toClient>>

\* getpeername or send() failed, or there was nothing to send.
remote_send_cb_close == RemoteWritable /\ CloseNow("failed")

RemoteReadable == fate = "open" /\ "remote_recv" \in active

\* recv() from the remote, decrypt, send() to the client.  The decryption
\* context keeps an incomplete chunk for the next call.
remote_recv_cb ==
  /\ RemoteReadable
  /\ \E to \in (rrecvd + 1) .. RemoteLen :
       /\ to - rrecvd <= BufSize
       /\ rrecvd' = to
       /\ LET act == active \union {"recv_timer"} \* ev_timer_again
              all == chunk \o Positions(rrecvd, to)
          IN
            \/ /\ ~direct \* CRYPTO_NEED_MORE
               /\ chunk' = all
               /\ active' = act
               /\ UNCHANGED <<sbuf, toClient>>
            \/ \E k \in (IF direct THEN {Len(all)} ELSE 1 .. Len(all)) : \E n \in 0 .. k :
                 /\ chunk' = SubSeq(all, k + 1, Len(all))
                 /\ toClient' = toClient \o SubSeq(all, 1, n)
                 /\ sbuf' = Sent([data |-> SubSeq(all, 1, k), idx |-> 0, len |-> k], n, n)
                 /\ active' = IF n = k THEN act
                              ELSE (act \ {"remote_recv"}) \union {"server_send"}
  /\ UNCHANGED <<req, fate, stage, remote, direct, connected, abuf, rbuf, recvd,
                 replies, toRemote>>

remote_recv_cb_eof   == RemoteReadable /\ CloseNow("remoteEof")
remote_recv_cb_error == RemoteReadable /\ CloseNow("failed")

ClientWritable == fate = "open" /\ "server_send" \in active

server_send_cb ==
  /\ ClientWritable
  /\ sbuf.len # 0
  /\ \E n \in 1 .. sbuf.len :
       /\ sbuf' = Sent(sbuf, n, sbuf.idx + n)
       /\ toClient' = toClient \o SubSeq(sbuf.data, sbuf.idx + 1, sbuf.idx + n)
       /\ active' = IF n = sbuf.len
                    THEN (active \ {"server_send"}) \union {"remote_recv"}
                    ELSE active
  /\ UNCHANGED <<req, fate, stage, remote, direct, connected, abuf, rbuf, chunk,
                 recvd, rrecvd, replies, toRemote>>

\* send() failed, or there was nothing to send.
server_send_cb_close == ClientWritable /\ CloseNow("failed")

\* The connect timer, and the idle timer that only remote_recv_cb restarts.
remote_timeout_cb ==
  /\ fate = "open"
  /\ active \intersect {"send_timer", "recv_timer"} # {}
  /\ CloseNow("failed")

-----------------------------------------------------------------------------
ServerIO ==
  \/ server_recv_cb_eof \/ server_recv_cb_error \/ server_recv_cb_init
  \/ server_recv_cb_request \/ server_recv_cb_stream \/ delayed_connect_cb
  \/ server_send_cb \/ server_send_cb_close

RemoteIO ==
  \/ remote_send_cb \/ remote_send_cb_close \/ remote_recv_cb
  \/ remote_recv_cb_eof \/ remote_recv_cb_error \/ remote_timeout_cb

Next == accept_cb \/ ServerIO \/ RemoteIO

\* libev keeps running its loop, so an armed connect timer fires in the end,
\* and a connected peer that stays connected takes data in the end.  That a
\* connect succeeds, or that anybody sends anything, is not assumed.
ConnectTimeout == "send_timer" \in active /\ remote_timeout_cb

Fairness ==
  /\ WF_vars(delayed_connect_cb)
  /\ WF_vars(ConnectTimeout)
  /\ WF_vars(connected /\ remote_send_cb)
  /\ WF_vars(server_send_cb)

Spec == Init /\ [][Next]_vars /\ Fairness

-----------------------------------------------------------------------------
(* Properties *)

BufType(D) == [data: Seq(D), idx: Nat, len: Nat]
Bytes == [pos: Nat, enc: Nat]

\* The types of the fields of server_t and remote_t.
TypeOK ==
  /\ req \in Requests
  /\ fate \in Fates
  /\ stage \in Stages
  /\ active \subseteq ServerWatchers \union RemoteWatchers
  /\ remote \in BOOLEAN /\ direct \in BOOLEAN /\ connected \in BOOLEAN
  /\ abuf \in Seq(Bytes)
  /\ sbuf \in BufType(Nat) /\ rbuf \in BufType(Bytes)
  /\ chunk \in Seq(Nat)
  /\ recvd \in 0 .. ClientLen /\ rrecvd \in 0 .. RemoteLen
  /\ replies \in Nat
  /\ toRemote \in Seq(Bytes) /\ toClient \in Seq(Nat)

\* No watcher outlives the pair: a callback on freed memory cannot happen,
\* whichever of the many early returns closed it.
NoWatcherAfterFree == fate # "open" => active = {}

\* The backpressure protocol of the two directions.  Before the connect only
\* the client is read; afterwards each buffer belongs to exactly one watcher,
\* the one that fills it or the one that drains it, so no data is received
\* into a buffer that is still being sent and no live pair is left without a
\* watcher that can make progress.
OneOwnerPerBuffer ==
  fate = "open" /\ stage = "STREAM" =>
    /\ ("server_recv" \in active) # ("remote_send" \in active)
    /\ connected => ("remote_recv" \in active) # ("server_send" \in active)

\* A send watcher only runs while there is something to send: the branches of
\* remote_send_cb and server_send_cb that close the pair on an empty buffer
\* are never taken.
SendHasData ==
  fate = "open" =>
    /\ "remote_send" \in active /\ connected => rbuf.len > 0
    /\ "server_send" \in active => sbuf.len > 0

\* What the remote must have been sent once n client positions are relayed:
\* the bare payload when direct, otherwise the header and the payload, each
\* byte encrypted exactly once.
Wire(n) ==
  LET payload == Plain(Positions(HandshakeLen, n))
  IN  IF direct THEN payload ELSE <<Byte(0, 1)>> \o Encrypt(payload)

\* Upload: whatever the socket accepts and whenever the data arrives (during
\* the handshake, during the delayed connect, after it), what was written and
\* what waits in remote->buf is the whole payload in order, encrypted once.
UploadIntact ==
  fate = "open" /\ stage = "STREAM" =>
    IF "delayed_connect" \in active
    THEN toRemote = <<>> /\ Pending(rbuf) = Plain(Positions(HandshakeLen, recvd))
    ELSE toRemote \o Pending(rbuf) = Wire(recvd)

\* Download: what the client got, what waits in server->buf and what the
\* decryption context holds back is the remote's stream in order.
DownloadIntact ==
  fate = "open" /\ connected =>
    toClient \o (IF "server_send" \in active THEN Pending(sbuf) ELSE <<>>) \o chunk
      = Positions(0, rrecvd)

\* A client that shuts down after the remote was connected loses none of its
\* upload, and a remote's end of stream loses none of the download, although
\* both close the pair at once.  (What the other direction still held is lost.)
EofFlushed ==
  /\ fate = "clientEof" /\ connected => toRemote = Wire(recvd)
  /\ fate = "remoteEof" => toClient \o chunk = Positions(0, rrecvd)

\* A connect in progress is bounded by the connect timer, unless fast open
\* started it.
ConnectIsBounded ==
  fate = "open" /\ stage = "STREAM" /\ ~connected /\ ~FastOpen =>
    active \intersect {"delayed_connect", "send_timer"} # {}

\* With every SOCKS message in one segment, a client gets one reply and the
\* length arithmetic of the request never wraps.
HandshakeSane == replies <= 1 /\ fate # "crashed"

\* Once the request is parsed the remote gets connected even if the client
\* never sends a byte, or the pair is closed.
ConnectsEventually == (fate = "open" /\ stage = "STREAM") ~> (connected \/ fate # "open")

\* Data waiting for the remote leaves remote->buf, or the pair is closed.
UploadDrains ==
  (fate = "open" /\ rbuf.len > 0) ~> (rbuf.len = 0 \/ fate # "open")

-----------------------------------------------------------------------------
(* The inductive invariant behind the safety properties. *)

BufOK(b) == b.idx + b.len = Len(b.data) /\ (b.len = 0 => b.idx = 0)

\* Which watchers run, phase by phase of a connection's life.
WatchersOK ==
  /\ fate # "open" => active = {}
  /\ fate = "open" /\ stage # "STREAM" => active = {"server_recv"}
  /\ fate = "open" /\ stage = "STREAM" /\ ~connected =>
       \/ active = {"server_recv", "delayed_connect"}
       \/ active = {"remote_send", "send_timer"}
       \/ FastOpen /\ active = {"remote_send"}
  /\ fate = "open" /\ connected =>
       \E up \in {"server_recv", "remote_send"} :
         \E down \in {"remote_recv", "server_send"} :
           active = {"recv_timer", up, down}

\* The remote exists from the end of the handshake on.
PairOK ==
  /\ fate = "new" => stage = "INIT"
  /\ remote <=> stage = "STREAM"
  /\ connected => stage = "STREAM"

\* Until then server->buf holds the part of the handshake not yet used and
\* nothing else has happened.
HandshakeData ==
  stage # "STREAM" =>
    /\ sbuf.idx = 0 /\ rbuf = EmptyBuf /\ toRemote = <<>>
    /\ fate \in {"new", "open"} =>
         IF stage = "INIT" THEN sbuf.data = Positions(0, recvd)
         ELSE recvd >= GreetingLen /\ sbuf.data = Positions(GreetingLen, recvd)

\* remote->buf is empty whenever the client of a connected pair may be read.
UploadOK ==
  fate = "open" /\ stage = "STREAM" =>
    /\ recvd >= HandshakeLen
    /\ "server_recv" \in active => rbuf.idx = 0 /\ (connected => rbuf.len = 0)
    /\ "remote_send" \in active /\ connected => rbuf.len > 0
    /\ "delayed_connect" \in active /\ ~direct => abuf = <<Byte(0, 1)>>
    /\ "delayed_connect" \notin active /\ ~direct => abuf = <<>>

DownloadOK ==
  /\ ~connected => rrecvd = 0 /\ chunk = <<>> /\ toClient = <<>>
  /\ fate = "open" /\ "server_send" \in active => sbuf.len > 0

IInv ==
  /\ TypeOK
  /\ BufOK(sbuf) /\ BufOK(rbuf)
  /\ WatchersOK /\ PairOK /\ HandshakeData /\ UploadOK /\ DownloadOK
  /\ UploadIntact /\ DownloadIntact /\ EofFlushed

\* Clients that send each SOCKS message with one write, which arrives whole, and
\* ask for no UDP association.
WholeMessages ==
  /\ Breaks \subseteq {GreetingLen} \union HandshakeLen .. ClientLen
  /\ \A r \in Requests : r.cmd # "udp"

\* No reply goes out before the request is dealt with, which is done once.
AnsweredOnce ==
  /\ HandshakeSane
  /\ fate \in {"new", "open"} /\ stage \in {"INIT", "HANDSHAKE"} => replies = 0

=============================================================================
