# TLA+ verification of SSTestKit

SSTestKit is an iOS VPN application. Its packet tunnel extension takes the IP
packets of the device, turns TCP connections back into byte streams, and relays
them through two local proxies to a shadowsocks server. This directory holds
TLA+ modules for the parts of the extension that carry that data and that start
and stop it, TLC configurations that check them on small instances, and TLAPS
proofs that hold for every value of their constants.

Run a model with `tlc -config <run>.cfg MC<module>`, a proof with
`tlapm <module>Proofs.tla`.

## 1. The system

```
 packetFlow --UDP--> TunnelInterface -- GCDAsyncUdpSocket --> network
     |
    TCP, length-prefixed, through a pipe
     v
 BTap -> lwIP -> tcp_client (tun2socks) -> BSocksClient
                                             | 127.0.0.1:socksProxyPort
                                             v
                                    Antinat SOCKS server --+
                                                           | 127.0.0.1:ssport
 HTTP proxy settings -> Privoxy ---------------------------+
                                                           v
                                              shadowsocks local proxy -> server
```

| Component | State it keeps | Operations | Talks to |
|---|---|---|---|
| shadowsocks local proxy (`local.c`) | per connection a `server_t` and a `remote_t`: stage, two buffers, seven watchers | libev callbacks: accept, receive, send, delayed connect, timeouts | its client and its server, by TCP; one thread, the loop's |
| tun2socks TCP client (`tun2socks.c`) | `struct tcp_client`: which sides are up or closed, receive buffer, receive window, `socks_recv_*` | lwIP callbacks (accept, recv, sent, err), BSocksClient callbacks (up, error, closed, send done, receive done) | lwIP and BSocksClient, by calls that may re-enter through the pending-job queue |
| tun2socks process (`tun2socks.c`, `BReactor_badvpn.c`) | `quitting`, `exiting`, the loop | initialise, dispatch, terminate, clean up | its own thread; `terminate` comes from the main thread |
| packet tunnel provider (`SSPacketTunnelProvider.m`, `PacketTunnelProvider.swift`) | pending start and stop completions, observer of `defaultPath`, wormhole | start, settings completion, stop by the system or the app, `onTun2SocksFinished` | proxy manager, tunnel interface, the framework |
| proxy manager (`ProxyManager.m`) | port and listener of each proxy | start, callback, stop of three proxies | a thread for each proxy |
| TCP packet pipe (`TunnelInterface.m`, `BTap.m`) | bytes in the pipe, BTap's buffer | `handleTCPPPacket:`, `fd_handler`, `output_handler_recv` | writer and reader on different threads |
| UDP session table (`TunnelInterface.m`, `GCDAsyncUdpSocket.m`) | `udpSession`: remote address to local address; the socket's send queue | send, receive, close on error | two queues share a dictionary |
| Antinat (`an_main.m`, `conn.m`, `socks5.m`) | `an_active`, the configuration with its reference count, `conn_t` and descriptors of each connection, a lock | accept loop, child and forwarder threads, `closeup` | tun2socks and shadowsocks by TCP; stop from the main thread |
| SOCKS client (`BSocksClient.c`) | handshake state, control buffer, events told | connect, send, receive, free | Antinat by TCP, `tcp_client` by callbacks |
| reactor (`BReactor_badvpn.c`, `BPending.c`, `BConnection_unix.c`) | job queue, timers, kevent results, limits | dispatch, wait, add and remove | all of tun2socks, one thread |
| Privoxy | a thread per connection, list of client states | HTTP proxy chained to shadowsocks | wormhole reading the list from the main thread |
| ciphers, filter, ACL, rules, cache, UDP relay (shadowsocks) | partial chunk, two-generation filter, lists | called from the local proxy | same thread |
| VPN manager (`VPNManager.m`) | manager, status, `observerAdded` | load, create, switch, start, stop | asynchronous completions of the framework |

**What is hard here.** Backpressure in both relays is a protocol of starting
and stopping watchers, spread over many early returns. Either end of a
connection may close first while data is buffered. A start is a chain over
five threads and queues, and a stop may arrive on the main thread at any point
of it. Two flags are shared with the reactor's thread without a lock. Frames in
the pipe are read with two non-blocking reads while the writer may be half-way.
UDP replies are matched in a dictionary two queues share. Antinat's threads end
in any order, and its configuration may be dropped under them. A handler of the
reactor may free what the loop is about to call.
`PROJECT.json` lists each hazard with its line and the properties aimed at it.

**What makes each part correct.** Both relays: the bytes delivered are a prefix
of the bytes received, nothing is lost, doubled, reordered or encrypted twice,
neither direction stalls, nothing runs on freed memory, and a graceful end
loses nothing of its own direction. The provider: a tunnel reported as started is complete, a start
is answered, a stop ends the process. The pipe: packets arrive whole, in order,
and all of them. UDP: a reply goes to the port that asked. SOCKS: both ends read
at the same place of the stream, and "up" is only said of a connection to what was asked for.
Antinat: nothing is used after it was freed, no descriptor leaks, no connection
is held by a lost lock. The reactor: nothing is called after it was removed, and
nothing that was asked for is forgotten.

## 2. Modules

| Module | Models |
|---|---|
| `Streams` | a TCP stream as the positions of its bytes; what is left after a prefix |
| `Relay` | abstract specification of one direction of a relay |
| `ShadowsocksLocal`, `MCShadowsocksLocal`, `ShadowsocksLocalProofs` | one connection of the shadowsocks local proxy |
| `Tun2SocksClient`, `MCTun2SocksClient`, `Tun2SocksClientProofs` | one intercepted TCP connection in tun2socks |
| `TunnelProvider`, `MCTunnelProvider`, `TunnelProviderProofs` | the life of the extension's process |
| `TapPipe`, `MCTapPipe`, `TapPipeProofs` | the pipe between packet flow and tun2socks |
| `UdpSession`, `MCUdpSession`, `UdpSessionProofs` | UDP datagrams and their replies |
| `SocksHandshake`, `MCSocksHandshake`, `SocksHandshakeProofs` | BSocksClient and Antinat's handler, over one TCP connection |
| `Antinat`, `MCAntinat`, `AntinatProofs` | Antinat's threads, configuration and descriptors |
| `Reactor`, `MCReactor`, `ReactorProofs` | the event loop with its jobs, timers, descriptors and limits |

Definitions named `...Never`, `...Always`, `..._none` and the like, each with a
comment "Mutant of X", are variants of X with a plausible mistake. They are used
by no specification; replacing X by one of them makes a named property fail.

### ShadowsocksLocal

A step is one libev callback, run to completion. `active` is the set of running
watchers, `sbuf` and `rbuf` are `server->buf` and `remote->buf` with their
`idx` and `len`, and a byte of `rbuf` carries how often it was encrypted. The
client's stream is a sequence of positions: two for the greeting, three for the
request (fixed part; address and first port byte; last port byte), then payload.
`Breaks` says where a `recv` may end.

* The client speaks SOCKS5. `EAGAIN` on a read changes nothing and is a
  stuttering step; on a send it is the partial send of zero bytes.
* A request that arrives in pieces is parsed, and its success reply sent, again
  each time, so the code sends one reply only to clients that write each message
  in one piece, as Antinat and Privoxy do. `HandshakeSane` is stated for those.
* The length test for a domain name is one byte short (`local.c:593`). With cuts
  at every byte the model reaches the wrap at line 669 (fate `"crashed"`).
* Payload that arrives while the connect is delayed goes into `remote->buf`
  unencrypted, and the client's end of stream during that time drops it. On a
  connected pair an end of stream drops what the opposite direction still holds.
  `EofFlushed` speaks of connected pairs and of the direction that ended.
* Decryption may hold back a partial chunk (`chunk`); `STAGE_WAIT` is set and
  left inside one callback and is no state of the model. The receive timer is
  restarted only by `remote_recv_cb`.
* ACL and SNI are kept as what they decide: direct or not, wait for a host name.

### Tun2SocksClient

A step is one lwIP or BSocksClient callback. The jobs that `SYNC_COMMIT` runs
are the steps that follow. `cbs` are the callbacks registered with lwIP, `wnd`
the window it still offers, `sendLen` and `recvBusy` the operations pending in
BSocksClient. lwIP is external: `tcp_write` takes any prefix, `tcp_write` and
`tcp_output` may fail, a confirmation covers any part of what was written. A
refused packet (`"no buffer for data !?!"`) would change nothing, and
`WindowIsRoom` shows it does not happen. The number of clients and their list
are left out; `client_murder` stands for the loop's clean-up.

### TunnelProvider

Five flows interleave: the start sequence, the settings completion, the stop on
the main thread, the proxy threads and the tun2socks thread. An action ends where
another thread can see or change what it did, so `terminate` is two steps
(`quitting`, `exiting`), a stop by the system is six, and the initialisation of tun2socks
clears the two flags in two steps. Removing an observer that is not registered
raises an exception nothing catches (`"crashed"`). A proxy may come up, call
back with an error, or die without a callback; the wait of two seconds may end
at any time before the callback. `PacketTunnelProvider.swift` hands the stop
completion to the provider and then to `super.stopTunnel`; the latter is the
framework's and may or may not call it (`super_stopTunnel`), so the completion may
be called before tun2socks has ended, twice, or, when tun2socks ends before it is
stored, by the framework only. No property is stated of it.

Left out: the status socket and the values in the shared defaults, re-applying
the settings when the network changes, logging, and the two branches of
`_startShadowsocks` that call back with port 0 at once (`ProxyManager.m:142` and
`:189`), which are dead: the values they test are constants. The framework calls the system's stop at most
once; the app's message may come any number of times up to `MaxStops`.

### TapPipe

`handleTCPPPacket` puts the length in front of a packet and `write` hands it
over: a message of at most `PipeBuf` bytes is taken whole, a longer one as far
as there is room (on this platform PIPE_BUF is 512 and `TunnelMTU` 1500).
`fd_handler` is two steps, header and body, because the writer may run between
its two reads. `error` says how the device failed, `lost` that half a header was
dropped, `split` that some write was taken in parts; the last two only record.

### UdpSession

`handleUDPPacket` stores who asked a server (`session`) and queues the payload.
The dictionary has no lock, so a store is two steps (`storing` in between), and a
lookup in between may find the old entry, the new one or none, or crash. A reply
is a pair of the datagram it answers and a number, so late, doubled and reordered
replies are told apart; it passes `network`, the delegate's queue (`inbox`) and
the main queue (`packets`) before it is `written`. GCDAsyncUdpSocket is kept as
far as the tunnel depends on it: a send that fails closes the socket, and the
next send creates one without `beginReceiving` (`"deaf"`), so that the tunnel
never receives UDP again. A server reached over
NAT64 answers from an IPv6 address, which the lookup cannot find.

### SocksHandshake

Both ends of the connection between tun2socks and Antinat in one module, as the
handshake is only right if they agree: BSocksClient is a state machine with
partial sends and receives, `ChildThread` reads field after field with blocking
reads. A byte is the field it belongs to and its value. Either side may fail or
go at any point; a read that `socks5_resolve_ipv4` does not check leaves
`"garbage"` as the destination. The success reply and `conn_forwardData` are two
steps: when there is no pipe, memory or thread for a forwarder, the client was told
that it is up and nothing is ever relayed (`"stranded"`), since `socks5_cmd_conn`
does not look at the result; `UpIsConnected` therefore says connected, not relayed.
`connection_handler`, `send_handler_done` and the
events told to the user are what `Tun2SocksClient` assumes of BSocksClient.

### Antinat

Threads: the accept loop, a child and a forwarder for each connection, and
`closeup`. `refcount` counts the references to the configuration; a use after the
last one went sets `touched`, after which the process may end at any time
(`Abort`). `fds` are a connection's descriptors, `live` says that its `conn_t` is
allocated. A forwarder that got data is in a send until it returns (`"to_local"`,
`"to_remote"`); the sockets block and have no timeout, so a send to a side that is
there need never return (`Blocked`), and no fairness says that it does; one to a
side that has gone fails. Each of its neighbours closes both directions at once.
`conn_dict` is a `static` variable in a header (`an_serv.h:82`), so the
table `conn.m` reads stays nil: `write_pipe_for_conn` always answers -1, every
connection gets a forwarder of its own, `maxconnsperthread` has no effect, and the
model has no shared forwarders.

### Reactor

A step is a decision of `BReactor_Exec`, or a handler run to its end: jobs go
first, then expired timers, then kevent results, then a wait. Handlers are those
of BConnection, whose reads and writes go on as jobs until the socket or the limit
stops them, and those of users, who may free and open connections and set and
remove timers; a user may set any timer at any time, also one that is due or waits
for its call. Both lists are linked ones: `Unlink` takes a node out by itself, as
`LinkedList1_Remove` does. Timers of equal time are ordered by address, so any order
of them may come up. A connection opened in the place of a freed one has a new number
(`gen`), so an old event for it is recognised. `ASSERT` only prints in this build
(`misc/debug.h:105`) and changes nothing. A call into freed memory (`stale`) ends
the model: anything may follow it.

## 3. Runs

| Run | States | Bounds | Shows |
|---|---|---|---|
| `ss_relay` | 50,759 | 6-position buffers, 9 client and 3 remote positions, cuts anywhere, every kind of request, fast open | no watcher after free, both streams intact, an end of stream flushes its own direction |
| `ss_handshake` | 5,815 | cuts between messages only | one reply, no wrap; every parsed request is connected or closed; upload leaves the buffer |
| `t2s_client` | 11,746 | window 3, receive buffer 2, 5 bytes each way | no callback after free, window is room, no stall, graceful ends lose nothing, lingering ends, each direction implements `Relay` |
| `tunnel` | 1,511 | 3 stops | a reported start is complete, stop finds listening proxies, the first stop after a reported start does not raise; a start is answered; a stop that meets a running loop ends the process |
| `tap_pipe` | 4,460 | base 4, MTU 5, pipe of 9, PIPE_BUF 4, 3 packets | frames intact unless half a header is lost, failures need a split write, packets arrive |
| `udp_session` | 50,618 | 2 ports, 2 servers (1 by NAT64), 2 datagrams, 2 replies each | a reply goes to its asker unless the server is shared, the lookup raced a store or the answer came by IPv6; never to a stranger; it is written in the end |
| `socks_handshake` | 1,650 | IPv4 and IPv6 requests, 3 bytes of payload each way, cuts anywhere | both ends in sync, up means connected to what was asked for, resources as the state says, events in order, the handshake ends |
| `antinat` | 100,943 | 2 connections | the configuration outlives the connections taken before `closeup`, at most one is taken after it, `conn_t` handed over safely, descriptors exact, a connection one of whose sides ends is closed unless it is stranded or its forwarder stays in a send |
| `reactor` | 1,143,114 | 2 connections opened twice, 2 timers, delays 0 and 1, limit 1, clock to 1 | no stale call as long as each descriptor comes back once, timers in order, also when set again while due or expired, nothing under way is forgotten, no timer starved unless it is set again for ever |
| `tunnel_quit` | violated | 1 stop | see below |
| `tap_retry` | violated | as `tap_pipe` | see below |
| `reactor_twice` | violated | as `reactor` | see below |

The type invariants hold in all of these instances, and all are proved (section 4).

**Why the bounds suffice.** The streams are longer than the buffers and windows,
so every buffer fills, drains in parts and is refilled, and the handshake, the
delayed connect and the stream can meet in one receive. Three stops give a first
stop, a repeated one and one of each origin. The pipe holds one frame of full
length and part of another, so a write is split at every place of a frame, inside
the header too. Count 3 and base 4 are enough for stray bytes to form wrong and
empty headers. Two ports on one server are what it takes to mix up replies, and
two replies to be late. Two connections of Antinat let one hold the lock, a
reference or the accept loop while the other ends and `closeup` runs. In the
reactor two timers have equal and different times, one connection may free the
other, and a place is used again while old events are left. Deadlock is not checked: a connection that is freed, a process
that has ended and a device that has failed do stop.

**Fairness.** Weak fairness only, of what runs without anybody's help:
`ShadowsocksLocal`: libev fires the delayed connect and the connect timer, and a
connected peer takes data in the end (or the pair is closed); no success of a
connect is assumed. `Tun2SocksClient`: the local proxy answers and takes data
(BSocksClient has no timer of its own, so this is an assumption about Antinat),
and a client that stays connected acknowledges. `TunnelProvider`: threads run,
the two-second wait ends, the framework answers the settings request; neither a
stop nor an event is assumed. `TapPipe`: the blocked writer goes on when there is
room and the tun2socks thread runs. `UdpSession`: blocks on a dispatch queue run;
the network promises nothing. `SocksHandshake`: the reactor and the child run, and
each wait of the child ends (five minutes in `conn_waitForData`, shadowsocks'
timers on connecting). `Antinat`: threads run, and a send to a side that has gone
fails; a send to one that is there may block for ever, so `ClosesWhenPeerEnds` has
the hypothesis that the connection's forwarder is not blocked for good, and the
lock is not assumed to be fair. `Reactor`: the thread runs and `kevent()` times
out; no socket has to become ready. `TimerFires` has the hypothesis that users do
not set a timer that is owed its call again for ever, which is so for the only
timer of tun2socks: its own handler sets it.

### Disagreements between code and its comments

* `tunnel_quit`. `terminate` says "exit event loop" (477) and `BReactor_Quit`
  that any further `BReactor_Exec` returns at once (`BReactor_badvpn.h:324`). A
  stop that reaches them before the tun2socks thread has initialised is undone
  by `BReactor_Init` and by `quitting = 0` (326): the loop runs on with its
  proxies stopped and the process stays. `StopEnds` is what does hold.
* `tap_retry`. `fd_handler` means to "retry later" on `EAGAIN` (`BTap.m:193`),
  but the comparison in line 187 has reported a fatal error by then. It takes a
  write that the kernel split behind the header.
* `reactor_twice`. `BReactor_Exec` asserts that a descriptor it dispatches is
  active (`BReactor_badvpn.c:890`). A connection that waits for both directions
  comes back from `kevent()` twice, `kevent_returned_ptr` remembers one entry and
  is cleared by the first dispatch; if that handler frees the connection, the
  second entry leads into freed memory. `NoStaleDispatch` says that this is the
  only way there.

Two more, which no run is spent on: the handlers of `tun2socks.c` begin with
`ASSERT(!quitting)` (983, 997, 1007), but `terminate` runs on the main thread, so a
handler the loop has already chosen starts with it set, and the assertion prints;
and `config_dereference` says that nothing is using what it frees
(`config.m:1482`), but after `closeup` the accept loop may take one more reference
from the freed configuration (`an_main.m:124`), as `OneAfterStop` bounds.

## 4. Proofs

Every theorem holds for all values of the constants under the named assumptions
of the module: sizes, lengths and bounds are natural numbers (windows, limits and
addresses not zero); `BufSize` exceeds the handshake; `Breaks`, `Requests`,
`Addresses` and `V6Servers` are any subsets of what is possible; a packet's length
fits into two bytes (`MTU < Base * Base`), and the pipe holds what is written in one
piece (`PipeBuf <= Capacity`); connections, descriptors and timers are finite in
number. Each proof shows `Init => IInv`, `IInv /\ [Next]_vars => IInv'` with one
step for each action, and derives the properties from `IInv`. Every safety invariant
and every action property that a run checks is proved.

* **ShadowsocksLocal.** None of the properties is inductive alone: that the
  upload is intact needs `rbuf` to be empty whenever a connected client is read,
  which needs the exact set of watchers in each phase (`WatchersOK`), which needs
  the phases (`PairOK`, `HandshakeData`); `UploadOK` and `DownloadOK` tie indices,
  headers and held-back chunks to them. Proved: `TypeCorrect`, `WatchersStopped`,
  `Backpressure`, `SendersHaveData`, `UploadCorrect`, `DownloadCorrect`,
  `EofCorrect` (of the direction that ended), `ConnectBounded`. `HandshakeOnce` has a hypothesis,
  `WholeMessages`: each SOCKS message arrives whole and asks for no UDP
  association, which is how Antinat and Privoxy use the proxy and what
  `ss_handshake` checks; for other clients it is false (section 2).
* **Tun2SocksClient.** The checked properties support each other; added are what
  holds before the accept (`FreshOK`) and before SOCKS is up (`NotUpOK`), which
  callbacks are registered (`CallbacksOK`), and that a lost side is an ended one
  (`EndedOK`). Proved: `TypeCorrect`, `CallbacksGone`, `WindowExact`,
  `StreamsInOrder`, `NeverStalls`, `LingerJustified`, `EndsGracefully`, and that
  each direction implements `Relay` (`UploadRefines`, `DownloadRefines`, with
  `DeliveredOK` as their invariant: `DownloadInOrder` ends with the client's
  side, the refinement does not).
* **TunnelProvider.** `ProxiesOK` ties the place of the start sequence to the
  proxies, `ObserverOK` says from when to when the observer is registered and
  therefore which stops raise, `AnswerOK` orders the completion. Proved:
  `TypeCorrect`, `Ready`, `StopFinds`, `StopSafe`.
* **TapPipe.** `Framed` says that the bytes ahead of `fd_handler`, in the pipe and
  still to be written, are the frames of the packets not yet delivered, in a row. It
  is stated with an offset for each packet instead of a recursive concatenation:
  reading shifts the offsets, a packet adds one, and a write moves bytes from one
  side to the other without changing them. `Whole` keeps an unsplit message out of
  the pipe or in it entirely, from which `NextIsThere`: what is about to be read is
  there. Once half a header is lost nothing is claimed of the bytes. Proved:
  `TypeCorrect`, `PacketsWhole`, `FailsOnlySplit`.
* **UdpSession.** An entry of the table is of somebody who asked that server and is
  never taken back (`SessionOK`); what is sent or answered was stored first
  (`FlightOK`), so a lookup finds nothing only in a race or for an IPv6 answer.
  Proved: `TypeCorrect`, `RepliesToAsker`, `RepliesToNoStranger`.
* **SocksHandshake.** Each direction of the connection is a fixed stream of fields
  (`UpByte` and its counterpart for the replies). `UpOK` and `DownOK` say that what
  is in transit is that stream between the reader's position and the writer's, both
  functions of the two control states; `ClientOK` and `ChildOK` tie operations,
  buffers and destination to those. Nothing is claimed after a destination was cut
  short. Proved: `TypeCorrect`, `BothInSync`, `UpIsTrue` (that up means connected to
  what was asked for), `Held`, and the action
  property `Events`.
* **Antinat.** `ConnOK` lists, for each place of child and forwarder, the reference,
  the descriptors and the `conn_t` that are held; `RefcountIsExact` says that the
  count is the number of holders (`Holders`), which makes `ConfNotFreed` inductive;
  `LoopOK` and `LateOK` follow the accept loop past `closeup`. Proved: `TypeCorrect`,
  `ConfNotFreed`, `HandedOver`, `Descriptors`, `StopsAccepting`.
* **Reactor.** `JobsOK`: no job is in the list twice and none is of a freed
  connection. `PointersOK`: a `kevent_returned_ptr` leads to an entry of its own
  descriptor that is still to come. `ResultsOK`: while each descriptor came back
  once, every entry that is left is of an open connection and is pointed to, so
  freeing clears it. `BlockedOK`: the loop waits only when all lists are empty.
  Proved: `TypeCorrect`, `NothingStale`, `TimersOrdered`, `OperationsAwaited`.

Only model-checked: everything under fairness (`ConnectsEventually`,
`UploadDrains`, `LingerEnds`, `StartAnswered`, `StopEnds`, `PacketsArrive`,
`RepliesWritten`, `HandshakeEnds`, `ClosesWhenPeerEnds`, `TimerFires`), which the
prover does not handle.

## 5. Not modelled

* The VPN manager is a chain of NetworkExtension calls with completions. What two
  overlapping calls do is decided in the framework, whose order of completions and
  stored configurations the repository does not show.
* The listener of shadowsocks and `plexsocks_servver_stop`, which frees the loop's
  connections from the main thread; the status socket, shared defaults and
  re-applied settings of the provider.
* In Antinat SOCKS 4, BIND, UDP association, authentication and filters, in
  BSocksClient the password: nothing in the extension uses them. SYNC barriers of
  the reactor appear in `Tun2SocksClient` as the steps that follow a callback.
* Privoxy, the ciphers' framing, access lists and rules, the UDP relay and its
  cache: third-party code that the modelled parts see as an outcome.
* The UDP gateway client is compiled but not used. Cryptography, settings, user
  interface and the vendored libraries are out of scope. Most of the repository's
  lines are in these.

## 6. Plan

Done: both relays, the abstract relay and its refinement, the process's life, the
pipe, UDP, the SOCKS connection between tun2socks and Antinat, Antinat's threads and
the reactor, each with the proofs of all its safety properties.

Worth adding: an abstract specification of the pipe (a lossy queue of packets) that
`TapPipe` refines by `Framed`; the safety steps behind the liveness properties, such
as what may not be undone once `StopEnds` or `ClosesWhenPeerEnds` has begun; the
shadowsocks listener with its stop from another thread, Privoxy's list of client
states, and both relays in a row as one `Relay`.
