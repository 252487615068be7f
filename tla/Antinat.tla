------------------------------ MODULE Antinat ------------------------------
(***************************************************************************)
(* Antinat's threads: the accept loop, a ChildThread for every connection,  *)
(* a forwarder thread for every connection relayed, and closeup, called     *)
(* from the provider's thread.  They share the configuration, counted by    *)
(* references, the writerpipe_lock and the process's descriptors.  What the *)
(* child reads and answers is in SocksHandshake.                            *)
(*                                                                         *)
(* conn_dict, the table of forwarders, is a static variable of a header:    *)
(* the one AntinatServer allocates is not the one conn.m reads, which stays *)
(* nil.  So write_pipe_for_conn always answers -1, every connection gets a  *)
(* forwarder of its own, and nothing is ever written into a pipe.           *)
(***************************************************************************)
EXTENDS Naturals, FiniteSets

CONSTANT Conns  \* the connections that may come, which bounds their number

ASSUME ConnsAssumption == IsFiniteSet(Conns)

VARIABLES
  loop,      \* the accept loop: "starting", "testing", "accepting", "accepted", "referenced", "ended"
  cur,       \* the connection it is busy with, a set of at most one
  an_active, \* as in an_main.m
  stop,      \* closeup: "no", "flagged" or "done"
  early,     \* it cleared an_active before realapp set it
  late,      \* connections for which conf was referenced after closeup
  refcount,  \* references to conf; it is freed when the last one goes
  touched,   \* conf was used after that: anything may happen from then on
  crashed,   \* the process is gone
  lock,      \* the children and forwarders that hold writerpipe_lock
  child,     \* what the child of a connection does next
  fwd,       \* its forwarder: "none", "starting", "running", in a blocking send
             \* "to_local" or "to_remote", "emptied", "ended"
  live,      \* conn_t is allocated
  misused,   \* a conn_t was used after conn_close
  fds,       \* open descriptors of a connection
  ended      \* the sides of a connection of which only the end is left to read

main == <<loop, cur, an_active>>
conf == <<refcount, touched>>
threads == <<child, fwd, live, misused, fds, lock>>
vars == <<main, stop, early, late, conf, crashed, threads, ended>>

Sockets == {"local", "remote"}
Pipe == {"readerPipe", "writerPipe"}

\* an_setup has loaded the configuration and listens; the thread is detached.
Init ==
  /\ loop = "starting" /\ cur = {} /\ an_active = FALSE
  /\ stop = "no" /\ early = FALSE /\ late = {}
  /\ refcount = 1 /\ touched = FALSE /\ crashed = FALSE /\ lock = {}
  /\ child = [c \in Conns |-> "none"] /\ fwd = [c \in Conns |-> "none"]
  /\ live = [c \in Conns |-> FALSE] /\ misused = FALSE
  /\ fds = [c \in Conns |-> {}] /\ ended = [c \in Conns |-> {}]

-----------------------------------------------------------------------------
(* The configuration *)

\* Mutant of config_reference: the count is not raised.
config_reference_none == UNCHANGED refcount /\ touched' = (touched \/ refcount = 0)

config_reference ==
  /\ refcount' = IF refcount = 0 THEN 0 ELSE refcount + 1
  /\ touched' = (touched \/ refcount = 0)

\* What freed memory holds is unknown: it is left alone, and Abort may follow.
config_dereference ==
  /\ refcount' = IF refcount = 0 THEN 0 ELSE refcount - 1
  /\ touched' = (touched \/ refcount = 0)

UseConf == touched' = (touched \/ refcount = 0) /\ UNCHANGED refcount

\* A use of freed memory may end the process.
Abort ==
  /\ touched /\ crashed' = TRUE
  /\ UNCHANGED <<main, stop, early, late, conf, threads, ended>>

-----------------------------------------------------------------------------
(* The accept loop, and closeup *)

realapp ==
  /\ loop = "starting" /\ loop' = "testing" /\ an_active' = TRUE
  /\ UNCHANGED <<cur, stop, early, late, conf, crashed, threads, ended>>

\* Mutant of KeepAccepting: the flag is not looked at.
KeepAcceptingAlways == TRUE

KeepAccepting == an_active

while_active ==
  /\ loop = "testing"
  /\ loop' = IF KeepAccepting THEN "accepting" ELSE "ended"
  /\ UNCHANGED <<cur, an_active, stop, early, late, conf, crashed, threads, ended>>

accept(c) ==
  /\ loop = "accepting" /\ child[c] = "none" /\ ~live[c]
  /\ loop' = "accepted" /\ cur' = {c}
  /\ fds' = [fds EXCEPT ![c] = {"local"}]
  /\ UNCHANGED <<an_active, stop, early, late, conf, crashed, child, fwd, live, misused, lock, ended>>

\* No descriptor is left, say: the loop tries again at once.
accept_fail ==
  /\ loop = "accepting" /\ loop' = "testing"
  /\ UNCHANGED <<cur, an_active, stop, early, late, conf, crashed, threads, ended>>

\* HandleRequest reads the global conf, which closeup does not clear.
HandleRequest_reference(c) ==
  /\ loop = "accepted" /\ c \in cur
  /\ config_reference
  /\ loop' = "referenced"
  /\ live' = [live EXCEPT ![c] = TRUE]
  /\ late' = IF stop = "done" THEN late \cup {c} ELSE late
  /\ UNCHANGED <<cur, an_active, stop, early, crashed, child, fwd, misused, fds, lock, ended>>

HandleRequest_thread(c) ==
  /\ loop = "referenced" /\ c \in cur
  /\ child' = [child EXCEPT ![c] = "handshake"]
  /\ loop' = "testing" /\ cur' = {}
  /\ UNCHANGED <<an_active, stop, early, late, conf, crashed, fwd, live, misused, fds, lock, ended>>

\* No memory, or no thread: conn_close, closesocket, config_dereference.
HandleRequest_fail(c) ==
  /\ loop = "referenced" /\ c \in cur
  /\ child' = [child EXCEPT ![c] = "done"]
  /\ live' = [live EXCEPT ![c] = FALSE]
  /\ fds' = [fds EXCEPT ![c] = {}]
  /\ config_dereference
  /\ loop' = "testing" /\ cur' = {}
  /\ UNCHANGED <<an_active, stop, early, late, crashed, fwd, misused, lock, ended>>

closeup_flag ==
  /\ stop = "no" /\ stop' = "flagged"
  /\ an_active' = FALSE /\ early' = (loop = "starting")
  /\ UNCHANGED <<loop, cur, late, conf, crashed, threads, ended>>

closeup_dereference ==
  /\ stop = "flagged" /\ stop' = "done"
  /\ config_dereference
  /\ UNCHANGED <<main, early, late, crashed, threads, ended>>

-----------------------------------------------------------------------------
(* ChildThread *)

\* Mutant of Touches: a line about the connection is logged after its forwarder
\* was started.
TouchesLog(s) == s \in {"handshake", "connecting", "connected", "locked", "piped", "unlocking"}

\* The steps of the child that use its conn_t.
Touches(s) == s \in {"handshake", "connecting", "connected", "locked", "piped"}

Step(c, s, t) ==
  /\ child[c] = s /\ child' = [child EXCEPT ![c] = t]
  /\ misused' = (misused \/ (Touches(s) /\ ~live[c]))
  /\ UNCHANGED <<main, stop, early, late, crashed, ended>>

\* ret == FALSE: closesocket, config_dereference, conn_close.
barfed(c) ==
  /\ fds' = [fds EXCEPT ![c] = {}]
  /\ live' = [live EXCEPT ![c] = FALSE]
  /\ config_dereference
  /\ UNCHANGED <<fwd, lock>>

\* The SOCKS messages are read and the filter of conf lets the connection pass.
socks5_request(c) ==
  /\ Step(c, "handshake", "connecting")
  /\ UseConf
  /\ UNCHANGED <<fwd, live, fds, lock>>

socks5_request_fail(c) == Step(c, "handshake", "done") /\ barfed(c)

\* an_connect_tosockaddr has a socket of its own; success is answered.
socks5_cmd_conn(c) ==
  /\ Step(c, "connecting", "connected")
  /\ fds' = [fds EXCEPT ![c] = @ \cup {"remote"}]
  /\ UNCHANGED <<conf, fwd, live, lock>>

socks5_cmd_conn_fail(c) == Step(c, "connecting", "done") /\ barfed(c)

\* Under the lock: no forwarder is remembered for this source.
conn_forwardData(c) ==
  /\ lock = {} /\ lock' = {<<"child", c>>}
  /\ Step(c, "connected", "locked")
  /\ UNCHANGED <<conf, fwd, live, fds>>

\* Mutant of Unlock: the lock is kept when the forwarder could not be created.
UnlockForwarded(c) == lock' = IF fwd[c] = "none" THEN lock ELSE {}

Unlock(c) == lock' = {}

os_pipe(c) ==
  /\ Step(c, "locked", "piped")
  /\ fds' = [fds EXCEPT ![c] = @ \cup Pipe]
  /\ UNCHANGED <<conf, fwd, live, lock>>

\* No descriptors: FALSE, which conn_forwardData and its caller do not look at.
os_pipe_fail(c) ==
  /\ Step(c, "locked", "unlocking")
  /\ UNCHANGED <<conf, fwd, live, fds, lock>>

\* set_write_pip_for_conn reads the source address, then the thread is made.
os_thread_exec(c) ==
  /\ Step(c, "piped", "unlocking")
  /\ fwd' = [fwd EXCEPT ![c] = "starting"]
  /\ UNCHANGED <<conf, live, fds, lock>>

\* No memory or no thread: the pipe is closed, and the connection forgotten.
os_thread_exec_fail(c) ==
  /\ Step(c, "piped", "unlocking")
  /\ fds' = [fds EXCEPT ![c] = @ \ Pipe]
  /\ UNCHANGED <<conf, fwd, live, lock>>

\* socks5_cmd_conn returns TRUE either way, and ChildThread just ends.
conn_forwardData_unlock(c) ==
  /\ Step(c, "unlocking", "done")
  /\ Unlock(c)
  /\ UNCHANGED <<conf, fwd, live, fds>>

-----------------------------------------------------------------------------
(* conn_forwarderThread *)

\* The limit of connections is read from the configuration.
forwarder_start(c) ==
  /\ fwd[c] = "starting" /\ fwd' = [fwd EXCEPT ![c] = "running"]
  /\ UseConf
  /\ misused' = (misused \/ ~live[c])
  /\ UNCHANGED <<main, stop, early, late, crashed, child, live, fds, lock, ended>>

\* select has no end to report but data, which is counted in conn_t and sent to
\* the other side; sends block, without a limit of time.
forwarder_recv(c) ==
  /\ fwd[c] = "running" /\ ended[c] = {}
  /\ \E t \in {"to_local", "to_remote"} : fwd' = [fwd EXCEPT ![c] = t]
  /\ misused' = (misused \/ ~live[c])
  /\ UNCHANGED <<main, stop, early, late, conf, crashed, child, live, fds, lock, ended>>

\* The side a forwarder is sending to is still there, and may never read.
Blocked(c) ==
  \/ fwd[c] = "to_local" /\ "local" \notin ended[c]
  \/ fwd[c] = "to_remote" /\ "remote" \notin ended[c]

\* The send returns, with what was taken or an error: nobody looks at it.
forwarder_send(c) ==
  /\ fwd[c] \in {"to_local", "to_remote"}
  /\ fwd' = [fwd EXCEPT ![c] = "running"]
  /\ UNCHANGED <<main, stop, early, late, conf, crashed, child, live, misused, fds, lock, ended>>

\* Mutant of Closed: only the client's side is closed.
ClosedLocal == {"local"}

Closed == Sockets

\* recv answers 0 or an error on one side; what the other still has goes to the
\* one that is gone, which fails at once.  Both are closed, conf is
\* dereferenced, conn_t freed.
forwarder_close(c) ==
  /\ fwd[c] = "running" /\ ended[c] # {}
  /\ fwd' = [fwd EXCEPT ![c] = "emptied"]
  /\ fds' = [fds EXCEPT ![c] = @ \ Closed]
  /\ misused' = (misused \/ ~live[c])
  /\ live' = [live EXCEPT ![c] = FALSE]
  /\ config_dereference
  /\ UNCHANGED <<main, stop, early, late, crashed, child, lock, ended>>

\* nConns == 0: the lock is taken and left, then the pipe is closed.
forwarder_croak(c) ==
  /\ fwd[c] = "emptied" /\ lock = {}
  /\ fwd' = [fwd EXCEPT ![c] = "ended"]
  /\ fds' = [fds EXCEPT ![c] = @ \ Pipe]
  /\ UNCHANGED <<main, stop, early, late, conf, crashed, child, live, misused, lock, ended>>

\* tun2socks or shadowsocks closes its socket, both directions at once; select and
\* recv see it.
peer_end(c) ==
  /\ \E s \in (fds[c] \cap Sockets) \ ended[c] : ended' = [ended EXCEPT ![c] = @ \cup {s}]
  /\ UNCHANGED <<main, stop, early, late, conf, crashed, threads>>

-----------------------------------------------------------------------------
Accepting(c) == HandleRequest_reference(c) \/ HandleRequest_thread(c) \/ HandleRequest_fail(c)

Child(c) ==
  \/ socks5_request(c) \/ socks5_request_fail(c)
  \/ socks5_cmd_conn(c) \/ socks5_cmd_conn_fail(c)
  \/ conn_forwardData(c) \/ os_pipe(c) \/ os_pipe_fail(c)
  \/ os_thread_exec(c) \/ os_thread_exec_fail(c) \/ conn_forwardData_unlock(c)

Forwarder(c) == forwarder_start(c) \/ forwarder_close(c) \/ forwarder_croak(c)

Transfer(c) == forwarder_recv(c) \/ forwarder_send(c)

Next ==
  /\ ~crashed
  /\ \/ realapp \/ while_active \/ accept_fail
     \/ closeup_flag \/ closeup_dereference \/ Abort
     \/ \E c \in Conns :
          accept(c) \/ Accepting(c) \/ Child(c) \/ Forwarder(c) \/ Transfer(c) \/ peer_end(c)

\* Threads run: every wait of a child is bounded, by its own five minutes or by
\* shadowsocks' timers.  A send to a side that has gone fails; one to a side that
\* is there may block for ever.  Nobody has to connect or to end, and the lock
\* need not be handed on in turn.
Fairness ==
  \A c \in Conns :
    /\ WF_vars(~crashed /\ Accepting(c))
    /\ WF_vars(~crashed /\ Child(c))
    /\ WF_vars(~crashed /\ Forwarder(c))
    /\ WF_vars(~crashed /\ ~Blocked(c) /\ forwarder_send(c))

Spec == Init /\ [][Next]_vars /\ Fairness

-----------------------------------------------------------------------------
(* Properties *)

\* Its forwarder could not be created, and nobody knows: conn.m's callers drop
\* the result, so the socket, the connection and the reference stay for good.
Stranded(c) == child[c] = "done" /\ fwd[c] = "none" /\ live[c]

\* A forwarder has the connection.
Forwarding == {"starting", "running", "to_local", "to_remote"}

\* Types of the state.
TypeOK ==
  /\ loop \in {"starting", "testing", "accepting", "accepted", "referenced", "ended"}
  /\ cur \subseteq Conns /\ an_active \in BOOLEAN
  /\ stop \in {"no", "flagged", "done"} /\ early \in BOOLEAN /\ late \subseteq Conns
  /\ refcount \in Nat /\ touched \in BOOLEAN /\ crashed \in BOOLEAN
  /\ lock \subseteq {"child"} \X Conns
  /\ child \in [Conns -> {"none", "handshake", "connecting", "connected",
                          "locked", "piped", "unlocking", "done"}]
  /\ fwd \in [Conns -> {"none", "starting", "running", "to_local", "to_remote", "emptied", "ended"}]
  /\ live \in [Conns -> BOOLEAN] /\ misused \in BOOLEAN
  /\ fds \in [Conns -> SUBSET (Sockets \cup Pipe)]
  /\ ended \in [Conns -> SUBSET Sockets]

\* The connections whose conn_t is allocated, where f says of which it is.
Holders(f) == {c \in Conns : f[c]}

\* The references that should be there: the server's own until closeup, and one
\* for each connection not yet closed, stranded ones included.
RefcountExact ==
  ~touched => refcount = Cardinality(Holders(live)) + (IF stop = "done" THEN 0 ELSE 1)

\* No thread of a connection taken in before closeup finds the configuration
\* freed, in whatever order they end: only one referenced too late may.
ConfOutlivesUsers == touched => late # {}

\* closeup stops the accept loop after at most one more connection, unless it
\* comes before the loop's thread has set the flag it clears.
OneAfterStop == early \/ Cardinality(late) <= 1

\* conn_t is handed from the child to the forwarder: neither uses it after the
\* other may have freed it, though both run.
ConnHandedOver == ~misused

\* No descriptor is lost or closed twice on any path: a connection's are open as
\* long as a thread is there to close them, and a stranded one's stay open.
DescriptorsHeld ==
  \A c \in Conns :
    /\ fwd[c] \in Forwarding => fds[c] = Sockets \cup Pipe
    /\ fwd[c] = "emptied" => fds[c] = Pipe
    /\ child[c] = "done" /\ fwd[c] \in {"none", "ended"} =>
         fds[c] = IF Stranded(c) THEN Sockets ELSE {}

\* A connection one of whose sides has ended is closed, with all of its
\* descriptors, unless it is stranded or its forwarder stays in a send to a side
\* that never reads: no thread keeps the lock from the others, and a forwarder
\* that hangs for one connection keeps no other from closing.
ClosesWhenPeerEnds ==
  \A c \in Conns :
    []<>~Blocked(c) => (ended[c] # {} ~> (fds[c] = {} \/ Stranded(c) \/ crashed))

-----------------------------------------------------------------------------
(* The inductive invariant behind the safety properties. *)

\* What a connection holds follows from where its child and its forwarder are.
ConnOK(c) ==
  /\ child[c] = "none" =>
       /\ fwd[c] = "none"
       /\ fds[c] = IF c \in cur THEN {"local"} ELSE {}
       /\ live[c] <=> (c \in cur /\ loop = "referenced")
  /\ child[c] \in {"handshake", "connecting"} =>
       live[c] /\ fwd[c] = "none" /\ fds[c] = {"local"}
  /\ child[c] \in {"connected", "locked"} =>
       live[c] /\ fwd[c] = "none" /\ fds[c] = Sockets
  /\ child[c] = "piped" =>
       live[c] /\ fwd[c] = "none" /\ fds[c] = Sockets \cup Pipe
  /\ child[c] \in {"unlocking", "done"} =>
       /\ fwd[c] = "none" => fds[c] = IF live[c] THEN Sockets ELSE {}
       /\ fwd[c] \in Forwarding => live[c] /\ fds[c] = Sockets \cup Pipe
       /\ fwd[c] = "emptied" => ~live[c] /\ fds[c] = Pipe
       /\ fwd[c] = "ended" => ~live[c] /\ fds[c] = {}

\* The accept loop is busy with one connection, which has no child yet.
LoopOK ==
  /\ cur = {} <=> loop \notin {"accepted", "referenced"}
  /\ \A c \in cur : child[c] = "none" /\ \A d \in cur : d = c

\* A closeup that was not too early has the loop end, after one connection at
\* most: the flag is not set again, and the loop looks at it before it accepts.
LateOK ==
  /\ late # {} => stop = "done"
  /\ stop = "no" => ~early
  /\ ~early /\ stop # "no" => loop # "starting" /\ ~an_active
  /\ ~early /\ late # {} => loop \in {"referenced", "testing", "ended"}
  /\ ~early => \A c, d \in late : c = d

IInv ==
  /\ TypeOK /\ LoopOK /\ LateOK /\ ConnHandedOver
  /\ \A c \in Conns : ConnOK(c)
  /\ RefcountExact /\ ConfOutlivesUsers

=============================================================================
