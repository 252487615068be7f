------------------------------ MODULE Reactor ------------------------------
(***************************************************************************)
(* The event loop of tun2socks, built on kqueue: pending jobs, timers, file *)
(* descriptors and limits, driven by BConnections, whose reads and writes   *)
(* go on as jobs until the socket or the limit stops them.  One thread; a   *)
(* handler runs to its end.  kqueue has one event for reading and one for   *)
(* writing, so one descriptor may come back twice.  Assertions only print   *)
(* in this build (debug.h), and the loop goes on.                           *)
(***************************************************************************)
EXTENDS Naturals, Sequences, SequencesExt, FiniteSets, FiniteSetsExt

CONSTANTS
  Fds,       \* connections
  Timers,    \* timers
  Limit,     \* BCONNECTION_SEND_LIMIT and BCONNECTION_RECV_LIMIT
  Delays,    \* delays a timer is set with
  Horizon,   \* bound on the clock and on the times timers are set to
  MaxOpens   \* bound on the times a connection is opened

ASSUME ReactorAssumption ==
  /\ IsFiniteSet(Fds) /\ IsFiniteSet(Timers)
  /\ Limit \in Nat \ {0} /\ Delays \subseteq Nat /\ Horizon \in Nat /\ MaxOpens \in Nat

VARIABLES
  loop,     \* "run", or "blocked" in kevent()
  call,     \* the handler the loop has called, or <<>>
  twice,    \* kevent() has returned a descriptor twice this time
  now,      \* btime_gettime()
  jobs,     \* pending_jobs, the next one first
  timer,    \* "inactive", "running" or "expired"
  absTime,  \* when a timer is to expire
  expired,  \* timers_expired_list
  results,  \* kevent_results; an entry that was cleared is <<>>
  pos,      \* kevent_results_pos
  pointer,  \* kevent_returned_ptr, as an index of results, or 0 for NULL
  gen,      \* connections opened on a descriptor; the last one is open, or was
  active,   \* the connection is open and its BFileDescriptor in the reactor
  wait,     \* waitEvents
  busy,     \* sends and receives under way
  count,    \* BReactorLimit counts
  stale     \* freed memory was taken for a descriptor: anything may follow

tvars == <<timer, absTime, expired>>
fvars == <<results, pos, pointer, gen, active, wait, busy, count>>
vars == <<loop, call, twice, now, jobs, tvars, fvars, stale>>

Dirs == {"read", "write"}
Ops  == Fds \X Dirs

Init ==
  /\ loop = "run" /\ call = <<>> /\ twice = FALSE /\ now = 0 /\ jobs = <<>>
  /\ timer = [t \in Timers |-> "running"]
  /\ absTime \in [Timers -> {d \in Delays : d <= Horizon}] /\ expired = <<>>
  /\ results = <<>> /\ pos = 0 /\ pointer = [f \in Fds |-> 0] /\ gen = [f \in Fds |-> 0]
  /\ active = [f \in Fds |-> FALSE] /\ wait = [f \in Fds |-> {}]
  /\ busy = {} /\ count = [o \in Ops |-> 0] /\ stale = FALSE

\* A node taken out of a linked list; one that is not in it is left alone.
Unlink(list, node) ==
  IF \E i \in DOMAIN list : list[i] = node
  THEN RemoveAt(list, CHOOSE i \in DOMAIN list : list[i] = node)
  ELSE list

-----------------------------------------------------------------------------
(* Timers *)

Due(t) == timer[t] = "running" /\ absTime[t] <= now
Running == {t \in Timers : timer[t] = "running"}
FirstTime == Min({absTime[t] : t \in Running})

\* The tree's order: by time, then by address, whatever the addresses are.
InOrder(S) ==
  {s \in SetToSeqs(S) : \A i, j \in DOMAIN s : i < j => absTime[s[i]] <= absTime[s[j]]}

MoveExpired(S) ==
  /\ \E s \in InOrder(S) : expired' = expired \o s
  /\ timer' = [t \in Timers |-> IF t \in S THEN "expired" ELSE timer[t]]
  /\ UNCHANGED absTime

\* Mutant of BReactor_SetTimer: a timer that has expired stays in the list.
BReactor_SetTimer_listed(t, d) ==
  /\ now + d <= Horizon
  /\ timer' = [timer EXCEPT ![t] = "running"]
  /\ absTime' = [absTime EXCEPT ![t] = now + d]
  /\ UNCHANGED expired

\* Set or set again, also when it is due or waits in the list of expired ones.
BReactor_SetTimer(t, d) ==
  /\ now + d <= Horizon
  /\ timer' = [timer EXCEPT ![t] = "running"]
  /\ absTime' = [absTime EXCEPT ![t] = now + d]
  /\ expired' = Unlink(expired, t)



BReactor_RemoveTimer(t) ==
  /\ timer' = [timer EXCEPT ![t] = "inactive"]
  /\ expired' = Unlink(expired, t)
  /\ UNCHANGED absTime

-----------------------------------------------------------------------------
(* Jobs, limits and connections *)

\* The job is put before all others, taken from its old place if it was pending.
BPending_Set(job) == jobs' = <<job>> \o Unlink(jobs, job)

HasRoom(f, d) == count[<<f, d>>] < Limit

\* Mutant of BReactorLimit_Increment: the count is not kept.
Increment_none(f, d) == UNCHANGED count

BReactorLimit_Increment(f, d) == count' = [count EXCEPT ![<<f, d>>] = @ + 1]

\* Mutant of ClearReturned: the entry is left as it is.
ClearReturned_none(f) == results

\* BReactor_RemoveFileDescriptor writes through the pointer into the results.
ClearReturned(f) == IF pointer[f] = 0 THEN results ELSE [results EXCEPT ![pointer[f]] = <<>>]

\* Freeing an interface takes both of its jobs out of the list.
FreeInterface(list, f, d) == Unlink(Unlink(list, <<f, d, "done">>), <<f, d, "operation">>)

\* Both interfaces, the limits and the descriptor go, with all of its jobs.
BConnection_Free(f) ==
  /\ active[f]
  /\ jobs' = FreeInterface(FreeInterface(jobs, f, "read"), f, "write")
  /\ active' = [active EXCEPT ![f] = FALSE]
  /\ wait' = [wait EXCEPT ![f] = {}]
  /\ results' = ClearReturned(f)
  /\ busy' = {o \in busy : o[1] # f}
  /\ count' = [o \in Ops |-> IF o[1] = f THEN 0 ELSE count[o]]
  /\ UNCHANGED <<pos, pointer, gen>>

\* A new connection; its user receives and sends at once.
BConnection_Init(f) ==
  /\ ~active[f] /\ gen[f] < MaxOpens
  /\ gen' = [gen EXCEPT ![f] = @ + 1]
  /\ active' = [active EXCEPT ![f] = TRUE]
  /\ wait' = [wait EXCEPT ![f] = {}]
  /\ pointer' = [pointer EXCEPT ![f] = 0]
  /\ busy' = busy \cup {<<f, "read">>, <<f, "write">>}
  /\ jobs' = <<<<f, "write", "operation">>, <<f, "read", "operation">>>> \o jobs
  /\ UNCHANGED <<results, pos, count>>

\* Mutant of WaitFor: the reactor is not told of the event.
WaitForNone(f, d) == wait

WaitFor(f, d) == [wait EXCEPT ![f] = @ \cup {d}]

\* connection_send and connection_recv: the limit is reached, or the socket is
\* not ready, and the event is waited for; or some bytes went; or it failed, and
\* the user frees the connection.
connection_op(f, d) ==
  \/ /\ ~HasRoom(f, d)
     /\ wait' = WaitFor(f, d)
     /\ UNCHANGED <<jobs, results, pos, pointer, gen, active, busy, count>>
  \/ /\ HasRoom(f, d)
     /\ wait' = WaitFor(f, d)
     /\ BReactorLimit_Increment(f, d)
     /\ UNCHANGED <<jobs, results, pos, pointer, gen, active, busy>>
  \/ /\ HasRoom(f, d)
     /\ wait' = [wait EXCEPT ![f] = @ \ {d}]
     /\ BReactorLimit_Increment(f, d)
     /\ busy' = busy \ {<<f, d>>}
     /\ BPending_Set(<<f, d, "done">>)
     /\ UNCHANGED <<results, pos, pointer, gen, active>>
  \/ /\ HasRoom(f, d)
     /\ BConnection_Free(f)

\* What a user's handler may do: free a connection, open one, or remove or set
\* any timer, whatever its state.
UserStep ==
  \/ UNCHANGED <<jobs, tvars, fvars>>
  \/ \E f \in Fds : (BConnection_Free(f) \/ BConnection_Init(f)) /\ UNCHANGED tvars
  \/ \E t \in Timers : BReactor_RemoveTimer(t) /\ UNCHANGED <<jobs, fvars>>
  \/ \E t \in Timers, d \in Delays : BReactor_SetTimer(t, d) /\ UNCHANGED <<jobs, fvars>>

-----------------------------------------------------------------------------
(* Handlers: what the loop has called, to its end *)

Handling(h) == call # <<>> /\ call[Len(call)] = h /\ call' = <<>> /\ UNCHANGED <<loop, twice, now, stale>>

\* An event of the socket, or the interface's operation job.
connection_fd_handler ==
  /\ Handling("event")
  /\ connection_op(call[1], call[2]) /\ UNCHANGED tvars

job_operation ==
  /\ Handling("operation")
  /\ connection_op(call[1], call[2]) /\ UNCHANGED tvars

\* The user goes on with the next operation, or does something else.
job_done ==
  /\ Handling("done")
  /\ \/ /\ BPending_Set(<<call[1], call[2], "operation">>)
        /\ busy' = busy \cup {<<call[1], call[2]>>}
        /\ UNCHANGED <<tvars, results, pos, pointer, gen, active, wait, count>>
     \/ UserStep

\* As tcp_timer_handler, which sets its timer again.
timer_handler == Handling("timer") /\ UserStep

-----------------------------------------------------------------------------
(* BReactor_Exec: jobs first, then expired timers, then events, then a wait *)

Ready == loop = "run" /\ call = <<>>

\* Whether the connection an event was returned for is still the one there.
Gone(f, g) == ~active[f] \/ gen[f] # g

dispatch_job ==
  /\ Ready /\ jobs # <<>>
  /\ call' = Head(jobs) /\ jobs' = Tail(jobs)
  /\ stale' = (stale \/ ~active[Head(jobs)[1]])
  /\ UNCHANGED <<loop, twice, now, tvars, fvars>>

dispatch_timer ==
  /\ Ready /\ jobs = <<>> /\ expired # <<>>
  /\ call' = <<Head(expired), "timer">>
  /\ expired' = Tail(expired)
  /\ timer' = [timer EXCEPT ![Head(expired)] = "inactive"]
  /\ UNCHANGED <<loop, twice, now, jobs, absTime, fvars, stale>>

Idle == Ready /\ jobs = <<>> /\ expired = <<>>

\* An entry that was cleared, or an event no longer waited for, is passed over.
dispatch_kevent ==
  /\ Idle /\ pos < Len(results) /\ pos' = pos + 1
  /\ LET e == results[pos + 1]
     IN  IF e = <<>> THEN UNCHANGED <<call, pointer, stale>>
         ELSE /\ pointer' = [pointer EXCEPT ![e[1]] = 0]
              /\ stale' = (stale \/ Gone(e[1], e[3]))
              /\ call' = IF e[2] \in wait[e[1]] THEN <<e[1], e[2], "event">> ELSE <<>>
  /\ UNCHANGED <<loop, twice, now, jobs, tvars, results, gen, active, wait, busy, count>>

\* The first part of wait_for_events: timers that are due are all it returns, and
\* the limits stay as they are.
move_expired_timers ==
  /\ Idle /\ pos = Len(results)
  /\ \E t \in Timers : Due(t)
  /\ MoveExpired({t \in Timers : Due(t)})
  /\ results' = <<>> /\ pos' = 0 /\ twice' = FALSE
  /\ UNCHANGED <<loop, call, now, jobs, pointer, gen, active, wait, busy, count, stale>>

kevent ==
  /\ Idle /\ pos = Len(results)
  /\ \A t \in Timers : ~Due(t)
  /\ loop' = "blocked" /\ results' = <<>> /\ pos' = 0 /\ twice' = FALSE
  /\ UNCHANGED <<call, now, jobs, tvars, pointer, gen, active, wait, busy, count, stale>>

ResetLimits == count' = [o \in Ops |-> 0]

\* move_first_timers: those with the time that was waited for.
MoveFirst == MoveExpired({t \in Running : absTime[t] = FirstTime})

kevent_timeout ==
  /\ loop = "blocked" /\ Running # {} /\ FirstTime <= now
  /\ MoveFirst
  /\ ResetLimits /\ loop' = "run"
  /\ UNCHANGED <<call, twice, now, jobs, results, pos, pointer, gen, active, wait, busy, stale>>

\* Some of the events waited for, in any order: set_kevent_fd_pointers keeps a
\* pointer to one entry only, the last, for a descriptor that comes twice.
kevent_events ==
  /\ loop = "blocked"
  /\ \E E \in (SUBSET {o \in Ops : o[2] \in wait[o[1]]}) \ {{}} : \E s \in SetToSeqs(E) :
       /\ results' = [i \in 1 .. Len(s) |-> <<s[i][1], s[i][2], gen[s[i][1]]>>]
       /\ pointer' = [f \in Fds |-> LET I == {i \in DOMAIN s : s[i][1] = f}
                                    IN  IF I = {} THEN pointer[f] ELSE Max(I)]
       /\ twice' = \E f \in Fds : {f} \X Dirs \subseteq E
  /\ ResetLimits /\ loop' = "run"
  /\ UNCHANGED <<call, now, jobs, tvars, pos, gen, active, wait, busy, stale>>

tick ==
  /\ now < Horizon /\ now' = now + 1
  /\ UNCHANGED <<loop, call, twice, jobs, tvars, fvars, stale>>

-----------------------------------------------------------------------------
LoopStep ==
  \/ connection_fd_handler \/ job_operation \/ job_done \/ timer_handler
  \/ dispatch_job \/ dispatch_timer \/ dispatch_kevent
  \/ move_expired_timers \/ kevent

Next == ~stale /\ (LoopStep \/ kevent_timeout \/ kevent_events \/ tick)

\* The thread runs and kevent() times out; no peer has to make a socket ready.
Fairness == WF_vars(~stale /\ LoopStep) /\ WF_vars(~stale /\ kevent_timeout)

Spec == Init /\ [][Next]_vars /\ Fairness

-----------------------------------------------------------------------------
(* Properties *)

Jobs    == Fds \X Dirs \X {"operation", "done"}
Calls   == Fds \X Dirs \X {"event", "operation", "done"}
Entries == Fds \X Dirs \X Nat

\* Types of the state.
TypeOK ==
  /\ call \in {<<>>} \cup Calls \cup (Timers \X {"timer"})
  /\ jobs \in Seq(Jobs) /\ expired \in Seq(Timers)
  /\ results \in Seq({<<>>} \cup Entries) /\ pos \in 0 .. Len(results)
  /\ pointer \in [Fds -> Nat] /\ gen \in [Fds -> Nat]
  /\ loop \in {"run", "blocked"} /\ twice \in BOOLEAN /\ now \in 0 .. Horizon
  /\ timer \in [Timers -> {"inactive", "running", "expired"}]
  /\ absTime \in [Timers -> 0 .. Horizon]
  /\ active \in [Fds -> BOOLEAN] /\ wait \in [Fds -> SUBSET Dirs]
  /\ busy \subseteq Ops /\ count \in [Ops -> 0 .. Limit] /\ stale \in BOOLEAN

\* No handler is called for a connection that was freed while its event or its
\* job was already there, not even when another has been opened in its place,
\* as long as each descriptor comes back from kevent() once.
NoStaleDispatch == stale => twice

\* A timer expires once it is due and not before, in the order of the times, and
\* one that was removed or set again is not called for the old time.
TimersInOrder ==
  /\ \A i \in DOMAIN expired :
       timer[expired[i]] = "expired" /\ absTime[expired[i]] <= now
  /\ \A i, j \in DOMAIN expired : i < j =>
       expired[i] # expired[j] /\ absTime[expired[i]] <= absTime[expired[j]]

\* A send or receive under way never waits for nothing: its job is there, or its
\* event is waited for on a descriptor of the reactor.
BusyIsAwaited ==
  \A o \in busy :
    /\ active[o[1]]
    /\ \/ o[2] \in wait[o[1]]
       \/ <<o[1], o[2], "operation">> \in Range(jobs) \cup {call}

\* The timer's time has come and its call has not.
Owed(t) == Due(t) \/ timer[t] = "expired"

\* Then it is set again, to another time or out of the list.
Postponed(t) ==
  /\ Owed(t)
  /\ timer'[t] = "running" /\ (timer[t] = "expired" \/ absTime'[t] # absTime[t])

\* Neither sockets that are always ready nor other timers, set again as they
\* may, keep the loop from a timer: one that is due expires and is called, unless
\* it is removed, or set again and again when it is due.
TimerFires ==
  \A t \in Timers : <>[][~Postponed(t)]_vars => (Owed(t) ~> (~Owed(t) \/ stale))

\* What BReactor_Exec asserts of an event it dispatches: its descriptor is still
\* active.  A freed one has no entry left that leads to it.
ActiveWhenDispatched == ~stale

-----------------------------------------------------------------------------
(* The inductive invariant behind the safety properties. *)

Distinct(list) == \A i, j \in DOMAIN list : i # j => list[i] # list[j]

\* The loop blocks only when it has nothing left to do.
BlockedOK ==
  loop = "blocked" => call = <<>> /\ jobs = <<>> /\ expired = <<>> /\ results = <<>>

\* A job is pending once at most, and only for an open connection; so is a call.
JobsOK ==
  /\ Distinct(jobs)
  /\ \A job \in Range(jobs) : active[job[1]]
  /\ call \in Calls /\ ~stale => active[call[1]]
  /\ \A f \in Fds : ~active[f] => wait[f] = {}

\* The pointer of an open connection leads to an entry of its own that is still
\* to come.
PointersOK ==
  \A f \in Fds : active[f] /\ pointer[f] # 0 =>
    /\ pointer[f] \in pos + 1 .. Len(results)
    /\ results[pointer[f]] # <<>> /\ results[pointer[f]][1] = f

\* If each descriptor came back once, every entry to come is pointed to.
ResultsOK ==
  ~twice => \A i \in pos + 1 .. Len(results) : results[i] # <<>> =>
    ~Gone(results[i][1], results[i][3]) /\ pointer[results[i][1]] = i

IInv ==
  /\ TypeOK /\ BlockedOK /\ TimersInOrder /\ JobsOK /\ PointersOK /\ BusyIsAwaited
  /\ NoStaleDispatch
  /\ ~stale => ResultsOK

=============================================================================
