--------------------------- MODULE TunnelProvider ---------------------------
(***************************************************************************)
(* The life of the packet tunnel extension's process: SSPacketTunnelProvider *)
(* and ProxyManager bring up three proxies one after the other, then the    *)
(* tunnel and the tun2socks thread, while the system or the app may ask to  *)
(* stop at any moment on the main thread.  The start sequence, the settings *)
(* completion, the stop on the main thread, the proxy threads and the       *)
(* tun2socks thread interleave; an action ends where another thread can see *)
(* or change what it did.                                                   *)
(***************************************************************************)
EXTENDS Naturals

CONSTANT MaxStops  \* bound on the stop requests, by the system and by the app

ASSUME StopsAssumption == MaxStops \in Nat

Proxies == {"shadowsocks", "http", "socks"}

VARIABLES
  proc,      \* "alive", "exited" (exit 0), "failed" (exit 1) or "crashed"
  start,     \* where startTunnelWithOptions is
  proxy,     \* the state of each proxy's thread
  chained,   \* proxies that were given the port of the shadowsocks proxy
  wormhole,  \* the app's stopTunnel message has a listener
  settings,  \* where the network settings request and its completion are
  answer,    \* how the start completion was called
  kvo,       \* the provider is registered as observer of defaultPath
  quitting, exiting,  \* the flags of tun2socks.c and of its reactor
  tun,       \* where the tun2socks thread is
  main,      \* where the stop on the main thread is
  system,    \* the stop in progress came from the system
  asked,     \* the system has asked to stop
  stops,     \* number of stops begun
  pendingStop, stopAnswered

startVars == <<start, proxy, chained, wormhole>>
tunFlags  == <<quitting, exiting>>
stopVars  == <<main, system, asked, stops>>
stopCalls == <<pendingStop, stopAnswered>>
vars == <<proc, startVars, settings, answer, kvo, tunFlags, tun, stopVars, stopCalls>>

Init ==
  /\ proc = "alive" /\ start = "idle"
  /\ proxy = [p \in Proxies |-> "off"] /\ chained = {} /\ wormhole = FALSE
  /\ settings = "none" /\ answer = "none" /\ kvo = FALSE
  /\ quitting = FALSE /\ exiting = FALSE /\ tun = "none"
  /\ main = "idle" /\ system = FALSE /\ asked = FALSE /\ stops = 0
  /\ pendingStop = FALSE /\ stopAnswered = FALSE

Alive == proc = "alive"

-----------------------------------------------------------------------------
(* startTunnelWithOptions: the proxies, one after the other *)

\* Starting a proxy: the ones behind shadowsocks are given its port, which is
\* 0 unless its callback has come.  (ProxyManager's other branches, a callback
\* with port 0 at once, need an empty configuration; the values are constants.)
Launch(p) ==
  /\ start' = p
  /\ proxy' = [proxy EXCEPT ![p] = "starting"]
  /\ chained' = IF p # "shadowsocks" /\ proxy["shadowsocks"] = "listening"
                THEN chained \union {p} ELSE chained

startTunnel ==
  /\ Alive /\ start = "idle"
  /\ Launch("shadowsocks")
  /\ UNCHANGED <<proc, wormhole, settings, answer, kvo, tunFlags, tun, stopVars, stopCalls>>

\* The tunnel interface could not be set up: answer, stop tun2socks, exit(1).
startTunnel_fail ==
  /\ Alive /\ start = "idle"
  /\ answer' = "error" /\ proc' = "failed"
  /\ quitting' = TRUE /\ exiting' = TRUE
  /\ UNCHANGED <<startVars, settings, kvo, tun, stopVars, stopCalls>>

\* A proxy's thread comes to listen and calls back, calls back with an error,
\* or returns without a callback.
proxyCallback(p, result) ==
  /\ Alive /\ proxy[p] = "starting"
  /\ proxy' = [proxy EXCEPT ![p] = result]
  /\ UNCHANGED <<proc, start, chained, wormhole, settings, answer, kvo, tunFlags, tun,
                 stopVars, stopCalls>>

\* What follows the last proxy: the observer of the stop notification and the
\* request for network settings.
startPacketForwarders ==
  /\ start' = "wormhole" /\ settings' = "requested"
  /\ UNCHANGED <<proxy, chained>>

\* Mutant of Proceed: the wait for the callback is missing.
ProceedAtOnce(p) == proxy[p] # "off"

\* dispatch_group_wait returned because the callback came without an error.
Proceed(p) == proxy[p] = "listening"

syncStartProxy(p) ==
  /\ Alive /\ start = p
  /\ Proceed(p)
  /\ \/ p = "shadowsocks" /\ Launch("http") /\ UNCHANGED settings
     \/ p = "http" /\ Launch("socks") /\ UNCHANGED settings
     \/ p = "socks" /\ startPacketForwarders
  /\ UNCHANGED <<proc, wormhole, answer, kvo, tunFlags, tun, stopVars, stopCalls>>

\* The callback had an error, or two seconds passed without one: exit(1).
syncStartProxy_fail(p) ==
  /\ Alive /\ start = p
  /\ proxy[p] # "listening"
  /\ proc' = "failed"
  /\ UNCHANGED <<startVars, settings, answer, kvo, tunFlags, tun, stopVars, stopCalls>>

setupWormhole ==
  /\ Alive /\ start = "wormhole"
  /\ start' = "returned" /\ wormhole' = TRUE
  /\ UNCHANGED <<proc, proxy, chained, settings, answer, kvo, tunFlags, tun, stopVars,
                 stopCalls>>

-----------------------------------------------------------------------------
(* The completion of the network settings *)

\* Mutant of Observe: the observer is only registered after the answer.
ObserveNever == settings' = "observed" /\ UNCHANGED kvo

Observe == settings' = "observed" /\ kvo' = TRUE

settingsApplied ==
  /\ Alive /\ settings = "requested"
  /\ Observe
  /\ UNCHANGED <<proc, startVars, answer, tunFlags, tun, stopVars, stopCalls>>

startTun2Socks ==
  /\ Alive /\ settings = "observed"
  /\ settings' = "spawned" /\ tun' = "spawned"
  /\ UNCHANGED <<proc, startVars, answer, kvo, tunFlags, stopVars, stopCalls>>

pendingStartCompletion ==
  /\ Alive /\ settings = "spawned"
  /\ settings' = "done" /\ answer' = "ok"
  /\ UNCHANGED <<proc, startVars, kvo, tunFlags, tun, stopVars, stopCalls>>

\* Mutant of AnswerError: the completion is only called without an error.
AnswerErrorNever == UNCHANGED answer

AnswerError == answer' = "error"

settingsFailed ==
  /\ Alive /\ settings = "requested"
  /\ settings' = "failed" /\ AnswerError
  /\ UNCHANGED <<proc, startVars, kvo, tunFlags, tun, stopVars, stopCalls>>

-----------------------------------------------------------------------------
(* stop, on the main thread *)

Begin(bySystem) ==
  /\ main' = "quitting" /\ system' = bySystem /\ stops' = stops + 1

\* PacketTunnelProvider.stopTunnel, two seconds after the system called it
stopTunnel ==
  /\ Alive /\ main = "idle" /\ start # "idle"
  /\ ~asked /\ stops < MaxStops
  /\ asked' = TRUE /\ Begin(TRUE)
  /\ UNCHANGED <<proc, startVars, settings, answer, kvo, tunFlags, tun, stopCalls>>

\* the app's stopTunnel message
wormholeStop ==
  /\ Alive /\ main = "idle" /\ wormhole /\ stops < MaxStops
  /\ Begin(FALSE)
  /\ UNCHANGED <<proc, startVars, settings, answer, kvo, tunFlags, tun, asked, stopCalls>>

\* terminate: two stores the tun2socks thread reads without a lock
terminate_quitting ==
  /\ Alive /\ main = "quitting"
  /\ quitting' = TRUE /\ main' = "exiting"
  /\ UNCHANGED <<proc, startVars, settings, answer, kvo, exiting, tun, system, asked, stops,
                 stopCalls>>

\* Mutant of Quit: the reactor is not told.
QuitNever == UNCHANGED exiting

Quit == exiting' = TRUE

terminate_quit ==
  /\ Alive /\ main = "exiting"
  /\ Quit /\ main' = "observer"
  /\ UNCHANGED <<proc, startVars, settings, answer, kvo, quitting, tun, system, asked, stops,
                 stopCalls>>

\* Mutant of RemoveObserver: removing an observer that is not there is ignored.
RemoveObserverSafe == main' = "proxies" /\ kvo' = FALSE /\ UNCHANGED proc

\* Removing an observer that is not registered raises an exception that
\* nothing catches.
RemoveObserver ==
  /\ kvo' = FALSE
  /\ IF kvo THEN main' = "proxies" /\ UNCHANGED proc
            ELSE proc' = "crashed" /\ UNCHANGED main

removeObserver ==
  /\ Alive /\ main = "observer"
  /\ RemoveObserver
  /\ UNCHANGED <<startVars, settings, answer, tunFlags, tun, system, asked, stops, stopCalls>>

\* stopSocksProxy and stopShadowsocks; stopHttpProxy does nothing.
stopProxies ==
  /\ Alive /\ main = "proxies"
  /\ proxy' = [proxy EXCEPT !["socks"] = "stopped", !["shadowsocks"] = "stopped"]
  /\ main' = IF system THEN "pending" ELSE "idle"
  /\ UNCHANGED <<proc, start, chained, wormhole, settings, answer, kvo, tunFlags, tun, system,
                 asked, stops, stopCalls>>

pendingStopCompletion ==
  /\ Alive /\ main = "pending"
  /\ pendingStop' = TRUE /\ main' = "super"
  /\ UNCHANGED <<proc, startVars, settings, answer, kvo, tunFlags, tun, system, asked, stops,
                 stopAnswered>>

\* PacketTunnelProvider.stopTunnel then hands the same completion to the
\* framework's own stopTunnel, which may or may not call it.
super_stopTunnel ==
  /\ Alive /\ main = "super"
  /\ main' = "idle" /\ stopAnswered' \in {stopAnswered, TRUE}
  /\ UNCHANGED <<proc, startVars, settings, answer, kvo, tunFlags, tun, system, asked, stops,
                 pendingStop>>

-----------------------------------------------------------------------------
(* The tun2socks thread *)

\* BReactor_Init clears exiting, then tun2socks_main clears quitting.
BReactor_Init ==
  /\ Alive /\ tun = "spawned"
  /\ exiting' = FALSE /\ tun' = "reactor"
  /\ UNCHANGED <<proc, startVars, settings, answer, kvo, quitting, stopVars, stopCalls>>

tun2socks_main ==
  /\ Alive /\ tun = "reactor"
  /\ quitting' = FALSE /\ tun' = "loop"
  /\ UNCHANGED <<proc, startVars, settings, answer, kvo, exiting, stopVars, stopCalls>>

tun2socks_main_fail ==
  /\ Alive /\ tun \in {"spawned", "reactor"}
  /\ tun' = "closing"
  /\ UNCHANGED <<proc, startVars, settings, answer, kvo, tunFlags, stopVars, stopCalls>>

\* BReactor_Exec looks at exiting before each event, then calls a handler.
dispatch ==
  /\ Alive /\ tun = "loop" /\ ~exiting
  /\ tun' = "handler"
  /\ UNCHANGED <<proc, startVars, settings, answer, kvo, tunFlags, stopVars, stopCalls>>

\* A handler of an event that goes well.
handler ==
  /\ Alive /\ tun = "handler"
  /\ tun' = "loop"
  /\ UNCHANGED <<proc, startVars, settings, answer, kvo, tunFlags, stopVars, stopCalls>>

\* device_error_handler, or the end of a failed lwip_init_job_hadler
device_error_handler ==
  /\ Alive /\ tun = "handler"
  /\ tun' = "loop" /\ quitting' = TRUE /\ exiting' = TRUE
  /\ UNCHANGED <<proc, startVars, settings, answer, kvo, stopVars, stopCalls>>

\* The loop ends: clients are murdered and everything is freed.
leaveLoop ==
  /\ Alive /\ tun = "loop" /\ exiting
  /\ tun' = "closing"
  /\ UNCHANGED <<proc, startVars, settings, answer, kvo, tunFlags, stopVars, stopCalls>>

\* _startTun2Socks closes the pipe, and its notification runs
\* onTun2SocksFinished on this thread.
onTun2SocksFinished ==
  /\ Alive /\ tun = "closing"
  /\ tun' = "finished"
  /\ pendingStop' = FALSE /\ stopAnswered' = (stopAnswered \/ pendingStop)
  /\ UNCHANGED <<proc, startVars, settings, answer, kvo, tunFlags, stopVars>>

exitSuccess ==
  /\ Alive /\ tun = "finished"
  /\ proc' = "exited"
  /\ UNCHANGED <<startVars, settings, answer, kvo, tunFlags, tun, stopVars, stopCalls>>

-----------------------------------------------------------------------------
Next ==
  \/ startTunnel \/ startTunnel_fail \/ setupWormhole
  \/ \E p \in Proxies :
       \/ \E r \in {"listening", "error", "dead"} : proxyCallback(p, r)
       \/ syncStartProxy(p) \/ syncStartProxy_fail(p)
  \/ settingsApplied \/ startTun2Socks \/ pendingStartCompletion \/ settingsFailed
  \/ stopTunnel \/ wormholeStop \/ terminate_quitting \/ terminate_quit
  \/ removeObserver \/ stopProxies \/ pendingStopCompletion \/ super_stopTunnel
  \/ BReactor_Init \/ tun2socks_main \/ tun2socks_main_fail
  \/ dispatch \/ handler \/ device_error_handler \/ leaveLoop
  \/ onTun2SocksFinished \/ exitSuccess

\* Threads run, the two-second wait ends, and the system answers the request
\* for network settings.
Fairness ==
  /\ WF_vars(\E p \in Proxies : syncStartProxy(p) \/ syncStartProxy_fail(p))
  /\ WF_vars(setupWormhole)
  /\ WF_vars(settingsApplied \/ settingsFailed \/ startTun2Socks \/ pendingStartCompletion)
  /\ WF_vars(terminate_quitting \/ terminate_quit \/ removeObserver \/ stopProxies
             \/ pendingStopCompletion \/ super_stopTunnel)
  /\ WF_vars(BReactor_Init \/ tun2socks_main \/ dispatch \/ handler \/ leaveLoop
             \/ onTun2SocksFinished \/ exitSuccess)

Spec == Init /\ [][Next]_vars /\ Fairness

-----------------------------------------------------------------------------
(* Properties *)

\* The Boolean part of TypeOK.
FlagsOK ==
  /\ wormhole \in BOOLEAN /\ kvo \in BOOLEAN /\ quitting \in BOOLEAN /\ exiting \in BOOLEAN
  /\ system \in BOOLEAN /\ asked \in BOOLEAN
  /\ pendingStop \in BOOLEAN /\ stopAnswered \in BOOLEAN

\* Types; only the proxies behind shadowsocks are ever given its port, and no
\* more stops begin than were asked for.
TypeOK ==
  /\ FlagsOK
  /\ proc \in {"alive", "exited", "failed", "crashed"}
  /\ start \in Proxies \union {"idle", "wormhole", "returned"}
  /\ proxy \in [Proxies -> {"off", "starting", "listening", "error", "dead", "stopped"}]
  /\ chained \subseteq {"http", "socks"}
  /\ settings \in {"none", "requested", "observed", "spawned", "done", "failed"}
  /\ answer \in {"none", "ok", "error"}
  /\ tun \in {"none", "spawned", "reactor", "loop", "handler", "closing", "finished"}
  /\ main \in {"idle", "quitting", "exiting", "observer", "proxies", "pending", "super"}
  /\ stops \in 0 .. MaxStops

\* A tunnel reported as started has all it needs: three listening proxies, two
\* of them behind shadowsocks, and a tun2socks thread; only a stop takes a
\* proxy away again.
ReadyWhenAnswered ==
  answer = "ok" =>
    /\ chained = {"http", "socks"} /\ tun # "none"
    /\ \A p \in Proxies : proxy[p] = "listening" \/ (proxy[p] = "stopped" /\ stops > 0)

\* stop reaches the proxies only when there are proxies to stop: the listener
\* plexsocks_servver_stop dereferences has been set by then.
StopFindsListeners ==
  main = "proxies" => \A p \in Proxies : proxy[p] = "listening"

\* Once the start was reported a success, a first stop does not crash.
StopSafeOnceUp == answer = "ok" /\ stops <= 1 => proc # "crashed"

\* A start is answered unless the process ends first.
StartAnswered == (start # "idle") ~> (answer # "none" \/ ~Alive)

\* A stop that quits the reactor while its loop runs ends the process.
StopEnds == (main = "exiting" /\ tun \in {"loop", "handler"}) ~> ~Alive

\* terminate: "exit event loop".  Whenever stop has gone through it, the
\* process ends.
TerminateEndsLoop == (main = "observer") ~> ~Alive

-----------------------------------------------------------------------------
(* The inductive invariant behind the safety properties. *)

Observed == settings \in {"observed", "spawned", "done"}

\* Where the start sequence is says which proxies are up; a stop only takes
\* them away once the observer was registered.
ProxiesOK ==
  /\ start \in {"wormhole", "returned"} <=> settings # "none"
  /\ start \in {"http", "socks"} => proxy["shadowsocks"] = "listening" /\ "http" \in chained
  /\ start = "socks" => proxy["http"] = "listening" /\ "socks" \in chained
  /\ settings # "none" =>
       /\ chained = {"http", "socks"} /\ proxy["http"] = "listening"
       /\ \/ proxy["shadowsocks"] = "listening" /\ proxy["socks"] = "listening"
          \/ /\ proxy["shadowsocks"] = "stopped" /\ proxy["socks"] = "stopped"
             /\ Observed /\ ~kvo /\ stops > 0

\* The observer is registered from the settings' completion to the first stop.
ObserverOK ==
  /\ kvo => Observed
  /\ stops = 0 => main = "idle"
  /\ stops = 0 \/ (stops = 1 /\ main \in {"quitting", "exiting", "observer"})
       => (Observed => kvo)
  /\ main = "proxies" => Observed /\ ~kvo /\ proxy["shadowsocks"] = "listening"
  /\ proc = "crashed" => main = "observer" /\ ~kvo

\* The answer and the tun2socks thread follow the settings' completion.
AnswerOK ==
  /\ answer = "ok" => settings = "done"
  /\ tun # "none" <=> settings \in {"spawned", "done"}

IInv ==
  /\ TypeOK /\ ProxiesOK /\ ObserverOK /\ AnswerOK

=============================================================================
