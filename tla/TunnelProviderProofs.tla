------------------------ MODULE TunnelProviderProofs ------------------------
(* Safety of the extension's start and stop, for any number of stops. *)
EXTENDS TunnelProvider, TLAPS

\* The start sequence keeps the invariant.
LEMMA StartIInv ==
  ASSUME IInv, NEW p \in Proxies,
         \/ startTunnel \/ startTunnel_fail \/ setupWormhole
         \/ syncStartProxy(p) \/ syncStartProxy_fail(p)
  PROVE  IInv'
<1> USE DEF Proxies, Observed
<1>1. CASE startTunnel
  <2>0. FlagsOK'
    BY <1>1, Zenon DEF startTunnel, Launch, tunFlags, stopVars, stopCalls, Alive, IInv, TypeOK,
       FlagsOK
  <2>1. TypeOK'
    BY <1>1, <2>0 DEF startTunnel, Launch, tunFlags, stopVars, stopCalls, Alive, IInv, TypeOK
  <2>2. ProxiesOK'
    BY <1>1 DEF startTunnel, Launch, tunFlags, stopVars, stopCalls, Alive, IInv, TypeOK,
       ProxiesOK, ObserverOK
  <2>3. ObserverOK'
    BY <1>1 DEF startTunnel, Launch, tunFlags, stopVars, stopCalls, Alive, IInv, TypeOK,
       ProxiesOK, ObserverOK
  <2>4. AnswerOK'
    BY <1>1 DEF startTunnel, Launch, tunFlags, stopVars, stopCalls, Alive, IInv, TypeOK,
       AnswerOK
  <2> QED BY <2>1, <2>2, <2>3, <2>4 DEF IInv
<1>2. CASE startTunnel_fail
  <2>0. FlagsOK'
    BY <1>2, Zenon DEF startTunnel_fail, startVars, stopVars, stopCalls, Alive, IInv, TypeOK,
       FlagsOK
  <2>1. TypeOK'
    BY <1>2, <2>0 DEF startTunnel_fail, startVars, stopVars, stopCalls, Alive, IInv, TypeOK
  <2>2. ProxiesOK'
    BY <1>2 DEF startTunnel_fail, startVars, stopVars, stopCalls, Alive, IInv, TypeOK,
       ProxiesOK, ObserverOK
  <2>3. ObserverOK'
    BY <1>2 DEF startTunnel_fail, startVars, stopVars, stopCalls, Alive, IInv, TypeOK,
       ProxiesOK, ObserverOK
  <2>4. AnswerOK'
    BY <1>2 DEF startTunnel_fail, startVars, stopVars, stopCalls, Alive, IInv, TypeOK, AnswerOK
  <2> QED BY <2>1, <2>2, <2>3, <2>4 DEF IInv
<1>3. CASE setupWormhole
  <2>0. FlagsOK'
    BY <1>3, Zenon DEF setupWormhole, tunFlags, stopVars, stopCalls, Alive, IInv, TypeOK,
       FlagsOK
  <2>1. TypeOK'
    BY <1>3, <2>0 DEF setupWormhole, tunFlags, stopVars, stopCalls, Alive, IInv, TypeOK
  <2>2. ProxiesOK'
    BY <1>3 DEF setupWormhole, tunFlags, stopVars, stopCalls, Alive, IInv, TypeOK, ProxiesOK,
       ObserverOK
  <2>3. ObserverOK'
    BY <1>3 DEF setupWormhole, tunFlags, stopVars, stopCalls, Alive, IInv, TypeOK, ProxiesOK,
       ObserverOK
  <2>4. AnswerOK'
    BY <1>3 DEF setupWormhole, tunFlags, stopVars, stopCalls, Alive, IInv, TypeOK, AnswerOK
  <2> QED BY <2>1, <2>2, <2>3, <2>4 DEF IInv
<1>4. CASE syncStartProxy(p)
  <2>0. FlagsOK'
    BY <1>4, Zenon DEF syncStartProxy, Proceed, Launch, startPacketForwarders, tunFlags,
       stopVars, stopCalls, Alive, IInv, TypeOK, FlagsOK
  <2>1. TypeOK'
    BY <1>4, <2>0, ZenonT(60) DEF syncStartProxy, Proceed, Launch, startPacketForwarders, tunFlags,
       stopVars, stopCalls, Alive, IInv, TypeOK
  <2>2. ProxiesOK'
    <3>1. CASE p \in {"shadowsocks", "http"}
      BY <1>4, <3>1 DEF syncStartProxy, Proceed, Launch, tunFlags, stopVars, stopCalls, IInv,
         TypeOK, ProxiesOK, ObserverOK
    <3>2. CASE p = "socks"
      <4>1. chained = {"http", "socks"}
        BY <1>4, <3>2 DEF syncStartProxy, IInv, TypeOK, ProxiesOK
      <4> QED BY <1>4, <3>2, <4>1 DEF syncStartProxy, Proceed, startPacketForwarders, tunFlags,
               stopVars, stopCalls, IInv, TypeOK, ProxiesOK, ObserverOK
    <3> QED BY <3>1, <3>2
  <2>3. ObserverOK'
    BY <1>4 DEF syncStartProxy, Proceed, Launch, startPacketForwarders, tunFlags, stopVars,
       stopCalls, Alive, IInv, TypeOK, ProxiesOK, ObserverOK
  <2>4. AnswerOK'
    BY <1>4 DEF syncStartProxy, Proceed, Launch, startPacketForwarders, tunFlags, stopVars,
       stopCalls, IInv, TypeOK, ProxiesOK, AnswerOK
  <2> QED BY <2>1, <2>2, <2>3, <2>4 DEF IInv
<1>5. CASE syncStartProxy_fail(p)
  <2>0. FlagsOK'
    BY <1>5, Zenon DEF syncStartProxy_fail, startVars, tunFlags, stopVars, stopCalls, Alive,
       IInv, TypeOK, FlagsOK
  <2>1. TypeOK'
    BY <1>5, <2>0 DEF syncStartProxy_fail, startVars, tunFlags, stopVars, stopCalls, Alive,
       IInv, TypeOK
  <2>2. ProxiesOK'
    BY <1>5 DEF syncStartProxy_fail, startVars, tunFlags, stopVars, stopCalls, Alive, IInv,
       TypeOK, ProxiesOK, ObserverOK
  <2>3. ObserverOK'
    BY <1>5 DEF syncStartProxy_fail, startVars, tunFlags, stopVars, stopCalls, Alive, IInv,
       TypeOK, ProxiesOK, ObserverOK
  <2>4. AnswerOK'
    BY <1>5 DEF syncStartProxy_fail, startVars, tunFlags, stopVars, stopCalls, Alive, IInv,
       TypeOK, AnswerOK
  <2> QED BY <2>1, <2>2, <2>3, <2>4 DEF IInv
<1> QED BY <1>1, <1>2, <1>3, <1>4, <1>5

\* A proxy that comes up, or does not, keeps the invariant.
LEMMA CallbackIInv ==
  ASSUME IInv, NEW p \in Proxies, NEW r \in {"listening", "error", "dead"},
         proxyCallback(p, r)
  PROVE  IInv'
<1> USE DEF Proxies, Observed, proxyCallback, tunFlags, stopVars, stopCalls
<1>1. FlagsOK'
  BY DEF IInv, TypeOK, FlagsOK
<1>2. TypeOK'
  BY <1>1 DEF IInv, TypeOK
<1>3. ProxiesOK' /\ ObserverOK'
  BY DEF IInv, TypeOK, ProxiesOK, ObserverOK
<1>4. AnswerOK'
  BY DEF IInv, AnswerOK
<1> QED BY <1>2, <1>3, <1>4 DEF IInv

\* The completion of the network settings keeps the invariant.
LEMMA SettingsIInv ==
  ASSUME IInv,
         settingsApplied \/ startTun2Socks \/ pendingStartCompletion \/ settingsFailed
  PROVE  IInv'
<1> USE DEF Proxies, Observed, startVars, stopVars, stopCalls, tunFlags
<1>1. CASE settingsApplied
  <2>0. FlagsOK'
    BY <1>1, Zenon DEF settingsApplied, Observe, Alive, IInv, TypeOK, FlagsOK
  <2>1. TypeOK'
    BY <1>1, <2>0 DEF settingsApplied, Observe, Alive, IInv, TypeOK
  <2>2. ProxiesOK'
    BY <1>1 DEF settingsApplied, Observe, Alive, IInv, TypeOK, ProxiesOK, ObserverOK
  <2>3. ObserverOK'
    BY <1>1 DEF settingsApplied, Observe, Alive, IInv, TypeOK, ProxiesOK, ObserverOK
  <2>4. AnswerOK'
    BY <1>1 DEF settingsApplied, Observe, Alive, IInv, TypeOK, AnswerOK
  <2> QED BY <2>1, <2>2, <2>3, <2>4 DEF IInv
<1>2. CASE startTun2Socks
  <2>0. FlagsOK'
    BY <1>2, Zenon DEF startTun2Socks, Alive, IInv, TypeOK, FlagsOK
  <2>1. TypeOK'
    BY <1>2, <2>0 DEF startTun2Socks, Alive, IInv, TypeOK
  <2>2. ProxiesOK'
    BY <1>2 DEF startTun2Socks, Alive, IInv, TypeOK, ProxiesOK, ObserverOK
  <2>3. ObserverOK'
    BY <1>2 DEF startTun2Socks, Alive, IInv, TypeOK, ProxiesOK, ObserverOK
  <2>4. AnswerOK'
    BY <1>2 DEF startTun2Socks, Alive, IInv, TypeOK, AnswerOK
  <2> QED BY <2>1, <2>2, <2>3, <2>4 DEF IInv
<1>3. CASE pendingStartCompletion
  <2>0. FlagsOK'
    BY <1>3, Zenon DEF pendingStartCompletion, Alive, IInv, TypeOK, FlagsOK
  <2>1. TypeOK'
    BY <1>3, <2>0 DEF pendingStartCompletion, Alive, IInv, TypeOK
  <2>2. ProxiesOK'
    BY <1>3 DEF pendingStartCompletion, Alive, IInv, TypeOK, ProxiesOK, ObserverOK
  <2>3. ObserverOK'
    BY <1>3 DEF pendingStartCompletion, Alive, IInv, TypeOK, ProxiesOK, ObserverOK
  <2>4. AnswerOK'
    BY <1>3 DEF pendingStartCompletion, Alive, IInv, TypeOK, AnswerOK
  <2> QED BY <2>1, <2>2, <2>3, <2>4 DEF IInv
<1>4. CASE settingsFailed
  <2>0. FlagsOK'
    BY <1>4, Zenon DEF settingsFailed, AnswerError, Alive, IInv, TypeOK, FlagsOK
  <2>1. TypeOK'
    BY <1>4, <2>0 DEF settingsFailed, AnswerError, Alive, IInv, TypeOK
  <2>2. ProxiesOK'
    BY <1>4 DEF settingsFailed, AnswerError, Alive, IInv, TypeOK, ProxiesOK, ObserverOK
  <2>3. ObserverOK'
    BY <1>4 DEF settingsFailed, AnswerError, Alive, IInv, TypeOK, ProxiesOK, ObserverOK
  <2>4. AnswerOK'
    BY <1>4 DEF settingsFailed, AnswerError, Alive, IInv, TypeOK, AnswerOK
  <2> QED BY <2>1, <2>2, <2>3, <2>4 DEF IInv
<1> QED BY <1>1, <1>2, <1>3, <1>4

\* The steps of stop keep the invariant.
LEMMA StopIInv ==
  ASSUME IInv,
         \/ stopTunnel \/ wormholeStop \/ terminate_quitting \/ terminate_quit
         \/ removeObserver \/ stopProxies \/ pendingStopCompletion \/ super_stopTunnel
  PROVE  IInv'
<1> USE StopsAssumption DEF Proxies, Observed, startVars, stopVars, stopCalls, tunFlags
<1>1. CASE stopTunnel \/ wormholeStop
  <2>0. FlagsOK'
    BY <1>1, Zenon DEF stopTunnel, wormholeStop, Begin, Alive, IInv, TypeOK, FlagsOK
  <2>1. TypeOK'
    <3>1. stops' \in 0 .. MaxStops
      BY <1>1 DEF stopTunnel, wormholeStop, Begin, IInv, TypeOK
    <3>2. /\ UNCHANGED <<proc, start, proxy, chained, settings, answer, tun>>
          /\ main' = "quitting"
      BY <1>1 DEF stopTunnel, wormholeStop, Begin
    <3> QED BY <2>0, <3>1, <3>2 DEF IInv, TypeOK
  <2>2. ProxiesOK'
    BY <1>1 DEF stopTunnel, wormholeStop, Begin, Alive, IInv, TypeOK, ProxiesOK, ObserverOK
  <2>3. ObserverOK'
    BY <1>1 DEF stopTunnel, wormholeStop, Begin, Alive, IInv, TypeOK, ProxiesOK, ObserverOK
  <2>4. AnswerOK'
    BY <1>1 DEF stopTunnel, wormholeStop, Begin, Alive, IInv, TypeOK, AnswerOK
  <2> QED BY <2>1, <2>2, <2>3, <2>4 DEF IInv
<1>2. CASE terminate_quitting \/ terminate_quit
  <2>0. FlagsOK'
    BY <1>2, Zenon DEF terminate_quitting, terminate_quit, Quit, Alive, IInv, TypeOK, FlagsOK
  <2>1. TypeOK'
    BY <1>2, <2>0 DEF terminate_quitting, terminate_quit, Quit, Alive, IInv, TypeOK
  <2>2. ProxiesOK'
    BY <1>2 DEF terminate_quitting, terminate_quit, Quit, Alive, IInv, TypeOK, ProxiesOK,
       ObserverOK
  <2>3. ObserverOK'
    BY <1>2 DEF terminate_quitting, terminate_quit, Quit, Alive, IInv, TypeOK, ProxiesOK,
       ObserverOK
  <2>4. AnswerOK'
    BY <1>2 DEF terminate_quitting, terminate_quit, Quit, Alive, IInv, TypeOK, AnswerOK
  <2> QED BY <2>1, <2>2, <2>3, <2>4 DEF IInv
<1>3. CASE removeObserver
  <2>0. FlagsOK'
    BY <1>3, Zenon DEF removeObserver, RemoveObserver, Alive, IInv, TypeOK, FlagsOK
  <2>1. TypeOK'
    BY <1>3, <2>0 DEF removeObserver, RemoveObserver, Alive, IInv, TypeOK
  <2>2. ProxiesOK'
    BY <1>3 DEF removeObserver, RemoveObserver, Alive, IInv, TypeOK, ProxiesOK, ObserverOK
  <2>3. ObserverOK'
    BY <1>3 DEF removeObserver, RemoveObserver, Alive, IInv, TypeOK, ProxiesOK, ObserverOK
  <2>4. AnswerOK'
    BY <1>3 DEF removeObserver, RemoveObserver, Alive, IInv, TypeOK, AnswerOK
  <2> QED BY <2>1, <2>2, <2>3, <2>4 DEF IInv
<1>4. CASE stopProxies
  <2>0. FlagsOK'
    BY <1>4, Zenon DEF stopProxies, Alive, IInv, TypeOK, FlagsOK
  <2>1. TypeOK'
    BY <1>4, <2>0 DEF stopProxies, Alive, IInv, TypeOK
  <2>2. ProxiesOK'
    BY <1>4 DEF stopProxies, Alive, IInv, TypeOK, ProxiesOK, ObserverOK
  <2>3. ObserverOK'
    BY <1>4 DEF stopProxies, Alive, IInv, TypeOK, ProxiesOK, ObserverOK
  <2>4. AnswerOK'
    BY <1>4 DEF stopProxies, Alive, IInv, TypeOK, AnswerOK
  <2> QED BY <2>1, <2>2, <2>3, <2>4 DEF IInv
<1>5. CASE pendingStopCompletion
  <2>0. FlagsOK'
    BY <1>5, Zenon DEF pendingStopCompletion, Alive, IInv, TypeOK, FlagsOK
  <2>1. TypeOK'
    BY <1>5, <2>0 DEF pendingStopCompletion, Alive, IInv, TypeOK
  <2>2. ProxiesOK'
    BY <1>5 DEF pendingStopCompletion, Alive, IInv, TypeOK, ProxiesOK, ObserverOK
  <2>3. ObserverOK'
    BY <1>5 DEF pendingStopCompletion, Alive, IInv, TypeOK, ProxiesOK, ObserverOK
  <2>4. AnswerOK'
    BY <1>5 DEF pendingStopCompletion, Alive, IInv, TypeOK, AnswerOK
  <2> QED BY <2>1, <2>2, <2>3, <2>4 DEF IInv
<1>6. CASE super_stopTunnel
  <2>0. FlagsOK'
    BY <1>6, Zenon DEF super_stopTunnel, Alive, IInv, TypeOK, FlagsOK
  <2>1. TypeOK'
    BY <1>6, <2>0 DEF super_stopTunnel, Alive, IInv, TypeOK
  <2>2. ProxiesOK'
    BY <1>6 DEF super_stopTunnel, Alive, IInv, TypeOK, ProxiesOK, ObserverOK
  <2>3. ObserverOK'
    BY <1>6 DEF super_stopTunnel, Alive, IInv, TypeOK, ProxiesOK, ObserverOK
  <2>4. AnswerOK'
    BY <1>6 DEF super_stopTunnel, Alive, IInv, TypeOK, AnswerOK
  <2> QED BY <2>1, <2>2, <2>3, <2>4 DEF IInv
<1> QED BY <1>1, <1>2, <1>3, <1>4, <1>5, <1>6

\* The tun2socks thread keeps the invariant.
LEMMA TunIInv ==
  ASSUME IInv,
         \/ BReactor_Init \/ tun2socks_main \/ tun2socks_main_fail
         \/ dispatch \/ handler \/ device_error_handler \/ leaveLoop
         \/ onTun2SocksFinished \/ exitSuccess
  PROVE  IInv'
<1> USE DEF Proxies, Observed, startVars, stopVars, stopCalls, tunFlags
<1>1. CASE BReactor_Init \/ tun2socks_main \/ tun2socks_main_fail
  <2>0. FlagsOK'
    BY <1>1, Zenon DEF BReactor_Init, tun2socks_main, tun2socks_main_fail, Alive, IInv, TypeOK,
       FlagsOK
  <2>1. TypeOK'
    BY <1>1, <2>0 DEF BReactor_Init, tun2socks_main, tun2socks_main_fail, Alive, IInv, TypeOK
  <2>2. ProxiesOK'
    BY <1>1 DEF BReactor_Init, tun2socks_main, tun2socks_main_fail, Alive, IInv, TypeOK,
       ProxiesOK, ObserverOK
  <2>3. ObserverOK'
    BY <1>1 DEF BReactor_Init, tun2socks_main, tun2socks_main_fail, Alive, IInv, TypeOK,
       ProxiesOK, ObserverOK
  <2>4. AnswerOK'
    BY <1>1 DEF BReactor_Init, tun2socks_main, tun2socks_main_fail, Alive, IInv, TypeOK,
       AnswerOK
  <2> QED BY <2>1, <2>2, <2>3, <2>4 DEF IInv
<1>2. CASE dispatch \/ handler \/ device_error_handler \/ leaveLoop
  <2>0. FlagsOK'
    BY <1>2, Zenon DEF dispatch, handler, device_error_handler, leaveLoop, Alive, IInv, TypeOK,
       FlagsOK
  <2>1. TypeOK'
    <3>1. /\ UNCHANGED <<proc, start, proxy, chained, settings, answer, main, stops>>
          /\ tun' \in {"loop", "handler", "closing"}
      BY <1>2 DEF dispatch, handler, device_error_handler, leaveLoop
    <3> QED BY <2>0, <3>1 DEF IInv, TypeOK
  <2>2. ProxiesOK'
    BY <1>2 DEF dispatch, handler, device_error_handler, leaveLoop, Alive, IInv, TypeOK,
       ProxiesOK, ObserverOK
  <2>3. ObserverOK'
    BY <1>2 DEF dispatch, handler, device_error_handler, leaveLoop, Alive, IInv, TypeOK,
       ProxiesOK, ObserverOK
  <2>4. AnswerOK'
    BY <1>2 DEF dispatch, handler, device_error_handler, leaveLoop, Alive, IInv, TypeOK,
       AnswerOK
  <2> QED BY <2>1, <2>2, <2>3, <2>4 DEF IInv
<1>3. CASE onTun2SocksFinished
  <2>0. FlagsOK'
    BY <1>3, Zenon DEF onTun2SocksFinished, Alive, IInv, TypeOK, FlagsOK
  <2>1. TypeOK'
    BY <1>3, <2>0 DEF onTun2SocksFinished, Alive, IInv, TypeOK
  <2>2. ProxiesOK'
    BY <1>3 DEF onTun2SocksFinished, Alive, IInv, TypeOK, ProxiesOK, ObserverOK
  <2>3. ObserverOK'
    BY <1>3 DEF onTun2SocksFinished, Alive, IInv, TypeOK, ProxiesOK, ObserverOK
  <2>4. AnswerOK'
    BY <1>3 DEF onTun2SocksFinished, Alive, IInv, TypeOK, AnswerOK
  <2> QED BY <2>1, <2>2, <2>3, <2>4 DEF IInv
<1>4. CASE exitSuccess
  <2>0. FlagsOK'
    BY <1>4, Zenon DEF exitSuccess, Alive, IInv, TypeOK, FlagsOK
  <2>1. TypeOK'
    BY <1>4, <2>0 DEF exitSuccess, Alive, IInv, TypeOK
  <2>2. ProxiesOK'
    BY <1>4 DEF exitSuccess, Alive, IInv, TypeOK, ProxiesOK, ObserverOK
  <2>3. ObserverOK'
    BY <1>4 DEF exitSuccess, Alive, IInv, TypeOK, ProxiesOK, ObserverOK
  <2>4. AnswerOK'
    BY <1>4 DEF exitSuccess, Alive, IInv, TypeOK, AnswerOK
  <2> QED BY <2>1, <2>2, <2>3, <2>4 DEF IInv
<1> QED BY <1>1, <1>2, <1>3, <1>4

\* The inductive invariant of the extension's life holds, whatever the order
\* in which its threads, the system and the app act.
THEOREM Invariance == Spec => []IInv
<1>1. Init => IInv
  <2> SUFFICES ASSUME Init PROVE IInv
    OBVIOUS
  <2>1. FlagsOK
    BY DEF Init, FlagsOK
  <2>2. TypeOK
    BY <2>1, StopsAssumption DEF Init, TypeOK, Proxies
  <2>3. ProxiesOK
    BY DEF Init, ProxiesOK, Proxies
  <2>4. ObserverOK /\ AnswerOK
    BY DEF Init, ObserverOK, AnswerOK, Observed
  <2> QED BY <2>2, <2>3, <2>4 DEF IInv
<1>2. IInv /\ [Next]_vars => IInv'
  <2> SUFFICES ASSUME IInv, [Next]_vars PROVE IInv'
    OBVIOUS
  <2>1. CASE UNCHANGED vars
    BY <2>1 DEF vars, startVars, tunFlags, stopVars, stopCalls, IInv, TypeOK, FlagsOK,
       ProxiesOK, ObserverOK, AnswerOK, Observed
  <2>2. CASE Next
    <3>1. CASE \E p \in Proxies : \E r \in {"listening", "error", "dead"} : proxyCallback(p, r)
      BY <3>1, CallbackIInv
    <3>2. CASE \E p \in Proxies : syncStartProxy(p) \/ syncStartProxy_fail(p)
      BY <3>2, StartIInv
    <3>3. CASE startTunnel \/ startTunnel_fail \/ setupWormhole
      <4>1. "http" \in Proxies
        BY DEF Proxies
      <4> QED BY <3>3, <4>1, StartIInv
    <3> QED BY <2>2, <3>1, <3>2, <3>3, SettingsIInv, StopIInv, TunIInv DEF Next
  <2> QED BY <2>1, <2>2
<1> QED BY <1>1, <1>2, PTL DEF Spec

\* Type correctness of the extension's state.
THEOREM TypeCorrect == Spec => []TypeOK
<1>1. IInv => TypeOK
  BY DEF IInv
<1> QED BY <1>1, Invariance, PTL

\* A start reported as a success has its proxies, chained, and its tun2socks
\* thread.
THEOREM Ready == Spec => []ReadyWhenAnswered
<1>1. IInv => ReadyWhenAnswered
  BY DEF IInv, ReadyWhenAnswered, ProxiesOK, AnswerOK, Proxies
<1> QED BY <1>1, Invariance, PTL

\* stop never reaches a proxy that is not there.
THEOREM StopFinds == Spec => []StopFindsListeners
<1>1. IInv => StopFindsListeners
  BY DEF IInv, StopFindsListeners, ProxiesOK, ObserverOK, Proxies, Observed
<1> QED BY <1>1, Invariance, PTL

\* The first stop of a started tunnel does not crash.
THEOREM StopSafe == Spec => []StopSafeOnceUp
<1>1. IInv => StopSafeOnceUp
  BY StopsAssumption DEF IInv, TypeOK, StopSafeOnceUp, ObserverOK, AnswerOK, ProxiesOK, Observed
<1> QED BY <1>1, Invariance, PTL

=============================================================================
