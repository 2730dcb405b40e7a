--------------------------- MODULE GatewayProofs ---------------------------
(***************************************************************************)
(* Proofs about Gateway, for any set of requests, any set of principals    *)
(* and any limits.  The invariants the runs check are not inductive: they  *)
(* rest on what the place of a handler says of the maps, the slots, the    *)
(* quota and its tunnel (Placed, Dialled), and on what each phase of the   *)
(* shutdown has already done (Phases).                                     *)
(***************************************************************************)
EXTENDS Gateway, FiniteSetTheorems, TLAPS

\* Places at which a handler holds no slot, holds no quota unit, has not
\* dialled, is in g.active, and is past its own tunnel.close().
NoSlot == {"start", "checks", "slot", "unregister", "finish", "done"}
NoQuota == NoSlot \union {"destination", "draining1", "admission",
                          "draining2", "principal", "releaseSlot"}
NoTunnelYet == {"start", "checks", "slot", "destination", "draining1",
                "admission", "draining2", "principal", "dial"}
Registered == {"deadline1", "draining3", "hijack", "setClient", "deadline2",
               "complete"} \union Upgraded \union Relaying
Released == {"releasePrincipal", "releaseSlot", "unregister", "finish", "done"}

\* What the place of a handler says of the maps, the slots and the quota:
\* it is in g.handshakes or g.active until it has released everything.
Placed(h) ==
    /\ pc[h] \in Setup => h \in handshakes
    /\ pc[h] \in Registered => h \in active
    /\ pc[h] \in Cleanup \ {"finish"} => h \in active \union handshakes
    /\ h \in heldSlot => pc[h] \notin NoSlot
    /\ h \in heldPrincipal => pc[h] \notin NoQuota /\ principal[h] \in Subject
    /\ pc[h] \in {"draining2", "principal"} => principal[h] \in Subject

\* ... and of its tunnel: none before the dial, closed after the clean-up.
Dialled(h) ==
    /\ pc[h] \in NoTunnelYet => /\ tunnel[h].upstream = "none"
                                /\ tunnel[h].client = "none"
    /\ pc[h] \in Released => \/ tunnel[h].upstream = "none"
                             \/ tunnel[h].closer # "none"

\* What the phases of shutdownOnSignal have established.
Phases ==
    /\ draining <=> shutdown # "serving"
    /\ shutdown \notin {"forcing", "exit"} => forced = {}
    /\ shutdown \in {"forcing", "exit"} =>
          \A h \in active : h \in toClose \/ tunnel[h].closer # "none"
    /\ waiter # "off" => draining
    /\ waiter = "drained" => active = {} /\ handshakes = {}
    /\ shutdown = "exit" /\ waiter # "drained" => toClose = {}

\* The inductive invariant.
IInv ==
    /\ TypeOK
    /\ IsFiniteSet(active)
    /\ SlotsAccounted
    /\ QuotaAccounted
    /\ \A h \in Handler : Placed(h) /\ Dialled(h)
    /\ Phases
    /\ NoLostWakeup

----------------------------------------------------------------------------

\* The counters that the actions name.
LEMMA CounterNames ==
    /\ "attempts" \in Counters /\ "opened" \in Counters
    /\ "closed" \in Counters /\ "established" \in Counters
    /\ "expirations" \in Counters /\ "forcedClosures" \in Counters
    /\ "shutdown" \in Counters
    /\ Reasons \subseteq Counters
BY DEF Counters, Reasons

\* Adding to a counter keeps the metrics well typed.
LEMMA AddType ==
    ASSUME NEW m \in MetricsStates, NEW c \in Counters, NEW n \in Int
    PROVE  Add(m, c, n) \in MetricsStates
BY DEF Add, MetricsStates

\* activeTunnel.close marks the tunnel closed and touches no socket.
LEMMA ClosedFacts ==
    ASSUME NEW t \in TunnelStates, NEW who \in Closers
    PROVE  /\ Closed(t, who) \in TunnelStates
           /\ Closed(t, who).upstream = t.upstream
           /\ Closed(t, who).client = t.client
           /\ Closed(t, who).closer # "none"
BY DEF TunnelStates, Closed, Closers

\* lifetimeTimer.Stop touches nothing but the timer.
LEMMA StoppedFacts ==
    ASSUME NEW t \in TunnelStates
    PROVE  /\ Stopped(t) \in TunnelStates
           /\ Stopped(t).upstream = t.upstream
           /\ Stopped(t).client = t.client
           /\ Stopped(t).closer = t.closer
BY DEF TunnelStates, Stopped

\* Closing the sockets keeps the first closer.
LEMMA LegsClosedFacts ==
    ASSUME NEW t \in TunnelStates
    PROVE  /\ LegsClosed(t) \in TunnelStates
           /\ LegsClosed(t).closer = t.closer
BY DEF TunnelStates, LegsClosed

\* A step from t to u: a tunnel that was closed stays closed.
Keeps(t, u) == u \in TunnelStates /\ (t.closer # "none" => u.closer # "none")

\* The single-field updates of the actions never reopen a tunnel.
LEMMA FieldKeeps ==
    ASSUME NEW t \in TunnelStates
    PROVE  /\ Keeps(t, [t EXCEPT !.upstream = "open"])
           /\ \A c \in {"hijacked", "open", "closed"} :
                 Keeps(t, [t EXCEPT !.client = c])
           /\ \A c \in {"armed", "running", "off", "closing"} :
                 Keeps(t, [t EXCEPT !.timer = c])
           /\ \A c \in {"running", "closing", "finished"} :
                 Keeps(t, [t EXCEPT !.pump = c])
BY DEF TunnelStates, Keeps

\* Moving to a known place, or unwinding with a known reason, is well typed.
LEMMA MoveTypes ==
    ASSUME TypeOK, NEW h \in Handler
    PROVE  /\ \A p \in Places : Goto(h, p) => /\ pc' \in [Handler -> Places]
                                              /\ UNCHANGED failure
           /\ \A r \in Reasons : Reject(h, r) =>
                 /\ pc' \in [Handler -> Places]
                 /\ failure' \in [Handler -> Reasons \union {""}]
<1>1. pc \in [Handler -> Places]
      /\ failure \in [Handler -> Reasons \union {""}]
  BY DEF TypeOK
<1>2. ASSUME NEW p \in Places, Goto(h, p) PROVE pc' \in [Handler -> Places]
  BY <1>1, <1>2 DEF Goto
<1>3. "settle" \in Places BY DEF Places, Cleanup
<1>4. ASSUME NEW r \in Reasons, Reject(h, r)
      PROVE  /\ pc' \in [Handler -> Places]
             /\ failure' \in [Handler -> Reasons \union {""}]
  BY <1>1, <1>3, <1>4 DEF Reject
<1> QED BY <1>2, <1>4 DEF Goto

\* What a step of a handler or of its tunnel's goroutines can write.
LEMMA HandlerFrame ==
    ASSUME TypeOK, NEW h \in Handler, ServeHTTP(h) \/ Tunnel(h)
    PROVE  /\ UNCHANGED <<draining, stopping>>
           /\ TakeSlot(h) \/ ReleaseSlot(h) \/ UNCHANGED <<slots, heldSlot>>
           /\ \/ Admission(h) \/ AcquirePrincipal(h) \/ ReleasePrincipal(h)
              \/ UNCHANGED <<principals, heldPrincipal, principal>>
           /\ \/ BeginHandshake(h) \/ Establish(h) \/ Settle(h)
              \/ LifetimeTimer(h) \/ UNCHANGED metrics
           /\ draining => /\ active' \subseteq active
                          /\ handshakes' \subseteq handshakes
           /\ signalled' \/ UNCHANGED <<signalled, active, handshakes>>
           /\ signalled' \in BOOLEAN
           /\ \A k \in Handler \ {h} : /\ pc'[k] = pc[k]
                                       /\ principal'[k] = principal[k]
           /\ active' \in {active, active \union {h}, active \ {h}}
           /\ handshakes' \in {handshakes, handshakes \union {h},
                              handshakes \ {h}}
           /\ heldSlot' \in {heldSlot, heldSlot \union {h}, heldSlot \ {h}}
           /\ heldPrincipal' \in {heldPrincipal, heldPrincipal \union {h},
                                 heldPrincipal \ {h}}
           /\ principal' \in [Handler -> Subject \union {""}]
           /\ cancelled' \subseteq Handler /\ expired' \subseteq Handler
           /\ pc' \in [Handler -> Places]
           /\ failure' \in [Handler -> Reasons \union {""}]
           /\ UNCHANGED tunnel \/ \E t : Keeps(tunnel[h], t) /\ Becomes(h, t)
<1>1. /\ tunnel[h] \in TunnelStates
      /\ {"handler", "ping", "pump", "timer"} \subseteq Closers
  BY DEF TypeOK, Closers
<1>2. /\ \A who \in Closers : Keeps(tunnel[h], Closed(tunnel[h], who))
      /\ Keeps(tunnel[h], Stopped(tunnel[h]))
      /\ Keeps(tunnel[h], LegsClosed(tunnel[h]))
  BY <1>1, ClosedFacts, StoppedFacts, LegsClosedFacts DEF Keeps
<1>3. ASSUME NEW who \in Closers
      PROVE  /\ Keeps(tunnel[h],
                      [Closed(tunnel[h], who) EXCEPT !.pump = "closing"])
             /\ \A c \in {"closing", "off"} :
                   Keeps(tunnel[h],
                         [Closed(tunnel[h], who) EXCEPT !.timer = c])
  <2>1. /\ Closed(tunnel[h], who) \in TunnelStates
        /\ Closed(tunnel[h], who).closer # "none"
    BY <1>1, ClosedFacts
  <2> QED BY <2>1, FieldKeeps DEF Keeps
<1>4. \A p \in Setup \union Upgraded \union Relaying \union Cleanup
                 \union {"done"} :
         Goto(h, p) => /\ pc' \in [Handler -> Places]
                       /\ UNCHANGED failure
  BY MoveTypes DEF Places
<1> USE DEF ServeHTTP, Tunnel, gateway, locals, contexts, stopping,
            SignalState,
            CheckAt, DrainingAt, DeadlineAt, BeginHandshake, CheckRequest,
            TakeSlot, IsDraining, Admission, AcquirePrincipal, Dial,
            RegisterTunnel, CheckDeadline, Hijack, SetClient,
            CompleteHandshake, ArmTimer, Flush, Establish, RelayReturns,
            HandlerClose, AwaitPump, Settle, ReleasePrincipal, ReleaseSlot,
            UnregisterTunnel, FinishHandshake, CloseLegs, PumpReturns,
            PingFails, DeadlinePasses, LifetimeTimer
<1>5. UNCHANGED <<draining, stopping>>
  BY Zenon
<1>6. TakeSlot(h) \/ ReleaseSlot(h) \/ UNCHANGED <<slots, heldSlot>>
  <2> HIDE DEF TakeSlot, ReleaseSlot
  <2> QED BY Zenon
<1>7. \/ Admission(h) \/ AcquirePrincipal(h) \/ ReleasePrincipal(h)
              \/ UNCHANGED <<principals, heldPrincipal, principal>>
  <2> HIDE DEF Admission, AcquirePrincipal, ReleasePrincipal
  <2> QED BY Zenon
<1>8. \/ BeginHandshake(h) \/ Establish(h) \/ Settle(h)
              \/ LifetimeTimer(h) \/ UNCHANGED metrics
  <2> HIDE DEF BeginHandshake, Establish, Settle, LifetimeTimer
  <2> QED BY Zenon
<1>9. draining => active' \subseteq active /\ handshakes' \subseteq handshakes
  OBVIOUS
<1>10. /\ signalled' \/ UNCHANGED <<signalled, active, handshakes>>
       /\ signalled' \in BOOLEAN
  BY DEF TypeOK
<1>11. \A k \in Handler \ {h} : pc'[k] = pc[k] /\ principal'[k] = principal[k]
  BY DEF TypeOK, Goto, Reject
<1>12. /\ active' \in {active, active \union {h}, active \ {h}}
       /\ handshakes' \in {handshakes, handshakes \union {h},
                              handshakes \ {h}}
  BY Zenon
<1>13. /\ heldSlot' \in {heldSlot, heldSlot \union {h}, heldSlot \ {h}}
       /\ heldPrincipal' \in {heldPrincipal, heldPrincipal \union {h},
                                 heldPrincipal \ {h}}
  BY Zenon
<1>14. /\ principal' \in [Handler -> Subject \union {""}]
       /\ cancelled' \subseteq Handler /\ expired' \subseteq Handler
  BY DEF TypeOK
<1>15. /\ pc' \in [Handler -> Places]
       /\ failure' \in [Handler -> Reasons \union {""}]
  <2>1. CASE Establish(h)
    BY <2>1, MoveTypes DEF TypeOK, Places, Relaying, Reasons
  <2>2. CASE ~Establish(h)
    <3> HIDE DEF Establish
    <3> QED BY <1>4, <2>2, MoveTypes
            DEF TypeOK, Setup, Upgraded, Relaying, Cleanup, Reasons
  <2> QED BY <2>1, <2>2
<1>16. UNCHANGED tunnel \/ \E t : Keeps(tunnel[h], t) /\ Becomes(h, t)
  BY <1>1, <1>2, <1>3, FieldKeeps, Zenon DEF Close
<1> QED
  BY <1>5, <1>6, <1>7, <1>8, <1>9, <1>10, <1>11, <1>12, <1>13, <1>14, <1>15,
     <1>16, Zenon

\* What shutdownOnSignal leaves alone.
LEMMA ShutdownFrame ==
    ASSUME TypeOK, ShutdownOnSignal
    PROVE  /\ UNCHANGED <<slots, principals, handshakes, active, pc, failure,
                          heldSlot, heldPrincipal, principal, expired>>
           /\ UNCHANGED tunnel \/ \E h \in Handler : ForceClose(h)
           /\ UNCHANGED metrics \/ ForceCloseActive
           /\ draining => draining'
           /\ draining' \in BOOLEAN /\ signalled' \in BOOLEAN
           /\ cancelled' \subseteq Handler /\ toCancel' \subseteq Handler
           /\ forced' \subseteq Handler /\ toClose' \subseteq Handler
           /\ shutdown' \in {"serving", "cancelling", "select", "forcing",
                              "exit"}
           /\ waiter' \in {"off", "check", "parked", "drained"}
<1> USE DEF ShutdownOnSignal, gateway, locals, contexts, SignalState,
            BeginDrain, StartWaiting, WaitForDrain, ForceCloseActive, Exit,
            CancelHandshake, ForceClose
<1>1. UNCHANGED <<slots, principals, handshakes, active, pc, failure,
                  heldSlot, heldPrincipal, principal, expired>>
  BY Zenon
<1>2. UNCHANGED tunnel \/ \E h \in Handler : ForceClose(h)
  <2> HIDE DEF ForceClose
  <2> QED BY Zenon
<1>3. UNCHANGED metrics \/ ForceCloseActive
  <2> HIDE DEF ForceCloseActive
  <2> QED BY Zenon
<1>4. /\ draining => draining'
      /\ draining' \in BOOLEAN /\ signalled' \in BOOLEAN
  BY DEF TypeOK
<1>5. /\ cancelled' \subseteq Handler /\ toCancel' \subseteq Handler
      /\ forced' \subseteq Handler /\ toClose' \subseteq Handler
  BY DEF TypeOK
<1>6. /\ shutdown' \in {"serving", "cancelling", "select", "forcing", "exit"}
      /\ waiter' \in {"off", "check", "parked", "drained"}
  BY DEF TypeOK
<1> QED
  BY <1>1, <1>2, <1>3, <1>4, <1>5, <1>6, Zenon

\* The tunnel that forceCloseActive closes, and no other.
LEMMA ForceCloseFacts ==
    ASSUME TypeOK, NEW h \in Handler, ForceClose(h)
    PROVE  /\ Keeps(tunnel[h], tunnel'[h]) /\ tunnel'[h].closer # "none"
           /\ tunnel'[h].upstream = tunnel[h].upstream
           /\ tunnel'[h].client = tunnel[h].client
           /\ \A k \in Handler \ {h} : tunnel'[k] = tunnel[k]
           /\ tunnel' \in [Handler -> TunnelStates]
<1>1. tunnel[h] \in TunnelStates /\ "force" \in Closers BY DEF TypeOK, Closers
<1>2. /\ tunnel'[h] = Closed(tunnel[h], "force")
      /\ \A k \in Handler \ {h} : tunnel'[k] = tunnel[k]
  BY DEF ForceClose, Close, Becomes, TypeOK
<1>3. tunnel' \in [Handler -> TunnelStates]
  BY <1>1, ClosedFacts DEF ForceClose, Close, Becomes, TypeOK
<1> QED BY <1>1, <1>2, <1>3, ClosedFacts DEF Keeps

\* What a step of one handler leaves alone in another.
Same(k) ==
    /\ pc'[k] = pc[k] /\ principal'[k] = principal[k] /\ tunnel'[k] = tunnel[k]
    /\ k \in handshakes' <=> k \in handshakes
    /\ k \in active' <=> k \in active
    /\ k \in heldSlot' <=> k \in heldSlot
    /\ k \in heldPrincipal' <=> k \in heldPrincipal

\* A step of one handler leaves the others as they are.
LEMMA OtherHandlers ==
    ASSUME TypeOK, NEW h \in Handler, ServeHTTP(h) \/ Tunnel(h),
           NEW k \in Handler \ {h}
    PROVE  Same(k)
<1>1. tunnel'[k] = tunnel[k]
  <2>1. UNCHANGED tunnel \/ \E t : Becomes(h, t) BY HandlerFrame
  <2> QED BY <2>1 DEF Becomes, TypeOK
<1>2. /\ k \in handshakes' <=> k \in handshakes
      /\ k \in active' <=> k \in active
  <2>1. /\ active' \in {active, active \union {h}, active \ {h}}
        /\ handshakes' \in {handshakes, handshakes \union {h},
                            handshakes \ {h}}
    BY HandlerFrame
  <2> QED BY <2>1
<1>3. /\ k \in heldSlot' <=> k \in heldSlot
      /\ k \in heldPrincipal' <=> k \in heldPrincipal
  BY HandlerFrame
<1> QED
  BY <1>1, <1>2, <1>3, HandlerFrame DEF Same

\* A handler's own step: one case per action.
LEMMA PlacedStep ==
    ASSUME TypeOK, NEW h \in Handler, Placed(h), ServeHTTP(h)
    PROVE  Placed(h)'
<1> USE DEF TypeOK, Placed, At, Goto, Reject, gateway, locals, NoSlot, NoQuota,
            Registered, Setup, Upgraded, Relaying, Cleanup
<1>1. CASE BeginHandshake(h) BY <1>1 DEF BeginHandshake
<1>2. CASE CheckRequest(h) BY <1>2 DEF CheckRequest, CheckAt
<1>3. CASE TakeSlot(h) BY <1>3 DEF TakeSlot
<1>4. CASE IsDraining(h) BY <1>4 DEF IsDraining, DrainingAt
<1>5. CASE Admission(h) BY <1>5 DEF Admission
<1>6. CASE AcquirePrincipal(h) BY <1>6 DEF AcquirePrincipal
<1>7. CASE Dial(h) BY <1>7 DEF Dial
<1>8. CASE RegisterTunnel(h) BY <1>8 DEF RegisterTunnel
<1>9. CASE CheckDeadline(h) BY <1>9 DEF CheckDeadline, DeadlineAt
<1>10. CASE Hijack(h) BY <1>10 DEF Hijack
<1>11. CASE SetClient(h) BY <1>11 DEF SetClient
<1>12. CASE CompleteHandshake(h) BY <1>12 DEF CompleteHandshake
<1>13. CASE ArmTimer(h) BY <1>13 DEF ArmTimer
<1>14. CASE Flush(h) BY <1>14 DEF Flush
<1>15. CASE Establish(h) BY <1>15 DEF Establish
<1>16. CASE RelayReturns(h) BY <1>16 DEF RelayReturns
<1>17. CASE HandlerClose(h) BY <1>17 DEF HandlerClose
<1>18. CASE AwaitPump(h) BY <1>18 DEF AwaitPump
<1>19. CASE Settle(h) BY <1>19 DEF Settle
<1>20. CASE ReleasePrincipal(h) BY <1>20 DEF ReleasePrincipal
<1>21. CASE ReleaseSlot(h) BY <1>21 DEF ReleaseSlot
<1>22. CASE UnregisterTunnel(h) BY <1>22 DEF UnregisterTunnel
<1>23. CASE FinishHandshake(h) BY <1>23 DEF FinishHandshake
<1> QED
  BY <1>1, <1>2, <1>3, <1>4, <1>5, <1>6, <1>7, <1>8, <1>9, <1>10, <1>11, <1>12,
     <1>13, <1>14, <1>15, <1>16, <1>17, <1>18, <1>19, <1>20, <1>21, <1>22,
     <1>23 DEF ServeHTTP

\* A handler's tunnel: one case per action of it and of its goroutines.
LEMMA DialledStep ==
    ASSUME TypeOK, NEW h \in Handler, Dialled(h), ServeHTTP(h) \/ Tunnel(h)
    PROVE  Dialled(h)'
<1>0. /\ tunnel[h] \in TunnelStates
      /\ {"handler", "ping", "pump", "timer"} \subseteq Closers
  BY DEF TypeOK, Closers
<1> USE DEF TypeOK, Dialled, At, Goto, Reject, Becomes, NoTunnelYet, Released
<1>1. CASE BeginHandshake(h) BY <1>1 DEF BeginHandshake
<1>2. CASE CheckRequest(h) BY <1>2 DEF CheckRequest, CheckAt
<1>3. CASE TakeSlot(h) BY <1>3 DEF TakeSlot
<1>4. CASE IsDraining(h) BY <1>4 DEF IsDraining, DrainingAt
<1>5. CASE Admission(h) BY <1>5 DEF Admission
<1>6. CASE AcquirePrincipal(h) BY <1>6 DEF AcquirePrincipal
<1>7. CASE Dial(h) BY <1>7 DEF Dial, TunnelStates
<1>8. CASE RegisterTunnel(h) BY <1>8 DEF RegisterTunnel
<1>9. CASE CheckDeadline(h) BY <1>9 DEF CheckDeadline, DeadlineAt
<1>10. CASE Hijack(h) BY <1>10 DEF Hijack, TunnelStates
<1>11. CASE SetClient(h) BY <1>11 DEF SetClient, TunnelStates
<1>12. CASE CompleteHandshake(h) BY <1>12 DEF CompleteHandshake
<1>13. CASE ArmTimer(h) BY <1>13 DEF ArmTimer, TunnelStates
<1>14. CASE Flush(h) BY <1>14 DEF Flush
<1>15. CASE Establish(h) BY <1>15 DEF Establish, TunnelStates
<1>16. CASE RelayReturns(h) BY <1>16 DEF RelayReturns
<1>17. CASE HandlerClose(h)
  <2>1. CASE tunnel[h].upstream = "none" BY <1>17, <2>1 DEF HandlerClose
  <2>2. CASE tunnel[h].upstream # "none"
    <3>1. tunnel'[h] = Closed(tunnel[h], "handler")
      BY <1>17, <2>2 DEF HandlerClose, Close
    <3>2. pc'[h] \in {"awaitPump", "releasePrincipal"}
      BY <1>17 DEF HandlerClose
    <3>3. tunnel'[h].closer # "none"
      BY ONLY <3>1, <1>0, ClosedFacts
    <3> QED BY <3>2, <3>3
  <2> QED BY <2>1, <2>2
<1>18. CASE AwaitPump(h) BY <1>18 DEF AwaitPump
<1>19. CASE Settle(h) BY <1>19, <1>0, StoppedFacts DEF Settle
<1>20. CASE ReleasePrincipal(h) BY <1>20 DEF ReleasePrincipal
<1>21. CASE ReleaseSlot(h) BY <1>21 DEF ReleaseSlot
<1>22. CASE UnregisterTunnel(h) BY <1>22 DEF UnregisterTunnel
<1>23. CASE FinishHandshake(h) BY <1>23 DEF FinishHandshake
<1>24. CASE CloseLegs(h)
  <2>1. pc'[h] = pc[h] /\ tunnel[h].closer # "none" /\ LegOpen(h)
        /\ tunnel'[h] = LegsClosed(tunnel[h])
    BY <1>24 DEF CloseLegs
  <2>2. tunnel'[h].closer = tunnel[h].closer BY <2>1, <1>0, LegsClosedFacts
  <2> QED BY <2>1, <2>2 DEF LegOpen
<1>25. CASE PumpReturns(h)
  <2>1. pc'[h] = pc[h] BY <1>25 DEF PumpReturns
  <2>2. CASE tunnel'[h] = [tunnel[h] EXCEPT !.pump = "finished"]
    BY <2>1, <2>2, <1>0 DEF TunnelStates
  <2> DEFINE u == Closed(tunnel[h], "pump")
  <2>3. CASE tunnel'[h] = [u EXCEPT !.pump = "closing"]
    <3>1. /\ u \in TunnelStates /\ u.upstream = tunnel[h].upstream
          /\ u.client = tunnel[h].client /\ u.closer # "none"
      BY ONLY <1>0, ClosedFacts
    <3> HIDE DEF u
    <3>2. /\ tunnel'[h].upstream = u.upstream /\ tunnel'[h].client = u.client
          /\ tunnel'[h].closer = u.closer
      BY ONLY <2>3, <3>1 DEF TunnelStates
    <3> QED BY <2>1, <3>1, <3>2
  <2> QED BY <2>2, <2>3, <1>25 DEF PumpReturns
<1>26. CASE PingFails(h) BY <1>26, <1>0, ClosedFacts DEF PingFails, Close
<1>27. CASE DeadlinePasses(h) BY <1>27 DEF DeadlinePasses
<1>28. CASE LifetimeTimer(h)
  <2>1. pc'[h] = pc[h] BY <1>28 DEF LifetimeTimer
  <2>2. CASE \/ tunnel'[h] = [tunnel[h] EXCEPT !.timer = "running"]
             \/ tunnel'[h] = [tunnel[h] EXCEPT !.timer = "off"]
    BY <2>1, <2>2, <1>0 DEF TunnelStates
  <2> DEFINE u == Closed(tunnel[h], "timer")
             c == IF tunnel[h].closer = "none" THEN "closing" ELSE "off"
  <2>3. CASE tunnel'[h] = [u EXCEPT !.timer = c]
    <3>1. /\ u \in TunnelStates /\ u.upstream = tunnel[h].upstream
          /\ u.client = tunnel[h].client /\ u.closer # "none"
      BY ONLY <1>0, ClosedFacts
    <3> HIDE DEF u, c
    <3>2. /\ tunnel'[h].upstream = u.upstream /\ tunnel'[h].client = u.client
          /\ tunnel'[h].closer = u.closer
      BY ONLY <2>3, <3>1 DEF TunnelStates
    <3> QED BY <2>1, <3>1, <3>2
  <2> QED BY <2>2, <2>3, <1>28 DEF LifetimeTimer
<1> QED
  BY <1>1, <1>2, <1>3, <1>4, <1>5, <1>6, <1>7, <1>8, <1>9, <1>10, <1>11, <1>12,
     <1>13, <1>14, <1>15, <1>16, <1>17, <1>18, <1>19, <1>20, <1>21, <1>22,
     <1>23, <1>24, <1>25, <1>26, <1>27, <1>28 DEF ServeHTTP, Tunnel

----------------------------------------------------------------------------
(* Each conjunct of the inductive invariant is preserved.                  *)

\* Every step keeps the counters well typed.
LEMMA MetricsType ==
    ASSUME TypeOK, Next, IsFiniteSet(active)
    PROVE  metrics' \in MetricsStates
<1>1. metrics \in MetricsStates BY DEF TypeOK
<1>2. ASSUME NEW m \in MetricsStates, NEW c \in Counters
      PROVE  Add(m, c, 1) \in MetricsStates /\ Add(m, c, -1) \in MetricsStates
  BY AddType
<1>3. ASSUME NEW h \in Handler, ServeHTTP(h) \/ Tunnel(h)
      PROVE  metrics' \in MetricsStates
  <2>1. failure[h] # "" => failure[h] \in Counters
    BY CounterNames DEF TypeOK
  <2>2. CASE BeginHandshake(h) \/ Establish(h) \/ LifetimeTimer(h)
    BY <1>1, <1>2, <2>2, CounterNames, Zenon
    DEF BeginHandshake, Establish, LifetimeTimer
  <2>3. CASE Settle(h)
    BY <1>1, <1>2, <2>1, <2>3, CounterNames, Zenon DEF Settle
  <2> QED BY <1>1, <1>3, <2>2, <2>3, HandlerFrame
<1>4. CASE ForceCloseActive
  <2>1. Cardinality(active \ forced) \in Int
    BY FS_Subset, FS_CardinalityType
  <2> QED BY <1>1, <1>4, <2>1, CounterNames, AddType DEF ForceCloseActive
<1> QED BY <1>1, <1>3, <1>4, ShutdownFrame DEF Next

\* Every step preserves the type invariant.
LEMMA TypeStep ==
    ASSUME TypeOK, Next, IsFiniteSet(active),
           slots' \in Nat, principals' \in [Subject -> Nat]
    PROVE  TypeOK'
<1>1. ASSUME NEW h \in Handler, ServeHTTP(h) \/ Tunnel(h)
      PROVE  TypeOK'
  <2>1. /\ active' \subseteq Handler /\ handshakes' \subseteq Handler
        /\ heldSlot' \subseteq Handler /\ heldPrincipal' \subseteq Handler
    <3>1. /\ active \subseteq Handler /\ handshakes \subseteq Handler
          /\ heldSlot \subseteq Handler /\ heldPrincipal \subseteq Handler
      BY DEF TypeOK
    <3> QED BY <1>1, <3>1, HandlerFrame, Zenon
  <2>2. tunnel' \in [Handler -> TunnelStates]
    BY <1>1, HandlerFrame DEF TypeOK, Becomes, Keeps
  <2> QED BY <1>1, <2>1, <2>2, HandlerFrame, MetricsType DEF TypeOK, stopping
<1>2. CASE ShutdownOnSignal
  <2>1. tunnel' \in [Handler -> TunnelStates]
    BY <1>2, ShutdownFrame, ForceCloseFacts DEF TypeOK
  <2> QED BY <1>2, <2>1, ShutdownFrame, MetricsType DEF TypeOK
<1> QED BY <1>1, <1>2 DEF Next

\* The two limits are natural numbers.
LEMMA Limits == MaxConnections \in Nat /\ MaxPerPrincipal \in Nat
BY GatewayAssumption, Zenon

\* Only TakeSlot and ReleaseSlot touch the slots, each by one element.
LEMMA SlotsStep ==
    ASSUME TypeOK, SlotsAccounted, \A h \in Handler : Placed(h), Next
    PROVE  SlotsAccounted'
<1>0. slots \in Nat /\ slots <= MaxConnections
  BY DEF TypeOK, SlotsAccounted
<1>1. ASSUME NEW h \in Handler, TakeSlot(h)
      PROVE  SlotsAccounted'
  <2>1. h \notin heldSlot
    BY <1>1 DEF TakeSlot, At, Placed, NoSlot
  <2>2. CASE UNCHANGED <<slots, heldSlot>> BY <2>2 DEF SlotsAccounted
  <2>3. CASE /\ slots < MaxConnections
             /\ slots' = slots + 1
             /\ heldSlot' = heldSlot \union {h}
    <3>1. /\ IsFiniteSet(heldSlot \union {h})
          /\ Cardinality(heldSlot \union {h}) = Cardinality(heldSlot) + 1
      BY <2>1, FS_AddElement DEF SlotsAccounted
    <3>2. slots + 1 <= MaxConnections
      BY <1>0, <2>3, Limits
    <3> QED BY <2>3, <3>1, <3>2 DEF SlotsAccounted
  <2> QED BY <1>1, <2>2, <2>3 DEF TakeSlot
<1>2. ASSUME NEW h \in Handler, ReleaseSlot(h)
      PROVE  SlotsAccounted'
  <2>1. CASE h \notin heldSlot BY <1>2, <2>1 DEF ReleaseSlot, SlotsAccounted
  <2>2. CASE h \in heldSlot
    <3>1. slots' = slots - 1 /\ heldSlot' = heldSlot \ {h}
      BY <1>2, <2>2 DEF ReleaseSlot
    <3>2. /\ IsFiniteSet(heldSlot \ {h})
          /\ Cardinality(heldSlot \ {h}) = Cardinality(heldSlot) - 1
      BY <2>2, FS_RemoveElement DEF SlotsAccounted
    <3>3. slots - 1 <= MaxConnections
      BY <1>0, Limits
    <3> QED BY <3>1, <3>2, <3>3 DEF SlotsAccounted
  <2> QED BY <2>1, <2>2
<1>3. CASE UNCHANGED <<slots, heldSlot>>
  BY <1>3 DEF SlotsAccounted
<1> QED BY <1>1, <1>2, <1>3, HandlerFrame, ShutdownFrame DEF Next

\* acquirePrincipal and releasePrincipal move one handler in and out of the
\* set that a principal's count measures.
LEMMA QuotaStep ==
    ASSUME TypeOK, QuotaAccounted, \A h \in Handler : Placed(h), Next
    PROVE  QuotaAccounted'
<1> DEFINE Counted(p) == /\ IsFiniteSet(HeldBy(p))
                         /\ principals[p] = Cardinality(HeldBy(p))
                         /\ principals[p] <= MaxPerPrincipal
<1> DEFINE Room(h) ==
        ~(draining \/ principals[principal[h]] >= MaxPerPrincipal)
<1> SUFFICES ASSUME NEW s \in Subject
             PROVE  Counted(s)'
  BY DEF QuotaAccounted
<1>0. /\ IsFiniteSet(HeldBy(s)) /\ principals[s] = Cardinality(HeldBy(s))
      /\ principals[s] <= MaxPerPrincipal /\ principals[s] \in Nat
  BY DEF QuotaAccounted, TypeOK
<1>1. CASE HeldBy(s)' = HeldBy(s) /\ principals'[s] = principals[s]
  BY <1>0, <1>1
<1>2. ASSUME NEW h \in Handler, Admission(h)
      PROVE  HeldBy(s)' = HeldBy(s) /\ principals'[s] = principals[s]
  <2>1. h \notin heldPrincipal
    BY <1>2 DEF Admission, At, Placed, NoQuota
  <2> QED BY <1>2, <2>1 DEF Admission, HeldBy, TypeOK, gateway
<1>3. ASSUME NEW h \in Handler, AcquirePrincipal(h), Room(h)
      PROVE  Counted(s)'
  <2>1. h \notin heldPrincipal /\ principal[h] \in Subject
    BY <1>3 DEF AcquirePrincipal, At, Placed, NoQuota
  <2>2. /\ principals' = [principals EXCEPT ![principal[h]] = @ + 1]
        /\ heldPrincipal' = heldPrincipal \union {h}
        /\ UNCHANGED principal
        /\ ~(principals[principal[h]] >= MaxPerPrincipal)
    BY <1>3 DEF AcquirePrincipal
  <2>3. CASE principal[h] = s
    <3>1. HeldBy(s)' = HeldBy(s) \union {h} /\ h \notin HeldBy(s)
      BY <2>1, <2>2, <2>3 DEF HeldBy
    <3>2. principals'[s] = principals[s] + 1
      BY <2>2, <2>3 DEF TypeOK
    <3>3. /\ IsFiniteSet(HeldBy(s) \union {h})
          /\ Cardinality(HeldBy(s) \union {h}) = Cardinality(HeldBy(s)) + 1
      BY <1>0, <3>1, FS_AddElement
    <3>4. principals[s] + 1 <= MaxPerPrincipal
      BY <1>0, <2>2, <2>3, Limits
    <3> QED BY <1>0, <3>1, <3>2, <3>3, <3>4
  <2>4. CASE principal[h] # s
    <3>1. HeldBy(s)' = HeldBy(s) BY <2>2, <2>4 DEF HeldBy
    <3> QED BY <1>1, <2>1, <2>2, <2>4, <3>1 DEF TypeOK
  <2> QED BY <2>3, <2>4
<1>4. ASSUME NEW h \in Handler, ReleasePrincipal(h), h \in heldPrincipal
      PROVE  Counted(s)'
  <2>1. /\ principals' = [principals EXCEPT ![principal[h]] =
                          IF @ <= 1 THEN 0 ELSE @ - 1]
        /\ heldPrincipal' = heldPrincipal \ {h}
        /\ UNCHANGED principal
    BY <1>4 DEF ReleasePrincipal
  <2>2. CASE principal[h] = s
    <3>1. HeldBy(s)' = HeldBy(s) \ {h} /\ h \in HeldBy(s)
      BY <1>4, <2>1, <2>2 DEF HeldBy
    <3>2. Cardinality(HeldBy(s)) >= 1
          /\ Cardinality(HeldBy(s) \ {h}) = Cardinality(HeldBy(s)) - 1
          /\ IsFiniteSet(HeldBy(s) \ {h})
      BY <1>0, <3>1, FS_RemoveElement, FS_EmptySet, FS_CardinalityType
    <3>3. principals'[s] = principals[s] - 1
      <4>1. principals'[s] = IF principals[s] <= 1 THEN 0
                                                   ELSE principals[s] - 1
        BY <2>1, <2>2 DEF TypeOK
      <4> QED BY <1>0, <3>2, <4>1
    <3>4. principals[s] - 1 <= MaxPerPrincipal
      BY <1>0, Limits
    <3> QED BY <1>0, <3>1, <3>2, <3>3, <3>4
  <2>3. CASE principal[h] # s
    <3>1. HeldBy(s)' = HeldBy(s) BY <2>1, <2>3 DEF HeldBy
    <3> QED BY <1>1, <2>1, <2>3, <3>1 DEF TypeOK
  <2> QED BY <2>2, <2>3
<1>5. CASE UNCHANGED <<principals, heldPrincipal, principal>>
  BY <1>1, <1>5 DEF HeldBy
<1>6. ASSUME NEW h \in Handler, ServeHTTP(h) \/ Tunnel(h)
      PROVE  \/ Admission(h)
             \/ AcquirePrincipal(h) /\ Room(h)
             \/ ReleasePrincipal(h) /\ h \in heldPrincipal
             \/ UNCHANGED <<principals, heldPrincipal, principal>>
  <2>1. CASE AcquirePrincipal(h) BY <2>1 DEF AcquirePrincipal
  <2>2. CASE ReleasePrincipal(h) BY <2>2 DEF ReleasePrincipal
  <2> QED BY <1>6, <2>1, <2>2, HandlerFrame
<1> QED BY <1>1, <1>2, <1>3, <1>4, <1>5, <1>6, ShutdownFrame DEF Next

\* registerTunnel and beginHandshake refuse once draining.
LEMMA DrainStep ==
    ASSUME TypeOK, Next, draining
    PROVE  /\ draining'
           /\ active' \subseteq active
           /\ handshakes' \subseteq handshakes
BY HandlerFrame, ShutdownFrame DEF Next

\* Whatever leaves one of the maps closes g.changed.
LEMMA WakeupStep ==
    ASSUME TypeOK, NoLostWakeup, Next
    PROVE  NoLostWakeup'
<1>1. CASE \E h \in Handler : ServeHTTP(h) \/ Tunnel(h)
  BY <1>1, HandlerFrame DEF NoLostWakeup, stopping
<1>2. CASE ShutdownOnSignal
  BY <1>2 DEF NoLostWakeup, SignalState, gateway, ShutdownOnSignal, BeginDrain,
      StartWaiting, WaitForDrain, ForceCloseActive, Exit, CancelHandshake,
      ForceClose
<1> QED BY <1>1, <1>2 DEF Next

\* A closed tunnel stays closed.
LEMMA CloserStep ==
    ASSUME TypeOK, Next, NEW k \in Handler, tunnel[k].closer # "none"
    PROVE  tunnel'[k].closer # "none"
<1>1. ASSUME NEW h \in Handler, ServeHTTP(h) \/ Tunnel(h)
      PROVE  tunnel'[k].closer # "none"
  BY <1>1, HandlerFrame DEF Becomes, Keeps, TypeOK
<1>2. ASSUME NEW h \in Handler, ForceClose(h)
      PROVE  tunnel'[k].closer # "none"
  BY <1>2, ForceCloseFacts
<1> QED BY <1>1, <1>2, ShutdownFrame DEF Next

\* Every step preserves what the shutdown phases promise.
LEMMA PhasesStep ==
    ASSUME TypeOK, Phases, Next
    PROVE  Phases'
<1>1. ASSUME NEW h \in Handler, ServeHTTP(h) \/ Tunnel(h)
      PROVE  Phases'
  <2>1. UNCHANGED <<draining, stopping>> BY <1>1, HandlerFrame
  <2>2. draining => /\ active' \subseteq active
                    /\ handshakes' \subseteq handshakes
    BY DrainStep
  <2>3. \A k \in Handler : tunnel[k].closer # "none"
                              => tunnel'[k].closer # "none"
    BY CloserStep
  <2>4. active \subseteq Handler BY DEF TypeOK
  <2> QED BY <2>1, <2>2, <2>3, <2>4 DEF Phases, stopping
<1>2. ASSUME NEW h \in Handler, ForceClose(h)
      PROVE  Phases'
  BY <1>2, ForceCloseFacts DEF ForceClose, gateway, Phases, TypeOK
<1>3. ASSUME NEW h \in Handler, CancelHandshake(h)
      PROVE  Phases'
  BY <1>3 DEF CancelHandshake, gateway, Phases
<1>4. CASE BeginDrain BY <1>4 DEF BeginDrain, Phases
<1>5. CASE StartWaiting BY <1>5 DEF StartWaiting, gateway, Phases
<1>6. CASE WaitForDrain BY <1>6 DEF WaitForDrain, Phases
<1>7. CASE ForceCloseActive BY <1>7 DEF ForceCloseActive, gateway, Phases
<1>8. CASE Exit BY <1>8 DEF Exit, gateway, Phases
<1> QED BY <1>1, <1>2, <1>3, <1>4, <1>5, <1>6, <1>7, <1>8
        DEF Next, ShutdownOnSignal

\* g.active stays finite.
LEMMA FiniteStep ==
    ASSUME TypeOK, IsFiniteSet(active), Next
    PROVE  IsFiniteSet(active')
<1>1. ASSUME NEW h \in Handler, ServeHTTP(h) \/ Tunnel(h)
      PROVE  active' \in {active, active \union {h}, active \ {h}}
  BY <1>1, HandlerFrame
<1> QED BY <1>1, ShutdownFrame, FS_Subset, FS_AddElement DEF Next

\* The counts stay natural numbers.
LEMMA CountsStep ==
    ASSUME TypeOK, Next, SlotsAccounted'
    PROVE  slots' \in Nat /\ principals' \in [Subject -> Nat]
<1>1. slots' \in Nat BY FS_CardinalityType DEF SlotsAccounted
<1>2. ASSUME NEW h \in Handler, ServeHTTP(h) \/ Tunnel(h)
      PROVE  principals' \in [Subject -> Nat]
  <2>0. principals \in [Subject -> Nat] BY DEF TypeOK
  <2>1. CASE AcquirePrincipal(h)
    <3>1. \/ UNCHANGED principals
          \/ principals' = [principals EXCEPT ![principal[h]] = @ + 1]
      BY <2>1 DEF AcquirePrincipal
    <3> QED BY <2>0, <3>1
  <2>2. CASE ReleasePrincipal(h)
    <3>1. \/ UNCHANGED principals
          \/ principals' = [principals EXCEPT
                ![principal[h]] = IF @ <= 1 THEN 0 ELSE @ - 1]
      BY <2>2 DEF ReleasePrincipal
    <3> QED BY <2>0, <3>1
  <2>3. CASE UNCHANGED principals BY <2>0, <2>3
  <2>4. \/ Admission(h) \/ AcquirePrincipal(h) \/ ReleasePrincipal(h)
        \/ UNCHANGED principals
    BY <1>2, HandlerFrame
  <2> QED BY <2>1, <2>2, <2>3, <2>4 DEF Admission, gateway
<1> QED BY <1>1, <1>2, ShutdownFrame DEF Next, TypeOK

\* Every step preserves Placed and Dialled for every handler.
LEMMA HandlersStep ==
    ASSUME TypeOK, \A h \in Handler : Placed(h) /\ Dialled(h), Next
    PROVE  \A k \in Handler : Placed(k)' /\ Dialled(k)'
<1> TAKE k \in Handler
<1>1. CASE Same(k) BY <1>1 DEF Same, Placed, Dialled
<1>2. ASSUME NEW h \in Handler, ServeHTTP(h) \/ Tunnel(h)
      PROVE  Placed(k)' /\ Dialled(k)'
  <2>1. CASE k # h BY <1>1, <1>2, <2>1, OtherHandlers
  <2>2. CASE k = h /\ ServeHTTP(h) BY <2>2, PlacedStep, DialledStep
  <2>3. CASE k = h /\ Tunnel(h)
    <3>1. UNCHANGED <<gateway, pc, heldSlot, heldPrincipal, principal>>
      BY <2>3 DEF Tunnel, locals, CloseLegs, PumpReturns, PingFails,
                  DeadlinePasses, LifetimeTimer
    <3> QED BY <2>3, <3>1, DialledStep DEF Placed, gateway
  <2> QED BY <1>2, <2>1, <2>2, <2>3
<1>3. CASE ShutdownOnSignal
  <2>1. /\ tunnel'[k].upstream = tunnel[k].upstream
        /\ tunnel'[k].client = tunnel[k].client
        /\ tunnel[k].closer # "none" => tunnel'[k].closer # "none"
    BY <1>3, ShutdownFrame, ForceCloseFacts DEF Keeps
  <2> QED BY <1>3, <2>1, ShutdownFrame DEF Placed, Dialled
<1> QED BY <1>2, <1>3 DEF Next

----------------------------------------------------------------------------

\* The process starts in the inductive invariant.
LEMMA InitIInv == Init => IInv
<1> SUFFICES ASSUME Init PROVE IInv OBVIOUS
<1>1. TypeOK
  <2>1. NoTunnel \in TunnelStates BY DEF NoTunnel, TunnelStates
  <2>2. "start" \in Places /\ "upgrade" \in Reasons BY DEF Places, Reasons
  <2>3. metrics \in MetricsStates
    <3>1. metrics = [c \in Counters |-> 0] BY DEF Init
    <3> QED BY <3>1 DEF MetricsStates
  <2>4. /\ pc \in [Handler -> Places] /\ tunnel \in [Handler -> TunnelStates]
        /\ failure \in [Handler -> Reasons \union {""}]
        /\ principal \in [Handler -> Subject \union {""}]
        /\ principals \in [Subject -> Nat]
    BY <2>1, <2>2 DEF Init
  <2> QED BY <2>3, <2>4 DEF Init, TypeOK
<1>2. IsFiniteSet(active) /\ SlotsAccounted
  <2>1. 0 <= MaxConnections BY Limits
  <2> QED BY <2>1, FS_EmptySet DEF Init, SlotsAccounted
<1>3. QuotaAccounted
  <2> SUFFICES ASSUME NEW s \in Subject
               PROVE  /\ IsFiniteSet(HeldBy(s))
                      /\ principals[s] = Cardinality(HeldBy(s))
                      /\ principals[s] <= MaxPerPrincipal
    BY DEF QuotaAccounted
  <2>1. HeldBy(s) = {} /\ principals[s] = 0 BY DEF Init, HeldBy
  <2> QED BY <2>1, FS_EmptySet, Limits
<1>4. \A h \in Handler : Placed(h) /\ Dialled(h)
  BY DEF Init, Placed, Dialled, NoTunnel, NoSlot, NoQuota, NoTunnelYet,
         Registered, Released, Setup, Upgraded, Relaying, Cleanup
<1>5. Phases /\ NoLostWakeup BY DEF Init, Phases, NoLostWakeup
<1> QED BY <1>1, <1>2, <1>3, <1>4, <1>5 DEF IInv

\* Every step preserves the inductive invariant.
LEMMA StepIInv == IInv /\ [Next]_vars => IInv'
<1>1. ASSUME IInv, Next PROVE IInv'
  <2>1. SlotsAccounted' /\ QuotaAccounted'
    BY <1>1, SlotsStep, QuotaStep DEF IInv
  <2>2. TypeOK'
    BY <1>1, <2>1, CountsStep, TypeStep DEF IInv
  <2>3. \A h \in Handler : Placed(h)' /\ Dialled(h)'
    BY <1>1, HandlersStep DEF IInv
  <2>4. Phases' /\ NoLostWakeup' /\ IsFiniteSet(active')
    BY <1>1, PhasesStep, WakeupStep, FiniteStep DEF IInv
  <2> QED BY <2>1, <2>2, <2>3, <2>4 DEF IInv
<1>2. ASSUME IInv, UNCHANGED vars PROVE IInv'
  BY <1>2 DEF IInv, vars, gateway, contexts, locals, stopping, TypeOK,
      SlotsAccounted, QuotaAccounted, HeldBy, Placed, Dialled, Phases,
      NoLostWakeup
<1> QED BY <1>1, <1>2

\* IInv holds in every reachable state, whatever the interleaving of handlers,
\* timers, upstream readers and the shutdown.
THEOREM Invariance == Spec => []IInv
BY InitIInv, StepIInv, PTL DEF Spec

\* TypeOK: the state of main.go's gateway, handlers, tunnels and shutdown is
\* always well typed.
THEOREM TypeCorrect == Spec => []TypeOK
<1>1. IInv => TypeOK BY DEF IInv
<1> QED BY <1>1, Invariance, PTL

\* Slots and quota: at every moment g.slots and g.principals count exactly the
\* handlers that will release them, within max-connections and the quota.
THEOREM Limited == Spec => [](SlotsAccounted /\ QuotaAccounted)
<1>1. IInv => SlotsAccounted /\ QuotaAccounted BY DEF IInv
<1> QED BY <1>1, Invariance, PTL

\* Empty maps leave a handler no place where it could hold anything.
LEMMA QuietIInv == IInv => DrainedIsQuiet
<1> SUFFICES ASSUME IInv, active = {}, handshakes = {}
             PROVE  DrainedIsQuiet
  BY DEF DrainedIsQuiet
<1>1. ASSUME NEW h \in Handler PROVE pc[h] \in {"start", "finish", "done"}
  BY DEF IInv, TypeOK, Placed, Places, Setup, Upgraded, Relaying, Cleanup,
         Registered
<1>2. heldSlot = {} /\ heldPrincipal = {}
  BY <1>1 DEF IInv, TypeOK, Placed, NoSlot, NoQuota
<1>3. slots = 0 BY <1>2, FS_EmptySet DEF IInv, SlotsAccounted
<1>4. ASSUME NEW s \in Subject PROVE principals[s] = 0
  <2>1. HeldBy(s) = {} BY <1>2 DEF HeldBy
  <2> QED BY <2>1, FS_EmptySet DEF IInv, QuotaAccounted
<1>5. ASSUME NEW h \in Handler, tunnel[h].upstream # "none"
      PROVE  tunnel[h].closer # "none"
  BY <1>1, <1>5 DEF IInv, Dialled, NoTunnelYet, Released
<1> QED BY <1>1, <1>3, <1>4, <1>5 DEF DrainedIsQuiet

\* waitForDrain never reports a drain while a handler holds a slot, a quota
\* unit or an unclosed tunnel.
THEOREM Drained == Spec => []DrainedIsQuiet
BY QuietIInv, Invariance, PTL

\* waitForDrain never sleeps through the last change of the two maps.
THEOREM Wakeup == Spec => []NoLostWakeup
<1>1. IInv => NoLostWakeup BY DEF IInv
<1> QED BY <1>1, Invariance, PTL

\* The process does not end with a registered tunnel unclosed.
THEOREM ExitIsClean == Spec => []ExitClosesTunnels
<1>1. IInv => ExitClosesTunnels
  BY DEF IInv, Phases, ExitClosesTunnels
<1> QED BY <1>1, Invariance, PTL

\* After beginDrain the maps of handshakes and tunnels only shrink.
THEOREM Shrinks == Spec => DrainOnlyShrinks
<1>1. ASSUME IInv, [Next]_vars
      PROVE  [draining => /\ draining'
                   /\ active' \subseteq active
                   /\ handshakes' \subseteq handshakes]_vars
  BY <1>1, DrainStep DEF IInv
<1> QED BY <1>1, Invariance, PTL DEF Spec, DrainOnlyShrinks
=============================================================================
