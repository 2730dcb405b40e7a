------------------------------ MODULE Gateway ------------------------------
(***************************************************************************)
(* The Go bridge process (cmd/bridge/main.go): every /tunnel request runs  *)
(* the handler ServeHTTP, which takes an admission slot and a principal    *)
(* quota unit, dials the backend, upgrades the client connection and       *)
(* relays until one leg ends.  Beside the handlers run the lifetime timer, *)
(* the upstream reader and the ping goroutine of each tunnel, and          *)
(* shutdownOnSignal, which drains the process or forces it down.           *)
(*                                                                         *)
(* One element of Handler is one request: its handshake entry, its tunnel  *)
(* and its goroutines carry the same name, and membership in g.handshakes  *)
(* and g.active stands for the flags handshakePending and activeRegistered *)
(* that the handler keeps beside them.  A step is what a goroutine does    *)
(* between two accesses to state another goroutine can see.  Bytes,        *)
(* headers and URLs are abstracted to the decision they lead to, and time  *)
(* to the event that a deadline has passed.                                *)
(***************************************************************************)
EXTENDS Integers, FiniteSets

CONSTANTS
    Handler,          \* requests to /tunnel
    Subject,          \* principals a request can be admitted as
    UseAdmission,     \* whether an admission URL is configured
    MaxConnections,   \* config.maxConnections, the capacity of g.slots
    MaxPerPrincipal   \* config.maxPerPrincipal

ASSUME GatewayAssumption ==
    /\ "" \notin Subject
    /\ UseAdmission \in BOOLEAN
    /\ MaxConnections \in Nat
    /\ MaxPerPrincipal \in Nat \ {0}

\* failureReasons.  "request" stands for handshake, origin, profile and the
\* auth of a bad credential, "destination" for destination, destination_denied
\* and policy: each is a decision about the request alone.
Reasons == {"request", "capacity", "destination", "auth", "admission", "dial",
            "upgrade", "shutdown"}

\* bridgeMetrics: the counters of METRICS.md, one per failure reason among
\* them.
Counters == {"attempts", "opened", "closed", "established", "expirations",
             "forcedClosures"} \union Reasons

\* The places of ServeHTTP at which another goroutine may run.
Setup    == {"checks", "slot", "destination", "draining1", "admission",
             "draining2", "principal", "dial", "register", "deadline1",
             "draining3", "hijack", "setClient", "deadline2", "complete"}
Upgraded == {"arm", "deadline3", "flush", "deadline4"}
Relaying == {"relay", "relayClose", "awaitPump"}
Cleanup  == {"settle", "close", "releasePrincipal", "releaseSlot",
             "unregister", "finish"}
Places   == {"start", "done"} \union Setup \union Upgraded \union Relaying
            \union Cleanup

\* Who called activeTunnel.close first.
Closers == {"handler", "timer", "pump", "ping", "force"}

VARIABLES
    \* the gateway struct; signalled: g.changed was closed since last read
    draining, slots, principals, handshakes, active, signalled,
    \* each ServeHTTP: its place, its local variables, its two contexts
    pc, failure, heldSlot, heldPrincipal, principal, cancelled, expired,
    \* each activeTunnel with its timer and its upstream reader
    tunnel,
    \* shutdownOnSignal, forceCloseActive, waitForDrain
    shutdown, toCancel, forced, toClose, waiter,
    metrics

gateway  == <<draining, slots, principals, handshakes, active, signalled>>
contexts == <<cancelled, expired>>
locals   == <<heldSlot, heldPrincipal, principal, contexts>>
stopping == <<shutdown, toCancel, forced, toClose, waiter>>
vars     == <<gateway, pc, failure, locals, tunnel, stopping, metrics>>

NoTunnel == [upstream |-> "none", client |-> "none", closer |-> "none",
             timer |-> "off", pump |-> "off"]

Init ==
    /\ draining = FALSE /\ slots = 0 /\ principals = [s \in Subject |-> 0]
    /\ handshakes = {} /\ active = {} /\ signalled = FALSE
    /\ pc = [h \in Handler |-> "start"]
    /\ failure = [h \in Handler |-> "upgrade"]
    /\ heldSlot = {} /\ heldPrincipal = {}
    /\ principal = [h \in Handler |-> ""]
    /\ cancelled = {} /\ expired = {}
    /\ tunnel = [h \in Handler |-> NoTunnel]
    /\ shutdown = "serving" /\ toCancel = {} /\ forced = {} /\ toClose = {}
    /\ waiter = "off"
    /\ metrics = [c \in Counters |-> 0]

----------------------------------------------------------------------------
At(h, place) == shutdown # "exit" /\ pc[h] = place

Goto(h, place) ==
    /\ pc' = [pc EXCEPT ![h] = place]
    /\ UNCHANGED failure

\* Mutant of Reject: unwinds past metrics.fail.
RejectUncounted(h, reason) ==
    pc' = [pc EXCEPT ![h] = "close"] /\ UNCHANGED failure

\* reject(...) and the bare returns: the handler unwinds with a reason.
Reject(h, reason) ==
    /\ failure' = [failure EXCEPT ![h] = reason]
    /\ pc' = [pc EXCEPT ![h] = "settle"]

Add(counters, name, n) == [counters EXCEPT ![name] = @ + n]

\* A leg that the tunnel owns and nobody has closed yet.
LegOpen(h) == "open" \in {tunnel[h].upstream, tunnel[h].client}

Becomes(h, t) == tunnel' = [tunnel EXCEPT ![h] = t]

\* Mutant of Closed: every caller believes it closed the tunnel first.
ClosedAgain(t, who) == [t EXCEPT !.closer = who]

\* activeTunnel.close: only the first caller wins.  The winner closes both
\* sockets outside the lock (CloseLegs) before it Returns.
Closed(t, who) == IF t.closer = "none" THEN [t EXCEPT !.closer = who] ELSE t
Close(h, who) == Becomes(h, Closed(tunnel[h], who))
Returned(h, who) == tunnel[h].closer = who => ~LegOpen(h)

\* Mutant of SignalState: g.changed is not closed.
SignalNobody == UNCHANGED signalled

\* signalStateLocked wakes whoever waits on g.changed.
SignalState == signalled' = TRUE

----------------------------------------------------------------------------
(* ServeHTTP, up to the upgrade.                                           *)

\* metrics.attempts and beginHandshake.
BeginHandshake(h) ==
    /\ At(h, "start")
    /\ IF draining
       THEN /\ Goto(h, "done")
            /\ metrics' = Add(Add(metrics, "attempts", 1), "shutdown", 1)
            /\ UNCHANGED <<handshakes, signalled>>
       ELSE /\ Goto(h, "checks")
            /\ metrics' = Add(metrics, "attempts", 1)
            /\ handshakes' = handshakes \union {h}
            /\ SignalState
    /\ UNCHANGED <<draining, slots, principals, active, locals, tunnel,
                   stopping>>

\* Upgrade headers, key, origin and credential; then, with the slot, the
\* query, the policy file and the allowlist: decisions about the request.
CheckAt(h, here, next, reason) ==
    /\ At(h, here)
    /\ Goto(h, next) \/ Reject(h, reason)
    /\ UNCHANGED <<gateway, locals, tunnel, stopping, metrics>>
CheckRequest(h) ==
    \/ CheckAt(h, "checks", "slot", "request")
    \/ CheckAt(h, "destination", "draining1", "destination")

\* The non-blocking send on g.slots.
TakeSlot(h) ==
    /\ At(h, "slot")
    /\ IF slots < MaxConnections
       THEN /\ Goto(h, "destination")
            /\ slots' = slots + 1
            /\ heldSlot' = heldSlot \union {h}
       ELSE Reject(h, "capacity") /\ UNCHANGED <<slots, heldSlot>>
    /\ UNCHANGED <<draining, principals, handshakes, active, signalled,
                   heldPrincipal, principal, contexts, tunnel, stopping,
                   metrics>>

\* The three reads of isDraining on the way to the upgrade.
DrainingAt(h, here, next) ==
    /\ At(h, here)
    /\ IF draining THEN Reject(h, "shutdown") ELSE Goto(h, next)
    /\ UNCHANGED <<gateway, locals, tunnel, stopping, metrics>>
IsDraining(h) ==
    \/ DrainingAt(h, "draining1", "admission")
    \/ DrainingAt(h, "draining2", "principal")
    \/ DrainingAt(h, "draining3", "hijack")

\* authorizeTarget under the handshake context: a grant for some subject, a
\* denial, or no usable answer; a cancelled context gives no answer.
Admission(h) ==
    /\ At(h, "admission")
    /\ \/ /\ UseAdmission => h \notin cancelled
          /\ \E s \in Subject : principal' = [principal EXCEPT ![h] = s]
          /\ Goto(h, "draining2")
       \/ /\ UseAdmission
          /\ \/ Reject(h, "admission")
             \/ h \notin cancelled /\ Reject(h, "auth")
          /\ UNCHANGED principal
    /\ UNCHANGED <<gateway, heldSlot, heldPrincipal, contexts, tunnel,
                   stopping, metrics>>

\* Mutant of AcquirePrincipal: charges without comparing with the quota.
AcquireUnbounded(h) ==
    /\ At(h, "principal")
    /\ Goto(h, "dial")
    /\ principals' = [principals EXCEPT ![principal[h]] = @ + 1]
    /\ heldPrincipal' = heldPrincipal \union {h}
    /\ UNCHANGED <<draining, slots, handshakes, active, signalled, heldSlot,
                   principal, contexts, tunnel, stopping, metrics>>

AcquirePrincipal(h) ==
    /\ At(h, "principal")
    /\ IF draining \/ principals[principal[h]] >= MaxPerPrincipal
       THEN Reject(h, "capacity") /\ UNCHANGED <<principals, heldPrincipal>>
       ELSE /\ Goto(h, "dial")
            /\ principals' = [principals EXCEPT ![principal[h]] = @ + 1]
            /\ heldPrincipal' = heldPrincipal \union {h}
    /\ UNCHANGED <<draining, slots, handshakes, active, signalled, heldSlot,
                   principal, contexts, tunnel, stopping, metrics>>

\* DialContext under the handshake context and the tunnel deadline.
Dial(h) ==
    /\ At(h, "dial")
    /\ \/ Reject(h, "dial") /\ UNCHANGED tunnel
       \/ /\ h \notin cancelled \union expired
          /\ Becomes(h, [tunnel[h] EXCEPT !.upstream = "open"])
          /\ Goto(h, "register")
    /\ UNCHANGED <<gateway, locals, stopping, metrics>>

\* Mutants of RegisterTunnel: registers while draining, or not at all.
RegisterLate(h) ==
    /\ At(h, "register")
    /\ Goto(h, "deadline1")
    /\ active' = active \union {h}
    /\ SignalState
    /\ UNCHANGED <<draining, slots, principals, handshakes, locals, tunnel,
                   stopping, metrics>>
RegisterNothing(h) ==
    /\ At(h, "register")
    /\ Goto(h, "deadline1")
    /\ UNCHANGED <<gateway, locals, tunnel, stopping, metrics>>

RegisterTunnel(h) ==
    /\ At(h, "register")
    /\ IF draining
       THEN Reject(h, "shutdown") /\ UNCHANGED <<active, signalled>>
       ELSE /\ Goto(h, "deadline1")
            /\ active' = active \union {h}
            /\ SignalState
    /\ UNCHANGED <<draining, slots, principals, handshakes, locals, tunnel,
                   stopping, metrics>>

\* Comparisons of the clock with tunnelDeadline.  After the hijack an expired
\* tunnel returns without a response, with the default reason.
DeadlineAt(h, here, next, reason) ==
    /\ At(h, here)
    /\ IF h \in expired THEN Reject(h, reason) ELSE Goto(h, next)
    /\ UNCHANGED <<gateway, locals, tunnel, stopping, metrics>>
CheckDeadline(h) ==
    \/ DeadlineAt(h, "deadline1", "draining3", "auth")
    \/ DeadlineAt(h, "deadline2", "complete", "upgrade")
    \/ DeadlineAt(h, "deadline3", "flush", "upgrade")

\* The handler takes the client socket from the HTTP server.
Hijack(h) ==
    /\ At(h, "hijack")
    /\ \/ Reject(h, "upgrade") /\ UNCHANGED tunnel
       \/ /\ Becomes(h, [tunnel[h] EXCEPT !.client = "hijacked"])
          /\ Goto(h, "setClient")
    /\ UNCHANGED <<gateway, locals, stopping, metrics>>

\* setClient hands the socket to the tunnel unless it was closed meanwhile.
SetClient(h) ==
    /\ At(h, "setClient")
    /\ IF tunnel[h].closer # "none"
       THEN /\ Becomes(h, [tunnel[h] EXCEPT !.client = "closed"])
            /\ Reject(h, "shutdown")
       ELSE /\ Becomes(h, [tunnel[h] EXCEPT !.client = "open"])
            /\ Goto(h, "deadline2")
    /\ UNCHANGED <<gateway, locals, stopping, metrics>>

\* From here the tunnel alone keeps the drain waiting.
CompleteHandshake(h) ==
    /\ At(h, "complete")
    /\ IF draining
       THEN /\ Reject(h, "shutdown")
            /\ UNCHANGED <<handshakes, signalled, cancelled>>
       ELSE /\ Goto(h, "arm")
            /\ handshakes' = handshakes \ {h}
            /\ cancelled' = cancelled \union {h}
            /\ SignalState
    /\ UNCHANGED <<draining, slots, principals, active, heldSlot,
                   heldPrincipal, principal, expired, tunnel, stopping,
                   metrics>>

----------------------------------------------------------------------------
(* ServeHTTP, from the upgrade to the end of the relay.                    *)

\* Mutant of ArmTimer: no timer.
ArmNothing(h) ==
    /\ At(h, "arm")
    /\ Goto(h, "deadline3")
    /\ UNCHANGED <<gateway, locals, tunnel, stopping, metrics>>

\* time.AfterFunc(time.Until(tunnelDeadline), ...).
ArmTimer(h) ==
    /\ At(h, "arm")
    /\ Becomes(h, [tunnel[h] EXCEPT !.timer = "armed"])
    /\ Goto(h, "deadline3")
    /\ UNCHANGED <<gateway, locals, stopping, metrics>>

\* The 101 response.  The peer or a closed leg can make the flush fail.
Flush(h) ==
    /\ At(h, "flush")
    /\ \/ Reject(h, "upgrade")
       \/ tunnel[h].client = "open" /\ Goto(h, "deadline4")
    /\ UNCHANGED <<gateway, locals, tunnel, stopping, metrics>>

\* The last look at the clock; then the tunnel counts as opened and its
\* ping and upstream-reader goroutines start.
Establish(h) ==
    /\ At(h, "deadline4")
    /\ IF h \in expired
       THEN Reject(h, "upgrade") /\ UNCHANGED <<tunnel, metrics>>
       ELSE /\ failure' = [failure EXCEPT ![h] = ""]
            /\ pc' = [pc EXCEPT ![h] = "relay"]
            /\ metrics' = Add(Add(metrics, "opened", 1), "established", 1)
            /\ Becomes(h, [tunnel[h] EXCEPT !.pump = "running"])
    /\ UNCHANGED <<gateway, locals, stopping>>

\* relay returns: the peer closed, a frame was invalid, or a leg failed.
RelayReturns(h) ==
    /\ At(h, "relay")
    /\ Goto(h, "relayClose")
    /\ UNCHANGED <<gateway, locals, tunnel, stopping, metrics>>

\* tunnel.close() after the relay and in the deferred clean-up, where a
\* handler that never dialled has no tunnel.
HandlerClose(h) ==
    /\ \/ At(h, "relayClose") /\ Goto(h, "awaitPump")
       \/ At(h, "close") /\ Goto(h, "releasePrincipal")
    /\ IF tunnel[h].upstream # "none" THEN Close(h, "handler")
                                      ELSE UNCHANGED tunnel
    /\ UNCHANGED <<gateway, locals, stopping, metrics>>

\* <-finished.
AwaitPump(h) ==
    /\ At(h, "awaitPump")
    /\ Returned(h, "handler")
    /\ tunnel[h].pump = "finished"
    /\ Goto(h, "settle")
    /\ UNCHANGED <<gateway, locals, tunnel, stopping, metrics>>

----------------------------------------------------------------------------
(* ServeHTTP's deferred calls, last deferred first.                        *)

\* established and closed counters, lifetimeTimer.Stop, metrics.fail.
Stopped(t) == IF t.timer = "armed" THEN [t EXCEPT !.timer = "off"] ELSE t
Settle(h) ==
    /\ At(h, "settle")
    /\ metrics' = IF failure[h] = ""
                  THEN Add(Add(metrics, "established", -1), "closed", 1)
                  ELSE Add(metrics, failure[h], 1)
    /\ Becomes(h, Stopped(tunnel[h]))
    /\ Goto(h, "close")
    /\ UNCHANGED <<gateway, locals, stopping>>

\* The map entry goes away with the principal's last unit.
ReleasePrincipal(h) ==
    /\ At(h, "releasePrincipal")
    /\ Returned(h, "handler")
    /\ Goto(h, "releaseSlot")
    /\ IF h \in heldPrincipal
       THEN principals' = [principals EXCEPT
                ![principal[h]] = IF @ <= 1 THEN 0 ELSE @ - 1]
       ELSE UNCHANGED principals
    /\ heldPrincipal' = heldPrincipal \ {h}
    /\ UNCHANGED <<draining, slots, handshakes, active, signalled, heldSlot,
                   principal, contexts, tunnel, stopping, metrics>>

\* Mutants of ReleaseSlot: keeps the slot, or gives back one never taken.
SlotLeaked(h) ==
    /\ At(h, "releaseSlot")
    /\ Goto(h, "unregister")
    /\ heldSlot' = heldSlot \ {h}
    /\ UNCHANGED <<gateway, heldPrincipal, principal, contexts, tunnel,
                   stopping, metrics>>
SlotReturnedTwice(h) ==
    /\ At(h, "releaseSlot")
    /\ Goto(h, "unregister")
    /\ slots' = slots - 1
    /\ UNCHANGED <<draining, principals, handshakes, active, signalled, locals,
                   tunnel, stopping, metrics>>

\* <-g.slots.
ReleaseSlot(h) ==
    /\ At(h, "releaseSlot")
    /\ Goto(h, "unregister")
    /\ slots' = IF h \in heldSlot THEN slots - 1 ELSE slots
    /\ heldSlot' = heldSlot \ {h}
    /\ UNCHANGED <<draining, principals, handshakes, active, signalled,
                   heldPrincipal, principal, contexts, tunnel, stopping,
                   metrics>>

UnregisterTunnel(h) ==
    /\ At(h, "unregister")
    /\ Goto(h, "finish")
    /\ active' = active \ {h}
    /\ IF h \in active THEN SignalState ELSE UNCHANGED signalled
    /\ UNCHANGED <<draining, slots, principals, handshakes, locals, tunnel,
                   stopping, metrics>>

FinishHandshake(h) ==
    /\ At(h, "finish")
    /\ Goto(h, "done")
    /\ handshakes' = handshakes \ {h}
    /\ IF h \in handshakes
       THEN SignalState /\ cancelled' = cancelled \union {h}
       ELSE UNCHANGED <<signalled, cancelled>>
    /\ UNCHANGED <<draining, slots, principals, active, heldSlot,
                   heldPrincipal, principal, expired, tunnel, stopping,
                   metrics>>

----------------------------------------------------------------------------
(* The other goroutines of a tunnel.                                       *)

\* Mutant of LegsClosed: forgets the client.
UpstreamClosed(t) == [t EXCEPT !.upstream = "closed"]

\* The winner of activeTunnel.close closes the sockets the tunnel owns.
LegsClosed(t) ==
    [t EXCEPT !.upstream = "closed",
              !.client = IF @ = "open" THEN "closed" ELSE @]
CloseLegs(h) ==
    /\ shutdown # "exit"
    /\ tunnel[h].closer # "none"
    /\ LegOpen(h)
    /\ Becomes(h, LegsClosed(tunnel[h]))
    /\ UNCHANGED <<gateway, pc, failure, locals, stopping, metrics>>

\* The upstream reader returns: it closes the tunnel, then finished.
PumpReturns(h) ==
    /\ shutdown # "exit"
    /\ \/ /\ tunnel[h].pump = "running"
          /\ Becomes(h, [Closed(tunnel[h], "pump") EXCEPT !.pump = "closing"])
       \/ /\ tunnel[h].pump = "closing"
          /\ Returned(h, "pump")
          /\ Becomes(h, [tunnel[h] EXCEPT !.pump = "finished"])
    /\ UNCHANGED <<gateway, pc, failure, locals, stopping, metrics>>

\* A ping that cannot be written closes the tunnel.
PingFails(h) ==
    /\ shutdown # "exit"
    /\ pc[h] \in {"relay", "relayClose"}
    /\ tunnel[h].closer = "none"
    /\ Close(h, "ping")
    /\ UNCHANGED <<gateway, pc, failure, locals, stopping, metrics>>

\* The clock reaches tunnelDeadline.
DeadlinePasses(h) ==
    /\ shutdown # "exit"
    /\ h \in heldPrincipal \ expired
    /\ expired' = expired \union {h}
    /\ UNCHANGED <<gateway, pc, failure, heldSlot, heldPrincipal, principal,
                   cancelled, tunnel, stopping, metrics>>

\* The lifetime timer: it starts unless stopped first, closes the tunnel,
\* and counts an expiration only when its close was the first.
LifetimeTimer(h) ==
    /\ shutdown # "exit"
    /\ \/ /\ tunnel[h].timer = "armed"
          /\ h \in expired
          /\ Becomes(h, [tunnel[h] EXCEPT !.timer = "running"])
          /\ UNCHANGED metrics
       \/ /\ tunnel[h].timer = "running"
          /\ Becomes(h, [Closed(tunnel[h], "timer") EXCEPT
                !.timer = IF tunnel[h].closer = "none" THEN "closing"
                                                       ELSE "off"])
          /\ UNCHANGED metrics
       \/ /\ tunnel[h].timer = "closing"
          /\ Returned(h, "timer")
          /\ Becomes(h, [tunnel[h] EXCEPT !.timer = "off"])
          /\ metrics' = Add(metrics, "expirations", 1)
    /\ UNCHANGED <<gateway, pc, failure, locals, stopping>>

----------------------------------------------------------------------------
(* shutdownOnSignal, beginDrain, waitForDrain, forceCloseActive.           *)

\* The first signal: beginDrain collects the handshakes to cancel.
BeginDrain ==
    /\ shutdown = "serving"
    /\ shutdown' = "cancelling"
    /\ draining' = TRUE
    /\ toCancel' = handshakes
    /\ SignalState
    /\ UNCHANGED <<slots, principals, handshakes, active, pc, failure, locals,
                   tunnel, forced, toClose, waiter, metrics>>

\* beginDrain cancels them one by one, outside the lock.
CancelHandshake(h) ==
    /\ shutdown = "cancelling"
    /\ h \in toCancel
    /\ toCancel' = toCancel \ {h}
    /\ cancelled' = cancelled \union {h}
    /\ UNCHANGED <<gateway, pc, failure, heldSlot, heldPrincipal, principal,
                   expired, tunnel, shutdown, forced, toClose, waiter, metrics>>

\* shutdownOnSignal starts waitForDrain and selects.
StartWaiting ==
    /\ shutdown = "cancelling"
    /\ toCancel = {}
    /\ shutdown' = "select"
    /\ waiter' = "check"
    /\ UNCHANGED <<gateway, pc, failure, locals, tunnel, toCancel, forced,
                   toClose, metrics>>

\* One turn of waitForDrain: under the lock it reads both maps and g.changed;
\* then it waits for the channel it has read.
WaitForDrain ==
    /\ shutdown = "select"
    /\ \/ /\ waiter = "check"
          /\ IF active = {} /\ handshakes = {}
             THEN waiter' = "drained" /\ UNCHANGED signalled
             ELSE waiter' = "parked" /\ signalled' = FALSE
       \/ /\ waiter = "parked"
          /\ signalled
          /\ waiter' = "check"
          /\ UNCHANGED signalled
    /\ UNCHANGED <<draining, slots, principals, handshakes, active, pc,
                   failure, locals, tunnel, shutdown, toCancel, forced,
                   toClose, metrics>>

\* The grace deadline or a second signal: forceCloseActive marks and counts
\* every registered tunnel under the lock.
ForceCloseActive ==
    /\ shutdown = "select"
    /\ shutdown' = "forcing"
    /\ toClose' = active \ forced
    /\ forced' = forced \union active
    /\ metrics' = Add(metrics, "forcedClosures", Cardinality(active \ forced))
    /\ UNCHANGED <<gateway, pc, failure, locals, tunnel, toCancel, waiter>>

\* It then closes them one after the other, outside the lock.
ForceClose(h) ==
    /\ shutdown = "forcing"
    /\ h \in toClose
    /\ \A other \in Handler : Returned(other, "force")
    /\ Close(h, "force")
    /\ toClose' = toClose \ {h}
    /\ UNCHANGED <<gateway, pc, failure, locals, shutdown, toCancel, forced,
                   waiter, metrics>>

\* Mutant of Exit: main returns while forceCloseActive is still closing.
ExitEarly ==
    /\ shutdown \in {"select", "forcing"}
    /\ shutdown = "select" => waiter = "drained"
    /\ shutdown' = "exit"
    /\ UNCHANGED <<gateway, pc, failure, locals, tunnel, toCancel, forced,
                   toClose, waiter, metrics>>

\* The drain completed before the grace deadline, or every tunnel has been
\* closed: the HTTP servers are shut down and main returns.
Exit ==
    /\ \/ shutdown = "select" /\ waiter = "drained"
       \/ /\ shutdown = "forcing"
          /\ toClose = {}
          /\ \A h \in Handler : Returned(h, "force")
    /\ shutdown' = "exit"
    /\ UNCHANGED <<gateway, pc, failure, locals, tunnel, toCancel, forced,
                   toClose, waiter, metrics>>

----------------------------------------------------------------------------
ServeHTTP(h) ==
    \/ BeginHandshake(h) \/ CheckRequest(h) \/ TakeSlot(h) \/ IsDraining(h)
    \/ Admission(h) \/ AcquirePrincipal(h) \/ Dial(h)
    \/ RegisterTunnel(h) \/ CheckDeadline(h) \/ Hijack(h) \/ SetClient(h)
    \/ CompleteHandshake(h) \/ ArmTimer(h) \/ Flush(h) \/ Establish(h)
    \/ RelayReturns(h) \/ HandlerClose(h) \/ AwaitPump(h) \/ Settle(h)
    \/ ReleasePrincipal(h) \/ ReleaseSlot(h)
    \/ UnregisterTunnel(h) \/ FinishHandshake(h)

Tunnel(h) ==
    \/ CloseLegs(h) \/ PumpReturns(h) \/ PingFails(h)
    \/ DeadlinePasses(h) \/ LifetimeTimer(h)

ShutdownOnSignal ==
    \/ BeginDrain \/ StartWaiting \/ WaitForDrain
    \/ ForceCloseActive \/ Exit
    \/ \E h \in Handler : CancelHandshake(h) \/ ForceClose(h)

Next ==
    \/ \E h \in Handler : ServeHTTP(h) \/ Tunnel(h)
    \/ ShutdownOnSignal

Spec == Init /\ [][Next]_vars

(***************************************************************************)
(* Fairness.  Goroutines are scheduled, admission calls and dials return   *)
(* within their timeouts, clocks advance and timers fire.  A request need  *)
(* never arrive, a signal need never come, a grace period may be cut short *)
(* by nothing else than the drain, and a relay whose two legs stay open    *)
(* need never return.                                                      *)
(***************************************************************************)
HandlerProgress(h) ==
    ServeHTTP(h) /\ pc[h] # "start" /\ (pc[h] = "relay" => ~LegOpen(h))

PumpProgress(h) ==
    PumpReturns(h) /\ (tunnel[h].pump = "running" => ~LegOpen(h))

DrainProgress ==
    \/ StartWaiting \/ WaitForDrain \/ Exit
    \/ \E h \in Handler : CancelHandshake(h) \/ ForceClose(h)

Fairness ==
    /\ \A h \in Handler :
          /\ WF_vars(HandlerProgress(h))
          /\ WF_vars(PumpProgress(h))
          /\ WF_vars(CloseLegs(h))
          /\ WF_vars(DeadlinePasses(h))
          /\ WF_vars(LifetimeTimer(h))
    /\ WF_vars(DrainProgress)

FairSpec == Spec /\ Fairness

----------------------------------------------------------------------------
(* Correctness.                                                            *)

TunnelStates ==
    [upstream : {"none", "open", "closed"},
     client : {"none", "hijacked", "open", "closed"},
     closer : {"none"} \union Closers,
     timer : {"off", "armed", "running", "closing"},
     pump : {"off", "running", "closing", "finished"}]

MetricsStates == [Counters -> Int]

\* Type invariant of the gateway, handler, tunnel and shutdown state.
TypeOK ==
    /\ draining \in BOOLEAN /\ signalled \in BOOLEAN
    /\ slots \in Nat /\ principals \in [Subject -> Nat]
    /\ handshakes \subseteq Handler /\ active \subseteq Handler
    /\ pc \in [Handler -> Places]
    /\ failure \in [Handler -> Reasons \union {""}]
    /\ heldSlot \subseteq Handler /\ heldPrincipal \subseteq Handler
    /\ principal \in [Handler -> Subject \union {""}]
    /\ cancelled \subseteq Handler /\ expired \subseteq Handler
    /\ tunnel \in [Handler -> TunnelStates]
    /\ shutdown \in {"serving", "cancelling", "select", "forcing", "exit"}
    /\ toCancel \subseteq Handler
    /\ forced \subseteq Handler /\ toClose \subseteq Handler
    /\ waiter \in {"off", "check", "parked", "drained"}
    /\ metrics \in MetricsStates

\* Admission slots: the slots in use are exactly those of handlers that will
\* give them back, and never more than max-connections.
SlotsAccounted ==
    /\ IsFiniteSet(heldSlot)
    /\ slots = Cardinality(heldSlot)
    /\ slots <= MaxConnections

\* Principal quota: a principal's count is the number of its handlers between
\* acquirePrincipal and releasePrincipal, and never exceeds the quota.
HeldBy(s) == {h \in heldPrincipal : principal[h] = s}
QuotaAccounted ==
    \A s \in Subject :
        /\ IsFiniteSet(HeldBy(s))
        /\ principals[s] = Cardinality(HeldBy(s))
        /\ principals[s] <= MaxPerPrincipal

\* A drained gateway is quiet.  Whenever waitForDrain can see both maps empty,
\* no handler holds a slot or a quota unit, none is past its handshake, and
\* every tunnel ever dialled has been closed: the hand-over from handshakes to
\* active in completeHandshake leaves no gap, and the deferred clean-up
\* releases everything before it leaves the maps.
DrainedIsQuiet ==
    active = {} /\ handshakes = {} =>
        /\ slots = 0
        /\ \A s \in Subject : principals[s] = 0
        /\ \A h \in Handler : /\ pc[h] \in {"start", "finish", "done"}
                              /\ tunnel[h].upstream # "none"
                                    => tunnel[h].closer # "none"

\* No lost wake-up: while waitForDrain sleeps on a channel that has not been
\* closed, there is still something to wait for.
NoLostWakeup ==
    waiter = "parked" /\ ~signalled => active \union handshakes # {}

\* A process that ends after the grace deadline or a second signal has closed
\* every tunnel still registered, and one that ends gracefully has none left.
ExitClosesTunnels ==
    shutdown = "exit" =>
        /\ \A h \in active : tunnel[h].closer # "none"
        /\ waiter = "drained" => active = {}

\* Once draining, no tunnel and no handshake joins: both maps only shrink.
DrainOnlyShrinks ==
    [][draining => /\ draining'
                   /\ active' \subseteq active
                   /\ handshakes' \subseteq handshakes]_vars

\* Both sockets of a tunnel are closed once anyone closes it, even when the
\* drain or the timer closes it between the hijack and setClient.
NoLegLeak ==
    \A h \in Handler :
        [](tunnel[h].closer # "none" =>
              <>(\/ shutdown = "exit"
                 \/ ~LegOpen(h) /\ tunnel[h].client # "hijacked"))

\* A tunnel does not outlive its deadline: the handler of an expired tunnel
\* finishes and gives back its slot and quota.
ExpiredTunnelEnds ==
    \A h \in Handler :
        h \in expired ~> (pc[h] = "done" \/ shutdown = "exit")

\* A drain that has emptied both maps is noticed without the help of the
\* grace deadline.
DrainIsNoticed ==
    (shutdown = "select" /\ active = {} /\ handshakes = {})
        ~> shutdown \in {"forcing", "exit"}
=============================================================================
