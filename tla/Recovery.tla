------------------------------ MODULE Recovery ------------------------------
(* The durable connection of the browser client, web/src/recovery.ts: it    *)
(* dials a session, dials again when the session is lost or drains, tells   *)
(* its listeners, and parks the calls that wait for a session.              *)
(*                                                                          *)
(* JavaScript runs each job (a timer, a promise reaction, a call of the     *)
(* API) to completion.  A job that emits an event runs the listeners one    *)
(* after the other in the middle of its work, and a listener may call       *)
(* close(), which emits in turn: the jobs in progress are the frames of     *)
(* stack, and no other job runs while there is one.  A reaction that is     *)
(* due has not run yet; reactions may run in any order.                     *)
EXTENDS Integers, Sequences, FiniteSets

CONSTANTS
    Session,         \* sessions that dials may return, each once
    Call,
    Listeners,       \* the number of listeners
    Reentrant,       \* whether listeners may call close()
    none             \* no session

ASSUME RecoveryAssumption ==
    none \notin Session /\ Listeners \in Nat /\ Reentrant \in BOOLEAN

VARIABLES
    state, stopped, session, draining, timer,   \* RecoveringConnection
    dial,            \* the initial microtask or the pending call of dial()
    initial, closed, \* the promises
    seen,            \* the last event each listener received
    stack,
    channel,         \* per session, its H2 connection
    due,             \* reactions to channel.closed and channel.draining
    call, wait       \* per call, where select is, and its wait argument

connection == <<state, stopped, session, draining, timer, dial>>
promises == <<initial, closed>>
calls == <<call, wait>>
vars == <<connection, promises, seen, stack, channel, due, calls>>

States == {"connecting", "open", "transient_failure", "closed"}

Init ==
    /\ state = "connecting" /\ stopped = FALSE /\ session = none
    /\ draining = {} /\ timer = FALSE /\ dial = "queued"
    /\ initial = "pending" /\ closed = "no"
    /\ seen = [l \in 1..Listeners |-> "connecting"]
    /\ stack = <<>>
    /\ channel = [s \in Session |-> "unused"]
    /\ due = {}
    /\ call = [c \in Call |-> "idle"]
    /\ wait = [c \in Call |-> FALSE]

\* No job is in progress.
Idle == stack = <<>>

Live(s) == channel[s] \in {"open", "draining"}

----------------------------------------------------------------------------
(* emit, and the calls parked in select. *)

\* check(): what a call in select finds, given the state and the session.
Check(st, s, w) ==
    CASE st = "closed" -> "rejected"
      [] st # "closed" /\ s # none -> "resolved"
      [] st = "transient_failure" /\ s = none /\ ~w -> "rejected"
      [] OTHER -> "waiting"

\* Mutant: the parked calls are not woken.
EmitToListeners(base, event, continuation, s) ==
    /\ state' = event
    /\ stack' = Append(base, [event |-> event, next |-> 1,
                              then |-> continuation, session |-> s])
    /\ UNCHANGED calls

\* emit: the parked calls check first; then the listeners hear of the event,
\* and the job goes on with its continuation.  base is the stack of the jobs
\* that were interrupted.
Emit(base, event, continuation, s) ==
    /\ state' = event
    /\ call' = [c \in Call |-> IF call[c] = "waiting"
                               THEN Check(event, session', wait[c])
                               ELSE call[c]]
    /\ stack' = Append(base, [event |-> event, next |-> 1,
                              then |-> continuation, session |-> s])
    /\ UNCHANGED wait

\* connect(), up to the call of dial.
Connect == Emit(stack, "connecting", "dial", none)

\* Mutant: the state is not changed.
RetrySilently == Emit(stack, "connecting", "arm", none)

\* retry(), up to the timer.
Retry == Emit(stack, "transient_failure", "arm", none)

\* A promise that settles once.
Settle(value) == initial' = IF initial = "pending" THEN value ELSE initial

\* Mutant: close is not idempotent.
CloseAgain(base) ==
    /\ stopped' = TRUE
    /\ timer' = FALSE
    /\ session' = none
    /\ Settle("failed")
    /\ Emit(base, "closed", "shut", session)
    /\ UNCHANGED <<draining, dial, closed, channel, due>>

\* close(), up to the closing of the channels.
Close(base) ==
    /\ ~stopped /\ stopped' = TRUE
    /\ timer' = FALSE
    /\ session' = none
    /\ Settle("failed")
    /\ Emit(base, "closed", "shut", session)
    /\ UNCHANGED <<draining, dial, closed, channel, due>>

----------------------------------------------------------------------------
(* The job in progress. *)

Top == stack[Len(stack)]
\* Mutant: a listener that throws ends the loop.
NotifiedOne == [stack EXCEPT ![Len(stack)].next = Listeners + 1]

Notified == [stack EXCEPT ![Len(stack)].next = @ + 1]

\* The next listener is called; it may close the connection.
Notify ==
    /\ ~Idle /\ Top.next <= Listeners
    /\ seen' = [seen EXCEPT ![Top.next] = Top.event]
    /\ \/ /\ stack' = Notified
          /\ UNCHANGED <<connection, promises, channel, due, calls>>
       \/ Reentrant /\ Close(Notified)

\* Mutant: the draining sessions are forgotten.
ShutSession(current) ==
    channel' = [s \in Session |-> IF s = current THEN "closed" ELSE channel[s]]

\* close() closes the current and the draining sessions.
Shut(current) ==
    channel' = [s \in Session |-> IF s \in draining \union {current}
                                  THEN "closed" ELSE channel[s]]

\* All listeners were called: the rest of connect, retry or close.
Resume ==
    /\ ~Idle /\ Top.next > Listeners
    /\ stack' = SubSeq(stack, 1, Len(stack) - 1)
    /\ \/ /\ Top.then = "dial"
          /\ dial' = IF stopped THEN dial ELSE "dialing"
          /\ UNCHANGED <<timer, promises, channel>>
       \/ /\ Top.then = "ready" /\ Settle("ready")
          /\ UNCHANGED <<timer, dial, closed, channel>>
       \/ /\ Top.then = "arm" /\ timer' = ~stopped
          /\ UNCHANGED <<dial, promises, channel>>
       \/ /\ Top.then = "shut" /\ closed' = "closing"
          /\ Shut(Top.session)
          /\ UNCHANGED <<timer, dial, initial>>
    /\ UNCHANGED <<state, stopped, session, draining, seen, due, calls>>

----------------------------------------------------------------------------
(* Jobs. *)

\* The constructor's microtask.
Start ==
    /\ Idle /\ dial = "queued" /\ dial' = "none"
    /\ session' = session
    /\ IF stopped THEN UNCHANGED <<state, stack, calls>> ELSE Connect
    /\ UNCHANGED <<stopped, draining, timer, promises, seen, channel, due>>

\* dial() returns a session: too late, or the session of new calls.
Dialled(s) ==
    /\ Idle /\ dial = "dialing" /\ dial' = "none" /\ channel[s] = "unused"
    /\ \/ /\ stopped
          /\ channel' = [channel EXCEPT ![s] = "closed"]
          /\ UNCHANGED <<state, session, stack, calls>>
       \/ /\ ~stopped
          /\ channel' = [channel EXCEPT ![s] = "open"]
          /\ session' = s
          /\ Emit(stack, "open", "ready", none)
    /\ UNCHANGED <<stopped, draining, timer, promises, seen, due>>

\* dial() rejects: a token provider, the handshake, or the abort signal.
DialFails ==
    /\ Idle /\ dial = "dialing" /\ dial' = "none"
    /\ Settle("failed")
    /\ session' = session
    /\ IF stopped THEN UNCHANGED <<state, stack, calls>> ELSE Retry
    /\ UNCHANGED <<stopped, draining, timer, closed, seen, channel, due>>

\* Mutant: a connection is not dialled while sessions drain.
TimerWhenDrained ==
    /\ Idle /\ timer /\ draining = {} /\ timer' = FALSE
    /\ session' = session /\ Connect
    /\ UNCHANGED <<stopped, draining, dial, promises, seen, channel, due>>

\* The reconnection timer.
Timer ==
    /\ Idle /\ timer /\ timer' = FALSE
    /\ session' = session /\ Connect
    /\ UNCHANGED <<stopped, draining, dial, promises, seen, channel, due>>

\* The peer or the transport ends a session, or the peer sends GOAWAY.  The
\* reactions to it run after those that were queued before: a call whose
\* promise is already resolved goes on first.
NoCallResolved == \A c \in Call : call[c] # "resolved"

ChannelCloses(s) ==
    /\ Idle /\ Live(s) /\ NoCallResolved
    /\ channel' = [channel EXCEPT ![s] = "closed"]
    /\ due' = due \union {<<"lost", s>>}
    /\ UNCHANGED <<connection, promises, seen, stack, calls>>

ChannelDrains(s) ==
    /\ Idle /\ channel[s] = "open" /\ NoCallResolved
    /\ channel' = [channel EXCEPT ![s] = "draining"]
    /\ due' = due \union {<<"draining", s>>}
    /\ UNCHANGED <<connection, promises, seen, stack, calls>>

\* Mutant: a session that was replaced already is replaced again.
LostAnySession(s) ==
    /\ Idle /\ <<"lost", s>> \in due
    /\ due' = due \ {<<"lost", s>>}
    /\ draining' = draining \ {s}
    /\ IF stopped THEN UNCHANGED <<session, state, stack, calls>>
       ELSE session' = none /\ Retry
    /\ UNCHANGED <<stopped, timer, dial, promises, seen, channel>>

\* lost(): only the current session is replaced.  The reaction that forgets a
\* draining session once it has closed runs with it.
Lost(s) ==
    /\ Idle /\ <<"lost", s>> \in due
    /\ due' = due \ {<<"lost", s>>}
    /\ draining' = draining \ {s}
    /\ IF stopped \/ session # s THEN UNCHANGED <<session, state, stack, calls>>
       ELSE session' = none /\ Retry
    /\ UNCHANGED <<stopped, timer, dial, promises, seen, channel>>

\* The session drains on its own and a new one is dialled at once.
Draining(s) ==
    /\ Idle /\ <<"draining", s>> \in due
    /\ due' = due \ {<<"draining", s>>}
    /\ IF stopped \/ session # s
       THEN UNCHANGED <<draining, session, state, stack, calls>>
       ELSE draining' = draining \union {s} /\ session' = none /\ Connect
    /\ UNCHANGED <<stopped, timer, dial, promises, seen, channel>>

\* The application closes the connection.
CallClose == Idle /\ Close(stack) /\ UNCHANGED seen

\* Mutant: close waits for the draining sessions to go.
ClosedWhenDrained ==
    /\ Idle /\ closed = "closing" /\ draining = {} /\ closed' = "done"
    /\ UNCHANGED <<connection, initial, seen, stack, channel, due, calls>>

\* All channels are closed: the closed promise resolves.
Closed ==
    /\ Idle /\ closed = "closing" /\ closed' = "done"
    /\ draining' = {}
    /\ UNCHANGED <<state, stopped, session, timer, dial, initial, seen, stack,
                   channel, due, calls>>

\* A call enters select, is cancelled there, or goes on in the reaction to the
\* promise that check resolved.
Select(c) ==
    /\ Idle /\ call[c] = "idle"
    /\ \E w \in BOOLEAN :
          /\ wait' = [wait EXCEPT ![c] = w]
          /\ call' = [call EXCEPT ![c] = Check(state, session, w)]
    /\ UNCHANGED <<connection, promises, seen, stack, channel, due>>

Cancel(c) ==
    /\ Idle /\ call[c] \in {"waiting", "resolved"}
    /\ call' = [call EXCEPT ![c] = "cancelled"]
    /\ UNCHANGED <<connection, promises, seen, stack, channel, due, wait>>

Selected(c) ==
    /\ Idle /\ call[c] = "resolved"
    /\ call' = [call EXCEPT ![c] = IF session = none THEN "unavailable" ELSE "sent"]
    /\ UNCHANGED <<connection, promises, seen, stack, channel, due, wait>>

Next ==
    \/ Notify \/ Resume \/ Start \/ DialFails \/ Timer \/ CallClose \/ Closed
    \/ \E s \in Session : \/ Dialled(s) \/ ChannelCloses(s) \/ ChannelDrains(s)
                          \/ Lost(s) \/ Draining(s)
    \/ \E c \in Call : Select(c) \/ Cancel(c) \/ Selected(c)

Spec == Init /\ [][Next]_vars

\* The event loop runs every job; the dial, which has a timeout, answers.
Fairness ==
    /\ WF_vars(Notify) /\ WF_vars(Resume) /\ WF_vars(Start) /\ WF_vars(Timer)
    /\ WF_vars(Closed)
    /\ WF_vars(DialFails \/ \E s \in Session : Dialled(s))
    /\ \A s \in Session : WF_vars(Lost(s)) /\ WF_vars(Draining(s))

FairSpec == Spec /\ Fairness

----------------------------------------------------------------------------
(* Properties. *)

Frame ==
    [event : States, next : 1..(Listeners + 1),
     then : {"dial", "ready", "arm", "shut"}, session : Session \union {none}]

TypeOK ==
    /\ state \in States /\ stopped \in BOOLEAN /\ session \in Session \union {none}
    /\ draining \subseteq Session /\ timer \in BOOLEAN
    /\ dial \in {"queued", "none", "dialing"}
    /\ initial \in {"pending", "ready", "failed"}
    /\ closed \in {"no", "closing", "done"}
    /\ seen \in [1..Listeners -> States]
    /\ stack \in Seq(Frame) /\ Len(stack) <= 2
    /\ channel \in [Session -> {"unused", "open", "draining", "closed"}]
    /\ due \subseteq {"lost", "draining"} \X Session
    /\ call \in [Call -> {"idle", "waiting", "resolved", "rejected", "cancelled",
                          "unavailable", "sent"}]
    /\ wait \in [Call -> BOOLEAN]

\* Between jobs a connection that is not closed is doing exactly one thing:
\* using a session, dialling the next one, or waiting to dial.  No order of
\* losses, drains and late dials starts two or forgets to start one, and a
\* closed connection does none.
OneConnector ==
    Idle => Cardinality({x \in {"session", "dial", "timer"} :
                            \/ x = "session" /\ session # none
                            \/ x = "dial" /\ dial # "none" /\ ~stopped
                            \/ x = "timer" /\ timer}) = IF stopped THEN 0 ELSE 1

\* The state that listeners and select read is the truth about the session.
StateIsTrue ==
    Idle => /\ state = "open" <=> session # none
            /\ state = "transient_failure" <=> timer
            /\ state = "closed" <=> stopped

\* Every session with a live channel is in use, draining, or about to be seen
\* to drain; a closed connection leaves no channel open, not even one that a
\* late dial returns.
NoOrphanChannel ==
    Idle => \A s \in Session : Live(s) => ~stopped /\ (s = session \/ s \in draining)

\* No call is left parked by a change that it should have seen.
NoForgottenCall ==
    Idle => \A c \in Call : call[c] = "waiting" =>
                Check(state, session, wait[c]) = "waiting"

\* Between jobs the last event that every listener received is the state of
\* a connection that is not closed.
ListenersUpToDate ==
    Idle /\ ~stopped => \A l \in 1..Listeners : seen[l] = state

\* close() always settles: the closed promise resolves.
CloseCompletes == stopped ~> closed = "done"

\* A lost connection dials again, unless it is closed.
Reconnects == state = "transient_failure" ~> dial = "dialing" \/ stopped

\* client.ts: waitForReady means "wait for connectivity, respecting
\* cancellation and deadline": a call that waits on an open connection is not
\* told that the channel is unavailable.
WaitForReadyWaits ==
    \A c \in Call : call[c] = "unavailable" /\ wait[c] => stopped
=============================================================================
