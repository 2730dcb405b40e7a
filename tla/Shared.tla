------------------------------- MODULE Shared -------------------------------
(* SharedBridgeConnection, web/src/client.ts: users acquire and release     *)
(* leases of one connection, which the first acquisition opens and the last *)
(* release closes.  A connection is seen here as its initial promise and    *)
(* whether close() was called on it (module Recovery has the rest).         *)
EXTENDS Integers, FiniteSets

CONSTANTS
    User,            \* each acquires once
    Connection,      \* the connections, in the order they are created
    none

ASSUME SharedAssumption == none \notin Connection /\ IsFiniteSet(User)

VARIABLES
    entry, disposed,     \* SharedBridgeConnection
    references,          \* SharedEntry.references, per connection
    initial, closed,     \* RecoveringConnection: initial settled, close() called
    pc, current          \* per user: where acquire is, its local `current`

vars == <<entry, disposed, references, initial, closed, pc, current>>

Init ==
    /\ entry = none /\ disposed = FALSE
    /\ references = [k \in Connection |-> 0]
    /\ initial = [k \in Connection |-> "none"]
    /\ closed = [k \in Connection |-> FALSE]
    /\ pc = [u \in User |-> "idle"]
    /\ current = [u \in User |-> none]

Goto(u, place) == pc' = [pc EXCEPT ![u] = place]

\* Mutant: close() leaves the initial promise pending.
CloseEntryPending(k) ==
    /\ closed' = [closed EXCEPT ![k] = TRUE]
    /\ UNCHANGED initial

\* closeEntry: close() stops the connection and settles its initial promise.
CloseEntry(k) ==
    /\ closed' = [closed EXCEPT ![k] = TRUE]
    /\ initial' = [initial EXCEPT ![k] = IF @ = "pending" THEN "failed" ELSE @]

\* acquire(), up to the await of the initial promise.
AcquireDisposed(u) ==
    /\ pc[u] = "idle" /\ disposed /\ Goto(u, "failed")
    /\ UNCHANGED <<entry, disposed, references, initial, closed, current>>

Join(u, k) ==
    /\ Goto(u, "awaiting")
    /\ current' = [current EXCEPT ![u] = k]
    /\ references' = [references EXCEPT ![k] = @ + 1]
    /\ UNCHANGED <<disposed, closed>>

AcquireFirst(u, k) ==
    /\ pc[u] = "idle" /\ ~disposed /\ entry = none /\ initial[k] = "none"
    /\ entry' = k
    /\ initial' = [initial EXCEPT ![k] = "pending"]
    /\ Join(u, k)

AcquireEntry(u) ==
    /\ pc[u] = "idle" /\ ~disposed /\ entry # none
    /\ Join(u, entry)
    /\ UNCHANGED <<entry, initial>>

\* The first dial of a connection succeeds or fails.
Opens(k) ==
    /\ initial[k] = "pending"
    /\ \E value \in {"ready", "failed"} : initial' = [initial EXCEPT ![k] = value]
    /\ UNCHANGED <<entry, disposed, references, closed, pc, current>>

Drop(k) ==
    /\ references' = [references EXCEPT ![k] = @ - 1]
    /\ UNCHANGED disposed

\* Mutant: whatever the entry is now is forgotten.
ForgetEntry(k) == entry' = none

\* Only the failed or released connection is forgotten, not its successor.
Forget(k) == entry' = IF entry = k THEN none ELSE entry

\* acquire() goes on: a lease, or an error that closes the connection.
Leased(u) ==
    /\ pc[u] = "awaiting" /\ initial[current[u]] = "ready" /\ ~disposed
    /\ Goto(u, "leased")
    /\ UNCHANGED <<entry, disposed, references, initial, closed, current>>

\* Mutant: a failed acquisition keeps its reference.
AcquireFailsCounted(u) ==
    /\ pc[u] = "awaiting"
    /\ \/ initial[current[u]] = "failed"
       \/ initial[current[u]] = "ready" /\ disposed
    /\ Goto(u, "failed")
    /\ Forget(current[u]) /\ CloseEntry(current[u])
    /\ UNCHANGED <<current, references, disposed>>

AcquireFails(u) ==
    /\ pc[u] = "awaiting"
    /\ \/ initial[current[u]] = "failed"
       \/ initial[current[u]] = "ready" /\ disposed
    /\ Goto(u, "failed")
    /\ Drop(current[u]) /\ Forget(current[u]) /\ CloseEntry(current[u])
    /\ UNCHANGED current

\* Mutants: release is not idempotent; any release closes the connection.
ReleaseAgain(u) ==
    /\ pc[u] \in {"leased", "released"} /\ Goto(u, "released")
    /\ Drop(current[u])
    /\ IF references[current[u]] = 1
       THEN Forget(current[u]) /\ CloseEntry(current[u])
       ELSE UNCHANGED <<entry, initial, closed>>
    /\ UNCHANGED current

ReleaseCloses(u) ==
    /\ pc[u] = "leased" /\ Goto(u, "released")
    /\ Drop(current[u])
    /\ Forget(current[u]) /\ CloseEntry(current[u])
    /\ UNCHANGED current

\* release(); calling it again returns the first promise.
Release(u) ==
    /\ pc[u] = "leased" /\ Goto(u, "released")
    /\ Drop(current[u])
    /\ IF references[current[u]] = 1
       THEN Forget(current[u]) /\ CloseEntry(current[u])
       ELSE UNCHANGED <<entry, initial, closed>>
    /\ UNCHANGED current

\* dispose(); calling it again returns the first promise.
Dispose ==
    /\ ~disposed /\ disposed' = TRUE
    /\ entry' = none
    /\ IF entry = none THEN UNCHANGED <<initial, closed>> ELSE CloseEntry(entry)
    /\ UNCHANGED <<references, pc, current>>

Next ==
    \/ Dispose
    \/ \E k \in Connection : Opens(k)
    \/ \E u \in User : \/ AcquireDisposed(u) \/ AcquireEntry(u) \/ Leased(u)
                       \/ AcquireFails(u) \/ Release(u)
                       \/ \E k \in Connection : AcquireFirst(u, k)

Spec == Init /\ [][Next]_vars

\* Promise reactions run; nobody is obliged to open, release or dispose.
FairSpec == Spec /\ \A u \in User : WF_vars(Leased(u)) /\ WF_vars(AcquireFails(u))

----------------------------------------------------------------------------
(* Properties. *)

TypeOK ==
    /\ entry \in Connection \union {none} /\ disposed \in BOOLEAN
    /\ references \in [Connection -> Nat]
    /\ initial \in [Connection -> {"none", "pending", "ready", "failed"}]
    /\ closed \in [Connection -> BOOLEAN]
    /\ pc \in [User -> {"idle", "awaiting", "leased", "released", "failed"}]
    /\ current \in [User -> Connection \union {none}]

Users(k) == {u \in User : pc[u] \in {"awaiting", "leased"} /\ current[u] = k}

\* The count of a connection is the number of its leases and of the
\* acquisitions that wait for it.
ReferencesAccounted == \A k \in Connection : references[k] = Cardinality(Users(k))

\* README: "Concurrent leases share one connection [...] The last release
\* closes it; dispose() [...] closes any active leases".  A connection that is
\* not closed is the entry, so there is only one, and it has a user; when the
\* handle is disposed there is none.
OnlyEntryIsOpen ==
    \A k \in Connection :
        (initial[k] # "none" /\ ~closed[k]) <=> (k = entry /\ ~disposed /\ Users(k) # {})

\* No failing acquisition, early release or late error of another user closes
\* the connection under a lease; only dispose() does.
LeaseIsOpen ==
    \A u \in User : pc[u] = "leased" => ~closed[current[u]] \/ disposed

\* dispose() rejects the acquisitions that wait.
DisposeRejects ==
    \A u \in User : disposed /\ pc[u] = "awaiting" ~> pc[u] = "failed"
=============================================================================
