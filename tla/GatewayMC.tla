----------------------------- MODULE GatewayMC -----------------------------
(* Small instances of Gateway, and the metrics identities, which sum over  *)
(* the failure reasons.                                                    *)
EXTENDS Gateway, FiniteSetsExt, TLC

\* Handlers are interchangeable, and so are principals.
Symmetry == Permutations(Handler) \union Permutations(Subject)

\* Handlers that have counted an attempt and not yet its outcome.
Undecided ==
    {h \in Handler : failure[h] # "" /\ pc[h] \in Setup \union Upgraded
                                                   \union {"settle"}}

\* bridge_connection_failures_total counts once per attempt: every attempt is
\* either opened, failed for exactly one reason, or still undecided; and every
\* opened tunnel is established or closed.
AttemptAccounting ==
    /\ metrics["attempts"] = metrics["opened"]
          + MapThenSumSet(LAMBDA r : metrics[r], Reasons)
          + Cardinality(Undecided)
    /\ metrics["opened"] = metrics["established"] + metrics["closed"]

\* An expiration is counted for exactly those tunnels whose first close was
\* the lifetime timer's, however the timer races with the relay, the drain
\* and lifetimeTimer.Stop.
ExpirationAccounting ==
    metrics["expirations"] = Cardinality({h \in Handler : tunnel[h].closer = "timer"
                                         /\ tunnel[h].timer # "closing"})

\* METRICS.md: the reason `capacity` means "No admission slot available", so
\* a request turned away for capacity found the slots or its quota used up.
CapacityMeansCapacity ==
    [][\A h \in Handler :
          failure'[h] = "capacity" /\ failure[h] # "capacity" =>
              \/ pc[h] = "slot" /\ slots = MaxConnections
              \/ pc[h] = "principal"
                 /\ principals[principal[h]] >= MaxPerPrincipal]_vars
=============================================================================
