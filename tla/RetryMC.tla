------------------------------ MODULE RetryMC ------------------------------
(* Small instances of Retry, and the budget, which sums over the calls.    *)
EXTENDS Retry, FiniteSetsExt, TLC

Symmetry == Permutations(Call)

\* The second message is larger than the others.
Sizes == [m \in 1..N |-> IF m = 2 THEN 2 ELSE 1]

\* The bytes retained by all calls, also those that failed, committed or were
\* cancelled in the middle of a read, add up to the connection's counter, and
\* neither budget is ever exceeded.
BudgetAccounted ==
    /\ used = MapThenSumSet(LAMBDA c : bytes[c], Call)
    /\ used <= Buffer
    /\ \A c \in Call : bytes[c] <= PerRpcBuffer
          /\ bytes[c] = MapThenSumSet(LAMBDA i : Size[saved[c][i]], DOMAIN saved[c])
=============================================================================
