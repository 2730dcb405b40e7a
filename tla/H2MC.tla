-------------------------------- MODULE H2MC --------------------------------
(* Small instances of H2. *)
EXTENDS H2, TLC

Symmetry == Permutations(Request)
=============================================================================
