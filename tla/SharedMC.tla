------------------------------ MODULE SharedMC ------------------------------
(* Small instances of Shared. *)
EXTENDS Shared, TLC

Symmetry == Permutations(User) \union Permutations(Connection)
=============================================================================
