----------------------------- MODULE RecoveryMC -----------------------------
(* Small instances of Recovery. *)
EXTENDS Recovery
=============================================================================
