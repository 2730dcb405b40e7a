------------------------------ MODULE TunnelMC ------------------------------
(* Small instances of Tunnel. *)
EXTENDS Tunnel
=============================================================================
