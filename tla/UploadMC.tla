------------------------------ MODULE UploadMC ------------------------------
(* Instances of Upload for TLC. *)
EXTENDS Upload

CONSTANTS s1, s2

\* One body larger than a window, and one that starts with an empty chunk.
BodyOf(s) == IF s = s1 THEN <<2>> ELSE <<0, 1>>
=============================================================================
