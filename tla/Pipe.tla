-------------------------------- MODULE Pipe --------------------------------
(* What one direction of a tunnel promises: a byte stream.  The reader gets  *)
(* the bytes that were written, in order, without gaps, repetitions or       *)
(* foreign bytes; the stream may break at any time, and nothing follows.     *)
EXTENDS Naturals, SequencesExt

VARIABLES
    sent,       \* bytes written so far
    received,   \* bytes read so far
    broken      \* whether the reader has been told that the stream is over

vars == <<sent, received, broken>>

Init == sent = <<>> /\ received = <<>> /\ broken = FALSE

\* The writer goes on even where nobody reads any more.
Send ==
    /\ IsStrictPrefix(sent, sent')
    /\ UNCHANGED <<received, broken>>

Deliver ==
    /\ ~broken
    /\ IsStrictPrefix(received, received') /\ IsPrefix(received', sent)
    /\ UNCHANGED <<sent, broken>>

Break ==
    /\ ~broken /\ broken' = TRUE
    /\ UNCHANGED <<sent, received>>

Next == Send \/ Deliver \/ Break

Spec == Init /\ [][Next]_vars
=============================================================================
