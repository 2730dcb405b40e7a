----------------------------- MODULE CallProofs -----------------------------
(* Proofs about Call for any producer, any server and any network.           *)
EXTENDS Call, TLAPS

\* A call with an open stream is not aborted, a producer is asked only for an
\* open stream, and a stream that has ended has no open request body: what makes
\* a late answer of the producer harmless.
Fed ==
    /\ stream.state = "open" => aborted = "none"
    /\ input.state = "parked" => stream.state # "unopened" /\ input.body \in {"open", "canceled"}
    /\ input.body = "open" => stream.state \in {"unopened", "open"}
    /\ input.body = "canceled" => input.returned

Kept == input \in InputType /\ stream \in StreamType /\ aborted \in Reasons

IInv == Kept /\ Fed /\ Released /\ ReasonTold

LEMMA InitIInv == Init => IInv
<1> SUFFICES ASSUME Init PROVE IInv
  OBVIOUS
<1>1. Kept
  BY CallAssumption DEF Init, Kept, InputType, StreamType, Reasons
<1> QED
  BY <1>1 DEF Init, IInv, Fed, Released, ReasonTold

\* FailStream closes the request body with the stream.
LEMMA FailLemma ==
    ASSUME Kept, Fed, NEW reason \in Reasons \union {"lost"}, stream.state = "open", FailStream(reason)
    PROVE  /\ input' \in InputType /\ stream' \in StreamType /\ Fed'
           /\ stream'.state = "failed" /\ stream'.error = reason
BY DEF Kept, Fed, FailStream, Canceled, InputType, StreamType

LEMMA AbortLemma ==
    ASSUME IInv, NEW reason \in {"canceled", "deadline"}, AbortFirst(reason), stage # "over",
           UNCHANGED <<stage, result>>
    PROVE  IInv'
<1>1. CASE aborted # "none"
  BY <1>1 DEF AbortFirst, IInv, Kept, Fed, Released, ReasonTold
<1>2. CASE aborted = "none" /\ stream.state = "open"
  <2>1. aborted' = reason /\ FailStream(reason)
    BY <1>2 DEF AbortFirst
  <2> QED
    BY <2>1, <1>2, FailLemma DEF IInv, Kept, Released, ReasonTold, Reasons
<1>3. CASE aborted = "none" /\ stream.state # "open"
  BY <1>3 DEF AbortFirst, IInv, Kept, Fed, Released, ReasonTold, Reasons
<1> QED
  BY <1>1, <1>2, <1>3

\* Whatever the outcome, unless it hides the reason of an abort, End releases.
LEMMA EndLemma ==
    ASSUME IInv, NEW outcome, End(outcome),
           aborted \in {"canceled", "deadline", "input"}
             => outcome \in {aborted, "ok", "count", "stopped"},
           stream.state # "unopened" \/ input.state # "parked"
    PROVE  IInv'
<1>1. /\ stage' = "over" /\ result' = outcome /\ ~listener' /\ ~timer'
      /\ aborted' = IF aborted = "none" THEN "cleanup" ELSE aborted
  BY DEF End
<1>2. CASE stream.state = "open"
  <2>1. FailStream("cleanup")
    BY <1>2 DEF End
  <2> QED
    BY <1>1, <1>2, <2>1, FailLemma DEF IInv, Kept, Fed, Released, ReasonTold, Reasons
<1>3. CASE stream.state # "open"
  <2>1. UNCHANGED <<stream, input>>
    BY <1>3 DEF End
  <2> QED
    BY <1>1, <1>3, <2>1 DEF IInv, Kept, Fed, Released, ReasonTold, Reasons, StreamType
<1> QED
  BY <1>2, <1>3

LEMMA ProducedStep ==
    ASSUME IInv, NEW what, Produced(what)
    PROVE  IInv'
<1> USE DEF IInv
<1> DEFINE next == [input EXCEPT !.state = IF what \in {"end", "error"} THEN "finished" ELSE "idle",
                                 !.left = IF @ > 0 THEN @ - 1 ELSE @]
<1>1. /\ next \in InputType /\ next.body = input.body /\ next.returned = input.returned
      /\ next.state # "parked"
  <2>1. input.left \in Nat /\ (IF input.left > 0 THEN input.left - 1 ELSE input.left) \in Nat
    BY DEF Kept, InputType
  <2> QED
    BY <2>1 DEF Kept, InputType
<1>2. UNCHANGED <<listener, timer, stage, result>> /\ input.state = "parked"
  BY DEF Produced
<1>3. CASE Ignored \/ what = "message"
  <2>1. input' = next /\ UNCHANGED <<aborted, stream>>
    BY <1>3 DEF Produced
  <2> HIDE DEF next
  <2> QED
    BY <1>1, <1>2, <2>1 DEF Kept, Fed, Released, ReasonTold
<1>4. CASE ~Ignored /\ what = "end"
  <2>1. input' = [next EXCEPT !.body = "closed"] /\ UNCHANGED <<aborted, stream>>
    BY <1>4 DEF Produced
  <2>2. input' \in InputType /\ input'.body = "closed" /\ input'.state # "parked"
    BY <1>1, <2>1 DEF InputType
  <2> HIDE DEF next
  <2> QED
    BY <1>2, <2>1, <2>2 DEF Kept, Fed, Released, ReasonTold
<1>5. CASE ~Ignored /\ what \notin {"message", "end"}
  <2>1. /\ input' = [next EXCEPT !.body = "errored"]
        /\ aborted' = IF aborted = "none" THEN "input" ELSE aborted
        /\ IF stream.state = "open" THEN stream' = [stream EXCEPT !.state = "failed", !.error = "input"]
                                    ELSE stream' = stream
    BY <1>5 DEF Produced
  <2>2. input' \in InputType /\ input'.body = "errored" /\ input'.state # "parked"
    BY <1>1, <2>1 DEF InputType
  <2>3. aborted = "none" /\ stage # "over" /\ stream.state = "open"
    BY <1>2, <1>5 DEF Ignored, Released, Fed
  <2> HIDE DEF next
  <2> QED
    BY <1>2, <2>1, <2>2, <2>3 DEF Kept, Fed, Released, ReasonTold, StreamType, Reasons
<1> QED
  BY <1>3, <1>4, <1>5

\* The steps of the stream, of the producer's side and of the consumer.
LEMMA StreamSteps ==
    ASSUME IInv, Open \/ Pull \/ Headers \/ Trailers \/ Retire \/ Lost \/ \E n \in Nat : Data(n)
    PROVE  IInv'
<1> USE DEF IInv
<1>1. CASE Open
  BY <1>1 DEF Open, Kept, Fed, Released, ReasonTold, StreamType
<1>2. CASE Pull
  BY <1>2 DEF Pull, Kept, Fed, Released, ReasonTold, InputType
<1>3. CASE Headers \/ Trailers \/ Retire
  BY <1>3 DEF Headers, Trailers, Retire, Kept, Fed, Released, ReasonTold, StreamType
<1>4. CASE Lost
  <2>1. FailStream("lost") /\ stream.state = "open" /\ UNCHANGED <<aborted, listener, timer, stage, result>>
    BY <1>4 DEF Lost
  <2> QED
    BY <2>1, FailLemma DEF Kept, Fed, Released, ReasonTold
<1>5. ASSUME NEW n \in Nat, Data(n)
      PROVE  IInv'
  <2>1. /\ stream' = [stream EXCEPT !.sent = @ + n]
        /\ UNCHANGED <<aborted, listener, timer, input, stage, result>>
    BY <1>5 DEF Data
  <2> QED
    BY <2>1 DEF Kept, Fed, Released, ReasonTold, StreamType
<1> QED
  BY <1>1, <1>2, <1>3, <1>4, <1>5

\* The steps that may end the call.
LEMMA Translated ==
    ASSUME NEW error
    PROVE  aborted \in {"canceled", "deadline", "input"} => Translate(error) = aborted
BY DEF Translate

LEMMA RunSteps ==
    ASSUME IInv, Runs \/ Refused \/ Return
    PROVE  IInv'
<1> DEFINE Quiet == UNCHANGED <<aborted, listener, timer, input, stream, result>> /\ stage' # "over"
           Ends(outcome) == /\ End(outcome)
                            /\ aborted \in {"canceled", "deadline", "input"}
                                 => outcome \in {aborted, "ok", "count", "stopped"}
<1>1. stream.state # "unopened" \/ input.state # "parked"
  BY DEF IInv, Fed
<1>2. ASSUME Quiet
      PROVE  IInv'
  BY <1>2 DEF IInv, Kept, Fed, Released, ReasonTold
<1>3. ASSUME NEW outcome, Ends(outcome)
      PROVE  IInv'
  BY <1>1, <1>3, EndLemma
<1>4. CASE CheckHead
  <2>1. Quiet \/ \E error : Ends(Translate(error))
    BY <1>4, Translated DEF CheckHead
  <2> QED
    BY <1>2, <1>3, <2>1
<1>5. CASE Refused
  BY <1>3, <1>5, Translated DEF Refused
<1>6. CASE NoHead \/ ReadFails
  BY <1>3, <1>6, Translated DEF NoHead, ReadFails
<1>7. CASE Read
  BY <1>2, <1>7 DEF Read
<1>8. CASE ReadEnds
  <2>1. CASE EndError # "none"
    BY <1>3, <1>8, <2>1, Translated DEF ReadEnds
  <2>2. CASE EndError = "none"
    <3>1. PICK outcome \in {"ok", "count"} : End(outcome)
      BY <1>8, <2>2 DEF ReadEnds
    <3> QED
      BY <1>3, <3>1
  <2> QED
    BY <2>1, <2>2
<1>9. CASE Fill
  <2>1. Quiet \/ \E error : Ends(Translate(error))
    BY <1>9, Translated DEF Fill
  <2> QED
    BY <1>2, <1>3, <2>1
<1>10. CASE Return
  <2>1. PICK outcome \in {"count", "stopped"} : End(outcome)
    BY <1>10 DEF Return
  <2> QED
    BY <1>3, <2>1
<1> QED
  BY <1>4, <1>5, <1>6, <1>7, <1>8, <1>9, <1>10 DEF Runs

----------------------------------------------------------------------------
(* The theorems *)

\* Every step keeps the inductive invariant.
LEMMA NextIInv == IInv /\ [Next]_vars => IInv'
<1> SUFFICES ASSUME IInv, [Next]_vars PROVE IInv'
  OBVIOUS
<1>1. CASE OnAbort
  BY <1>1, AbortLemma DEF OnAbort, IInv, Released
<1>2. CASE Deadline
  BY <1>2, AbortLemma DEF Deadline, IInv, Released
<1>3. CASE \E what \in {"message", "end", "error", "refused"} : Produced(what)
  BY <1>3, ProducedStep
<1>4. CASE \E n \in 1..Len(answer.bytes) : Data(n)
  <2>1. \E n \in Nat : Data(n)
    BY <1>4
  <2> QED
    BY <2>1, StreamSteps
<1>5. CASE Open \/ Pull \/ Headers \/ Trailers \/ Retire \/ Lost
  BY <1>5, StreamSteps
<1>6. CASE Runs \/ Refused \/ Return
  BY <1>6, RunSteps
<1>7. CASE Consumes \/ Drop
  BY <1>7 DEF Consumes, Iterate, Resume, Drop, IInv, Kept, Fed, Released, ReasonTold
<1>8. CASE UNCHANGED vars
  BY <1>8 DEF vars, IInv, Kept, Fed, Released, ReasonTold
<1> QED
  BY <1>1, <1>2, <1>3, <1>4, <1>5, <1>6, <1>7, <1>8 DEF Next

\* A call that is over has let go of its timer, listener, stream and producer,
\* in whatever order abort, deadline, errors, ends and late answers came.
THEOREM CallReleased == Spec => []Released
<1>1. IInv => Released
  BY DEF IInv
<1> QED
  BY <1>1, InitIInv, NextIInv, PTL DEF Spec

\* A call that fails after an abort fails with the first reason.
THEOREM CallReasonTold == Spec => []ReasonTold
<1>1. IInv => ReasonTold
  BY DEF IInv
<1> QED
  BY <1>1, InitIInv, NextIInv, PTL DEF Spec
=============================================================================
