-------------------------------- MODULE Call --------------------------------
(* One gRPC call over one HTTP/2 stream: start, unary and stream of           *)
(* web/src/transport.ts, and frame, unframe and validateStatus of             *)
(* web/src/framing.ts.                                                        *)
(*                                                                            *)
(* The caller's signal, the deadline, the producer of request messages, the   *)
(* server, the network and the consumer of response messages act in any      *)
(* order; every await is the end of a step.  The stream itself (H2, Upload)   *)
(* appears as the promises and streams that connection.request hands out.     *)
(* A record header is two bytes here, the flag and the length.                *)
EXTENDS Naturals, Sequences

CONSTANTS
    Kinds,        \* of "unary" and "stream"
    Items,        \* request messages the producer has
    MaxMessage,   \* MAX_MESSAGE
    Bodies        \* the byte sequences a server may send

ASSUME CallAssumption == Kinds \subseteq {"unary", "stream"} /\ Items \in Nat /\ MaxMessage \in Nat

HeaderSize == 2
Least(m, n) == IF m < n THEN m ELSE n

\* What the server answers: a head that is refused, trailers alone, or a body
\* and trailers; and what the grpc-status of the trailers says.
Answers ==
    [head : {"bad"}, bytes : {<<>>}, status : {"ok"}]
    \union [head : {"trailersOnly"}, bytes : {<<>>}, status : {"ok", "failed"}]
    \union [head : {"good"}, bytes : Bodies, status : {"ok", "failed", "missing"}]

VARIABLES
    kind, answer,    \* of this call
    aborted,         \* abort.signal: "none" or the reason
    listener, timer, \* onAbort is registered; the deadline timer is set
    committed,       \* the attempt may not be retried
    input,           \* the iterator and the request body it feeds
    stream,          \* the HTTP/2 stream
    unread,          \* chunks received and not read
    reader,          \* the locals of unframe
    stage,           \* where the call is
    got, result      \* messages handed to the caller; how the call ended

vars == <<kind, answer, aborted, listener, timer, committed, input, stream, unread, reader,
          stage, got, result>>
call == <<kind, answer>>

\* MUTANT: readingHeader is not set again.
NewRecordStale(chunk) == [chunk |-> chunk, current |-> <<>>, length |-> HeaderSize, header |-> FALSE]

\* unframe, before a record.
NewRecord(chunk) == [chunk |-> chunk, current |-> <<>>, length |-> HeaderSize, header |-> TRUE]

\* start, up to the request.  There is no listener when there is no signal, or
\* when it is aborted already.
Init ==
    /\ kind \in Kinds /\ answer \in Answers
    /\ listener \in BOOLEAN /\ timer \in BOOLEAN
    /\ aborted \in (IF listener THEN {"none"} ELSE {"none", "canceled"})
    /\ committed = FALSE
    /\ input = [state |-> "idle", left |-> IF kind = "unary" THEN 1 ELSE Items,
                body |-> "open", returned |-> FALSE]
    /\ stream = [state |-> "unopened", error |-> "none", head |-> FALSE, sent |-> 0, ended |-> FALSE]
    /\ unread = <<>> /\ reader = NewRecord(<<>>)
    /\ stage = "requesting" /\ got = <<>> /\ result = "none"

----------------------------------------------------------------------------
(* Aborting, and failing the stream *)

\* cancel of the request body: inputCanceled, and iterator.return.
Canceled(i) ==
    IF i.body = "open" THEN [i EXCEPT !.body = "canceled", !.returned = TRUE] ELSE i

\* stream.fail.
FailStream(reason) ==
    /\ stream' = [stream EXCEPT !.state = "failed", !.error = reason]
    /\ input' = Canceled(input)

\* MUTANT: the request does not listen to the signal.
AbortUnheard(reason) ==
    /\ aborted' = IF aborted = "none" THEN reason ELSE aborted
    /\ UNCHANGED <<stream, input, unread>>

\* abort.abort: only the first reason counts; the request's listener fails and
\* resets the stream, which discards what is unread.
AbortFirst(reason) ==
    IF aborted # "none" THEN UNCHANGED <<aborted, stream, input, unread>>
    ELSE /\ aborted' = reason
         /\ IF stream.state = "open" THEN FailStream(reason) /\ unread' = <<>>
                                     ELSE UNCHANGED <<stream, input, unread>>

\* The caller's signal.
OnAbort ==
    /\ listener
    /\ listener' = FALSE
    /\ AbortFirst("canceled")
    /\ UNCHANGED <<call, timer, committed, reader, stage, got, result>>

Deadline ==
    /\ timer
    /\ timer' = FALSE
    /\ AbortFirst("deadline")
    /\ UNCHANGED <<call, listener, committed, reader, stage, got, result>>

\* translate.
Translate(error) == IF aborted # "none" THEN aborted ELSE error

\* MUTANT: the deadline timer is left behind.
EndKeepsTimer(outcome) ==
    /\ stage' = "over" /\ result' = outcome
    /\ listener' = FALSE
    /\ aborted' = IF aborted = "none" THEN "cleanup" ELSE aborted
    /\ IF stream.state = "open" THEN FailStream("cleanup") ELSE UNCHANGED <<stream, input>>
    /\ unread' = <<>> /\ reader' = NewRecord(<<>>)
    /\ UNCHANGED timer

\* cleanup and abort, in the catch of start or the finally of messages; the
\* finally of unframe has canceled the response body before.
End(outcome) ==
    /\ stage' = "over" /\ result' = outcome
    /\ listener' = FALSE /\ timer' = FALSE
    /\ aborted' = IF aborted = "none" THEN "cleanup" ELSE aborted
    /\ IF stream.state = "open" THEN FailStream("cleanup") ELSE UNCHANGED <<stream, input>>
    /\ unread' = <<>> /\ reader' = NewRecord(<<>>)

----------------------------------------------------------------------------
(* The request and its body *)

Open ==
    /\ stage = "requesting" /\ stream.state = "unopened" /\ aborted = "none"
    /\ stream' = [stream EXCEPT !.state = "open"]
    /\ UNCHANGED <<call, aborted, listener, timer, committed, input, unread, reader, stage, got, result>>

\* request throws before it has a stream: aborted, or the connection is unavailable.
Refused ==
    /\ stage = "requesting" /\ stream.state = "unopened"
    /\ End(Translate("unsent"))
    /\ UNCHANGED <<call, committed, got>>

\* pull: the pump reads, the producer is asked.
Pull ==
    /\ stream.state = "open" /\ input.body = "open" /\ input.state = "idle"
    /\ input' = [input EXCEPT !.state = "parked"]
    /\ UNCHANGED <<call, aborted, listener, timer, committed, stream, unread, reader, stage, got, result>>

\* MUTANT: a late result is not ignored.
IgnoredNever == FALSE

\* A late result must not touch the controller or replace the original error.
Ignored == input.body = "canceled" \/ aborted # "none"

\* The producer answers: a message, the end, an error of its own, or a message
\* that frame refuses.  An error ends the body and aborts the call.
Produced(what) ==
    /\ input.state = "parked"
    /\ what = "end" <=> input.left = 0 /\ what # "error"
    /\ LET next == [input EXCEPT !.state = IF what \in {"end", "error"} THEN "finished" ELSE "idle",
                                 !.left = IF @ > 0 THEN @ - 1 ELSE @]
       IN IF Ignored \/ what = "message"
          THEN input' = next /\ UNCHANGED <<aborted, stream, unread>>
          ELSE IF what = "end"
          THEN input' = [next EXCEPT !.body = "closed"] /\ UNCHANGED <<aborted, stream, unread>>
          ELSE /\ aborted' = IF aborted = "none" THEN "input" ELSE aborted
               /\ input' = [next EXCEPT !.body = "errored"]
               /\ IF stream.state = "open"
                  THEN stream' = [stream EXCEPT !.state = "failed", !.error = "input"] /\ unread' = <<>>
                  ELSE UNCHANGED <<stream, unread>>
    /\ UNCHANGED <<call, listener, timer, committed, reader, stage, got, result>>

----------------------------------------------------------------------------
(* The stream *)

Headers ==
    /\ stream.state = "open" /\ ~stream.head
    /\ stream' = [stream EXCEPT !.head = TRUE, !.ended = answer.head = "trailersOnly"]
    /\ UNCHANGED <<call, aborted, listener, timer, committed, input, unread, reader, stage, got, result>>

\* DATA: the next n bytes.
Data(n) ==
    /\ stream.state = "open" /\ stream.head /\ ~stream.ended
    /\ n > 0 /\ stream.sent + n <= Len(answer.bytes)
    /\ stream' = [stream EXCEPT !.sent = @ + n]
    /\ unread' = Append(unread, SubSeq(answer.bytes, stream.sent + 1, stream.sent + n))
    /\ UNCHANGED <<call, aborted, listener, timer, committed, input, reader, stage, got, result>>

Trailers ==
    /\ stream.state = "open" /\ stream.head /\ ~stream.ended
    /\ stream.sent = Len(answer.bytes)
    /\ stream' = [stream EXCEPT !.ended = TRUE]
    /\ UNCHANGED <<call, aborted, listener, timer, committed, input, unread, reader, stage, got, result>>

\* Both sides have ended: the stream leaves the map, and no abort reaches it.
Retire ==
    /\ stream.state = "open" /\ stream.ended /\ input.body = "closed"
    /\ stream' = [stream EXCEPT !.state = "retired"]
    /\ UNCHANGED <<call, aborted, listener, timer, committed, input, unread, reader, stage, got, result>>

\* The peer resets the stream, or the connection is lost; what is unread stays.
Lost ==
    /\ stream.state = "open"
    /\ FailStream("lost")
    /\ UNCHANGED <<call, aborted, listener, timer, committed, unread, reader, stage, got, result>>

----------------------------------------------------------------------------
(* The response *)

\* validateStatus.
StatusError(status) == CASE status = "ok" -> "none" [] status = "failed" -> "status"
                         [] OTHER -> "unknown"

\* The head is there: a call that is not trailers-only is committed before its
\* head is judged, a trailers-only one after its status is.
CheckHead ==
    /\ stage = "requesting" /\ stream.head
    /\ LET only == answer.head = "trailersOnly"
           error == CASE answer.head = "bad" -> "unavailable"
                      [] only -> StatusError(answer.status)
                      [] OTHER -> "none"
       IN /\ committed' = (~only \/ error = "none")
          /\ \/ error # "none" /\ End(Translate(error))
             \/ /\ error = "none"
                /\ stage' = IF kind = "unary" THEN "reading" ELSE "ready"
                /\ UNCHANGED <<aborted, listener, timer, input, stream, unread, reader, result>>
    /\ UNCHANGED <<call, got>>

\* The stream failed before its head.
NoHead ==
    /\ stage = "requesting" /\ stream.state = "failed" /\ ~stream.head
    /\ End(Translate(stream.error))
    /\ UNCHANGED <<call, committed, got>>

\* The caller starts to iterate the messages of a stream call.
Iterate ==
    /\ stage = "ready"
    /\ stage' = "reading"
    /\ UNCHANGED <<call, aborted, listener, timer, committed, input, stream, unread, reader, got, result>>

\* return of a generator that has not started runs none of its code.
Drop ==
    /\ stage = "ready"
    /\ stage' = "dropped"
    /\ UNCHANGED <<call, aborted, listener, timer, committed, input, stream, unread, reader, got, result>>

\* reader.read of unframe: what is unread, then the error of the stream, then its end.
Read ==
    /\ stage = "reading" /\ reader.chunk = <<>> /\ unread # <<>>
    /\ reader' = [reader EXCEPT !.chunk = Head(unread)] /\ unread' = Tail(unread)
    /\ UNCHANGED <<call, aborted, listener, timer, committed, input, stream, stage, got, result>>

ReadFails ==
    /\ stage = "reading" /\ reader.chunk = <<>> /\ unread = <<>> /\ stream.state = "failed"
    /\ End(Translate(stream.error))
    /\ UNCHANGED <<call, committed, got>>

\* MUTANT: the end of the body is taken for the end of a record.
EndErrorLenient == StatusError(answer.status)

\* The body is at its end, and so are, perhaps, a record and the trailers.
EndError ==
    IF reader.current # <<>> \/ ~reader.header THEN "truncated" ELSE StatusError(answer.status)

ReadEnds ==
    /\ stage = "reading" /\ reader.chunk = <<>> /\ unread = <<>>
    /\ stream.ended /\ stream.state # "failed"
    /\ End(IF EndError # "none" THEN Translate(EndError)
           ELSE IF kind = "unary" /\ Len(got) # 1 THEN "count" ELSE "ok")
    /\ UNCHANGED <<call, committed, got>>

\* MUTANT: a record of length zero is forgotten.
RecordCompleteNonEmpty(current) == ~reader.header

\* An empty message is complete with its header.
RecordComplete(current) == reader.header => current[2] = 0

\* One turn of the inner loop of unframe.
Fill ==
    /\ stage = "reading" /\ reader.chunk # <<>>
    /\ LET n == Least(reader.length - Len(reader.current), Len(reader.chunk))
           current == reader.current \o SubSeq(reader.chunk, 1, n)
           chunk == SubSeq(reader.chunk, n + 1, Len(reader.chunk))
           full == Len(current) = reader.length
           error == CASE ~full \/ ~reader.header -> "none"
                      [] current[1] # 0 -> "compressed"
                      [] current[2] > MaxMessage -> "exhausted"
                      [] OTHER -> "none"
       IN \/ /\ ~full
             /\ reader' = [reader EXCEPT !.chunk = chunk, !.current = current]
             /\ UNCHANGED <<aborted, listener, timer, input, stream, unread, stage, got, result>>
          \/ /\ error # "none"
             /\ End(Translate(error))
             /\ UNCHANGED got
          \/ /\ full /\ error = "none" /\ ~RecordComplete(current)
             /\ reader' = [chunk |-> chunk, current |-> <<>>, length |-> current[2], header |-> FALSE]
             /\ UNCHANGED <<aborted, listener, timer, input, stream, unread, stage, got, result>>
          \/ /\ full /\ error = "none" /\ RecordComplete(current)
             /\ got' = Append(got, IF reader.header THEN <<>> ELSE current)
             /\ reader' = NewRecord(chunk)
             /\ stage' = "yielded"
             /\ UNCHANGED <<aborted, listener, timer, input, stream, unread, result>>
    /\ UNCHANGED <<call, committed>>

\* The consumer wants the next message; unary gives up at the second.
Resume ==
    /\ stage = "yielded" /\ ~(kind = "unary" /\ Len(got) > 1)
    /\ stage' = "reading"
    /\ UNCHANGED <<call, aborted, listener, timer, committed, input, stream, unread, reader, got, result>>

\* return of the generator: the caller breaks its loop, or unary throws in it.
Return ==
    /\ stage = "yielded" /\ (kind = "unary" => Len(got) > 1)
    /\ End(IF kind = "unary" THEN "count" ELSE "stopped")
    /\ UNCHANGED <<call, committed, got>>

----------------------------------------------------------------------------

Runs == \/ CheckHead \/ NoHead \/ Read \/ ReadFails \/ ReadEnds \/ Fill
Consumes == Iterate \/ Resume
Next ==
    \/ OnAbort \/ Deadline \/ Open \/ Refused \/ Pull
    \/ \E what \in {"message", "end", "error", "refused"} : Produced(what)
    \/ Headers \/ Trailers \/ Retire \/ Lost \/ \E n \in 1..Len(answer.bytes) : Data(n)
    \/ Runs \/ Consumes \/ Drop \/ Return

Spec == Init /\ [][Next]_vars

\* Promise reactions run, timers fire, an aborted request is refused, and the
\* caller goes on consuming; the server and the producer owe nothing.
FairSpec ==
    /\ Spec
    /\ WF_vars(Runs) /\ WF_vars(Consumes) /\ WF_vars(Deadline)
    /\ WF_vars(aborted # "none" /\ Refused) /\ WF_vars(Return)

----------------------------------------------------------------------------
(* Properties *)

Reasons == {"none", "canceled", "deadline", "input", "cleanup"}
InputType == [state : {"idle", "parked", "finished"}, left : Nat,
              body : {"open", "closed", "errored", "canceled"}, returned : BOOLEAN]
StreamType == [state : {"unopened", "open", "retired", "failed"}, error : Reasons \union {"lost"},
               head : BOOLEAN, sent : Nat, ended : BOOLEAN]

\* TYPE INVARIANT; in particular unframe never waits for zero bytes.
TypeOK ==
    /\ kind \in Kinds /\ answer \in Answers
    /\ aborted \in Reasons
    /\ listener \in BOOLEAN /\ timer \in BOOLEAN /\ committed \in BOOLEAN
    /\ input \in InputType /\ stream \in StreamType
    /\ Len(reader.current) < reader.length
    /\ stage \in {"requesting", "ready", "reading", "yielded", "dropped", "over"}

\* THE REASON IS TOLD: a call that fails after an abort fails with the first
\* reason, and a producer's error counts only if it came before the stream's end
\* (translate, pull).
ReasonTold ==
    /\ stage = "over" /\ aborted \in {"canceled", "deadline", "input"}
         => result \in {aborted, "ok", "count", "stopped"}
    /\ aborted = "input" => stream.error = "input"

\* EVERYTHING IS RELEASED: a call that is over holds no timer and no listener,
\* its stream is closed, and its producer has ended or was told to, unless a
\* message of it was refused by frame (cleanup, cancel).
Released ==
    stage = "over" =>
       /\ ~timer /\ ~listener /\ aborted # "none"
       /\ stream.state # "open"
       /\ stream.state # "unopened" => input.body # "open"
       /\ input.body = "canceled" => input.returned

\* DEADLINES END CALLS: a call with a deadline ends, although server, network
\* and producer may do nothing, unless the caller drops its messages unread.
DeadlineEnds == timer ~> stage \in {"over", "dropped"}
=============================================================================
