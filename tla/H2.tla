--------------------------------- MODULE H2 ---------------------------------
(* The HTTP/2 engine of the browser client, web/src/h2/connection.ts and    *)
(* stream.ts: requests wait for a stream slot, open a stream, upload, and   *)
(* read a response whose bytes return flow-control credit as the            *)
(* application consumes them; resets, aborts, GOAWAY and the loss of the    *)
(* transport tear streams down at any moment.                               *)
(*                                                                          *)
(* A step is one JavaScript job: a frame, a promise reaction, or a call of  *)
(* the application.  Header blocks are complete and decoded; the windows    *)
(* of the upload are left to its pump.  The peer may send any frame on any  *)
(* stream that was opened.  Server push is off, as openChannel sets it.     *)
EXTENDS Integers, Sequences, FiniteSetsExt

CONSTANTS
    Request,
    Limits,          \* values of the peer's SETTINGS_MAX_CONCURRENT_STREAMS
    StreamWindow,    \* localInitialWindow
    ConnWindow       \* connRecvWindow

ASSUME H2Assumption ==
    /\ IsFiniteSet(Request)
    /\ Limits \subseteq Nat /\ Limits # {}
    /\ StreamWindow \in Nat /\ ConnWindow \in Nat

VARIABLES
    closed, goaway, closing,     \* closedFlag, goawayReceived; in close()
    limit, nextStreamId, connRecvAvailable,
    pc, aborted,                 \* request(): where it is, its signal
    streams,                     \* the requests whose stream is in the map
    stream                       \* their H2Streams

teardown == <<closed, goaway, closing>>
counters == <<limit, nextStreamId, connRecvAvailable>>
vars == <<teardown, counters, pc, aborted, streams, stream>>

\* The fields of H2Stream; upload: the pump of its request body, reader: the
\* consumer of its response body.  owed is not in the code: the bytes that
\* arrived for the consumer and that it did not get.
NewStream(id, upload) ==
    [id |-> id, localClosed |-> upload = "idle", remoteClosed |-> FALSE,
     upload |-> upload, head |-> "pending", recvError |-> FALSE,
     recvEnded |-> FALSE, recvWindow |-> StreamWindow, recvQueue |-> <<>>,
     recvBuffered |-> 0, reader |-> "idle",
     owed |-> 0]

Init ==
    /\ closed = FALSE /\ goaway = FALSE /\ closing = FALSE
    /\ limit = Cardinality(Request) /\ nextStreamId = 1
    /\ connRecvAvailable = ConnWindow
    /\ pc = [r \in Request |-> "new"]
    /\ aborted = [r \in Request |-> FALSE]
    /\ streams = {}
    /\ stream = [r \in Request |-> NewStream(0, "idle")]

----------------------------------------------------------------------------
(* What several handlers share. *)

CanOpenStream == Cardinality(streams) < limit

\* MUTANT: a connection that the peer leaves stays when it is drained.
WakeWithoutClosing ==
    /\ pc' = [r \in Request |-> IF pc[r] = "parked" THEN "woken" ELSE pc[r]]
    /\ closing' = (~closed' /\ closing)

\* wakeStreamSlots: the parked requests look again, and a connection that the
\* peer leaves closes when its last stream is gone.
WakeStreamSlots ==
    /\ pc' = [r \in Request |-> IF pc[r] = "parked" THEN "woken" ELSE pc[r]]
    /\ closing' = (~closed' /\ (closing \/ (goaway' /\ streams' = {})))

BodyDone(s) == s.reader \in {"closed", "errored", "cancelled"}

\* wakeRecv.
Woken(s) == [s EXCEPT !.reader = IF @ = "parked" THEN "woken" ELSE @]

\* fail: the head is rejected if it is still pending, the reader is woken and
\* the pump stops.  Which error it is does not matter here, and the stream has
\* left the map: nobody looks at its sides and its window any more.
Failed(s) ==
    Woken([s EXCEPT !.head = IF @ = "pending" THEN "failed" ELSE @,
                    !.recvError = TRUE,
                    !.localClosed = TRUE, !.remoteClosed = TRUE, !.recvWindow = 0,
                    !.upload = IF @ = "pumping" THEN "idle" ELSE @])

\* discardBuffered.
Discarded(s) == [s EXCEPT !.recvQueue = <<>>, !.recvBuffered = 0]

\* replenishConnectionWindow: credit goes back until the connection is closed.
ReplenishConnectionWindow(n) ==
    connRecvAvailable' = IF closed THEN connRecvAvailable ELSE connRecvAvailable + n

\* MUTANT: the credit of the unread data is lost.
ResetLeaks(r) ==
    /\ streams' = streams \ {r}
    /\ stream' = [stream EXCEPT ![r] = Failed(Discarded(@))]
    /\ UNCHANGED <<closed, goaway, limit, nextStreamId, connRecvAvailable>>
    /\ WakeStreamSlots

\* resetStream: unread data are dropped, their credit goes back, the stream
\* leaves the map and fails.
ResetStream(r) ==
    /\ streams' = streams \ {r}
    /\ stream' = [stream EXCEPT ![r] = Failed(Discarded(@))]
    /\ ReplenishConnectionWindow(stream[r].recvBuffered)
    /\ UNCHANGED <<closed, goaway, limit, nextStreamId>>
    /\ WakeStreamSlots

\* retireIfFullyClosed, when a side of stream r ends.
Retire(r) ==
    /\ UNCHANGED <<closed, goaway>>
    /\ IF r \in streams /\ stream'[r].localClosed /\ stream'[r].remoteClosed
       THEN streams' = streams \ {r} /\ WakeStreamSlots
       ELSE UNCHANGED <<streams, pc, closing>>

\* destroy.
Destroy ==
    /\ closed' = TRUE
    /\ streams' = {}
    /\ stream' = [r \in Request |-> IF r \in streams THEN Failed(stream[r]) ELSE stream[r]]
    /\ WakeStreamSlots
    /\ UNCHANGED <<counters, aborted>>

----------------------------------------------------------------------------
(* request(). *)

\* check() throws before anything was sent.
Unavailable(r) == aborted[r] \/ closed \/ goaway

Goto(r, place) ==
    /\ pc' = [pc EXCEPT ![r] = place]
    /\ UNCHANGED <<teardown, connRecvAvailable, limit, aborted>>

Start(r) ==
    /\ pc[r] = "new"
    /\ Goto(r, IF Unavailable(r) THEN "failed" ELSE "ready")
    /\ UNCHANGED <<nextStreamId, streams, stream>>

\* The preface is written, or a slot may be free.
Resumes(r) == pc[r] \in {"ready", "woken"}

Rejected(r) ==
    /\ Resumes(r) /\ Unavailable(r) /\ Goto(r, "failed")
    /\ UNCHANGED <<nextStreamId, streams, stream>>

Park(r) ==
    /\ Resumes(r) /\ ~Unavailable(r) /\ ~CanOpenStream /\ Goto(r, "parked")
    /\ UNCHANGED <<nextStreamId, streams, stream>>

\* MUTANT: a request that was woken does not look again.
OpenWhenWoken(r) ==
    /\ Resumes(r) /\ ~Unavailable(r) /\ (CanOpenStream \/ pc[r] = "woken")
    /\ Goto(r, "sent")
    /\ stream' = [stream EXCEPT ![r] = NewStream(nextStreamId, "idle")]
    /\ nextStreamId' = nextStreamId + 2
    /\ streams' = streams \union {r}

Open(r) ==
    /\ Resumes(r) /\ ~Unavailable(r) /\ CanOpenStream /\ Goto(r, "sent")
    /\ \E upload \in {"idle", "pumping"} :
          stream' = [stream EXCEPT ![r] = NewStream(nextStreamId, upload)]
    /\ nextStreamId' = nextStreamId + 2
    /\ streams' = streams \union {r}

\* The caller aborts: a parked request wakes, an open stream is reset.  The
\* signal of a request without a stream to come or to reset changes nothing.
Abort(r) ==
    /\ ~aborted[r] /\ aborted' = [aborted EXCEPT ![r] = TRUE]
    /\ \/ r \in streams /\ ResetStream(r)
       \/ /\ pc[r] \notin {"sent", "failed"}
          /\ pc' = [pc EXCEPT ![r] = IF @ = "parked" THEN "woken" ELSE @]
          /\ UNCHANGED <<teardown, counters, streams, stream>>

\* pumpBody: the body has ended and END_STREAM is being written; it has been
\* written; or the body failed.
UploadEnds(r) ==
    /\ stream[r].upload = "pumping"
    /\ stream' = [stream EXCEPT ![r].upload = "ending"]
    /\ UNCHANGED <<teardown, counters, pc, aborted, streams>>

UploadSent(r) ==
    /\ stream[r].upload = "ending"
    /\ stream' = [stream EXCEPT ![r].upload = "idle", ![r].localClosed = TRUE]
    /\ Retire(r)
    /\ UNCHANGED <<counters, aborted>>

UploadFails(r) ==
    /\ stream[r].upload = "pumping"
    /\ ResetStream(r)
    /\ UNCHANGED aborted

----------------------------------------------------------------------------
(* Frames.  One for a stream that has left the map, or after the connection  *)
(* was closed, has no effect: what DATA takes from the connection window is  *)
(* given back in the same job, and a closed connection uses nothing it sets. *)

\* HEADERS: the response; trailers; a response and its end at once; or an
\* interim response, which has no effect but that of END_STREAM.
Headers(r, interim, end) ==
    /\ r \in streams
    /\ interim => stream[r].head = "pending"
    /\ stream' = [stream EXCEPT ![r] =
          LET s == [@ EXCEPT !.head = IF interim THEN @ ELSE "ok",
                             !.remoteClosed = @ \/ end]
          IN  IF end /\ ~interim THEN Woken([s EXCEPT !.recvEnded = TRUE]) ELSE s]
    /\ stream' # stream
    /\ Retire(r)
    /\ UNCHANGED <<counters, aborted>>

\* DATA of n bytes and pad bytes of padding, within both windows.  The padding
\* counts and is given back at once.
Data(r, n, pad, end) ==
    /\ r \in streams /\ ~stream[r].remoteClosed
    /\ n + pad <= connRecvAvailable
    /\ n + pad <= stream[r].recvWindow
    /\ connRecvAvailable' = connRecvAvailable - n
    /\ LET kept == IF BodyDone(stream[r]) THEN 0 ELSE n
       IN  stream' = [stream EXCEPT ![r] = Woken([@ EXCEPT
                !.recvWindow = @ - n,
                !.recvQueue = IF kept > 0 THEN Append(@, kept) ELSE @,
                !.recvBuffered = @ + kept,
                !.owed = @ + n,
                !.recvEnded = @ \/ end,
                !.remoteClosed = end])]
    /\ Retire(r)
    /\ UNCHANGED <<limit, nextStreamId, aborted>>

\* RST_STREAM; DATA beyond the window or the end of the stream; a frame that is
\* wrong for this stream only.
StreamReset(r) ==
    /\ r \in streams /\ ResetStream(r)
    /\ UNCHANGED aborted

\* MUTANT: the excluded streams are forgotten.
GoawayForgets(last) ==
    /\ ~closed /\ goaway' = TRUE
    /\ streams' = {r \in streams : stream[r].id <= last}
    /\ UNCHANGED <<closed, counters, aborted, stream>>
    /\ WakeStreamSlots

\* GOAWAY: the streams beyond the last one that the peer will answer fail, but
\* their consumers keep what has arrived.
Goaway(last) ==
    LET excluded == {r \in streams : stream[r].id > last}
    IN  /\ ~closed /\ goaway' = TRUE
        /\ streams' = streams \ excluded
        /\ stream' = [r \in Request |->
                        IF r \in excluded THEN Failed(stream[r]) ELSE stream[r]]
        /\ UNCHANGED <<closed, counters, aborted>>
        /\ WakeStreamSlots

\* MUTANT: nobody hears of a higher limit.
SettingsSilent ==
    /\ ~closed /\ limit' \in Limits \ {limit}
    /\ UNCHANGED <<teardown, nextStreamId, connRecvAvailable, pc, aborted, streams, stream>>

\* SETTINGS with a new MAX_CONCURRENT_STREAMS.
Settings ==
    /\ ~closed /\ limit' \in Limits \ {limit}
    /\ UNCHANGED <<closed, goaway, nextStreamId, connRecvAvailable, aborted,
                   streams, stream>>
    /\ WakeStreamSlots

\* connectionError, a GOAWAY with an error code, a failed write, the end of the
\* transport.
Lost == ~closed /\ UNCHANGED goaway /\ Destroy

\* close() writes a GOAWAY and then destroys the connection.
CallClose ==
    /\ ~closed /\ ~closing /\ closing' = TRUE
    /\ UNCHANGED <<closed, goaway, counters, pc, aborted, streams, stream>>

CloseWritten == closing /\ Lost

----------------------------------------------------------------------------
(* The consumer of a response. *)

\* MUTANT: credit for the bytes of the window, whatever was consumed.
ReplenishedFull(r, s, n) ==
    IF r \in streams /\ ~s.remoteClosed
    THEN [s EXCEPT !.recvWindow = @ + StreamWindow] ELSE s

\* replenishRecvWindow: n bytes of stream r were consumed.  Only a stream that
\* the peer may still use gets credit of its own.
Replenished(r, s, n) ==
    IF r \in streams /\ ~s.remoteClosed THEN [s EXCEPT !.recvWindow = @ + n] ELSE s

Reads(r) == stream[r].head = "ok" /\ stream[r].reader \in {"idle", "woken"}

\* pullBody: a chunk, or the error, or the end, or wait for one of them.
PullChunk(r) ==
    /\ Reads(r) /\ stream[r].recvQueue # <<>>
    /\ LET n == Head(stream[r].recvQueue)
       IN  /\ stream' = [stream EXCEPT ![r] = Replenished(r, [@ EXCEPT
                   !.recvQueue = Tail(@), !.recvBuffered = @ - n,
                   !.owed = @ - n, !.reader = "idle"], n)]
           /\ ReplenishConnectionWindow(n)
    /\ UNCHANGED <<teardown, limit, nextStreamId, pc, aborted, streams>>

\* MUTANT: the end is looked at before the error.
PullOutcomeEndFirst(s) ==
    IF s.recvEnded THEN "closed" ELSE IF s.recvError THEN "errored" ELSE "parked"

PullOutcome(s) ==
    IF s.recvError THEN "errored" ELSE IF s.recvEnded THEN "closed" ELSE "parked"

PullRest(r) ==
    /\ Reads(r) /\ stream[r].recvQueue = <<>>
    /\ stream' = [stream EXCEPT ![r] = [@ EXCEPT !.reader = PullOutcome(stream[r])]]
    /\ UNCHANGED <<teardown, counters, pc, aborted, streams>>

\* cancelBody: the consumer walks away; a stream that is live is reset.
Cancel(r) ==
    LET s == stream[r]
        live == ~s.recvEnded /\ ~s.recvError
        left == Discarded([Replenished(r, s, s.recvBuffered) EXCEPT
                             !.reader = "cancelled"])
    IN  /\ s.head = "ok" /\ ~BodyDone(s)
        /\ ReplenishConnectionWindow(s.recvBuffered)
        /\ UNCHANGED <<closed, goaway, limit, nextStreamId, aborted>>
        /\ \/ /\ live /\ r \in streams
              /\ streams' = streams \ {r}
              /\ stream' = [stream EXCEPT ![r] = Failed(left)]
              /\ WakeStreamSlots
           \/ /\ ~(live /\ r \in streams)
              /\ stream' = [stream EXCEPT ![r] = left]
              /\ UNCHANGED <<streams, pc, closing>>

----------------------------------------------------------------------------
Step(r) == Start(r) \/ Rejected(r) \/ Park(r) \/ Open(r)

Next ==
    \/ \E r \in Request :
          \/ Step(r) \/ Abort(r) \/ UploadEnds(r) \/ UploadSent(r) \/ UploadFails(r)
          \/ \E interim, end \in BOOLEAN : Headers(r, interim, end)
          \/ \E n \in 0..StreamWindow, pad \in 0..1, end \in BOOLEAN : Data(r, n, pad, end)
          \/ StreamReset(r) \/ PullChunk(r) \/ PullRest(r) \/ Cancel(r)
    \/ \E last \in 0..nextStreamId : Goaway(last)
    \/ Settings \/ Lost \/ CallClose \/ CloseWritten

Spec == Init /\ [][Next]_vars

----------------------------------------------------------------------------
(* Properties. *)

TypeOK ==
    /\ closed \in BOOLEAN /\ goaway \in BOOLEAN /\ closing \in BOOLEAN
    /\ limit \in Limits \union {Cardinality(Request)}
    /\ nextStreamId \in Nat /\ connRecvAvailable \in 0..ConnWindow
    /\ pc \in [Request -> {"new", "ready", "parked", "woken", "sent", "failed"}]
    /\ aborted \in [Request -> BOOLEAN]
    /\ streams \subseteq Request
    /\ \A r \in Request :
          /\ stream[r].upload \in {"idle", "pumping", "ending"}
          /\ stream[r].head \in {"pending", "ok", "failed"}
          /\ stream[r].reader \in {"idle", "parked", "woken", "closed", "errored", "cancelled"}
          /\ stream[r].recvWindow \in 0..StreamWindow
          /\ stream[r].recvBuffered \in 0..StreamWindow

\* No flow-control credit is lost and none is made up, whatever resets, cancels,
\* aborts and GOAWAYs happen between the arrival of bytes and their
\* consumption: until the connection closes, its window and the unread bytes
\* of all streams, retired ones too, add up to the window it announced; and so
\* do those of a stream that the peer may still send on.  (A leak stalls every
\* later response on the connection.)
ReceiveCredit ==
    /\ ~closed => connRecvAvailable
                    + MapThenSumSet(LAMBDA r : stream[r].recvBuffered, Request) = ConnWindow
    /\ \A r \in streams : ~stream[r].remoteClosed =>
          stream[r].recvWindow + stream[r].recvBuffered = StreamWindow

\* A request that waits for a stream slot has a reason to: there is no slot, it
\* is not aborted, and the connection is neither closed nor left by the peer.
\* (Each of them wakes the waiters; a wake-up that is missed is a request that
\* never returns.)
NoForgottenWaiter ==
    \A r \in Request : pc[r] = "parked" => ~CanOpenStream /\ ~Unavailable(r)

\* Nobody waits for a stream that has left the map: the head of its response is
\* settled, its reader is not parked and its pump has stopped ("Fail the pending
\* request/body so it never hangs"); and an aborted request has no stream.  The
\* exception is a peer that ends a stream without a final response.
NobodyHangs ==
    /\ \A r \in Request \ streams : LET s == stream[r] IN
          /\ pc[r] = "sent" /\ s.head = "pending" => s.remoteClosed /\ ~s.recvError
          /\ s.reader = "parked" => s.remoteClosed /\ ~s.recvEnded /\ ~s.recvError
          /\ s.upload # "pumping"
    /\ \A r \in streams : ~aborted[r]

\* A consumer sees the end of a response only if the peer ended it and every
\* byte that arrived was delivered: a stream that is reset, refused or lost
\* while it is read, before or after its END_STREAM, never looks complete ("so
\* a reset mid-download doesn't look like a clean EOF").
CleanEnd ==
    \A r \in Request : stream[r].reader = "closed" => stream[r].recvEnded /\ stream[r].owed = 0

\* A step that opens a stream respects the limit that the peer last announced
\* and opens none on a connection that is closed or left by the peer, whoever
\* was woken together ("waking waiters can never over-allocate the limit").
SlotsRespected ==
    [][streams' \subseteq streams
       \/ (Cardinality(streams') <= limit /\ ~closed /\ ~goaway)]_vars

\* A connection that the peer leaves is closing or closed once its last stream
\* is gone, however the streams went (END_STREAM on both sides, a reset, a
\* cancel, the GOAWAY itself), and no stream survives the connection.
DrainedCloses ==
    /\ goaway /\ streams = {} => closing \/ closed
    /\ closed => streams = {}
=============================================================================
