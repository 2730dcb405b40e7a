------------------------------- MODULE Upload -------------------------------
(* The sending half of the HTTP/2 engine: request bodies under flow control, *)
(* SendWindow of web/src/h2/flow.ts, and sendHeaders, pumpBody, the write    *)
(* queue, WINDOW_UPDATE and SETTINGS of web/src/h2/connection.ts.            *)
(*                                                                           *)
(* Every await of pumpBody ends a step, so that frames, resets and other     *)
(* pumps come in between.  The peer keeps the books that RFC 9113 prescribes *)
(* for it and remembers whether it ever saw a violation.  Slots, responses   *)
(* and the receive windows are modelled by H2.                               *)
EXTENDS Integers, Sequences, Functions

CONSTANTS
    Streams,        \* the requests
    Body(_),        \* the lengths of the chunks of a request body
    BlockSize,      \* the length of a request's header block
    SpecWindow,     \* SPEC_INITIAL_WINDOW
    FirstFrameSize, \* the first limit of the frame size
    Windows,        \* values of SETTINGS_INITIAL_WINDOW_SIZE the peer may send
    FrameSizes,     \* values of SETTINGS_MAX_FRAME_SIZE the peer may send
    Increments,     \* increments of WINDOW_UPDATE it may send
    \* bounds: the credit the peer has given and not seen used, its frames under
    \* way, and the events that are neither progress of a body nor new credit
    MaxCredit, MaxIn, MaxRare

ASSUME UploadAssumption ==
    /\ SpecWindow \in Nat /\ Windows \subseteq Nat /\ Increments \subseteq Nat
    /\ FirstFrameSize \in Nat \ {0} /\ FrameSizes \subseteq Nat \ {0} /\ BlockSize \in Nat
    /\ MaxCredit \in Nat /\ MaxIn \in Nat /\ MaxRare \in Nat
    /\ \A s \in Streams : Body(s) \in Seq(Nat)

VARIABLES
    connAvailable, connClosed,  \* connSendWindow.available; closedFlag
    available, closed,          \* the send window of each stream
    live, remoteClosed,         \* the streams in the map; those the peer has ended
    pc, chunks, rest,           \* pumpBody: where it is, chunks and bytes left
    initialWindow, maxFrame,    \* remote.initialWindowSize, remote.maxFrameSize
    out, in,                    \* the write queue; frames from the peer
    peer,                       \* the books of the peer
    rare                        \* SETTINGS, ends, errors and failures so far

pump == <<pc, chunks, rest>>
windows == <<connAvailable, connClosed, available, closed>>
map == <<live, remoteClosed>>
remote == <<initialWindow, maxFrame>>
vars == <<windows, map, pump, remote, out, in, peer, rare>>

Init ==
    /\ connAvailable = SpecWindow /\ connClosed = FALSE
    /\ available = [s \in Streams |-> 0] /\ closed = [s \in Streams |-> FALSE]
    /\ live = {} /\ remoteClosed = {}
    /\ pc = [s \in Streams |-> "idle"]
    /\ chunks = [s \in Streams |-> Body(s)] /\ rest = [s \in Streams |-> 0]
    /\ initialWindow = SpecWindow /\ maxFrame = FirstFrameSize
    /\ out = <<>> /\ in = <<>> /\ rare = 0
    /\ peer = [credit |-> SpecWindow, spent |-> [s \in Streams |-> 0],
               windows |-> {SpecWindow}, frames |-> {FirstFrameSize},
               initial |-> SpecWindow, frame |-> FirstFrameSize,
               got |-> [s \in Streams |-> 0], seen |-> {}, ended |-> {}, reset |-> {},
               answered |-> {}, block |-> {}, fault |-> FALSE]

\* wake: the promises of all waiters resolve; where their pumps go on.
Wake(p, from, to, who) == [s \in Streams |-> IF s \in who /\ p[s] = from THEN to ELSE p[s]]

Frame(s, kind, size, end) == [stream |-> s, kind |-> kind, size |-> size, end |-> end]
Rarely == rare < MaxRare /\ rare' = rare + 1
Least(m, n) == IF m < n THEN m ELSE n

----------------------------------------------------------------------------
(* Requests *)

\* sendHeaders: one block, in as many frames as its size needs, without a pause.
HeaderFrames(s) ==
    LET count == IF BlockSize <= maxFrame THEN 1 ELSE (BlockSize + maxFrame - 1) \div maxFrame
    IN [i \in 1..count |->
          Frame(s, IF i = 1 THEN "HEADERS" ELSE "CONTINUATION",
                Least(maxFrame, BlockSize - (i - 1) * maxFrame), i = count)]

\* request, from the reserved slot on: a stream with the current initial window.
Open(s) ==
    /\ pc[s] = "idle" /\ ~connClosed
    /\ live' = live \union {s}
    /\ available' = [available EXCEPT ![s] = initialWindow]
    /\ out' = out \o HeaderFrames(s)
    /\ pc' = [pc EXCEPT ![s] = "next"]
    /\ UNCHANGED <<connAvailable, connClosed, closed, remoteClosed, chunks, rest, remote, in, peer, rare>>

Stopped(s) == connClosed \/ closed[s]

\* iterateBody: the next chunk that is not empty.
NextChunk(s) ==
    /\ pc[s] = "next" /\ ~closed[s] /\ chunks[s] # <<>>
    /\ rest' = [rest EXCEPT ![s] = Head(chunks[s])]
    /\ chunks' = [chunks EXCEPT ![s] = Tail(@)]
    /\ pc' = [pc EXCEPT ![s] = IF Head(chunks[s]) = 0 THEN "next" ELSE "check"]
    /\ UNCHANGED <<windows, map, remote, out, in, peer, rare>>

\* MUTANT: the end is sent although the stream was reset meanwhile.
LastChunkAlways(s) ==
    /\ pc[s] = "next" /\ (closed[s] \/ chunks[s] = <<>>)
    /\ pc' = [pc EXCEPT ![s] = IF connClosed THEN "done" ELSE "ending"]
    /\ out' = IF connClosed THEN out ELSE Append(out, Frame(s, "DATA", 0, TRUE))
    /\ UNCHANGED <<windows, map, chunks, rest, remote, in, peer, rare>>

\* The body is at its end, or its reader was canceled; END_STREAM only goes out
\* on a stream that is still live.
LastChunk(s) ==
    /\ pc[s] = "next" /\ (closed[s] \/ chunks[s] = <<>>)
    /\ LET over == Stopped(s) \/ s \notin live
       IN /\ pc' = [pc EXCEPT ![s] = IF over THEN "done" ELSE "ending"]
          /\ out' = IF over THEN out ELSE Append(out, Frame(s, "DATA", 0, TRUE))
    /\ UNCHANGED <<windows, map, chunks, rest, remote, in, peer, rare>>

----------------------------------------------------------------------------
(* The loop of pumpBody over one chunk *)

\* connSendWindow.waitPositive.
Check(s) ==
    /\ pc[s] = "check"
    /\ pc' = [pc EXCEPT ![s] = IF Stopped(s) THEN "done"
                               ELSE IF connAvailable > 0 THEN "stream" ELSE "connWait"]
    /\ UNCHANGED <<windows, map, chunks, rest, remote, out, in, peer, rare>>

\* stream.sendWindow.waitPositive.
CheckStream(s) ==
    /\ pc[s] = "stream"
    /\ pc' = [pc EXCEPT ![s] = IF available[s] > 0 \/ closed[s] THEN "grant" ELSE "streamWait"]
    /\ UNCHANGED <<windows, map, chunks, rest, remote, out, in, peer, rare>>

\* MUTANT: the connection window is not looked at again.
GrantedStale(s) == Least(rest[s], Least(available[s], maxFrame))

\* What both windows, looked at again, the chunk and the frame size allow.
Granted(s) == Least(Least(rest[s], connAvailable), Least(available[s], maxFrame))

\* Both windows were positive, but not at the same time; or the stream is gone.
GrantNothing(s) ==
    /\ pc[s] = "grant" /\ (Stopped(s) \/ Granted(s) <= 0)
    /\ pc' = [pc EXCEPT ![s] = IF Stopped(s) THEN "done" ELSE "check"]
    /\ UNCHANGED <<windows, map, chunks, rest, remote, out, in, peer, rare>>

\* consume both windows, in the same step as the DATA frame is queued.
Grant(s) ==
    /\ pc[s] = "grant" /\ ~Stopped(s) /\ Granted(s) > 0
    /\ connAvailable' = connAvailable - Granted(s)
    /\ available' = [available EXCEPT ![s] = @ - Granted(s)]
    /\ rest' = [rest EXCEPT ![s] = @ - Granted(s)]
    /\ out' = Append(out, Frame(s, "DATA", Granted(s), FALSE))
    /\ pc' = [pc EXCEPT ![s] = "sending"]
    /\ UNCHANGED <<connClosed, closed, map, chunks, remote, in, peer, rare>>

----------------------------------------------------------------------------
(* The peer's books of what it receives *)

\* What RFC 9113 lets a receiver reject: a header block that is interrupted,
\* DATA beyond the windows or after the end, a frame that is too large.  Until
\* a SETTINGS frame is acknowledged, its values and the ones before both hold.
Faulty(f) ==
    \/ IF f.kind = "CONTINUATION" THEN peer.block # {f.stream} ELSE peer.block # {}
    \/ f.size > 0 /\ \A m \in peer.frames : f.size > m
    \/ /\ f.kind = "DATA"
       /\ \/ f.stream \in peer.ended \union peer.reset \/ f.stream \notin peer.seen
          \/ f.size > peer.credit
          \/ f.size > 0 /\ \A w \in peer.windows : peer.spent[f.stream] + f.size > w

Taken(f) ==
    [peer EXCEPT
       !.fault = @ \/ Faulty(f),
       !.block = IF f.kind \in {"HEADERS", "CONTINUATION"} /\ ~f.end THEN {f.stream} ELSE {},
       !.seen = IF f.kind = "HEADERS" THEN @ \union {f.stream} ELSE @,
       !.credit = IF f.kind = "DATA" THEN @ - f.size ELSE @,
       !.spent = IF f.kind = "DATA" THEN [@ EXCEPT ![f.stream] = @ + f.size] ELSE @,
       !.got = IF f.kind = "DATA" THEN [@ EXCEPT ![f.stream] = @ + f.size] ELSE @,
       !.ended = IF f.kind = "DATA" /\ f.end THEN @ \union {f.stream} ELSE @,
       !.reset = IF f.kind = "RST_STREAM" THEN @ \union {f.stream} ELSE @,
       !.windows = IF f.kind = "ACK" THEN {peer.initial} ELSE @,
       !.frames = IF f.kind = "ACK" THEN {peer.frame} ELSE @]

\* MUTANT: what is left of the chunk is forgotten after its first frame.
ResumedForgetting(s) ==
    [pc EXCEPT ![s] = IF @ = "ending" THEN "done" ELSE IF @ = "sending" THEN "next" ELSE @]

\* The pump that awaits a write goes on behind it.
Resumed(s) ==
    [pc EXCEPT ![s] = IF @ = "ending" THEN "done"
                      ELSE IF @ # "sending" THEN @
                      ELSE IF rest[s] = 0 THEN "next" ELSE "check"]

\* The write of the first frame in the queue ends; a stream whose two sides have
\* ended leaves the map.
Written ==
    /\ out # <<>>
    /\ LET f == Head(out) IN
       /\ out' = Tail(out)
       /\ peer' = Taken(f)
       /\ pc' = IF f.kind = "DATA" THEN Resumed(f.stream) ELSE pc
       /\ live' = IF f.kind = "DATA" /\ pc[f.stream] = "ending" /\ f.stream \in remoteClosed
                  THEN live \ {f.stream} ELSE live
    /\ UNCHANGED <<windows, remoteClosed, chunks, rest, remote, in, rare>>

----------------------------------------------------------------------------
(* The end of a stream or of the connection *)

Send(q, f) == IF connClosed THEN q ELSE Append(q, f)

\* stream.fail closes the send window, whose waiter wakes.
Fail(who, p) ==
    /\ closed' = [s \in Streams |-> closed[s] \/ s \in who]
    /\ pc' = Wake(p, "streamWait", "grant", who)
    /\ live' = live \ who

\* resetStream: RST_STREAM goes out in any case.
Reset(s, p) ==
    /\ out' = Send(out, Frame(s, "RST_STREAM", 0, TRUE))
    /\ Fail({s} \intersect live, p)

\* The signal aborts, or the response body is canceled.
Abort(s) ==
    /\ Rarely
    /\ s \in live
    /\ Reset(s, pc)
    /\ UNCHANGED <<connAvailable, connClosed, available, remoteClosed, chunks, rest, remote, in, peer>>

\* The reader of the body throws; the pump's catch resets the stream.
BodyFails(s) ==
    /\ Rarely
    /\ pc[s] = "next" /\ s \in live
    /\ Reset(s, [pc EXCEPT ![s] = "done"])
    /\ UNCHANGED <<connAvailable, connClosed, available, remoteClosed, chunks, rest, remote, in, peer>>

\* destroy: what is queued is still flushed.
Destroy(p) ==
    /\ connClosed' = TRUE
    /\ Fail(live, Wake(p, "connWait", "stream", Streams))

\* The last step of close, or the transport's readable side ends.  The GOAWAY that
\* close sends and awaits before is no part of a stream or a window.
Close ==
    /\ Rarely
    /\ ~connClosed
    /\ Destroy(pc)
    /\ UNCHANGED <<connAvailable, available, remoteClosed, chunks, rest, remote, out, in, peer>>

\* A write fails: the connection is destroyed, the pumps that wait for a write throw.
WriteFails ==
    /\ Rarely
    /\ out # <<>>
    /\ out' = <<>>
    /\ LET thrown == [s \in Streams |-> IF pc[s] \in {"sending", "ending"} THEN "done" ELSE pc[s]]
       IN IF connClosed THEN pc' = thrown /\ UNCHANGED <<connClosed, closed, live>>
                        ELSE Destroy(thrown)
    /\ UNCHANGED <<connAvailable, available, remoteClosed, chunks, rest, remote, in, peer>>

----------------------------------------------------------------------------
(* Frames from the peer *)

\* update of connSendWindow; an increment of zero is a connection error.
OnConnUpdate ==
    /\ in # <<>> /\ Head(in).kind = "WINDOW_UPDATE" /\ Head(in).stream = {}
    /\ in' = Tail(in)
    /\ IF Head(in).size = 0
       THEN /\ IF connClosed THEN UNCHANGED <<connClosed, closed, live, pc>> ELSE Destroy(pc)
            /\ UNCHANGED connAvailable
       ELSE /\ connAvailable' = connAvailable + Head(in).size
            /\ pc' = IF connAvailable' > 0 THEN Wake(pc, "connWait", "stream", Streams) ELSE pc
            /\ UNCHANGED <<connClosed, closed, live>>
    /\ UNCHANGED <<available, remoteClosed, chunks, rest, remote, out, peer, rare>>

\* update of a stream's window, if the stream is in the map; zero resets it.
OnUpdate(s) ==
    /\ in # <<>> /\ Head(in).kind = "WINDOW_UPDATE" /\ Head(in).stream = {s}
    /\ in' = Tail(in)
    /\ IF Head(in).size = 0
       THEN Reset(s, pc) /\ UNCHANGED available
       ELSE /\ available' = [available EXCEPT ![s] = IF s \in live THEN @ + Head(in).size ELSE @]
            /\ pc' = IF available'[s] > 0 THEN Wake(pc, "streamWait", "grant", {s} \intersect live) ELSE pc
            /\ UNCHANGED <<closed, live, out>>
    /\ UNCHANGED <<connAvailable, connClosed, remoteClosed, chunks, rest, remote, peer, rare>>

\* MUTANT: adjust does not wake.
OnSettingsQuietly ==
    /\ in # <<>> /\ Head(in).kind = "SETTINGS"
    /\ in' = Tail(in)
    /\ available' = [s \in Streams |-> IF s \in live
                       THEN available[s] + (Head(in).size - initialWindow) ELSE available[s]]
    /\ initialWindow' = Head(in).size /\ maxFrame' = Head(in).frame
    /\ out' = Send(out, Frame({}, "ACK", 0, TRUE))
    /\ UNCHANGED <<connAvailable, connClosed, closed, map, pump, peer, rare>>

\* applyRemoteSettings: adjust of the window of every stream; and the ACK.
OnSettings ==
    /\ in # <<>> /\ Head(in).kind = "SETTINGS"
    /\ in' = Tail(in)
    /\ LET adjusted == [s \in Streams |-> IF s \in live
                           THEN available[s] + (Head(in).size - initialWindow) ELSE available[s]]
       IN /\ available' = adjusted
          /\ pc' = Wake(pc, "streamWait", "grant", {s \in live : adjusted[s] > 0})
    /\ initialWindow' = Head(in).size /\ maxFrame' = Head(in).frame
    /\ out' = Send(out, Frame({}, "ACK", 0, TRUE))
    /\ UNCHANGED <<connAvailable, connClosed, closed, map, chunks, rest, peer, rare>>

\* RST_STREAM.
OnReset(s) ==
    /\ in # <<>> /\ Head(in).kind = "RST_STREAM" /\ Head(in).stream = {s}
    /\ in' = Tail(in)
    /\ Fail({s} \intersect live, pc)
    /\ UNCHANGED <<connAvailable, connClosed, available, remoteClosed, chunks, rest, remote, out, peer, rare>>

\* MUTANT: a stream leaves the map when the peer ends it.
OnEndRetires(s) ==
    /\ in # <<>> /\ Head(in).kind = "END" /\ Head(in).stream = {s}
    /\ in' = Tail(in)
    /\ remoteClosed' = remoteClosed \union ({s} \intersect live)
    /\ live' = live \ {s}
    /\ UNCHANGED <<windows, pump, remote, out, peer, rare>>

\* END_STREAM of the response; a stream leaves the map when both sides have ended.
OnEnd(s) ==
    /\ in # <<>> /\ Head(in).kind = "END" /\ Head(in).stream = {s}
    /\ in' = Tail(in)
    /\ remoteClosed' = remoteClosed \union ({s} \intersect live)
    /\ live' = IF pc[s] = "done" THEN live \ {s} ELSE live
    /\ UNCHANGED <<windows, pump, remote, out, peer, rare>>

----------------------------------------------------------------------------
(* What the peer sends *)

Sends(kind, who, size, frame) ==
    /\ Len(in) < MaxIn /\ ~connClosed
    /\ in' = Append(in, [kind |-> kind, stream |-> who, size |-> size, frame |-> frame])
    /\ UNCHANGED <<windows, map, pump, remote, out>>

Receiving(s) == s \in peer.seen \ (peer.ended \union peer.reset)

\* WINDOW_UPDATE for the connection or for a stream whose body is under way.
PeerGrants(n) ==
    /\ n > 0 /\ peer.credit + n <= MaxCredit
    /\ peer' = [peer EXCEPT !.credit = @ + n]
    /\ UNCHANGED rare
    /\ Sends("WINDOW_UPDATE", {}, n, 0)

PeerGrantsStream(s, n) ==
    /\ n > 0 /\ Receiving(s) /\ peer.initial - peer.spent[s] + n <= MaxCredit
    /\ peer' = [peer EXCEPT !.spent[s] = @ - n]
    /\ UNCHANGED rare
    /\ Sends("WINDOW_UPDATE", {s}, n, 0)

\* SETTINGS; the next only after the ACK.
PeerSets(w, m) ==
    /\ Rarely
    /\ peer.windows = {peer.initial} /\ peer.frames = {peer.frame}
    /\ <<w, m>> # <<peer.initial, peer.frame>>
    /\ peer' = [peer EXCEPT !.initial = w, !.frame = m,
                            !.windows = @ \union {w}, !.frames = @ \union {m}]
    /\ Sends("SETTINGS", {}, w, m)

\* RST_STREAM, or a WINDOW_UPDATE of zero for a stream or the connection.
PeerBreaks(kind, who) ==
    /\ Rarely
    /\ who \subseteq peer.seen
    /\ kind = "RST_STREAM" => who # {}
    /\ UNCHANGED peer
    /\ Sends(kind, who, 0, 0)

\* The response ends, perhaps before the request does.
PeerEnds(s) ==
    /\ Rarely
    /\ s \in peer.seen \ peer.answered
    /\ peer' = [peer EXCEPT !.answered = @ \union {s}]
    /\ Sends("END", {s}, 0, 0)

PumpStep(s) ==
    \/ Open(s) \/ NextChunk(s) \/ LastChunk(s)
    \/ Check(s) \/ CheckStream(s) \/ GrantNothing(s) \/ Grant(s)
OnFrame ==
    OnConnUpdate \/ OnSettings \/ \E s \in Streams : OnUpdate(s) \/ OnReset(s) \/ OnEnd(s)
PeerStep ==
    \/ \E n \in Increments : PeerGrants(n)
    \/ \E n \in Increments, s \in Streams : PeerGrantsStream(s, n)
    \/ \E w \in Windows, m \in FrameSizes : PeerSets(w, m)
    \/ \E s \in Streams : PeerEnds(s)
    \/ \E kind \in {"RST_STREAM", "WINDOW_UPDATE"}, who \in {{}} \union {{s} : s \in Streams} :
          PeerBreaks(kind, who)

Next ==
    \/ \E s \in Streams : PumpStep(s) \/ Abort(s) \/ BodyFails(s)
    \/ Written \/ Close \/ WriteFails \/ OnFrame \/ PeerStep

Spec == Init /\ [][Next]_vars

\* Promise reactions, the writer and the reader run as soon as they can; a peer
\* that receives a body gives new credit when there is none left.
Replenishes ==
    \E n \in Increments :
       \/ peer.credit <= 0 /\ PeerGrants(n)
       \/ \E s \in Streams : peer.initial - peer.spent[s] <= 0 /\ PeerGrantsStream(s, n)

FairSpec ==
    /\ Spec
    /\ \A s \in Streams : WF_vars(PumpStep(s))
    /\ WF_vars(Written) /\ WF_vars(OnFrame) /\ WF_vars(Replenishes)

----------------------------------------------------------------------------
(* Properties *)

Places == {"idle", "next", "check", "connWait", "stream", "streamWait",
           "grant", "sending", "ending", "done"}
InFrames == [kind : {"WINDOW_UPDATE", "SETTINGS", "RST_STREAM", "END"},
             stream : SUBSET Streams, size : Nat, frame : Nat]

\* TYPE INVARIANT; in particular the connection's window is never overdrawn.
TypeOK ==
    /\ connAvailable \in Nat /\ connClosed \in BOOLEAN
    /\ available \in [Streams -> Int] /\ closed \in [Streams -> BOOLEAN]
    /\ live \subseteq Streams /\ remoteClosed \subseteq Streams
    /\ pc \in [Streams -> Places]
    /\ rest \in [Streams -> Nat] /\ chunks \in [Streams -> Seq(Nat)]
    /\ initialWindow \in Nat /\ maxFrame \in Nat
    /\ in \in Seq(InFrames)

\* PEER ACCEPTS EVERYTHING: whatever pumps, settings, updates and resets
\* interleave, the peer receives no DATA beyond the connection's or the stream's
\* window, no frame above its limit, no interrupted header block, and nothing
\* on a stream after END_STREAM or RST_STREAM (pumpBody, sendHeaders).
PeerAccepts == ~peer.fault

\* NO LOST WAKE-UP: a pump waits for a window only while that window is empty
\* and open (waitPositive against update, adjust and close of SendWindow).
NoLostWakeup ==
    \A s \in Streams :
       /\ pc[s] = "connWait" => connAvailable = 0 /\ ~connClosed
       /\ pc[s] = "streamWait" => available[s] <= 0 /\ ~closed[s]

\* WHOLE BODY: END_STREAM reaches the peer only behind every byte of the body.
WholeBody == \A s \in peer.ended : rest[s] = 0 /\ chunks[s] = <<>> /\ peer.got[s] = FoldFunction(LAMBDA m, n : m + n, 0, Body(s))

\* UPLOADS END: every pump that starts comes to its end, its body sent or its
\* stream or connection gone, although the response may end first.
PumpsEnd == \A s \in Streams : pc[s] = "next" ~> pc[s] = "done"
=============================================================================
