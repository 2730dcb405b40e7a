------------------------------- MODULE Tunnel -------------------------------
(* One tunnel from end to end: openChannel of web/src/channel.ts in the      *)
(* browser, its WebSocket, and the three goroutines of the gateway (relay,   *)
(* the reader of the upstream connection, and the pinger) that share the     *)
(* frame writer of cmd/bridge/main.go.  The handshake of the gateway, its    *)
(* slots and the drain are modelled by Gateway; Expire stands for them here. *)
(*                                                                           *)
(* A byte is <<0, n>> and the header of a frame <<opcode, length>>, so that  *)
(* a header that lands inside a payload is seen for what it is.              *)
EXTENDS Integers, SequencesExt

CONSTANTS
    SliceSize, HighWater,   \* 16384 and 65536 in writable.write
    MaxQueue,               \* MAX_QUEUE of the readable
    BufferSize,             \* bufferSize of the gateway
    Tls,                    \* the listener serves TLS: a write that timed out is the last
    \* bounds: bytes and control frames that are sent, ends and errors that come
    \* by themselves, tokens and frames the network holds
    MaxWork, MaxFaults, DownRoom, UpRoom

ASSUME TunnelAssumption ==
    /\ {SliceSize, BufferSize, DownRoom, UpRoom} \subseteq Nat \ {0}
    /\ {HighWater, MaxQueue, MaxWork, MaxFaults} \subseteq Nat /\ Tls \in BOOLEAN

VARIABLES
    ws,        \* readyState of the browser's WebSocket
    opening,   \* the promise of openChannel, its timer and its abort listener
    readable,  \* the readable: ended, its queue, what the HTTP/2 engine read
    writable,  \* the writable: the rest of the write in progress, bytes written
    outbox,    \* frames handed to the WebSocket and not yet on the network
    link,      \* the client's end of the connection: "up", "fin", "gone"
    up, down,  \* the network: frames to the gateway, tokens to the client
    inbox,     \* tokens the client's side holds of an incomplete frame
    gw,        \* the gateway: its two connections, the frame writer, goroutines
    backend,   \* the upstream end: bytes written, read by the gateway, received
    budget     \* what is left of MaxWork and MaxFaults

client == <<ws, opening, readable, writable, outbox, link, inbox>>
vars == <<client, up, down, gw, backend, budget>>

Works(n) == budget.work >= n /\ budget' = [budget EXCEPT !.work = @ - n]
Faults == budget.faults > 0 /\ budget' = [budget EXCEPT !.faults = @ - 1]

Byte(n) == <<0, n>>
Alive == <<0, 0>>       \* the payload of a ping
Bytes(n) == [i \in 1..n |-> Byte(i)]
Frame(op, fin, data) == [op |-> op, fin |-> fin, data |-> data]
Cut(s, n) == [first |-> SubSeq(s, 1, n), rest |-> SubSeq(s, n + 1, Len(s))]
Least(m, n) == IF m < n THEN m ELSE n

Init ==
    /\ ws = "connecting"
    /\ opening = [state |-> "pending", timer |-> TRUE, listener |-> TRUE]
    /\ readable = [ended |-> FALSE, queue |-> <<>>, got |-> <<>>]
    /\ writable = [rest |-> <<>>, failed |-> FALSE, sent |-> 0]
    /\ outbox = <<>> /\ link = "up" /\ up = <<>> /\ down = <<>> /\ inbox = <<>>
    /\ gw = [client |-> TRUE, upstream |-> TRUE, closeSent |-> FALSE, stuck |-> FALSE,
             mu |-> "free", out |-> <<>>, data |-> <<>>,
             relay |-> "off", pump |-> "off", pinger |-> "off", fragmented |-> FALSE]
    /\ backend = [sent |-> 0, taken |-> 0, got |-> <<>>, closed |-> FALSE]
    /\ budget = [work |-> MaxWork, faults |-> MaxFaults]

----------------------------------------------------------------------------
(* openChannel: the promise that opening, timer, abort and errors race for.  *)

Settle(state) == opening' = [state |-> state, timer |-> FALSE, listener |-> FALSE]

\* ws.close(): the close frame follows what was sent before.
WsClose ==
    IF ws = "open" THEN ws' = "closing" /\ outbox' = Append(outbox, Frame(8, TRUE, <<>>))
    ELSE ws' = (IF ws = "connecting" THEN "closing" ELSE ws) /\ UNCHANGED outbox

\* ws.onopen, with the profile the gateway chose.
OnOpen ==
    /\ ws = "connecting" /\ gw.relay # "off" /\ gw.client /\ link = "up"
    /\ \/ Settle("open") /\ ws' = "open" /\ UNCHANGED outbox
       \/ Settle("failed") /\ ws' = "closing" /\ outbox' = Append(outbox, Frame(8, TRUE, <<>>))
    /\ UNCHANGED <<readable, writable, link, up, down, inbox, gw, backend, budget>>

\* MUTANT: abort leaves the timer behind.
AbortLeavesTimer ==
    /\ opening.listener /\ link = "up"
    /\ WsClose
    /\ opening' = [opening EXCEPT !.state = "failed", !.listener = FALSE]
    /\ UNCHANGED <<readable, writable, link, up, down, inbox, gw, backend, budget>>

\* abort: the caller's signal.
Abort ==
    /\ opening.listener /\ link = "up"
    /\ WsClose
    /\ Settle("failed")
    /\ UNCHANGED <<readable, writable, link, up, down, inbox, gw, backend, budget>>

\* The five seconds are over.
OpenTimer ==
    /\ opening.timer /\ link = "up"
    /\ WsClose
    /\ Settle("failed")
    /\ UNCHANGED <<readable, writable, link, up, down, inbox, gw, backend, budget>>

----------------------------------------------------------------------------
(* The readable and the writable of the channel. *)

\* fail: the stream errors once, and its queue is lost with it.
Ended(r) == [r EXCEPT !.ended = TRUE, !.queue = <<>>]

\* ws.onmessage, which the browser only calls on an open socket.
OnMessage(data) ==
    IF readable.ended \/ ws # "open" THEN UNCHANGED <<readable, ws, outbox>>
    ELSE IF Len(data) > MaxQueue - Len(readable.queue)
    THEN readable' = Ended(readable) /\ WsClose
    ELSE readable' = [readable EXCEPT !.queue = @ \o data] /\ UNCHANGED <<ws, outbox>>

\* ws.onclose and ws.onerror: the connection is lost, with what it carried.
OnClose ==
    /\ ws # "closed" /\ link = "up" /\ ~gw.client
    /\ ws' = "closed" /\ link' = "fin" /\ down' = <<>> /\ inbox' = <<>>
    /\ IF opening.state = "pending" THEN Settle("failed") ELSE UNCHANGED opening
    /\ readable' = Ended(readable)
    /\ UNCHANGED <<writable, outbox, up, gw, backend, budget>>

\* The read loop of the HTTP/2 engine takes what is queued.
Read ==
    /\ readable.queue # <<>> /\ link = "up"
    /\ readable' = [readable EXCEPT !.got = @ \o readable.queue, !.queue = <<>>]
    /\ UNCHANGED <<ws, opening, writable, outbox, link, up, down, inbox, gw, backend, budget>>

\* The engine cancels the readable, or closes or aborts the writable.
Cancel ==
    /\ opening.state = "open" /\ ws = "open" /\ link = "up"
    /\ WsClose
    /\ readable' \in {readable, Ended(readable)}
    /\ Faults
    /\ UNCHANGED <<opening, writable, link, up, down, inbox, gw, backend>>

\* The engine writes the next n bytes; a write that failed was the last one.
Write(n) ==
    /\ opening.state = "open" /\ link = "up"
    /\ writable.rest = <<>> /\ ~writable.failed /\ Works(n)
    /\ writable' = [writable EXCEPT !.sent = @ + n,
                        !.rest = SubSeq(Bytes(MaxWork), writable.sent + 1, writable.sent + n)]
    /\ UNCHANGED <<ws, opening, readable, outbox, link, up, down, inbox, gw, backend>>

\* What the socket has not sent; it keeps its value when the socket closes.
bufferedAmount == FoldLeft(LAMBDA n, f : n + Len(f.data), 0, outbox)

\* MUTANT: the slices are sent without looking at what is buffered.
WriteSliceEagerly ==
    /\ writable.rest # <<>> /\ link # "gone"
    /\ IF ws # "open"
       THEN writable' = [writable EXCEPT !.rest = <<>>, !.failed = TRUE] /\ UNCHANGED outbox
       ELSE LET slice == Cut(writable.rest, Least(SliceSize, Len(writable.rest)))
            IN /\ outbox' = Append(outbox, Frame(2, TRUE, slice.first))
               /\ writable' = [writable EXCEPT !.rest = slice.rest]
    /\ UNCHANGED <<ws, opening, readable, link, up, down, inbox, gw, backend, budget>>

\* MUTANT: the wait for room does not look at readyState.
WriteSliceWaits ==
    /\ writable.rest # <<>> /\ link # "gone"
    /\ bufferedAmount <= HighWater
    /\ IF ws # "open"
       THEN writable' = [writable EXCEPT !.rest = <<>>, !.failed = TRUE] /\ UNCHANGED outbox
       ELSE LET slice == Cut(writable.rest, Least(SliceSize, Len(writable.rest)))
            IN /\ outbox' = Append(outbox, Frame(2, TRUE, slice.first))
               /\ writable' = [writable EXCEPT !.rest = slice.rest]
    /\ UNCHANGED <<ws, opening, readable, link, up, down, inbox, gw, backend, budget>>

\* write: the next slice, once the socket has room or is no longer open.
WriteSlice ==
    /\ writable.rest # <<>> /\ link # "gone"
    /\ bufferedAmount <= HighWater \/ ws # "open"
    /\ IF ws # "open"
       THEN writable' = [writable EXCEPT !.rest = <<>>, !.failed = TRUE] /\ UNCHANGED outbox
       ELSE LET slice == Cut(writable.rest, Least(SliceSize, Len(writable.rest)))
            IN /\ outbox' = Append(outbox, Frame(2, TRUE, slice.first))
               /\ writable' = [writable EXCEPT !.rest = slice.rest]
    /\ UNCHANGED <<ws, opening, readable, link, up, down, inbox, gw, backend, budget>>

\* The socket had no room for 30 seconds.
WriteStalls ==
    /\ writable.rest # <<>> /\ link = "up" /\ bufferedAmount > HighWater /\ ws = "open"
    /\ WsClose
    /\ writable' = [writable EXCEPT !.rest = <<>>, !.failed = TRUE]
    /\ UNCHANGED <<opening, readable, link, up, down, inbox, gw, backend, budget>>

----------------------------------------------------------------------------
(* The browser's WebSocket and the network. *)

\* The next frame leaves, perhaps as two fragments.
Transmit ==
    /\ outbox # <<>> /\ link = "up" /\ gw.client /\ Len(up) < UpRoom
    /\ LET f == Head(outbox)
       IN \/ up' = Append(up, f) /\ outbox' = Tail(outbox)
          \/ /\ Len(f.data) > 1
             /\ up' = Append(up, Frame(f.op, FALSE, Cut(f.data, 1).first))
             /\ outbox' = <<Frame(0, TRUE, Cut(f.data, 1).rest)>> \o Tail(outbox)
    /\ UNCHANGED <<ws, opening, readable, writable, link, down, inbox, gw, backend, budget>>

\* A ping of the client, or a frame that relay refuses.
Control ==
    /\ ws = "open" /\ gw.client /\ Len(up) < UpRoom
    /\ \/ Works(1) /\ up' = Append(up, Frame(9, TRUE, <<Alive>>))
       \/ Faults /\ up' = Append(up, Frame(3, TRUE, <<>>))
    /\ UNCHANGED <<client, down, gw, backend>>

\* Bytes arrive.  A complete frame is a message, a ping to answer, or a close.
Receive ==
    LET buf == inbox \o down
        op == Head(buf)[1]
        frame == Cut(Tail(buf), Head(buf)[2])
    IN /\ buf # <<>> /\ link = "up" /\ ws \in {"open", "closing"}
       /\ down' = <<>>
       /\ IF Len(buf) <= Head(buf)[2]
          THEN down # <<>> /\ inbox' = buf /\ UNCHANGED <<readable, ws, outbox, up>>
          ELSE /\ inbox' = frame.rest
               /\ \/ op = 2 /\ OnMessage(frame.first) /\ UNCHANGED up
                  \/ /\ op = 9
                     /\ IF ws = "open" /\ gw.client
                        THEN Len(up) < UpRoom /\ up' = Append(up, Frame(10, TRUE, frame.first))
                        ELSE UNCHANGED up
                     /\ UNCHANGED <<readable, ws, outbox>>
                  \/ op = 10 /\ UNCHANGED <<readable, ws, outbox, up>>
                  \/ op = 8 /\ WsClose /\ UNCHANGED <<readable, up>>
       /\ UNCHANGED <<opening, writable, link, gw, backend, budget>>

\* The browser drops a connection that it is closing, or the host vanishes
\* without a word.
Disconnect(how) ==
    /\ link = "up" /\ ws # "closed" /\ (how = "fin" => ws = "closing")
    /\ link' = how /\ ws' = "closed" /\ inbox' = <<>>
    /\ IF opening.state = "pending" THEN Settle("failed") ELSE UNCHANGED opening
    /\ readable' = Ended(readable)
    /\ IF how = "gone" THEN Faults ELSE UNCHANGED budget
    /\ UNCHANGED <<writable, outbox, up, down, gw, backend>>

----------------------------------------------------------------------------
(* The gateway: the frame writer. *)

Writers == {"relay", "pump", "pinger"}

\* The frame a goroutine writes next: its opcode and payload.
Writing(g, who) ==
    CASE who = "pump" /\ g.pump = "send" -> {<<2, g.data>>}
      [] who = "pump" /\ g.pump = "eof" -> {<<8, <<>>>>}
      [] who = "pinger" /\ g.pinger = "ping" -> {<<9, <<Alive>>>>}
      [] who = "relay" /\ g.relay = "pong" -> {<<10, <<Alive>>>>}
      [] who = "relay" /\ g.relay \in {"echo", "fail"} -> {<<8, <<>>>>}
      [] OTHER -> {}

\* How it goes on when writeFrame returns.
Returned(g, who, ok) ==
    CASE who = "pump" ->
            [g EXCEPT !.pump = IF @ = "send" /\ ok THEN "read" ELSE "close", !.data = <<>>]
      [] who = "pinger" -> [g EXCEPT !.pinger = IF ok THEN "idle" ELSE "close"]
      [] who = "relay" ->
            [g EXCEPT !.relay = IF @ = "pong" THEN IF ok THEN "read" ELSE "fail" ELSE "close"]

\* writeAll: as much as the network takes; writeMu is held until all is written.
WriteAll(g, who, out) ==
    LET cut == Cut(out, Least(DownRoom - Len(down), Len(out)))
    IN /\ down' = down \o cut.first
       /\ gw' = IF cut.rest = <<>> THEN Returned([g EXCEPT !.mu = "free", !.out = <<>>], who, TRUE)
                ELSE [g EXCEPT !.mu = who, !.out = cut.rest]

\* MUTANT: a frame may follow the close frame.
WriteFrameAnyway(who) ==
    /\ gw.mu = "free"
    /\ \E w \in Writing(gw, who) :
          LET g == [gw EXCEPT !.closeSent = @ \/ w[1] = 8]
          IN IF ~gw.client \/ gw.stuck
             THEN gw' = Returned(g, who, FALSE) /\ UNCHANGED down
             ELSE WriteAll(g, who, <<<<w[1], Len(w[2])>>>> \o w[2])
    /\ UNCHANGED <<client, up, backend, budget>>

\* MUTANT: a frame is written without writeMu.
WriteFrameUnlocked(who) ==
    /\ gw.mu # who
    /\ \E w \in Writing(gw, who) :
          LET g == [gw EXCEPT !.closeSent = @ \/ w[1] = 8]
          IN IF gw.closeSent \/ ~gw.client \/ gw.stuck
             THEN gw' = Returned(g, who, FALSE) /\ UNCHANGED down
             ELSE WriteAll(g, who, <<<<w[1], Len(w[2])>>>> \o w[2])
    /\ UNCHANGED <<client, up, backend, budget>>

\* writeFrame gets writeMu; after a close frame it only returns ErrClosed.
WriteFrame(who) ==
    /\ gw.mu = "free"
    /\ \E w \in Writing(gw, who) :
          LET g == [gw EXCEPT !.closeSent = @ \/ w[1] = 8]
          IN IF gw.closeSent \/ ~gw.client \/ gw.stuck
             THEN gw' = Returned(g, who, FALSE) /\ UNCHANGED down
             ELSE WriteAll(g, who, <<<<w[1], Len(w[2])>>>> \o w[2])
    /\ UNCHANGED <<client, up, backend, budget>>

WriteContinues ==
    /\ gw.mu # "free" /\ gw.client /\ Len(down) < DownRoom
    /\ WriteAll(gw, gw.mu, gw.out)
    /\ UNCHANGED <<client, up, backend, budget>>

\* MUTANT: an error returns without releasing writeMu.
WriteFailsLocked ==
    /\ gw.mu # "free"
    /\ ~gw.client \/ link = "fin" \/ Len(down) = DownRoom
    /\ gw' = Returned([gw EXCEPT !.out = <<>>, !.stuck = Tls \/ link = "fin"], gw.mu, FALSE)
    /\ UNCHANGED <<client, up, down, backend, budget>>

\* The connection is closed or reset, or the 30 seconds of the write are over.
\* A tls.Conn fails all writes after one that timed out; a TCP socket does not.
WriteFails ==
    /\ gw.mu # "free"
    /\ ~gw.client \/ link = "fin" \/ Len(down) = DownRoom
    /\ gw' = Returned([gw EXCEPT !.mu = "free", !.out = <<>>,
                                 !.stuck = Tls \/ link = "fin"], gw.mu, FALSE)
    /\ UNCHANGED <<client, up, down, backend, budget>>

----------------------------------------------------------------------------
(* The gateway: its goroutines. *)

\* The upgrade is accepted and the goroutines start, or the request is refused.
Accept ==
    /\ gw.relay = "off"
    /\ \/ gw' = [gw EXCEPT !.relay = "read", !.pump = "read", !.pinger = "idle"]
       \/ gw' = [gw EXCEPT !.relay = "done", !.pump = "done", !.pinger = "done",
                           !.client = FALSE, !.upstream = FALSE]
    /\ UNCHANGED <<client, up, down, backend, budget>>

\* activeTunnel.close; what the client has sent is read no more.
Close(g) == gw' = [g EXCEPT !.client = FALSE, !.upstream = FALSE] /\ up' = <<>>

\* The lifetime timer, or a forced shutdown.
Expire ==
    /\ gw.relay \notin {"off", "done"} /\ gw.client
    /\ Close(gw) /\ Faults
    /\ UNCHANGED <<client, down, backend>>

\* The reader of the upstream connection: bytes to send, or the end.
PumpReads ==
    /\ gw.pump = "read"
    /\ \/ \E n \in 1..Least(BufferSize, backend.sent - backend.taken) :
             /\ gw.upstream
             /\ gw' = [gw EXCEPT !.pump = "send",
                           !.data = SubSeq(Bytes(MaxWork), backend.taken + 1, backend.taken + n)]
             /\ backend' = [backend EXCEPT !.taken = @ + n]
       \/ /\ gw.upstream /\ backend.closed /\ backend.taken = backend.sent
          /\ gw' = [gw EXCEPT !.pump = "eof"]
          /\ UNCHANGED backend
    /\ UNCHANGED <<client, up, down, budget>>

\* It returns: after a failed write or the close frame, or since the tunnel was
\* closed, when closeWith writes nothing.
PumpCloses ==
    /\ gw.pump = "close" \/ (gw.pump = "read" /\ ~gw.upstream)
    /\ Close([gw EXCEPT !.pump = "done"])
    /\ UNCHANGED <<client, down, backend, budget>>

\* The pinger: a tick, the end of the tunnel, or a ping that failed.
PingerTicks ==
    /\ gw.pinger = "idle" /\ gw.relay # "done"
    /\ gw' = [gw EXCEPT !.pinger = "ping"] /\ Works(1)
    /\ UNCHANGED <<client, up, down, backend>>

PingerEnds ==
    /\ \/ /\ gw.pinger = "idle" /\ gw.relay = "done"
          /\ gw' = [gw EXCEPT !.pinger = "done"] /\ UNCHANGED up
       \/ gw.pinger = "close" /\ Close([gw EXCEPT !.pinger = "done"])
    /\ UNCHANGED <<client, down, backend, budget>>

\* relay: the header of a frame, checked against the fragment in progress.
Admissible(f) ==
    \/ f.op = 0 /\ gw.fragmented
    \/ f.op = 2 /\ ~gw.fragmented
    \/ f.op \in {1, 8, 9, 10}

\* MUTANT: what a ping carries is forwarded.
RelayReadsForwardingPings ==
    /\ gw.relay = "read" /\ gw.client /\ up # <<>>
    /\ up' = Tail(up)
    /\ gw' = [gw EXCEPT !.relay = IF Head(up).op = 8 THEN "echo" ELSE "read"]
    /\ backend' = [backend EXCEPT !.got = @ \o Head(up).data]
    /\ UNCHANGED <<client, down, budget>>

\* relay: one chunk of a data frame goes upstream (what is left of the frame is
\* an opcode of its own, 1), or a control frame is handled.
RelayReads ==
    /\ gw.relay = "read" /\ gw.client /\ up # <<>>
    /\ LET f == Head(up)
           chunk == Cut(f.data, Least(BufferSize, Len(f.data)))
           header == [gw EXCEPT !.fragmented = IF f.op = 1 THEN @ ELSE ~f.fin]
       IN \/ /\ ~Admissible(f)
             /\ gw' = [gw EXCEPT !.relay = "fail"] /\ up' = Tail(up) /\ UNCHANGED <<backend, budget>>
          \/ /\ f.op \in {0, 1, 2} /\ Admissible(f) /\ gw.upstream /\ ~backend.closed
             /\ backend' = [backend EXCEPT !.got = @ \o chunk.first]
             /\ gw' = header
             /\ up' = IF chunk.rest = <<>> THEN Tail(up)
                      ELSE <<Frame(1, f.fin, chunk.rest)>> \o Tail(up)
             /\ UNCHANGED budget
          \/ /\ f.op \in {0, 1, 2} /\ Admissible(f)       \* the write upstream fails
             /\ IF gw.upstream /\ ~backend.closed THEN Faults ELSE UNCHANGED budget
             /\ gw' = [header EXCEPT !.relay = "fail"]
             /\ up' = Tail(up) /\ UNCHANGED backend
          \/ /\ f.op \in {8, 9, 10}
             /\ gw' = [gw EXCEPT !.relay = CASE f.op = 8 -> "echo" [] f.op = 9 -> "pong"
                                             [] OTHER -> "read"]
             /\ up' = Tail(up) /\ UNCHANGED <<backend, budget>>
    /\ UNCHANGED <<client, down>>

\* A read that fails: the connection was closed there, or here, when closeWith
\* writes nothing.
RelayLoses ==
    /\ gw.relay = "read"
    /\ ~gw.client \/ (link = "fin" /\ up = <<>>)
    /\ gw' = [gw EXCEPT !.relay = "close"]
    /\ UNCHANGED <<client, up, down, backend, budget>>

\* No pong within the read deadline.
RelayTimesOut ==
    /\ gw.relay = "read" /\ gw.client
    /\ gw' = [gw EXCEPT !.relay = "fail"]
    /\ IF link = "gone" THEN UNCHANGED budget ELSE Faults
    /\ UNCHANGED <<client, up, down, backend>>

\* MUTANT: only the reader of the upstream closes the tunnel.
RelayEndsOnly ==
    /\ \/ gw.relay = "close" /\ gw' = [gw EXCEPT !.relay = "wait"]
       \/ gw.relay = "wait" /\ gw.pump = "done" /\ gw' = [gw EXCEPT !.relay = "done"]
    /\ UNCHANGED <<client, up, down, backend, budget>>

\* relay has returned: both connections are closed and the reader awaited.
RelayEnds ==
    /\ \/ gw.relay = "close" /\ Close([gw EXCEPT !.relay = "wait"])
       \/ /\ gw.relay = "wait" /\ gw.pump = "done"
          /\ gw' = [gw EXCEPT !.relay = "done"] /\ UNCHANGED up
    /\ UNCHANGED <<client, down, backend, budget>>

\* The backend writes a byte, or ends the connection.
BackendWrites ==
    /\ ~backend.closed /\ gw.upstream
    /\ \/ Works(1) /\ backend' = [backend EXCEPT !.sent = @ + 1]
       \/ Faults /\ backend' = [backend EXCEPT !.closed = TRUE]
    /\ UNCHANGED <<client, up, down, gw>>

----------------------------------------------------------------------------
Next ==
    \/ OnOpen \/ Abort \/ OpenTimer \/ OnClose \/ Read \/ Cancel
    \/ \E n \in 1..MaxWork : Write(n)
    \/ WriteSlice \/ WriteStalls
    \/ Transmit \/ Control \/ Receive
    \/ \E how \in {"fin", "gone"} : Disconnect(how)
    \/ \E who \in Writers : WriteFrame(who)
    \/ WriteContinues \/ WriteFails
    \/ Accept \/ Expire \/ PumpReads \/ PumpCloses \/ PingerTicks \/ PingerEnds
    \/ RelayReads \/ RelayLoses \/ RelayTimesOut \/ RelayEnds
    \/ BackendWrites

Spec == Init /\ [][Next]_vars

\* Goroutines and event handlers run, the network moves, a read deadline that
\* no pong renews expires, and a browser gives up on a close without an answer.
FairSpec ==
    /\ Spec
    /\ WF_vars(OnOpen) /\ WF_vars(OpenTimer) /\ WF_vars(OnClose) /\ WF_vars(Read)
    /\ WF_vars(WriteSlice) /\ WF_vars(WriteStalls)
    /\ WF_vars(Transmit) /\ WF_vars(Receive)
    /\ WF_vars(Disconnect("fin"))
    /\ \A who \in Writers : SF_vars(WriteFrame(who))
    /\ WF_vars(WriteContinues) /\ WF_vars(WriteFails)
    /\ WF_vars(Accept) /\ WF_vars(PumpReads) /\ WF_vars(PumpCloses) /\ WF_vars(PingerEnds)
    /\ WF_vars(RelayReads) /\ WF_vars(RelayLoses) /\ WF_vars(RelayEnds)
    /\ WF_vars(link = "gone" /\ RelayTimesOut)

----------------------------------------------------------------------------
(* Correctness *)

\* Type invariant.
TypeOK ==
    /\ ws \in {"connecting", "open", "closing", "closed"} /\ link \in {"up", "fin", "gone"}
    /\ opening \in [state : {"pending", "open", "failed"}, timer : BOOLEAN, listener : BOOLEAN]
    /\ readable.ended \in BOOLEAN /\ writable.sent \in 0..MaxWork
    /\ Len(up) <= UpRoom /\ Len(down) <= DownRoom
    /\ gw.mu \in Writers \union {"free"} /\ (gw.mu = "free") = (gw.out = <<>>)
    /\ backend.taken <= backend.sent

\* docs/DESIGN.md: "binary and continuation payloads form a continuous byte
\* stream".  Each direction of the tunnel implements Pipe: the engine reads what
\* the backend wrote until its readable errors, and the backend receives what the
\* engine wrote until its connection is closed, through slices, fragments, chunks,
\* the receive queue and the control frames between them.
DownPipe == INSTANCE Pipe WITH
    sent <- Bytes(backend.sent), received <- readable.got, broken <- readable.ended
UpPipe == INSTANCE Pipe WITH
    sent <- Bytes(writable.sent), received <- backend.got, broken <- ~gw.upstream
DownIsAPipe == DownPipe!Spec
UpIsAPipe == UpPipe!Spec

Headers == {i \in DOMAIN down : down[i][1] # 0}

\* "A close frame ends the WebSocket write side": whichever goroutine wrote it,
\* no data, ping, pong or second close frame follows on the network.
CloseIsLast ==
    \A i \in Headers : down[i][1] = 8 => \A j \in Headers : j <= i

\* The channel buffers a bounded amount: a write waits while more than the high
\* water mark is unsent, and the receive queue never exceeds its limit.
ChannelBounded == bufferedAmount <= HighWater + SliceSize /\ Len(readable.queue) <= MaxQueue

\* Whoever wins the race for the opening promise, nothing is left of it: no
\* timer or listener that could close a socket in use later, and no socket left
\* open by an attempt that failed.
OpeningSettled ==
    /\ opening.state # "pending" => ~opening.timer /\ ~opening.listener
    /\ opening.state = "failed" => ws \in {"closing", "closed"}

\* The end of any part is the end of all: when a leg, the socket, the backend or
\* the client is gone, the goroutines return, both connections are closed and the
\* engine's readable has failed.
Ending == ws \in {"closing", "closed"} \/ backend.closed \/ ~gw.client
TornDown ==
    Ending ~> /\ gw.relay = "done" /\ gw.pump = "done" /\ gw.pinger = "done"
              /\ ~gw.client /\ ~gw.upstream
              /\ readable.ended /\ ws = "closed"

\* A write of the engine always returns, whether the socket drains, stalls or
\* closes; it is never left waiting for room.
WriteReturns == writable.rest # <<>> ~> writable.rest = <<>> \/ link = "gone"
=============================================================================
