-------------------------------- MODULE Wire --------------------------------
(* The receiving half of the HTTP/2 engine from bytes to header lists:      *)
(* readLoop and onBytes of web/src/h2/connection.ts with the frame decoder  *)
(* (Frames), the assembly of header blocks from HEADERS, PUSH_PROMISE and   *)
(* CONTINUATION frames, and the HPACK decoder (Hpack).                      *)
(*                                                                          *)
(* The peer is the reference: it serializes frames, keeps the dynamic table *)
(* that RFC 7541 defines, and cuts its header blocks and its byte stream    *)
(* anywhere.  What the other frames do to streams is modelled by H2.        *)
EXTENDS Frames, Hpack, FiniteSetsExt

CONSTANTS
    Headers,            \* header fields the peer uses, <<name, value>>
    TableSizes,         \* sizes of its table that the peer may choose
    Others,             \* further frames it may send
    Garbage,            \* byte sequences that are no valid frames
    MaxHeaderBlockSize, \* MAX_HEADER_BLOCK_SIZE
    \* bounds of the instance: header blocks and their fields, and, while fewer
    \* than Early blocks are done, other frames, several frames in flight, many
    \* CONTINUATIONs and chunks that cut the wire
    MaxBlocks, MaxFields, MaxOthers, MaxInFlight, MaxCuts, Early

VARIABLES
    wire,      \* bytes in flight
    pending,   \* FrameDecoder.pending
    conn,      \* the connection: pendingHeaderBlock, decoder table, closed
    peer,      \* the peer: its table, the block it is sending, what it did
    owed,      \* frames and header lists sent and not yet handled, in order
    agrees     \* whether onBytes handled so far what was due

vars == <<wire, pending, conn, peer, owed, agrees>>

Nothing == [frames |-> <<>>, lists |-> <<>>]

Init ==
    /\ wire = <<>> /\ pending = <<>>
    /\ conn = [block |-> {}, table |-> EmptyTable, closed |-> FALSE, did |-> Nothing]
    /\ peer = [entries |-> <<>>, max |-> HeaderTableSize, list |-> <<>>, fields |-> 0,
               rest |-> <<>>, sending |-> FALSE, blocks |-> 0, others |-> 0, cuts |-> 0,
               bad |-> FALSE, big |-> FALSE]
    /\ owed = Nothing
    /\ agrees = [frames |-> TRUE, lists |-> TRUE]

----------------------------------------------------------------------------
(* The connection *)

\* MUTANT: CONTINUATION frames are not counted.
GuardFirstOnly(block) == Len(block.fragments) = 1 => block.size <= MaxHeaderBlockSize

\* guardHeaderBlockSize.
GuardHeaderBlockSize(block) == block.size <= MaxHeaderBlockSize

\* connectionError, and a block that fails to decode.
ConnectionError(c) == [c EXCEPT !.closed = TRUE, !.block = {}]

\* completeHeaderBlock: a list for the stream, or, over the budget, an error
\* of that stream only, which onBytes answers with resetStream.
Completed(c, streamId, d) ==
    IF ~d.ok THEN ConnectionError(c)
    ELSE [c EXCEPT !.block = {}, !.table = d.table,
             !.did.lists = Append(@, [streamId |-> streamId, reset |-> d.rejected,
                                      headers |-> IF d.rejected THEN <<>> ELSE d.headers])]
CompleteHeaderBlock(c, block) ==
    Completed(c, block.streamId, Decode(c.table, FlattenSeq(block.fragments)))

\* dispatch of a frame that starts or continues a header block.
Assemble(c, block, endHeaders) ==
    IF ~GuardHeaderBlockSize(block) THEN ConnectionError(c)
    ELSE IF endHeaders THEN CompleteHeaderBlock(c, block)
    ELSE [c EXCEPT !.block = {block}]

\* dispatch: while a block is incomplete only its CONTINUATION is allowed.
Dispatch(c, frame) ==
    LET d == [c EXCEPT !.did.frames = Append(@, frame)]
        started == [streamId |-> frame.streamId, fragments |-> <<frame.headerBlockFragment>>,
                    size |-> Len(frame.headerBlockFragment)]
        block == CHOOSE b \in c.block : TRUE
        continued == [block EXCEPT !.fragments = Append(@, frame.headerBlockFragment),
                                   !.size = @ + Len(frame.headerBlockFragment)]
    IN CASE c.closed -> c
         [] ~c.closed /\ frame.type = "CONTINUATION" ->
              IF c.block = {} THEN ConnectionError(c)
              ELSE IF block.streamId # frame.streamId THEN ConnectionError(c)
              ELSE Assemble(d, continued, frame.endHeaders)
         [] ~c.closed /\ frame.type # "CONTINUATION" ->
              IF c.block # {} THEN ConnectionError(c)
              ELSE IF frame.type \in {"HEADERS", "PUSH_PROMISE"}
              THEN Assemble(d, started, frame.endHeaders)
              ELSE d

First(n, s) == SubSeq(s, 1, Min({n, Len(s)}))

\* One read of readLoop and its onBytes: n bytes arrive.
Handled(decoded) ==
    IF ~decoded.ok THEN ConnectionError([conn EXCEPT !.did = Nothing])
    ELSE FoldLeft(Dispatch, [conn EXCEPT !.did = Nothing], decoded.frames)
OnBytes(n) ==
    /\ ~conn.closed
    /\ n <= Len(wire) /\ (n < Len(wire) => peer.cuts < MaxCuts /\ peer.blocks <= Early)
    /\ \E decoded \in {Frames(pending \o SubSeq(wire, 1, n), <<>>)} : \E c \in {Handled(decoded)} :
          LET frames == Len(c.did.frames)
              lists == Len(c.did.lists)
          IN /\ pending' = IF c.closed THEN <<>> ELSE decoded.pending
             /\ conn' = [c EXCEPT !.did = Nothing]
             /\ agrees' = [frames |-> c.did.frames = First(frames, owed.frames),
                           lists |-> c.did.lists = First(lists, owed.lists)]
             /\ owed' = [frames |-> SubSeq(owed.frames, frames + 1, Len(owed.frames)),
                         lists |-> SubSeq(owed.lists, lists + 1, Len(owed.lists))]
    /\ wire' = SubSeq(wire, n + 1, Len(wire))
    /\ peer' = [peer EXCEPT !.cuts = IF n < Len(wire) THEN @ + 1 ELSE @]
----------------------------------------------------------------------------
(* The peer.  Its table is the one of RFC 7541, section 4: sizes are counted *)
(* in octets, and what stays is the newest part that fits.                   *)

Octets(entry) == Len(EncodeUtf8(entry[1])) + Len(EncodeUtf8(entry[2])) + ENTRY_OVERHEAD
TotalOctets(entries) == FoldLeft(LAMBDA n, entry : n + Octets(entry), 0, entries)

Newest(entries, room) ==
    SubSeq(entries, 1, Max({k \in 0..Len(entries) : TotalOctets(SubSeq(entries, 1, k)) <= room}))

Inserted(p, entry) ==
    IF Octets(entry) > p.max THEN <<>>
    ELSE <<entry>> \o Newest(p.entries, p.max - Octets(entry))

\* A field of a block: its bytes, and the peer once it has encoded it.
Field(bytes, headers, p) ==
    [p EXCEPT !.rest = @ \o bytes, !.list = @ \o headers, !.fields = @ + 1]

String(s, huffman) ==
    LET raw == EncodeUtf8(s) IN StringLiteral(huffman /\ Codable(raw), raw)

\* The representations of a header: an index, a literal with indexing whose
\* name is an index or a string, raw or Huffman coded, or what our own encoder
\* makes of it.
Literals(p, header) ==
    LET table == STATIC_TABLE \o p.entries
        named == {i \in DOMAIN table : table[i][1] = header[1]}
    IN {WriteInteger(Max(named), 6, 64) \o String(header[2], FALSE) : i \in named}
       \union {WriteInteger(0, 6, 64) \o String(header[1], FALSE) \o String(header[2], TRUE)}
Representations(p, header) ==
    LET table == STATIC_TABLE \o p.entries
    IN {Field(WriteInteger(i, 7, 128), <<header>>, p) : i \in {j \in DOMAIN table : table[j] = header}}
       \union {Field(b, <<header>>, [p EXCEPT !.entries = Inserted(p, header)]) : b \in Literals(p, header)}
       \union {Field(EncodeField(header, neverIndex), <<header>>, p) : neverIndex \in BOOLEAN}

\* The peer extends the header block that it sends next.
EncodeHeader ==
    /\ ~conn.closed /\ wire = <<>> /\ ~peer.sending /\ peer.blocks < MaxBlocks
    /\ peer.fields < IF peer.blocks < Early THEN 1 ELSE MaxFields
    /\ \/ \E header \in Headers : peer' \in Representations(peer, header)
       \/ \E n \in TableSizes :
             peer' = Field(WriteInteger(n, 5, 32), <<>>,
                           [peer EXCEPT !.entries = Newest(@, n), !.max = n])
    /\ UNCHANGED <<wire, pending, conn, owed, agrees>>

\* A frame with its padding.
Padded(frame, pad) ==
    LET body == EncodeBody(frame)
    IN IF pad = 0 THEN SerializeFrame(frame)
       ELSE FrameBytes(FrameType[frame.type],
                [body EXCEPT !.flags = @ + Flags.PADDED,
                             !.payload = <<pad>> \o @ \o [i \in 1..pad |-> 0]])

\* What the application should see of a finished block.
Meant(streamId) ==
    LET over == Len(peer.list) > MaxHeaderCount \/ TotalOctets(peer.list) > MaxHeaderListBytes
    IN [streamId |-> streamId, reset |-> over, headers |-> IF over THEN <<>> ELSE peer.list]

HasRoom == Len(owed.frames) < IF peer.blocks < Early THEN MaxInFlight ELSE 1

\* The next fragment of the block, up to byte k of what is left.
SendFragment(frame, k, pad) ==
    LET final == k = Len(peer.rest)
    IN /\ wire' = wire \o Padded(frame, pad)
       /\ owed' = [frames |-> Append(owed.frames, frame),
                   lists |-> IF final THEN Append(owed.lists, Meant(frame.streamId)) ELSE owed.lists]
       /\ peer' = [peer EXCEPT !.rest = SubSeq(@, k + 1, Len(@)), !.sending = ~final,
                      !.big = @ \/ Len(peer.rest) > MaxHeaderBlockSize,
                      !.list = IF final THEN <<>> ELSE @, !.fields = IF final THEN 0 ELSE @,
                      !.blocks = IF final THEN @ + 1 ELSE @,
                      !.others = IF final THEN 0 ELSE @,
                      !.cuts = IF final /\ peer.blocks >= Early THEN 0 ELSE @]
       /\ UNCHANGED <<pending, conn, agrees>>

Priority == [streamDependency |-> 3, exclusive |-> TRUE, weight |-> 256]

\* HEADERS or PUSH_PROMISE, and the CONTINUATIONs they need; sometimes padded,
\* sometimes with a priority.
SendBlock ==
    \E k \in {1, Len(peer.rest)} :
        LET fragment == SubSeq(peer.rest, 1, k)
            end == k = Len(peer.rest)
        IN /\ ~conn.closed /\ peer.rest # <<>> /\ HasRoom
           /\ \/ /\ ~peer.sending
                 /\ SendFragment([type |-> "HEADERS", streamId |-> 1, headerBlockFragment |-> fragment,
                                  endStream |-> end, endHeaders |-> end,
                                  priority |-> IF end THEN {} ELSE {Priority}], k, Len(fragment) % 3)
              \/ /\ ~peer.sending /\ end
                 /\ SendFragment([type |-> "PUSH_PROMISE", streamId |-> 1, promisedStreamId |-> 2,
                                  headerBlockFragment |-> fragment, endHeaders |-> TRUE], k, 1)
              \/ /\ peer.sending /\ (peer.blocks >= Early => end)
                 /\ SendFragment([type |-> "CONTINUATION", streamId |-> 1,
                                  headerBlockFragment |-> fragment, endHeaders |-> end], k, 0)

\* Another frame; a peer that sends it inside a header block is at fault.
SendOther ==
    \E other \in Others :
        /\ ~conn.closed /\ peer.others < MaxOthers /\ ~peer.bad /\ peer.blocks < Early /\ HasRoom
        /\ wire' = wire \o Padded(other.frame, other.pad)
        /\ owed' = IF peer.sending THEN owed ELSE [owed EXCEPT !.frames = Append(@, other.frame)]
        /\ peer' = [peer EXCEPT !.others = @ + 1, !.bad = peer.sending]
        /\ UNCHANGED <<pending, conn, agrees>>

\* Bytes that are no frame, a frame of a wrong size, or an unknown one, which
\* is skipped.
SendGarbage ==
    \E g \in Garbage :
        /\ ~conn.closed /\ peer.others < MaxOthers /\ ~peer.bad /\ peer.blocks < Early
        /\ wire' = wire \o g.bytes
        /\ peer' = [peer EXCEPT !.others = @ + 1, !.bad = ~g.ignored]
        /\ UNCHANGED <<pending, conn, owed, agrees>>

Next ==
    \/ \E n \in 1..Len(wire) : OnBytes(n)
    \/ EncodeHeader \/ SendBlock \/ SendOther \/ SendGarbage

Spec == Init /\ [][Next]_vars

----------------------------------------------------------------------------
(* Correctness *)

\* Type invariant of the receive path.
TypeOK ==
    /\ \A b \in {wire, pending} : \A i \in DOMAIN b : b[i] \in 0..255
    /\ Cardinality(conn.block) <= 1 /\ conn.closed \in BOOLEAN
    /\ conn.table.size \in Nat /\ conn.table.maxSize \in 0..HeaderTableSize

\* However the stream is cut into chunks, onBytes hands to dispatch the frames
\* the peer serialized, field by field, in order and each once; unknown frames
\* are skipped and padding only shows in flowControlledLength.
FramesInOrder == agrees.frames

\* A block split over CONTINUATION frames gives its stream the header list the
\* peer encoded, whatever representation it chose for each field; only a list
\* over the byte or field budget is withheld, and that resets its stream alone.
HeadersArrive == agrees.lists

CaughtUp == wire = <<>> /\ pending = <<>> /\ ~conn.closed

\* Once every byte has been read, the entries of the peer's dynamic table are
\* the newest entries of the decoder's, so that every later index names the
\* right header: also after blocks that were rejected for their size, promised
\* streams, size updates and evictions, and although the decoder counts UTF-16
\* units where the peer counts octets.
TablesInSync ==
    CaughtUp /\ conn.block = {} /\ ~peer.sending /\ peer.fields = 0 =>
        /\ IsPrefix(peer.entries, conn.table.dynamic)
        /\ conn.table.maxSize = peer.max
        /\ FoldLeft(LAMBDA n, entry : n + EntrySize(entry), 0, conn.table.dynamic) <= peer.max

\* A connection fails for cause.  One that stays open has lost nothing, and has
\* accepted nothing that is no frame or stands inside a header block; one that
\* was closed got such a thing, or a header block that is too long.
ClosesForCause ==
    /\ CaughtUp => owed = Nothing /\ ~peer.bad
    /\ conn.closed => peer.bad \/ peer.big

\* What an open connection buffers is bounded: less than one frame in the
\* frame decoder, MAX_HEADER_BLOCK_SIZE in an endless header block.
BuffersBounded ==
    /\ ~conn.closed => Len(pending) < FRAME_HEADER_SIZE + MaxFrameSize
    /\ \A block \in conn.block :
          FoldLeft(LAMBDA n, f : n + Len(f), 0, block.fragments) <= MaxHeaderBlockSize
=============================================================================
