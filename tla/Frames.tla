------------------------------- MODULE Frames -------------------------------
(* Frame serialization and the streaming frame decoder,                     *)
(* web/src/h2/frames/codec.ts, over the byte primitives of bytes.ts.  A     *)
(* Uint8Array is a sequence of 0..255; a thrown error is Malformed, since   *)
(* onBytes answers every error of the decoder with connectionError.         *)
EXTENDS Integers, SequencesExt

CONSTANT MaxFrameSize          \* localMaxFrameSize

Malformed == [type |-> "malformed"]
Unknown == [type |-> "unknown"]

FRAME_HEADER_SIZE == 9

FrameType == [DATA |-> 0, HEADERS |-> 1, PRIORITY |-> 2, RST_STREAM |-> 3,
              SETTINGS |-> 4, PUSH_PROMISE |-> 5, PING |-> 6, GOAWAY |-> 7,
              WINDOW_UPDATE |-> 8, CONTINUATION |-> 9]
Flags == [END_STREAM |-> 1, ACK |-> 1, END_HEADERS |-> 4, PADDED |-> 8, PRIORITY |-> 32]
SETTINGS_IDS == <<"headerTableSize", "enablePush", "maxConcurrentStreams",
                  "initialWindowSize", "maxFrameSize", "maxHeaderListSize">>

----------------------------------------------------------------------------
(* bytes.ts *)

\* ByteWriter.u8, u16, u24, u32: the last k bytes of n, most significant first.
Write(n, k) == [i \in 1..k |-> (n \div 256^(k - i)) % 256]

\* ByteReader.u8, u16, u24 at a place of b, and u32, whose callers mask the top
\* bit away or read numbers below 2^31.
RECURSIVE Read(_, _, _)
Read(b, at, k) == IF k = 0 THEN 0 ELSE Read(b, at, k - 1) * 256 + b[at + k - 1]
Read32(b, at) == (b[at] % 128) * 2^24 + Read(b, at + 1, 3)

Set(flags, name) == (flags \div Flags[name]) % 2 = 1
Flag(on, name) == IF on THEN Flags[name] ELSE 0

----------------------------------------------------------------------------
(* Serialization *)

\* Five bytes: exclusive bit, stream dependency, weight minus one.
EncodePriority(p) ==
    LET dep == Write(p.streamDependency, 4)
    IN [dep EXCEPT ![1] = IF p.exclusive THEN @ + 128 ELSE @] \o Write(p.weight - 1, 1)

\* Six bytes for each setting that is present, in the order of SETTINGS_IDS.
EncodeSettings(s) ==
    FlattenSeq([id \in 1..6 |->
        IF SETTINGS_IDS[id] \notin DOMAIN s THEN <<>>
        ELSE LET value == s[SETTINGS_IDS[id]]
             IN Write(id, 2) \o Write(IF id = 2 THEN IF value THEN 1 ELSE 0 ELSE value, 4)])

Body(flags, streamId, payload) == [flags |-> flags, streamId |-> streamId, payload |-> payload]

EncodeBody(f) ==
    CASE f.type = "DATA" ->
            Body(Flag(f.endStream, "END_STREAM"), f.streamId, f.data)
      [] f.type = "HEADERS" ->
            Body(Flag(f.endHeaders, "END_HEADERS") + Flag(f.endStream, "END_STREAM")
                    + Flag(f.priority # {}, "PRIORITY"),
                 f.streamId,
                 FlattenSeq(SetToSeq({EncodePriority(p) : p \in f.priority})) \o f.headerBlockFragment)
      [] f.type = "PRIORITY" -> Body(0, f.streamId, EncodePriority(f.priority))
      [] f.type = "RST_STREAM" -> Body(0, f.streamId, Write(f.errorCode, 4))
      [] f.type = "SETTINGS" -> Body(Flag(f.ack, "ACK"), 0, EncodeSettings(f.settings))
      [] f.type = "PUSH_PROMISE" ->
            Body(Flag(f.endHeaders, "END_HEADERS"), f.streamId,
                 Write(f.promisedStreamId, 4) \o f.headerBlockFragment)
      [] f.type = "PING" ->
            Body(Flag(f.ack, "ACK"), 0,
                 IF Len(f.opaqueData) = 8 THEN f.opaqueData ELSE Write(0, 8))
      [] f.type = "GOAWAY" ->
            Body(0, 0, Write(f.lastStreamId, 4) \o Write(f.errorCode, 4) \o f.debugData)
      [] f.type = "WINDOW_UPDATE" -> Body(0, f.streamId, Write(f.windowSizeIncrement, 4))
      [] f.type = "CONTINUATION" ->
            Body(Flag(f.endHeaders, "END_HEADERS"), f.streamId, f.headerBlockFragment)

\* The frame header in front of a payload.
FrameBytes(typeId, body) ==
    Write(Len(body.payload), 3) \o Write(typeId, 1) \o Write(body.flags, 1)
        \o Write(body.streamId, 4) \o body.payload

SerializeFrame(f) == FrameBytes(FrameType[f.type], EncodeBody(f))

----------------------------------------------------------------------------
(* Parsing *)

\* MUTANT: the pad length byte is counted as data.
UnpaddedKeepsLength(payload, flags, fixed) ==
    LET padded == Set(flags, "PADDED")
        pad == IF padded /\ payload # <<>> THEN payload[1] ELSE 0
    IN IF Len(payload) - fixed - pad < 0 THEN Malformed
       ELSE [type |-> "rest", bytes |-> SubSeq(payload, fixed + 1, Len(payload) - pad)]

\* readPadded, and the same arithmetic for HEADERS and PUSH_PROMISE: what is
\* left of a payload without the pad length, the fixed fields and the padding.
\* Reading a fixed field past the end throws as well.
Unpadded(payload, flags, fixed) ==
    LET padded == Set(flags, "PADDED")
        start == fixed + IF padded THEN 1 ELSE 0
        pad == IF padded /\ payload # <<>> THEN payload[1] ELSE 0
    IN IF Len(payload) - start - pad < 0 THEN Malformed
       ELSE [type |-> "rest", bytes |-> SubSeq(payload, start + 1, Len(payload) - pad)]

ReadPriority(b, at) ==
    [streamDependency |-> Read32(b, at), exclusive |-> b[at] >= 128, weight |-> b[at + 4] + 1]

\* The last value of each setting that has a known identifier.
ReadSettings(b) ==
    LET Id(i) == Read(b, 6 * i - 5, 2)
        known == {i \in 1..(Len(b) \div 6) : Id(i) \in 1..6}
        last(id) == CHOOSE i \in known : Id(i) = id /\ \A j \in known : Id(j) = id => j <= i
    IN [name \in {SETTINGS_IDS[Id(i)] : i \in known} |->
            LET id == CHOOSE id \in 1..6 : SETTINGS_IDS[id] = name
                value == Read32(b, 6 * last(id) - 3)
            IN IF id = 2 THEN value # 0 ELSE value]

ParsePayload(typeId, flags, streamId, b) ==
    LET len == Len(b)
        prioritized == Set(flags, "PRIORITY")
        fixed == CASE typeId = 1 /\ prioritized -> 5 [] typeId = 5 -> 4 [] OTHER -> 0
        rest == Unpadded(b, flags, fixed)
        first == IF Set(flags, "PADDED") THEN 2 ELSE 1
    IN CASE typeId \in {0, 1, 5} /\ rest = Malformed -> Malformed
         [] typeId = 0 /\ rest # Malformed ->
              [type |-> "DATA", streamId |-> streamId, data |-> rest.bytes,
               flowControlledLength |-> len, endStream |-> Set(flags, "END_STREAM")]
         [] typeId = 1 /\ rest # Malformed ->
              [type |-> "HEADERS", streamId |-> streamId, headerBlockFragment |-> rest.bytes,
               endStream |-> Set(flags, "END_STREAM"), endHeaders |-> Set(flags, "END_HEADERS"),
               priority |-> IF prioritized THEN {ReadPriority(b, first)} ELSE {}]
         [] typeId = 2 ->
              IF len # 5 THEN Malformed
              ELSE [type |-> "PRIORITY", streamId |-> streamId, priority |-> ReadPriority(b, 1)]
         [] typeId = 3 ->
              IF len # 4 THEN Malformed
              ELSE [type |-> "RST_STREAM", streamId |-> streamId, errorCode |-> Read32(b, 1)]
         [] typeId = 4 ->
              IF len % 6 # 0 \/ (Set(flags, "ACK") /\ len # 0) THEN Malformed
              ELSE [type |-> "SETTINGS", streamId |-> 0, ack |-> Set(flags, "ACK"),
                    settings |-> ReadSettings(b)]
         [] typeId = 5 /\ rest # Malformed ->
              [type |-> "PUSH_PROMISE", streamId |-> streamId,
               promisedStreamId |-> Read32(b, first), headerBlockFragment |-> rest.bytes,
               endHeaders |-> Set(flags, "END_HEADERS")]
         [] typeId = 6 ->
              IF len # 8 THEN Malformed
              ELSE [type |-> "PING", streamId |-> 0, ack |-> Set(flags, "ACK"), opaqueData |-> b]
         [] typeId = 7 ->
              IF len < 8 THEN Malformed
              ELSE [type |-> "GOAWAY", streamId |-> 0, lastStreamId |-> Read32(b, 1),
                    errorCode |-> Read32(b, 5), debugData |-> SubSeq(b, 9, len)]
         [] typeId = 8 ->
              IF len # 4 THEN Malformed
              ELSE [type |-> "WINDOW_UPDATE", streamId |-> streamId,
                    windowSizeIncrement |-> Read32(b, 1)]
         [] typeId = 9 ->
              [type |-> "CONTINUATION", streamId |-> streamId, headerBlockFragment |-> b,
               endHeaders |-> Set(flags, "END_HEADERS")]
         [] OTHER -> Unknown

\* FrameDecoder.push: the complete frames of the buffer, and what is left of
\* it.  An error loses the frames of this call and leaves `pending` as it was.
RECURSIVE Frames(_, _)
Frames(buf, frames) ==
    IF Len(buf) < FRAME_HEADER_SIZE THEN [frames |-> frames, pending |-> buf, ok |-> TRUE]
    ELSE LET total == FRAME_HEADER_SIZE + Read(buf, 1, 3)
             frame == ParsePayload(buf[4], buf[5], Read32(buf, 6),
                                   SubSeq(buf, FRAME_HEADER_SIZE + 1, total))
         IN CASE total - FRAME_HEADER_SIZE > MaxFrameSize -> [frames |-> <<>>, pending |-> buf, ok |-> FALSE]
              [] total - FRAME_HEADER_SIZE <= MaxFrameSize /\ Len(buf) < total ->
                    [frames |-> frames, pending |-> buf, ok |-> TRUE]
              [] OTHER ->
                    IF frame = Malformed THEN [frames |-> <<>>, pending |-> buf, ok |-> FALSE]
                    ELSE Frames(SubSeq(buf, total + 1, Len(buf)),
                                IF frame = Unknown THEN frames ELSE Append(frames, frame))
=============================================================================
