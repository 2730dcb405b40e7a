------------------------------- MODULE WireMC -------------------------------
(* Small instances of Wire. *)
EXTENDS Wire

\* The characters are a, b and an e with an accent, which is one UTF-16 unit and
\* two octets.  The name a is in no table at first; :method is static.
SampleHeaders == {<<<<97>>, <<97, 97, 98>>>>, <<<<15>>, <<233, 233>>>>, <<<<2>>, <<66>>>>}

\* One frame of every type that carries no header block.
SampleFrames ==
    {[pad |-> 0, frame |-> [type |-> "DATA", streamId |-> 1, data |-> <<7>>,
                            flowControlledLength |-> 1, endStream |-> FALSE]],
     [pad |-> 1, frame |-> [type |-> "DATA", streamId |-> 258, data |-> <<>>,
                            flowControlledLength |-> 2, endStream |-> TRUE]],
     [pad |-> 0, frame |-> [type |-> "PRIORITY", streamId |-> 1,
          priority |-> [streamDependency |-> 65536, exclusive |-> FALSE, weight |-> 1]]],
     [pad |-> 0, frame |-> [type |-> "RST_STREAM", streamId |-> 1, errorCode |-> 8]],
     [pad |-> 0, frame |-> [type |-> "SETTINGS", streamId |-> 0, ack |-> FALSE,
          settings |-> [enablePush |-> FALSE, initialWindowSize |-> 65535]]],
     [pad |-> 0, frame |-> [type |-> "SETTINGS", streamId |-> 0, ack |-> TRUE, settings |-> <<>>]],
     [pad |-> 0, frame |-> [type |-> "PING", streamId |-> 0, ack |-> TRUE,
          opaqueData |-> [i \in 1..8 |-> i]]],
     [pad |-> 0, frame |-> [type |-> "GOAWAY", streamId |-> 0, lastStreamId |-> 300,
          errorCode |-> 0, debugData |-> <<1>>]],
     [pad |-> 0, frame |-> [type |-> "WINDOW_UPDATE", streamId |-> 1,
          windowSizeIncrement |-> 65536]]}

\* A frame of each fixed-size type that is one byte short, padding longer than
\* its frame, a frame over the limit, a stray CONTINUATION; an unknown type.
Raw(typeId, flags, n) ==
    FrameBytes(typeId, Body(flags, 3, [i \in 1..n |-> 2]))
WrongFrames ==
    {[ignored |-> FALSE, bytes |-> Raw(c[1], c[2], c[3])] :
        c \in {<<0, 8, 0>>, <<0, 8, 2>>, <<1, 32, 4>>, <<2, 0, 4>>, <<3, 0, 3>>, <<4, 0, 5>>,
               <<4, 1, 6>>, <<5, 8, 6>>, <<6, 0, 7>>, <<7, 0, 7>>, <<8, 0, 3>>, <<9, 4, 0>>,
               <<0, 0, MaxFrameSize + 1>>}}
    \union {[ignored |-> TRUE, bytes |-> Raw(10, 255, 1)]}
=============================================================================
