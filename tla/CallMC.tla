------------------------------- MODULE CallMC -------------------------------
(* Instances of Call for TLC, and the properties that compare unframe with a  *)
(* recursive definition of what it reads.                                     *)
EXTENDS Call

\* Two messages, an empty one among them; a compressed one, one that is too
\* long, one cut in its header and one cut in its payload.
BodySet ==
    {<<0, 1, 7>>, <<0, 0, 0, 1, 7>>, <<1, 1, 7>>, <<0, 1, 8, 0, 3>>, <<0, 0, 0>>, <<0, 2, 7>>}

\* The messages of a byte sequence, up to the first thing that is none.
RECURSIVE Messages(_)
Messages(bytes) ==
    IF Len(bytes) < HeaderSize \/ bytes[1] # 0 \/ bytes[2] > MaxMessage
       \/ Len(bytes) < HeaderSize + bytes[2] THEN <<>>
    ELSE <<SubSeq(bytes, HeaderSize + 1, HeaderSize + bytes[2])>>
         \o Messages(SubSeq(bytes, HeaderSize + bytes[2] + 1, Len(bytes)))

RECURSIVE Sizes(_)
Sizes(messages) == IF messages = <<>> THEN 0
                   ELSE HeaderSize + Len(Head(messages)) + Sizes(Tail(messages))

\* MESSAGES ARRIVE: however DATA cuts the records, the caller gets the messages
\* the server sent, in order and none twice (unframe).
MessagesArrive ==
    Len(got) <= Len(Messages(answer.bytes)) /\ got = SubSeq(Messages(answer.bytes), 1, Len(got))

\* OK MEANS OK: a call succeeds only with a good head, every message of a body
\* that is nothing but messages, and an OK status; unary with exactly one.
OkMeansOk ==
    result = "ok" =>
       /\ answer.head # "bad" /\ answer.status = "ok" /\ committed
       /\ got = Messages(answer.bytes) /\ Sizes(got) = Len(answer.bytes)
       /\ kind = "unary" => Len(got) = 1
=============================================================================
