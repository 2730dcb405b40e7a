------------------------------- MODULE Hpack --------------------------------
(* Header compression, web/src/h2/hpack/hpack.ts and huffman.ts.  A string  *)
(* is a sequence of code points below 2048, one UTF-16 unit and one or two  *)
(* octets each; a block is a sequence of bytes.                             *)
EXTENDS Integers, SequencesExt

CONSTANTS
    HeaderTableSize,      \* the size of the dynamic table we advertise
    MaxHeaderListBytes, MaxHeaderCount

ENTRY_OVERHEAD == 32
STATIC_TABLE_LENGTH == 61

\* The static table.  :method, :path, :scheme and :status come with several
\* values; these and accept-encoding are the entries whose value is not empty.
\* A name is one character, the position of its first occurrence.
FirstNamed(i) ==
    CASE i = 3 -> 2 [] i = 5 -> 4 [] i = 7 -> 6 [] i \in 8..14 -> 8 [] OTHER -> i
STATIC_TABLE ==
    [i \in 1..STATIC_TABLE_LENGTH |->
        <<<<FirstNamed(i)>>, IF i \in (2..14) \union {16} THEN <<64 + i>> ELSE <<>>>>]

----------------------------------------------------------------------------
(* Strings and integers *)

EncodeUtf8(s) ==
    FlattenSeq([i \in DOMAIN s |->
        IF s[i] < 128 THEN <<s[i]>> ELSE <<192 + (s[i] \div 64), 128 + (s[i] % 64)>>])

RECURSIVE DecodeUtf8(_)
DecodeUtf8(b) ==
    IF b = <<>> THEN <<>>
    ELSE IF b[1] < 128 THEN <<b[1]>> \o DecodeUtf8(Tail(b))
    ELSE <<(b[1] - 192) * 64 + b[2] - 128>> \o DecodeUtf8(Tail(Tail(b)))

Utf8Length(s) == FoldLeft(LAMBDA n, code : n + IF code < 128 THEN 1 ELSE 2, 0, s)

RECURSIVE Continued(_)
Continued(rest) ==
    IF rest >= 128 THEN <<(rest % 128) + 128>> \o Continued(rest \div 128) ELSE <<rest>>

\* MUTANT: the largest value of the prefix is written in one byte.
WriteIntegerOffByOne(value, prefixBits, flags) ==
    LET max == 2^prefixBits - 1
    IN IF value <= max THEN <<flags + value>> ELSE <<flags + max>> \o Continued(value - max)

\* A prefix integer, whose first byte also carries the flags.
WriteInteger(value, prefixBits, flags) ==
    LET max == 2^prefixBits - 1
    IN IF value < max THEN <<flags + value>> ELSE <<flags + max>> \o Continued(value - max)

\* Where reading went on to, and what was read.
Got(value, next) == [value |-> value, next |-> next, ok |-> TRUE]
Bad == [value |-> 0, next |-> 0, ok |-> FALSE]

RECURSIVE ReadContinued(_, _, _, _)
ReadContinued(b, at, value, shift) ==
    IF at > Len(b) \/ shift + 7 > 42 THEN Bad
    ELSE LET sum == value + (b[at] % 128) * 2^shift
         IN IF b[at] >= 128 THEN ReadContinued(b, at + 1, sum, shift + 7) ELSE Got(sum, at + 1)
ReadInteger(b, at, prefixBits) ==
    LET max == 2^prefixBits - 1
    IN IF at > Len(b) THEN Bad
       ELSE IF b[at] % (max + 1) < max THEN Got(b[at] % (max + 1), at + 1)
       ELSE ReadContinued(b, at + 1, max, 0)

----------------------------------------------------------------------------
(* Huffman coding.  Bits are sequences of 0 and 1. *)

\* The rows of HUFFMAN_CODES for the octets of the strings used here.
Bits(n, k) == [i \in 1..k |-> (n \div 2^(k - i)) % 2]
HUFFMAN_CODES == [byte \in {97, 98} |-> IF byte = 97 THEN Bits(3, 5) ELSE Bits(35, 6)]
EOS == [i \in 1..30 |-> 1]
Codable(b) == \A i \in DOMAIN b : b[i] \in DOMAIN HUFFMAN_CODES

EncodedBits(b) == FlattenSeq([i \in DOMAIN b |-> HUFFMAN_CODES[b[i]]])

HuffmanEncode(b) ==
    LET bits == EncodedBits(b)
        size == (Len(bits) + 7) \div 8
        padded == bits \o [i \in 1..(8 * size - Len(bits)) |-> 1]
    IN [k \in 1..size |-> FoldLeft(LAMBDA n, bit : 2 * n + bit, 0, SubSeq(padded, 8 * k - 7, 8 * k))]

HuffmanShorter(b) == (Len(EncodedBits(b)) + 7) \div 8 < Len(b)

\* huffmanDecode walks the trie bit by bit; a node is the bits that lead to
\* it.  What is left at the end is at most seven bits, all ones.
RECURSIVE Symbols(_, _, _)
Symbols(bits, node, out) ==
    LET symbol == {byte \in DOMAIN HUFFMAN_CODES : HUFFMAN_CODES[byte] = node}
    IN IF symbol # {} THEN Symbols(bits, <<>>, Append(out, CHOOSE byte \in symbol : TRUE))
       ELSE IF bits = <<>>
       THEN [bytes |-> out, ok |-> Len(node) <= 7 /\ IsPrefix(node, EOS)]
       ELSE LET next == Append(node, bits[1])
            IN IF IsStrictPrefix(next, EOS) \/ \E byte \in DOMAIN HUFFMAN_CODES :
                                                  IsPrefix(next, HUFFMAN_CODES[byte])
               THEN Symbols(Tail(bits), next, out)
               ELSE [bytes |-> <<>>, ok |-> FALSE]
HuffmanDecode(b) == Symbols(FlattenSeq([i \in DOMAIN b |-> Bits(b[i], 8)]), <<>>, <<>>)

----------------------------------------------------------------------------
(* String literals *)

StringLiteral(huffman, b) ==
    IF huffman THEN WriteInteger(Len(HuffmanEncode(b)), 7, 128) \o HuffmanEncode(b)
               ELSE WriteInteger(Len(b), 7, 0) \o b
WriteString(s) ==
    LET raw == EncodeUtf8(s)
    IN StringLiteral(Codable(raw) /\ HuffmanShorter(raw), raw)

\* The string of a given length, whose bytes are Huffman coded or plain.
Decoded(decoded, next) == IF decoded.ok THEN Got(DecodeUtf8(decoded.bytes), next) ELSE Bad
StringOf(b, huffman, length, next) ==
    IF next - 1 > Len(b) THEN Bad
    ELSE LET bytes == SubSeq(b, length.next, next - 1)
         IN Decoded(IF huffman THEN HuffmanDecode(bytes) ELSE [bytes |-> bytes, ok |-> TRUE], next)
StringAfter(b, huffman, length) ==
    IF length.ok THEN StringOf(b, huffman, length, length.next + length.value) ELSE Bad
ReadString(b, at) == StringAfter(b, at <= Len(b) /\ b[at] >= 128, ReadInteger(b, at, 7))

----------------------------------------------------------------------------
(* HpackDecoder *)

EmptyTable == [dynamic |-> <<>>, size |-> 0, maxSize |-> HeaderTableSize]

EntrySize(entry) == Len(entry[1]) + Len(entry[2]) + ENTRY_OVERHEAD

\* MUTANT: the size of the newest entry is given back for the oldest.
RECURSIVE EvictMiscounted(_, _)
EvictMiscounted(t, room) ==
    IF t.size > room /\ t.dynamic # <<>>
    THEN EvictMiscounted([t EXCEPT !.size = @ - EntrySize(Head(t.dynamic)), !.dynamic = Front(@)], room)
    ELSE t

\* The loops of insert and applyMaxSize: the oldest entries leave.
RECURSIVE Evict(_, _)
Evict(t, room) ==
    IF t.size > room /\ t.dynamic # <<>>
    THEN Evict([t EXCEPT !.size = @ - EntrySize(Last(t.dynamic)), !.dynamic = Front(@)], room)
    ELSE t

\* An entry larger than the table leaves it empty.
Insert(t, entry) ==
    LET u == Evict(t, t.maxSize - EntrySize(entry))
    IN IF EntrySize(entry) <= t.maxSize
       THEN [u EXCEPT !.dynamic = <<entry>> \o @, !.size = @ + EntrySize(entry)]
       ELSE [u EXCEPT !.dynamic = <<>>, !.size = 0]

ApplyMaxSize(t, n) == Evict([t EXCEPT !.maxSize = n], n)

\* The entries an index can name, newest dynamic entry first.
EntryAt(t, index) == (STATIC_TABLE \o t.dynamic)[index]
HasEntry(t, index) == index \in 1..(STATIC_TABLE_LENGTH + Len(t.dynamic))

\* MUTANT: the budget counts UTF-16 units.
RecordUnits(d, entry) ==
    LET bytes == d.bytes + EntrySize(entry)
    IN IF d.rejected THEN d
       ELSE IF d.count >= MaxHeaderCount \/ bytes > MaxHeaderListBytes
       THEN [d EXCEPT !.rejected = TRUE]
       ELSE [d EXCEPT !.headers = Append(@, entry), !.bytes = bytes, !.count = @ + 1]

\* recordHeader: the header list grows until the budget trips.
RecordHeader(d, entry) ==
    LET bytes == d.bytes + Utf8Length(entry[1]) + Utf8Length(entry[2]) + ENTRY_OVERHEAD
    IN IF d.rejected THEN d
       ELSE IF d.count >= MaxHeaderCount \/ bytes > MaxHeaderListBytes
       THEN [d EXCEPT !.rejected = TRUE]
       ELSE [d EXCEPT !.headers = Append(@, entry), !.bytes = bytes, !.count = @ + 1]

\* A literal field: its name by index or as a string, then its value.
WithValue(name, value) == IF value.ok THEN Got(<<name, value.value>>, value.next) ELSE Bad
WithName(b, name) == IF name.ok THEN WithValue(name.value, ReadString(b, name.next)) ELSE Bad
ReadLiteral(table, b, index) ==
    IF ~index.ok \/ (index.value # 0 /\ ~HasEntry(table, index.value)) THEN Bad
    ELSE WithName(b, IF index.value = 0 THEN ReadString(b, index.next)
                     ELSE Got(EntryAt(table, index.value)[1], index.next))

\* The three kinds of field: an index, a new table size, a literal.  d.at is
\* where the next one starts.
IndexedField(d, index) ==
    IF ~index.ok \/ ~HasEntry(d.table, index.value) THEN [d EXCEPT !.ok = FALSE]
    ELSE RecordHeader([d EXCEPT !.at = index.next], EntryAt(d.table, index.value))
SizeUpdate(d, size) ==
    IF ~size.ok \/ size.value > HeaderTableSize THEN [d EXCEPT !.ok = FALSE]
    ELSE [d EXCEPT !.at = size.next, !.table = ApplyMaxSize(@, size.value)]
LiteralField(d, literal, indexing) ==
    IF ~literal.ok THEN [d EXCEPT !.ok = FALSE]
    ELSE RecordHeader([d EXCEPT !.at = literal.next,
                                !.table = IF indexing THEN Insert(@, literal.value) ELSE @],
                      literal.value)

\* decode: one field after the other, up to the end of the block.
RECURSIVE Fields(_, _)
Fields(d, b) ==
    IF ~d.ok \/ d.at > Len(b) THEN d
    ELSE Fields(CASE b[d.at] >= 128 -> IndexedField(d, ReadInteger(b, d.at, 7))
                  [] b[d.at] \in 32..63 -> SizeUpdate(d, ReadInteger(b, d.at, 5))
                  [] b[d.at] \in 64..127 ->
                       LiteralField(d, ReadLiteral(d.table, b, ReadInteger(b, d.at, 6)), TRUE)
                  [] b[d.at] < 32 ->
                       LiteralField(d, ReadLiteral(d.table, b, ReadInteger(b, d.at, 4)), FALSE), b)

\* MUTANT: a block that is over the budget is not decoded into the table.
DecodeWithoutTable(table, block) ==
    LET d == Fields([table |-> table, headers |-> <<>>, bytes |-> 0, count |-> 0,
                     rejected |-> FALSE, ok |-> TRUE, at |-> 1], block)
    IN IF d.rejected THEN [d EXCEPT !.table = table] ELSE d

Decode(table, block) ==
    Fields([table |-> table, headers |-> <<>>, bytes |-> 0, count |-> 0,
            rejected |-> FALSE, ok |-> TRUE, at |-> 1], block)

----------------------------------------------------------------------------
(* HpackEncoder *)

\* staticPairToIndex and staticNameToIndex, the latter with first occurrences.
PairIndexes(entry) == {i \in 1..STATIC_TABLE_LENGTH : STATIC_TABLE[i] = entry}
NameIndexes(name) ==
    {i \in 1..STATIC_TABLE_LENGTH :
        STATIC_TABLE[i][1] = name /\ \A j \in 1..(i - 1) : STATIC_TABLE[j][1] # name}

\* A field: a static entry, or a literal that is never inserted, with the
\* flags of a sensitive header.
EncodeField(entry, neverIndex) ==
    LET flags == IF neverIndex THEN 16 ELSE 0
    IN IF PairIndexes(entry) # {}
       THEN WriteInteger(CHOOSE i \in PairIndexes(entry) : TRUE, 7, 128)
       ELSE (IF NameIndexes(entry[1]) # {}
             THEN WriteInteger(CHOOSE i \in NameIndexes(entry[1]) : TRUE, 4, flags)
             ELSE WriteInteger(0, 4, flags) \o WriteString(entry[1]))
            \o WriteString(entry[2])
=============================================================================
