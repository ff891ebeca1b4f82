-------------------------------- MODULE Tlv --------------------------------
(***************************************************************************)
(* The TLV reader, src/protocol/emrtd_tlv.c, as operators on sequences of  *)
(* bytes.  A cursor into a buffer is the number of bytes before it, so     *)
(* data[pos + 1] is the byte it stands on.                                 *)
(*                                                                         *)
(* A tag is the sequence of its bytes, which the code packs into 32 bits:  *)
(* the first byte is never 00, so two tags are packed alike only if they   *)
(* are the same.  A length of 2^24 bytes and more is the one number Huge:  *)
(* the code only compares it with what is left of a buffer, and            *)
(* total_length, where the sum may pass the end of a size_t, looks at the  *)
(* bytes themselves.                                                       *)
(***************************************************************************)
EXTENDS Integers, Sequences, FiniteSetsExt

Byte == 0 .. 255
Huge == 16777216                        \* 2^24

MaxTagBytes == 4                        \* EMRTD_TLV_MAX_TAG_BYTES
MaxLengthBytes == 4                     \* EMRTD_TLV_MAX_LENGTH_BYTES
MaxDepth == 16                          \* EMRTD_TLV_MAX_DEPTH

\* The tags of ASN.1 that the files of a document are made of.
INTEGER      == <<2>>
OCTET_STRING == <<4>>
OID          == <<6>>
SEQUENCE     == <<48>>
SET          == <<49>>
CONTEXT_0    == <<160>>

\* No node: what the reader answers for bytes that do not start one.
None == [total |-> 0]

\* The number bytes stand for, most significant first: at most four of them.
Number(bytes) ==
    LET Digit(k) == IF k < Len(bytes) THEN bytes[Len(bytes) - k] ELSE 0
    IN IF Len(bytes) = 4 /\ bytes[1] # 0 THEN Huge
       ELSE Digit(2) * 65536 + Digit(1) * 256 + Digit(0)

\* A bug for the check to find: filler read as a tag.
TagBytesFiller(data, pos) ==
    LET ends == {k \in 2 .. MaxTagBytes : pos + k <= Len(data) /\ data[pos + k] < 128}
    IN IF pos >= Len(data) THEN 0
       ELSE IF data[pos + 1] % 32 # 31 THEN 1
       ELSE IF ends = {} THEN 0 ELSE Min(ends)

\* How many bytes the tag at pos has, 0 if there is none: 00 and FF are filler,
\* and the bytes after xxx11111 go on for as long as they have their top bit.
TagBytes(data, pos) ==
    LET ends == {k \in 2 .. MaxTagBytes : pos + k <= Len(data) /\ data[pos + k] < 128}
    IN IF pos >= Len(data) \/ data[pos + 1] \in {0, 255} THEN 0
       ELSE IF data[pos + 1] % 32 # 31 THEN 1
       ELSE IF ends = {} THEN 0 ELSE Min(ends)

Constructed(first) == (first \div 32) % 2 = 1

\* How many bytes the length at pos has, 0 if there is none: the indefinite form
\* 80, the reserved FF and a length of more than four bytes are none.
LengthBytes(data, pos) ==
    IF pos >= Len(data) \/ data[pos + 1] = 128 THEN 0
    ELSE IF data[pos + 1] < 128 THEN 1
    ELSE LET count == data[pos + 1] - 128
         IN IF count > MaxLengthBytes \/ count > Len(data) - (pos + 1) THEN 0 ELSE 1 + count

\* The length that size bytes at pos stand for.
LengthAt(data, pos, size) ==
    IF size = 1 THEN data[pos + 1] ELSE Number(SubSeq(data, pos + 2, pos + size))

\* tlv_read_node: the node that starts at offset, or None.
ReadNode(data, offset) ==
    LET Node(tag, size, len) ==
            [tag |-> SubSeq(data, offset + 1, offset + tag),
             constructed |-> Constructed(data[offset + 1]),
             value |-> SubSeq(data, offset + tag + size + 1, offset + tag + size + len),
             start |-> offset,
             total |-> tag + size + len]
        Bounded(tag, size, len) ==
            IF len > Len(data) - (offset + tag + size) THEN None ELSE Node(tag, size, len)
        Sized(tag, size) ==
            IF size = 0 THEN None
            ELSE Bounded(tag, size, LengthAt(data, offset + tag, size))
        Tagged(tag) == IF tag = 0 THEN None ELSE Sized(tag, LengthBytes(data, offset + tag))
    IN Tagged(TagBytes(data, offset))

\* emrtd_tlv_parse_first: the first node of a buffer, or None.
First(data) == IF data = <<>> THEN None ELSE ReadNode(data, 0)

\* The nodes emrtd_tlv_iter_next returns one after the other, up to the end of
\* the buffer or the first node that cannot be read.
Nodes(data) ==
    LET from[pos \in 0 .. Len(data)] ==
            LET And(node) ==
                    IF node = None THEN <<>> ELSE <<node>> \o from[pos + node.total]
            IN And(ReadNode(data, pos))
    IN from[0]

\* emrtd_tlv_iter_exhausted once the iteration has ended: nothing was left over.
Exhausted(data) ==
    LET End(nodes) ==
            IF nodes = <<>> THEN 0
            ELSE nodes[Len(nodes)].start + nodes[Len(nodes)].total
    IN End(Nodes(data)) = Len(data)

\* emrtd_tlv_iter_children, iterated: a primitive node has no children.
Children(node) == IF node.constructed THEN Nodes(node.value) ELSE <<>>

\* emrtd_tlv_find: the first of the siblings that has the tag, or None.
Find(data, tag) ==
    LET Among(nodes) ==
            LET hits == {i \in DOMAIN nodes : nodes[i].tag = tag}
            IN IF hits = {} THEN None ELSE nodes[Min(hits)]
    IN Among(Nodes(data))

\* emrtd_tlv_find_recursive: the first node with the tag in the order of the
\* bytes, no deeper than sixteen levels.
FindRecursive(data, tag) ==
    LET search[depth \in 0 .. MaxDepth - 1] ==
            LET Inside(node) ==
                    IF node.tag = tag THEN node
                    ELSE IF /\ node.constructed
                            /\ node.value # <<>>
                            /\ depth + 1 < MaxDepth
                         THEN search[depth + 1][node.value]
                         ELSE None
                Among(nodes) ==
                    LET hits == {i \in DOMAIN nodes : Inside(nodes[i]) # None}
                    IN IF hits = {} THEN None ELSE Inside(nodes[Min(hits)])
            IN [buffer \in Seq(Byte) |-> Among(Nodes(buffer))]
    IN search[0][data]

\* emrtd_tlv_total_length: how long the node is that header begins, 0 if its tag
\* and its length are not all there or the sum does not fit 32 bits.
TotalLength(header) ==
    LET Wraps(tag, size) ==
            /\ size = 5
            /\ SubSeq(header, tag + 2, tag + 4) = <<255, 255, 255>>
            /\ header[tag + 5] > 255 - (tag + size)
        Whole(ahead, len) == IF len = Huge THEN Huge ELSE ahead + len
        Sized(tag, size) ==
            IF size = 0 \/ Wraps(tag, size) THEN 0
            ELSE Whole(tag + size, LengthAt(header, tag, size))
        Tagged(tag) == IF tag = 0 THEN 0 ELSE Sized(tag, LengthBytes(header, tag))
    IN Tagged(TagBytes(header, 0))

\* emrtd_tlv_read_uint: the number in value, leading zeros apart, or -1 if there
\* is no byte or more than four are left.
ReadUint(value) ==
    LET digits == {i \in DOMAIN value : value[i] # 0}
        first == IF digits = {} THEN Len(value) + 1 ELSE Min(digits)
    IN IF value = <<>> \/ Len(value) - first + 1 > 4 THEN -1
       ELSE Number(SubSeq(value, first, Len(value)))

\* emrtd_tlv_encoded_length_size: how many bytes a length is written in.
EncodedLengthSize(length) ==
    IF length < 128 THEN 1
    ELSE IF length <= 255 THEN 2
    ELSE IF length <= 65535 THEN 3
    ELSE IF length < Huge THEN 4 ELSE 0

\* emrtd_tlv_encode_length
EncodeLength(length) ==
    CASE EncodedLengthSize(length) = 1 -> <<length>>
      [] EncodedLengthSize(length) = 2 -> <<129, length>>
      [] EncodedLengthSize(length) = 3 -> <<130, length \div 256, length % 256>>
      [] EncodedLengthSize(length) = 4 ->
             <<131, length \div 65536, (length \div 256) % 256, length % 256>>
      [] OTHER -> <<>>

-----------------------------------------------------------------------------
(***************************************************************************)
(* What the reader has to do, stated without a cursor.                     *)
(***************************************************************************)

\* The tags of X.690: one byte, or xxx11111 and bytes of which the last alone
\* has no top bit.
IsTag(t) ==
    /\ t # <<>> /\ Len(t) <= 4 /\ t[1] \notin {0, 255}
    /\ IF t[1] % 32 = 31
       THEN /\ Len(t) > 1
            /\ \A i \in 2 .. Len(t) : (t[i] < 128) <=> (i = Len(t))
       ELSE Len(t) = 1

\* The definite lengths of X.690: l says there are n bytes.
SaysLength(l, n) ==
    LET Digit(k) == CASE k = 0 -> n % 256
                      [] k = 1 -> (n \div 256) % 256
                      [] k = 2 -> (n \div 65536) % 256
                      [] k = 3 -> n \div Huge
    IN \/ Len(l) = 1 /\ l[1] < 128 /\ n = l[1]
       \/ /\ Len(l) \in 2 .. 5 /\ l[1] = 127 + Len(l)
          /\ \A i \in 2 .. Len(l) : l[i] = Digit(Len(l) - i)
          /\ \A k \in Len(l) - 1 .. 3 : Digit(k) = 0

\* s is one node and nothing else.
IsNode(s) ==
    \E t \in 1 .. 4, l \in 1 .. 5 :
        /\ t + l <= Len(s)
        /\ IsTag(SubSeq(s, 1, t))
        /\ SaysLength(SubSeq(s, t + 1, t + l), Len(s) - t - l)
=============================================================================
