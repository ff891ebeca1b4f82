--------------------------------- MODULE Lds ---------------------------------
(***************************************************************************)
(* EF.SOD, src/protocol/emrtd_lds.c over the reader of Tlv, and the        *)
(* verdict on a file that its hashes lead to, emrtd_worker_check_hash.     *)
(*                                                                         *)
(* The algorithms are told apart by whether the reader can compute them    *)
(* and how long their digest is; what they are called and who signed is    *)
(* for the report and left out, as are the texts of DG11 and DG12.         *)
(***************************************************************************)
EXTENDS Tlv

EF_SOD == <<119>>

SignedData        == <<42, 134, 72, 134, 247, 13, 1, 7, 2>>
LdsSecurityObject == <<103, 129, 8, 1, 1, 1>>
Sha1   == <<43, 14, 3, 2, 26>>
Sha256 == <<96, 134, 72, 1, 101, 3, 4, 2, 1>>
Sha384 == <<96, 134, 72, 1, 101, 3, 4, 2, 2>>
Sha512 == <<96, 134, 72, 1, 101, 3, 4, 2, 3>>
Sha224 == <<96, 134, 72, 1, 101, 3, 4, 2, 4>>

\* emrtd_digest_algorithms: the firmware computes SHA-1 and the SHA-256 family.
DigestLen(oid) == CASE oid = Sha1 -> 20 [] oid = Sha224 -> 28 [] oid = Sha256 -> 32
                    [] OTHER -> 0

SodHashMax == 16                        \* EMRTD_SOD_HASH_MAX
HashMax == 64                           \* sizeof EmrtdSodHash.hash

\* lds_oid_is
OidIs(node, oid) == node.tag = OID /\ node.value = oid

\* What one SEQUENCE of the list says of a group.
EntryOf(n) == [dg |-> ReadUint(Find(n.value, INTEGER).value),
               hash |-> Find(n.value, OCTET_STRING).value]
IsEntry(n) == /\ n.tag = SEQUENCE
              /\ Find(n.value, INTEGER) # None
              /\ Find(n.value, OCTET_STRING) # None

\* A bug for the check to find: the number of a hash is taken as it is.
HashesUnchecked(nodes) ==
    LET Slot(e) == [e EXCEPT !.dg = e.dg % 256]
        upTo[i \in 0 .. Len(nodes)] ==
            IF i = 0 THEN <<>>
            ELSE IF Len(upTo[i - 1]) < SodHashMax /\ IsEntry(nodes[i])
            THEN Append(upTo[i - 1], Slot(EntryOf(nodes[i]))) ELSE upTo[i - 1]
    IN upTo[Len(nodes)]

\* lds_read_hashes: the entries that name a group from 1 to 16 and carry a digest
\* the reader has room for, while it has slots; the others are passed over.
Hashes(nodes) ==
    LET Taken(n) == /\ IsEntry(n)
                    /\ EntryOf(n).dg \in 1 .. 16
                    /\ Len(EntryOf(n).hash) \in 1 .. HashMax
        upTo[i \in 0 .. Len(nodes)] ==
            IF i = 0 THEN <<>>
            ELSE IF Len(upTo[i - 1]) < SodHashMax /\ Taken(nodes[i])
            THEN Append(upTo[i - 1], EntryOf(nodes[i])) ELSE upTo[i - 1]
    IN upTo[Len(nodes)]

\* The places of the nodes with a tag, and those that are not the first of them.
PlacesOf(nodes, tag) == {i \in DOMAIN nodes : nodes[i].tag = tag}
Later(places) == {i \in places : \E j \in places : j < i}

\* What is learned from the LDSSecurityObject: its first SEQUENCE is the digest
\* algorithm and its second the list of hashes.
SecurityObject(octets, certificate) ==
    LET object == First(octets.value)
        parts == Children(object)
        sequences == PlacesOf(parts, SEQUENCE)
        algorithm == Find(parts[Min(sequences)].value, OID)
        hashes == Hashes(Children(parts[Min(Later(sequences))]))
    IN IF object = None THEN [error |-> "Parse"]
       ELSE IF object.tag # SEQUENCE THEN [error |-> "Parse"]
       ELSE IF Later(sequences) = {} THEN [error |-> "Parse"]
       ELSE IF hashes = <<>> THEN [error |-> "Parse"]
       ELSE [error |-> "None", certificate |-> certificate, hashes |-> hashes,
             digestLen |-> IF algorithm = None THEN 0 ELSE DigestLen(algorithm.value)]

\* What is learned from SignedData, whose first SEQUENCE is what was signed and
\* whose last [0] is the certificate of the signer.
\* A segmented OCTET STRING has another tag and is not found.
Signed(signedData) ==
    LET parts == Children(signedData)
        sequences == PlacesOf(parts, SEQUENCE)
        certificates == PlacesOf(parts, CONTEXT_0)
        encap == parts[Min(sequences)].value
        type == Find(encap, OID)
        content == Find(encap, CONTEXT_0)
        octets == Find(content.value, OCTET_STRING)
    IN IF sequences = {} THEN [error |-> "Parse"]
       ELSE IF type # None /\ ~OidIs(type, LdsSecurityObject) THEN [error |-> "Parse"]
       ELSE IF content = None THEN [error |-> "Parse"]
       ELSE IF octets = None THEN [error |-> "Parse"]
       ELSE SecurityObject(octets,
                /\ certificates # {}
                /\ parts[Max(certificates)].value # <<>>)

\* emrtd_lds_parse_sod: the template is stripped if there is one, then
\* ContentInfo leads to SignedData.
ParseSod(file) ==
    LET outer == First(file)
        root == IF outer.tag = EF_SOD THEN First(outer.value) ELSE outer
        type == Find(root.value, OID)
        content == Find(root.value, CONTEXT_0)
        signedData == First(content.value)
    IN IF outer = None THEN [error |-> "Parse"]
       ELSE IF root = None THEN [error |-> "Parse"]
       ELSE IF root.tag # SEQUENCE THEN [error |-> "Parse"]
       ELSE IF type # None /\ ~OidIs(type, SignedData) THEN [error |-> "Parse"]
       ELSE IF content = None THEN [error |-> "Parse"]
       ELSE IF signedData = None THEN [error |-> "Parse"]
       ELSE IF signedData.tag # SEQUENCE THEN [error |-> "Parse"]
       ELSE Signed(signedData)

\* emrtd_lds_sod_hash_for: the first hash listed for a group, <<>> if none is.
SodHashFor(sod, dg) ==
    LET hits == {i \in DOMAIN sod.hashes : sod.hashes[i].dg = dg}
    IN IF hits = {} THEN <<>> ELSE sod.hashes[Min(hits)].hash

\* mbed TLS: another content has another digest.
HashOf(length, content) == [i \in 1 .. length |-> content]

\* emrtd_worker_digest_start to _finish: the digest of a file read after EF.SOD,
\* empty unless EF.SOD names SHA-1 or SHA-256.
Digest(sod, content) ==
    IF sod.error # "None" THEN <<>>
    ELSE IF sod.digestLen \in {20, 32} THEN HashOf(sod.digestLen, content) ELSE <<>>

\* emrtd_worker_check_hash: what is said of group dg when its bytes hashed to
\* digest, which is empty when no digest was computed.
HashState(sod, dg, digest) ==
    IF sod.error # "None" THEN "Unknown"
    ELSE IF sod.digestLen = 0 \/ digest = <<>> THEN "UnsupportedDigest"
    ELSE IF SodHashFor(sod, dg) = <<>> THEN "NotListed"
    ELSE IF Len(SodHashFor(sod, dg)) # Len(digest) THEN "UnsupportedDigest"
    ELSE IF SodHashFor(sod, dg) = digest THEN "Match" ELSE "Mismatch"
=============================================================================
