------------------------------ MODULE MCInputs ------------------------------
(***************************************************************************)
(* The inputs of the application, one at a time: what a key of the date    *)
(* field does, and what the parsers make of a buffer, of a file the        *)
(* document announces protocols in, of an EF.SOD, of a machine readable    *)
(* zone as printed or with one character misread, and of a frame size.     *)
(***************************************************************************)
EXTENDS DateInput, Frame, SecurityInfo, Lds, Mrz, SequencesExt

VARIABLE sample         \* what is being parsed

vars == <<dateVars, sample>>

NoSample == [kind |-> "none"]

MCStored == {<<>>, <<0, 2, 29>>, <<99, 99, 99>>, <<28, 0, 0>>}

-----------------------------------------------------------------------------
\* Buffers: filler, the tags INTEGER and SEQUENCE, the start of a long tag, the
\* indefinite length, lengths of one and of four bytes, the reserved one.
Alphabet == {0, 1, 2, 48, 127, 128, 129, 132, 255}

PickBytes ==
    \E head \in {<<>>, <<2, 132>>}, n \in 0 .. 5 : \E data \in [1 .. n -> Alphabet] :
        sample' = [kind |-> "bytes", data |-> head \o data]

-----------------------------------------------------------------------------
\* What a document announces, before it is encoded: a PACE by its mapping, its
\* cipher and its parameter, or another protocol by its component.
Offers ==
    [mapping : {1, 2, 4, 6, 7}, cipher : {0, 1, 2, 4}, parameter : {8, 13, 14, 269}]
    \cup {[mapping |-> 2, cipher |-> 3, parameter |-> -1]}
    \cup {[component |-> c] : c \in {1, 2, 3, 5}} \cup {[component |-> 4]}

IsPace(o) == "mapping" \in DOMAIN o

Wrap(tag, value) == tag \o EncodeLength(Len(value)) \o value

\* DER: as few bytes as there must be, and a zero before a set top bit.
DerInteger(n) ==
    Wrap(INTEGER, IF n > 255 THEN <<n \div 256, n % 256>>
                  ELSE IF n > 127 THEN <<0, n>> ELSE <<n>>)

IdentifierOf(o) ==
    BsiPrefix \o IF IsPace(o) THEN <<4, o.mapping, o.cipher>> ELSE <<o.component>>

Encoded(o) ==
    LET version == DerInteger(IF IsPace(o) THEN 2 ELSE 1)
        parameter == IF ~IsPace(o) THEN <<>>
                     ELSE IF o.parameter < 0 THEN <<>> ELSE DerInteger(o.parameter)
    IN Wrap(SEQUENCE, Wrap(OID, IdentifierOf(o)) \o version \o parameter)

EntriesOf(offers) == FlattenSeq([i \in DOMAIN offers |-> Encoded(offers[i])])

Shapes == {"set", "padded", "dg14", "sequence", "bare"}

Shaped(shape, offers) ==
    LET entries == EntriesOf(offers)
    IN CASE shape = "set" -> Wrap(SET, entries)
         [] shape = "padded" -> Wrap(SET, entries \o <<0, 0>>) \o <<0>>
         [] shape = "dg14" -> Wrap(DG14, Wrap(SET, entries))
         [] shape = "sequence" -> Wrap(SEQUENCE, entries)
         [] shape = "bare" -> entries

PickInfos ==
    \E shape \in Shapes :
        \E n \in 0 .. 2 : \E offers \in [1 .. n -> Offers] :
            sample' = [kind |-> "infos", offers |-> offers, file |-> Shaped(shape, offers)]

-----------------------------------------------------------------------------
\* An EF.SOD, before it is encoded: the algorithm, and the groups with what was
\* signed of them.  257 is group 1 in eight bits; a hash of no bytes is none.
Entries == [dg : {0, 1, 2, 17, 257}, content : {1, 2}, empty : {FALSE}]
           \cup {[dg |-> 1, content |-> 1, empty |-> TRUE]}
Algorithms == {Sha1, Sha224, Sha256, Sha512}
SignedLen(oid) == IF oid = Sha512 THEN 64 ELSE DigestLen(oid)

Listed(oid, e) ==
    Wrap(SEQUENCE, DerInteger(e.dg)
         \o Wrap(OCTET_STRING, IF e.empty THEN <<>> ELSE HashOf(SignedLen(oid), e.content)))

HashList(oid, entries) == FlattenSeq([i \in DOMAIN entries |-> Listed(oid, entries[i])])

Sod(oid, entries, form) ==
    LET algorithm == Wrap(SEQUENCE, Wrap(OID, oid))
        object == Wrap(SEQUENCE, DerInteger(0) \o algorithm
                                 \o Wrap(SEQUENCE, HashList(oid, entries)))
        encap == Wrap(SEQUENCE, Wrap(OID, LdsSecurityObject)
                                \o Wrap(CONTEXT_0, Wrap(OCTET_STRING, object)))
        certificate == IF form = "certified" THEN Wrap(CONTEXT_0, Wrap(SEQUENCE, <<>>)) ELSE <<>>
        signed == Wrap(SEQUENCE, DerInteger(3) \o Wrap(SET, algorithm) \o encap \o certificate
                                 \o Wrap(SET, Wrap(SEQUENCE, algorithm)))
        info == Wrap(SEQUENCE, Wrap(OID, SignedData) \o Wrap(CONTEXT_0, signed))
    IN IF form = "bare" THEN info ELSE Wrap(EF_SOD, info)

PickSod ==
    \E oid \in Algorithms, form \in {"bare", "certified"} :
        \E n \in 0 .. 2 : \E entries \in [1 .. n -> Entries] :
            sample' = [kind |-> "sod", algorithm |-> oid, entries |-> entries,
                       file |-> Sod(oid, entries, form)]

-----------------------------------------------------------------------------
\* A document, before its zone is printed: a number of up to sixteen characters (a
\* longer one leaves no room in the input of the key derivation, which refuses it),
\* two dates and what the issuer put in the optional data.
NumberOf(n) == [i \in 1 .. n |-> (<<21, 8, 9, 30, 0, 7, 35>>)[(i % 7) + 1]]
Numbers(format) ==
    {NumberOf(n) : n \in IF format = "TD3" THEN {1, 8, 9}
                         ELSE IF format = "TD2" THEN {1, 9, 10, 15} ELSE {1, 9, 10, 16}}
Dates == {<<7, 4, 0, 8, 1, 2>>, <<2, 8, 0, 2, 2, 9>>}
Personal == {<<>>, <<35, 14, 1, 8, 4>>}

\* ICAO 9303-4 to -6: the positions of the printed lines that the composite digit
\* covers, the characters between the weighed fields standing as filler.
Covered(z) ==
    LET Gap(n) == [i \in 1 .. n |-> Filler]
        number == z.number \o <<z.numberDigit>>
        lower == number \o Gap(3) \o z.birth \o <<z.birthDigit>> \o Gap(1)
                 \o z.expiry \o <<z.expiryDigit>> \o z.optional \o <<z.optionalDigit>>
        first == Gap(5) \o number \o z.optional
        second == z.birth \o <<z.birthDigit>> \o Gap(1) \o z.expiry \o <<z.expiryDigit>>
                  \o Gap(3) \o z.optional2
    IN CASE z.format = "TD3" -> SubSeq(lower, 1, 10) \o SubSeq(lower, 14, 20) \o SubSeq(lower, 22, 43)
         [] z.format = "TD2" -> SubSeq(lower, 1, 10) \o SubSeq(lower, 14, 20) \o SubSeq(lower, 22, 35)
         [] z.format = "TD1" -> SubSeq(first, 6, 30) \o SubSeq(second, 1, 7)
                                \o SubSeq(second, 9, 15) \o SubSeq(second, 19, 29)

\* ICAO 9303-5 and -6: a long number leaves a filler where its digit would be and
\* goes on, with the digit, in the optional data.
Printed(format, number, birth, expiry, personal) ==
    LET long == Len(number) > 9
        width == CASE format = "TD3" -> 14 [] format = "TD2" -> 7 [] format = "TD1" -> 15
        rest == SubSeq(number, 10, Len(number)) \o <<CheckDigit(number), Filler>>
        optional == Padded(IF long THEN SubSeq(rest, 1, Min({Len(rest), width}))
                           ELSE IF format = "TD1" THEN <<>> ELSE personal, width)
        zone == [format |-> format,
                 number |-> Padded(SubSeq(number, 1, Min({9, Len(number)})), 9),
                 numberDigit |-> IF long THEN Filler ELSE CheckDigit(Padded(number, 9)),
                 birth |-> birth, birthDigit |-> CheckDigit(birth),
                 expiry |-> expiry, expiryDigit |-> CheckDigit(expiry),
                 optional |-> optional, optionalDigit |-> CheckDigit(optional),
                 optional2 |-> Padded(IF format = "TD1" THEN personal ELSE <<>>, 11),
                 composite |-> 0]
    IN [zone EXCEPT !.composite = CheckDigit(Covered(zone))]

PickZone ==
    \E format \in {"TD1", "TD2", "TD3"}, birth \in Dates, expiry \in Dates, personal \in Personal :
        \E number \in Numbers(format) :
            sample' = [kind |-> "zone", number |-> number, read |-> "right",
                       zone |-> Printed(format, number, birth, expiry, personal)]

\* One of the weighed characters is taken for another of another weight.
Differ(c, d) == (Value(c) - Value(d)) % 10 # 0

Misread ==
    /\ sample.kind = "zone"
    /\ sample.read = "right"
    /\ \E d \in {0, 1, 5, 17, Filler} :
          \/ \E field \in {"number", "birth", "expiry", "optional", "optional2"} :
                \E i \in DOMAIN sample.zone[field] :
                    /\ (field = "optional2") => sample.zone.format = "TD1"
                    /\ Differ(sample.zone[field][i], d)
                    /\ sample' = [sample EXCEPT !.read = "misread", !.zone[field][i] = d]
          \/ \E field \in {"numberDigit", "birthDigit", "expiryDigit", "optionalDigit", "composite"} :
                /\ (field = "optionalDigit") => sample.zone.format = "TD3"
                /\ Differ(sample.zone[field], d)
                /\ sample' = [sample EXCEPT !.read = "misread", !.zone[field] = d]
    /\ UNCHANGED dateVars

-----------------------------------------------------------------------------
\* The frame a transceiver announces, 256 on the Flipper and 0 for the default of
\* the standard, the block of the cipher, and the length a card names with 6CXX.
PickFrame ==
    \E fsd \in {0} \cup 16 .. 300, block \in {0, 8, 16}, sw2 \in {0, 1, 16, 128, 255} :
        sample' = [kind |-> "frame", fsd |-> fsd, block |-> block, sw2 |-> sw2]

Pick ==
    /\ sample = NoSample
    /\ dateVars = <<<<1, 1, CurrentYear % 100>>, 1, FALSE, <<>>>>
    /\ \/ PickBytes
       \/ PickInfos
       \/ PickSod
       \/ PickZone
       \/ PickFrame
    /\ UNCHANGED dateVars

Keys ==
    /\ sample = NoSample
    /\ DateNext
    /\ UNCHANGED sample

\* The next input.
Drop ==
    /\ sample # NoSample
    /\ sample' = NoSample
    /\ UNCHANGED dateVars

Init == DateInit /\ sample = NoSample
Next == Pick \/ Misread \/ Keys \/ Drop
Spec == Init /\ [][Next]_vars

-----------------------------------------------------------------------------
(***************************************************************************)
(* Properties.                                                             *)
(***************************************************************************)

LengthsToWrite == {0, 1, 127, 128, 255, 256, 65535, 65536, Huge - 1}

LengthComesBack(n) ==
    LET written == EncodeLength(n)
    IN /\ SaysLength(written, n)
       /\ Len(written) = EncodedLengthSize(n)
       /\ LengthBytes(written, 0) = Len(written)
       /\ LengthAt(written, 0, Len(written)) = n

LengthsComeBack == \A n \in LengthsToWrite : LengthComesBack(n)

\* n is a whole node of the grammar and what the reader says of it is so.
WholeNode(data, n) ==
    LET raw == SubSeq(data, n.start + 1, n.start + n.total)
        header == n.total - Len(n.value)
    IN /\ n.start + n.total <= Len(data)
       /\ IsNode(raw)
       /\ n.tag = SubSeq(raw, 1, Len(n.tag)) /\ IsTag(n.tag)
       /\ n.value = SubSeq(raw, header + 1, n.total)
       /\ SaysLength(SubSeq(raw, Len(n.tag) + 1, header), Len(n.value))
       /\ \A k \in 0 .. n.total :
             TotalLength(SubSeq(raw, 1, k)) = IF k < header THEN 0 ELSE n.total

ReadsWhatIsThere(data) ==
    LET nodes == Nodes(data)
        end == IF nodes = <<>> THEN 0 ELSE Last(nodes).start + Last(nodes).total
    IN /\ \A i \in DOMAIN nodes :
             LET n == nodes[i]
             IN /\ n.start = IF i = 1 THEN 0 ELSE nodes[i - 1].start + nodes[i - 1].total
                /\ WholeNode(data, n)
                /\ Find(data, n.tag).tag = n.tag
                /\ FindRecursive(data, n.tag).tag = n.tag
       /\ \A k \in end + 1 .. Len(data) : ~IsNode(SubSeq(data, end + 1, k))
       /\ Exhausted(data) <=> end = Len(data)

\* emrtd_tlv.c against the grammar of X.690.  Whatever the bytes: the nodes that
\* the iteration returns follow one another from the first byte, each is a whole
\* node of the grammar whose value is its end and lies inside the buffer, and the
\* iteration stops only where no node begins; it is exhausted exactly when every
\* byte was accounted for.  However little of a node has arrived, the length its
\* header announces is the right one or none, and with the header complete it is
\* the right one.  What Find sees among the siblings FindRecursive sees too.
TlvReadsWhatIsThere ==
    sample.kind = "bytes" => ReadsWhatIsThere(sample.data) /\ LengthsComeBack

\* What SecurityInfos has to make of a file that announces those offers.
BestOfOffers(offers, file) ==
    LET paces == {i \in DOMAIN offers : IsPace(offers[i])}
        runs == {i \in paces : /\ offers[i].mapping = 2
                               /\ offers[i].cipher \in 1 .. 4
                               /\ offers[i].parameter \in CarriedCurves}
        strongest == {i \in runs : \A j \in runs : offers[j].cipher <= offers[i].cipher}
        Announces(components) ==
            \E i \in DOMAIN offers \ paces : offers[i].component \in components
        Acted(pace) ==
            /\ (pace # <<>>) <=> (paces # {})
            /\ paces # {} => (pace[1].usable <=> (runs # {}))
            /\ runs # {} =>
                  /\ pace[1].cipher = offers[Min(strongest)].cipher
                  /\ pace[1].parameter = offers[Min(strongest)].parameter
        Summed(infos) ==
            /\ infos.entries = Len(offers)
            /\ Acted(infos.pace)
            /\ infos.chipAuth <=> Announces({PK, CA})
            /\ infos.terminalAuth <=> Announces({TA})
    IN Summed(SecurityInfos(file))

\* emrtd_security_info.c: however EF.CardAccess or DG14 wraps what the document
\* announces, PACE is found exactly when it is announced; the entry acted on can
\* be run exactly when one of those announced can; it is then the first of those
\* with the strongest cipher, though an entry that cannot be run has a stronger.
BestOfTheOffer == sample.kind = "infos" => BestOfOffers(sample.offers, sample.file)

\* What has to be said of a group with that content under those entries: the first
\* of them that lists it decides.
VerdictOn(oid, entries, dg, content) ==
    LET listed == {i \in DOMAIN entries : entries[i].dg \in 1 .. 16 /\ ~entries[i].empty}
        listings == {i \in listed : entries[i].dg = dg}
    IN IF listed = {} THEN "Unknown"
       ELSE IF oid \notin {Sha1, Sha256} THEN "UnsupportedDigest"
       ELSE IF listings = {} THEN "NotListed"
       ELSE IF entries[Min(listings)].content = content THEN "Match" ELSE "Mismatch"

\* emrtd_lds.c and emrtd_worker_check_hash: a file is said to match exactly when
\* the first hash that EF.SOD lists for its group is the hash of what was read,
\* to mismatch exactly when it is the hash of something else, and nothing is said
\* of it when the group is not listed, when the reader cannot compute the digest
\* or when EF.SOD lists nothing at all.  A number that is not a group's, 257
\* least of all, and an empty hash list nothing.
HashVerdict ==
    sample.kind = "sod" =>
        LET Judged(sod) ==
                \A dg \in 1 .. 3, content \in {1, 2} :
                    HashState(sod, dg, Digest(sod, content)) =
                        VerdictOn(sample.algorithm, sample.entries, dg, content)
        IN Judged(ParseSod(sample.file))

\* The number as a user may type it.
InSmall(number) == [i \in DOMAIN number |-> IF number[i] \in 10 .. 35 THEN number[i] + 28
                                            ELSE number[i]]

\* The zone is accepted, the number is cut out of it, and typed in it leads with
\* the dates to the characters of the zone that the chip derives its keys from.
LeadsToTheKey(number, z, typed) ==
    LET long == Len(number) > 9
        digit == IF long THEN z.optional[Len(number) - 8] ELSE z.numberDigit
    IN Information(typed, z.birth, z.expiry) =
           (IF long THEN number ELSE z.number) \o <<digit>> \o z.birth \o <<z.birthDigit>>
           \o z.expiry \o <<z.expiryDigit>>

ReadAs(number, z) ==
    LET p == Parse(z)
    IN /\ p.valid /\ p.number = number /\ p.birth = z.birth /\ p.expiry = z.expiry
       /\ \A typed \in {number, InSmall(number)} : LeadsToTheKey(number, z, typed)

\* emrtd_mrz.c against the layout of ICAO 9303: a zone that was read right is
\* accepted, and the number cut out of it, a long one put together again from the
\* optional data, leads with the dates to the very characters of the zone that
\* the chip derives its keys from, check digits included, and so it does when it
\* is typed in small letters.  A zone with one of
\* the weighed characters taken for another of another weight is not accepted.
KeyIsThePrintedOne ==
    sample.kind = "zone" =>
        IF sample.read = "misread" THEN ~Parse(sample.zone).valid
        ELSE ReadAs(sample.number, sample.zone)

\* What a card answers a READ BINARY of n bytes with, under a session the sealed
\* data, the sealed status and the checksum.
AnswerBytes(n, block) ==
    LET sealed == 1 + ((n \div block) + 1) * block
    IN IF block = 0 THEN n + 2
       ELSE (1 + EncodedLengthSize(sealed) + sealed) + 4 + 10 + 2

\* emrtd_worker_chunk_size and emrtd_transceiver_max_le: no answer the reader asks
\* for, the first time or after 6CXX, overflows the buffer the firmware receives
\* it in; where the frame leaves room for an answer it fits the frame as well;
\* and the reader always asks for something.
AnswerFitsTheFrame ==
    sample.kind = "frame" =>
        LET asked == 1 .. ChunkSize(sample.fsd, sample.block)
                     \cup {AskedAgain(sample.fsd, sample.block, sample.sw2)}
        IN /\ ChunkSize(sample.fsd, sample.block) >= 1
           /\ \A n \in asked :
                 /\ AnswerBytes(n, sample.block) <= MaxInf
                 /\ MaxLe(sample.fsd, sample.block) > 0 =>
                       AnswerBytes(n, sample.block) <= FramePayload(sample.fsd)

\* emrtd_date_input.c: whatever keys led there, also through days that do not
\* exist, a date that is handed back is the one in the fields and exists, both in
\* the century the clock puts it in and in the one the screen shows.
HandsBackRealDates ==
    handed # <<>> =>
        /\ handed = <<year, month, day>>
        /\ \A y \in {ResolveYear, ShownYear(year, future)} :
              day \in 1 .. DaysPerMonth(LeapYear(y), month)
=============================================================================
