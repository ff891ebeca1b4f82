-------------------------- MODULE InputsInvariant ---------------------------
(***************************************************************************)
(* What the proofs about the inputs are stated with: the predicates that   *)
(* say what a buffer, a file or a zone looks like part by part, what the   *)
(* folds and searches have made of a prefix of one, and the invariants of  *)
(* the run, DateInv, SampleInv and ZoneInv.                                *)
(***************************************************************************)
EXTENDS MCInputs

(***************************************************************************)
(* Frames.  A file is asked for in the clear, or sealed under a cipher of  *)
(* eight or sixteen bytes.                                                 *)
(***************************************************************************)
Blocks == {0, 8, 16}

\* A length the reader may ask for.
Asked(fsd, block, sw2) == 1 .. ChunkSize(fsd, block) \cup {AskedAgain(fsd, block, sw2)}

Fits(n, fsd, block) ==
    /\ AnswerBytes(n, block) <= MaxInf
    /\ MaxLe(fsd, block) > 0 => AnswerBytes(n, block) <= FramePayload(fsd)

\* Most bytes asked for at once, by the block.
Limit(block) == IF block = 0 THEN 251 ELSE IF block = 8 THEN 231 ELSE 223

(***************************************************************************)
(* The date field.                                                         *)
(***************************************************************************)
DateType == year \in 0 .. 99 /\ month \in 0 .. 99 /\ day \in 0 .. 99

\* What was handed back is in the fields, and passed the validation.
DateInv == DateType /\ (handed # <<>> => handed = <<year, month, day>> /\ IsValid)

(***************************************************************************)
(* The TLV reader.  Its walks are recursive functions of a buffer of any   *)
(* length, so each is shown first to have a value, by induction, and that  *)
(* to be what its equation says; the rest follows from the equation.       *)
(***************************************************************************)
\* s has k elements behind the first a; what they are; and the i-th of them.
Room(s, a, k) == a \in Nat /\ k \in Nat /\ a + k <= Len(s)
Cut(s, a, k) == SubSeq(s, a + 1, a + k)
At(s, a, i) == s[a + i]

\* The number that three bytes stand for.
BigEndian(p, q, r) == p * 65536 + q * 256 + r

\* The bytes of a number, from the last.
DigitOf(n, k) == CASE k = 0 -> n % 256
                   [] k = 1 -> (n \div 256) % 256
                   [] k = 2 -> (n \div 65536) % 256
                   [] k = 3 -> n \div Huge

\* A node of v bytes with a tag of t and a length of l begins behind the first o.
HasNode(data, o, t, l, v) ==
    /\ t \in Nat /\ l \in Nat /\ v \in Nat /\ t # 0 /\ l # 0 /\ v < Huge
    /\ Room(data, o, t) /\ Room(data, o + t, l) /\ Room(data, o + t + l, v)
    /\ IsTag(Cut(data, o, t))
    /\ SaysLength(Cut(data, o + t, l), v)

NodeAt(data, o, t, l, v) ==
    [tag |-> Cut(data, o, t), constructed |-> Constructed(data[o + 1]),
     value |-> Cut(data, o + t + l, v), start |-> o, total |-> t + l + v]

\* What one step of the iteration adds, and the iteration itself.
And(data, from, pos) ==
    IF ReadNode(data, pos) = None THEN <<>>
    ELSE <<ReadNode(data, pos)>> \o from[pos + ReadNode(data, pos).total]

Iteration(from, data) == from = [pos \in 0 .. Len(data) |-> And(data, from, pos)]

\* Where the reader stands with i of the nodes behind it, and what the nodes are
\* that it finds from pos on.
Reach(pos, ns, i) == IF i = 0 THEN pos ELSE ns[i].start + ns[i].total

Follow(data, pos, ns) ==
    /\ ns \in Seq({ReadNode(data, p) : p \in 0 .. Len(data)})
    /\ \A i \in 0 .. Len(ns) : Reach(pos, ns, i) \in 0 .. Len(data)
    /\ \A i \in 1 .. Len(ns) : /\ ns[i] = ReadNode(data, Reach(pos, ns, i - 1))
                               /\ ns[i] # None
    /\ ReadNode(data, Reach(pos, ns, Len(ns))) = None

\* emrtd_tlv_find_recursive as an equation: what is found in a node, among the
\* nodes of one buffer, and in every buffer at every depth.
Inside(search, tag, depth, node) ==
    IF node.tag = tag THEN node
    ELSE IF /\ node.constructed
            /\ node.value # <<>>
            /\ depth + 1 < MaxDepth
         THEN search[depth + 1][node.value]
         ELSE None

Hits(search, tag, depth, nodes) ==
    {i \in DOMAIN nodes : Inside(search, tag, depth, nodes[i]) # None}

Among(search, tag, depth, nodes) ==
    IF Hits(search, tag, depth, nodes) = {} THEN None
    ELSE Inside(search, tag, depth, nodes[Min(Hits(search, tag, depth, nodes))])

Search(search, tag) ==
    search = [depth \in 0 .. MaxDepth - 1 |-> [buffer \in Seq(Byte) |->
                 Among(search, tag, depth, Nodes(buffer))]]

\* A search finds nodes with the tag only, at the depth below this one.
BelowHasTag(f, tag, depth) ==
    depth + 1 < MaxDepth => \A buffer \in Seq(Byte) :
        f[depth + 1][buffer] = None \/ f[depth + 1][buffer].tag = tag

(***************************************************************************)
(* The nodes of a buffer that was put together from parts: each part is    *)
(* read as it would be alone, one behind the other.                        *)
(***************************************************************************)
\* A node as it is read from a buffer that begins by bytes earlier.
Shift(n, by) == [tag |-> n.tag, constructed |-> n.constructed, value |-> n.value,
                 start |-> by + n.start, total |-> n.total]

\* The nodes of a buffer, their number and where each begins.
Row(data, n, o, ns) ==
    /\ o \in [0 .. n -> 0 .. Len(data)] /\ o[0] = 0
    /\ ns = [i \in 1 .. n |-> ns[i]]
    /\ \A i \in 1 .. n : \E t, l, v \in Nat :
          /\ HasNode(data, o[i - 1], t, l, v)
          /\ ns[i] = NodeAt(data, o[i - 1], t, l, v)
          /\ o[i] = o[i - 1] + t + l + v /\ o[i] <= Len(data)
    /\ \A t, l, v : ~HasNode(data, o[n], t, l, v)

\* The n nodes that end behind the first k bytes; and by their tags and values.
RowTo(data, n, k, ns) == \E o : Row(data, n, o, ns) /\ o[n] = k

Reads(data, k, cs) ==
    \E n \in Nat : \E ns :
        /\ RowTo(data, n, k, ns)
        /\ cs = [i \in 1 .. n |-> [tag |-> ns[i].tag, value |-> ns[i].value]]

\* The nodes of one part and, behind La bytes, those of another.
Joined(ns, n, na, m, nb, La) ==
    /\ \A i \in 1 .. n : ns[i] = na[i]
    /\ \A i \in 1 .. m : ns[n + i] = Shift(nb[i], La)

(***************************************************************************)
(* SecurityInfos: what the fold over the nodes of a file makes of them.    *)
(***************************************************************************)
\* A node that is a SecurityInfo, its identifier, the component it names behind the
\* prefix, and the entry that is made of it if that is a PACE.
Opens(n) == n.tag = SEQUENCE /\ Children(n) # <<>> /\ Children(n)[1].tag = OID
Identifier(n) == Children(n)[1].value
Names(n, component) ==
    Opens(n) /\ Identifier(n) # ActiveAuth /\ HasPrefix(Identifier(n)) /\ Identifier(n)[8] = component
AnnouncesPace(n) == Names(n, PACE) /\ Len(Identifier(n)) = PaceOidLen
Announced(n) == PaceInfo(Identifier(n), SecondInteger(Children(n)))

Summary(infos) ==
    infos = [pace |-> infos.pace, chipAuth |-> infos.chipAuth, terminalAuth |-> infos.terminalAuth,
             activeAuth |-> infos.activeAuth, entries |-> infos.entries]

Preferred(n, pace) == pace = <<>> \/ PaceRank(Announced(n)) > PaceRank(pace[1])

\* What security_info_handle does to the summary, field by field.
Handled(n, infos, h) ==
    /\ h.entries = IF Opens(n) THEN Min({infos.entries + 1, 255}) ELSE infos.entries
    /\ h.chipAuth <=> infos.chipAuth \/ Names(n, PK) \/ Names(n, CA)
    /\ h.terminalAuth <=> infos.terminalAuth \/ Names(n, TA)
    /\ h.pace = IF AnnouncesPace(n) /\ Preferred(n, infos.pace)
                THEN <<Announced(n)>> ELSE infos.pace

\* Of the first k nodes, the i-th announces the PACE that ranks highest, and is
\* the first that does.
IsBest(ns, k, i) ==
    /\ AnnouncesPace(ns[i])
    /\ \A j \in 1 .. k : AnnouncesPace(ns[j]) =>
          /\ PaceRank(Announced(ns[j])) <= PaceRank(Announced(ns[i]))
          /\ j < i => PaceRank(Announced(ns[j])) < PaceRank(Announced(ns[i]))

Best(ns, k, pace) ==
    \/ pace = <<>> /\ \A i \in 1 .. k : ~AnnouncesPace(ns[i])
    \/ \E i \in 1 .. k : pace = <<Announced(ns[i])>> /\ IsBest(ns, k, i)

\* What is in the summary when k of the nodes have been folded into it.
Folded(ns, k, infos) ==
    /\ Summary(infos)
    /\ Best(ns, k, infos.pace)
    /\ infos.chipAuth <=> \E i \in 1 .. k : Names(ns[i], PK) \/ Names(ns[i], CA)
    /\ infos.terminalAuth <=> \E i \in 1 .. k : Names(ns[i], TA)
    /\ k <= 255 /\ (\A i \in 1 .. k : Opens(ns[i])) => infos.entries = k
    /\ (\A i \in 1 .. k : ~Opens(ns[i])) => infos.entries = 0

\* What is in the summary after i nodes, f being what is in it after fewer.
Into(ns, f, i) ==
    IF i = 0 THEN NoInfos
    ELSE IF ns[i].tag # SEQUENCE THEN f[i - 1]
    ELSE Handle(ns[i], f[i - 1])

Fold(f, ns, m) == f = [i \in 0 .. m |-> Into(ns, f, i)]

(***************************************************************************)
(* What is written is read: a node as Wrap writes it, and the nodes of a   *)
(* buffer by their tags and values.                                        *)
(***************************************************************************)
\* A node with a tag and a value.
IsOf(n, tag, value) ==
    /\ n # None /\ n.tag = tag /\ n.value = value /\ n.constructed = Constructed(tag[1])

\* ns are nodes with those tags and values.
AreOf(ns, m, cs) ==
    /\ Len(ns) = m /\ DOMAIN ns = 1 .. m /\ (ns = <<>> <=> m = 0)
    /\ \A i \in 1 .. m : IsOf(ns[i], cs[i].tag, cs[i].value)

(***************************************************************************)
(* The entry that the reader acts on, whatever is in the file.             *)
(***************************************************************************)
\* The SecurityInfos the reader goes through in a file.
Siblings(file) == IF Body(file) = None THEN <<>> ELSE Nodes(Body(file).bytes)

\* What the reader acts on: an entry it can run before every one that it cannot, and
\* of those the first with the strongest cipher.
Outdoes(a, b) ==
    /\ b.usable => a.usable
    /\ b.usable = a.usable => b.cipher <= a.cipher

(***************************************************************************)
(* An INTEGER of one or two bytes is read as it was written.               *)
(***************************************************************************)
\* The bytes of an INTEGER as MCInputs writes them.
IntegerBytes(n) ==
    IF n > 255 THEN <<n \div 256, n % 256>> ELSE IF n > 127 THEN <<0, n>> ELSE <<n>>

\* Of the m bytes the first that is not zero is the k-th, and w is what follows.
Leads(v, m, k, w) ==
    /\ Len(v) = m /\ m # 0 /\ m <= 4 /\ k # 0 /\ k <= m + 1
    /\ \A i \in 1 .. m : i < k => v[i] = 0
    /\ k <= m => v[k] # 0
    /\ w = SubSeq(v, k, m)

(***************************************************************************)
(* Buffers that are read to the end.                                       *)
(***************************************************************************)
Kid(t, v) == [tag |-> t, value |-> v]

\* A buffer that is read as nodes with those tags and values, and nothing behind them.
Whole(data, cs) == data \in Seq(Byte) /\ Reads(data, Len(data), cs)

\* The tags that are written are tags of one byte.
Simple(t) == t \in Seq(Byte) /\ IsTag(t) /\ Len(t) = 1

(***************************************************************************)
(* What an offer is written as, and what is read of it.                    *)
(***************************************************************************)
\* What may be announced: a PACE with any components, and a parameter of two bytes
\* or none, or another protocol by any component.
PaceOffer(o) ==
    /\ IsPace(o) /\ o.mapping \in Byte /\ o.cipher \in Byte
    /\ o.parameter = -1 \/ (o.parameter \in Nat /\ o.parameter \div 256 < 256)
OtherOffer(o) == ~IsPace(o) /\ o.component \in Byte

Version(o) == IF IsPace(o) THEN 2 ELSE 1
Given(o) == IF ~IsPace(o) THEN FALSE ELSE ~(o.parameter < 0)
Opening(o) == Wrap(OID, IdentifierOf(o)) \o DerInteger(Version(o))
Inner(o) == Opening(o) \o (IF Given(o) THEN DerInteger(o.parameter) ELSE <<>>)
Two(o) == <<Kid(OID, IdentifierOf(o)), Kid(INTEGER, IntegerBytes(Version(o)))>>
Kids(o) == Two(o) \o (IF Given(o) THEN <<Kid(INTEGER, IntegerBytes(o.parameter))>> ELSE <<>>)

\* The parameter that is read from an offer, -1 if it carries none.
Second(o) == IF Given(o) THEN o.parameter ELSE -1

\* n is the SecurityInfo of that offer: identifier, parameter and component.
Means(n, o) ==
    /\ Opens(n) /\ Identifier(n) = IdentifierOf(o)
    /\ SecondInteger(Children(n)) = Second(o)

Runs(o) == o.mapping = 2 /\ o.cipher \in 1 .. 4 /\ o.parameter \in CarriedCurves

\* What the fold makes of the SecurityInfo of an offer.
Stands(n, o) ==
    /\ Opens(n)
    /\ AnnouncesPace(n) <=> IsPace(o)
    /\ Names(n, PK) <=> ~IsPace(o) /\ o.component = PK
    /\ Names(n, CA) <=> ~IsPace(o) /\ o.component = CA
    /\ Names(n, TA) <=> ~IsPace(o) /\ o.component = TA
    /\ IsPace(o) => (Announced(n).usable <=> Runs(o))
    /\ IsPace(o) /\ Runs(o) => /\ Announced(n).cipher = o.cipher
                               /\ Announced(n).parameter = o.parameter

(***************************************************************************)
(* The offers of a file and the SecurityInfos that stand for them.         *)
(***************************************************************************)
\* The SecurityInfos of a list of offers, one for each and in their order.
StandFor(ns, m, offers) ==
    /\ Len(offers) = m /\ DOMAIN offers = 1 .. m
    /\ \A i \in 1 .. m : Stands(ns[i], offers[i])

PacesOf(offers) == {i \in DOMAIN offers : IsPace(offers[i])}
RunsOf(offers) == {i \in PacesOf(offers) : Runs(offers[i])}
StrongestOf(offers) ==
    {i \in RunsOf(offers) : \A j \in RunsOf(offers) : offers[j].cipher <= offers[i].cipher}

\* What BestOfOffers says of the entry acted on.
ActedOf(offers, pace) ==
    /\ (pace # <<>>) <=> (PacesOf(offers) # {})
    /\ PacesOf(offers) # {} => (pace[1].usable <=> (RunsOf(offers) # {}))
    /\ RunsOf(offers) # {} =>
          /\ pace[1].cipher = offers[Min(StrongestOf(offers))].cipher
          /\ pace[1].parameter = offers[Min(StrongestOf(offers))].parameter

\* BestOfOffers, of a summary whatever it was made from.
SummedUp(offers, infos) ==
    /\ infos.entries = Len(offers)
    /\ ActedOf(offers, infos.pace)
    /\ infos.chipAuth <=>
          \E i \in DOMAIN offers \ PacesOf(offers) : offers[i].component \in {PK, CA}
    /\ infos.terminalAuth <=>
          \E i \in DOMAIN offers \ PacesOf(offers) : offers[i].component \in {TA}

(***************************************************************************)
(* A file of up to 255 offers, in every shape.                             *)
(***************************************************************************)
\* The entries of a file, one behind the other.
Into2(seqs, f, i) == IF i = 1 THEN seqs[i] ELSE f[i - 1] \o seqs[i]

Flat(f, seqs, m) == f = [i \in 1 .. m |-> Into2(seqs, f, i)]

\* SEQUENCEs that hold those values.
InSequence(vals, k) == [i \in 1 .. k |-> Kid(SEQUENCE, vals[i])]

\* The first k of the offers.
Written(offers, k) == [i \in 1 .. k |-> Kid(SEQUENCE, Inner(offers[i]))]

AllOffers(offers, m) ==
    /\ Len(offers) = m /\ DOMAIN offers = 1 .. m
    /\ \A i \in 1 .. m : PaceOffer(offers[i]) \/ OtherOffer(offers[i])

(***************************************************************************)
(* The files of the run.                                                   *)
(***************************************************************************)
\* A file of the run: up to 255 offers, in one of the shapes.
InfosOf(offers, file) ==
    \E m \in Nat : /\ m <= 255 /\ AllOffers(offers, m)
                   /\ \E shape \in Shapes : file = Shaped(shape, offers)

(***************************************************************************)
(* The hashes of EF.SOD: what the fold over the nodes of the list makes of *)
(* them.                                                                   *)
(***************************************************************************)
\* The entries of the list of hashes that are taken, and what is in the slots after
\* i nodes, f being what is in them after fewer.
TakenAs(n) ==
    /\ IsEntry(n) /\ EntryOf(n).dg \in 1 .. 16 /\ Len(EntryOf(n).hash) \in 1 .. HashMax
IntoSlots(ns, f, i) ==
    IF i = 0 THEN <<>>
    ELSE IF Len(f[i - 1]) < SodHashMax /\ TakenAs(ns[i]) THEN Append(f[i - 1], EntryOf(ns[i]))
    ELSE f[i - 1]
FoldSlots(f, ns, m) == f = [i \in 0 .. m |-> IntoSlots(ns, f, i)]

\* The first of k nodes that lists a group, the first slot that names it, and that
\* they hold the same hash.
Speaks(n, dg) == TakenAs(n) /\ EntryOf(n).dg = dg
FirstNode(ns, k, dg, i) ==
    /\ i \in 1 .. k /\ Speaks(ns[i], dg) /\ \A j \in 1 .. i - 1 : ~Speaks(ns[j], dg)
FirstSlot(slots, dg, p) ==
    /\ p \in 1 .. Len(slots) /\ slots[p].dg = dg /\ \A q \in 1 .. p - 1 : slots[q].dg # dg
Unlisted(ns, k, slots, dg) ==
    /\ \A i \in 1 .. k : ~Speaks(ns[i], dg)
    /\ \A p \in 1 .. Len(slots) : slots[p].dg # dg
SameFirst(ns, k, slots, dg) ==
    \E i, p : /\ FirstNode(ns, k, dg, i) /\ FirstSlot(slots, dg, p)
              /\ slots[p].hash = EntryOf(ns[i]).hash
Reflects(ns, k, slots, dg) == Unlisted(ns, k, slots, dg) \/ SameFirst(ns, k, slots, dg)

\* What the slots hold after k of the nodes: entries that fit, in order; of a group
\* the hash that is listed first, unless all slots were taken before it.
Full(slots, dg) == Len(slots) = SodHashMax /\ \A p \in 1 .. Len(slots) : slots[p].dg # dg
Slotted(ns, k, slots) ==
    /\ Len(slots) <= k /\ Len(slots) <= SodHashMax
    /\ \A p \in 1 .. Len(slots) : slots[p].dg \in 1 .. 16 /\ Len(slots[p].hash) \in 1 .. HashMax
    /\ (slots = <<>>) <=> \A i \in 1 .. k : ~TakenAs(ns[i])
    /\ \A dg : Reflects(ns, k, slots, dg) \/ Full(slots, dg)
    /\ k <= SodHashMax => \A dg : Reflects(ns, k, slots, dg)

(***************************************************************************)
(* Buffers of nodes, by how long they are and how many are in them.        *)
(***************************************************************************)
\* A buffer of at most n bytes that is read as the m nodes cs.
Chain(data, n, cs, m) == Whole(data, cs) /\ Len(data) <= n /\ Len(cs) = m
Grown(ds, cs, m, x) == ds[m + 1] = x /\ \A i \in 1 .. m : ds[i] = cs[i]

(***************************************************************************)
(* What a group is listed as, and what is read of it.                      *)
(***************************************************************************)
\* What may be listed of a group, or of a number of two bytes that is none.
HashEntry(e) ==
    /\ e.dg \in Nat /\ e.dg \div 256 < 256 /\ e.content \in Byte /\ e.empty \in BOOLEAN
HashBytes(oid, e) == IF e.empty THEN <<>> ELSE HashOf(SignedLen(oid), e.content)
EntryBytes(oid, e) == DerInteger(e.dg) \o Wrap(OCTET_STRING, HashBytes(oid, e))
EntryNodes(oid, e) ==
    <<Kid(INTEGER, IntegerBytes(e.dg))>> \o <<Kid(OCTET_STRING, HashBytes(oid, e))>>

\* The entries of a list, and the nodes that are read of it.
AllEntries(entries, m) ==
    /\ Len(entries) = m /\ DOMAIN entries = 1 .. m /\ \A i \in 1 .. m : HashEntry(entries[i])
EntriesBytes(oid, entries, m) == [i \in 1 .. m |-> EntryBytes(oid, entries[i])]
ListNodes(oid, entries) == Nodes(HashList(oid, entries))

\* An entry that lists a group, and one that lists that group.
Counts(e) == e.dg \in 1 .. 16 /\ ~e.empty
CountsFor(e, dg) == Counts(e) /\ e.dg = dg

\* The set of the entries that list a group, and the first of them.
Listings(entries, m, dg) == {i \in 1 .. m : CountsFor(entries[i], dg)}

(***************************************************************************)
(* The hashes that are read lead to the verdict that is right.             *)
(***************************************************************************)
\* What ParseSod has to make of a list of entries, and the verdict that follows.
SodOf(sod, oid, entries) ==
    LET hashes == Hashes(ListNodes(oid, entries))
    IN IF hashes = <<>> THEN sod.error = "Parse"
       ELSE sod.error = "None" /\ sod.hashes = hashes /\ sod.digestLen = DigestLen(oid)

(***************************************************************************)
(* EF.SOD, from the inside out.                                            *)
(***************************************************************************)
\* What was signed: the algorithm and the list.
AlgorithmBytes(oid) == Wrap(SEQUENCE, Wrap(OID, oid))
ObjectBytes(oid, entries) ==
    DerInteger(0) \o AlgorithmBytes(oid) \o Wrap(SEQUENCE, HashList(oid, entries))

ObjectOf(oid, entries) == Wrap(SEQUENCE, ObjectBytes(oid, entries))

OctetsOf(oid, entries) == Wrap(OCTET_STRING, ObjectOf(oid, entries))
EncapBytes(oid, entries) ==
    Wrap(OID, LdsSecurityObject) \o Wrap(CONTEXT_0, OctetsOf(oid, entries))

\* What is signed, between the algorithms and the signers.
CertificateOf(form) ==
    IF form = "certified" THEN Wrap(CONTEXT_0, Wrap(SEQUENCE, <<>>)) ELSE <<>>
SignedBytes(oid, entries, form) ==
    DerInteger(3) \o Wrap(SET, AlgorithmBytes(oid))
    \o Wrap(SEQUENCE, EncapBytes(oid, entries)) \o CertificateOf(form)
    \o Wrap(SET, Wrap(SEQUENCE, AlgorithmBytes(oid)))

\* ContentInfo.
SignedOf(oid, entries, form) == Wrap(SEQUENCE, SignedBytes(oid, entries, form))
InfoBytes(oid, entries, form) ==
    Wrap(OID, SignedData) \o Wrap(CONTEXT_0, SignedOf(oid, entries, form))
InfoOf(oid, entries, form) == Wrap(SEQUENCE, InfoBytes(oid, entries, form))

(***************************************************************************)
(* The files of the run.                                                   *)
(***************************************************************************)
\* What is compared: the file is the EF.SOD of those entries.
SodOfRun(oid, entries, file) ==
    /\ oid \in Algorithms
    /\ \E m \in Nat : m <= 16 /\ AllEntries(entries, m)
    /\ \E form \in {"bare", "certified"} : file = Sod(oid, entries, form)

(***************************************************************************)
(* The frames, the buffers and the files among the inputs of the run.      *)
(***************************************************************************)
SampleInv ==
    /\ "kind" \in DOMAIN sample
    /\ sample.kind = "frame" => /\ sample.fsd \in Nat /\ sample.block \in Blocks
                                /\ sample.sw2 \in 0 .. 255
    /\ sample.kind = "bytes" => sample.data \in Seq(Byte) /\ Len(sample.data) < Huge
    /\ sample.kind = "infos" => InfosOf(sample.offers, sample.file)
    /\ sample.kind = "sod" => SodOfRun(sample.algorithm, sample.entries, sample.file)

(***************************************************************************)
(* The machine readable zone: check digits, and what is left of a field    *)
(* without its filler.                                                     *)
(***************************************************************************)
\* What the first i characters weigh, f being what fewer weigh, and what is left of
\* them without the filler.
WeighedUpTo(chars, f, i) ==
    IF i = 0 THEN 0 ELSE f[i - 1] + Value(chars[i]) * Weight(i)
FoldTotal(f, chars, m) == f = [i \in 0 .. m |-> WeighedUpTo(chars, f, i)]
KeptUpTo(chars, f, i) ==
    IF i = 0 THEN <<>>
    ELSE IF chars[i] # Filler THEN Append(f[i - 1], chars[i]) ELSE f[i - 1]
FoldCompact(f, chars, m) == f = [i \in 0 .. m |-> KeptUpTo(chars, f, i)]

(***************************************************************************)
(* One character taken for another of another weight shows in the digit of *)
(* the stretch it is in.                                                   *)
(***************************************************************************)
\* b is a with one character taken for another of another weight; and b is a, but
\* for that if the field is among those.
Off(a, b) == \E k \in 1 .. Len(a) : \E d \in Char : Differ(a[k], d) /\ b = [a EXCEPT ![k] = d]
Drift(a, b, field, among) ==
    /\ a \in Seq(Char)
    /\ IF field \in among THEN Off(a, b) ELSE b = a

\* A zone w that is z with one character of a field taken for another.
Formats == {"TD1", "TD2", "TD3"}
WeighedFields(format) ==
    {"number", "numberDigit", "birth", "birthDigit", "expiry", "expiryDigit", "optional"}
    \cup (IF format = "TD3" THEN {"optionalDigit"} ELSE {})
    \cup (IF format = "TD1" THEN {"optional2"} ELSE {})
MisreadAs(z, w, field) ==
    /\ w.format = z.format
    /\ Drift(z.number, w.number, field, {"number"})
    /\ Drift(<<z.numberDigit>>, <<w.numberDigit>>, field, {"numberDigit"})
    /\ Drift(z.birth, w.birth, field, {"birth"})
    /\ Drift(<<z.birthDigit>>, <<w.birthDigit>>, field, {"birthDigit"})
    /\ Drift(z.expiry, w.expiry, field, {"expiry"})
    /\ Drift(<<z.expiryDigit>>, <<w.expiryDigit>>, field, {"expiryDigit"})
    /\ Drift(z.optional, w.optional, field, {"optional"})
    /\ Drift(<<z.optionalDigit>>, <<w.optionalDigit>>, field, {"optionalDigit"})
    /\ Drift(z.optional2, w.optional2, field, {"optional2"})
    /\ IF field = "composite" THEN Differ(z.composite, w.composite)
       ELSE field \in WeighedFields(z.format) /\ w.composite = z.composite

(***************************************************************************)
(* Stretches of characters put together, and cut out again.                *)
(***************************************************************************)
\* x is two stretches of characters put together.
Glued(x, a, b) == a \in Seq(Char) /\ b \in Seq(Char) /\ x = a \o b

\* A part begins where one ends, ends where one ends, is not empty, and is there.
Behind(i, a) == \E n \in Nat : n = Len(a) /\ i = n + 1
UpTo(j, a) == \E n \in Nat : n = Len(a) /\ j = n
Some(a) == Len(a) # 0
Part(x, i, j, a) == SubSeq(x, i, j) = a

(***************************************************************************)
(* The positions a composite digit covers are the fields it weighs.        *)
(***************************************************************************)
\* A stretch of n characters.
Sized(a, n) == a \in Seq(Char) /\ n \in Nat /\ Len(a) = n

\* The filler between the fields.
Gap(n) == [i \in 1 .. n |-> Filler]

\* A zone whose fields have the characters and the widths of its format.
Fields(z) ==
    /\ z.format \in Formats
    /\ Sized(z.number, 9) /\ Sized(<<z.numberDigit>>, 1)
    /\ Sized(z.birth, 6) /\ Sized(<<z.birthDigit>>, 1)
    /\ Sized(z.expiry, 6) /\ Sized(<<z.expiryDigit>>, 1)
    /\ z.format = "TD1" => Sized(z.optional, 15)
    /\ z.format = "TD2" => Sized(z.optional, 7)
    /\ z.format = "TD3" => Sized(z.optional, 14)
    /\ Sized(<<z.optionalDigit>>, 1) /\ Sized(z.optional2, 11)

\* The number, the date of birth and the date of expiry, each with its digit.
Groups(z, p, q, e) ==
    /\ Glued(p, z.number, <<z.numberDigit>>) /\ Sized(p, 10)
    /\ Glued(q, z.birth, <<z.birthDigit>>) /\ Sized(q, 7)
    /\ Glued(e, z.expiry, <<z.expiryDigit>>) /\ Sized(e, 7)

LowerIs(y, z) ==
    y = z.number \o <<z.numberDigit>> \o Gap(3) \o z.birth \o <<z.birthDigit>> \o Gap(1)
            \o z.expiry \o <<z.expiryDigit>> \o z.optional
WeighedIs(y, z) ==
    y = z.number \o <<z.numberDigit>> \o z.birth \o <<z.birthDigit>>
            \o z.expiry \o <<z.expiryDigit>> \o z.optional

(***************************************************************************)
(* What is printed for a document.                                         *)
(***************************************************************************)
\* A stretch and filler behind it.
Widened(w, a, k, n) ==
    /\ Sized(w, n) /\ k <= n
    /\ \A i \in 1 .. n : w[i] = IF i <= k THEN a[i] ELSE Filler

\* What there is room for: a number that goes on, with its digit and in TD2 up to the
\* end, in the optional data, and in TD1 in the input of the key derivation, and what
\* the issuer puts in the optional data.
LongestNumber(format) == CASE format = "TD3" -> 9 [] format = "TD2" -> 15 [] format = "TD1" -> 16
OptionalWidth(format) == CASE format = "TD3" -> 14 [] format = "TD2" -> 7 [] format = "TD1" -> 15
PersonalRoom(format) == IF format = "TD1" THEN 11 ELSE OptionalWidth(format)

Date(d) == Sized(d, 6) /\ AllDigits(d)

\* A document number of n characters, none of them filler.
Numbered(number, n, format) ==
    /\ Sized(number, n) /\ n # 0 /\ n <= LongestNumber(format)
    /\ \A i \in 1 .. n : number[i] # Filler

Personalised(personal, format) == \E m : Sized(personal, m) /\ m <= PersonalRoom(format)

Document(format, number, birth, expiry, personal) ==
    /\ format \in Formats
    /\ \E n : Numbered(number, n, format)
    /\ Date(birth) /\ Date(expiry)
    /\ Personalised(personal, format)

\* A number of nine characters or fewer in the zone of a document.
ShortIn(z, number, n) ==
    /\ Widened(z.number, number, n, 9)
    /\ z.numberDigit = CheckDigit(z.number)

\* A longer one: it goes on, with its digit, in the optional data.
LongIn(z, number, n, w) ==
    /\ Sized(z.number, 9) /\ \A i \in 1 .. 9 : z.number[i] = number[i]
    /\ z.numberDigit = Filler
    /\ \A i \in 1 .. w : z.optional[i] = IF i <= n - 9 THEN number[9 + i]
                                         ELSE IF i = n - 8 THEN CheckDigit(number) ELSE Filler

\* The zone of a document.
ZoneOf(z, format, number, n, birth, expiry) ==
    /\ z.format = format /\ Fields(z)
    /\ IF n > 9 THEN LongIn(z, number, n, OptionalWidth(format)) ELSE ShortIn(z, number, n)
    /\ z.birth = birth /\ z.birthDigit = CheckDigit(birth)
    /\ z.expiry = expiry /\ z.expiryDigit = CheckDigit(expiry)
    /\ z.optionalDigit = CheckDigit(z.optional)
    /\ z.composite = CheckDigit(Weighed(z))

\* What Printed puts in the optional data of a long number: it goes on behind the ninth
\* character, its digit follows and a filler, as far as there is room.
RestOf(number, n) == SubSeq(number, 10, n) \o <<CheckDigit(number), Filler>>
GoesOn(number, n, w) == Padded(SubSeq(RestOf(number, n), 1, Min({n - 7, w})), w)

\* A zone of given fields, with its composite digit, and the fields that are printed.
ZoneWith(format, field, digit, birth, expiry, optional, optional2) ==
    LET zone == [format |-> format, number |-> field, numberDigit |-> digit,
                 birth |-> birth, birthDigit |-> CheckDigit(birth),
                 expiry |-> expiry, expiryDigit |-> CheckDigit(expiry),
                 optional |-> optional, optionalDigit |-> CheckDigit(optional),
                 optional2 |-> optional2, composite |-> 0]
    IN [zone EXCEPT !.composite = CheckDigit(Covered(zone))]
PrintedNumber(number) == Padded(SubSeq(number, 1, Min({9, Len(number)})), 9)
PrintedDigit(number) == IF Len(number) > 9 THEN Filler ELSE CheckDigit(Padded(number, 9))
PrintedOptional(format, number, personal) ==
    LET long == Len(number) > 9
        width == CASE format = "TD3" -> 14 [] format = "TD2" -> 7 [] format = "TD1" -> 15
        rest == SubSeq(number, 10, Len(number)) \o <<CheckDigit(number), Filler>>
    IN Padded(IF long THEN SubSeq(rest, 1, Min({Len(rest), width}))
              ELSE IF format = "TD1" THEN <<>> ELSE personal, width)
PrintedOptional2(format, personal) == Padded(IF format = "TD1" THEN personal ELSE <<>>, 11)

HasFields(z, format, field, digit, birth, expiry, optional, optional2) ==
    /\ z.format = format /\ z.number = field /\ z.numberDigit = digit
    /\ z.birth = birth /\ z.birthDigit = CheckDigit(birth)
    /\ z.expiry = expiry /\ z.expiryDigit = CheckDigit(expiry)
    /\ z.optional = optional /\ z.optionalDigit = CheckDigit(optional)
    /\ z.optional2 = optional2 /\ z.composite = CheckDigit(Covered(z))

(***************************************************************************)
(* What is read of it, and typed to open it.                               *)
(***************************************************************************)
\* And of a long one: what stands before the first filler of the optional data is behind the
\* nine characters, and the last of it is the digit.
Continues(o, number, n, w) ==
    \A i \in 1 .. w : o[i] = IF i <= n - 9 THEN number[9 + i]
                             ELSE IF i = n - 8 THEN CheckDigit(number) ELSE Filler

RunOf(o) ==
    LET fillers == {i \in DOMAIN o : o[i] = Filler}
    IN IF fillers = {} THEN Len(o) ELSE Min(fillers) - 1
Solid(number, n) == \A i \in 1 .. n : number[i] # Filler

Capitals(typed) == [i \in DOMAIN typed |-> Upper(typed[i])]

KeyedBy(info, field, birth, expiry) ==
    info = field \o <<CheckDigit(field)>> \o birth \o <<CheckDigit(birth)>>
           \o expiry \o <<CheckDigit(expiry)>>

\* What mrz_parse_td1, _td2 and _td3 cut the number out of.
NumberRead(z) == DocumentNumber(z.number, z.numberDigit, IF z.format = "TD3" THEN <<>> ELSE z.optional)

(***************************************************************************)
(* The zones of the run.                                                   *)
(***************************************************************************)
\* A zone of a document, as the run picks it.
ZoneNames == {"format", "number", "numberDigit", "birth", "birthDigit", "expiry", "expiryDigit",
              "optional", "optionalDigit", "optional2", "composite"}
RightZone(number, z) ==
    \E format, birth, expiry, personal :
        /\ Document(format, number, birth, expiry, personal)
        /\ z = Printed(format, number, birth, expiry, personal)

\* What of a zone is weighed, the format aside.
Stretches == {"number", "birth", "expiry", "optional", "optional2"}
Digits == {"numberDigit", "birthDigit", "expiryDigit", "optionalDigit"}

\* The zones among the inputs of the run.
ZoneSample(number, read, z) == [kind |-> "zone", number |-> number, read |-> read, zone |-> z]
ZoneInv ==
    sample.kind = "zone" =>
        \E number, read, z :
            /\ sample = ZoneSample(number, read, z)
            /\ IF read = "misread" THEN ~Parse(z).valid
               ELSE read = "right" /\ RightZone(number, z)
=============================================================================
