-------------------------- MODULE StreamFileProofs --------------------------
(***************************************************************************)
(* Proofs about the bytes of the files, for files and answers of every     *)
(* length, every look-ahead and parse buffer, every plan, and a card that  *)
(* fails at any write.                                                     *)
(*                                                                         *)
(* What the sinks hold is said by offsets into the chip's file: a Slice.   *)
(* Standing says of an export that has not failed which bytes of the open  *)
(* file, and of the image, are on the card; Kept what is left of it when   *)
(* it fails; the lemmas about Write and ArmImage carry both from one       *)
(* offset to the next.  SinkInv relates the look-ahead, the hash and the   *)
(* parse buffer to the offset, DoneInv the files that are done to their    *)
(* entries.                                                                *)
(***************************************************************************)
EXTENDS StreamFile, SequenceTheorems, FiniteSetTheorems, TLAPS

Byte == (Names \cup {"line"}) \X Nat
Content(c, f) == [i \in 1 .. c[f].length |-> <<f, i>>]
\* SubSeq and \o by other names, so that the provers meet them unexpanded.
Part(s, m, n) == SubSeq(s, m, n)
Join(s, t) == s \o t
\* The bytes a + 1 .. b of a file.
Slice(c, f, a, b) == SubSeq(Content(c, f), a + 1, b)

MadeIn(x, n) == x.by # 0 /\ x.disk[x.dir][n].by = x.by
SavedIn(x, n) == IF MadeIn(x, n) THEN x.disk[x.dir][n].bytes ELSE <<>>

\* An export that has written the first a bytes of f.
Standing(x, c, f, a, fc) ==
    /\ x.file = f /\ MadeIn(x, f) /\ x.offset = a /\ SavedIn(x, f) = Slice(c, f, 0, a)
    /\ x.image = Face => f = Image /\ MadeIn(x, Face) /\ x.imageOffset = fc.offset
    /\ f = Image /\ x.image # Face => ~MadeIn(x, Face)

\* The image's file is the tail of what is on the card of DG2.
TailOfImage(x, c, fc) ==
    MadeIn(x, Face) =>
        /\ fc.has
        /\ SavedIn(x, Face) = Slice(c, Image, fc.offset, Len(SavedIn(x, Image)))

\* Nothing but beginnings.
Kept(x, c, fc) ==
    /\ \A f \in Names : \E k \in 0 .. c[f].length : SavedIn(x, f) = Slice(c, f, 0, k)
    /\ \E k \in 0 .. c[Image].length : SavedIn(x, Face) = Slice(c, Image, fc.offset, k)

Same(x, y, n) ==
    /\ MadeIn(x, n) => MadeIn(y, n)
    /\ MadeIn(y, n) => MadeIn(x, n)
    /\ SavedIn(y, n) = SavedIn(x, n)

\* y is x but for what is in the files of N, and for what is open.
Frame(x, y, N) ==
    /\ y \in ExportType /\ y.open = x.open /\ y.by = x.by /\ y.dir = x.dir
    /\ \A m \in Minutes, n \in AllNames : y.disk[m][n].by \in {x.disk[m][n].by, x.by}
    /\ \A n \in AllNames \ N : Same(x, y, n)

\* What is open is the same, and as far.
SameOpen(x, y) ==
    /\ y.file = x.file /\ y.image = x.image /\ y.armed = x.armed
    /\ y.imageOffset = x.imageOffset /\ y.offset = x.offset

InPlan == pc = "select" \/ Streaming

CardInv ==
    /\ ex.by \in {0, reads}
    /\ \A m \in Minutes, n \in AllNames : ex.disk[m][n].by <= reads
    /\ ex.open <=> ex.by # 0 /\ pc # "idle"

SinkInv ==
    /\ Streaming =>
        /\ offset <= doc.chip[File].length
        /\ ~sized => offset = 0
        /\ Waiting => offset <= LongMax /\ (sized => offset < total)
        /\ looking => File = Image /\ head = Slice(doc.chip, File, 0, offset)
        /\ ~looking => head = <<>>
        /\ digest.active => digest.bytes = Slice(doc.chip, File, 0, offset)
        /\ parse.on /\ ~parse.overflowed => parse.bytes = Slice(doc.chip, File, 0, offset)
    /\ ~Streaming => parse = NoParse

FileInv ==
    /\ Streaming /\ Exporting =>
          Standing(ex, doc.chip, File, IF looking THEN 0 ELSE offset, face)
    /\ Streaming /\ looking => ~MadeIn(ex, Face)
    /\ InPlan => \A i \in at .. Len(Plan) :
          /\ entries[Plan[i]].size = 0 /\ entries[Plan[i]].hash = "Unknown"
          /\ entries[Plan[i]].state # "Read"
          /\ Plan[i] = Image /\ (pc = "select" \/ i # at) => ~MadeIn(ex, Face)

DoneInv ==
    /\ \A f \in Names : /\ entries[f].size <= doc.chip[f].length
                        /\ entries[f].hash = "Match" => entries[f].size = doc.chip[f].length
    /\ Exporting => \A f \in Names : ~Streaming \/ f # File =>
          /\ SavedIn(ex, f) = Slice(doc.chip, f, 0, entries[f].size)
          /\ entries[f].state = "Read" => MadeIn(ex, f)
    /\ Exporting => TailOfImage(ex, doc.chip, face)
    /\ Kept(ex, doc.chip, face)

Marked(H) == {f \in Names : entries[f].hash \in H}

ResultInv ==
    /\ matched = Cardinality(Marked({"Match"}))
    /\ checked = Cardinality(Marked({"Match", "Mismatch"}))
    /\ exported =>
          /\ pc = "idle" /\ Exporting /\ SavedIn(ex, "report.txt") = Text
          /\ hasMrz => SavedIn(ex, "mrz.txt") = Text

IInv == TypeOK /\ CardInv /\ SinkInv /\ FileInv /\ DoneInv /\ ResultInv

-----------------------------------------------------------------------------
(***************************************************************************)
(* Bytes by their offsets.                                                 *)
(***************************************************************************)

LEMMA ContentType ==
    ASSUME NEW c \in [Names -> ChipFiles], NEW f \in Names
    PROVE  /\ c[f].length \in Nat
           /\ Content(c, f) \in Seq(Names \X Nat) /\ Content(c, f) \in Seq(Byte)
           /\ Len(Content(c, f)) = c[f].length
<1>1. c[f].length \in Nat
  BY DEF ChipFiles
<1>2. \A i \in 1 .. c[f].length : <<f, i>> \in Names \X Nat
  BY <1>1
<1>3. Content(c, f) \in [1 .. c[f].length -> Names \X Nat]
  BY <1>2 DEF Content
<1>4. Content(c, f) \in Seq(Names \X Nat) /\ Len(Content(c, f)) = c[f].length
  BY <1>1, <1>3, SeqDef
<1>5. Names \X Nat \subseteq Byte
  BY DEF Byte
<1> QED
  BY <1>1, <1>4, <1>5, SeqMonotonic

LEMMA SliceType ==
    ASSUME NEW c \in [Names -> ChipFiles], NEW f \in Names,
           NEW a \in Nat, NEW b \in Nat, b <= c[f].length
    PROVE  /\ Slice(c, f, a, b) \in Seq(Names \X Nat) /\ Slice(c, f, a, b) \in Seq(Byte)
           /\ Len(Slice(c, f, a, b)) = IF a <= b THEN b - a ELSE 0
           /\ b <= a => Slice(c, f, a, b) = <<>>
<1> DEFINE C == Content(c, f)
<1>1. C \in Seq(Names \X Nat) /\ C \in Seq(Byte) /\ Len(C) = c[f].length
  BY ContentType
<1>2. a + 1 \in Int /\ b \in Int
  OBVIOUS
<1>3. /\ \A i \in a + 1 .. b : C[i] \in Names \X Nat
      /\ \A i \in a + 1 .. b : C[i] \in Byte
  <2>1. \A i \in a + 1 .. b : i \in 1 .. Len(C)
    BY <1>1
  <2> HIDE DEF C
  <2> QED
    BY <1>1, <2>1, ElementOfSeq
<1> HIDE DEF C
<1>4. /\ SubSeq(C, a + 1, b) \in Seq(Names \X Nat)
      /\ Len(SubSeq(C, a + 1, b)) = IF a + 1 <= b THEN b - (a + 1) + 1 ELSE 0
  BY <1>2, <1>3, SubSeqProperties
<1>5. SubSeq(C, a + 1, b) \in Seq(Byte)
  BY <1>2, <1>3, SubSeqProperties
<1>6. b <= a => SubSeq(C, a + 1, b) = <<>>
  BY <1>2, SubSeqEmpty
<1> QED
  BY <1>4, <1>5, <1>6 DEF Slice, C

LEMMA SliceLength ==
    ASSUME NEW c \in [Names -> ChipFiles], NEW f \in Names,
           NEW a \in Nat, NEW b \in Nat, a <= b, b <= c[f].length, NEW s, s = Slice(c, f, a, b)
    PROVE  s \in Seq(Byte) /\ Len(s) = b - a
<1>1. /\ Slice(c, f, a, b) \in Seq(Byte)
      /\ Len(Slice(c, f, a, b)) = IF a <= b THEN b - a ELSE 0
  BY SliceType
<1> QED
  BY <1>1

LEMMA HeadLength ==
    ASSUME NEW c \in [Names -> ChipFiles], NEW f \in Names,
           NEW m \in Nat, m <= c[f].length, NEW s, s = Slice(c, f, 0, m)
    PROVE  Len(s) = m
<1>1. PICK z \in Nat : z = 0
  OBVIOUS
<1>2. s = Slice(c, f, z, m) /\ z <= m
  BY <1>1
<1>3. Len(s) = m - z
  BY SMTT(30), <1>2, SliceLength
<1> QED
  BY <1>1, <1>3

LEMMA SliceConcat ==
    ASSUME NEW c \in [Names -> ChipFiles], NEW f \in Names,
           NEW a \in Nat, NEW b \in Nat, NEW d \in Nat,
           a <= b, b <= d, d <= c[f].length
    PROVE  Join(Slice(c, f, a, b), Slice(c, f, b, d)) = Slice(c, f, a, d)
<1>1. Content(c, f) \in Seq(Byte) /\ Len(Content(c, f)) = c[f].length /\ c[f].length \in Nat
  BY ContentType
<1>2. /\ a + 1 \in 1 .. Len(Content(c, f)) + 1
      /\ b \in (a + 1) - 1 .. Len(Content(c, f)) /\ d \in b .. Len(Content(c, f))
  BY <1>1
<1> QED
  BY <1>1, <1>2, ConcatAdjacentSubSeq DEF Slice, Join

LEMMA SliceOfSlice ==
    ASSUME NEW c \in [Names -> ChipFiles], NEW f \in Names,
           NEW a \in Nat, NEW b \in Nat, NEW m \in Nat \ {0}, NEW n \in Nat,
           b <= c[f].length, a <= b, n <= b - a
    PROVE  Part(Slice(c, f, a, b), m, n) = Slice(c, f, a + m - 1, a + n)
<1>1. /\ Content(c, f) \in Seq(Byte) /\ Len(Content(c, f)) = c[f].length
      /\ c[f].length \in Nat
  BY ContentType
<1>2. CASE n < m
  <2>1. Part(Slice(c, f, a, b), m, n) = <<>>
    BY <1>2, SubSeqEmpty DEF Part
  <2>2. a + m - 1 \in Nat /\ a + n \in Nat /\ a + n <= a + m - 1 /\ a + n <= c[f].length
    BY <1>1, <1>2
  <2>3. Slice(c, f, a + m - 1, a + n) = <<>>
    BY <2>2, SliceType
  <2> QED
    BY <2>1, <2>3
<1>3. CASE m <= n
  <2> DEFINE C == Content(c, f)
  <2>1. /\ a + 1 \in 1 .. Len(C) /\ b \in 1 .. Len(C)
        /\ m \in 1 .. b - (a + 1) + 1 /\ n \in 1 .. b - (a + 1) + 1
    BY <1>1, <1>3
  <2>2. /\ (a + 1) + m - 1 = (a + m - 1) + 1
        /\ (a + 1) + n - 1 = a + n
    OBVIOUS
  <2>3. SubSeq(SubSeq(C, a + 1, b), m, n) = SubSeq(C, (a + 1) + m - 1, (a + 1) + n - 1)
    <3> HIDE DEF C
    <3> QED
      BY <1>1, <2>1, SubSeqOfSubSeq DEF C
  <2> QED
    BY <2>2, <2>3 DEF Slice, Part
<1> QED
  BY <1>2, <1>3

LEMMA SliceHead ==
    ASSUME NEW c \in [Names -> ChipFiles], NEW f \in Names,
           NEW a \in Nat, NEW b \in Nat, NEW n \in Nat,
           b <= c[f].length, a <= b, n <= b - a
    PROVE  Part(Slice(c, f, a, b), 1, n) = Slice(c, f, a, a + n)
<1>1. PICK m \in Nat \ {0} : m = 1
  OBVIOUS
<1>2. Part(Slice(c, f, a, b), m, n) = Slice(c, f, a + m - 1, a + n)
  BY SliceOfSlice
<1>3. a + m - 1 = a
  BY <1>1
<1> QED
  BY <1>1, <1>2, <1>3

LEMMA SlicePrefix ==
    ASSUME NEW c \in [Names -> ChipFiles], NEW f \in Names,
           NEW a \in Nat, NEW b \in Nat, b <= c[f].length
    PROVE  IsPrefix(Slice(c, f, a, b), Slice(c, f, a, c[f].length))
<1> DEFINE s == Slice(c, f, a, b)
           t == Slice(c, f, a, c[f].length)
<1>1. c[f].length \in Nat
  BY ContentType
<1>2. /\ s \in Seq(Byte) /\ t \in Seq(Byte)
      /\ Len(s) = IF a <= b THEN b - a ELSE 0
      /\ Len(t) = IF a <= c[f].length THEN c[f].length - a ELSE 0
  <2>1. s \in Seq(Byte) /\ Len(s) = IF a <= b THEN b - a ELSE 0
    BY SliceType
  <2>2. c[f].length <= c[f].length
    BY <1>1
  <2>3. t \in Seq(Byte) /\ Len(t) = IF a <= c[f].length THEN c[f].length - a ELSE 0
    BY <1>1, <2>2, SliceType, Zenon
  <2> QED
    BY <2>1, <2>3
<1>3. CASE b <= a
  <2>1. Len(s) = 0 /\ Len(t) \in Nat
    BY <1>1, <1>2, <1>3
  <2> HIDE DEF s, t
  <2>2. SubSeq(s, 1, 0) = <<>> /\ SubSeq(t, 1, 0) = <<>>
    BY SubSeqEmpty
  <2>3. IsPrefix(s, t)
    BY <2>1, <2>2 DEF IsPrefix
  <2> QED
    BY <2>3 DEF s, t
<1>4. CASE a < b
  <2>1. Len(s) = b - a /\ Len(s) <= Len(t) /\ b - a \in Nat
    BY <1>1, <1>2, <1>4
  <2>2. b - a \in Nat /\ a <= b /\ b - a <= c[f].length - a
    BY <1>1, <1>4
  <2>3. Part(s, 1, b - a) = Slice(c, f, a, a + (b - a))
    BY <1>1, <2>2, SliceHead
  <2>4. Part(t, 1, b - a) = Slice(c, f, a, a + (b - a))
    BY <1>1, <2>2, SliceHead
  <2> QED
    BY <2>1, <2>3, <2>4 DEF IsPrefix, Part
<1> QED
  BY <1>3, <1>4

\* The first signature found is at an offset.
LEMMA MinIsThere ==
    ASSUME NEW S, S \subseteq Nat, S # {}
    PROVE  Min(S) \in S
<1> DEFINE T == {0 .. n : n \in S}
<1>1. \A n \in Nat : IsFiniteSet(0 .. n) /\ 0 .. n \in SUBSET Nat
  BY FS_Interval
<1>2. T \subseteq FiniteSubsetsOf(Nat)
  <2>1. \A t \in T : t \in SUBSET Nat /\ IsFiniteSet(t)
    BY <1>1
  <2> HIDE DEF T
  <2> QED
    BY <2>1 DEF FiniteSubsetsOf
<1>3. T # {}
  OBVIOUS
<1>4. PICK t \in T : \A u \in T : <<u, t>> \notin StrictSubsetOrdering(Nat)
  <2> HIDE DEF T
  <2> QED
    BY <1>2, <1>3, FS_StrictSubsetOrderingWellFounded, WFMin
<1>5. PICK n \in S : t = 0 .. n
  OBVIOUS
<1>6. ASSUME NEW m \in S, m < n PROVE FALSE
  <2>1. 0 .. m \in T /\ 0 .. m \subseteq Nat /\ 0 .. n \subseteq Nat
    BY <1>6
  <2>2. n \in 0 .. n /\ n \notin 0 .. m
    BY <1>6
  <2>3. 0 .. m \subseteq 0 .. n /\ 0 .. m # 0 .. n
    BY <1>6, <2>2
  <2>4. <<0 .. m, 0 .. n>> \in StrictSubsetOrdering(Nat)
    BY <2>1, <2>3 DEF StrictSubsetOrdering
  <2> QED
    BY <1>4, <1>5, <2>1, <2>4
<1>7. \A m \in S : n <= m
  BY <1>6
<1> QED
  BY <1>7 DEF Min

-----------------------------------------------------------------------------
(***************************************************************************)
(* The export, operation by operation.                                     *)
(***************************************************************************)

OnCard == [by: Nat, bytes: Seq(Byte)]

LEMMA ExportFields ==
    ASSUME NEW x \in ExportType
    PROVE  /\ x = [open |-> x.open, failed |-> x.failed, by |-> x.by, dir |-> x.dir,
                   file |-> x.file, image |-> x.image, armed |-> x.armed,
                   imageOffset |-> x.imageOffset, offset |-> x.offset, disk |-> x.disk]
           /\ x.open \in BOOLEAN /\ x.failed \in BOOLEAN /\ x.by \in Nat /\ x.dir \in Minutes
           /\ x.file \in Names \cup {NoName} /\ x.image \in {NoName, Face}
           /\ x.armed \in BOOLEAN /\ x.imageOffset \in Nat /\ x.offset \in Nat
           /\ x.disk \in [Minutes -> [AllNames -> OnCard]]
<1> QED
  BY DEF ExportType, OnCard, Byte

LEMMA SavedType ==
    ASSUME NEW x \in ExportType, NEW n \in AllNames
    PROVE  SavedIn(x, n) \in Seq(Byte) /\ MadeIn(x, n) \in BOOLEAN
<1>1. x.dir \in Minutes /\ x.disk \in [Minutes -> [AllNames -> OnCard]]
  BY ExportFields
<1>2. x.disk[x.dir][n] \in OnCard
  BY <1>1
<1>3. x.disk[x.dir][n].bytes \in Seq(Byte) /\ <<>> \in Seq(Byte)
  BY <1>2, EmptySeq DEF OnCard
<1> QED
  BY <1>3 DEF SavedIn, MadeIn

\* A file in an export's directory is another now.
Replaced(x, n, v) == [x EXCEPT !.disk[x.dir][n] = v]

LEMMA DiskReplaced ==
    ASSUME NEW x \in ExportType, NEW n \in AllNames, NEW v \in OnCard,
           NEW y, y = Replaced(x, n, v)
    PROVE  /\ y \in ExportType /\ SameOpen(x, y) /\ y.failed = x.failed
           /\ y.open = x.open /\ y.by = x.by /\ y.dir = x.dir
           /\ y.disk[x.dir][n] = v
           /\ \A m \in Minutes, k \in AllNames :
                 m # x.dir \/ k # n => y.disk[m][k] = x.disk[m][k]
<1>1. x.dir \in Minutes /\ x.disk \in [Minutes -> [AllNames -> OnCard]]
  BY ExportFields
<1> DEFINE d == [x.disk EXCEPT ![x.dir][n] = v]
<1>2. d \in [Minutes -> [AllNames -> OnCard]]
  BY <1>1
<1>3. d[x.dir][n] = v /\ \A m \in Minutes, k \in AllNames :
         m # x.dir \/ k # n => d[m][k] = x.disk[m][k]
  BY <1>1
<1>4. y = [x EXCEPT !.disk = d]
  BY DEF Replaced
<1> HIDE DEF d
<1>5. y \in ExportType
  BY <1>2, <1>4 DEF ExportType, OnCard, Byte
<1>6. /\ y.disk = d /\ y.failed = x.failed /\ y.open = x.open /\ y.by = x.by
      /\ y.dir = x.dir /\ SameOpen(x, y)
  BY <1>4, ExportFields DEF SameOpen
<1> QED
  BY <1>3, <1>5, <1>6

LEMMA AppendedEffect ==
    ASSUME NEW x \in ExportType, NEW n \in AllNames, NEW data \in Seq(Byte),
           NEW y, y = Appended(x, n, data)
    PROVE  /\ Frame(x, y, {n}) /\ SameOpen(x, y) /\ y.failed = x.failed
           /\ MadeIn(x, n) => MadeIn(y, n) /\ SavedIn(y, n) = SavedIn(x, n) \o data
<1> DEFINE o == x.disk[x.dir][n]
           v == [by |-> o.by, bytes |-> o.bytes \o data]
<1>1. x.dir \in Minutes /\ x.disk \in [Minutes -> [AllNames -> OnCard]] /\ x.by \in Nat
  BY ExportFields
<1>2. o \in OnCard
  BY <1>1
<1>3. v \in OnCard
  BY <1>2, ConcatProperties DEF OnCard
<1>4. [o EXCEPT !.bytes = @ \o data] = v
  <2>1. ASSUME NEW r \in OnCard, NEW t
        PROVE  [r EXCEPT !.bytes = t] = [by |-> r.by, bytes |-> t]
    BY DEF OnCard
  <2> HIDE DEF o
  <2> QED
    BY <1>2, <2>1
<1>5. y = Replaced(x, n, v)
  <2>1. y = [x EXCEPT !.disk[x.dir][n] = [o EXCEPT !.bytes = @ \o data]]
    BY DEF Appended
  <2> QED
    BY <1>4, <2>1, Zenon DEF Replaced
<1>6. v.by = o.by /\ v.bytes = o.bytes \o data
  OBVIOUS
<1> HIDE DEF v
<1>7. /\ y \in ExportType /\ SameOpen(x, y) /\ y.failed = x.failed
      /\ y.open = x.open /\ y.by = x.by /\ y.dir = x.dir /\ y.disk[x.dir][n] = v
      /\ \A m \in Minutes, k \in AllNames :
            m # x.dir \/ k # n => y.disk[m][k] = x.disk[m][k]
  BY <1>3, <1>5, DiskReplaced
<1>8. \A m \in Minutes, k \in AllNames : y.disk[m][k].by = x.disk[m][k].by
  BY <1>6, <1>7
<1>9. Frame(x, y, {n})
  BY <1>1, <1>7, <1>8 DEF Frame, Same, MadeIn, SavedIn
<1>10. MadeIn(x, n) => MadeIn(y, n)
  BY <1>6, <1>7 DEF MadeIn
<1>11. MadeIn(x, n) => SavedIn(y, n) = SavedIn(x, n) \o data
  BY <1>6, <1>7, <1>10 DEF SavedIn
<1> QED
  BY <1>7, <1>9, <1>10, <1>11

LEMMA CreatedEffect ==
    ASSUME NEW x \in ExportType, NEW n \in AllNames, x.by # 0,
           NEW y, y = Created(x, n)
    PROVE  /\ Frame(x, y, {n}) /\ SameOpen(x, y) /\ y.failed = x.failed
           /\ MadeIn(y, n) /\ SavedIn(y, n) = <<>>
<1> DEFINE v == [by |-> x.by, bytes |-> <<>>]
<1>1. x.dir \in Minutes /\ x.disk \in [Minutes -> [AllNames -> OnCard]] /\ x.by \in Nat
  BY ExportFields
<1>2. v \in OnCard
  BY <1>1, EmptySeq DEF OnCard
<1>3. y = Replaced(x, n, v) /\ v.by = x.by /\ v.bytes = <<>>
  BY DEF Created, Replaced
<1> HIDE DEF v
<1>4. /\ y \in ExportType /\ SameOpen(x, y) /\ y.failed = x.failed
      /\ y.open = x.open /\ y.by = x.by /\ y.dir = x.dir /\ y.disk[x.dir][n] = v
      /\ \A m \in Minutes, k \in AllNames :
            m # x.dir \/ k # n => y.disk[m][k] = x.disk[m][k]
  BY <1>2, <1>3, DiskReplaced
<1>5. Frame(x, y, {n})
  BY <1>1, <1>3, <1>4 DEF Frame, Same, MadeIn, SavedIn
<1>6. MadeIn(y, n) /\ SavedIn(y, n) = <<>>
  BY <1>3, <1>4 DEF MadeIn, SavedIn
<1> QED
  BY <1>4, <1>5, <1>6

\* What changes no file.
LEMMA SameDisk ==
    ASSUME NEW x \in ExportType, NEW y \in ExportType,
           y.open = x.open, y.by = x.by, y.dir = x.dir, y.disk = x.disk
    PROVE  Frame(x, y, {}) /\ \A n : Same(x, y, n)
<1>1. \A n : Same(x, y, n)
  BY DEF Same, MadeIn, SavedIn
<1> QED
  BY <1>1 DEF Frame

LEMMA FailedEffect ==
    ASSUME NEW x \in ExportType,
           NEW y, y = Failed(x)
    PROVE  /\ Frame(x, y, {}) /\ SameOpen(x, y) /\ y.failed
           /\ \A n : Same(x, y, n)
<1>1. /\ y \in ExportType /\ y.open = x.open /\ y.by = x.by /\ y.dir = x.dir /\ y.disk = x.disk
      /\ y.failed /\ SameOpen(x, y)
  BY DEF Failed, ExportType, SameOpen
<1> QED
  BY <1>1, SameDisk

LEMMA FrameTransitive ==
    ASSUME NEW x, NEW y, NEW z, NEW M, NEW N, NEW P,
           Frame(x, y, M), Frame(y, z, N), M \subseteq P, N \subseteq P
    PROVE  Frame(x, z, P)
<1>1. /\ z \in ExportType /\ z.open = x.open /\ z.by = x.by /\ z.dir = x.dir
  BY DEF Frame
<1>2. \A m \in Minutes, n \in AllNames : z.disk[m][n].by \in {x.disk[m][n].by, x.by}
  BY DEF Frame
<1>3. ASSUME NEW n \in AllNames \ P
      PROVE  Same(x, z, n)
  <2>1. n \in AllNames \ M /\ n \in AllNames \ N
    OBVIOUS
  <2>2. Same(x, y, n)
    BY <2>1 DEF Frame
  <2>3. Same(y, z, n)
    BY <2>1 DEF Frame
  <2> QED
    BY <2>2, <2>3 DEF Same
<1> QED
  BY <1>1, <1>2, <1>3 DEF Frame

LEMMA FrameWider ==
    ASSUME NEW x, NEW y, NEW M, NEW P, Frame(x, y, M), M \subseteq P
    PROVE  Frame(x, y, P)
<1> QED
  BY DEF Frame

\* y is x with v at the end of n.
Adds(x, y, n, v) ==
    /\ Frame(x, y, {n}) /\ SameOpen(x, y) /\ y.failed = x.failed
    /\ MadeIn(y, n) /\ SavedIn(y, n) = SavedIn(x, n) \o v

LEMMA AppendedAdds ==
    ASSUME NEW x \in ExportType, NEW n \in AllNames, NEW v \in Seq(Byte), MadeIn(x, n),
           NEW y, y = Appended(x, n, v)
    PROVE  Adds(x, y, n, v)
<1> QED
  BY AppendedEffect DEF Adds

LEMMA AddsTwice ==
    ASSUME NEW x, NEW y, NEW z, NEW f \in AllNames, NEW n \in AllNames, n # f,
           NEW v, NEW w, Adds(x, z, f, v), Adds(z, y, n, w)
    PROVE  Frame(x, y, {f, n}) /\ Same(z, y, f) /\ Same(x, z, n)
<1>1. Frame(x, z, {f}) /\ Frame(z, y, {n})
  BY DEF Adds
<1>2. Same(x, z, n) /\ Same(z, y, f)
  BY <1>1 DEF Frame
<1>3. Frame(x, y, {f, n})
  BY <1>1, FrameTransitive
<1> QED
  BY <1>2, <1>3

LEMMA AppendedTwice ==
    ASSUME NEW x \in ExportType, NEW f \in AllNames, NEW n \in AllNames, n # f,
           NEW v \in Seq(Byte), NEW w \in Seq(Byte), MadeIn(x, f), MadeIn(x, n),
           NEW z, z = Appended(x, f, v), NEW y, y = Appended(z, n, w)
    PROVE  Adds(x, z, f, v) /\ Adds(z, y, n, w)
<1>1. Adds(x, z, f, v)
  BY AppendedAdds
<1>2. z \in ExportType /\ Same(x, z, n)
  BY <1>1 DEF Adds, Frame
<1>3. MadeIn(z, n)
  BY <1>2 DEF Same
<1>4. Adds(z, y, n, w)
  BY <1>2, <1>3, AppendedAdds
<1> QED
  BY <1>1, <1>4

LEMMA PartType ==
    ASSUME NEW data \in Seq(Byte), NEW k \in Nat, k <= Len(data)
    PROVE  Part(data, 1, k) \in Seq(Byte)
<1>1. \A i \in 1 .. k : data[i] \in Byte
  BY ElementOfSeq
<1> QED
  BY <1>1, SubSeqProperties DEF Part

LEMMA TornEffect ==
    ASSUME NEW x \in ExportType, NEW n \in AllNames, NEW data \in Seq(Byte), MadeIn(x, n),
           NEW y \in TornWrites(x, n, data)
    PROVE  /\ Frame(x, y, {n}) /\ SameOpen(x, y) /\ y.failed /\ MadeIn(y, n)
           /\ \E k \in 0 .. Len(data) : SavedIn(y, n) = SavedIn(x, n) \o Part(data, 1, k)
<1>1. PICK k \in 0 .. Len(data) - 1 : y = Failed(Appended(x, n, Part(data, 1, k)))
  BY DEF TornWrites, Part
<1>2. k \in Nat /\ k <= Len(data) /\ k \in 0 .. Len(data)
  OBVIOUS
<1>3. PICK p \in Seq(Byte) : p = Part(data, 1, k)
  BY <1>2, PartType
<1>4. PICK z : z = Appended(x, n, p)
  OBVIOUS
<1>5. /\ Frame(x, z, {n}) /\ SameOpen(x, z) /\ MadeIn(z, n)
      /\ SavedIn(z, n) = SavedIn(x, n) \o p /\ z \in ExportType /\ y = Failed(z)
  <2>1. Frame(x, z, {n}) /\ SameOpen(x, z) /\ MadeIn(z, n) /\ SavedIn(z, n) = SavedIn(x, n) \o p
    BY <1>4, AppendedEffect
  <2>2. y = Failed(z)
    BY <1>1, <1>3, <1>4, Zenon
  <2> QED
    BY <2>1, <2>2 DEF Frame
<1>6. /\ Frame(z, y, {}) /\ SameOpen(z, y) /\ y.failed
      /\ Same(z, y, n)
  BY <1>5, FailedEffect
<1>7. Frame(x, y, {n})
  BY <1>5, <1>6, FrameTransitive
<1>8. SameOpen(x, y)
  BY <1>5, <1>6 DEF SameOpen
<1> QED
  BY <1>2, <1>3, <1>5, <1>6, <1>7, <1>8 DEF Same

\* The files a write may add to.
Written(x) == IF x.image = Face THEN {x.file, Face} ELSE {x.file}
Window(x, data) == IF x.image = Face THEN InWindow(x, data) ELSE <<>>

LEMMA WindowType ==
    ASSUME NEW x \in ExportType, NEW data \in Seq(Byte)
    PROVE  InWindow(x, data) \in Seq(Byte) /\ (x.image # Face => InWindow(x, data) = <<>>)
<1> DEFINE skip == IF x.offset < x.imageOffset THEN x.imageOffset - x.offset ELSE 0
<1>1. x.offset \in Nat /\ x.imageOffset \in Nat /\ x.image \in {NoName, Face}
  BY ExportFields
<1>2. skip + 1 \in Int /\ Len(data) \in Int /\ skip \in Nat
  BY <1>1
<1>3. SubSeq(data, skip + 1, Len(data)) \in Seq(Byte)
  <2>1. \A i \in skip + 1 .. Len(data) : data[i] \in Byte
    BY <1>2, ElementOfSeq
  <2> HIDE DEF skip
  <2> QED
    BY <1>2, <2>1, SubSeqProperties
<1>4. <<>> \in Seq(Byte)
  BY EmptySeq
<1>5. InWindow(x, data) = IF x.image = NoName \/ x.offset + Len(data) <= x.imageOffset
                          THEN <<>> ELSE SubSeq(data, skip + 1, Len(data))
  BY DEF InWindow
<1> HIDE DEF skip
<1> QED
  BY <1>1, <1>3, <1>4, <1>5

\* What a write to an open file leaves behind.
Wrote(x, y, data) ==
    /\ Frame(x, y, Written(x))
    /\ y.file = x.file /\ y.image = x.image /\ y.armed = x.armed
    /\ y.imageOffset = x.imageOffset
    /\ MadeIn(y, x.file) /\ (x.image = Face => MadeIn(y, Face))
    /\ ~y.failed =>
          /\ y.offset = x.offset + Len(data)
          /\ SavedIn(y, x.file) = Join(SavedIn(x, x.file), data)
          /\ x.image = Face =>
                SavedIn(y, Face) = Join(SavedIn(x, Face), InWindow(x, data))
    /\ y.failed =>
          /\ \E k \in 0 .. Len(data) :
                SavedIn(y, x.file) = Join(SavedIn(x, x.file), Part(data, 1, k))
          /\ x.image = Face => \E k \in 0 .. Len(InWindow(x, data)) :
                SavedIn(y, Face) = Join(SavedIn(x, Face), Part(InWindow(x, data), 1, k))

LEMMA WriteEffect ==
    ASSUME NEW x \in ExportType, NEW data \in Seq(Byte), ~x.failed,
           x.file \in Names, MadeIn(x, x.file), x.image = Face => MadeIn(x, Face),
           NEW y \in Write(x, data)
    PROVE  Wrote(x, y, data)
<1>a. PICK f : f = x.file
  OBVIOUS
<1>b. PICK w : w = InWindow(x, data)
  OBVIOUS
<1>c. PICK cnt : cnt = [x EXCEPT !.offset = @ + Len(data)]
  OBVIOUS
<1> USE <1>a
<1>0. /\ f \in AllNames /\ Face \in AllNames /\ f # Face /\ f # NoName /\ Face # NoName
      /\ x.image \in {NoName, Face}
  BY StreamAssumption, ExportFields DEF AllNames, Face, NoName
<1>1. w \in Seq(Byte) /\ (x.image # Face => w = <<>>) /\ Len(w) \in Nat /\ Len(data) \in Nat
  BY <1>b, WindowType
<1>2. /\ SavedIn(x, f) \in Seq(Byte) /\ SavedIn(x, Face) \in Seq(Byte)
      /\ SavedIn(x, f) \o <<>> = SavedIn(x, f) /\ SavedIn(x, Face) \o <<>> = SavedIn(x, Face)
      /\ Part(w, 1, 0) = <<>> /\ Part(data, 1, 0) = <<>>
      /\ Part(w, 1, Len(w)) = w /\ Part(data, 1, Len(data)) = data
  <2>1. SavedIn(x, f) \in Seq(Byte) /\ SavedIn(x, Face) \in Seq(Byte)
    BY <1>0, SavedType
  <2>2. Part(w, 1, 0) = <<>> /\ Part(data, 1, 0) = <<>>
    BY SubSeqEmpty DEF Part
  <2>3. Part(w, 1, Len(w)) = w /\ Part(data, 1, Len(data)) = data
    BY <1>1, SubSeqFull DEF Part
  <2> QED
    BY <2>1, <2>2, <2>3, ConcatEmptySeq
<1>3. /\ cnt \in ExportType /\ Frame(x, cnt, {}) /\ cnt.offset = x.offset + Len(data)
      /\ cnt.file = f /\ cnt.image = x.image /\ cnt.armed = x.armed
      /\ cnt.imageOffset = x.imageOffset /\ ~cnt.failed
      /\ \A n : Same(x, cnt, n)
  <2>1. x.offset + Len(data) \in Nat
    BY <1>1, ExportFields
  <2>2. cnt \in ExportType
    BY <1>c, <2>1 DEF ExportType
  <2>3. /\ cnt.open = x.open /\ cnt.by = x.by /\ cnt.dir = x.dir /\ cnt.disk = x.disk
        /\ cnt.file = f /\ cnt.image = x.image /\ cnt.armed = x.armed
        /\ cnt.imageOffset = x.imageOffset /\ cnt.failed = x.failed
        /\ cnt.offset = x.offset + Len(data)
    BY <1>c DEF ExportType
  <2> QED
    BY <2>2, <2>3, SameDisk
<1>4. /\ {f} \subseteq Written(x) /\ {} \subseteq Written(x)
      /\ x.image = Face => {Face} \subseteq Written(x)
      /\ MadeIn(cnt, f) /\ (x.image = Face => MadeIn(cnt, Face))
      /\ SavedIn(cnt, f) = SavedIn(x, f) /\ SavedIn(cnt, Face) = SavedIn(x, Face)
  BY <1>3 DEF Written, Same
<1> DEFINE Kind == /\ Frame(x, y, Written(x))
                   /\ y.file = f /\ y.image = x.image /\ y.armed = x.armed
                   /\ y.imageOffset = x.imageOffset
                   /\ MadeIn(y, f) /\ (x.image = Face => MadeIn(y, Face))
           Whole == /\ ~y.failed /\ y.offset = x.offset + Len(data)
                    /\ SavedIn(y, f) = SavedIn(x, f) \o data
                    /\ x.image = Face => SavedIn(y, Face) = SavedIn(x, Face) \o w
           Torn == /\ y.failed
                   /\ \E k \in 0 .. Len(data) : SavedIn(y, f) = SavedIn(x, f) \o Part(data, 1, k)
                   /\ x.image = Face => \E k \in 0 .. Len(w) :
                         SavedIn(y, Face) = SavedIn(x, Face) \o Part(w, 1, k)
<1>5. ASSUME data = <<>>, y = cnt PROVE Kind /\ Whole
  <2>1. Len(data) = 0
    BY <1>5
  <2>2. w = <<>>
    <3> DEFINE skip == IF x.offset < x.imageOffset THEN x.imageOffset - x.offset ELSE 0
    <3>1. skip + 1 \in Int /\ Len(data) \in Int /\ Len(data) < skip + 1
      BY <2>1, ExportFields
    <3>2. SubSeq(data, skip + 1, Len(data)) = <<>>
      BY <3>1, SubSeqEmpty
    <3> QED
      BY <1>b, <3>2 DEF InWindow
  <2>3. Frame(x, y, Written(x))
    BY <1>3, <1>4, <1>5, FrameWider
  <2>4. Kind
    BY <1>3, <1>4, <1>5, <2>3
  <2> QED
    BY <1>2, <1>3, <1>4, <1>5, <2>2, <2>4
<1>6. ASSUME y \in TornWrites(x, f, data) PROVE Kind /\ Torn
  <2>1. /\ Frame(x, y, {f}) /\ SameOpen(x, y) /\ y.failed /\ MadeIn(y, f)
        /\ \E k \in 0 .. Len(data) : SavedIn(y, f) = SavedIn(x, f) \o Part(data, 1, k)
    BY <1>0, <1>6, TornEffect
  <2>2. Same(x, y, Face)
    BY <1>0, <2>1 DEF Frame
  <2>3. Frame(x, y, Written(x))
    BY <1>4, <2>1, FrameWider
  <2>4. 0 \in 0 .. Len(w)
    BY <1>1
  <2>5. x.image = Face =>
          /\ MadeIn(y, Face) /\ SavedIn(y, Face) = SavedIn(x, Face) \o Part(w, 1, 0)
    BY <1>2, <2>2 DEF Same
  <2>6. Kind
    BY <2>1, <2>3, <2>5 DEF SameOpen
  <2> QED
    BY <2>1, <2>4, <2>5, <2>6
<1>7. ASSUME w = <<>>, y = Appended(cnt, f, data) PROVE Kind /\ Whole
  <2>1. /\ Frame(cnt, y, {f}) /\ SameOpen(cnt, y) /\ y.failed = cnt.failed
        /\ MadeIn(y, f) /\ SavedIn(y, f) = SavedIn(cnt, f) \o data
    BY <1>0, <1>3, <1>4, <1>7, AppendedEffect
  <2>2. Same(x, y, Face)
    BY <1>0, <1>3, <2>1 DEF Frame, Same
  <2>3. Frame(x, y, Written(x))
    BY <1>3, <1>4, <2>1, FrameTransitive
  <2>4. Kind
    BY <1>3, <2>1, <2>2, <2>3 DEF SameOpen, Same
  <2>5. x.image = Face => SavedIn(y, Face) = SavedIn(x, Face) \o w
    BY <1>2, <1>7, <2>2 DEF Same
  <2>6. ~y.failed /\ y.offset = x.offset + Len(data)
    BY <1>3, <2>1 DEF SameOpen
  <2>7. SavedIn(y, f) = SavedIn(x, f) \o data
    BY <1>4, <2>1
  <2> QED
    BY <2>4, <2>5, <2>6, <2>7
<1>8. ASSUME w # <<>>, y \in TornWrites(Appended(x, f, data), Face, w) PROVE Kind /\ Torn
  <2>0. PICK z : z = Appended(x, f, data)
    OBVIOUS
  <2>1. x.image = Face
    BY <1>1, <1>8
  <2>2. /\ Frame(x, z, {f}) /\ SameOpen(x, z)
        /\ MadeIn(z, f) /\ SavedIn(z, f) = SavedIn(x, f) \o data
    BY <1>0, <2>0, AppendedEffect
  <2>3. Same(x, z, Face) /\ z \in ExportType
    BY <1>0, <2>2 DEF Frame
  <2>4. MadeIn(z, Face) /\ y \in TornWrites(z, Face, w)
    BY <1>8, <2>0, <2>1, <2>3 DEF Same
  <2>5. /\ Frame(z, y, {Face}) /\ SameOpen(z, y) /\ y.failed /\ MadeIn(y, Face)
        /\ \E k \in 0 .. Len(w) : SavedIn(y, Face) = SavedIn(z, Face) \o Part(w, 1, k)
    <3>1. PICK n \in AllNames, v \in Seq(Byte) : n = Face /\ v = w
      BY <1>0, <1>1
    <3>2. MadeIn(z, n) /\ y \in TornWrites(z, n, v) /\ z \in ExportType
      BY <2>3, <2>4, <3>1
    <3>3. /\ Frame(z, y, {n}) /\ SameOpen(z, y) /\ y.failed /\ MadeIn(y, n)
          /\ \E k \in 0 .. Len(v) : SavedIn(y, n) = SavedIn(z, n) \o Part(v, 1, k)
      BY ZenonT(60), <3>2, TornEffect
    <3> QED
      BY <3>1, <3>3
  <2>6. Same(z, y, f)
    BY <1>0, <2>5 DEF Frame
  <2>7. Frame(x, y, Written(x))
    BY <1>4, <2>1, <2>2, <2>5, FrameTransitive
  <2>8. Len(data) \in 0 .. Len(data)
    BY <1>1
  <2>9. Kind
    BY <2>2, <2>5, <2>6, <2>7 DEF SameOpen, Same
  <2>10. \E k \in 0 .. Len(w) : SavedIn(y, Face) = SavedIn(x, Face) \o Part(w, 1, k)
    BY <2>3, <2>5 DEF Same
  <2>11. SavedIn(y, f) = SavedIn(x, f) \o Part(data, 1, Len(data))
    BY <1>2, <2>2, <2>6 DEF Same
  <2> QED
    BY <2>5, <2>8, <2>9, <2>10, <2>11
<1>9. ASSUME w # <<>>, y = Appended(Appended(cnt, f, data), Face, w) PROVE Kind /\ Whole
  <2>1. x.image = Face
    BY <1>1, <1>9
  <2>2. PICK n : n = Face
    OBVIOUS
  <2>3. PICK z : z = Appended(cnt, f, data)
    OBVIOUS
  <2>4. /\ Frame(cnt, y, {f, n}) /\ SameOpen(cnt, y) /\ y.failed = cnt.failed
        /\ MadeIn(y, f) /\ SavedIn(y, f) = SavedIn(cnt, f) \o data
        /\ MadeIn(y, n) /\ SavedIn(y, n) = SavedIn(cnt, n) \o w
    <3>1. /\ n \in AllNames /\ f \in AllNames /\ n # f /\ cnt \in ExportType
          /\ MadeIn(cnt, f) /\ MadeIn(cnt, n) /\ w \in Seq(Byte) /\ y = Appended(z, n, w)
      BY <1>0, <1>1, <1>3, <1>4, <1>9, <2>1, <2>2, <2>3
    <3> HIDE <1>a DEF Kind, Whole, Torn
    <3>2. Adds(cnt, z, f, data) /\ Adds(z, y, n, w)
      BY <2>3, <3>1, AppendedTwice
    <3>3. /\ Frame(cnt, y, {f, n}) /\ SameOpen(cnt, y) /\ y.failed = cnt.failed
          /\ MadeIn(y, f) /\ MadeIn(y, n)
          /\ SavedIn(y, f) = SavedIn(z, f) /\ SavedIn(z, n) = SavedIn(cnt, n)
      <4>1. Frame(cnt, y, {f, n}) /\ Same(z, y, f) /\ Same(cnt, z, n)
        BY <3>1, <3>2, AddsTwice
      <4> QED
        BY <3>2, <4>1 DEF Adds, SameOpen, Same
    <3>4. SavedIn(z, f) = SavedIn(cnt, f) \o data /\ SavedIn(y, n) = SavedIn(z, n) \o w
      BY <3>2 DEF Adds
    <3> QED
      BY <3>3, <3>4
  <2>5. {f, n} \subseteq Written(x)
    BY <2>1, <2>2 DEF Written
  <2>6. Frame(x, y, Written(x))
    BY <1>3, <1>4, <2>4, <2>5, FrameTransitive
  <2>7. Kind
    BY <1>3, <2>2, <2>4, <2>6 DEF SameOpen
  <2>8. ~y.failed /\ y.offset = x.offset + Len(data)
    BY <1>3, <2>4 DEF SameOpen
  <2>9. SavedIn(y, f) = SavedIn(x, f) \o data /\ SavedIn(y, Face) = SavedIn(x, Face) \o w
    BY <1>4, <2>2, <2>4
  <2> QED
    BY <2>7, <2>8, <2>9
<1>10. \/ data = <<>> /\ y = cnt
       \/ y \in TornWrites(x, f, data)
       \/ w = <<>> /\ y = Appended(cnt, f, data)
       \/ w # <<>> /\ y \in TornWrites(Appended(x, f, data), Face, w)
       \/ w # <<>> /\ y = Appended(Appended(cnt, f, data), Face, w)
  <2>1. Write(x, data) =
          IF x.failed \/ f = NoName \/ data = <<>> THEN {cnt}
          ELSE TornWrites(x, f, data)
               \cup IF w = <<>> THEN {Appended(cnt, f, data)}
                    ELSE TornWrites(Appended(x, f, data), Face, w)
                         \cup {Appended(Appended(cnt, f, data), Face, w)}
    BY <1>b, <1>c DEF Write
  <2> QED
    BY <1>0, <2>1
<1>11. Kind /\ (Whole \/ Torn)
  <2> HIDE DEF Kind, Whole, Torn
  <2> QED
    BY <1>5, <1>6, <1>7, <1>8, <1>9, <1>10
<1> QED
  BY <1>11, <1>b DEF Wrote, Join
-----------------------------------------------------------------------------
(***************************************************************************)
(* The export from one offset of a file to the next.                       *)
(***************************************************************************)

\* What is on the card below an offset o, and from where an answer adds to it.
LEMMA SliceJoin ==
    ASSUME NEW c \in [Names -> ChipFiles], NEW f \in Names,
           NEW o \in Nat, NEW a \in Nat, NEW d \in Nat, NEW e \in Nat,
           a <= d, d <= c[f].length, e = IF o < a THEN a ELSE o
    PROVE  Join(Slice(c, f, o, a), Slice(c, f, e, d)) = Slice(c, f, o, d)
<1>0. c[f].length \in Nat
  BY ContentType
<1>1. CASE o < a
  <2>1. e = a /\ o <= a
    BY <1>1
  <2> QED
    BY <2>1, SliceConcat
<1>2. CASE a <= o
  <2>1. e = o /\ a <= c[f].length
    BY <1>0, <1>2
  <2>2. Slice(c, f, o, a) = <<>>
    BY <1>2, <2>1, SliceType
  <2>3. Slice(c, f, o, d) \in Seq(Byte)
    BY SliceType
  <2>4. PICK s \in Seq(Byte) : s = Slice(c, f, o, d)
    BY <2>3
  <2>5. <<>> \o s = s
    BY <2>4, ConcatEmptySeq
  <2> QED
    BY <2>1, <2>2, <2>4, <2>5 DEF Join
<1> QED
  BY <1>1, <1>2

UpToSome(t, c, f, e, a) == \E d \in a .. c[f].length : t = Slice(c, f, e, d)

\* What a torn write takes of an answer.
LEMMA TornSlice ==
    ASSUME NEW c \in [Names -> ChipFiles], NEW f \in Names,
           NEW a \in Nat, NEW e \in Nat, NEW b \in Nat, a <= b, a <= e, b <= c[f].length,
           NEW s, s = Slice(c, f, e, b), NEW k \in 0 .. Len(s), NEW t, t = Part(s, 1, k)
    PROVE  UpToSome(t, c, f, e, a)
<1> USE DEF UpToSome
<1>0. c[f].length \in Nat /\ Len(Slice(c, f, e, b)) = IF e <= b THEN b - e ELSE 0
  BY ContentType, SliceType
<1>1. CASE e <= b
  <2>1. k \in Nat /\ k <= b - e /\ e + k \in a .. c[f].length
    BY <1>0, <1>1
  <2>2. Part(Slice(c, f, e, b), 1, k) = Slice(c, f, e, e + k)
    BY <1>1, <2>1, SliceHead
  <2> QED
    BY <2>1, <2>2
<1>2. CASE b < e
  <2>1. k = 0 /\ a \in a .. c[f].length /\ a <= e /\ a <= c[f].length
    BY <1>0, <1>2
  <2>2. Slice(c, f, e, a) = <<>>
    BY <2>1, SliceType
  <2>3. Part(Slice(c, f, e, b), 1, 0) = <<>>
    BY SubSeqEmpty DEF Part
  <2> QED
    BY <2>1, <2>2, <2>3
<1> QED
  BY <1>1, <1>2

\* The window of the image lets through what is past its offset.
LEMMA WindowSlice ==
    ASSUME NEW c \in [Names -> ChipFiles], NEW f \in Names,
           NEW a \in Nat, NEW b \in Nat, NEW e \in Nat, a <= b, b <= c[f].length,
           NEW x \in ExportType, x.image = Face, x.offset = a,
           e = IF x.imageOffset < a THEN a ELSE x.imageOffset,
           NEW data, data = Slice(c, f, a, b)
    PROVE  InWindow(x, data) = Slice(c, f, e, b)
<1>0. x.imageOffset \in Nat /\ x.image # NoName
  BY ExportFields DEF Face, NoName
<1>1. data \in Seq(Byte) /\ Len(data) = b - a /\ b - a \in Nat
  <2>1. /\ Slice(c, f, a, b) \in Seq(Byte)
        /\ Len(Slice(c, f, a, b)) = IF a <= b THEN b - a ELSE 0
    BY SliceType
  <2> QED
    BY <2>1
<1>2. CASE b <= x.imageOffset
  <2>1. InWindow(x, data) = <<>>
    BY <1>0, <1>1, <1>2 DEF InWindow
  <2>2. b <= e
    BY <1>0, <1>2
  <2>3. Slice(c, f, e, b) = <<>>
    BY <2>2, SliceType
  <2> QED
    BY <2>1, <2>3
<1>3. CASE x.imageOffset < b
  <2>1. PICK m \in Nat \ {0} :
           m = (IF x.offset < x.imageOffset THEN x.imageOffset - x.offset ELSE 0) + 1
    <3>1. (IF x.offset < x.imageOffset THEN x.imageOffset - x.offset ELSE 0) + 1 \in Nat \ {0}
      BY <1>0
    <3> QED
      BY <3>1
  <2>2. InWindow(x, data) = Part(data, m, Len(data))
    <3>1. ~(x.offset + Len(data) <= x.imageOffset)
      BY <1>0, <1>1, <1>3
    <3> QED
      BY <1>0, <2>1, <3>1 DEF InWindow, Part
  <2>3. PICK n \in Nat : n = b - a
    BY <1>1
  <2>4. Part(Slice(c, f, a, b), m, n) = Slice(c, f, a + m - 1, a + n)
    BY <2>3, SliceOfSlice
  <2>5. a + m - 1 = e /\ a + n = b
    BY <1>0, <2>1, <2>3
  <2> QED
    BY <1>1, <2>2, <2>3, <2>4, <2>5
<1> QED
  BY <1>0, <1>2, <1>3
\* The export as it stands, or what is left of it.
Ready(x, c, f, a, fc) ==
    /\ x \in ExportType /\ Kept(x, c, fc)
    /\ x.by # 0 /\ ~x.failed => Standing(x, c, f, a, fc) /\ TailOfImage(x, c, fc)

\* The files that a write to f may add to.
Files(f) == IF f = Image THEN {f, Face} ELSE {f}

\* From x the export has come to stand at b, or has failed on the way.
Carried(x, y, c, f, b, fc) ==
    /\ Frame(x, y, Files(f)) /\ (x.failed => y.failed)
    /\ Ready(y, c, f, b, fc)

LEMMA NamesApart ==
    /\ Image \in Names /\ Face \notin Names /\ "mrz.txt" \notin Names
    /\ "report.txt" \notin Names /\ NoName \notin Names
    /\ Names \subseteq AllNames /\ {Face, "mrz.txt", "report.txt"} \subseteq AllNames
BY StreamAssumption DEF AllNames

LEMMA KeptSame ==
    ASSUME NEW x, NEW y, NEW c, NEW fc, Kept(x, c, fc), \A n : Same(x, y, n)
    PROVE  Kept(y, c, fc)
<1>1. \A n : SavedIn(y, n) = SavedIn(x, n)
  BY DEF Same
<1>2. ASSUME NEW f \in Names
      PROVE  \E k \in 0 .. c[f].length : SavedIn(y, f) = Slice(c, f, 0, k)
  <2>1. PICK k \in 0 .. c[f].length : SavedIn(x, f) = Slice(c, f, 0, k)
    BY DEF Kept
  <2> QED
    BY <1>1, <2>1
<1>3. \E k \in 0 .. c[Image].length : SavedIn(y, Face) = Slice(c, Image, fc.offset, k)
  <2>1. PICK k \in 0 .. c[Image].length : SavedIn(x, Face) = Slice(c, Image, fc.offset, k)
    BY DEF Kept
  <2> QED
    BY <1>1, <2>1
<1> QED
  BY <1>2, <1>3 DEF Kept

LEMMA CarriedTwice ==
    ASSUME NEW x, NEW y, NEW z, NEW c, NEW f, NEW a, NEW b, NEW fc, NEW fd,
           Carried(x, y, c, f, a, fd), Carried(y, z, c, f, b, fc)
    PROVE  Carried(x, z, c, f, b, fc)
<1>1. Frame(x, y, Files(f)) /\ Frame(y, z, Files(f))
  BY DEF Carried
<1>2. Frame(x, z, Files(f))
  BY <1>1, FrameTransitive
<1> QED
  BY <1>2 DEF Carried

LEMMA CarriedNowhere ==
    ASSUME NEW x, NEW c, NEW f, NEW a, NEW fc, Ready(x, c, f, a, fc)
    PROVE  Carried(x, x, c, f, a, fc)
<1>1. x \in ExportType
  BY DEF Ready
<1>2. Frame(x, x, {})
  BY <1>1, SameDisk
<1>3. Frame(x, x, Files(f))
  BY <1>2, FrameWider
<1> QED
  BY <1>3 DEF Carried

LEMMA FailedIsReady ==
    ASSUME NEW x \in ExportType, NEW y \in ExportType, NEW c, NEW f, NEW b, NEW fc,
           Kept(x, c, fc), \A n : Same(x, y, n), y.failed,
           y.open = x.open, y.by = x.by, y.dir = x.dir, y.disk = x.disk
    PROVE  Carried(x, y, c, f, b, fc)
<1>1. Frame(x, y, {})
  BY SameDisk
<1>2. Frame(x, y, Files(f))
  BY <1>1, FrameWider
<1>3. Kept(y, c, fc)
  BY KeptSame
<1> QED
  BY <1>2, <1>3 DEF Carried, Ready

\* What a write, or a torn one, adds to a file that holds o + 1 .. a.
LEMMA GrewTo ==
    ASSUME NEW c \in [Names -> ChipFiles], NEW f \in Names,
           NEW o \in Nat, NEW a \in Nat, NEW b \in Nat, NEW e \in Nat,
           a <= b, b <= c[f].length, e = IF o < a THEN a ELSE o,
           NEW u, NEW v, NEW s, u = Slice(c, f, o, a), s = Slice(c, f, e, b),
           \/ v = Join(u, s)
           \/ \E k \in 0 .. Len(s) : v = Join(u, Part(s, 1, k))
    PROVE  /\ v = Join(u, s) => v = Slice(c, f, o, b)
           /\ \E k \in a .. c[f].length : v = Slice(c, f, o, k)
<1>0. c[f].length \in Nat /\ a <= e
  BY ContentType
<1>1. v = Join(u, s) => v = Slice(c, f, o, b)
  BY SliceJoin
<1>2. b \in a .. c[f].length
  BY <1>0
<1>3. CASE v # Join(u, s)
  <2>1. PICK k \in 0 .. Len(s) : v = Join(u, Part(s, 1, k))
    BY <1>3
  <2>2. PICK d \in a .. c[f].length : Part(s, 1, k) = Slice(c, f, e, d)
    <3>1. PICK t : t = Part(s, 1, k)
      OBVIOUS
    <3>2. UpToSome(t, c, f, e, a)
      BY <1>0, <3>1, TornSlice
    <3> QED
      BY <3>1, <3>2 DEF UpToSome
  <2>3. d \in Nat /\ a <= d /\ d <= c[f].length
    BY <1>0
  <2>4. Join(Slice(c, f, o, a), Slice(c, f, e, d)) = Slice(c, f, o, d)
    BY <2>3, SliceJoin
  <2>5. v = Slice(c, f, o, d)
    BY <2>1, <2>2, <2>4
  <2> QED
    BY <1>3, <2>5
<1>4. CASE v = Join(u, s)
  BY <1>1, <1>2, <1>4
<1> QED
  BY <1>3, <1>4

LEMMA WriteCarries ==
    ASSUME NEW c \in [Names -> ChipFiles], NEW f \in Names, NEW a \in Nat, NEW b \in Nat,
           a <= b, b <= c[f].length, NEW fc, fc.offset \in Nat,
           NEW x, Ready(x, c, f, a, fc), x.by # 0,
           NEW data, data = Slice(c, f, a, b), NEW y \in Write(x, data)
    PROVE  Carried(x, y, c, f, b, fc)
<1>0. x \in ExportType /\ Kept(x, c, fc) /\ c[f].length \in Nat
  BY ContentType DEF Ready
<1>1. data \in Seq(Byte) /\ Len(data) = b - a /\ b - a \in Nat
  <2>1. /\ Slice(c, f, a, b) \in Seq(Byte)
        /\ Len(Slice(c, f, a, b)) = IF a <= b THEN b - a ELSE 0
    BY SliceType
  <2> QED
    BY <2>1
<1>2. CASE x.failed
  <2>1. y = [x EXCEPT !.offset = @ + Len(data)]
    BY <1>2 DEF Write
  <2>2. x.offset + Len(data) \in Nat
    BY <1>0, <1>1, ExportFields
  <2>3. /\ y \in ExportType /\ y.failed /\ y.open = x.open /\ y.by = x.by
        /\ y.dir = x.dir /\ y.disk = x.disk
    BY <1>0, <1>2, <2>1, <2>2 DEF ExportType
  <2>4. \A n : Same(x, y, n)
    BY <1>0, <2>3, SameDisk
  <2> QED
    BY <1>0, <2>3, <2>4, FailedIsReady
<1>3. CASE ~x.failed
  <2>1. Standing(x, c, f, a, fc) /\ TailOfImage(x, c, fc)
    BY <1>3 DEF Ready
  <2>2. /\ x.file = f /\ MadeIn(x, f) /\ x.offset = a /\ SavedIn(x, f) = Slice(c, f, 0, a)
        /\ x.image = Face => f = Image /\ MadeIn(x, Face) /\ x.imageOffset = fc.offset
        /\ f = Image /\ x.image # Face => ~MadeIn(x, Face)
    BY <2>1 DEF Standing
  <2>3. Wrote(x, y, data)
    BY <1>0, <1>1, <1>3, <2>2, WriteEffect
  <2>4. Written(x) \subseteq Files(f)
    BY <2>2 DEF Written, Files
  <2>5. Frame(x, y, Files(f))
    BY <2>3, <2>4, FrameWider DEF Wrote
  <2>6. PICK o \in Nat : o = fc.offset
    OBVIOUS
  <2>7. PICK e \in Nat : e = IF o < a THEN a ELSE o
    OBVIOUS
  <2>8. /\ a <= e /\ 0 <= a /\ a \in 0 .. c[f].length /\ b \in a .. c[f].length
        /\ f \in AllNames /\ Face \in AllNames /\ f # Face
    BY <1>0, <2>7, NamesApart
  <2>9. x.image = Face => InWindow(x, data) = Slice(c, f, e, b) /\ f = Image
    <3>1. ASSUME x.image = Face PROVE InWindow(x, data) = Slice(c, f, e, b)
      <4>1. x.offset = a /\ e = IF x.imageOffset < a THEN a ELSE x.imageOffset
        BY <2>2, <2>6, <2>7, <3>1
      <4> QED
        BY <1>0, <3>1, <4>1, WindowSlice
    <3> QED
      BY <2>2, <3>1
  \* Both files, to one offset each.
  <2>10. /\ ~y.failed => SavedIn(y, f) = Slice(c, f, 0, b)
         /\ \E k \in a .. c[f].length : SavedIn(y, f) = Slice(c, f, 0, k)
    <3>1. PICK z \in Nat : z = 0
      OBVIOUS
    <3>2. PICK u : u = SavedIn(x, f)
      OBVIOUS
    <3>3. PICK v : v = SavedIn(y, f)
      OBVIOUS
    <3>4. /\ ~y.failed => v = Join(u, data)
          /\ y.failed => \E k \in 0 .. Len(data) : v = Join(u, Part(data, 1, k))
      BY <2>2, <2>3, <3>2, <3>3 DEF Wrote
    <3>5. u = Slice(c, f, z, a) /\ a = IF z < a THEN a ELSE z
      BY <2>2, <3>1, <3>2
    <3>6. \/ v = Join(u, data)
          \/ \E k \in 0 .. Len(data) : v = Join(u, Part(data, 1, k))
      BY <3>4
    <3>7. /\ v = Join(u, data) => v = Slice(c, f, z, b)
          /\ \E k \in a .. c[f].length : v = Slice(c, f, z, k)
      BY SMTT(30), <3>5, <3>6, GrewTo
    <3> QED
      BY <3>1, <3>3, <3>4, <3>7
  <2>11. x.image = Face =>
         /\ ~y.failed => SavedIn(y, Face) = Slice(c, f, o, b)
         /\ \E k \in a .. c[f].length : SavedIn(y, Face) = Slice(c, f, o, k)
    <3>1. SUFFICES ASSUME x.image = Face
                   PROVE  /\ ~y.failed => SavedIn(y, Face) = Slice(c, f, o, b)
                          /\ \E k \in a .. c[f].length : SavedIn(y, Face) = Slice(c, f, o, k)
      OBVIOUS
    <3>2. PICK u : u = SavedIn(x, Face)
      OBVIOUS
    <3>3. PICK v : v = SavedIn(y, Face)
      OBVIOUS
    <3>4. PICK s : s = InWindow(x, data)
      OBVIOUS
    <3>5. s = Slice(c, f, e, b) /\ f = Image
      BY <2>9, <3>1, <3>4
    <3>6. /\ ~y.failed => v = Join(u, s)
          /\ y.failed => \E k \in 0 .. Len(s) : v = Join(u, Part(s, 1, k))
      BY <2>3, <3>1, <3>2, <3>3, <3>4 DEF Wrote
    <3>7. u = Slice(c, f, o, a)
      <4>1. a <= c[f].length /\ 0 <= a
        BY <1>0
      <4>2. Len(Slice(c, f, 0, a)) = a
        <5>0. PICK z \in Nat : z = 0
          OBVIOUS
        <5>1. PICK s0 : s0 = Slice(c, f, z, a)
          OBVIOUS
        <5>2. Len(s0) = a - z
          BY <4>1, <5>0, <5>1, SliceLength
        <5> QED
          BY <5>0, <5>1, <5>2
      <4>3. MadeIn(x, Face) /\ SavedIn(x, Image) = Slice(c, Image, 0, a)
        BY <2>2, <3>1, <3>5
      <4>4. SavedIn(x, Face) = Slice(c, Image, fc.offset, Len(SavedIn(x, Image)))
        BY <2>1, <4>3 DEF TailOfImage
      <4> QED
        BY <2>6, <3>2, <3>5, <4>2, <4>3, <4>4
    <3>8. \/ v = Join(u, s)
          \/ \E k \in 0 .. Len(s) : v = Join(u, Part(s, 1, k))
      BY <3>6
    <3>9. /\ v = Join(u, s) => v = Slice(c, f, o, b)
          /\ \E k \in a .. c[f].length : v = Slice(c, f, o, k)
      BY SMTT(30), <2>7, <3>5, <3>7, <3>8, GrewTo
    <3> QED
      BY <3>3, <3>6, <3>9
  <2>12. \A k \in a .. c[f].length : k \in 0 .. c[f].length
    BY <1>0
  <2>13. x.image # Face => Same(x, y, Face)
    BY <2>2, <2>3, <2>8 DEF Wrote, Frame, Written
  <2>14. \A g \in Names : g # f => Same(x, y, g)
    BY <2>2, <2>5, NamesApart DEF Frame, Files
  <2>15. Kept(y, c, fc)
    <3>1. ASSUME NEW g \in Names
          PROVE  \E k \in 0 .. c[g].length : SavedIn(y, g) = Slice(c, g, 0, k)
      <4>1. CASE g = f
        BY <2>10, <2>12, <4>1
      <4>2. CASE g # f
        BY <1>0, <2>14, <4>2 DEF Kept, Same
      <4> QED
        BY <4>1, <4>2
    <3>2. \E k \in 0 .. c[Image].length : SavedIn(y, Face) = Slice(c, Image, fc.offset, k)
      <4>1. CASE x.image = Face
        BY <2>6, <2>9, <2>11, <2>12, <4>1
      <4>2. CASE x.image # Face
        BY <1>0, <2>13, <4>2 DEF Kept, Same
      <4> QED
        BY <4>1, <4>2
    <3> QED
      BY <3>1, <3>2 DEF Kept
  <2>16. ASSUME ~y.failed PROVE Standing(y, c, f, b, fc) /\ TailOfImage(y, c, fc)
    <3>1. y.offset = b /\ SavedIn(y, f) = Slice(c, f, 0, b) /\ y.file = f /\ MadeIn(y, f)
      BY <1>1, <2>2, <2>3, <2>10, <2>16 DEF Wrote
    <3>2. /\ y.image = x.image /\ y.imageOffset = x.imageOffset
          /\ x.image = Face => MadeIn(y, Face)
      BY <2>3 DEF Wrote
    <3>3. f = Image /\ y.image # Face => ~MadeIn(y, Face)
      BY <2>2, <2>13, <3>2 DEF Same
    <3>4. Standing(y, c, f, b, fc)
      BY <2>2, <3>1, <3>2, <3>3 DEF Standing
    <3>5. ASSUME MadeIn(y, Face)
          PROVE  fc.has /\ SavedIn(y, Face) = Slice(c, Image, fc.offset, Len(SavedIn(y, Image)))
      <4>1. CASE f = Image
        <5>1. x.image = Face
          BY <3>2, <3>3, <3>5, <4>1
        <5>2. fc.has
          BY <2>1, <2>2, <5>1 DEF TailOfImage
        <5>3. Len(Slice(c, f, 0, b)) = b
          <6>1. PICK z \in Nat, s \in Seq(Byte) : z = 0 /\ s = Slice(c, f, z, b)
            BY SliceType
          <6>2. Len(s) = b - z
            BY <6>1, SliceLength
          <6> QED
            BY <6>1, <6>2
        <5>4. SavedIn(y, Face) = Slice(c, f, o, b)
          BY <2>11, <2>16, <5>1
        <5> QED
          BY <2>6, <3>1, <4>1, <5>2, <5>3, <5>4
      <4>2. CASE f # Image
        <5>1. Same(x, y, Face) /\ Same(x, y, Image)
          BY <2>2, <2>13, <2>14, <4>2, NamesApart
        <5> QED
          BY <2>1, <3>5, <5>1 DEF TailOfImage, Same
      <4> QED
        BY <4>1, <4>2
    <3> QED
      BY <3>4, <3>5 DEF TailOfImage
  <2>17. Ready(y, c, f, b, fc)
    BY <2>5, <2>15, <2>16 DEF Ready, Frame
  <2> QED
    BY <1>3, <2>5, <2>17 DEF Carried
<1> QED
  BY <1>2, <1>3
LEMMA NothingSliced ==
    ASSUME NEW c \in [Names -> ChipFiles], NEW f \in Names, NEW o \in Nat, NEW z, z = 0
    PROVE  Slice(c, f, o, z) = <<>> /\ z \in 0 .. c[f].length
<1>1. c[f].length \in Nat /\ z \in Nat /\ z <= o /\ z <= c[f].length
  BY ContentType
<1> QED
  BY <1>1, SliceType

LEMMA ExportWriteCarries ==
    ASSUME NEW c \in [Names -> ChipFiles], NEW f \in Names, NEW a \in Nat, NEW b \in Nat,
           a <= b, b <= c[f].length, NEW fc, fc.offset \in Nat,
           NEW x, Ready(x, c, f, a, fc), x.by # 0 => x.open, x.open => x.by # 0,
           NEW data, data = Slice(c, f, a, b), NEW y \in ExportWrite(x, data)
    PROVE  Carried(x, y, c, f, b, fc)
<1>1. CASE x.open
  <2>1. y \in Write(x, data)
    BY <1>1 DEF ExportWrite
  <2> QED
    BY <1>1, <2>1, WriteCarries
<1>2. CASE ~x.open
  <2>1. y = x /\ x.by = 0
    BY <1>2 DEF ExportWrite
  <2>2. Ready(x, c, f, b, fc)
    BY <2>1 DEF Ready
  <2> QED
    BY <2>1, <2>2, CarriedNowhere
<1> QED
  BY <1>1, <1>2

LEMMA ArmCarries ==
    ASSUME NEW c \in [Names -> ChipFiles], NEW fd, NEW fc, fc.has, fc.offset \in Nat,
           NEW x, NEW z, z = 0, Ready(x, c, Image, z, fd), ~MadeIn(x, Face),
           x.by # 0 => x.open, x.open => x.by # 0, NEW y \in ExportArm(x, fc.offset)
    PROVE  Carried(x, y, c, Image, z, fc)
<1>0. x \in ExportType /\ Image \in Names /\ Face \in AllNames /\ Image \in AllNames
      /\ Image # Face /\ Face # NoName
  BY NamesApart DEF Ready, Face, NoName
<1>1. PICK o \in Nat : o = fc.offset
  OBVIOUS
<1>2. Slice(c, Image, o, z) = <<>> /\ z \in 0 .. c[Image].length
  BY <1>0, NothingSliced
<1>3. SavedIn(x, Face) = <<>>
  BY DEF SavedIn
<1>4. Kept(x, c, fc)
  BY <1>1, <1>2, <1>3 DEF Ready, Kept
<1>5. /\ x.by # 0 /\ ~x.failed => Standing(x, c, Image, z, fc) /\ x.image # Face
      /\ TailOfImage(x, c, fc)
  BY DEF Ready, Standing, TailOfImage
<1>6. CASE y = x
  <2>1. Ready(x, c, Image, z, fc)
    BY <1>0, <1>4, <1>5 DEF Ready
  <2> QED
    BY <1>6, <2>1, CarriedNowhere
<1>7. CASE y # x
  <2>1. PICK w : w = [x EXCEPT !.armed = TRUE, !.imageOffset = o]
    OBVIOUS
  <2>2. ~x.failed /\ x.by # 0 /\ (y = w \/ y = [Created(w, Face) EXCEPT !.image = Face])
    BY <1>1, <1>7, <2>1 DEF ExportArm, ArmImage
  <2>3. /\ w \in ExportType /\ w.open = x.open /\ w.by = x.by /\ w.dir = x.dir
        /\ w.disk = x.disk /\ w.failed = x.failed /\ w.file = x.file /\ w.image = x.image
        /\ w.offset = x.offset /\ w.imageOffset = o
    BY <1>0, <2>1 DEF ExportType
  <2>4. Frame(x, w, {}) /\ \A n : Same(x, w, n)
    BY <1>0, <2>3, SameDisk
  <2>5. Standing(x, c, Image, z, fc) /\ x.image # Face
    BY <1>5, <2>2
  <2>6. CASE y = w
    <3>1. Frame(x, y, Files(Image))
      BY <2>4, <2>6, FrameWider
    <3>2. Kept(y, c, fc)
      BY <1>4, <2>4, <2>6, KeptSame
    <3>3. Standing(y, c, Image, z, fc)
      BY <2>3, <2>4, <2>5, <2>6 DEF Standing, Same
    <3>4. TailOfImage(y, c, fc)
      BY <2>4, <2>6 DEF TailOfImage, Same
    <3> QED
      BY <2>2, <2>3, <2>6, <3>1, <3>2, <3>3, <3>4 DEF Carried, Ready
  <2>7. CASE y = [Created(w, Face) EXCEPT !.image = Face]
    <3>1. PICK n, v : n = Face /\ v = Created(w, n)
      OBVIOUS
    <3>2. /\ Frame(w, v, {n}) /\ SameOpen(w, v) /\ v.failed = w.failed
          /\ MadeIn(v, n) /\ SavedIn(v, n) = <<>>
      <4>1. n \in AllNames /\ w.by # 0
        BY <1>0, <2>2, <2>3, <3>1
      <4> QED
        BY <2>3, <3>1, <4>1, CreatedEffect
    <3>3. y = [v EXCEPT !.image = Face] /\ v \in ExportType
      BY <2>7, <3>1, <3>2 DEF Frame
    <3>4. /\ y \in ExportType /\ y.open = v.open /\ y.by = v.by /\ y.dir = v.dir
          /\ y.disk = v.disk /\ y.failed = v.failed /\ y.file = v.file /\ y.image = Face
          /\ y.offset = v.offset /\ y.imageOffset = v.imageOffset
      BY <3>3 DEF ExportType
    <3>5. Frame(v, y, {}) /\ \A k : Same(v, y, k)
      BY <3>3, <3>4, SameDisk
    <3>6. Frame(x, y, {n})
      <4>1. Frame(x, v, {n})
        BY <2>4, <3>2, FrameTransitive
      <4> QED
        BY <3>5, <4>1, FrameTransitive
    <3>7. Frame(x, y, Files(Image))
      BY <3>1, <3>6, FrameWider DEF Files
    <3>8. \A g \in Names : Same(x, y, g)
      BY <3>1, <3>6, NamesApart DEF Frame
    <3>9. MadeIn(y, Face) /\ SavedIn(y, Face) = <<>>
      BY <3>1, <3>2, <3>5 DEF Same
    <3>10. Kept(y, c, fc)
      <4>1. ASSUME NEW g \in Names
            PROVE  \E k \in 0 .. c[g].length : SavedIn(y, g) = Slice(c, g, 0, k)
        BY <1>4, <3>8 DEF Kept, Same
      <4>2. \E k \in 0 .. c[Image].length : SavedIn(y, Face) = Slice(c, Image, fc.offset, k)
        BY <1>1, <1>2, <3>9
      <4> QED
        BY <4>1, <4>2 DEF Kept
    <3>11. Standing(y, c, Image, z, fc)
      <4>1. y.file = x.file /\ y.offset = x.offset /\ y.imageOffset = o
        BY <2>3, <3>2, <3>4 DEF SameOpen
      <4>2. Same(x, y, Image)
        BY <1>0, <3>8
      <4> QED
        BY <1>1, <2>5, <3>4, <3>9, <4>1, <4>2 DEF Standing, Same
    <3>12. TailOfImage(y, c, fc)
      <4>1. SavedIn(y, Image) = Slice(c, Image, 0, z)
        BY <3>11 DEF Standing
      <4>2. SavedIn(y, Image) = <<>> /\ Len(<<>>) = z
        <5>1. PICK zero \in Nat : zero = 0
          OBVIOUS
        <5>2. Slice(c, Image, zero, z) = <<>>
          BY <1>0, NothingSliced
        <5>3. Len(<<>>) = 0
          BY EmptySeq
        <5> QED
          BY <4>1, <5>1, <5>2, <5>3
      <4> QED
        BY <1>1, <1>2, <3>9, <4>2 DEF TailOfImage
    <3> QED
      BY <2>2, <3>4, <3>7, <3>10, <3>11, <3>12 DEF Carried, Ready
  <2> QED
    BY <2>2, <2>6, <2>7
<1> QED
  BY <1>6, <1>7

LEMMA EndEffect ==
    ASSUME NEW x \in ExportType, NEW y, y = EndFile(x)
    PROVE  /\ y \in ExportType /\ y.failed = x.failed /\ y.file = NoName /\ y.image = NoName
           /\ y.offset = 0 /\ y.open = x.open /\ y.by = x.by /\ y.dir = x.dir
           /\ y.disk = x.disk
<1> QED
  BY DEF EndFile, ExportType, NoName

LEMMA BeginCarries ==
    ASSUME NEW c \in [Names -> ChipFiles], NEW f \in Names, NEW fc,
           NEW x \in ExportType, Kept(x, c, fc),
           x.by # 0 /\ ~x.failed => TailOfImage(x, c, fc),
           f = Image => ~MadeIn(x, Face),
           x.by # 0 => x.open, x.open => x.by # 0,
           NEW y \in ExportBegin(x, f), NEW z, z = 0
    PROVE  Carried(x, y, c, f, z, fc) /\ Same(x, y, Face)
<1>0. /\ Face \in AllNames /\ f \in AllNames /\ f # Face /\ Face # NoName /\ Image \in Names
      /\ Image # Face
  BY NamesApart DEF Face, NoName
<1>1. CASE ~x.open
  <2>1. y = x /\ x.by = 0
    BY <1>1 DEF ExportBegin
  <2>2. Ready(x, c, f, z, fc)
    BY <2>1 DEF Ready
  <2>3. Same(x, y, Face)
    BY <2>1 DEF Same
  <2> QED
    BY <2>1, <2>2, <2>3, CarriedNowhere
<1>2. CASE x.open
  <2>1. PICK w : w = EndFile(x)
    OBVIOUS
  <2>2. /\ w \in ExportType /\ w.failed = x.failed /\ w.file = NoName /\ w.image = NoName
        /\ w.offset = 0 /\ w.open = x.open /\ w.by = x.by /\ w.dir = x.dir
        /\ w.disk = x.disk
    BY <2>1, EndEffect
  <2>3. Frame(x, w, {}) /\ \A n : Same(x, w, n)
    BY <2>2, SameDisk
  <2>4. \/ w.failed /\ y = w
        \/ ~w.failed /\ y = [Created(w, f) EXCEPT !.file = f]
        \/ ~w.failed /\ y = Failed(w)
    BY <1>2, <2>1 DEF ExportBegin, BeginFile
  <2>5. CASE w.failed /\ y = w
    BY <2>2, <2>3, <2>5, FailedIsReady
  <2>6. CASE ~w.failed /\ y = Failed(w)
    <3>1. /\ y \in ExportType /\ y.open = w.open /\ y.by = w.by /\ y.dir = w.dir
          /\ y.disk = w.disk /\ y.failed
      BY <2>2, <2>6 DEF Failed, ExportType
    <3>2. \A n : Same(x, y, n)
      BY <2>2, <3>1 DEF Same, MadeIn, SavedIn
    <3> QED
      BY <2>2, <3>1, <3>2, FailedIsReady
  <2>7. CASE ~w.failed /\ y = [Created(w, f) EXCEPT !.file = f]
    <3>1. PICK v : v = Created(w, f)
      OBVIOUS
    <3>2. /\ Frame(w, v, {f}) /\ SameOpen(w, v) /\ v.failed = w.failed
          /\ MadeIn(v, f) /\ SavedIn(v, f) = <<>>
      BY <1>0, <1>2, <2>2, <3>1, CreatedEffect
    <3>3. y = [v EXCEPT !.file = f] /\ v \in ExportType
      BY <2>7, <3>1, <3>2 DEF Frame
    <3>4. /\ y \in ExportType /\ y.open = v.open /\ y.by = v.by /\ y.dir = v.dir
          /\ y.disk = v.disk /\ y.failed = v.failed /\ y.file = f /\ y.image = v.image
          /\ y.offset = v.offset
      BY <3>3 DEF ExportType
    <3>5. Frame(v, y, {}) /\ \A k : Same(v, y, k)
      BY <3>3, <3>4, SameDisk
    <3>6. Frame(x, y, {f})
      <4>1. Frame(x, v, {f})
        BY <2>3, <3>2, FrameTransitive
      <4> QED
        BY <3>5, <4>1, FrameTransitive
    <3>7. Frame(x, y, Files(f))
      BY <3>6, FrameWider DEF Files
    <3>8. Same(x, y, Face) /\ \A g \in Names : g # f => Same(x, y, g)
      BY <1>0, <3>6, NamesApart DEF Frame
    <3>9. MadeIn(y, f) /\ SavedIn(y, f) = <<>>
      BY <3>2, <3>5 DEF Same
    <3>10. PICK zero \in Nat : zero = 0
      OBVIOUS
    <3>11. Slice(c, f, zero, z) = <<>> /\ z \in 0 .. c[f].length
      BY NothingSliced
    <3>12. Kept(y, c, fc)
      <4>1. ASSUME NEW g \in Names
            PROVE  \E k \in 0 .. c[g].length : SavedIn(y, g) = Slice(c, g, 0, k)
        <5>1. CASE g = f
          BY <3>9, <3>10, <3>11, <5>1
        <5>2. CASE g # f
          BY <3>8, <5>2 DEF Kept, Same
        <5> QED
          BY <5>1, <5>2
      <4>2. \E k \in 0 .. c[Image].length : SavedIn(y, Face) = Slice(c, Image, fc.offset, k)
        BY <3>8 DEF Kept, Same
      <4> QED
        BY <4>1, <4>2 DEF Kept
    <3>13. Standing(y, c, f, z, fc)
      <4>1. y.offset = z /\ y.image # Face
        BY <1>0, <2>2, <3>2, <3>4 DEF SameOpen
      <4>2. f = Image => ~MadeIn(y, Face)
        BY <3>8 DEF Same
      <4> QED
        BY <3>4, <3>9, <3>10, <3>11, <4>1, <4>2 DEF Standing
    <3>14. TailOfImage(y, c, fc)
      <4>1. CASE f = Image
        BY <3>8, <4>1 DEF TailOfImage, Same
      <4>2. CASE f # Image
        <5>1. Same(x, y, Image) /\ TailOfImage(x, c, fc)
          BY <1>0, <1>2, <2>2, <2>7, <3>8, <4>2
        <5> QED
          BY <3>8, <5>1 DEF TailOfImage, Same
      <4> QED
        BY <4>1, <4>2
    <3> QED
      BY <2>2, <2>7, <3>4, <3>7, <3>8, <3>12, <3>13, <3>14 DEF Carried, Ready
  <2> QED
    BY <2>4, <2>5, <2>6, <2>7
<1> QED
  BY <1>1, <1>2
LEMMA HeldCarries ==
    ASSUME NEW c \in [Names -> ChipFiles], NEW f \in Names,
           NEW z \in Nat, NEW m \in Nat, NEW b \in Nat, z <= m, m <= b, b <= c[f].length,
           NEW fc, fc.offset \in Nat,
           NEW x, Ready(x, c, f, z, fc), x.by # 0 => x.open, x.open => x.by # 0,
           NEW seen, seen = Slice(c, f, z, m), NEW rest, rest = Slice(c, f, m, b),
           NEW y \in WriteHeld(x, seen, rest)
    PROVE  Carried(x, y, c, f, b, fc)
<1>0. c[f].length \in Nat /\ m <= c[f].length
  BY ContentType
<1>1. PICK w \in ExportWrite(x, seen) : y \in ExportWrite(w, rest)
  BY DEF WriteHeld
<1>2. Carried(x, w, c, f, m, fc)
  BY <1>0, ExportWriteCarries
<1>3. Ready(w, c, f, m, fc) /\ (w.by # 0 => w.open) /\ (w.open => w.by # 0)
  BY <1>2 DEF Carried, Frame
<1>4. Carried(w, y, c, f, b, fc)
  BY <1>1, <1>3, ExportWriteCarries
<1> QED
  BY <1>2, <1>4, CarriedTwice

\* A new read has made nothing yet, whatever is on the card.
LEMMA FreshEffect ==
    ASSUME NEW x \in ExportType, NEW s \in Nat, s # 0, NEW m \in Minutes,
           \A k \in Minutes, n \in AllNames : x.disk[k][n].by # s,
           NEW y \in {Free(x)} \cup Alloc(x, s, m)
    PROVE  /\ y \in ExportType /\ y.disk = x.disk /\ y.by \in {0, s}
           /\ y.open => y.by # 0
           /\ y.by # 0 => y.open
           /\ \A n \in AllNames : ~MadeIn(y, n)
<1>0. PICK d \in Minutes : d = CHOOSE k \in Minutes : TRUE
  BY StreamAssumption
<1>1. x.disk \in [Minutes -> [AllNames -> OnCard]] /\ s \in Nat /\ s # 0
  BY ExportFields
<1>2. PICK w : w = NoExport(x.disk)
  OBVIOUS
<1>3. w = [open |-> FALSE, failed |-> FALSE, by |-> 0, dir |-> d,
           file |-> NoName, image |-> NoName, armed |-> FALSE, imageOffset |-> 0,
           offset |-> 0, disk |-> x.disk]
  BY <1>0, <1>2 DEF NoExport
<1>4. w \in ExportType
  BY <1>1, <1>3 DEF ExportType, OnCard, Byte
<1>5. CASE y = w
  <2>1. y.by = 0 /\ y.disk = x.disk /\ ~y.open
    BY <1>3, <1>5
  <2> QED
    BY <1>4, <1>5, <2>1 DEF MadeIn
<1>6. ASSUME NEW v, v = [w EXCEPT !.open = TRUE, !.by = s, !.dir = m], y = v \/ y = Failed(v)
      PROVE  /\ y \in ExportType /\ y.disk = x.disk /\ y.by = s /\ y.dir = m /\ y.open
  <2>1. v \in ExportType /\ v.disk = x.disk /\ v.by = s /\ v.open /\ v.dir = m
    BY <1>1, <1>3, <1>4, <1>6 DEF ExportType
  <2> QED
    BY ZenonT(60), <1>6, <2>1 DEF Failed, ExportType
<1>7. CASE y # w
  <2>1. PICK v : v = [w EXCEPT !.open = TRUE, !.by = s, !.dir = m]
    OBVIOUS
  <2>2. y = v \/ y = Failed(v)
    BY <1>2, <1>7, <2>1 DEF Free, Alloc
  <2>3. /\ y \in ExportType /\ y.disk = x.disk /\ y.by = s /\ y.dir = m /\ y.open
    BY <1>6, <2>1, <2>2
  <2>4. ASSUME NEW n \in AllNames PROVE ~MadeIn(y, n)
    <3>1. x.disk[m][n].by # s
      OBVIOUS
    <3> QED
      BY <2>3, <3>1 DEF MadeIn
  <2> QED
    BY <1>1, <2>3, <2>4
<1> QED
  BY <1>5, <1>7

LEMMA TextType == Text \in Seq(Byte) /\ <<>> \in Seq(Byte)
<1>1. <<"line", 1>> \in Byte
  BY DEF Byte
<1> QED
  BY <1>1, EmptySeq DEF Text

LEMMA TextEffect ==
    ASSUME NEW x \in ExportType, x.by # 0, NEW n \in AllNames, NEW y \in WriteText(x, n)
    PROVE  /\ Frame(x, y, {n}) /\ (x.failed => y.failed)
           /\ ~y.failed => SavedIn(y, n) = Text
<1>1. CASE x.failed
  <2>1. y = x
    BY <1>1 DEF WriteText
  <2>2. Frame(x, y, {})
    BY <2>1, SameDisk
  <2>3. Frame(x, y, {n})
    BY <2>2, FrameWider
  <2> QED
    BY <1>1, <2>1, <2>3
<1>2. CASE ~x.failed
  <2>1. PICK v : v = Created(x, n)
    OBVIOUS
  <2>2. /\ Frame(x, v, {n}) /\ MadeIn(v, n) /\ SavedIn(v, n) = <<>> /\ v \in ExportType
    BY <2>1, CreatedEffect DEF Frame
  <2>3. y = Failed(x) \/ y = Failed(v) \/ y = Appended(v, n, Text)
    BY <1>2, <2>1 DEF WriteText
  <2>4. CASE y = Failed(x)
    <3>1. Frame(x, y, {}) /\ y.failed
      BY <2>4, FailedEffect
    <3>2. Frame(x, y, {n})
      BY <3>1, FrameWider
    <3> QED
      BY <3>1, <3>2
  <2>5. CASE y = Failed(v)
    <3>1. Frame(v, y, {}) /\ y.failed
      BY <2>2, <2>5, FailedEffect
    <3>2. Frame(x, y, {n})
      BY <2>2, <3>1, FrameTransitive
    <3> QED
      BY <3>1, <3>2
  <2>6. CASE y = Appended(v, n, Text)
    <3>1. PICK t \in Seq(Byte) : t = Text
      BY TextType
    <3>2. y = Appended(v, n, t)
      BY <2>6, <3>1
    <3>3. Adds(v, y, n, t)
      BY <2>2, <3>2, AppendedAdds
    <3>4. Frame(x, y, {n})
      BY <2>2, <3>3, FrameTransitive DEF Adds
    <3>5. <<>> \o t = t
      BY ConcatEmptySeq
    <3>6. SavedIn(y, n) = t
      BY <2>2, <3>3, <3>5 DEF Adds
    <3> QED
      BY <1>2, <3>1, <3>4, <3>6
  <2> QED
    BY <2>3, <2>4, <2>5, <2>6
<1> QED
  BY <1>1, <1>2

-----------------------------------------------------------------------------
(***************************************************************************)
(* The invariant, action by action.                                        *)
(***************************************************************************)

LEMMA PlanFacts ==
    ASSUME NEW k \in 1 .. Len(Plan)
    PROVE  /\ Plan[k] \in Names
           /\ \A i \in 1 .. Len(Plan) : i # k => Plan[i] # Plan[k]
           /\ Len(Plan) \in Nat /\ k \in Nat /\ 1 <= k /\ k <= Len(Plan)
<1>1. Plan \in Seq(Names) /\ IsInjective(Plan)
  BY StreamAssumption
<1>2. Len(Plan) \in Nat /\ DOMAIN Plan = 1 .. Len(Plan) /\ Plan[k] \in Names
  BY <1>1, LenProperties, ElementOfSeq
<1>3. \A i \in 1 .. Len(Plan) : i # k => Plan[i] # Plan[k]
  BY <1>1, <1>2 DEF IsInjective
<1> QED
  BY <1>2, <1>3

LEMMA Facts ==
    ASSUME TypeOK
    PROVE  /\ doc.chip \in [Names -> ChipFiles] /\ File \in Names
           /\ offset \in Nat /\ ex \in ExportType /\ face.offset \in Nat
           /\ at \in 1 .. Len(Plan) /\ Image \in Names /\ LongMax \in Nat
           /\ Capacity \in [Names -> Nat] /\ LookAhead \in Nat \ {0}
           /\ doc.chip[File].length \in Nat
<1>1. doc.chip \in [Names -> ChipFiles]
  BY StreamAssumption DEF TypeOK
<1>2. File \in Names /\ at \in 1 .. Len(Plan)
  BY PlanFacts DEF TypeOK, File
<1>3. doc.chip[File].length \in Nat
  BY <1>1, <1>2 DEF ChipFiles
<1> QED
  BY <1>1, <1>2, <1>3, StreamAssumption DEF TypeOK

LEMMA NoBytes == <<>> \in Seq(Names \X Nat) /\ Len(<<>>) = 0 /\ 0 \in Nat
<1> QED
  BY EmptySeq

\* A read that has saved nothing.
LEMMA NothingSaved ==
    ASSUME NEW x, NEW c \in [Names -> ChipFiles], NEW fc, fc.offset \in Nat,
           \A n \in AllNames : ~MadeIn(x, n)
    PROVE  Kept(x, c, fc) /\ TailOfImage(x, c, fc)
<1>1. PICK z \in Nat : z = 0
  OBVIOUS
<1>2. \A n \in AllNames : SavedIn(x, n) = <<>>
  BY DEF SavedIn
<1>3. ASSUME NEW f \in Names PROVE \E k \in 0 .. c[f].length : SavedIn(x, f) = Slice(c, f, 0, k)
  <2>1. Slice(c, f, z, z) = <<>> /\ z \in 0 .. c[f].length
    BY <1>1, NothingSliced
  <2> QED
    BY <1>1, <1>2, <2>1, NamesApart
<1>4. \E k \in 0 .. c[Image].length : SavedIn(x, Face) = Slice(c, Image, fc.offset, k)
  <2>1. PICK o \in Nat : o = fc.offset
    OBVIOUS
  <2>2. Slice(c, Image, o, z) = <<>> /\ z \in 0 .. c[Image].length
    BY <1>1, NothingSliced, NamesApart
  <2> QED
    BY <1>1, <1>2, <2>1, <2>2, NamesApart
<1>5. TailOfImage(x, c, fc)
  BY NamesApart DEF TailOfImage
<1> QED
  BY <1>3, <1>4, <1>5 DEF Kept
LEMMA NothingMarked ==
    ASSUME \A f \in Names : entries[f].hash = "Unknown"
    PROVE  Cardinality(Marked({"Match"})) = 0 /\ Cardinality(Marked({"Match", "Mismatch"})) = 0
<1>1. Marked({"Match"}) = {} /\ Marked({"Match", "Mismatch"}) = {}
  BY DEF Marked
<1> QED
  BY <1>1, FS_EmptySet

LEMMA MarkedSame ==
    ASSUME \A f \in Names : entries'[f].hash = entries[f].hash
    PROVE  \A H : Marked(H)' = Marked(H)
<1> QED
  BY DEF Marked

\* Steps between two READ BINARY, and a user who leaves: nothing moves.
LEMMA QuietStep ==
    ASSUME IInv, UNCHANGED <<doc, minute, reads, exported, at, offset, total, sized, head,
                             looking, digest, parse, ex, entries, face, hasMrz, checked, matched>>,
           pc' \in {"idle", "select", "ask", "answer", "again", "finish", "export"},
           stop' \in BOOLEAN,
           error' \in {"None", "Cancelled", "CardLost", "Unsupported", "Parse", "Refused"},
           pc = pc' \/ (Streaming /\ Streaming'),
           Waiting' => offset <= LongMax /\ (sized => offset < total)
    PROVE  IInv'
<1>1. /\ Streaming => Streaming'
      /\ Streaming' => Streaming
      /\ pc = "select" => pc' = "select"
      /\ pc' = "select" => pc = "select"
      /\ pc = "idle" => pc' = "idle"
      /\ pc' = "idle" => pc = "idle"
  BY DEF Streaming
<1>2. File' = File
  BY DEF File
<1>3. TypeOK'
  BY DEF IInv, TypeOK, File
<1>4. CardInv'
  BY <1>1 DEF IInv, CardInv
<1>5. SinkInv'
  BY <1>1, <1>2 DEF IInv, SinkInv
<1>6. FileInv'
  <2>1. Exporting' => Exporting
    BY DEF Exporting
  <2>2. InPlan' => InPlan
    BY <1>1 DEF InPlan
  <2> QED
    BY <1>1, <1>2, <2>1, <2>2 DEF IInv, FileInv
<1>7. DoneInv'
  <2>1. Exporting' => Exporting
    BY DEF Exporting
  <2> QED
    BY <1>1, <1>2, <2>1 DEF IInv, DoneInv
<1>8. ResultInv'
  <2>1. \A H : Marked(H)' = Marked(H)
    BY MarkedSame
  <2>2. Exporting => Exporting'
    BY DEF Exporting
  <2> QED
    BY <1>1, <2>1, <2>2 DEF IInv, ResultInv
<1> QED
  BY <1>3, <1>4, <1>5, <1>6, <1>7, <1>8 DEF IInv

LEMMA InitIInv == Init => IInv
<1> SUFFICES ASSUME Init PROVE IInv
  OBVIOUS
<1>1. PICK c \in [Names -> ChipFiles] : c = doc.chip
  BY StreamAssumption DEF Init
<1>2. at \in 1 .. Len(Plan) /\ File \in Names
  <2>1. Plan \in Seq(Names) /\ Plan # <<>>
    BY StreamAssumption
  <2>2. 1 \in 1 .. Len(Plan)
    BY <2>1, EmptySeq, LenProperties
  <2>3. at = 1
    BY DEF Init
  <2> QED
    BY <2>2, <2>3, PlanFacts DEF File
<1>3. ex = NoExport(EmptyCard) /\ EmptyCard \in [Minutes -> [AllNames -> OnCard]]
  BY TextType DEF Init, EmptyCard, NotThere, OnCard
<1>4. PICK d \in Minutes : d = CHOOSE k \in Minutes : TRUE
  BY StreamAssumption
<1>5. ex = [open |-> FALSE, failed |-> FALSE, by |-> 0, dir |-> d,
            file |-> NoName, image |-> NoName, armed |-> FALSE, imageOffset |-> 0,
            offset |-> 0, disk |-> EmptyCard]
  BY <1>3, <1>4 DEF NoExport
<1>6. ex \in ExportType
  BY <1>3, <1>5 DEF ExportType, OnCard, Byte
<1>7. \A n \in AllNames : ~MadeIn(ex, n)
  BY <1>5 DEF MadeIn
<1>8. \A f \in Names : entries[f] = Pending
  BY DEF Init
<1>9. TypeOK
  <2>1. head \in Seq(Names \X Nat) /\ Len(head) <= LookAhead
    BY NoBytes, StreamAssumption DEF Init
  <2>2. digest \in [active: BOOLEAN, bytes: Seq(Names \X Nat)]
    BY NoBytes DEF Init, NoDigest
  <2>3. /\ parse \in [on: BOOLEAN, bytes: Seq(Names \X Nat), overflowed: BOOLEAN]
        /\ Len(parse.bytes) <= Capacity[File]
    <3>1. parse.bytes = <<>> /\ Capacity[File] \in Nat
      BY <1>2, StreamAssumption DEF Init, NoParse
    <3> QED
      BY <3>1, NoBytes DEF Init, NoParse
  <2>4. entries \in [Names -> EntryType]
    BY DEF Init, Pending, EntryType
  <2>5. minute \in Minutes /\ reads \in 0 .. MaxReads /\ doc \in Documents
    BY StreamAssumption DEF Init
  <2>6. {offset, total, checked, matched} \subseteq Nat
    BY DEF Init
  <2>7. {stop, sized, looking, hasMrz, exported} \subseteq BOOLEAN
    BY DEF Init
  <2>8. face \in [has: BOOLEAN, offset: Nat, size: Nat]
    BY DEF Init
  <2>9. /\ pc \in {"idle", "select", "ask", "answer", "again", "finish", "export"}
        /\ error \in {"None", "Cancelled", "CardLost", "Unsupported", "Parse", "Refused"}
    BY DEF Init
  <2> QED
    BY <1>2, <1>6, <2>1, <2>2, <2>3, <2>4, <2>5, <2>6, <2>7, <2>8, <2>9 DEF TypeOK
<1>10. CardInv
  <2>1. \A m \in Minutes, n \in AllNames : ex.disk[m][n].by <= 0
    BY <1>5 DEF EmptyCard, NotThere
  <2>2. reads = 0 /\ pc = "idle"
    BY DEF Init
  <2> QED
    BY <1>5, <2>1, <2>2 DEF CardInv
<1>11. SinkInv
  BY DEF SinkInv, Init, Streaming, Waiting
<1>12. FileInv
  BY DEF FileInv, Init, Streaming, InPlan
<1>13. DoneInv
  <2>1. face.offset \in Nat
    BY DEF Init
  <2>2. Kept(ex, c, face)
    BY <1>7, <2>1, NothingSaved
  <2>3. ~Exporting
    BY <1>5 DEF Exporting
  <2>4. \A f \in Names : /\ entries[f].size <= c[f].length
                         /\ entries[f].hash = "Match" => entries[f].size = c[f].length
    <3>1. ASSUME NEW f \in Names PROVE entries[f].size <= c[f].length
      BY <1>8, ContentType DEF Pending
    <3>2. ASSUME NEW f \in Names PROVE entries[f].hash = "Unknown"
      BY <1>8 DEF Pending
    <3> QED
      BY <3>1, <3>2
  <2> QED
    BY <1>1, <2>2, <2>3, <2>4 DEF DoneInv
<1>14. ResultInv
  BY <1>8, NothingMarked DEF ResultInv, Init, Pending
<1> QED
  BY <1>9, <1>10, <1>11, <1>12, <1>13, <1>14 DEF IInv

LEMMA StartStep == IInv /\ Start => IInv'
<1> SUFFICES ASSUME IInv, Start PROVE IInv'
  OBVIOUS
<1>0. /\ TypeOK /\ CardInv /\ SinkInv
      /\ doc' = doc /\ parse' = parse /\ pc = "idle" /\ pc' = "select" /\ at' = 1
      /\ reads' = reads + 1 /\ reads \in Nat /\ reads' \in 0 .. MaxReads /\ exported' = FALSE
  <2>1. TypeOK /\ CardInv /\ SinkInv /\ reads \in 0 .. MaxReads
    BY DEF IInv, TypeOK
  <2>2. /\ doc' = doc /\ parse' = parse /\ pc = "idle" /\ pc' = "select" /\ at' = 1
        /\ reads' = reads + 1 /\ reads < MaxReads /\ exported' = FALSE
    BY DEF Start, sinks
  <2>3. reads \in Nat /\ reads' \in 0 .. MaxReads
    BY <2>1, <2>2, StreamAssumption
  <2> QED
    BY <2>1, <2>2, <2>3
<1>1. PICK c \in [Names -> ChipFiles] : c = doc.chip
  BY <1>0, Facts
<1>2. PICK m \in Minutes : m = minute'
  BY DEF Start
<1>3. /\ ex' \in ExportType /\ ex'.disk = ex.disk /\ ex'.by \in {0, reads'}
      /\ ex'.open => ex'.by # 0
      /\ ex'.by # 0 => ex'.open
      /\ \A n \in AllNames : ~MadeIn(ex', n)
  <2>1. ex' \in {Free(ex)} \cup Alloc(ex, reads', m)
    BY <1>2 DEF Start
  <2>2. \A k \in Minutes, n \in AllNames : ex.disk[k][n].by <= reads
    BY <1>0 DEF CardInv
  <2>3. PICK s \in Nat, x \in ExportType : s = reads' /\ x = ex /\ s # 0
    BY <1>0, Facts
  <2>7. ASSUME NEW k \in Minutes, NEW n \in AllNames
        PROVE  x.disk[k][n].by # s
    <3>1. ex.disk[k][n] \in OnCard
      BY <2>3, ExportFields
    <3> QED
      BY <1>0, <2>2, <2>3, <3>1 DEF OnCard
  <2>6. PICK y : y = ex'
    OBVIOUS
  <2>4. y \in {Free(x)} \cup Alloc(x, s, m)
    BY <2>1, <2>3, <2>6
  <2>5. /\ y \in ExportType /\ y.disk = x.disk /\ y.by \in {0, s}
        /\ y.open => y.by # 0
        /\ y.by # 0 => y.open
        /\ \A n \in AllNames : ~MadeIn(y, n)
    BY <2>3, <2>4, <2>7, FreshEffect
  <2> QED
    BY <2>3, <2>5, <2>6
<1>4. \A f \in Names : entries'[f] = Pending
  BY DEF Start
<1>5. at' \in 1 .. Len(Plan) /\ File' \in Names
  <2>1. Plan \in Seq(Names) /\ Plan # <<>>
    BY StreamAssumption
  <2>2. 1 \in 1 .. Len(Plan)
    BY <2>1, EmptySeq, LenProperties
  <2> QED
    BY <1>0, <2>2, PlanFacts DEF File
<1>6. TypeOK'
  <2>1. /\ parse' \in [on: BOOLEAN, bytes: Seq(Names \X Nat), overflowed: BOOLEAN]
        /\ Len(parse'.bytes) <= Capacity[File']
    <3>1. parse = NoParse
      BY <1>0 DEF SinkInv, Streaming
    <3>2. parse'.bytes = <<>> /\ Capacity[File'] \in Nat
      BY <1>0, <1>5, <3>1, StreamAssumption DEF NoParse
    <3> QED
      BY <1>0, <3>1, <3>2, NoBytes DEF NoParse
  <2>2. entries' \in [Names -> EntryType]
    BY DEF Start, Pending, EntryType
  <2>3. /\ minute' \in Minutes /\ doc' \in Documents /\ stop' = FALSE /\ hasMrz' = FALSE
        /\ checked' = 0 /\ matched' = 0 /\ face' = [has |-> FALSE, offset |-> 0, size |-> 0]
        /\ UNCHANGED <<offset, total, sized, error, head, looking, digest>>
    BY <1>0 DEF Start, TypeOK, loop, sinks
  <2>4. face' \in [has: BOOLEAN, offset: Nat, size: Nat]
    BY <2>3
  <2>5. {offset', total', checked', matched'} \subseteq Nat
    BY <1>0, <2>3 DEF TypeOK
  <2>6. {stop', sized', looking', hasMrz', exported'} \subseteq BOOLEAN
    BY <1>0, <2>3 DEF TypeOK
  <2>7. /\ error' \in {"None", "Cancelled", "CardLost", "Unsupported", "Parse", "Refused"}
        /\ head' \in Seq(Names \X Nat) /\ Len(head') <= LookAhead
        /\ digest' \in [active: BOOLEAN, bytes: Seq(Names \X Nat)]
    BY <1>0, <2>3 DEF TypeOK
  <2> QED
    BY <1>0, <1>3, <1>5, <2>1, <2>2, <2>3, <2>4, <2>5, <2>6, <2>7 DEF TypeOK
<1>7. CardInv'
  <2>1. \A k \in Minutes, n \in AllNames : ex'.disk[k][n].by <= reads'
    <3>1. ASSUME NEW k \in Minutes, NEW n \in AllNames PROVE ex.disk[k][n].by <= reads + 1
      <4>1. ex.disk[k][n].by <= reads /\ ex.disk[k][n].by \in Nat
        BY <1>0, Facts, ExportFields DEF CardInv, OnCard
      <4> QED
        BY <1>0, <4>1
    <3> QED
      BY <1>0, <1>3, <3>1
  <2> QED
    BY <1>0, <1>3, <2>1 DEF CardInv
<1>8. SinkInv'
  BY <1>0 DEF SinkInv, Streaming, Waiting
<1>9. FileInv'
  <2>1. ~Streaming'
    BY <1>0 DEF Streaming
  <2>2. \A i \in 1 .. Len(Plan) : Plan[i] \in Names
    BY PlanFacts
  <2>3. Face \in AllNames
    BY NamesApart
  <2> QED
    BY <1>0, <1>3, <1>4, <2>1, <2>2, <2>3 DEF FileInv, Pending
<1>10. DoneInv'
  <2>1. face'.offset \in Nat
    BY DEF Start
  <2>2. Kept(ex', c, face') /\ TailOfImage(ex', c, face')
    BY <1>3, <2>1, NothingSaved
  <2>3. ASSUME NEW f \in Names
        PROVE  /\ entries'[f].size <= c[f].length
               /\ entries'[f].hash = "Match" => entries'[f].size = c[f].length
               /\ SavedIn(ex', f) = Slice(c, f, 0, entries'[f].size)
               /\ entries'[f].state = "Read" => MadeIn(ex', f)
    <3>1. PICK z \in Nat : z = 0
      OBVIOUS
    <3>2. Slice(c, f, z, z) = <<>> /\ z \in 0 .. c[f].length
      BY <3>1, NothingSliced
    <3>3. SavedIn(ex', f) = <<>>
      BY <1>3, NamesApart DEF SavedIn
    <3>4. entries'[f].size = z /\ entries'[f].hash = "Unknown" /\ entries'[f].state = "Pending"
      BY <1>4, <3>1 DEF Pending
    <3> QED
      BY <3>1, <3>2, <3>3, <3>4
  <2>4. doc'.chip = c
    BY <1>0, <1>1
  <2> QED
    BY <2>2, <2>3, <2>4 DEF DoneInv
<1>11. ResultInv'
  <2>1. \A f \in Names : entries'[f].hash = "Unknown"
    BY <1>4 DEF Pending
  <2>2. Cardinality(Marked({"Match"}))' = 0 /\ Cardinality(Marked({"Match", "Mismatch"}))' = 0
    <3>1. Marked({"Match"})' = {} /\ Marked({"Match", "Mismatch"})' = {}
      BY <2>1 DEF Marked
    <3> QED
      BY <3>1, FS_EmptySet
  <2> QED
    BY <1>0, <2>2 DEF ResultInv, Start
<1> QED
  BY <1>6, <1>7, <1>8, <1>9, <1>10, <1>11 DEF IInv
LEMMA NextFacts ==
    ASSUME TypeOK, NEW e, NextFile(e)
    PROVE  /\ pc' \in {"select", "export"} /\ at' \in 1 .. Len(Plan) /\ ~Streaming'
           /\ InPlan' => pc' = "select"
           /\ pc' = "select" => \A i \in at' .. Len(Plan) :
                 i \in at .. Len(Plan) /\ i # at /\ Plan[i] # File /\ Plan[i] \in Names
<1>1. /\ at \in 1 .. Len(Plan) /\ Len(Plan) \in Nat
  BY PlanFacts DEF TypeOK
<1>2. \/ pc' = "export" /\ at' = at
      \/ pc' = "select" /\ at' = at + 1 /\ at # Len(Plan)
  BY DEF NextFile
<1>3. ~Streaming' /\ (InPlan' => pc' = "select") /\ at' \in 1 .. Len(Plan)
  BY <1>1, <1>2 DEF Streaming, InPlan
<1>4. ASSUME pc' = "select", NEW i \in at' .. Len(Plan)
      PROVE  i \in at .. Len(Plan) /\ i # at /\ Plan[i] # File /\ Plan[i] \in Names
  <2>1. i \in at .. Len(Plan) /\ i # at /\ i \in 1 .. Len(Plan)
    BY <1>1, <1>2, <1>4
  <2> QED
    BY <1>1, <2>1, PlanFacts DEF File
<1> QED
  BY <1>2, <1>3, <1>4

LEMMA ByKept ==
    ASSUME TypeOK, CardInv, NEW y,
           \A m \in Minutes, n \in AllNames : y.disk[m][n].by \in {ex.disk[m][n].by, ex.by}
    PROVE  \A m \in Minutes, n \in AllNames : y.disk[m][n].by <= reads
<1>1. reads \in Nat /\ ex.by \in {0, reads}
  BY StreamAssumption DEF TypeOK, CardInv
<1>2. ASSUME NEW m \in Minutes, NEW n \in AllNames PROVE y.disk[m][n].by <= reads
  <2>1. ex.disk[m][n].by <= reads /\ ex.by <= reads
    BY <1>1 DEF CardInv
  <2>2. y.disk[m][n].by \in {ex.disk[m][n].by, ex.by}
    OBVIOUS
  <2> QED
    BY <2>1, <2>2
<1> QED
  BY <1>2

LEMMA SelectFileStep == IInv /\ SelectFile => IInv'
<1> SUFFICES ASSUME IInv, SelectFile PROVE IInv'
  OBVIOUS
<1>0. TypeOK /\ CardInv /\ SinkInv /\ FileInv /\ DoneInv /\ ResultInv
  BY DEF IInv
<1>1. /\ pc = "select" /\ pc' = "ask" /\ error' = "None"
      /\ offset' = 0 /\ total' = 0 /\ sized' = FALSE /\ head' = <<>>
      /\ looking' = (File = Image)
      /\ digest' = [active |-> doc.sod = "supported", bytes |-> <<>>]
      /\ entries' = [entries EXCEPT ![File].state = "Reading"]
      /\ UNCHANGED <<stop, doc, minute, reads, exported, at, face, hasMrz, checked, matched>>
  BY DEF SelectFile, still
<1>p. PICK b \in BOOLEAN : parse' = [on |-> b, bytes |-> <<>>, overflowed |-> FALSE]
  <2>1. PICK b \in {FALSE, Capacity[File] > 0} : parse' = [NoParse EXCEPT !.on = b]
    BY DEF SelectFile
  <2>2. b \in BOOLEAN
    <3>1. (Capacity[File] > 0) \in BOOLEAN
      OBVIOUS
    <3> QED
      BY <2>1, <3>1, Zenon
  <2>3. parse' = [on |-> b, bytes |-> <<>>, overflowed |-> FALSE]
    BY <2>1 DEF NoParse
  <2> QED
    BY <2>2, <2>3
<1>2. /\ ~Streaming /\ InPlan /\ Streaming' /\ ~Waiting' /\ File' = File
  BY <1>1 DEF Streaming, InPlan, Waiting, File
<1>3. PICK c \in [Names -> ChipFiles] : c = doc.chip /\ c = doc'.chip
  BY <1>0, <1>1, Facts
<1>4. PICK f \in Names : f = File
  BY <1>0, Facts
<1>5. PICK z \in Nat : z = 0
  OBVIOUS
<1>6. /\ entries[f].size = 0 /\ entries[f].hash = "Unknown" /\ entries[f].state # "Read"
      /\ f = Image => ~MadeIn(ex, Face)
  <2>1. at \in at .. Len(Plan) /\ Plan[at] = f
    BY <1>0, <1>4, Facts, PlanFacts DEF File
  <2> QED
    BY <1>0, <1>1, <1>2, <2>1 DEF FileInv
<1>7. PICK y : y = ex'
  OBVIOUS
<1>8. Carried(ex, y, c, f, z, face) /\ Same(ex, y, Face)
  <2>1. /\ ex \in ExportType /\ Kept(ex, c, face)
        /\ ex.by # 0 /\ ~ex.failed => TailOfImage(ex, c, face)
    BY <1>0, <1>3, Facts DEF DoneInv, Exporting
  <2>2. /\ ex.by # 0 => ex.open
        /\ ex.open => ex.by # 0
    BY <1>0, <1>1 DEF CardInv
  <2>3. y \in ExportBegin(ex, f)
    BY <1>4, <1>7 DEF SelectFile
  <2> QED
    BY <1>5, <1>6, <2>1, <2>2, <2>3, BeginCarries
<1>9. /\ y \in ExportType /\ y.open = ex.open /\ y.by = ex.by /\ (ex.failed => y.failed)
      /\ \A m \in Minutes, n \in AllNames : y.disk[m][n].by \in {ex.disk[m][n].by, ex.by}
      /\ \A g \in Names : g # f => Same(ex, y, g)
      /\ Ready(y, c, f, z, face)
  <2>1. Frame(ex, y, Files(f)) /\ (ex.failed => y.failed) /\ Ready(y, c, f, z, face)
    BY <1>8 DEF Carried
  <2>2. /\ y \in ExportType /\ y.open = ex.open /\ y.by = ex.by
        /\ \A m \in Minutes, n \in AllNames : y.disk[m][n].by \in {ex.disk[m][n].by, ex.by}
        /\ \A n \in AllNames \ Files(f) : Same(ex, y, n)
    BY <2>1 DEF Frame
  <2>3. ASSUME NEW g \in Names, g # f PROVE Same(ex, y, g)
    <3>1. g \in AllNames /\ g \notin Files(f)
      BY <2>3, NamesApart DEF Files
    <3> QED
      BY <2>2, <3>1
  <2> QED
    BY <2>1, <2>2, <2>3
<1>10. /\ Exporting' => y.by # 0 /\ ~y.failed /\ Exporting
       /\ y.by # 0 /\ ~y.failed => Standing(y, c, f, z, face) /\ TailOfImage(y, c, face)
       /\ Kept(y, c, face)
  BY <1>7, <1>9 DEF Exporting, Ready
<1>11. \A g \in Names : /\ entries'[g].size = entries[g].size
                        /\ entries'[g].hash = entries[g].hash
                        /\ entries'[g].error = entries[g].error
                        /\ g # f => entries'[g].state = entries[g].state
                        /\ g = f => entries'[g].state = "Reading"
  <2>1. entries \in [Names -> EntryType] /\ entries' = [entries EXCEPT ![f].state = "Reading"]
    BY <1>0, <1>1, <1>4 DEF TypeOK
  <2>2. ASSUME NEW g \in Names, g # f PROVE entries'[g] = entries[g]
    BY <2>1, <2>2
  <2>3. entries[f] \in EntryType /\ entries'[f] = [entries[f] EXCEPT !.state = "Reading"]
    BY <2>1
  <2>4. /\ entries'[f].size = entries[f].size /\ entries'[f].hash = entries[f].hash
        /\ entries'[f].error = entries[f].error /\ entries'[f].state = "Reading"
    BY <2>3 DEF EntryType
  <2> QED
    BY <2>2, <2>4
<1>12. TypeOK'
  <2>1. /\ parse' \in [on: BOOLEAN, bytes: Seq(Names \X Nat), overflowed: BOOLEAN]
        /\ Len(parse'.bytes) <= Capacity[File']
    <3>3. Capacity[File'] \in Nat
      BY <1>2, <1>4, StreamAssumption
    <3> QED
      BY <1>p, <3>3, NoBytes
  <2>2. entries' \in [Names -> EntryType]
    <3>1. entries \in [Names -> EntryType] /\ f \in Names
      BY <1>0 DEF TypeOK
    <3>2. entries' = [entries EXCEPT ![f] = [entries[f] EXCEPT !.state = "Reading"]]
      BY <1>1, <1>4
    <3>3. [entries[f] EXCEPT !.state = "Reading"] \in EntryType
      BY <3>1 DEF EntryType
    <3> QED
      BY <3>1, <3>2, <3>3
  <2>3. digest' \in [active: BOOLEAN, bytes: Seq(Names \X Nat)] /\ looking' \in BOOLEAN
    BY <1>1, NoBytes
  <2>4. head' \in Seq(Names \X Nat) /\ Len(head') <= LookAhead
    BY <1>1, NoBytes, StreamAssumption
  <2>5. /\ {offset', total', checked', matched'} \subseteq Nat
        /\ minute' \in Minutes /\ doc' \in Documents /\ reads' \in 0 .. MaxReads
        /\ face' \in [has: BOOLEAN, offset: Nat, size: Nat] /\ at' \in 1 .. Len(Plan)
    BY <1>0, <1>1 DEF TypeOK
  <2>6. {stop', sized', looking', hasMrz', exported'} \subseteq BOOLEAN
    BY <1>0, <1>1, <2>3 DEF TypeOK
  <2> QED
    BY <1>1, <1>7, <1>9, <2>1, <2>2, <2>3, <2>4, <2>5, <2>6 DEF TypeOK
<1>13. CardInv'
  <2>1. \A m \in Minutes, n \in AllNames : y.disk[m][n].by <= reads
    BY <1>0, <1>9, ByKept
  <2> QED
    BY <1>0, <1>1, <1>7, <1>9, <2>1 DEF CardInv
<1>14. SinkInv'
  <2>1. Slice(c, f, z, z) = <<>> /\ z \in 0 .. c[f].length
    BY <1>5, NothingSliced
  <2>2. 0 <= c[f].length
    BY ContentType
  <2>3. /\ offset' <= c[f].length
        /\ head' = Slice(c, f, 0, offset')
        /\ digest'.bytes = Slice(c, f, 0, offset')
        /\ parse'.bytes = Slice(c, f, 0, offset')
        /\ looking' => f = Image
    BY <1>1, <1>p, <1>4, <1>5, <2>1, <2>2
  <2>4. offset' = 0 /\ head' = <<>>
    BY <1>1
  <2> QED
    BY <1>2, <1>3, <1>4, <2>3, <2>4 DEF SinkInv
<1>15. FileInv'
  <2>1. Exporting' => Standing(ex', c, f, IF looking' THEN 0 ELSE offset', face')
    BY <1>1, <1>5, <1>7, <1>10
  <2>2. looking' => ~MadeIn(ex', Face)
    BY <1>1, <1>4, <1>6, <1>7, <1>8 DEF Same
  <2>3. ASSUME NEW i \in at .. Len(Plan)
        PROVE  /\ entries'[Plan[i]].size = 0 /\ entries'[Plan[i]].hash = "Unknown"
               /\ entries'[Plan[i]].state # "Read"
               /\ Plan[i] = Image /\ i # at => ~MadeIn(ex', Face)
    <3>1. Plan[i] \in Names
      <4>1. i \in 1 .. Len(Plan)
        BY <1>0, Facts, PlanFacts
      <4> QED
        BY <4>1, PlanFacts
    <3>2. /\ entries[Plan[i]].size = 0 /\ entries[Plan[i]].hash = "Unknown"
          /\ entries[Plan[i]].state # "Read"
          /\ Plan[i] = Image => ~MadeIn(ex, Face)
      BY <1>0, <1>1, <1>2 DEF FileInv
    <3> QED
      BY <1>7, <1>8, <1>11, <3>1, <3>2 DEF Same
  <2> QED
    BY <1>1, <1>2, <1>3, <1>4, <2>1, <2>2, <2>3 DEF FileInv
<1>16. DoneInv'
  <2>1. ASSUME NEW g \in Names
        PROVE  /\ entries'[g].size <= c[g].length
               /\ entries'[g].hash = "Match" => entries'[g].size = c[g].length
    BY <1>0, <1>3, <1>11 DEF DoneInv
  <2>2. ASSUME Exporting', NEW g \in Names, g # f
        PROVE  /\ SavedIn(y, g) = Slice(c, g, 0, entries'[g].size)
               /\ entries'[g].state = "Read" => MadeIn(y, g)
    <3>1. /\ SavedIn(ex, g) = Slice(c, g, 0, entries[g].size)
          /\ entries[g].state = "Read" => MadeIn(ex, g)
      BY <1>0, <1>2, <1>3, <1>10, <2>2 DEF DoneInv
    <3> QED
      BY <1>9, <1>11, <2>2, <3>1 DEF Same
  <2> QED
    BY <1>1, <1>2, <1>3, <1>4, <1>7, <1>10, <2>1, <2>2 DEF DoneInv
<1>17. ResultInv'
  <2>1. \A H : Marked(H)' = Marked(H)
    BY <1>11, MarkedSame
  <2> QED
    BY <1>0, <1>1, <2>1 DEF ResultInv
<1> QED
  BY <1>12, <1>13, <1>14, <1>15, <1>16, <1>17 DEF IInv
\* A file that cannot be selected, or was not asked for any more.
LEMMA SelectEndsStep ==
    ASSUME IInv, pc = "select", NEW state \in {"Absent", "Failed"},
           NEW e \in {"Cancelled", "FileNotFound", "Refused", "CardLost"}, SelectEnds(state, e)
    PROVE  IInv'
<1>0. TypeOK /\ CardInv /\ SinkInv /\ FileInv /\ DoneInv /\ ResultInv
  BY DEF IInv
<1>1. /\ entries' = [entries EXCEPT ![File] = [Pending EXCEPT !.state = state, !.error = e]]
      /\ NextFile(e)
      /\ UNCHANGED <<stop, doc, minute, reads, exported, offset, total, sized, error,
                     head, looking, digest, parse, ex, face, hasMrz, checked, matched>>
  BY DEF SelectEnds, still, loop, sinks
<1>2. /\ pc' \in {"select", "export"} /\ at' \in 1 .. Len(Plan) /\ ~Streaming'
      /\ InPlan' => pc' = "select"
      /\ pc' = "select" => \A i \in at' .. Len(Plan) :
            i \in at .. Len(Plan) /\ i # at /\ Plan[i] # File /\ Plan[i] \in Names
  BY <1>0, <1>1, NextFacts
<1>3. ~Streaming /\ InPlan
  BY DEF Streaming, InPlan
<1>4. PICK c \in [Names -> ChipFiles] : c = doc.chip /\ c = doc'.chip
  BY <1>0, <1>1, Facts
<1>5. PICK f \in Names : f = File
  BY <1>0, Facts
<1>6. /\ entries[f].size = 0 /\ entries[f].hash = "Unknown"
      /\ f = Image => ~MadeIn(ex, Face)
  <2>1. at \in at .. Len(Plan) /\ Plan[at] = f
    BY <1>0, <1>5, Facts, PlanFacts DEF File
  <2> QED
    BY <1>0, <1>3, <2>1 DEF FileInv
<1>e. PICK v : v = [Pending EXCEPT !.state = state, !.error = e]
  OBVIOUS
<1>f. entries' = [entries EXCEPT ![f] = v]
  BY <1>1, <1>5, <1>e
<1>g. v.size = 0 /\ v.hash = "Unknown" /\ v.state # "Read" /\ v \in EntryType
  BY <1>e DEF Pending, EntryType
<1>7. \A g \in Names : /\ entries'[g].size = entries[g].size
                       /\ entries'[g].hash = entries[g].hash
                       /\ g # f => entries'[g].state = entries[g].state
                       /\ g = f => entries'[g].state # "Read"
  <2>1. entries \in [Names -> EntryType]
    BY <1>0 DEF TypeOK
  <2> QED
    BY <1>6, <1>f, <1>g, <2>1
<1>8. TypeOK'
  <2>1. entries' \in [Names -> EntryType]
    BY <1>0, <1>f, <1>g DEF TypeOK
  <2>2. Len(parse'.bytes) <= Capacity[File']
    <3>1. parse' = NoParse
      BY <1>0, <1>1, <1>3 DEF SinkInv
    <3>2. File' \in Names /\ parse'.bytes = <<>>
      BY <1>2, <3>1, PlanFacts DEF File, NoParse
    <3>3. Capacity[File'] \in Nat
      BY <3>2, StreamAssumption
    <3> QED
      BY <3>2, <3>3, NoBytes
  <2>3. /\ pc' \in {"idle", "select", "ask", "answer", "again", "finish", "export"}
        /\ doc' \in Documents /\ minute' \in Minutes /\ reads' \in 0 .. MaxReads
        /\ {offset', total', checked', matched'} \subseteq Nat
        /\ {stop', sized', looking', hasMrz', exported'} \subseteq BOOLEAN
    BY <1>0, <1>1, <1>2 DEF TypeOK
  <2>4. /\ error' \in {"None", "Cancelled", "CardLost", "Unsupported", "Parse", "Refused"}
        /\ head' \in Seq(Names \X Nat) /\ Len(head') <= LookAhead
        /\ digest' \in [active: BOOLEAN, bytes: Seq(Names \X Nat)]
        /\ parse' \in [on: BOOLEAN, bytes: Seq(Names \X Nat), overflowed: BOOLEAN]
        /\ ex' \in ExportType
        /\ face' \in [has: BOOLEAN, offset: Nat, size: Nat]
    BY <1>0, <1>1 DEF TypeOK
  <2> QED
    BY <1>2, <2>1, <2>2, <2>3, <2>4 DEF TypeOK
<1>9. CardInv'
  BY <1>0, <1>1, <1>2 DEF CardInv
<1>10. SinkInv'
  BY <1>0, <1>1, <1>2, <1>3 DEF SinkInv
<1>11. FileInv'
  <2>1. ASSUME InPlan', NEW i \in at' .. Len(Plan)
        PROVE  /\ entries'[Plan[i]].size = 0 /\ entries'[Plan[i]].hash = "Unknown"
               /\ entries'[Plan[i]].state # "Read"
               /\ Plan[i] = Image => ~MadeIn(ex, Face)
    <3>1. i \in at .. Len(Plan) /\ Plan[i] # f /\ Plan[i] \in Names
      BY <1>2, <1>5, <2>1
    <3>2. /\ entries[Plan[i]].size = 0 /\ entries[Plan[i]].hash = "Unknown"
          /\ entries[Plan[i]].state # "Read"
          /\ Plan[i] = Image => ~MadeIn(ex, Face)
      BY <1>0, <1>3, <3>1 DEF FileInv
    <3> QED
      BY <1>7, <3>1, <3>2
  <2> QED
    BY <1>1, <1>2, <2>1 DEF FileInv
<1>12. DoneInv'
  <2>1. ASSUME NEW g \in Names
        PROVE  /\ entries'[g].size <= c[g].length
               /\ entries'[g].hash = "Match" => entries'[g].size = c[g].length
    BY <1>0, <1>4, <1>7 DEF DoneInv
  <2>2. ASSUME Exporting', NEW g \in Names
        PROVE  /\ SavedIn(ex, g) = Slice(c, g, 0, entries'[g].size)
               /\ entries'[g].state = "Read" => MadeIn(ex, g)
    <3>1. Exporting
      BY <1>1, <2>2 DEF Exporting
    <3>2. /\ SavedIn(ex, g) = Slice(c, g, 0, entries[g].size)
          /\ entries[g].state = "Read" => MadeIn(ex, g)
      BY <1>0, <1>3, <1>4, <3>1 DEF DoneInv
    <3> QED
      BY <1>7, <3>2
  <2>3. Exporting' => TailOfImage(ex, c, face)
    BY <1>0, <1>1, <1>4 DEF DoneInv, Exporting
  <2>4. Kept(ex, c, face)
    BY <1>0, <1>4 DEF DoneInv
  <2> QED
    BY <1>1, <1>4, <2>1, <2>2, <2>3, <2>4 DEF DoneInv
<1>13. ResultInv'
  <2>1. \A H : Marked(H)' = Marked(H)
    BY <1>7, MarkedSame
  <2> QED
    BY <1>0, <1>1, <2>1 DEF ResultInv
<1> QED
  BY <1>8, <1>9, <1>10, <1>11, <1>12, <1>13 DEF IInv
\* While a command is under way its form carries the whole offset.
LEMMA NamedIsOffset == TypeOK /\ SinkInv /\ Waiting => Named = offset
<1> SUFFICES ASSUME TypeOK, SinkInv, Waiting PROVE Named = offset
  OBVIOUS
<1>1. PICK o \in Nat : o = offset
  BY Facts
<1>2. PICK c \in Nat : c = IF Long THEN LongMax ELSE ShortMax
  BY StreamAssumption
<1>3. o <= c
  <2>1. offset <= LongMax
    BY DEF SinkInv, Waiting, Streaming
  <2>2. ~Long => offset <= ShortMax
    BY <1>1, StreamAssumption DEF Long
  <2> QED
    BY <1>1, <1>2, <2>1, <2>2
<1>4. PICK n \in Nat \ {0} : n = 1 + c
  OBVIOUS
<1>5. o % n = o
  BY <1>3, <1>4
<1> QED
  BY <1>1, <1>2, <1>4, <1>5 DEF Named

\* What an answer gives is the next bytes of the file, whatever its header says.
LEMMA AnswerIs ==
    ASSUME TypeOK, SinkInv, Waiting, NEW len \in AnswerLengths,
           NEW data, data = SubSeq(FromChip(len), 1, Cut(len))
    PROVE  /\ Total(len) \in Nat
           /\ \E b \in Nat : /\ offset <= b /\ b <= doc.chip[File].length
                             /\ data = Slice(doc.chip, File, offset, b)
<1>1. PICK c \in [Names -> ChipFiles] : c = doc.chip
  BY Facts
<1>2. PICK f \in Names : f = File
  BY Facts
<1>3. PICK o \in Nat : o = offset
  BY Facts
<1>4. /\ c[f].length \in Nat /\ o <= c[f].length /\ total \in Nat /\ sized \in BOOLEAN
      /\ ~sized => o = 0
      /\ sized => o < total
  <2>1. c[f].length \in Nat /\ total \in Nat /\ sized \in BOOLEAN
    BY <1>1, <1>2, ContentType DEF TypeOK
  <2>2. Streaming
    BY DEF Waiting, Streaming
  <2> QED
    BY <1>1, <1>2, <1>3, <2>1, <2>2 DEF SinkInv
<1>5. len \in Nat /\ 1 <= len /\ o + len <= c[f].length
  <2>1. Left = IF o < c[f].length THEN c[f].length - o ELSE 0
    BY <1>1, <1>2, <1>3, NamedIsOffset DEF Left
  <2>2. Chunk \in Nat
    BY StreamAssumption
  <2> QED
    BY <1>4, <2>1, <2>2 DEF AnswerLengths
<1>6. Total(len) \in Nat /\ o <= Total(len)
  <2>1. CASE sized
    BY <1>4, <2>1 DEF Total
  <2>2. CASE ~sized
    <3>1. FileMax \in Nat
      BY StreamAssumption
    <3>2. Total(len) = len \/ Total(len) \in 1 .. FileMax
      BY <2>2 DEF Total
    <3> QED
      BY <1>4, <1>5, <2>2, <3>1, <3>2
  <2> QED
    BY <2>1, <2>2
<1>7. PICK k \in Nat : k = Cut(len) /\ k <= len
  <2>1. Cut(len) = IF o + len > Total(len) THEN Total(len) - o ELSE len
    BY <1>3 DEF Cut
  <2>2. Cut(len) \in Nat /\ Cut(len) <= len
    BY <1>5, <1>6, <2>1
  <2> QED
    BY <2>2
<1>8. PICK d \in Nat : d = o + len
  BY <1>5
<1>9. FromChip(len) = Slice(c, f, o, d)
  BY <1>1, <1>2, <1>3, <1>8, NamedIsOffset DEF FromChip, Bytes, Slice, Content
<1>10. data = Part(Slice(c, f, o, d), 1, k)
  BY <1>7, <1>9 DEF Part
<1>11. o <= d /\ d <= c[f].length /\ k <= d - o
  BY <1>5, <1>7, <1>8
<1>12. Part(Slice(c, f, o, d), 1, k) = Slice(c, f, o, o + k)
  BY <1>11, SliceHead
<1>13. o + k \in Nat /\ o <= o + k /\ o + k <= c[f].length
  BY <1>4, <1>5, <1>7
<1> QED
  BY <1>1, <1>2, <1>3, <1>6, <1>10, <1>12, <1>13

\* A first answer that is the whole file, for want of a length, is not cut.
LEMMA AnswerWhole ==
    ASSUME TypeOK, SinkInv, Waiting, ~sized, NEW len \in AnswerLengths, Total(len) = len,
           NEW data, data = SubSeq(FromChip(len), 1, Cut(len))
    PROVE  Len(data) = len /\ offset = 0
<1>1. PICK c \in [Names -> ChipFiles], f \in Names : c = doc.chip /\ f = File
  BY Facts
<1>2. offset = 0 /\ Named = 0
  BY NamedIsOffset DEF SinkInv, Waiting, Streaming
<1>3. PICK k \in Nat : k = len
  BY StreamAssumption DEF AnswerLengths
<1>4. k <= c[f].length /\ c[f].length \in Nat
  <2>1. c[f].length \in Nat
    BY ContentType
  <2>2. Left = IF 0 < c[f].length THEN c[f].length - 0 ELSE 0
    BY <1>1, <1>2 DEF Left
  <2>3. Chunk \in Nat
    BY StreamAssumption
  <2> QED
    BY <1>3, <2>1, <2>2, <2>3 DEF AnswerLengths
<1>5. PICK z \in Nat : z = 0
  OBVIOUS
<1>6. Cut(len) = k
  BY <1>2, <1>3 DEF Cut
<1>7. FromChip(len) = Slice(c, f, z, k)
  BY <1>1, <1>2, <1>3, <1>5 DEF FromChip, Bytes, Slice, Content
<1>8. data = Part(Slice(c, f, z, k), 1, k)
  BY <1>6, <1>7 DEF Part
<1>9. Part(Slice(c, f, z, k), 1, k) = Slice(c, f, z, z + k)
  BY <1>4, <1>5, SliceHead
<1>10. data = Slice(c, f, 0, k)
  <2>1. z + k = k
    BY <1>5
  <2>2. data = Slice(c, f, z, k)
    BY <1>8, <1>9, <2>1
  <2> QED
    BY <1>5, <2>2
<1> QED
  BY <1>2, <1>3, <1>4, <1>10, HeadLength

LEMMA ImagesAreOffsets ==
    ASSUME NEW bytes, Len(bytes) \in Nat
    PROVE  ImagesIn(bytes) \subseteq Nat
<1>1. MagicLen \in Nat
  BY StreamAssumption
<1> QED
  BY <1>1 DEF ImagesIn

\* How an answer is shared between the look-ahead, of l bytes, and the card.
SharedAt(seen, rest, c, f, l, m, b) ==
    /\ seen = Slice(c, f, 0, m) /\ rest = Slice(c, f, m, b) /\ Len(seen) = m
    /\ m <= b /\ m <= l
    /\ m = b \/ m = l

LEMMA Shared ==
    ASSUME NEW c \in [Names -> ChipFiles], NEW f \in Names, NEW o \in Nat, NEW b \in Nat,
           NEW l \in Nat, o <= b, b <= c[f].length, o <= l,
           NEW h, h = Slice(c, f, 0, o), NEW data, data = Slice(c, f, o, b),
           NEW k, k = IF l - Len(h) < Len(data) THEN l - Len(h) ELSE Len(data),
           NEW seen, seen = Join(h, Part(data, 1, k)),
           NEW rest, rest = Part(data, k + 1, Len(data))
    PROVE  \E m \in Nat : o <= m /\ SharedAt(seen, rest, c, f, l, m, b)
<1>z. PICK z \in Nat : z = 0
  OBVIOUS
<1>1. z <= o /\ o <= c[f].length /\ c[f].length \in Nat
  BY <1>z, ContentType
<1>2. Len(h) = o /\ Len(data) = b - o /\ b - o \in Nat
  <2>1. Len(h) = o - z
    BY SMTT(30), <1>1, <1>z, SliceLength
  <2>2. Len(data) = b - o
    BY SliceLength
  <2> QED
    BY <1>z, <2>1, <2>2
<1>3. /\ k \in Nat /\ k <= b - o /\ o + k <= l
      /\ k = b - o \/ o + k = l
  BY <1>2
<1>4. PICK m \in Nat : m = o + k
  BY <1>3
<1>5. z <= m /\ o <= m /\ m <= b /\ m <= c[f].length /\ z <= o
  BY <1>1, <1>2, <1>3, <1>4, <1>z
<1>6. seen = Slice(c, f, z, m)
  <2>1. Part(Slice(c, f, o, b), 1, k) = Slice(c, f, o, o + k)
    BY <1>3, SliceHead
  <2>2. Join(Slice(c, f, z, o), Slice(c, f, o, m)) = Slice(c, f, z, m)
    BY <1>5, SliceConcat
  <2> QED
    BY <1>4, <1>z, <2>1, <2>2
<1>7. rest = Slice(c, f, m, b)
  <2>1. PICK i \in Nat \ {0} : i = k + 1
    BY <1>3
  <2>2. PICK n \in Nat : n = b - o
    BY <1>2
  <2>3. Part(Slice(c, f, o, b), i, n) = Slice(c, f, o + i - 1, o + n)
    <3>1. n <= b - o
      BY <2>2
    <3> QED
      BY SMTT(30), <3>1, SliceOfSlice
  <2>4. o + i - 1 = m /\ o + n = b
    BY <1>3, <1>4, <2>1, <2>2
  <2> QED
    BY <1>2, <2>1, <2>2, <2>3, <2>4
<1>8. Len(seen) = m
  <2>1. PICK s : s = Slice(c, f, 0, m)
    OBVIOUS
  <2>2. Len(s) = m
    BY <1>5, <2>1, HeadLength
  <2> QED
    BY <1>6, <1>z, <2>1, <2>2
<1>9. m <= b /\ m <= l /\ (m = b \/ m = l)
  BY <1>2, <1>3, <1>4
<1> QED
  BY <1>5, <1>6, <1>7, <1>8, <1>9, <1>z DEF SharedAt

LEMMA HoldBackEffect ==
    ASSUME TypeOK, CardInv, SinkInv, FileInv, DoneInv, Waiting, looking,
           NEW c \in [Names -> ChipFiles], c = doc.chip, NEW f \in Names, f = File,
           NEW b \in Nat, offset <= b, b <= c[f].length,
           NEW data, data = Slice(c, f, offset, b), HoldBack(data)
    PROVE  /\ face' \in [has: BOOLEAN, offset: Nat, size: Nat]
           /\ \/ ~looking' /\ head' = <<>> /\ Carried(ex, ex', c, f, b, face')
              \/ /\ looking' /\ head' = Slice(c, f, 0, b) /\ Len(head') <= LookAhead
                 /\ ex' = ex /\ face' = face
<1>0. PICK o \in Nat : o = offset
  BY Facts
<1>z. PICK z \in Nat : z = 0
  OBVIOUS
<1>1. /\ Streaming /\ f = Image /\ head = Slice(c, f, z, o) /\ ~MadeIn(ex, Face)
      /\ Len(head) <= LookAhead /\ LookAhead \in Nat
      /\ face \in [has: BOOLEAN, offset: Nat, size: Nat]
      /\ c[f].length \in Nat /\ o <= c[f].length
  <2>1. Streaming
    BY DEF Waiting, Streaming
  <2>2. f = Image /\ head = Slice(c, f, z, o) /\ ~MadeIn(ex, Face)
    BY <1>0, <1>z, <2>1 DEF SinkInv, FileInv
  <2>3. /\ Len(head) <= LookAhead /\ LookAhead \in Nat
        /\ face \in [has: BOOLEAN, offset: Nat, size: Nat]
    BY Facts DEF TypeOK
  <2>4. c[f].length \in Nat /\ o <= c[f].length
    BY <1>0, ContentType
  <2> QED
    BY <2>1, <2>2, <2>3, <2>4
<1>2. PICK h, k : h = head /\ k = Room(data)
  OBVIOUS
<1>3. PICK l \in Nat : l = LookAhead
  BY <1>1
<1> DEFINE seen_ == head \o SubSeq(data, 1, Room(data))
           rest_ == SubSeq(data, Room(data) + 1, Len(data))
           where_ == Min(ImagesIn(seen_))
           armed_ == IF ImagesIn(seen_) # {} THEN ExportArm(ex, where_) ELSE {ex}
<1>5. /\ face' = IF ImagesIn(seen_) # {} THEN [face EXCEPT !.has = TRUE, !.offset = where_]
                 ELSE face
      /\ IF ImagesIn(seen_) # {} \/ Len(seen_) = LookAhead \/ offset' >= total'
         THEN /\ looking' = FALSE /\ head' = <<>>
              /\ ex' \in UNION {WriteHeld(x, seen_, rest_) : x \in armed_}
         ELSE head' = seen_ /\ UNCHANGED <<looking, ex>>
  BY Zenon DEF HoldBack
<1>6. PICK seen : seen = seen_
  OBVIOUS
<1>7. PICK rest : rest = rest_
  OBVIOUS
<1>8. PICK m \in Nat : o <= m /\ SharedAt(seen, rest, c, f, l, m, b)
  <2>1. /\ seen = Join(h, Part(data, 1, k)) /\ rest = Part(data, k + 1, Len(data))
        /\ k = IF l - Len(h) < Len(data) THEN l - Len(h) ELSE Len(data)
    BY <1>2, <1>3, <1>6, <1>7 DEF Join, Part, Room
  <2>2. data = Slice(c, f, o, b) /\ h = Slice(c, f, 0, o)
    BY <1>0, <1>1, <1>2, <1>z
  <2>3. o <= l
    <3>1. Len(h) = o
      BY <1>1, <2>2, HeadLength
    <3> QED
      BY <1>1, <1>2, <1>3, <3>1
  <2>4. o <= b
    BY <1>0
  <2> QED
    BY <2>1, <2>2, <2>3, <2>4, Shared
<1>9. seen = Slice(c, f, z, m) /\ rest = Slice(c, f, m, b)
  BY <1>8, <1>z DEF SharedAt
<1>10. /\ Len(seen) = m /\ m <= LookAhead /\ (m = b \/ m = LookAhead)
       /\ z <= m /\ m <= b /\ z <= b
  BY <1>3, <1>8, <1>z DEF SharedAt
<1> HIDE DEF seen_, rest_, where_, armed_
<1>11. PICK where : where = where_ /\ where = Min(ImagesIn(seen))
  BY <1>6 DEF where_
<1>12. PICK armed : /\ armed = armed_
                    /\ armed = IF ImagesIn(seen) # {} THEN ExportArm(ex, where) ELSE {ex}
  BY <1>6, <1>11 DEF armed_
<1>13. /\ face' = IF ImagesIn(seen) # {} THEN [face EXCEPT !.has = TRUE, !.offset = where]
                  ELSE face
       /\ IF ImagesIn(seen) # {} \/ Len(seen) = LookAhead \/ offset' >= total'
          THEN looking' = FALSE /\ head' = <<>> /\ \E x \in armed : ex' \in WriteHeld(x, seen, rest)
          ELSE head' = seen /\ looking' = looking /\ ex' = ex
  BY <1>5, <1>6, <1>7, <1>11, <1>12
<1>14. ImagesIn(seen) # {} => where \in Nat
  <2>1. ImagesIn(seen) \subseteq Nat
    BY <1>10, ImagesAreOffsets
  <2> QED
    BY <1>11, <2>1, MinIsThere
<1>15. /\ face' \in [has: BOOLEAN, offset: Nat, size: Nat]
       /\ ImagesIn(seen) # {} => face'.has /\ face'.offset = where
  BY <1>1, <1>13, <1>14
<1>16. Ready(ex, c, f, z, face) /\ (ex.by # 0 => ex.open) /\ (ex.open => ex.by # 0)
  <2>1. /\ ex.by # 0 => ex.open
        /\ ex.open => ex.by # 0
    BY <1>1 DEF CardInv, Streaming
  <2>2. ex.by # 0 /\ ~ex.failed => Standing(ex, c, f, z, face) /\ TailOfImage(ex, c, face)
    BY <1>1, <1>z DEF FileInv, DoneInv, Exporting
  <2>3. ex \in ExportType /\ Kept(ex, c, face)
    BY DEF TypeOK, DoneInv
  <2> QED
    BY <2>1, <2>2, <2>3 DEF Ready
<1>17. PICK fc : fc = face'
  OBVIOUS
<1>18. fc.offset \in Nat
  BY <1>15, <1>17
<1>19. ASSUME NEW x \in armed PROVE Carried(ex, x, c, f, z, fc)
  <2>1. CASE ImagesIn(seen) # {}
    <3>1. x \in ExportArm(ex, fc.offset) /\ fc.has
      BY <1>12, <1>15, <1>17, <1>19, <2>1
    <3>2. Ready(ex, c, Image, z, face)
      BY <1>1, <1>16
    <3>3. Carried(ex, x, c, Image, z, fc)
      BY <1>1, <1>16, <1>18, <1>z, <3>1, <3>2, ArmCarries
    <3> QED
      BY <1>1, <3>3
  <2>2. CASE ImagesIn(seen) = {}
    BY <1>12, <1>13, <1>16, <1>17, <2>2, CarriedNowhere
  <2> QED
    BY <2>1, <2>2
<1>20. CASE ImagesIn(seen) # {} \/ Len(seen) = LookAhead \/ offset' >= total'
  <2>1. PICK x \in armed : ex' \in WriteHeld(x, seen, rest)
    BY <1>13, <1>20
  <2>2. PICK y : y = ex'
    OBVIOUS
  <2>3. Carried(ex, x, c, f, z, fc)
    BY <1>19, <2>1
  <2>4. Ready(x, c, f, z, fc) /\ (x.by # 0 => x.open) /\ (x.open => x.by # 0)
    BY <1>16, <2>3 DEF Carried, Frame
  <2>5. y \in WriteHeld(x, seen, rest)
    BY <2>1, <2>2
  <2>6. Carried(x, y, c, f, b, fc)
    BY <1>9, <1>10, <1>18, <2>4, <2>5, HeldCarries
  <2>7. Carried(ex, y, c, f, b, fc)
    BY <2>3, <2>6, CarriedTwice
  <2> QED
    BY <1>13, <1>15, <1>17, <1>20, <2>2, <2>7
<1>21. CASE ~(ImagesIn(seen) # {} \/ Len(seen) = LookAhead \/ offset' >= total')
  <2>1. m = b /\ Len(head') <= LookAhead
    BY <1>10, <1>13, <1>21
  <2> QED
    BY <1>9, <1>13, <1>15, <1>21, <1>z, <2>1
<1> QED
  BY <1>20, <1>21
\* The hash and the parse buffer take the answer that the card is given.
LEMMA HashAndBuffer ==
    ASSUME TypeOK, SinkInv, Streaming, File' = File, NEW c \in [Names -> ChipFiles], c = doc.chip,
           NEW b \in Nat, offset <= b, b <= c[File].length,
           NEW data, data = Slice(c, File, offset, b), DigestUpdate(data), ParseAppend(data)
    PROVE  /\ digest' \in [active: BOOLEAN, bytes: Seq(Names \X Nat)]
           /\ parse' \in [on: BOOLEAN, bytes: Seq(Names \X Nat), overflowed: BOOLEAN]
           /\ Len(parse'.bytes) <= Capacity[File']
           /\ digest'.active => digest'.bytes = Slice(c, File, 0, b)
           /\ parse'.on /\ ~parse'.overflowed => parse'.bytes = Slice(c, File, 0, b)
<1>1. PICK f \in Names : f = File
  BY Facts
<1>2. PICK o \in Nat : o = offset
  BY Facts
<1>3. PICK z \in Nat : z = 0
  OBVIOUS
<1>4. /\ digest.active => digest.bytes = Slice(c, f, z, o)
      /\ parse.on /\ ~parse.overflowed => parse.bytes = Slice(c, f, z, o)
      /\ digest \in [active: BOOLEAN, bytes: Seq(Names \X Nat)]
      /\ parse \in [on: BOOLEAN, bytes: Seq(Names \X Nat), overflowed: BOOLEAN]
      /\ Len(parse.bytes) <= Capacity[f] /\ Capacity[f] \in Nat
  BY <1>1, <1>2, <1>3, StreamAssumption DEF SinkInv, TypeOK
<1>5. data = Slice(c, f, o, b) /\ o <= b /\ b <= c[f].length /\ z <= o /\ z <= b
  BY <1>1, <1>2, <1>3
<1>6. Join(Slice(c, f, z, o), Slice(c, f, o, b)) = Slice(c, f, z, b)
  BY <1>5, SliceConcat
<1>7. data \in Seq(Names \X Nat)
  BY ZenonT(60), <1>5, SliceType
<1>8. digest' = digest \/ digest' = NoDigest \/ (digest.active /\ digest' = Folded(data))
  BY DEF DigestUpdate
<1>9. /\ digest' \in [active: BOOLEAN, bytes: Seq(Names \X Nat)]
      /\ digest'.active => digest'.bytes = Slice(c, f, z, b)
  <2>1. CASE digest' = NoDigest
    BY <2>1, NoBytes DEF NoDigest
  <2>2. CASE digest.active /\ digest' = Folded(data)
    <3>1. digest.bytes \o data \in Seq(Names \X Nat)
      BY <1>4, <1>7, ConcatProperties
    <3>2. /\ digest' \in [active: BOOLEAN, bytes: Seq(Names \X Nat)]
          /\ digest'.bytes = digest.bytes \o data
      BY <1>4, <2>2, <3>1 DEF Folded
    <3>3. digest.bytes \o data = Slice(c, f, z, b)
      BY <1>4, <1>5, <1>6, <2>2 DEF Join
    <3> QED
      BY <3>2, <3>3
  <2>3. CASE ~digest.active /\ digest' = digest
    BY <1>4, <2>3
  <2> QED
    BY <1>8, <2>1, <2>2, <2>3 DEF DigestUpdate
<1>10. /\ parse' \in [on: BOOLEAN, bytes: Seq(Names \X Nat), overflowed: BOOLEAN]
       /\ Len(parse'.bytes) <= Capacity[f]
       /\ parse'.on /\ ~parse'.overflowed => parse'.bytes = Slice(c, f, z, b)
  <2>1. CASE (~parse.on \/ parse.overflowed) /\ parse' = parse
    BY <1>4, <2>1
  <2>2. CASE parse' = [parse EXCEPT !.overflowed = TRUE]
    <3>1. parse'.overflowed /\ parse'.bytes = parse.bytes
      BY <1>4, <2>2
    <3>2. parse' \in [on: BOOLEAN, bytes: Seq(Names \X Nat), overflowed: BOOLEAN]
      BY <1>4, <2>2
    <3> QED
      BY <1>4, <3>1, <3>2
  <2>3. CASE /\ parse.on /\ ~parse.overflowed /\ Len(parse.bytes) + Len(data) <= Capacity[f]
             /\ parse' = [parse EXCEPT !.bytes = @ \o data]
    <3>1. /\ parse.bytes \o data \in Seq(Names \X Nat)
          /\ Len(parse.bytes \o data) = Len(parse.bytes) + Len(data)
      BY <1>4, <1>7, ConcatProperties
    <3>2. /\ parse' \in [on: BOOLEAN, bytes: Seq(Names \X Nat), overflowed: BOOLEAN]
          /\ parse'.bytes = parse.bytes \o data
      BY <1>4, <2>3, <3>1
    <3>3. parse.bytes \o data = Slice(c, f, z, b)
      BY <1>4, <1>5, <1>6, <2>3 DEF Join
    <3> QED
      BY <2>3, <3>1, <3>2, <3>3
  <2>4. Len(parse.bytes) + Len(data) > Capacity[f] \/ Len(parse.bytes) + Len(data) <= Capacity[f]
    BY <1>4, <1>7, LenProperties
  <2> QED
    BY <1>1, <2>1, <2>2, <2>3, <2>4 DEF ParseAppend
<1> QED
  BY <1>1, <1>3, <1>9, <1>10

LEMMA DataStep == IInv /\ Data => IInv'
<1> SUFFICES ASSUME IInv, Data PROVE IInv'
  OBVIOUS
<1>0. TypeOK /\ CardInv /\ SinkInv /\ FileInv /\ DoneInv /\ ResultInv
  BY DEF IInv
<1>1. PICK len \in AnswerLengths, eof \in BOOLEAN :
        LET data == SubSeq(FromChip(len), 1, Cut(len)) IN
        /\ total' = Total(len) /\ sized' = TRUE
        /\ offset' = offset + Len(data)
        /\ DigestUpdate(data)
        /\ ParseAppend(data)
        /\ IF looking THEN HoldBack(data)
           ELSE ex' \in ExportWrite(ex, data) /\ UNCHANGED <<head, looking, face>>
        /\ IF stop THEN Leave("Cancelled")
           ELSE IF eof THEN Leave("None")
           ELSE pc' = "ask" /\ UNCHANGED error
  BY DEF Data
<1>2. PICK data : data = SubSeq(FromChip(len), 1, Cut(len))
  OBVIOUS
<1>3. /\ total' = Total(len) /\ sized' = TRUE /\ offset' = offset + Len(data)
      /\ DigestUpdate(data) /\ ParseAppend(data)
      /\ IF looking THEN HoldBack(data)
         ELSE ex' \in ExportWrite(ex, data) /\ UNCHANGED <<head, looking, face>>
      /\ IF stop THEN Leave("Cancelled")
         ELSE IF eof THEN Leave("None")
         ELSE pc' = "ask" /\ UNCHANGED error
  BY <1>1, <1>2
<1>4. /\ Waiting /\ UNCHANGED <<stop, doc, minute, reads, exported, at, entries, hasMrz, checked, matched>>
  BY DEF Data, still
<1>5. /\ pc' \in {"finish", "ask"}
      /\ error' \in {"None", "Cancelled", "CardLost", "Unsupported", "Parse", "Refused"}
  BY <1>0, <1>3 DEF Leave, TypeOK
<1>6. Streaming /\ Streaming' /\ ~Waiting' /\ File' = File /\ InPlan /\ pc # "select" /\ pc' # "select"
  BY <1>4, <1>5 DEF Streaming, Waiting, File, InPlan
<1>7. PICK c \in [Names -> ChipFiles] : c = doc.chip /\ c = doc'.chip
  BY <1>0, <1>4, Facts
<1>8. PICK f \in Names : f = File
  BY <1>0, Facts
<1>9. PICK o \in Nat : o = offset
  BY <1>0, Facts
<1>10. PICK b \in Nat : o <= b /\ b <= c[f].length /\ data = Slice(c, f, o, b)
  BY <1>0, <1>2, <1>4, <1>7, <1>8, <1>9, AnswerIs
<1>11. offset' = b /\ total' \in Nat
  <2>1. Len(data) = b - o
    BY <1>10, SliceLength
  <2>2. Total(len) \in Nat
    BY <1>0, <1>2, <1>4, AnswerIs
  <2> QED
    BY <1>3, <1>9, <1>10, <2>1, <2>2
<1>12. /\ digest' \in [active: BOOLEAN, bytes: Seq(Names \X Nat)]
       /\ parse' \in [on: BOOLEAN, bytes: Seq(Names \X Nat), overflowed: BOOLEAN]
       /\ Len(parse'.bytes) <= Capacity[File']
       /\ digest'.active => digest'.bytes = Slice(c, File, 0, b)
       /\ parse'.on /\ ~parse'.overflowed => parse'.bytes = Slice(c, File, 0, b)
  BY <1>0, <1>3, <1>6, <1>7, <1>8, <1>9, <1>10, HashAndBuffer
<1>13. PICK y, fc : y = ex' /\ fc = face'
  OBVIOUS
\* Either the export has had all that was read, or DG2's head is held back.
<1>14. /\ fc \in [has: BOOLEAN, offset: Nat, size: Nat]
       /\ \/ ~looking' /\ head' = <<>> /\ Carried(ex, y, c, f, b, fc)
          \/ /\ looking /\ looking' /\ head' = Slice(c, f, 0, b) /\ Len(head') <= LookAhead
             /\ y = ex /\ fc = face
  <2>1. CASE looking
    <3>1. HoldBack(data) /\ offset <= b /\ data = Slice(c, f, offset, b)
      BY <1>3, <1>9, <1>10, <2>1
    <3> QED
      BY <1>0, <1>4, <1>7, <1>8, <1>10, <1>13, <2>1, <3>1, HoldBackEffect
  <2>2. CASE ~looking
    <3>1. y \in ExportWrite(ex, data) /\ head' = <<>> /\ ~looking' /\ fc = face
      BY <1>0, <1>3, <1>6, <1>13, <2>2 DEF SinkInv
    <3>2. fc \in [has: BOOLEAN, offset: Nat, size: Nat]
      BY <1>0, <3>1 DEF TypeOK
    <3>3. /\ ex.by # 0 => ex.open
          /\ ex.open => ex.by # 0
      BY <1>0, <1>6 DEF CardInv, Streaming
    <3>4. Ready(ex, c, f, o, fc)
      <4>1. ex.by # 0 /\ ~ex.failed => Standing(ex, c, f, o, fc) /\ TailOfImage(ex, c, fc)
        BY <1>0, <1>6, <1>7, <1>8, <1>9, <2>2, <3>1 DEF FileInv, DoneInv, Exporting
      <4>2. ex \in ExportType /\ Kept(ex, c, fc)
        BY <1>0, <1>7, <3>1 DEF TypeOK, DoneInv
      <4> QED
        BY <4>1, <4>2 DEF Ready
    <3>5. Carried(ex, y, c, f, b, fc)
      <4>1. fc.offset \in Nat
        BY <3>2
      <4> QED
        BY <1>10, <3>1, <3>3, <3>4, <4>1, ExportWriteCarries
    <3> QED
      BY <3>1, <3>2, <3>5
  <2> QED
    BY <2>1, <2>2
<1>15. looking => f = Image
  BY <1>0, <1>6, <1>8 DEF SinkInv
<1>16. /\ y \in ExportType /\ y.open = ex.open /\ y.by = ex.by /\ (ex.failed => y.failed)
       /\ \A m \in Minutes, n \in AllNames : y.disk[m][n].by \in {ex.disk[m][n].by, ex.by}
       /\ \A g \in Names : g # f => Same(ex, y, g)
       /\ f # Image => Same(ex, y, Face)
       /\ Kept(y, c, fc)
       /\ y.by # 0 /\ ~y.failed => TailOfImage(y, c, fc)
  <2>1. CASE Carried(ex, y, c, f, b, fc)
    BY <2>1, NamesApart DEF Carried, Ready, Frame, Files
  <2>2. CASE y = ex /\ fc = face
    <3>1. Kept(y, c, fc) /\ (y.by # 0 /\ ~y.failed => TailOfImage(y, c, fc)) /\ y \in ExportType
      BY <1>0, <1>7, <2>2 DEF DoneInv, Exporting, TypeOK
    <3> QED
      BY <2>2, <3>1 DEF Same
  <2> QED
    BY <1>14, <2>1, <2>2
<1>17. TypeOK'
  <2>1. head' \in Seq(Names \X Nat) /\ Len(head') <= LookAhead /\ looking' \in BOOLEAN
    <3>1. looking' \in BOOLEAN
      <4>1. CASE looking
        BY <1>0, <1>3, <4>1 DEF HoldBack, TypeOK
      <4>2. CASE ~looking
        BY <1>0, <1>3, <4>2 DEF TypeOK
      <4> QED
        BY <4>1, <4>2
    <3>2. CASE head' = <<>>
      BY <3>1, <3>2, NoBytes, StreamAssumption
    <3>3. CASE head' = Slice(c, f, 0, b) /\ Len(head') <= LookAhead
      <4>1. PICK z \in Nat : z = 0
        OBVIOUS
      <4>2. head' \in Seq(Names \X Nat)
        BY <1>10, <3>3, <4>1, SliceType
      <4> QED
        BY <3>1, <3>3, <4>2
    <3> QED
      BY <1>14, <3>2, <3>3
  <2>2. /\ {offset', total', checked', matched'} \subseteq Nat
        /\ minute' \in Minutes /\ doc' \in Documents /\ reads' \in 0 .. MaxReads
        /\ at' \in 1 .. Len(Plan) /\ entries' \in [Names -> EntryType]
    BY <1>0, <1>4, <1>11 DEF TypeOK
  <2>3. {stop', sized', looking', hasMrz', exported'} \subseteq BOOLEAN
    BY <1>0, <1>3, <1>4, <2>1 DEF TypeOK
  <2>4. pc' \in {"idle", "select", "ask", "answer", "again", "finish", "export"}
    BY <1>5
  <2> QED
    BY <1>5, <1>12, <1>13, <1>14, <1>16, <2>1, <2>2, <2>3, <2>4 DEF TypeOK
<1>18. CardInv'
  <2>1. \A m \in Minutes, n \in AllNames : y.disk[m][n].by <= reads
    BY <1>0, <1>16, ByKept
  <2>2. pc # "idle" /\ pc' # "idle"
    BY <1>4, <1>5 DEF Waiting
  <2> QED
    BY <1>0, <1>4, <1>13, <1>16, <2>1, <2>2 DEF CardInv
<1>19. SinkInv'
  <2>1. offset' <= c[f].length
    BY <1>10, <1>11
  <2>2. /\ looking' => f = Image /\ head' = Slice(c, f, 0, offset')
        /\ ~looking' => head' = <<>>
    BY <1>11, <1>14, <1>15
  <2> QED
    BY <1>3, <1>6, <1>7, <1>8, <1>11, <1>12, <2>1, <2>2 DEF SinkInv
<1>20. FileInv'
  <2>1. Exporting' => Standing(y, c, f, IF looking' THEN 0 ELSE b, fc)
    <3>1. CASE ~looking' /\ Carried(ex, y, c, f, b, fc)
      BY <1>13, <3>1 DEF Carried, Ready, Exporting
    <3>2. CASE looking /\ looking' /\ y = ex /\ fc = face
      BY <1>0, <1>6, <1>7, <1>8, <1>13, <3>2 DEF FileInv, Exporting
    <3> QED
      BY <1>14, <3>1, <3>2
  <2>2. looking' => ~MadeIn(y, Face)
    BY <1>0, <1>6, <1>14 DEF FileInv
  <2>3. ASSUME NEW i \in at .. Len(Plan)
        PROVE  /\ entries[Plan[i]].size = 0 /\ entries[Plan[i]].hash = "Unknown"
               /\ entries[Plan[i]].state # "Read"
               /\ Plan[i] = Image /\ i # at => ~MadeIn(y, Face)
    <3>1. /\ entries[Plan[i]].size = 0 /\ entries[Plan[i]].hash = "Unknown"
          /\ entries[Plan[i]].state # "Read"
          /\ Plan[i] = Image /\ i # at => ~MadeIn(ex, Face)
      BY <1>0, <1>6 DEF FileInv
    <3>2. i # at => Plan[i] # f
      <4>1. i \in 1 .. Len(Plan) /\ at \in 1 .. Len(Plan)
        BY <1>0, Facts, PlanFacts
      <4> QED
        BY <1>8, <4>1, PlanFacts DEF File
    <3> QED
      BY <1>16, <3>1, <3>2 DEF Same
  <2> QED
    BY <1>4, <1>6, <1>7, <1>8, <1>11, <1>13, <2>1, <2>2, <2>3 DEF FileInv
<1>21. DoneInv'
  <2>1. \A g \in Names : /\ entries[g].size <= c[g].length
                         /\ entries[g].hash = "Match" => entries[g].size = c[g].length
    BY <1>0, <1>7 DEF DoneInv
  <2>2. Exporting' => Exporting
    BY <1>13, <1>16 DEF Exporting
  <2>3. ASSUME Exporting', NEW g \in Names, g # f
        PROVE  /\ SavedIn(y, g) = Slice(c, g, 0, entries[g].size)
               /\ entries[g].state = "Read" => MadeIn(y, g)
    <3>1. /\ SavedIn(ex, g) = Slice(c, g, 0, entries[g].size)
          /\ entries[g].state = "Read" => MadeIn(ex, g)
      BY <1>0, <1>7, <1>8, <2>2, <2>3 DEF DoneInv
    <3> QED
      BY <1>16, <2>3, <3>1 DEF Same
  <2>4. Exporting' => TailOfImage(y, c, fc)
    BY <1>13, <1>16 DEF Exporting
  <2> QED
    BY <1>4, <1>6, <1>7, <1>8, <1>13, <1>16, <2>1, <2>3, <2>4 DEF DoneInv
<1>22. ResultInv'
  <2>1. \A H : Marked(H)' = Marked(H)
    BY <1>4, MarkedSame
  <2>2. ~exported
    BY <1>0, <1>6 DEF ResultInv, Streaming
  <2> QED
    BY <1>0, <1>4, <2>1, <2>2 DEF ResultInv
<1> QED
  BY <1>17, <1>18, <1>19, <1>20, <1>21, <1>22 DEF IInv
\* What is on the card of a file when its reading ends, and of the others.
LEMMA CardAtTheEnd ==
    ASSUME TypeOK, CardInv, SinkInv, FileInv, DoneInv, pc = "finish",
           NEW c \in [Names -> ChipFiles], c = doc.chip, NEW f \in Names, f = File,
           NEW w \in Flush, NEW y, y = ExportEnd(w)
    PROVE  /\ y \in ExportType /\ y.open = ex.open /\ y.by = ex.by /\ (ex.failed => y.failed)
           /\ \A m \in Minutes, n \in AllNames : y.disk[m][n].by \in {ex.disk[m][n].by, ex.by}
           /\ \A g \in Names : g # f => Same(ex, y, g)
           /\ f # Image => Same(ex, y, Face)
           /\ Kept(y, c, face)
           /\ y.by # 0 /\ ~y.failed =>
                 /\ TailOfImage(y, c, face)
                 /\ MadeIn(y, f) /\ SavedIn(y, f) = Slice(c, f, 0, offset)
<1>0. PICK o \in Nat : o = offset
  BY Facts
<1>1. PICK z \in Nat : z = 0
  OBVIOUS
<1>2. Streaming /\ pc # "idle"
  BY DEF Streaming
<1>3. /\ ex.by # 0 => ex.open
      /\ ex.open => ex.by # 0
  BY <1>2 DEF CardInv
<1>4. /\ o <= c[f].length /\ face.offset \in Nat /\ ex \in ExportType
      /\ looking => head = Slice(c, f, z, o)
      /\ ~looking => head = <<>>
  BY <1>0, <1>1, <1>2, Facts DEF SinkInv
<1>5. Carried(ex, w, c, f, o, face)
  <2>1. Kept(ex, c, face) /\ (ex.by # 0 /\ ~ex.failed => TailOfImage(ex, c, face))
    BY DEF DoneInv, Exporting
  <2>2. ex.by # 0 /\ ~ex.failed => Standing(ex, c, f, IF looking THEN z ELSE o, face)
    BY <1>0, <1>1, <1>2 DEF FileInv, Exporting
  <2>3. CASE head # <<>>
    <3>1. looking /\ head = Slice(c, f, z, o) /\ w \in ExportWrite(ex, head) /\ z <= o
      BY <1>1, <1>4, <2>3 DEF Flush
    <3>2. Ready(ex, c, f, z, face)
      BY <1>4, <2>1, <2>2, <3>1 DEF Ready
    <3>3. PICK h : h = head
      OBVIOUS
    <3>4. h = Slice(c, f, z, o) /\ w \in ExportWrite(ex, h)
      BY <3>1, <3>3
    <3> QED
      BY <1>3, <1>4, <3>1, <3>2, <3>4, ExportWriteCarries
  <2>4. CASE head = <<>>
    <3>1. looking => o = z
      <4>1. ASSUME looking PROVE o = 0
        <5>1. PICK h : h = head
          OBVIOUS
        <5>2. h = Slice(c, f, 0, o)
          BY <1>1, <1>4, <4>1, <5>1
        <5>3. Len(h) = o
          BY <1>4, <5>2, HeadLength
        <5> QED
          BY <2>4, <5>1, <5>3, NoBytes
      <4> QED
        BY <1>1, <4>1
    <3>2. Ready(ex, c, f, o, face)
      BY <1>4, <2>1, <2>2, <3>1 DEF Ready
    <3>3. w = ex
      BY <2>4 DEF Flush
    <3> QED
      BY <3>2, <3>3, CarriedNowhere
  <2> QED
    BY <2>3, <2>4
<1>6. /\ w \in ExportType /\ w.open = ex.open /\ w.by = ex.by /\ (ex.failed => w.failed)
      /\ \A m \in Minutes, n \in AllNames : w.disk[m][n].by \in {ex.disk[m][n].by, ex.by}
      /\ \A g \in Names : g # f => Same(ex, w, g)
      /\ f # Image => Same(ex, w, Face)
      /\ Kept(w, c, face)
      /\ w.by # 0 /\ ~w.failed =>
            /\ TailOfImage(w, c, face)
            /\ MadeIn(w, f) /\ SavedIn(w, f) = Slice(c, f, 0, o)
  BY <1>5, NamesApart DEF Carried, Ready, Standing, Frame, Files
<1>7. /\ y \in ExportType /\ y.failed = w.failed /\ y.open = w.open /\ y.by = w.by
      /\ y.dir = w.dir /\ y.disk = w.disk
  BY <1>6, EndEffect DEF ExportEnd
<1>8. \A n : Same(w, y, n)
  BY <1>7 DEF Same, MadeIn, SavedIn
<1>9. Kept(y, c, face)
  BY <1>6, <1>8, KeptSame
<1>10. y.by # 0 /\ ~y.failed =>
          /\ TailOfImage(y, c, face)
          /\ MadeIn(y, f) /\ SavedIn(y, f) = Slice(c, f, 0, o)
  BY <1>6, <1>7, <1>8 DEF TailOfImage, Same
<1>11. /\ \A g \in Names : g # f => Same(ex, y, g)
       /\ f # Image => Same(ex, y, Face)
  BY <1>6, <1>8 DEF Same
<1> QED
  BY <1>0, <1>6, <1>7, <1>9, <1>10, <1>11
LEMMA SameFace ==
    ASSUME NEW x, NEW c, NEW fc, NEW fd, fd.has = fc.has, fd.offset = fc.offset
    PROVE  /\ Kept(x, c, fc) => Kept(x, c, fd)
           /\ TailOfImage(x, c, fc) => TailOfImage(x, c, fd)
<1> QED
  BY DEF Kept, TailOfImage

\* The end of a file, whether it was read or not.
LEMMA FileEnds ==
    ASSUME IInv, pc = "finish", NEW e, NextFile(e), NEW w \in Flush, ex' = ExportEnd(w),
           NEW v \in EntryType, v.size = offset,
           v.hash = "Match" => offset = doc.chip[File].length,
           entries' = [entries EXCEPT ![File] = v],
           head' = <<>>, looking' = FALSE, digest' = NoDigest, parse' = NoParse,
           UNCHANGED <<stop, doc, minute, reads, exported, offset, total, sized, error>>,
           face' \in [has: BOOLEAN, offset: Nat, size: Nat],
           face'.has = face.has, face'.offset = face.offset,
           hasMrz' \in BOOLEAN, checked' \in Nat, matched' \in Nat
    PROVE  /\ TypeOK' /\ CardInv' /\ SinkInv' /\ FileInv' /\ DoneInv' /\ ~exported'
           /\ entries[File].hash = "Unknown"
<1>0. TypeOK /\ CardInv /\ SinkInv /\ FileInv /\ DoneInv /\ ResultInv
  BY DEF IInv
<1>1. Streaming /\ InPlan /\ pc # "idle" /\ pc # "select" /\ ~exported'
  BY <1>0 DEF Streaming, InPlan, ResultInv
<1>2. /\ pc' \in {"select", "export"} /\ at' \in 1 .. Len(Plan) /\ ~Streaming'
      /\ InPlan' => pc' = "select"
      /\ pc' = "select" => \A i \in at' .. Len(Plan) :
            i \in at .. Len(Plan) /\ i # at /\ Plan[i] # File /\ Plan[i] \in Names
  BY <1>0, NextFacts
<1>3. PICK c \in [Names -> ChipFiles] : c = doc.chip /\ c = doc'.chip
  BY <1>0, Facts
<1>4. PICK f \in Names : f = File
  BY <1>0, Facts
<1>5. PICK y, fc : y = ex' /\ fc = face'
  OBVIOUS
<1>6. entries[f].hash = "Unknown"
  <2>1. at \in at .. Len(Plan) /\ Plan[at] = f
    BY <1>0, <1>4, Facts, PlanFacts DEF File
  <2> QED
    BY <1>0, <1>1, <2>1 DEF FileInv
<1>7. /\ y \in ExportType /\ y.open = ex.open /\ y.by = ex.by /\ (ex.failed => y.failed)
      /\ \A m \in Minutes, n \in AllNames : y.disk[m][n].by \in {ex.disk[m][n].by, ex.by}
      /\ \A g \in Names : g # f => Same(ex, y, g)
      /\ f # Image => Same(ex, y, Face)
      /\ Kept(y, c, face)
      /\ y.by # 0 /\ ~y.failed =>
            /\ TailOfImage(y, c, face)
            /\ MadeIn(y, f) /\ SavedIn(y, f) = Slice(c, f, 0, offset)
  <2>1. y = ExportEnd(w)
    BY <1>5
  <2> QED
    BY ZenonT(60), <1>0, <1>3, <1>4, <2>1, CardAtTheEnd
<1>8. Kept(y, c, fc) /\ (y.by # 0 /\ ~y.failed => TailOfImage(y, c, fc))
  <2>1. fc.has = face.has /\ fc.offset = face.offset
    BY <1>5
  <2> QED
    BY <1>7, <2>1, SameFace
<1>9. \A g \in Names : /\ g # f => entries'[g] = entries[g]
                       /\ g = f => entries'[g] = v
  BY <1>0, <1>4 DEF TypeOK
<1>10. TypeOK'
  <2>1. /\ parse' \in [on: BOOLEAN, bytes: Seq(Names \X Nat), overflowed: BOOLEAN]
        /\ Len(parse'.bytes) <= Capacity[File']
    <3>1. parse'.bytes = <<>>
      BY DEF NoParse
    <3>2. File' \in Names
      BY <1>2, PlanFacts DEF File
    <3>3. Capacity[File'] \in Nat
      BY <3>2, StreamAssumption
    <3> QED
      BY <3>1, <3>3, NoBytes DEF NoParse
  <2>2. head' \in Seq(Names \X Nat) /\ Len(head') <= LookAhead
    BY NoBytes, StreamAssumption
  <2>3. digest' \in [active: BOOLEAN, bytes: Seq(Names \X Nat)]
    BY NoBytes DEF NoDigest
  <2>4. /\ {offset', total', checked', matched'} \subseteq Nat
        /\ minute' \in Minutes /\ doc' \in Documents /\ reads' \in 0 .. MaxReads
        /\ error' \in {"None", "Cancelled", "CardLost", "Unsupported", "Parse", "Refused"}
    BY <1>0 DEF TypeOK
  <2>5. {stop', sized', looking', hasMrz', exported'} \subseteq BOOLEAN
    BY <1>0 DEF TypeOK
  <2>6. entries' \in [Names -> EntryType]
    BY <1>0 DEF TypeOK
  <2>7. pc' \in {"idle", "select", "ask", "answer", "again", "finish", "export"}
    BY <1>2
  <2> QED
    BY <1>2, <1>5, <1>7, <2>1, <2>2, <2>3, <2>4, <2>5, <2>6, <2>7 DEF TypeOK
<1>11. CardInv'
  <2>1. \A m \in Minutes, n \in AllNames : y.disk[m][n].by <= reads
    BY <1>0, <1>7, ByKept
  <2>2. pc' # "idle"
    BY <1>2
  <2> QED
    BY <1>0, <1>1, <1>5, <1>7, <2>1, <2>2 DEF CardInv
<1>12. SinkInv'
  BY <1>2 DEF SinkInv
<1>13. FileInv'
  <2>1. ASSUME InPlan', NEW i \in at' .. Len(Plan)
        PROVE  /\ entries'[Plan[i]].size = 0 /\ entries'[Plan[i]].hash = "Unknown"
               /\ entries'[Plan[i]].state # "Read"
               /\ Plan[i] = Image => ~MadeIn(y, Face)
    <3>1. i \in at .. Len(Plan) /\ i # at /\ Plan[i] # f /\ Plan[i] \in Names
      BY <1>2, <1>4, <2>1
    <3>2. /\ entries[Plan[i]].size = 0 /\ entries[Plan[i]].hash = "Unknown"
          /\ entries[Plan[i]].state # "Read"
          /\ Plan[i] = Image => ~MadeIn(ex, Face)
      BY <1>0, <1>1, <3>1 DEF FileInv
    <3> QED
      BY <1>7, <1>9, <3>1, <3>2 DEF Same
  <2> QED
    BY <1>2, <1>5, <2>1 DEF FileInv
<1>14. DoneInv'
  <2>1. ASSUME NEW g \in Names
        PROVE  /\ entries'[g].size <= c[g].length
               /\ entries'[g].hash = "Match" => entries'[g].size = c[g].length
    <3>1. CASE g = f
      <4>1. offset <= c[f].length
        BY <1>0, <1>1, <1>3, <1>4 DEF SinkInv
      <4> QED
        BY <1>3, <1>4, <1>9, <3>1, <4>1
    <3>2. CASE g # f
      BY <1>0, <1>3, <1>9, <3>2 DEF DoneInv
    <3> QED
      BY <3>1, <3>2
  <2>2. ASSUME Exporting', NEW g \in Names
        PROVE  /\ SavedIn(y, g) = Slice(c, g, 0, entries'[g].size)
               /\ entries'[g].state = "Read" => MadeIn(y, g)
    <3>1. Exporting /\ y.by # 0 /\ ~y.failed
      BY <1>5, <1>7, <2>2 DEF Exporting
    <3>2. CASE g = f
      BY <1>7, <1>9, <3>1, <3>2
    <3>3. CASE g # f
      <4>1. /\ SavedIn(ex, g) = Slice(c, g, 0, entries[g].size)
            /\ entries[g].state = "Read" => MadeIn(ex, g)
        BY <1>0, <1>3, <1>4, <3>1, <3>3 DEF DoneInv
      <4> QED
        BY <1>7, <1>9, <3>3, <4>1 DEF Same
    <3> QED
      BY <3>2, <3>3
  <2>3. Exporting' => TailOfImage(y, c, fc)
    BY <1>5, <1>8 DEF Exporting
  <2> QED
    BY <1>3, <1>5, <1>8, <2>1, <2>2, <2>3 DEF DoneInv
<1> QED
  BY <1>1, <1>4, <1>6, <1>10, <1>11, <1>12, <1>13, <1>14

\* The file being read has no verdict yet.
LEMMA NoVerdictYet == IInv /\ InPlan => entries[File].hash = "Unknown"
<1> SUFFICES ASSUME IInv, InPlan PROVE entries[File].hash = "Unknown"
  OBVIOUS
<1>0. TypeOK /\ FileInv
  BY DEF IInv
<1>1. at \in at .. Len(Plan) /\ Plan[at] = File
  BY <1>0, Facts, PlanFacts DEF File
<1> QED
  BY <1>0, <1>1 DEF FileInv

LEMMA FileFailsStep == IInv /\ FileFails => IInv'
<1> SUFFICES ASSUME IInv, FileFails PROVE IInv'
  OBVIOUS
<1>0. TypeOK /\ ResultInv
  BY DEF IInv
<1>1. PICK w \in Flush : ex' = ExportEnd(w)
  BY DEF FileFails
<1>2. /\ pc = "finish" /\ error # "None" /\ NextFile(error)
      /\ entries' = [entries EXCEPT ![File].state = "Failed", ![File].size = offset,
                                    ![File].error = error]
      /\ head' = <<>> /\ looking' = FALSE /\ digest' = NoDigest /\ parse' = NoParse
      /\ UNCHANGED <<stop, doc, minute, reads, exported, offset, total, sized, error,
                     face, hasMrz, checked, matched>>
  BY DEF FileFails, still, loop
<1>3. PICK f \in Names : f = File
  BY <1>0, Facts
<1>4. PICK r \in EntryType : r = entries[f]
  BY <1>0 DEF TypeOK
<1>5. PICK v : v = [r EXCEPT !.state = "Failed", !.size = offset, !.error = error]
  OBVIOUS
<1>6. v \in EntryType /\ v.size = offset /\ v.hash = r.hash
  BY <1>0, <1>5 DEF EntryType, TypeOK
<1>7. entries' = [entries EXCEPT ![File] = v]
  BY <1>0, <1>2, <1>3, <1>4, <1>5 DEF TypeOK
<1>8. v.hash = "Match" => offset = doc.chip[File].length
  <2>1. Streaming /\ InPlan
    BY <1>2 DEF Streaming, InPlan
  <2>2. entries[File].hash = "Unknown"
    BY <2>1, NoVerdictYet
  <2> QED
    BY <1>3, <1>4, <1>6, <2>2
<1>9. /\ TypeOK' /\ CardInv' /\ SinkInv' /\ FileInv' /\ DoneInv' /\ ~exported'
      /\ entries[File].hash = "Unknown"
  BY <1>0, <1>1, <1>2, <1>6, <1>7, <1>8, FileEnds DEF TypeOK
<1>10. ResultInv'
  <2>1. \A g \in Names : entries'[g].hash = entries[g].hash
    BY <1>0, <1>3, <1>4, <1>6, <1>7 DEF TypeOK
  <2>2. \A H : Marked(H)' = Marked(H)
    BY <2>1, MarkedSame
  <2> QED
    BY <1>0, <1>2, <1>9, <2>2 DEF ResultInv
<1> QED
  BY <1>9, <1>10 DEF IInv

\* One more file with a verdict.
LEMMA MarkedMore ==
    ASSUME TypeOK, NEW f \in Names, NEW H, entries[f].hash \notin H,
           \A g \in Names : g # f => entries'[g].hash = entries[g].hash
    PROVE  Cardinality(Marked(H)') = Cardinality(Marked(H)) + Count(entries'[f].hash \in H)
<1>1. IsFiniteSet(Names)
  BY StreamAssumption
<1>2. Marked(H) \subseteq Names
  BY DEF Marked
<1>3. IsFiniteSet(Marked(H))
  BY <1>1, <1>2, FS_Subset
<1>4. f \notin Marked(H)
  BY DEF Marked
<1>5. Cardinality(Marked(H)) \in Nat
  BY <1>3, FS_CardinalityType
<1>6. CASE entries'[f].hash \in H
  <2>1. Marked(H)' = Marked(H) \cup {f}
    BY <1>6 DEF Marked
  <2>2. Cardinality(Marked(H) \cup {f}) = Cardinality(Marked(H)) + 1
    BY <1>3, <1>4, FS_AddElement
  <2>3. Count(entries'[f].hash \in H) = 1
    BY <1>6 DEF Count
  <2> QED
    BY <2>1, <2>2, <2>3
<1>7. CASE entries'[f].hash \notin H
  <2>1. Marked(H)' = Marked(H)
    BY <1>7 DEF Marked
  <2>2. Count(entries'[f].hash \in H) = 0
    BY <1>7 DEF Count
  <2> QED
    BY <1>5, <2>1, <2>2
<1> QED
  BY <1>6, <1>7

\* A file that is said to match was read to its last byte.
LEMMA VerdictIs ==
    ASSUME TypeOK, SinkInv, Streaming
    PROVE  /\ Verdict \in {"Unknown", "Match", "Mismatch", "NotListed", "UnsupportedDigest"}
           /\ Verdict = "Match" => offset = doc.chip[File].length
<1>1. Verdict \in {"Unknown", "Match", "Mismatch", "NotListed", "UnsupportedDigest"}
  BY DEF Verdict
<1>2. ASSUME Verdict = "Match" PROVE offset = doc.chip[File].length
  <2>1. PICK c \in [Names -> ChipFiles], f \in Names, o \in Nat :
           c = doc.chip /\ f = File /\ o = offset
    BY Facts
  <2>2. digest.active /\ digest.bytes = Bytes(File)
    BY <1>2 DEF Verdict
  <2>3. digest.bytes = Slice(c, f, 0, o) /\ o <= c[f].length
    BY <2>1, <2>2 DEF SinkInv
  <2>4. Bytes(File) = Content(c, f)
    BY <2>1 DEF Bytes, Content
  <2>5. PICK s : s = Content(c, f)
    OBVIOUS
  <2>6. s = Slice(c, f, 0, o)
    BY <2>2, <2>3, <2>4, <2>5
  <2>7. Len(s) = o
    BY <2>3, <2>6, HeadLength
  <2>8. Len(s) = c[f].length
    BY <2>5, ContentType
  <2> QED
    BY <2>1, <2>7, <2>8
<1> QED
  BY <1>1, <1>2

LEMMA FileReadStep == IInv /\ FileRead => IInv'
<1> SUFFICES ASSUME IInv, FileRead PROVE IInv'
  OBVIOUS
<1>0. TypeOK /\ SinkInv /\ ResultInv
  BY DEF IInv
<1>1. PICK w \in Flush : ex' = ExportEnd(w)
  BY DEF FileRead
<1>2. Streaming /\ InPlan /\ pc = "finish" /\ error = "None"
  BY DEF FileRead, Streaming, InPlan
<1>3. PICK u : u = Verdict
  OBVIOUS
<1>4. PICK e \in {"None", "Parse"} :
        /\ entries' = [entries EXCEPT
                ![File] = [state |-> IF parse.overflowed THEN "Failed" ELSE "Read",
                           size |-> offset, hash |-> u,
                           error |-> IF parse.overflowed THEN "BufferTooSmall" ELSE e]]
        /\ hasMrz' \in {hasMrz, TRUE}
  <2>1. PICK e \in {"None", "Parse"} :
        /\ entries' = [entries EXCEPT
                ![File] = [state |-> IF parse.overflowed THEN "Failed" ELSE "Read",
                           size |-> offset, hash |-> Verdict,
                           error |-> IF parse.overflowed THEN "BufferTooSmall" ELSE e]]
        /\ hasMrz' = (hasMrz \/ (File = "DG1" /\ (parse.on /\ ~parse.overflowed /\ parse.bytes # <<>>)
                                                 /\ e = "None"))
    BY DEF FileRead
  <2>2. hasMrz \in BOOLEAN
    BY <1>0 DEF TypeOK
  <2>3. hasMrz' \in {hasMrz, TRUE}
    BY <2>1, <2>2
  <2> QED
    BY <1>3, <2>1, <2>3
<1>5. PICK v : v = [state |-> IF parse.overflowed THEN "Failed" ELSE "Read",
                    size |-> offset, hash |-> u,
                    error |-> IF parse.overflowed THEN "BufferTooSmall" ELSE e]
  OBVIOUS
<1>6. entries' = [entries EXCEPT ![File] = v]
  BY <1>4, <1>5
<1>7. /\ u \in {"Unknown", "Match", "Mismatch", "NotListed", "UnsupportedDigest"}
      /\ u = "Match" => offset = doc.chip[File].length
  BY <1>0, <1>2, <1>3, VerdictIs
<1>8. v \in EntryType /\ v.size = offset /\ v.hash = u
  <2>1. offset \in Nat
    BY <1>0, Facts
  <2> QED
    BY <1>5, <1>7, <2>1 DEF EntryType
<1>9. /\ face' = IF face.has /\ File = Image /\ offset > face.offset
                 THEN [face EXCEPT !.size = offset - face.offset] ELSE face
      /\ checked' = checked + Count(u \in {"Match", "Mismatch"})
      /\ matched' = matched + Count(u = "Match")
      /\ NextFile("None")
      /\ head' = <<>> /\ looking' = FALSE /\ digest' = NoDigest /\ parse' = NoParse
      /\ UNCHANGED <<stop, doc, minute, reads, exported, offset, total, sized, error>>
  BY <1>3 DEF FileRead, still, loop
<1>10. /\ face' \in [has: BOOLEAN, offset: Nat, size: Nat]
       /\ face'.has = face.has /\ face'.offset = face.offset
  <2>1. face \in [has: BOOLEAN, offset: Nat, size: Nat] /\ offset \in Nat
    BY <1>0, Facts DEF TypeOK
  <2>2. face.offset \in Nat
    BY <2>1
  <2>3. offset > face.offset => offset - face.offset \in Nat
    BY <2>1, <2>2
  <2> QED
    BY <1>9, <2>1, <2>3
<1>11. checked' \in Nat /\ matched' \in Nat /\ hasMrz' \in BOOLEAN
  <2>1. checked \in Nat /\ matched \in Nat /\ hasMrz \in BOOLEAN
    BY <1>0 DEF TypeOK
  <2>2. checked' \in Nat /\ matched' \in Nat
    BY <1>9, <2>1 DEF Count
  <2> QED
    BY <1>4, <2>1, <2>2
<1>12. /\ TypeOK' /\ CardInv' /\ SinkInv' /\ FileInv' /\ DoneInv' /\ ~exported'
       /\ entries[File].hash = "Unknown"
  BY <1>1, <1>2, <1>6, <1>7, <1>8, <1>9, <1>10, <1>11, FileEnds
<1>13. ResultInv'
  <2>1. PICK f \in Names : f = File
    BY <1>0, Facts
  <2>2. /\ entries'[f].hash = u /\ entries[f].hash = "Unknown"
        /\ \A g \in Names : g # f => entries'[g].hash = entries[g].hash
    BY <1>0, <1>6, <1>8, <1>12, <2>1 DEF TypeOK
  <2>3. Cardinality(Marked({"Match"})') = matched'
    <3>1. PICK H : H = {"Match"}
      OBVIOUS
    <3>2. Cardinality(Marked(H)') = Cardinality(Marked(H)) + Count(entries'[f].hash \in H)
      BY <1>0, <2>2, <3>1, MarkedMore
    <3>3. Count(u \in H) = Count(u = "Match")
      BY <3>1 DEF Count
    <3> QED
      BY <1>0, <1>9, <2>2, <3>1, <3>2, <3>3 DEF ResultInv
  <2>4. Cardinality(Marked({"Match", "Mismatch"})') = checked'
    <3>1. PICK H : H = {"Match", "Mismatch"}
      OBVIOUS
    <3>2. Cardinality(Marked(H)') = Cardinality(Marked(H)) + Count(entries'[f].hash \in H)
      BY <1>0, <2>2, <3>1, MarkedMore
    <3> QED
      BY <1>0, <1>9, <2>2, <3>1, <3>2 DEF ResultInv
  <2> QED
    BY <1>12, <2>3, <2>4 DEF ResultInv
<1> QED
  BY <1>12, <1>13 DEF IInv
\* What the two texts leave alone, and what they make.
LEMMA TextsEffect ==
    ASSUME TypeOK, NEW b \in BOOLEAN, ex.open => ex.by # 0,
           NEW x \in (IF ex.open /\ b THEN WriteText(ex, "mrz.txt") ELSE {ex}),
           NEW y \in (IF ex.open THEN WriteText(x, "report.txt") ELSE {x})
    PROVE  /\ y \in ExportType /\ y.by = ex.by /\ (ex.failed => y.failed) /\ y.open = ex.open
           /\ \A m \in Minutes, n \in AllNames : y.disk[m][n].by \in {ex.disk[m][n].by, ex.by}
           /\ \A n \in Names \cup {Face} : Same(ex, y, n)
           /\ ex.open /\ ~y.failed =>
                 SavedIn(y, "report.txt") = Text /\ (b => SavedIn(y, "mrz.txt") = Text)
<1>0. ex \in ExportType
  BY Facts
<1>1. PICK m, r : m = "mrz.txt" /\ r = "report.txt"
  OBVIOUS
<1>2. m \in AllNames /\ r \in AllNames /\ m # r /\ \A n \in Names \cup {Face} : n \in AllNames /\ n # m /\ n # r
  BY <1>1, NamesApart DEF AllNames, Face
<1>3. CASE ~ex.open
  <2>1. y = ex
    BY <1>3
  <2>2. Frame(ex, y, {})
    BY <1>0, <2>1, SameDisk
  <2> QED
    BY <1>0, <1>2, <1>3, <2>1, <2>2 DEF Frame
<1>4. CASE ex.open
  <2>1. ex.by # 0
    BY <1>4
  <2>2. Frame(ex, x, {m}) /\ (ex.failed => x.failed) /\ (b /\ ~x.failed => SavedIn(x, m) = Text)
    <3>1. CASE b
      <4>1. x \in WriteText(ex, m)
        BY <1>1, <1>4, <3>1
      <4> QED
        BY <1>0, <1>2, <2>1, <4>1, TextEffect
    <3>2. CASE ~b
      <4>1. x = ex
        BY <3>2
      <4>2. Frame(ex, x, {})
        BY <1>0, <4>1, SameDisk
      <4>3. Frame(ex, x, {m})
        BY <4>2, FrameWider
      <4> QED
        BY <3>2, <4>1, <4>3
    <3> QED
      BY <3>1, <3>2
  <2>3. x \in ExportType /\ x.by # 0 /\ x.open = ex.open
    BY <2>1, <2>2 DEF Frame
  <2>4. /\ Frame(x, y, {r}) /\ (x.failed => y.failed)
        /\ ~y.failed => SavedIn(y, r) = Text
    <3>1. y \in WriteText(x, r)
      BY <1>1, <1>4
    <3> QED
      BY <1>2, <2>3, <3>1, TextEffect
  <2>5. SavedIn(y, m) = SavedIn(x, m)
    BY <1>2, <2>4 DEF Frame, Same
  <2>6. Frame(ex, x, {m, r}) /\ Frame(x, y, {m, r})
    BY <2>2, <2>4, FrameWider
  <2>7. Frame(ex, y, {m, r})
    BY <2>6, FrameTransitive
  <2>8. /\ y \in ExportType /\ y.by = ex.by /\ y.open = ex.open
        /\ \A k \in Minutes, n \in AllNames : y.disk[k][n].by \in {ex.disk[k][n].by, ex.by}
    BY <2>7 DEF Frame
  <2>9. \A n \in Names \cup {Face} : Same(ex, y, n)
    BY <1>2, <2>7 DEF Frame
  <2> QED
    BY <1>1, <2>2, <2>4, <2>5, <2>8, <2>9
<1> QED
  BY <1>3, <1>4

LEMMA ExportResultStep == IInv /\ ExportResult => IInv'
<1> SUFFICES ASSUME IInv, ExportResult PROVE IInv'
  OBVIOUS
<1>0. TypeOK /\ CardInv /\ SinkInv /\ DoneInv /\ ResultInv
  BY DEF IInv
<1>1. PICK b \in BOOLEAN : b = hasMrz
  BY <1>0 DEF TypeOK
<1>2. PICK x \in (IF ex.open /\ b THEN WriteText(ex, "mrz.txt") ELSE {ex}) :
      \E y \in (IF ex.open THEN WriteText(x, "report.txt") ELSE {x}) :
          exported' = (y.open /\ ~y.failed) /\ ex' = [y EXCEPT !.open = FALSE]
  BY <1>1 DEF ExportResult
<1>3. PICK y \in (IF ex.open THEN WriteText(x, "report.txt") ELSE {x}) :
          exported' = (y.open /\ ~y.failed) /\ ex' = [y EXCEPT !.open = FALSE]
  BY <1>2
<1>4. /\ pc = "export" /\ pc' = "idle"
      /\ UNCHANGED <<stop, doc, minute, reads, at, offset, total, sized, error, head, looking,
                     digest, parse, entries, face, hasMrz, checked, matched>>
  BY DEF ExportResult, loop, sinks, result
<1>5. /\ ~Streaming /\ ~Streaming' /\ ~InPlan' /\ File' = File
  BY <1>4 DEF Streaming, InPlan, File
<1>6. /\ ex.open => ex.by # 0
      /\ ex.by # 0 => ex.open
  BY <1>0, <1>4 DEF CardInv
<1>7. /\ y \in ExportType /\ y.by = ex.by /\ (ex.failed => y.failed) /\ y.open = ex.open
      /\ \A m \in Minutes, n \in AllNames : y.disk[m][n].by \in {ex.disk[m][n].by, ex.by}
      /\ \A n \in Names \cup {Face} : Same(ex, y, n)
      /\ ex.open /\ ~y.failed =>
            SavedIn(y, "report.txt") = Text /\ (b => SavedIn(y, "mrz.txt") = Text)
  BY <1>0, <1>6, TextsEffect
<1>8. PICK z : z = ex'
  OBVIOUS
<1>9. /\ z \in ExportType /\ z.open = FALSE /\ z.by = y.by /\ z.failed = y.failed
      /\ z.dir = y.dir /\ z.disk = y.disk
  BY <1>3, <1>7, <1>8 DEF ExportType
<1>10. \A n : Same(y, z, n) /\ SavedIn(z, n) = SavedIn(y, n)
  BY <1>9 DEF Same, MadeIn, SavedIn
<1>11. \A n \in Names \cup {Face} : Same(ex, z, n)
  BY <1>7, <1>10 DEF Same
<1>12. PICK c \in [Names -> ChipFiles] : c = doc.chip /\ c = doc'.chip
  BY <1>0, <1>4, Facts
<1>13. TypeOK'
  <2>1. exported' \in BOOLEAN /\ ex' \in ExportType
    BY <1>3, <1>7, <1>8, <1>9 DEF ExportType
  <2>2. /\ pc' \in {"idle", "select", "ask", "answer", "again", "finish", "export"}
        /\ doc' \in Documents /\ minute' \in Minutes /\ reads' \in 0 .. MaxReads
        /\ {offset', total', checked', matched'} \subseteq Nat
        /\ {stop', sized', looking', hasMrz'} \subseteq BOOLEAN
        /\ at' \in 1 .. Len(Plan)
    BY <1>0, <1>4 DEF TypeOK
  <2>3. /\ error' \in {"None", "Cancelled", "CardLost", "Unsupported", "Parse", "Refused"}
        /\ head' \in Seq(Names \X Nat) /\ Len(head') <= LookAhead
        /\ digest' \in [active: BOOLEAN, bytes: Seq(Names \X Nat)]
        /\ parse' \in [on: BOOLEAN, bytes: Seq(Names \X Nat), overflowed: BOOLEAN]
        /\ Len(parse'.bytes) <= Capacity[File']
        /\ entries' \in [Names -> EntryType]
        /\ face' \in [has: BOOLEAN, offset: Nat, size: Nat]
    BY <1>0, <1>4, <1>5 DEF TypeOK
  <2> QED
    BY <2>1, <2>2, <2>3 DEF TypeOK
<1>14. CardInv'
  <2>1. \A m \in Minutes, n \in AllNames : y.disk[m][n].by <= reads
    BY <1>0, <1>7, ByKept
  <2> QED
    BY <1>0, <1>4, <1>7, <1>8, <1>9, <2>1 DEF CardInv
<1>15. SinkInv'
  BY <1>0, <1>4, <1>5 DEF SinkInv
<1>16. FileInv'
  BY <1>5 DEF FileInv
<1>17. Exporting' => Exporting
  BY <1>7, <1>8, <1>9 DEF Exporting
<1>18. Kept(z, c, face)
  <2>1. Kept(ex, c, face) /\ \A n \in Names \cup {Face} : SavedIn(z, n) = SavedIn(ex, n)
    BY <1>0, <1>11, <1>12 DEF DoneInv, Same
  <2>2. ASSUME NEW f \in Names
        PROVE  \E k \in 0 .. c[f].length : SavedIn(z, f) = Slice(c, f, 0, k)
    <3>1. PICK k \in 0 .. c[f].length : SavedIn(ex, f) = Slice(c, f, 0, k)
      BY <2>1 DEF Kept
    <3> QED
      BY <2>1, <3>1
  <2>3. \E k \in 0 .. c[Image].length : SavedIn(z, Face) = Slice(c, Image, face.offset, k)
    <3>1. PICK k \in 0 .. c[Image].length : SavedIn(ex, Face) = Slice(c, Image, face.offset, k)
      BY <2>1 DEF Kept
    <3> QED
      BY <2>1, <3>1
  <2> QED
    BY <2>2, <2>3 DEF Kept
<1>19. Exporting => TailOfImage(z, c, face)
  <2>1. Exporting => TailOfImage(ex, c, face)
    BY <1>0, <1>12 DEF DoneInv
  <2>2. Same(ex, z, Face) /\ Same(ex, z, Image)
    BY <1>11, NamesApart
  <2> QED
    BY <2>1, <2>2 DEF TailOfImage, Same
<1>20. DoneInv'
  <2>1. ASSUME NEW g \in Names
        PROVE  /\ entries'[g].size <= c[g].length
               /\ entries'[g].hash = "Match" => entries'[g].size = c[g].length
    BY <1>0, <1>4, <1>12 DEF DoneInv
  <2>2. ASSUME Exporting', NEW g \in Names
        PROVE  /\ SavedIn(z, g) = Slice(c, g, 0, entries'[g].size)
               /\ entries'[g].state = "Read" => MadeIn(z, g)
    <3>1. /\ SavedIn(ex, g) = Slice(c, g, 0, entries[g].size)
          /\ entries[g].state = "Read" => MadeIn(ex, g)
      BY <1>0, <1>5, <1>12, <1>17, <2>2 DEF DoneInv
    <3> QED
      BY <1>4, <1>11, <3>1 DEF Same
  <2> QED
    BY <1>4, <1>8, <1>12, <1>17, <1>18, <1>19, <2>1, <2>2 DEF DoneInv
<1>21. ResultInv'
  <2>1. \A H : Marked(H)' = Marked(H)
    BY <1>4, MarkedSame
  <2>2. ASSUME exported'
        PROVE  /\ Exporting' /\ SavedIn(z, "report.txt") = Text
               /\ hasMrz => SavedIn(z, "mrz.txt") = Text
    <3>1. ex.open /\ ~y.failed /\ ex.by # 0
      BY <1>3, <1>6, <1>7, <2>2
    <3> QED
      BY <1>1, <1>7, <1>8, <1>9, <1>10, <3>1 DEF Exporting
  <2> QED
    BY <1>0, <1>4, <1>8, <2>1, <2>2 DEF ResultInv
<1> QED
  BY <1>13, <1>14, <1>15, <1>16, <1>20, <1>21 DEF IInv

\* The steps of the loop that bring no byte.
LEMMA LoopStep ==
    ASSUME IInv, Streaming, asking' = asking, pc' \in {"ask", "answer", "again", "finish"},
           error' \in {"None", "Cancelled", "CardLost", "Unsupported", "Parse", "Refused"},
           pc' \in {"answer", "again"} => offset <= LongMax /\ (sized => offset < total)
    PROVE  IInv'
<1>1. UNCHANGED <<doc, minute, reads, exported, at, offset, total, sized, head, stop,
                  looking, digest, parse, ex, entries, face, hasMrz, checked, matched>>
  BY DEF asking, still, loop, sinks, result
<1>2. stop' \in BOOLEAN
  BY <1>1 DEF IInv, TypeOK
<1>3. Streaming'
  BY DEF Streaming
<1>4. Waiting' => offset <= LongMax /\ (sized => offset < total)
  BY DEF Waiting
<1> QED
  BY <1>1, <1>2, <1>3, <1>4, QuietStep

LEMMA AskStep == IInv /\ Ask => IInv'
<1> SUFFICES ASSUME IInv, Ask PROVE IInv'
  OBVIOUS
<1>1. Streaming /\ asking' = asking
  BY DEF Ask, Streaming
<1>2. error \in {"None", "Cancelled", "CardLost", "Unsupported", "Parse", "Refused"}
  BY DEF IInv, TypeOK
<1>3. \/ pc' = "finish" /\ error' \in {"Cancelled", "None", "Unsupported"}
      \/ pc' = "answer" /\ error' = error /\ ~Over /\ ~(offset > LongMax)
  BY DEF Ask, Leave
<1>4. pc' = "answer" => offset <= LongMax /\ (sized => offset < total)
  <2>1. offset \in Nat /\ total \in Nat /\ LongMax \in Nat
    BY StreamAssumption DEF IInv, TypeOK
  <2> QED
    BY <1>3, <2>1 DEF Over
<1> QED
  BY <1>1, <1>2, <1>3, <1>4, LoopStep

LEMMA EmptyAnswerStep ==
    IInv /\ (WrongLength \/ ExchangeFails \/ Refused \/ NoData) => IInv'
<1> SUFFICES ASSUME IInv, WrongLength \/ ExchangeFails \/ Refused \/ NoData
             PROVE  IInv'
  OBVIOUS
<1>1. Waiting /\ Streaming /\ asking' = asking
  BY DEF WrongLength, ExchangeFails, Refused, NoData, Waiting, Streaming
<1>2. error \in {"None", "Cancelled", "CardLost", "Unsupported", "Parse", "Refused"}
  BY DEF IInv, TypeOK
<1>3. \/ pc' = "again" /\ error' = error
      \/ pc' = "ask" /\ error' = error
      \/ pc' = "finish" /\ error' \in {"CardLost", "Parse", "Unsupported", "Refused", "None"}
  BY DEF WrongLength, ExchangeFails, Refused, NoData, Leave
<1>4. offset <= LongMax /\ (sized => offset < total)
  BY <1>1 DEF IInv, SinkInv
<1> QED
  BY <1>1, <1>2, <1>3, <1>4, LoopStep

LEMMA StopStep == IInv /\ Stop => IInv'
<1> SUFFICES ASSUME IInv, Stop PROVE IInv'
  OBVIOUS
<1>1. /\ pc' = pc /\ stop' = TRUE
      /\ UNCHANGED <<doc, minute, reads, exported, at, offset, total, sized, error, head,
                     looking, digest, parse, ex, entries, face, hasMrz, checked, matched>>
  BY DEF Stop, still, loop, sinks, result
<1>2. /\ pc \in {"idle", "select", "ask", "answer", "again", "finish", "export"}
      /\ error \in {"None", "Cancelled", "CardLost", "Unsupported", "Parse", "Refused"}
  BY DEF IInv, TypeOK
<1>3. Waiting' => offset <= LongMax /\ (sized => offset < total)
  BY <1>1 DEF IInv, SinkInv, Waiting, Streaming
<1> QED
  BY <1>1, <1>2, <1>3, QuietStep

LEMMA SelectFailsStep == IInv /\ SelectFails => IInv'
<1> SUFFICES ASSUME IInv, SelectFails PROVE IInv'
  OBVIOUS
<1>1. pc = "select"
  BY DEF SelectFails
<1>2. \/ SelectEnds("Failed", "Cancelled")
      \/ SelectEnds("Absent", "FileNotFound")
      \/ SelectEnds("Failed", "Refused")
      \/ SelectEnds("Failed", "CardLost")
  BY DEF SelectFails
<1>3. CASE SelectEnds("Failed", "Cancelled")
  BY <1>1, <1>3, SelectEndsStep
<1>4. CASE SelectEnds("Absent", "FileNotFound")
  BY <1>1, <1>4, SelectEndsStep
<1>5. CASE SelectEnds("Failed", "CardLost")
  BY <1>1, <1>5, SelectEndsStep
<1>6. CASE SelectEnds("Failed", "Refused")
  BY <1>1, <1>6, SelectEndsStep
<1> QED
  BY <1>2, <1>3, <1>4, <1>5, <1>6

LEMMA StutterStep == IInv /\ UNCHANGED vars => IInv'
<1> SUFFICES ASSUME IInv, UNCHANGED vars PROVE IInv'
  OBVIOUS
<1>1. /\ pc' = pc /\ stop' = stop /\ error' = error
      /\ UNCHANGED <<doc, minute, reads, exported, at, offset, total, sized, head,
                     looking, digest, parse, ex, entries, face, hasMrz, checked, matched>>
  BY DEF vars, still, loop, sinks, result
<1>2. /\ pc \in {"idle", "select", "ask", "answer", "again", "finish", "export"}
      /\ error \in {"None", "Cancelled", "CardLost", "Unsupported", "Parse", "Refused"}
      /\ stop \in BOOLEAN
  BY DEF IInv, TypeOK
<1>3. Waiting' => offset <= LongMax /\ (sized => offset < total)
  BY <1>1 DEF IInv, SinkInv, Waiting, Streaming
<1> QED
  BY <1>1, <1>2, <1>3, QuietStep

LEMMA NextStep == IInv /\ [Next]_vars => IInv'
<1> SUFFICES ASSUME IInv, [Next]_vars PROVE IInv'
  OBVIOUS
<1>1. CASE Start
  BY <1>1, StartStep
<1>2. CASE Stop
  BY <1>2, StopStep
<1>3. CASE SelectFile
  BY <1>3, SelectFileStep
<1>4. CASE SelectFails
  BY <1>4, SelectFailsStep
<1>5. CASE Ask
  BY <1>5, AskStep
<1>6. CASE WrongLength \/ ExchangeFails \/ Refused \/ NoData
  BY <1>6, EmptyAnswerStep
<1>7. CASE Data
  BY <1>7, DataStep
<1>8. CASE FileFails
  BY <1>8, FileFailsStep
<1>9. CASE FileRead
  BY <1>9, FileReadStep
<1>10. CASE ExportResult
  BY <1>10, ExportResultStep
<1>11. CASE UNCHANGED vars
  BY <1>11, StutterStep
<1> QED
  BY <1>1, <1>2, <1>3, <1>4, <1>5, <1>6, <1>7, <1>8, <1>9, <1>10, <1>11 DEF Next, Worker

\* The inductive invariant: what each sink has had, by offsets into the chip's
\* file, wherever the read stands.
THEOREM StreamInvariant == Spec => []IInv
<1>1. Init => IInv
  BY InitIInv
<1>2. IInv /\ [Next]_vars => IInv'
  BY NextStep
<1> QED
  BY <1>1, <1>2, PTL DEF Spec

\* The look-ahead of DG2 and the parse buffer are never filled past their ends,
\* whatever the sizes of them and of the answers.
THEOREM StreamTypeCorrect == Spec => []TypeOK
<1>1. IInv => TypeOK
  BY DEF IInv
<1> QED
  BY <1>1, StreamInvariant, PTL

(***************************************************************************)
(* Out of reach.                                                           *)
(***************************************************************************)
\* The length in use is one the odd instruction reaches the end of, or what has
\* been read already; the error a file ends with fits the offset it ends at.
ReachInv ==
    /\ Streaming /\ sized => total <= FileMax \/ offset >= total
    /\ pc = "finish" => /\ error = "Unsupported" => offset \in ShortMax + 1 .. LongMax
                        /\ error = "Refused" => offset <= ShortMax
    /\ OutOfReachOnlyIfRefused

LEMMA BoundsType ==
    ASSUME TypeOK
    PROVE  /\ offset \in Nat /\ total \in Nat /\ sized \in BOOLEAN
           /\ ShortMax \in Nat /\ LongMax \in Nat /\ FileMax \in Nat /\ FileMax <= LongMax + 1
           /\ entries \in [Names -> EntryType] /\ File \in Names
  BY StreamAssumption, Facts DEF TypeOK

\* A step within a file that leaves the bytes and the entries alone.
LEMMA ReachKept ==
    ASSUME ReachInv, UNCHANGED <<offset, total, sized, entries>>,
           Streaming' => Streaming,
           pc' = "finish" /\ error' = "Unsupported" => offset \in ShortMax + 1 .. LongMax,
           pc' = "finish" /\ error' = "Refused" => offset <= ShortMax
    PROVE  ReachInv'
  BY DEF ReachInv, OutOfReachOnlyIfRefused

\* The end of a file, with an entry that is right.
LEMMA ReachEntered ==
    ASSUME TypeOK, ReachInv, ~Streaming' , NEW v, entries' = [entries EXCEPT ![File] = v],
           v.error = "Unsupported" => v.size \in ShortMax + 1 .. LongMax,
           v.error = "Refused" => v.size <= ShortMax
    PROVE  ReachInv'
<1>1. \A f \in Names : entries'[f] = IF f = File THEN v ELSE entries[f]
  BY BoundsType
<1>2. OutOfReachOnlyIfRefused'
  BY <1>1 DEF ReachInv, OutOfReachOnlyIfRefused
<1> QED
  BY <1>2 DEF ReachInv, Streaming

LEMMA ReachAsked == IInv /\ ReachInv /\ Ask => ReachInv'
<1> SUFFICES ASSUME IInv, ReachInv, Ask PROVE ReachInv'
  OBVIOUS
<1>1. UNCHANGED <<offset, total, sized, entries>> /\ Streaming
  BY DEF Ask, asking, loop, result, Streaming
<1>2. ~Over => offset <= LongMax
  <2>1. sized => total <= FileMax \/ offset >= total
    BY <1>1 DEF ReachInv
  <2>2. ~sized => offset = 0
    BY <1>1 DEF IInv, SinkInv
  <2> QED
    BY <2>1, <2>2, BoundsType DEF IInv, Over
<1>3. pc' = "finish" => error' \in {"Cancelled", "None"}
  <2>1. ~(offset > LongMax) \/ Over
    BY <1>2, BoundsType DEF IInv
  <2> QED
    BY <2>1 DEF Ask, Leave
<1> QED
  BY <1>1, <1>3, ReachKept

LEMMA ReachAnswered ==
    IInv /\ ReachInv /\ (WrongLength \/ ExchangeFails \/ Refused \/ NoData) => ReachInv'
<1> SUFFICES ASSUME IInv, ReachInv, WrongLength \/ ExchangeFails \/ Refused \/ NoData
             PROVE  ReachInv'
  OBVIOUS
<1>1. UNCHANGED <<offset, total, sized, entries>> /\ Waiting /\ Streaming
  BY DEF WrongLength, ExchangeFails, Refused, NoData, asking, loop, result, Waiting, Streaming
<1>2. \/ pc' # "finish"
      \/ error' \in {"CardLost", "Parse", "None"}
      \/ error' = "Unsupported" /\ Long
      \/ error' = "Refused" /\ ~Long
  BY DEF WrongLength, ExchangeFails, Refused, NoData, Leave
<1>3. offset <= LongMax
  BY <1>1 DEF IInv, SinkInv
<1>4. /\ Long => offset \in ShortMax + 1 .. LongMax
      /\ ~Long => offset <= ShortMax
  BY <1>3, BoundsType DEF IInv, Long
<1> QED
  BY <1>1, <1>2, <1>4, ReachKept

LEMMA ReachData == IInv /\ ReachInv /\ Data => ReachInv'
<1> SUFFICES ASSUME IInv, ReachInv, Data PROVE ReachInv'
  OBVIOUS
<1>0. TypeOK /\ SinkInv
  BY DEF IInv
<1>a. PICK len \in AnswerLengths :
        /\ total' = Total(len) /\ sized' = TRUE
        /\ offset' = offset + Len(SubSeq(FromChip(len), 1, Cut(len)))
        /\ pc' = "ask" \/ (pc' = "finish" /\ error' \in {"Cancelled", "None"})
  BY DEF Data, Leave
<1>b. PICK data : data = SubSeq(FromChip(len), 1, Cut(len))
  OBVIOUS
<1>1. /\ data = SubSeq(FromChip(len), 1, Cut(len))
      /\ total' = Total(len) /\ sized' = TRUE /\ offset' = offset + Len(data)
      /\ pc' = "ask" \/ (pc' = "finish" /\ error' \in {"Cancelled", "None"})
  BY <1>a, <1>b
<1>2. Waiting /\ Streaming /\ UNCHANGED entries
  BY DEF Data, Waiting, Streaming
<1>3. total' <= FileMax \/ offset' >= total'
  <2>1. CASE sized
    <3>1. total <= FileMax \/ offset >= total
      BY <1>2, <2>1 DEF ReachInv
    <3>2. offset < total
      BY <1>0, <1>2, <2>1 DEF SinkInv
    <3>3. total' = total
      BY <1>1, <2>1 DEF Total
    <3> QED
      BY <1>0, <3>1, <3>2, <3>3, BoundsType
  <2>2. CASE ~sized
    <3>1. total' \in 1 .. FileMax \/ total' = len
      BY <1>1, <2>2 DEF Total
    <3>2. total' = len => Len(data) = len /\ offset = 0
      BY <1>0, <1>1, <1>2, <2>2, AnswerWhole
    <3>3. offset' = offset + Len(data) /\ len \in Nat
      BY <1>1, StreamAssumption DEF AnswerLengths
    <3> QED
      BY <1>0, <3>1, <3>2, <3>3, BoundsType
  <2> QED
    BY <2>1, <2>2
<1>4. pc' = "finish" => error' \notin {"Unsupported", "Refused"}
  BY <1>1
<1> QED
  BY <1>1, <1>2, <1>3, <1>4 DEF ReachInv, OutOfReachOnlyIfRefused

LEMMA ReachStep == IInv /\ ReachInv /\ [Next]_vars => ReachInv'
<1> SUFFICES ASSUME IInv, ReachInv, [Next]_vars PROVE ReachInv'
  OBVIOUS
<1>0. TypeOK /\ ReachInv /\ ShortMax \in Nat
  BY BoundsType DEF IInv
<1>1. CASE Start
  <2>1. pc' = "select" /\ \A f \in Names : entries'[f].error = "None"
    BY <1>1 DEF Start, Pending
  <2> QED
    BY <2>1 DEF ReachInv, OutOfReachOnlyIfRefused, Streaming
<1>2. CASE Stop \/ UNCHANGED vars
  <2>1. UNCHANGED <<pc, error, offset, total, sized, entries>>
    BY <1>2 DEF Stop, vars, loop, result
  <2> QED
    BY <2>1 DEF ReachInv, OutOfReachOnlyIfRefused, Streaming
<1>3. CASE SelectFile
  <2>1. pc' = "ask" /\ sized' = FALSE /\ entries' = [entries EXCEPT ![File].state = "Reading"]
    BY <1>3 DEF SelectFile
  <2>2. \A f \in Names : entries'[f].error = entries[f].error /\ entries'[f].size = entries[f].size
    BY <1>0, <2>1, BoundsType DEF EntryType
  <2>3. OutOfReachOnlyIfRefused'
    BY <1>0, <2>2 DEF ReachInv, OutOfReachOnlyIfRefused
  <2> QED
    BY <2>1, <2>3 DEF ReachInv
<1>4. CASE SelectFails
  <2>1. PICK state \in {"Failed", "Absent"}, e \in {"Cancelled", "FileNotFound", "Refused", "CardLost"} :
           SelectEnds(state, e)
    BY <1>4 DEF SelectFails
  <2>2. PICK v : v = [Pending EXCEPT !.state = state, !.error = e]
    OBVIOUS
  <2>3. v.size = 0 /\ v.error = e
    BY <2>2 DEF Pending
  <2>4. entries' = [entries EXCEPT ![File] = v] /\ ~Streaming'
    BY <2>1, <2>2 DEF SelectEnds, NextFile, Streaming
  <2>5. /\ v.error = "Unsupported" => v.size \in ShortMax + 1 .. LongMax
        /\ v.error = "Refused" => v.size <= ShortMax
    BY <1>0, <2>3
  <2> QED
    BY <1>0, <2>4, <2>5, ReachEntered
<1>5. CASE Ask
  BY <1>5, ReachAsked
<1>6. CASE WrongLength \/ ExchangeFails \/ Refused \/ NoData
  BY <1>6, ReachAnswered
<1>7. CASE Data
  BY <1>7, ReachData
<1>8. CASE FileFails
  <2>1. PICK v : v = [entries[File] EXCEPT !.state = "Failed", !.size = offset, !.error = error]
    OBVIOUS
  <2>2. v.size = offset /\ v.error = error
    BY <1>0, <2>1, BoundsType DEF EntryType
  <2>3. entries' = [entries EXCEPT ![File] = v] /\ ~Streaming' /\ pc = "finish"
    BY <1>8, <2>1 DEF FileFails, NextFile, Streaming
  <2>4. /\ error = "Unsupported" => offset \in ShortMax + 1 .. LongMax
        /\ error = "Refused" => offset <= ShortMax
    BY <2>3 DEF ReachInv
  <2> QED
    BY <1>0, <2>2, <2>3, <2>4, ReachEntered
<1>9. CASE FileRead
  <2>1. PICK e \in {"None", "Parse"} :
           entries' = [entries EXCEPT
                ![File] = [state |-> IF parse.overflowed THEN "Failed" ELSE "Read",
                           size |-> offset, hash |-> Verdict,
                           error |-> IF parse.overflowed THEN "BufferTooSmall" ELSE e]]
    BY <1>9 DEF FileRead
  <2>2. PICK v : v = [state |-> IF parse.overflowed THEN "Failed" ELSE "Read",
                      size |-> offset, hash |-> Verdict,
                      error |-> IF parse.overflowed THEN "BufferTooSmall" ELSE e]
    OBVIOUS
  <2>3. v.error \in {"None", "Parse", "BufferTooSmall"}
    BY <2>2
  <2>4. entries' = [entries EXCEPT ![File] = v] /\ ~Streaming'
    BY <1>9, <2>1, <2>2 DEF FileRead, NextFile, Streaming
  <2> QED
    BY <1>0, <2>3, <2>4, ReachEntered
<1>10. CASE ExportResult
  <2>1. UNCHANGED entries /\ pc' = "idle"
    BY <1>10 DEF ExportResult, result
  <2> QED
    BY <2>1 DEF ReachInv, OutOfReachOnlyIfRefused, Streaming
<1> QED
  BY <1>1, <1>2, <1>3, <1>4, <1>5, <1>6, <1>7, <1>8, <1>9, <1>10 DEF Next, Worker

\* The reader itself never runs out of offsets, whatever length a file gives and
\* however the chip cuts its answers: a file is "Unsupported" only past the short
\* form's reach, by a chip that refuses the long one.
THEOREM StreamOutOfReach == Spec => []OutOfReachOnlyIfRefused
<1>1. Init => ReachInv
  BY DEF Init, Pending, ReachInv, OutOfReachOnlyIfRefused, Streaming
<1>2. IInv /\ ReachInv /\ [Next]_vars => ReachInv'
  BY ReachStep
<1>3. ReachInv => OutOfReachOnlyIfRefused
  BY DEF ReachInv
<1> QED
  BY <1>1, <1>2, <1>3, StreamInvariant, PTL DEF Spec

\* The properties' words in those of the invariant.
LEMMA Words ==
    /\ \A n : Saved(n) = SavedIn(ex, n)
    /\ \A n : (Made(n) => MadeIn(ex, n)) /\ (MadeIn(ex, n) => Made(n))
    /\ \A f, n : First(f, n) = Slice(doc.chip, f, 0, n)
<1>1. \A n : Saved(n) = SavedIn(ex, n)
  BY DEF Saved, Made, SavedIn, MadeIn
<1>2. \A n : (Made(n) => MadeIn(ex, n)) /\ (MadeIn(ex, n) => Made(n))
  BY DEF Made, MadeIn
<1>3. 0 + 1 = 1
  OBVIOUS
<1>4. ASSUME NEW f, NEW n PROVE First(f, n) = Slice(doc.chip, f, 0, n)
  <2>1. Bytes(f) = Content(doc.chip, f)
    BY DEF Bytes, Content
  <2> QED
    BY <1>3, <2>1 DEF First, Slice
<1> QED
  BY <1>1, <1>2, <1>4

\* A slice to the end of the file, and one of the whole file.
LEMMA WholeIs ==
    ASSUME TypeOK, NEW f \in Names
    PROVE  /\ \A n : From(f, n) = Slice(doc.chip, f, n, doc.chip[f].length)
           /\ Bytes(f) = Slice(doc.chip, f, 0, doc.chip[f].length)
<1>1. PICK c \in [Names -> ChipFiles] : c = doc.chip
  BY Facts
<1>2. PICK s : s = Content(c, f)
  OBVIOUS
<1>3. s \in Seq(Byte) /\ Len(s) = c[f].length
  BY <1>2, ContentType
<1>4. Bytes(f) = s
  BY <1>1, <1>2 DEF Bytes, Content
<1>5. SubSeq(s, 1, Len(s)) = s
  BY <1>3, SubSeqFull
<1>6. 0 + 1 = 1
  OBVIOUS
<1>7. Slice(c, f, 0, c[f].length) = s
  BY <1>2, <1>3, <1>5, <1>6 DEF Slice
<1>8. \A n : From(f, n) = Slice(c, f, n, c[f].length)
  BY <1>2, <1>3, <1>4 DEF From, Slice
<1> QED
  BY <1>1, <1>4, <1>7, <1>8

LEMMA NothingJoined ==
    ASSUME NEW c \in [Names -> ChipFiles], NEW f \in Names, NEW o \in Nat, o <= c[f].length,
           NEW s, s = Slice(c, f, 0, o)
    PROVE  <<>> \o s = s /\ s \o <<>> = s /\ Slice(c, f, 0, 0) = <<>>
<1>1. PICK z \in Nat : z = 0
  OBVIOUS
<1>2. s \in Seq(Byte)
  BY <1>1, SliceLength
<1>3. Slice(c, f, z, z) = <<>>
  BY <1>1, NothingSliced
<1> QED
  BY <1>1, <1>2, <1>3, ConcatEmptySeq

\* The hash, the parse buffer and the export have had the same bytes, the first
\* ones of the chip's file, however the chip cuts its answers and wherever the
\* look-ahead of DG2 ends.
THEOREM StreamSinksAgree == Spec => []SinksAgree
<1>1. IInv => SinksAgree
  <2> SUFFICES ASSUME IInv, Streaming
               PROVE  /\ digest.active => digest.bytes = First(File, offset)
                      /\ parse.on /\ ~parse.overflowed => parse.bytes = First(File, offset)
                      /\ Exporting => Saved(File) \o head = First(File, offset)
    BY DEF SinksAgree
  <2>0. TypeOK /\ SinkInv /\ FileInv
    BY DEF IInv
  <2>1. PICK c \in [Names -> ChipFiles], f \in Names, o \in Nat :
           c = doc.chip /\ f = File /\ o = offset
    BY <2>0, Facts
  <2>2. PICK s : s = Slice(c, f, 0, o)
    OBVIOUS
  <2>3. First(File, offset) = s
    BY <2>1, <2>2, Words
  <2>4. /\ digest.active => digest.bytes = s
        /\ parse.on /\ ~parse.overflowed => parse.bytes = s
        /\ o <= c[f].length
        /\ looking => head = s
        /\ ~looking => head = <<>>
    BY <2>0, <2>1, <2>2 DEF SinkInv
  <2>5. <<>> \o s = s /\ s \o <<>> = s /\ Slice(c, f, 0, 0) = <<>>
    BY <2>2, <2>4, NothingJoined
  <2>6. ASSUME Exporting PROVE Saved(File) \o head = s
    <3>1. SavedIn(ex, f) = Slice(c, f, 0, IF looking THEN 0 ELSE o)
      BY <2>0, <2>1, <2>6 DEF FileInv, Standing
    <3>2. Saved(File) = SavedIn(ex, f)
      BY <2>1, Words
    <3>3. CASE looking
      BY <2>4, <2>5, <3>1, <3>2, <3>3
    <3>4. CASE ~looking
      BY <2>2, <2>4, <2>5, <3>1, <3>2, <3>4
    <3> QED
      BY <3>3, <3>4
  <2> QED
    BY <2>3, <2>4, <2>6
<1> QED
  BY <1>1, StreamInvariant, PTL

\* A file that is done is on the card to the length the result gives; a card that
\* fails at any write leaves a beginning, never a gap.
THEOREM StreamNothingLost == Spec => []NothingLost
<1>1. IInv => NothingLost
  <2> SUFFICES ASSUME IInv PROVE NothingLost
    OBVIOUS
  <2>0. TypeOK /\ DoneInv
    BY DEF IInv
  <2>1. PICK c \in [Names -> ChipFiles] : c = doc.chip
    BY <2>0, Facts
  <2>2. Exporting => \A f \in Names :
           (~Streaming \/ f # File) => Saved(f) = First(f, entries[f].size)
    BY <2>0, Words DEF DoneInv
  <2>3. Kept(ex, c, face)
    BY <2>0, <2>1 DEF DoneInv
  <2>4. ASSUME NEW f \in Names PROVE IsPrefix(Saved(f), Bytes(f))
    <3>1. PICK k \in 0 .. c[f].length : SavedIn(ex, f) = Slice(c, f, 0, k)
      BY <2>3 DEF Kept
    <3>2. c[f].length \in Nat
      BY ContentType
    <3>3. PICK z \in Nat : z = 0
      OBVIOUS
    <3>4. k \in Nat /\ k <= c[f].length
      BY <3>1, <3>2
    <3>5. IsPrefix(Slice(c, f, z, k), Slice(c, f, z, c[f].length))
      BY <3>4, SlicePrefix
    <3>6. Saved(f) = Slice(c, f, z, k) /\ Bytes(f) = Slice(c, f, z, c[f].length)
      BY <2>0, <2>1, <3>1, <3>3, Words, WholeIs
    <3> QED
      BY <3>5, <3>6
  <2>5. IsPrefix(Saved(Face), From(Image, face.offset))
    <3>1. PICK k \in 0 .. c[Image].length : SavedIn(ex, Face) = Slice(c, Image, face.offset, k)
      BY <2>3 DEF Kept
    <3>2. c[Image].length \in Nat /\ Image \in Names
      BY ContentType, NamesApart
    <3>3. PICK o \in Nat : o = face.offset
      BY <2>0, Facts
    <3>4. k \in Nat /\ k <= c[Image].length
      BY <3>1, <3>2
    <3>5. IsPrefix(Slice(c, Image, o, k), Slice(c, Image, o, c[Image].length))
      BY <3>2, <3>4, SlicePrefix
    <3>6. Saved(Face) = Slice(c, Image, o, k)
      BY <3>1, <3>3, Words
    <3>7. From(Image, face.offset) = Slice(c, Image, o, c[Image].length)
      BY <2>0, <2>1, <3>2, <3>3, WholeIs
    <3> QED
      BY <3>5, <3>6, <3>7
  <2> QED
    BY <2>2, <2>4, <2>5 DEF NothingLost
<1> QED
  BY <1>1, StreamInvariant, PTL

\* A slice that runs to some length of what is on the card of DG2 is the rest of it.
LEMMA TailIsRest ==
    ASSUME NEW c \in [Names -> ChipFiles], NEW f \in Names, NEW o \in Nat, NEW k \in Nat,
           k <= c[f].length, NEW s, s = Slice(c, f, 0, k)
    PROVE  SubSeq(s, o + 1, Len(s)) = Slice(c, f, o, Len(s))
<1>1. PICK z \in Nat, m \in Nat \ {0} : z = 0 /\ m = o + 1
  OBVIOUS
<1>2. s = Slice(c, f, z, k) /\ z <= k /\ k <= k - z
  BY <1>1
<1>3. Part(Slice(c, f, z, k), m, k) = Slice(c, f, z + m - 1, z + k)
  BY <1>2, SliceOfSlice
<1>4. z + m - 1 = o /\ z + k = k
  BY <1>1
<1>5. Len(s) = k
  BY HeadLength
<1> QED
  BY <1>1, <1>2, <1>3, <1>4, <1>5 DEF Part

\* The image file is the rest of the exported DG2, from the image on, whatever the
\* answers and the look-ahead cut.
THEOREM StreamImageIsTheTail == Spec => []ImageIsTheTail
<1>1. IInv => ImageIsTheTail
  <2> SUFFICES ASSUME IInv, Exporting, Made(Face)
               PROVE  /\ face.has
                      /\ Saved(Face) = SubSeq(Saved(Image), face.offset + 1, Len(Saved(Image)))
    BY DEF ImageIsTheTail
  <2>0. TypeOK /\ DoneInv
    BY DEF IInv
  <2>1. PICK c \in [Names -> ChipFiles] : c = doc.chip
    BY <2>0, Facts
  <2>2. PICK o \in Nat : o = face.offset
    BY <2>0, Facts
  <2>3. PICK s : s = Saved(Image)
    OBVIOUS
  <2>4. PICK k \in 0 .. c[Image].length : s = Slice(c, Image, 0, k)
    BY <2>0, <2>1, <2>3, Words, NamesApart DEF DoneInv, Kept
  <2>5. c[Image].length \in Nat /\ Image \in Names /\ k \in Nat /\ k <= c[Image].length
    BY <2>4, ContentType, NamesApart
  <2>6. face.has /\ Saved(Face) = Slice(c, Image, o, Len(s))
    <3>1. face.has /\ SavedIn(ex, Face) = Slice(c, Image, face.offset, Len(SavedIn(ex, Image)))
      BY <2>0, <2>1, Words DEF DoneInv, TailOfImage
    <3>2. SavedIn(ex, Face) = Saved(Face) /\ SavedIn(ex, Image) = s
      BY <2>3, Words
    <3> QED
      BY <2>2, <3>1, <3>2
  <2>7. SubSeq(s, o + 1, Len(s)) = Slice(c, Image, o, Len(s))
    BY ZenonT(60), <2>4, <2>5, TailIsRest
  <2> QED
    BY <2>2, <2>3, <2>6, <2>7
<1> QED
  BY <1>1, StreamInvariant, PTL

\* A read that says it is exported has its report, with the counts of its entries,
\* its MRZ, every file it lists as read, and whole those that match EF.SOD.
THEOREM StreamExportedIsComplete == Spec => []ExportedIsComplete
<1>1. IInv => ExportedIsComplete
  <2> SUFFICES ASSUME IInv, exported
               PROVE  /\ Saved("report.txt") = Text
                      /\ matched = Cardinality({f \in Names : entries[f].hash = "Match"})
                      /\ checked = Cardinality({f \in Names :
                                                   entries[f].hash \in {"Match", "Mismatch"}})
                      /\ hasMrz => Saved("mrz.txt") = Text
                      /\ \A f \in Names :
                            /\ entries[f].state = "Read" => Made(f)
                            /\ entries[f].hash = "Match" => Saved(f) = Bytes(f)
    BY DEF ExportedIsComplete
  <2>0. TypeOK /\ DoneInv /\ ResultInv
    BY DEF IInv
  <2>1. Exporting /\ ~Streaming
    BY <2>0 DEF ResultInv, Streaming
  <2>2. /\ Saved("report.txt") = Text
        /\ hasMrz => Saved("mrz.txt") = Text
    BY <2>0, Words DEF ResultInv
  <2>3. matched = Cardinality({f \in Names : entries[f].hash = "Match"})
    <3>1. Marked({"Match"}) = {f \in Names : entries[f].hash = "Match"}
      BY DEF Marked
    <3> QED
      BY <2>0, <3>1 DEF ResultInv
  <2>4. checked = Cardinality({f \in Names : entries[f].hash \in {"Match", "Mismatch"}})
    BY <2>0 DEF ResultInv, Marked
  <2>5. ASSUME NEW f \in Names
        PROVE  /\ entries[f].state = "Read" => Made(f)
               /\ entries[f].hash = "Match" => Saved(f) = Bytes(f)
    <3>1. /\ SavedIn(ex, f) = Slice(doc.chip, f, 0, entries[f].size)
          /\ entries[f].state = "Read" => MadeIn(ex, f)
          /\ entries[f].hash = "Match" => entries[f].size = doc.chip[f].length
      BY <2>0, <2>1 DEF DoneInv
    <3>2. Bytes(f) = Slice(doc.chip, f, 0, doc.chip[f].length)
      BY <2>0, WholeIs
    <3> QED
      BY <3>1, <3>2, Words
  <2> QED
    BY <2>2, <2>3, <2>4, <2>5
<1> QED
  BY <1>1, StreamInvariant, PTL
=============================================================================
