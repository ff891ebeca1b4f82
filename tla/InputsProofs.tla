---------------------------- MODULE InputsProofs ----------------------------
(***************************************************************************)
(* Proofs about the inputs: the length to ask for, for every frame; the    *)
(* date field, for every clock, whatever is stored; the TLV reader, for    *)
(* every buffer; the choice of the PACE to run, for every file; the        *)
(* verdict on a file, for every EF.SOD of up to sixteen entries; and the   *)
(* machine readable zone, for every document.                              *)
(***************************************************************************)
EXTENDS InputsInvariant, FiniteSetTheorems, SequenceTheorems, TLAPS

(***************************************************************************)
(* Frames.  A file is asked for in the clear, or sealed under a cipher of  *)
(* eight or sixteen bytes.                                                 *)
(***************************************************************************)
LEMMA PayloadIs ==
    ASSUME NEW fsd \in Nat
    PROVE  FramePayload(fsd) \in Nat
BY DEF FramePayload, FrameOverhead, FrameDefault

LEMMA FrameLimitIs == \A block \in Blocks : FrameLimit(block) = Limit(block)
BY DEF FrameLimit, MaxInf, SmOverhead, Limit, Blocks

\* Most bytes whose answer a frame with room for p takes, 0 if it takes none.
LEMMA MaxLeIs ==
    ASSUME NEW fsd \in Nat, NEW block \in Blocks, NEW p, p = FramePayload(fsd)
    PROVE  /\ p \in Nat /\ MaxLe(fsd, block) \in 0 .. 256
           /\ block = 0 => MaxLe(fsd, 0) = 0 \/ MaxLe(fsd, 0) <= p - 2
           /\ block = 8 => MaxLe(fsd, 8) = 0 \/ (p > 28 /\ MaxLe(fsd, 8) <= ((p - 28) \div 8) * 8)
           /\ block = 16 => MaxLe(fsd, 16) = 0
                            \/ (p > 36 /\ MaxLe(fsd, 16) <= ((p - 36) \div 16) * 16)
<1>1. p \in Nat BY PayloadIs
<1>2. CASE block = 0 BY <1>1, <1>2 DEF MaxLe, PlainOverhead, SmOverhead, LeMax, Least
<1>3. CASE block = 8 BY <1>1, <1>3 DEF MaxLe, PlainOverhead, SmOverhead, LeMax, Least
<1>4. CASE block = 16 BY <1>1, <1>4 DEF MaxLe, PlainOverhead, SmOverhead, LeMax, Least
<1> QED BY <1>1, <1>2, <1>3, <1>4 DEF Blocks

\* The length asked for is at least one byte and no more than either bound.
LEMMA ChunkIs ==
    ASSUME NEW fsd \in Nat, NEW block \in Blocks
    PROVE  /\ ChunkSize(fsd, block) \in 1 .. Limit(block)
           /\ MaxLe(fsd, block) > 0 => ChunkSize(fsd, block) <= MaxLe(fsd, block)
<1>1. PICK le \in 0 .. 256 : le = MaxLe(fsd, block) BY MaxLeIs
<1>2. FrameLimit(block) = Limit(block) /\ Limit(block) \in {251, 231, 223}
  BY FrameLimitIs DEF Limit
<1>3. ChunkSize(fsd, block) = IF le = 0 \/ le > Limit(block) THEN Limit(block) ELSE le
  BY <1>1, <1>2 DEF ChunkSize
<1> QED BY <1>1, <1>2, <1>3

LEMMA AskedIs ==
    ASSUME NEW fsd \in Nat, NEW block \in Blocks, NEW sw2 \in 0 .. 255,
           NEW n \in Asked(fsd, block, sw2)
    PROVE  n \in 1 .. ChunkSize(fsd, block)
<1>1. ChunkSize(fsd, block) \in Nat /\ ChunkSize(fsd, block) >= 1 BY ChunkIs DEF Limit
<1>2. AskedAgain(fsd, block, sw2) \in 1 .. ChunkSize(fsd, block)
  BY <1>1 DEF AskedAgain, Least, LeMax
<1> QED BY <1>2 DEF Asked

LEMMA AskedFits ==
    ASSUME NEW fsd \in Nat, NEW block \in Blocks, NEW n \in 1 .. ChunkSize(fsd, block)
    PROVE  Fits(n, fsd, block)
<1>1. PICK p : p = FramePayload(fsd) OBVIOUS
<1>2. PICK c : c = ChunkSize(fsd, block) OBVIOUS
<1>3. PICK le : le = MaxLe(fsd, block) OBVIOUS
<1>4. /\ c \in 1 .. Limit(block) /\ (le > 0 => c <= le) /\ n \in 1 .. c
      /\ p \in Nat /\ le \in 0 .. 256
  BY <1>1, <1>2, <1>3, ChunkIs, MaxLeIs
<1>5. CASE block = 0
  <2>1. n <= 251 /\ (le > 0 => n <= p - 2)
    <3>1. le = 0 \/ le <= p - 2 BY <1>1, <1>3, <1>5, MaxLeIs
    <3> QED BY <1>4, <1>5, <3>1 DEF Limit
  <2>2. AnswerBytes(n, block) = n + 2 BY <1>5 DEF AnswerBytes
  <2> QED BY <1>1, <1>3, <1>4, <2>1, <2>2 DEF Fits, MaxInf
<1>6. CASE block = 8
  <2>1. n <= 231 /\ (le > 0 => p > 28 /\ n <= ((p - 28) \div 8) * 8)
    <3>1. le = 0 \/ (p > 28 /\ le <= ((p - 28) \div 8) * 8) BY <1>1, <1>3, <1>6, MaxLeIs
    <3> QED BY <1>4, <1>6, <3>1 DEF Limit
  <2>2. PICK s \in Nat : s = 1 + ((n \div 8) + 1) * 8 BY <1>4
  <2>3. s <= 233 /\ (le > 0 => s <= p - 19) BY <1>4, <2>1, <2>2
  <2>4. AnswerBytes(n, block) = (1 + EncodedLengthSize(s) + s) + 4 + 10 + 2
    BY <1>6, <2>2 DEF AnswerBytes
  <2>5. EncodedLengthSize(s) \in {1, 2} BY <2>3 DEF EncodedLengthSize
  <2> QED BY <1>1, <1>3, <1>4, <2>3, <2>4, <2>5 DEF Fits, MaxInf
<1>7. CASE block = 16
  <2>1. n <= 223 /\ (le > 0 => p > 36 /\ n <= ((p - 36) \div 16) * 16)
    <3>1. le = 0 \/ (p > 36 /\ le <= ((p - 36) \div 16) * 16) BY <1>1, <1>3, <1>7, MaxLeIs
    <3> QED BY <1>4, <1>7, <3>1 DEF Limit
  <2>2. PICK s \in Nat : s = 1 + ((n \div 16) + 1) * 16 BY <1>4
  <2>3. s <= 233 /\ (le > 0 => s <= p - 19) BY <1>4, <2>1, <2>2
  <2>4. AnswerBytes(n, block) = (1 + EncodedLengthSize(s) + s) + 4 + 10 + 2
    BY <1>7, <2>2 DEF AnswerBytes
  <2>5. EncodedLengthSize(s) \in {1, 2} BY <2>3 DEF EncodedLengthSize
  <2> QED BY <1>1, <1>3, <1>4, <2>3, <2>4, <2>5 DEF Fits, MaxInf
<1> QED BY <1>5, <1>6, <1>7 DEF Blocks

\* Whatever frame the transceiver announces and whatever length a card names: the
\* reader asks for something, its answer fits the buffer it is received in, and the
\* frame where the frame has room for any answer.
THEOREM AnswersFit ==
    ASSUME NEW fsd \in Nat, NEW block \in Blocks, NEW sw2 \in 0 .. 255
    PROVE  ChunkSize(fsd, block) >= 1 /\ \A n \in Asked(fsd, block, sw2) : Fits(n, fsd, block)
<1>1. ChunkSize(fsd, block) >= 1 BY ChunkIs DEF Limit
<1>2. ASSUME NEW n \in Asked(fsd, block, sw2) PROVE Fits(n, fsd, block)
  <2>1. n \in 1 .. ChunkSize(fsd, block) BY <1>2, AskedIs
  <2> QED BY <2>1, AskedFits
<1> QED BY <1>1, <1>2

(***************************************************************************)
(* The date field.                                                         *)
(***************************************************************************)
LEMMA DateInitInv == DateInit => DateInv
<1> SUFFICES ASSUME DateInit PROVE DateInv
  OBVIOUS
<1>1. CurrentYear % 100 \in 0 .. 99 BY DateAssumption
<1> QED BY <1>1 DEF DateInit, DateInv, DateType

\* A step of the arrows stays within the field it changes, and every step but OK
\* takes back what was handed.
LEMMA DateStep == DateInv /\ [DateNext]_dateVars => DateInv'
<1> SUFFICES ASSUME DateInv, [DateNext]_dateVars PROVE DateInv'
  OBVIOUS
<1>1. CASE \E delta \in {-1, 1} : Step(delta)
  <2>1. PICK delta \in {-1, 1} : Step(delta) BY <1>1
  <2>2. year' \in 0 .. 99 /\ month' \in 0 .. 99 /\ day' \in 0 .. 99
    BY <2>1 DEF Step, Wrapped, DateInv, DateType
  <2> QED BY <2>1, <2>2 DEF Step, DateInv, DateType
<1>2. CASE \E by \in {1, 2} : Turn(by) BY <1>2 DEF Turn, fields, DateInv, DateType
<1>3. CASE Ok
  <2>1. /\ handed' # <<>> => handed' = <<year, month, day>> /\ IsValid
        /\ UNCHANGED <<year, month, day, future>>
    BY <1>3 DEF Ok, fields
  <2>2. IsValid => IsValid' BY <2>1 DEF IsValid, ResolveYear
  <2> QED BY <2>1, <2>2 DEF DateInv, DateType
<1>4. CASE \E ahead \in BOOLEAN, stored \in Stored : Open(ahead, stored)
  <2>1. PICK ahead \in BOOLEAN, stored \in Stored : Open(ahead, stored) BY <1>4
  <2>2. CASE stored = <<>>
    <3>1. year' = CurrentYear % 100 /\ month' = 1 /\ day' = 1 /\ handed' = <<>>
      BY <2>1, <2>2 DEF Open
    <3>2. CurrentYear % 100 \in 0 .. 99 BY DateAssumption
    <3> QED BY <3>1, <3>2 DEF DateInv, DateType
  <2>3. CASE stored # <<>>
    <3>1. stored \in (0 .. 99) \X (0 .. 99) \X (0 .. 99) BY <2>3, DateAssumption
    <3>2. year' = stored[1] /\ month' = stored[2] /\ day' = stored[3] /\ handed' = <<>>
      BY <2>1, <2>3 DEF Open
    <3> QED BY <3>1, <3>2 DEF DateInv, DateType
  <2> QED BY <2>2, <2>3
<1>5. CASE UNCHANGED dateVars
  <2>1. UNCHANGED <<year, month, day, future, handed>> BY <1>5 DEF dateVars, fields
  <2>2. IsValid => IsValid' BY <2>1 DEF IsValid, ResolveYear
  <2> QED BY <2>1, <2>2 DEF DateInv, DateType
<1> QED BY <1>1, <1>2, <1>3, <1>4, <1>5 DEF DateNext

\* The two rules for the century agree on 29 February.
LEMMA BothCenturies ==
    ASSUME NEW yy \in 0 .. 99
    PROVE  /\ yy # 0 => LeapYear(1900 + yy) = LeapYear(2000 + yy)
           /\ \A f : ShownYear(yy, f) \in {1900 + yy, 2000 + yy}
           /\ \A f : yy = 0 => ShownYear(yy, f) = 2000 + yy
<1>1. ASSUME yy # 0
      PROVE  /\ (1900 + yy) % 4 = yy % 4 /\ (2000 + yy) % 4 = yy % 4
             /\ (1900 + yy) % 100 # 0 /\ (2000 + yy) % 100 # 0
             /\ (1900 + yy) % 400 # 0 /\ (2000 + yy) % 400 # 0
  BY <1>1
<1>2. yy # 0 => LeapYear(1900 + yy) = LeapYear(2000 + yy) BY <1>1 DEF LeapYear
<1>3. /\ \A f : ShownYear(yy, f) \in {1900 + yy, 2000 + yy}
      /\ \A f : yy = 0 => ShownYear(yy, f) = 2000 + yy
  BY DEF ShownYear
<1> QED BY <1>2, <1>3

LEMMA DateInvSuffices == DateInv => HandsBackRealDates
<1> SUFFICES ASSUME DateInv, handed # <<>>,
                    NEW y \in {ResolveYear, ShownYear(year, future)}
             PROVE  handed = <<year, month, day>> /\ day \in 1 .. DaysPerMonth(LeapYear(y), month)
  BY DEF HandsBackRealDates
<1>1. handed = <<year, month, day>> /\ IsValid /\ year \in 0 .. 99 /\ day \in 0 .. 99
  BY DEF DateInv, DateType
<1>2. PICK r : r = ResolveYear OBVIOUS
<1>3. r \in {1900 + year, 2000 + year} /\ (year = 0 => r = 2000 + year)
  BY <1>1, <1>2, DateAssumption DEF ResolveYear
<1>4. y \in {1900 + year, 2000 + year} /\ (year = 0 => y = 2000 + year)
  BY <1>1, <1>2, <1>3, BothCenturies
<1>5. LeapYear(y) = LeapYear(r) BY <1>1, <1>3, <1>4, BothCenturies
<1>6. DaysPerMonth(LeapYear(y), month) = DaysPerMonth(LeapYear(r), month) BY <1>5
<1>7. day >= 1 /\ day <= DaysPerMonth(LeapYear(r), month) BY <1>1, <1>2 DEF IsValid
<1>8. PICK d \in {28, 29, 30, 31} : d = DaysPerMonth(LeapYear(r), month)
  BY DEF DaysPerMonth
<1> QED BY <1>1, <1>6, <1>7, <1>8

\* Whatever keys led there, and whatever was stored: a date that is handed back is
\* the one in the fields and exists, in the century of the clock and in the one
\* that is shown.
THEOREM HandsBackOnlyRealDates == DateSpec => []HandsBackRealDates
<1> QED BY DateInitInv, DateStep, DateInvSuffices, PTL DEF DateSpec

(***************************************************************************)
(* The TLV reader.  Its walks are recursive functions of a buffer of any   *)
(* length, so each is shown first to have a value, by induction, and that  *)
(* to be what its equation says; the rest follows from the equation.       *)
(***************************************************************************)
\* Induction over the naturals without an operator for a parameter: a set of
\* numbers that has 0 and with every number the next has them all, for it could
\* miss a k only if the finite set of those it misses up to k went one to one,
\* n to n - 1, into itself without k.
LEMMA SetInduction ==
    ASSUME NEW A \in SUBSET Nat, 0 \in A, \A n \in A : n + 1 \in A
    PROVE  A = Nat
<1> SUFFICES ASSUME NEW k \in Nat, k \notin A PROVE FALSE
  OBVIOUS
<1> DEFINE C == {n \in 0 .. k : n \notin A}
           D == C \ {k}
           f == [n \in C |-> n - 1]
<1>1. IsFiniteSet(C) /\ k \in C
  <2>1. IsFiniteSet(0 .. k) BY FS_Interval
  <2> QED BY <2>1, FS_Subset
<1>2. IsFiniteSet(D) /\ Cardinality(D) = Cardinality(C) - 1 /\ Cardinality(C) \in Nat
  BY <1>1, FS_RemoveElement, FS_CardinalityType
<1>3. ASSUME NEW n \in C PROVE n \in Nat /\ n - 1 \in D
  <2>1. n \in 0 .. k /\ n # 0 OBVIOUS
  <2>2. n - 1 \notin A BY <2>1
  <2> QED BY <2>1, <2>2
<1>4. f \in Injection(C, D) BY <1>3 DEF Injection, IsInjective
<1>5. Cardinality(C) <= Cardinality(D)
  BY <1>1, <1>2, <1>4, FS_Injection DEF ExistsInjection
<1> QED BY <1>2, <1>5

\* The bytes of a cut are those of the sequence.
LEMMA CutIs ==
    ASSUME NEW S, NEW s \in Seq(S), NEW a, NEW k, Room(s, a, k)
    PROVE  /\ Cut(s, a, k) \in Seq(S)
           /\ Len(Cut(s, a, k)) = k
           /\ \A i \in 1 .. k : Cut(s, a, k)[i] = At(s, a, i)
<1>. PICK n \in Nat : Len(s) = n BY LenProperties
<1>. a \in Nat /\ k \in Nat /\ a + k <= n BY DEF Room
<1>1. s \in [1 .. n -> S] BY LenProperties
<1>2. \A i \in a + 1 .. a + k : s[i] \in S BY <1>1
<1>3. a + 1 <= a + k + 1 /\ a + k \in Int /\ a + 1 \in Int OBVIOUS
<1>4. /\ SubSeq(s, a + 1, a + k) \in Seq(S)
      /\ Len(SubSeq(s, a + 1, a + k)) = IF a + 1 <= a + k THEN (a + k) - (a + 1) + 1 ELSE 0
      /\ \A i \in 1 .. (a + k) - (a + 1) + 1 : SubSeq(s, a + 1, a + k)[i] = s[(a + 1) + i - 1]
  BY <1>2, <1>3, SubSeqProperties
<1>5. (a + k) - (a + 1) + 1 = k /\ (a + 1 <= a + k <=> k > 0) OBVIOUS
<1>6. \A i \in 1 .. k : (a + 1) + i - 1 = a + i OBVIOUS
<1> QED
  <2> DEFINE c == SubSeq(s, a + 1, a + k)
  <2>1. c \in Seq(S) /\ Len(c) = k BY <1>4, <1>5
  <2>2. ASSUME NEW i \in 1 .. k PROVE c[i] = s[a + i] BY <1>4, <1>5, <1>6
  <2> HIDE DEF c
  <2>3. Cut(s, a, k) = c BY DEF Cut, c
  <2> QED BY <2>1, <2>2, <2>3 DEF At

\* A byte by its bounds, which the solver takes better than the interval.
LEMMA ByteIs == \A x : x \in Byte <=> x \in Nat /\ x < 256
  BY DEF Byte

LEMMA BytesAre ==
    ASSUME NEW b \in Seq(Byte)
    PROVE  \A i \in 1 .. Len(b) : b[i] \in Nat /\ b[i] < 256
  BY ElementOfSeq, ByteIs

\* Number of one to four bytes, digit by digit.
LEMMA NumberIs ==
    ASSUME NEW b \in Seq(Byte), b # <<>>
    PROVE  /\ Len(b) = 1 => Number(b) = BigEndian(0, 0, b[1])
           /\ Len(b) = 2 => Number(b) = BigEndian(0, b[1], b[2])
           /\ Len(b) = 3 => Number(b) = BigEndian(b[1], b[2], b[3])
           /\ Len(b) = 4 => Number(b) = IF b[1] # 0 THEN Huge
                                        ELSE BigEndian(b[2], b[3], b[4])
<1>. PICK m \in Nat : Len(b) = m /\ m > 0 BY LenProperties, EmptySeq
<1>1. Number(b) = IF m = 4 /\ b[1] # 0 THEN Huge
                  ELSE BigEndian(IF 2 < m THEN b[m - 2] ELSE 0,
                                 IF 1 < m THEN b[m - 1] ELSE 0,
                                 IF 0 < m THEN b[m - 0] ELSE 0)
  BY DEF Number, BigEndian
<1> QED BY <1>1

\* What Min is of a set of numbers.
LEMMA LeastOf ==
    ASSUME NEW A \in SUBSET Nat, A # {}
    PROVE  Min(A) \in A /\ \A y \in A : Min(A) <= y
<1>1. \E x \in A : \A y \in A : x <= y
  <2> SUFFICES ASSUME \A x \in A : \E y \in A : y < x PROVE FALSE
    OBVIOUS
  <2> DEFINE B == {n \in Nat : \A m \in A : n <= m}
  <2>1. 0 \in B OBVIOUS
  <2>2. ASSUME NEW n \in B PROVE n + 1 \in B
    <3>1. n \notin A
      <4> SUFFICES ASSUME n \in A PROVE FALSE
        OBVIOUS
      <4>1. PICK y \in A : y < n OBVIOUS
      <4> QED BY <4>1
    <3> QED BY <3>1
  <2>3. B = Nat
    <3>1. B \in SUBSET Nat OBVIOUS
    <3> HIDE DEF B
    <3> QED BY <3>1, <2>1, <2>2, SetInduction
  <2>4. PICK x \in A : TRUE OBVIOUS
  <2>5. x + 1 \in B BY <2>3
  <2> QED BY <2>5
<1> QED BY <1>1 DEF Min

\* Three bytes stand for a number below 2^24, one byte for itself.
LEMMA BigEndianIs ==
    /\ \A r \in Nat : BigEndian(0, 0, r) = r
    /\ \A p, q, r \in Nat : p < 256 /\ q < 256 /\ r < 256 =>
          /\ BigEndian(p, q, r) \in Nat
          /\ BigEndian(p, q, r) < Huge
  BY DEF BigEndian, Huge

\* A number is that of three bytes exactly when they are its digits.
LEMMA ThreeDigits ==
    \A n, p, q, r \in Nat :
        p < 256 /\ q < 256 /\ r < 256 =>
        (n = BigEndian(p, q, r) <=>
            /\ n \div 65536 < 256
            /\ p = (n \div 65536) % 256 /\ q = (n \div 256) % 256 /\ r = n % 256)
  BY DEF BigEndian

LEMMA BelowHuge == ASSUME NEW n \in Nat PROVE n < Huge <=> n \div 65536 < 256
  BY DEF Huge

LEMMA HugeDigit == ASSUME NEW n \in Nat, n < Huge PROVE n \div Huge = 0
  BY DEF Huge

\* Below 2^24 the digits of a number are its three bytes and no fourth.
LEMMA DigitsAre ==
    ASSUME NEW n \in Nat, n < Huge
    PROVE  /\ DigitOf(n, 3) = 0
           /\ \A p, q, r \in Nat : p < 256 /\ q < 256 /\ r < 256 =>
                 (n = BigEndian(p, q, r) <=>
                     p = DigitOf(n, 2) /\ q = DigitOf(n, 1) /\ r = DigitOf(n, 0))
<1>1. n \div 65536 < 256 /\ n \div Huge = 0 BY BelowHuge, HugeDigit
<1>2. /\ DigitOf(n, 0) = n % 256 /\ DigitOf(n, 1) = (n \div 256) % 256
      /\ DigitOf(n, 2) = (n \div 65536) % 256 /\ DigitOf(n, 3) = n \div Huge
  BY DEF DigitOf
<1>3. ASSUME NEW p \in Nat, NEW q \in Nat, NEW r \in Nat, p < 256, q < 256, r < 256
      PROVE  n = BigEndian(p, q, r) <=>
                p = DigitOf(n, 2) /\ q = DigitOf(n, 1) /\ r = DigitOf(n, 0)
  <2>1. n = BigEndian(p, q, r) <=>
            /\ n \div 65536 < 256
            /\ p = (n \div 65536) % 256 /\ q = (n \div 256) % 256 /\ r = n % 256
    BY <1>3, ThreeDigits
  <2> QED BY <2>1, <1>1, <1>2
<1> QED BY <1>1, <1>2, <1>3

\* The lengths of X.690 one size at a time.
LEMMA SaysLengthIs ==
    ASSUME NEW l \in Seq(Byte), l # <<>>, NEW n \in Nat, n < Huge
    PROVE  SaysLength(l, n) <=>
              \/ Len(l) = 1 /\ l[1] < 128 /\ n = BigEndian(0, 0, l[1])
              \/ Len(l) = 2 /\ l[1] = 129 /\ n = BigEndian(0, 0, l[2])
              \/ Len(l) = 3 /\ l[1] = 130 /\ n = BigEndian(0, l[2], l[3])
              \/ Len(l) = 4 /\ l[1] = 131 /\ n = BigEndian(l[2], l[3], l[4])
              \/ Len(l) = 5 /\ l[1] = 132 /\ l[2] = 0 /\ n = BigEndian(l[3], l[4], l[5])
<1>. PICK m \in Nat : Len(l) = m /\ m > 0 BY LenProperties, EmptySeq
<1>1. \A i \in 1 .. m : l[i] \in Nat /\ l[i] < 256 BY BytesAre
<1> DEFINE D(k) == DigitOf(n, k)
<1>3. D(3) = 0 /\ \A p, q, r \in Nat : p < 256 /\ q < 256 /\ r < 256 =>
                     (n = BigEndian(p, q, r) <=> p = D(2) /\ q = D(1) /\ r = D(0))
  BY DigitsAre
<1>4. SaysLength(l, n) <=>
         \/ m = 1 /\ l[1] < 128 /\ n = l[1]
         \/ /\ m \in 2 .. 5 /\ l[1] = 127 + m
            /\ \A i \in 2 .. m : l[i] = D(m - i)
            /\ \A k \in m - 1 .. 3 : D(k) = 0
  BY DEF SaysLength, DigitOf
<1> HIDE DEF D
<1>6. CASE m = 1
  <2>1. l[1] = BigEndian(0, 0, l[1]) BY <1>1, <1>6, BigEndianIs
  <2> QED BY <2>1, <1>4, <1>6
<1>7. CASE m = 2
  <2>1. SaysLength(l, n) <=> l[1] = 129 /\ l[2] = D(0) /\ D(1) = 0 /\ D(2) = 0
    BY <1>4, <1>3, <1>7
  <2>2. l[2] \in Nat /\ l[2] < 256 BY <1>1, <1>7
  <2>3. n = BigEndian(0, 0, l[2]) <=> 0 = D(2) /\ 0 = D(1) /\ l[2] = D(0) BY <1>3, <2>2
  <2> QED BY <2>1, <2>2, <2>3, <1>7
<1>8. CASE m = 3
  <2>1. SaysLength(l, n) <=> l[1] = 130 /\ l[2] = D(1) /\ l[3] = D(0) /\ D(2) = 0
    BY <1>4, <1>3, <1>8
  <2>2. l[2] \in Nat /\ l[2] < 256 /\ l[3] \in Nat /\ l[3] < 256 BY <1>1, <1>8
  <2>3. n = BigEndian(0, l[2], l[3]) <=> 0 = D(2) /\ l[2] = D(1) /\ l[3] = D(0)
    BY <1>3, <2>2
  <2> QED BY <2>1, <2>2, <2>3, <1>8
<1>9. CASE m = 4
  <2>1. SaysLength(l, n) <=> l[1] = 131 /\ l[2] = D(2) /\ l[3] = D(1) /\ l[4] = D(0)
    BY <1>4, <1>3, <1>9
  <2>2. /\ l[2] \in Nat /\ l[2] < 256
        /\ l[3] \in Nat /\ l[3] < 256
        /\ l[4] \in Nat /\ l[4] < 256
    BY <1>1, <1>9
  <2>3. n = BigEndian(l[2], l[3], l[4]) <=> l[2] = D(2) /\ l[3] = D(1) /\ l[4] = D(0)
    BY <1>3, <2>2
  <2> QED BY <2>1, <2>2, <2>3, <1>9
<1>10. CASE m = 5
  <2>1. SaysLength(l, n) <=> /\ l[1] = 132 /\ l[2] = 0
                             /\ l[3] = D(2) /\ l[4] = D(1) /\ l[5] = D(0)
    BY <1>4, <1>3, <1>10
  <2>2. /\ l[3] \in Nat /\ l[3] < 256
        /\ l[4] \in Nat /\ l[4] < 256
        /\ l[5] \in Nat /\ l[5] < 256
    BY <1>1, <1>10
  <2>3. n = BigEndian(l[3], l[4], l[5]) <=> l[3] = D(2) /\ l[4] = D(1) /\ l[5] = D(0)
    BY <1>3, <2>2
  <2> QED BY <2>1, <2>2, <2>3, <1>10
<1>11. CASE m > 5 BY <1>4, <1>11
<1>12. m = 1 \/ m = 2 \/ m = 3 \/ m = 4 \/ m = 5 \/ m > 5 OBVIOUS
<1> QED BY <1>12, <1>6, <1>7, <1>8, <1>9, <1>10, <1>11

\* The same of bytes in the middle of a buffer.
LEMMA CutSays ==
    ASSUME NEW data \in Seq(Byte), NEW p, NEW l, Room(data, p, l), l # 0,
           NEW n \in Nat, n < Huge
    PROVE  SaysLength(Cut(data, p, l), n) <=>
              \/ l = 1 /\ At(data, p, 1) < 128 /\ n = BigEndian(0, 0, At(data, p, 1))
              \/ l = 2 /\ At(data, p, 1) = 129 /\ n = BigEndian(0, 0, At(data, p, 2))
              \/ /\ l = 3 /\ At(data, p, 1) = 130
                 /\ n = BigEndian(0, At(data, p, 2), At(data, p, 3))
              \/ /\ l = 4 /\ At(data, p, 1) = 131
                 /\ n = BigEndian(At(data, p, 2), At(data, p, 3), At(data, p, 4))
              \/ /\ l = 5 /\ At(data, p, 1) = 132 /\ At(data, p, 2) = 0
                 /\ n = BigEndian(At(data, p, 3), At(data, p, 4), At(data, p, 5))
<1> DEFINE c == Cut(data, p, l)
<1>1. /\ c \in Seq(Byte) /\ Len(c) = l /\ l \in Nat
      /\ \A i \in 1 .. l : c[i] = At(data, p, i)
  BY CutIs DEF Room
<1> HIDE DEF c
<1>2. c \in Seq(Byte) /\ c # <<>>
  <2>1. Len(c) # 0 BY <1>1
  <2> QED BY <2>1, <1>1, EmptySeq
<1>3. SaysLength(c, n) <=>
         \/ Len(c) = 1 /\ c[1] < 128 /\ n = BigEndian(0, 0, c[1])
         \/ Len(c) = 2 /\ c[1] = 129 /\ n = BigEndian(0, 0, c[2])
         \/ Len(c) = 3 /\ c[1] = 130 /\ n = BigEndian(0, c[2], c[3])
         \/ Len(c) = 4 /\ c[1] = 131 /\ n = BigEndian(c[2], c[3], c[4])
         \/ Len(c) = 5 /\ c[1] = 132 /\ c[2] = 0 /\ n = BigEndian(c[3], c[4], c[5])
  BY <1>2, SaysLengthIs
<1>4. /\ l >= 1 => c[1] = At(data, p, 1)
      /\ l >= 2 => c[2] = At(data, p, 2)
      /\ l >= 3 => c[3] = At(data, p, 3)
      /\ l >= 4 => c[4] = At(data, p, 4)
      /\ l >= 5 => c[5] = At(data, p, 5)
  BY <1>1
<1> QED BY <1>1, <1>3, <1>4 DEF c

LEMMA AtIs ==
    ASSUME NEW data \in Seq(Byte), NEW p, NEW l, Room(data, p, l), NEW i \in 1 .. l
    PROVE  At(data, p, i) \in Nat /\ At(data, p, i) < 256
<1>. PICK n \in Nat : Len(data) = n BY LenProperties
<1>1. p \in Nat /\ l \in Nat /\ p + l <= n BY DEF Room
<1>2. p + i \in 1 .. n BY <1>1
<1> QED BY <1>2, BytesAre DEF At

\* What the reader takes the length bytes to say.
LEMMA LengthAtIs ==
    ASSUME NEW data \in Seq(Byte), NEW p, NEW size, Room(data, p, size), size # 0
    PROVE  /\ size = 1 => LengthAt(data, p, size) = BigEndian(0, 0, At(data, p, 1))
           /\ size = 2 => LengthAt(data, p, size) = BigEndian(0, 0, At(data, p, 2))
           /\ size = 3 => LengthAt(data, p, size) =
                             BigEndian(0, At(data, p, 2), At(data, p, 3))
           /\ size = 4 => LengthAt(data, p, size) =
                             BigEndian(At(data, p, 2), At(data, p, 3), At(data, p, 4))
           /\ size = 5 => LengthAt(data, p, size) =
                             IF At(data, p, 2) # 0 THEN Huge
                             ELSE BigEndian(At(data, p, 3), At(data, p, 4), At(data, p, 5))
<1>. PICK n \in Nat : Len(data) = n BY LenProperties
<1>. p \in Nat /\ size \in Nat /\ p + size <= n /\ size > 0 BY DEF Room
<1>1. size = 1 => LengthAt(data, p, size) = BigEndian(0, 0, At(data, p, 1))
  <2>1. LengthAt(data, p, 1) = At(data, p, 1) BY DEF LengthAt, At
  <2>2. At(data, p, 1) \in Nat BY AtIs
  <2> QED BY <2>1, <2>2, BigEndianIs
<1> DEFINE c == Cut(data, p + 1, size - 1)
<1>2. ASSUME size > 1
      PROVE  /\ LengthAt(data, p, size) = Number(c)
             /\ c \in Seq(Byte) /\ c # <<>> /\ Len(c) = size - 1
             /\ c[1] = At(data, p, 2)
             /\ size > 2 => c[2] = At(data, p, 3)
             /\ size > 3 => c[3] = At(data, p, 4)
             /\ size > 4 => c[4] = At(data, p, 5)
  <2>. PICK a, k \in Nat : a = p + 1 /\ k = size - 1 /\ k > 0 BY <1>2
  <2>1. LengthAt(data, p, size) = Number(c)
    <3>1. p + 2 = (p + 1) + 1 /\ p + size = (p + 1) + (size - 1) OBVIOUS
    <3> QED BY <1>2, <3>1 DEF LengthAt, Cut
  <2>2. c = Cut(data, a, k) OBVIOUS
  <2> HIDE DEF c
  <2>3. Room(data, a, k) BY DEF Room
  <2>4. c \in Seq(Byte) /\ Len(c) = k /\ \A i \in 1 .. k : c[i] = At(data, a, i)
    BY <2>2, <2>3, CutIs
  <2>5. c # <<>>
    <3>1. Len(c) # 0 BY <2>4
    <3> QED BY <3>1, EmptySeq
  <2>6. /\ At(data, a, 1) = At(data, p, 2) /\ At(data, a, 2) = At(data, p, 3)
        /\ At(data, a, 3) = At(data, p, 4) /\ At(data, a, 4) = At(data, p, 5)
    <3>1. a + 1 = p + 2 /\ a + 2 = p + 3 /\ a + 3 = p + 4 /\ a + 4 = p + 5 OBVIOUS
    <3> QED BY <3>1 DEF At
  <2>7. /\ c[1] = At(data, a, 1) /\ (size > 2 => c[2] = At(data, a, 2))
        /\ (size > 3 => c[3] = At(data, a, 3)) /\ (size > 4 => c[4] = At(data, a, 4))
    BY <2>4
  <2>8. Len(c) = size - 1 BY <2>4
  <2> QED BY <2>1, <2>4, <2>5, <2>6, <2>7, <2>8
<1> HIDE DEF c
<1>3. CASE size = 2
  <2>1. /\ LengthAt(data, p, size) = Number(c) /\ c \in Seq(Byte) /\ c # <<>>
        /\ Len(c) = 1 /\ c[1] = At(data, p, 2)
    BY <1>2, <1>3
  <2> QED BY <2>1, NumberIs, <1>3
<1>4. CASE size = 3
  <2>1. /\ LengthAt(data, p, size) = Number(c) /\ c \in Seq(Byte) /\ c # <<>>
        /\ Len(c) = 2 /\ c[1] = At(data, p, 2) /\ c[2] = At(data, p, 3)
    BY <1>2, <1>4
  <2> QED BY <2>1, NumberIs, <1>4
<1>5. CASE size = 4
  <2>1. /\ LengthAt(data, p, size) = Number(c) /\ c \in Seq(Byte) /\ c # <<>>
        /\ Len(c) = 3 /\ c[1] = At(data, p, 2) /\ c[2] = At(data, p, 3)
        /\ c[3] = At(data, p, 4)
    BY <1>2, <1>5
  <2> QED BY <2>1, NumberIs, <1>5
<1>6. CASE size = 5
  <2>1. /\ LengthAt(data, p, size) = Number(c) /\ c \in Seq(Byte) /\ c # <<>>
        /\ Len(c) = 4 /\ c[1] = At(data, p, 2) /\ c[2] = At(data, p, 3)
        /\ c[3] = At(data, p, 4) /\ c[4] = At(data, p, 5)
    BY <1>2, <1>6
  <2> QED BY <2>1, NumberIs, <1>6
<1> QED BY <1>1, <1>3, <1>4, <1>5, <1>6

\* How many length bytes there are is a matter of the first.
LEMMA LengthBytesAre ==
    ASSUME NEW data \in Seq(Byte), NEW p, Room(data, p, 0)
    PROVE  /\ LengthBytes(data, p) # 0 =>
                 /\ Room(data, p, LengthBytes(data, p))
                 /\ \/ LengthBytes(data, p) = 1 /\ At(data, p, 1) < 128
                    \/ LengthBytes(data, p) = 2 /\ At(data, p, 1) = 129
                    \/ LengthBytes(data, p) = 3 /\ At(data, p, 1) = 130
                    \/ LengthBytes(data, p) = 4 /\ At(data, p, 1) = 131
                    \/ LengthBytes(data, p) = 5 /\ At(data, p, 1) = 132
           /\ Room(data, p, 1) /\ At(data, p, 1) < 128 => LengthBytes(data, p) = 1
           /\ Room(data, p, 2) /\ At(data, p, 1) = 129 => LengthBytes(data, p) = 2
           /\ Room(data, p, 3) /\ At(data, p, 1) = 130 => LengthBytes(data, p) = 3
           /\ Room(data, p, 4) /\ At(data, p, 1) = 131 => LengthBytes(data, p) = 4
           /\ Room(data, p, 5) /\ At(data, p, 1) = 132 => LengthBytes(data, p) = 5
<1>. PICK n \in Nat : Len(data) = n BY LenProperties
<1>. p \in Nat /\ p <= n BY DEF Room
<1>. PICK L : L = LengthBytes(data, p) OBVIOUS
<1>1. CASE p = n
  <2>1. L = 0 BY <1>1 DEF LengthBytes
  <2>2. \A k \in Nat : Room(data, p, k) => k = 0 BY <1>1 DEF Room
  <2> QED BY <2>1, <2>2
<1>2. CASE p < n
  <2>1. \A k \in Nat : Room(data, p, k) <=> p + k <= n BY DEF Room
  <2>2. PICK b \in Nat : b = At(data, p, 1) /\ b < 256
    <3>1. Room(data, p, 1) BY <1>2, <2>1
    <3> QED BY <3>1, AtIs
  <2>3. L = IF b = 128 THEN 0
            ELSE IF b < 128 THEN 1
            ELSE IF b - 128 > 4 \/ b - 128 > n - (p + 1) THEN 0 ELSE 1 + (b - 128)
    BY <1>2, <2>2 DEF LengthBytes, MaxLengthBytes, At
  <2>4. L # 0 => /\ L \in Nat /\ p + L <= n
                 /\ \/ L = 1 /\ b < 128
                    \/ L = 2 /\ b = 129
                    \/ L = 3 /\ b = 130
                    \/ L = 4 /\ b = 131
                    \/ L = 5 /\ b = 132
    BY <1>2, <2>3
  <2>5. /\ b < 128 => L = 1
        /\ p + 2 <= n /\ b = 129 => L = 2
        /\ p + 3 <= n /\ b = 130 => L = 3
        /\ p + 4 <= n /\ b = 131 => L = 4
        /\ p + 5 <= n /\ b = 132 => L = 5
    BY <1>2, <2>3
  <2>6. /\ L # 0 => Room(data, p, L)
        /\ Room(data, p, 2) => p + 2 <= n
        /\ Room(data, p, 3) => p + 3 <= n
        /\ Room(data, p, 4) => p + 4 <= n
        /\ Room(data, p, 5) => p + 5 <= n
    BY <2>1, <2>4
  <2> QED BY <2>2, <2>4, <2>5, <2>6
<1> QED BY <1>1, <1>2

\* tlv_read_length finds the one definite length that stands at p, or that none
\* that matters does.
LEMMA LengthIs ==
    ASSUME NEW data \in Seq(Byte), NEW p, Room(data, p, 0)
    PROVE  LET size == LengthBytes(data, p)
               len == LengthAt(data, p, size)
           IN /\ size # 0 => /\ Room(data, p, size) /\ len \in Nat /\ len <= Huge
                             /\ len < Huge => SaysLength(Cut(data, p, size), len)
              /\ \A l, n \in Nat :
                    /\ l # 0 /\ Room(data, p, l) /\ n < Huge
                    /\ SaysLength(Cut(data, p, l), n)
                    => l = size /\ n = len
<1> DEFINE size == LengthBytes(data, p)
           len == LengthAt(data, p, size)
<1>1. ASSUME size # 0
      PROVE  /\ Room(data, p, size) /\ len \in Nat /\ len <= Huge
             /\ len < Huge => SaysLength(Cut(data, p, size), len)
  <2>1. /\ Room(data, p, size)
        /\ \/ size = 1 /\ At(data, p, 1) < 128
           \/ size = 2 /\ At(data, p, 1) = 129
           \/ size = 3 /\ At(data, p, 1) = 130
           \/ size = 4 /\ At(data, p, 1) = 131
           \/ size = 5 /\ At(data, p, 1) = 132
    BY <1>1, LengthBytesAre
  <2> HIDE DEF size
  <2>2. \/ size = 1 /\ len = BigEndian(0, 0, At(data, p, 1))
        \/ size = 2 /\ len = BigEndian(0, 0, At(data, p, 2))
        \/ size = 3 /\ len = BigEndian(0, At(data, p, 2), At(data, p, 3))
        \/ size = 4 /\ len = BigEndian(At(data, p, 2), At(data, p, 3), At(data, p, 4))
        \/ size = 5 /\ len = Huge
        \/ size = 5 /\ At(data, p, 2) = 0
           /\ len = BigEndian(At(data, p, 3), At(data, p, 4), At(data, p, 5))
    BY <2>1, LengthAtIs
  <2>3. \A i \in 1 .. size : At(data, p, i) \in Nat /\ At(data, p, i) < 256 BY <2>1, AtIs
  <2>4. Huge \in Nat /\ ~(Huge < Huge) BY DEF Huge
  <2> HIDE DEF len
  <2>5. len \in Nat /\ len <= Huge
    <3>1. \A i \in 1 .. size : At(data, p, i) \in Byte BY <2>3, ByteIs
    <3>2. 0 \in Byte /\ \A q, r, s \in Byte : BigEndian(q, r, s) \in Nat /\ BigEndian(q, r, s) < Huge
      <4>1. 0 \in Byte BY ByteIs
      <4>2. ASSUME NEW q \in Byte, NEW r \in Byte, NEW s \in Byte
            PROVE  BigEndian(q, r, s) \in Nat /\ BigEndian(q, r, s) < Huge
        <5>1. q \in Nat /\ q < 256 /\ r \in Nat /\ r < 256 /\ s \in Nat /\ s < 256
          BY ByteIs
        <5> QED BY <5>1, BigEndianIs
      <4> QED BY <4>1, <4>2
    <3>3. \/ len = Huge
          \/ \E q, r, s \in Byte : len = BigEndian(q, r, s)
      <4>1. size \in {1, 2, 3, 4, 5} BY <2>2
      <4>2. /\ size >= 1 => At(data, p, 1) \in Byte
            /\ size >= 2 => At(data, p, 2) \in Byte
            /\ size >= 3 => At(data, p, 3) \in Byte
            /\ size >= 4 => At(data, p, 4) \in Byte
            /\ size >= 5 => At(data, p, 5) \in Byte
        BY <3>1, <4>1
      <4> QED
        <5>1. CASE size = 1 BY <5>1, <2>2, <3>2, <4>2
        <5>2. CASE size = 2 BY <5>2, <2>2, <3>2, <4>2
        <5>3. CASE size = 3 BY <5>3, <2>2, <3>2, <4>2
        <5>4. CASE size = 4 BY <5>4, <2>2, <3>2, <4>2
        <5>5. CASE size = 5 BY <5>5, <2>2, <3>2, <4>2
        <5> QED BY <4>1, <5>1, <5>2, <5>3, <5>4, <5>5
    <3>4. len = Huge \/ (len \in Nat /\ len < Huge) BY <3>2, <3>3
    <3>5. \A x \in Nat : x < Huge => x <= Huge BY <2>4
    <3> QED BY <3>4, <3>5, <2>4
  <2>6. ASSUME len < Huge PROVE SaysLength(Cut(data, p, size), len)
    BY <2>1, <2>2, <2>4, <2>5, <2>6, CutSays
  <2> QED BY <2>1, <2>5, <2>6
<1>2. ASSUME NEW l \in Nat, NEW n \in Nat, l # 0, Room(data, p, l), n < Huge,
             SaysLength(Cut(data, p, l), n)
      PROVE  l = size /\ n = len
  <2>1. \/ l = 1 /\ At(data, p, 1) < 128 /\ n = BigEndian(0, 0, At(data, p, 1))
        \/ l = 2 /\ At(data, p, 1) = 129 /\ n = BigEndian(0, 0, At(data, p, 2))
        \/ /\ l = 3 /\ At(data, p, 1) = 130
           /\ n = BigEndian(0, At(data, p, 2), At(data, p, 3))
        \/ /\ l = 4 /\ At(data, p, 1) = 131
           /\ n = BigEndian(At(data, p, 2), At(data, p, 3), At(data, p, 4))
        \/ /\ l = 5 /\ At(data, p, 1) = 132 /\ At(data, p, 2) = 0
           /\ n = BigEndian(At(data, p, 3), At(data, p, 4), At(data, p, 5))
    BY <1>2, CutSays
  <2>2. l = size BY <1>2, <2>1, LengthBytesAre
  <2>3. n = len BY <1>2, <2>1, <2>2, LengthAtIs
  <2> QED BY <2>2, <2>3
<1> QED BY <1>1, <1>2

\* The tags of X.690 in the middle of a buffer.
LEMMA CutIsTag ==
    ASSUME NEW data \in Seq(Byte), NEW o, NEW k, Room(data, o, k), k # 0
    PROVE  IsTag(Cut(data, o, k)) <=>
              /\ k <= 4 /\ At(data, o, 1) \notin {0, 255}
              /\ IF At(data, o, 1) % 32 = 31
                 THEN /\ k > 1
                      /\ \A i \in 2 .. k : (At(data, o, i) < 128) <=> (i = k)
                 ELSE k = 1
<1>. k \in Nat BY DEF Room
<1> DEFINE c == Cut(data, o, k)
<1>1. Len(c) = k /\ \A i \in 1 .. k : c[i] = At(data, o, i) BY CutIs
<1> HIDE DEF c
<1>2. c # <<>> /\ c[1] = At(data, o, 1) BY <1>1
<1>3. \A i \in 2 .. k : c[i] = At(data, o, i) BY <1>1
<1> QED BY <1>1, <1>2, <1>3 DEF IsTag, c

\* tlv_read_tag finds the one tag that stands at o, or that none does.
LEMMA TagIs ==
    ASSUME NEW data \in Seq(Byte), NEW o, Room(data, o, 0)
    PROVE  /\ TagBytes(data, o) # 0 =>
                 /\ Room(data, o, TagBytes(data, o))
                 /\ IsTag(Cut(data, o, TagBytes(data, o)))
           /\ \A k \in Nat : k # 0 /\ Room(data, o, k) /\ IsTag(Cut(data, o, k))
                             => k = TagBytes(data, o)
<1>. PICK n \in Nat : Len(data) = n BY LenProperties
<1>. o \in Nat /\ o <= n BY DEF Room
<1>1. \A k \in Nat : Room(data, o, k) <=> o + k <= n BY DEF Room
<1> DEFINE ends == {k \in 2 .. 4 : Room(data, o, k) /\ At(data, o, k) < 128}
<1>2. TagBytes(data, o) = IF o >= n \/ At(data, o, 1) \in {0, 255} THEN 0
                          ELSE IF At(data, o, 1) % 32 # 31 THEN 1
                          ELSE IF ends = {} THEN 0 ELSE Min(ends)
  <2> DEFINE read == {k \in 2 .. MaxTagBytes : o + k <= Len(data) /\ data[o + k] < 128}
  <2>1. ends = read BY <1>1 DEF At, MaxTagBytes
  <2>2. TagBytes(data, o) = IF o >= Len(data) \/ data[o + 1] \in {0, 255} THEN 0
                            ELSE IF data[o + 1] % 32 # 31 THEN 1
                            ELSE IF read = {} THEN 0 ELSE Min(read)
    BY DEF TagBytes
  <2> HIDE DEF read, ends
  <2> QED BY <2>1, <2>2 DEF At
<1>3. ends # {} => Min(ends) \in ends /\ \A y \in ends : Min(ends) <= y
  <2>1. ends \in SUBSET Nat OBVIOUS
  <2> HIDE DEF ends
  <2> QED BY <2>1, LeastOf
<1>4. ASSUME TagBytes(data, o) # 0
      PROVE  /\ Room(data, o, TagBytes(data, o))
             /\ IsTag(Cut(data, o, TagBytes(data, o)))
  <2>1. o < n /\ At(data, o, 1) \notin {0, 255} BY <1>2, <1>4
  <2>2. CASE At(data, o, 1) % 32 # 31
    <3>1. TagBytes(data, o) = 1 /\ Room(data, o, 1) BY <1>1, <1>2, <2>1, <2>2
    <3> QED BY <3>1, <2>1, <2>2, CutIsTag
  <2>3. CASE At(data, o, 1) % 32 = 31
    <3>1. TagBytes(data, o) = Min(ends) /\ ends # {} BY <1>2, <1>4, <2>1, <2>3
    <3>2. PICK m \in 2 .. 4 : m = TagBytes(data, o) /\ Room(data, o, m) /\ At(data, o, m) < 128
      BY <3>1, <1>3
    <3>3. ASSUME NEW i \in 2 .. m, i # m PROVE ~(At(data, o, i) < 128)
      <4>1. Room(data, o, i) /\ i \in 2 .. 4 BY <1>1, <3>2
      <4>2. i \notin ends BY <3>1, <1>3, <3>2, <3>3
      <4> QED BY <4>1, <4>2
    <3> QED BY <3>2, <3>3, <2>1, <2>3, CutIsTag
  <2> QED BY <2>2, <2>3
<1>5. ASSUME NEW k \in Nat, k # 0, Room(data, o, k), IsTag(Cut(data, o, k))
      PROVE  k = TagBytes(data, o)
  <2>1. /\ k <= 4 /\ At(data, o, 1) \notin {0, 255}
        /\ IF At(data, o, 1) % 32 = 31
           THEN /\ k > 1
                /\ \A i \in 2 .. k : (At(data, o, i) < 128) <=> (i = k)
           ELSE k = 1
    BY <1>5, CutIsTag
  <2>2. o < n BY <1>1, <1>5
  <2>3. CASE At(data, o, 1) % 32 # 31 BY <1>2, <2>1, <2>2, <2>3
  <2>4. CASE At(data, o, 1) % 32 = 31
    <3>1. k \in ends BY <1>5, <2>1, <2>4
    <3>2. ASSUME NEW y \in ends, y < k PROVE FALSE BY <2>1, <2>4, <3>2
    <3>3. Min(ends) \in Nat /\ Min(ends) = k BY <1>3, <3>1, <3>2
    <3> QED BY <1>2, <2>1, <2>2, <2>4, <3>1, <3>3
  <2> QED BY <2>3, <2>4
<1> QED BY <1>4, <1>5

\* A cut of a cut is a cut, and so are its bytes.
LEMMA CutOfCut ==
    ASSUME NEW S, NEW s \in Seq(S), NEW a \in Nat, NEW k \in Nat, Room(s, a, k),
           NEW b \in Nat, NEW m \in Nat, b + m <= k
    PROVE  /\ Room(Cut(s, a, k), b, m)
           /\ Room(s, a + b, m)
           /\ Cut(Cut(s, a, k), b, m) = Cut(s, a + b, m)
           /\ \A i \in 1 .. m : At(Cut(s, a, k), b, i) = At(s, a + b, i)
<1>. PICK n \in Nat : Len(s) = n BY LenProperties
<1>. a \in Nat /\ k \in Nat /\ a + k <= n BY DEF Room
<1> DEFINE c == Cut(s, a, k)
<1>1. c \in Seq(S) /\ Len(c) = k /\ \A i \in 1 .. k : c[i] = At(s, a, i) BY CutIs
<1> HIDE DEF c
<1>2. Room(c, b, m) BY <1>1 DEF Room
<1>3. Room(s, a + b, m) BY DEF Room
<1>4. ASSUME NEW i \in 1 .. m PROVE At(c, b, i) = At(s, a + b, i)
  <2>1. b + i \in 1 .. k /\ a + (b + i) = (a + b) + i OBVIOUS
  <2>2. c[b + i] = s[a + (b + i)] BY <2>1, <1>1 DEF At
  <2> QED BY <2>1, <2>2 DEF At
<1>5. /\ Cut(c, b, m) \in Seq(S) /\ Len(Cut(c, b, m)) = m
      /\ \A i \in 1 .. m : Cut(c, b, m)[i] = At(c, b, i)
  BY <1>1, <1>2, CutIs
<1>6. /\ Cut(s, a + b, m) \in Seq(S) /\ Len(Cut(s, a + b, m)) = m
      /\ \A i \in 1 .. m : Cut(s, a + b, m)[i] = At(s, a + b, i)
  BY <1>3, CutIs
<1>7. Cut(c, b, m) = Cut(s, a + b, m)
  <2> DEFINE x == Cut(c, b, m)
             y == Cut(s, a + b, m)
  <2>1. x \in Seq(S) /\ y \in Seq(S) /\ Len(x) = m /\ Len(y) = m BY <1>5, <1>6
  <2>2. \A i \in 1 .. m : x[i] = y[i] BY <1>4, <1>5, <1>6
  <2> HIDE DEF x, y
  <2>3. x = y BY <2>1, <2>2, SeqEqual
  <2> QED BY <2>3 DEF x, y
<1> QED BY <1>2, <1>3, <1>4, <1>7 DEF c

\* tlv_read_node returns the node that begins at o, and none only if none does.
LEMMA ReadNodeIs ==
    ASSUME NEW data \in Seq(Byte), Len(data) < Huge, NEW o, Room(data, o, 0)
    PROVE  /\ \A t, l, v : HasNode(data, o, t, l, v) =>
                              ReadNode(data, o) = NodeAt(data, o, t, l, v)
           /\ ReadNode(data, o) # None =>
                 \E t, l, v : HasNode(data, o, t, l, v)
<1>. PICK n \in Nat : Len(data) = n BY LenProperties
<1>. o \in Nat /\ o <= n /\ n < Huge /\ Huge \in Nat BY DEF Room, Huge
<1> DEFINE tag == TagBytes(data, o)
           size == LengthBytes(data, o + tag)
           len == LengthAt(data, o + tag, size)
           Node == [tag |-> SubSeq(data, o + 1, o + tag),
                    constructed |-> Constructed(data[o + 1]),
                    value |-> SubSeq(data, o + tag + size + 1, o + tag + size + len),
                    start |-> o, total |-> tag + size + len]
<1>1. ReadNode(data, o) = IF tag = 0 THEN None
                          ELSE IF size = 0 THEN None
                          ELSE IF len > n - (o + tag + size) THEN None ELSE Node
  BY DEF ReadNode
<1>2. Node = NodeAt(data, o, tag, size, len) BY DEF NodeAt, Cut
<1>3. /\ tag # 0 => Room(data, o, tag) /\ IsTag(Cut(data, o, tag))
      /\ \A k \in Nat : k # 0 /\ Room(data, o, k) /\ IsTag(Cut(data, o, k)) => k = tag
  BY TagIs
<1>4. tag # 0 =>
         /\ size # 0 => /\ Room(data, o + tag, size) /\ len \in Nat /\ len <= Huge
                        /\ len < Huge => SaysLength(Cut(data, o + tag, size), len)
         /\ \A l, v \in Nat :
               /\ l # 0 /\ Room(data, o + tag, l) /\ v < Huge
               /\ SaysLength(Cut(data, o + tag, l), v)
               => l = size /\ v = len
  <2> SUFFICES ASSUME tag # 0 PROVE <1>4!2
    OBVIOUS
  <2>1. Room(data, o + tag, 0)
    <3>1. Room(data, o, tag) BY <1>3
    <3> HIDE DEF tag
    <3> QED BY <3>1 DEF Room
  <2> HIDE DEF tag
  <2> QED BY <2>1, LengthIs
<1> HIDE DEF tag, size, len, Node
<1>5. ASSUME NEW t, NEW l, NEW v, HasNode(data, o, t, l, v)
      PROVE  ReadNode(data, o) = NodeAt(data, o, t, l, v)
  <2>1. t \in Nat /\ t # 0 /\ Room(data, o, t) /\ IsTag(Cut(data, o, t))
    BY <1>5 DEF HasNode
  <2>2. t = tag BY <2>1, <1>3
  <2>3. /\ l \in Nat /\ v \in Nat /\ l # 0 /\ v < Huge /\ Room(data, o + t, l)
        /\ SaysLength(Cut(data, o + t, l), v)
    BY <1>5 DEF HasNode
  <2>4. l = size /\ v = len BY <2>1, <2>2, <2>3, <1>4
  <2>5. ~(v > n - (o + t + l))
    <3>1. o + t + l + v <= n BY <1>5 DEF HasNode, Room
    <3> QED BY <3>1, <2>1, <2>3
  <2> QED BY <1>1, <1>2, <2>1, <2>2, <2>3, <2>4, <2>5
<1>6. ASSUME ReadNode(data, o) # None
      PROVE  HasNode(data, o, tag, size, len)
  <2>1. tag # 0 /\ size # 0 /\ ~(len > n - (o + tag + size)) BY <1>1, <1>6
  <2>2. /\ Room(data, o, tag) /\ Room(data, o + tag, size) /\ len \in Nat
        /\ IsTag(Cut(data, o, tag))
    BY <1>3, <1>4, <2>1
  <2>3. tag \in Nat /\ size \in Nat /\ len \in Nat BY <2>2 DEF Room
  <2>4. o + tag + size + len <= n BY <2>1, <2>3
  <2>5. len < Huge BY <2>3, <2>4
  <2>6. SaysLength(Cut(data, o + tag, size), len) BY <1>4, <2>1, <2>5
  <2>7. Room(data, o + tag + size, len) BY <2>3, <2>4 DEF Room
  <2> QED BY <2>1, <2>2, <2>3, <2>5, <2>6, <2>7 DEF HasNode
<1> QED BY <1>5, <1>6

\* Whatever it returns, in a buffer of any size, lies inside the buffer.
LEMMA ReadNodeFits ==
    ASSUME NEW data \in Seq(Byte), NEW o, Room(data, o, 0)
    PROVE  ReadNode(data, o) # None =>
              \E t, l, v \in Nat : /\ t # 0 /\ l # 0 /\ Room(data, o, t + l + v)
                                   /\ ReadNode(data, o) = NodeAt(data, o, t, l, v)
<1>. PICK n \in Nat : Len(data) = n BY LenProperties
<1>. o \in Nat /\ o <= n BY DEF Room
<1> DEFINE tag == TagBytes(data, o)
           size == LengthBytes(data, o + tag)
           len == LengthAt(data, o + tag, size)
           Node == [tag |-> SubSeq(data, o + 1, o + tag),
                    constructed |-> Constructed(data[o + 1]),
                    value |-> SubSeq(data, o + tag + size + 1, o + tag + size + len),
                    start |-> o, total |-> tag + size + len]
<1>1. ReadNode(data, o) = IF tag = 0 THEN None
                          ELSE IF size = 0 THEN None
                          ELSE IF len > n - (o + tag + size) THEN None ELSE Node
  BY DEF ReadNode
<1>2. Node = NodeAt(data, o, tag, size, len) BY DEF NodeAt, Cut
<1>3. tag # 0 => Room(data, o, tag) BY TagIs
<1>4. tag # 0 /\ size # 0 => Room(data, o + tag, size) /\ len \in Nat
  <2> SUFFICES ASSUME tag # 0 PROVE size # 0 => Room(data, o + tag, size) /\ len \in Nat
    OBVIOUS
  <2>1. Room(data, o + tag, 0)
    <3>1. Room(data, o, tag) BY <1>3
    <3> HIDE DEF tag
    <3> QED BY <3>1 DEF Room
  <2> HIDE DEF tag
  <2> QED BY <2>1, LengthIs
<1> HIDE DEF tag, size, len, Node
<1> SUFFICES ASSUME ReadNode(data, o) # None
             PROVE  /\ tag \in Nat /\ size \in Nat /\ len \in Nat /\ tag # 0 /\ size # 0
                    /\ Room(data, o, tag + size + len)
                    /\ ReadNode(data, o) = NodeAt(data, o, tag, size, len)
  OBVIOUS
<1>5. tag # 0 /\ size # 0 /\ ~(len > n - (o + tag + size)) /\ ReadNode(data, o) = Node
  BY <1>1
<1>6. tag \in Nat /\ size \in Nat /\ len \in Nat BY <1>3, <1>4, <1>5 DEF Room
<1>7. o + (tag + size + len) <= n /\ tag + size + len \in Nat BY <1>5, <1>6
<1> QED BY <1>2, <1>5, <1>6, <1>7 DEF Room

\* What the fields of a node are.
LEMMA NodeAtIs ==
    ASSUME NEW data \in Seq(Byte), NEW o, NEW t \in Nat, NEW l \in Nat, NEW v \in Nat,
           t # 0, l # 0, Room(data, o, t + l + v)
    PROVE  /\ NodeAt(data, o, t, l, v) # None
           /\ NodeAt(data, o, t, l, v).value \in Seq(Byte)
           /\ NodeAt(data, o, t, l, v).start = o
           /\ NodeAt(data, o, t, l, v).total = t + l + v
           /\ Len(NodeAt(data, o, t, l, v).value) = v
<1>1. o \in Nat BY DEF Room
<1>2. Room(data, o + t + l, v) BY <1>1 DEF Room
<1>3. Cut(data, o + t + l, v) \in Seq(Byte) /\ Len(Cut(data, o + t + l, v)) = v
  BY <1>2, CutIs
<1>4. NodeAt(data, o, t, l, v).total # None.total BY DEF NodeAt, None
<1> QED BY <1>3, <1>4 DEF NodeAt

\* The iteration moves on with every node and never past the end.
LEMMA StepForward ==
    ASSUME NEW data \in Seq(Byte), NEW n \in Nat, Len(data) = n, NEW pos \in 0 .. n,
           ReadNode(data, pos) # None
    PROVE  /\ pos + ReadNode(data, pos).total \in pos + 1 .. n
           /\ ReadNode(data, pos).start = pos
           /\ ReadNode(data, pos).total \in Nat
           /\ ReadNode(data, pos).value \in Seq(Byte)
<1>1. Room(data, pos, 0) BY DEF Room
<1>2. PICK t, l, v \in Nat : /\ t # 0 /\ l # 0 /\ Room(data, pos, t + l + v)
                             /\ ReadNode(data, pos) = NodeAt(data, pos, t, l, v)
  BY <1>1, ReadNodeFits
<1>3. pos + (t + l + v) <= n BY <1>2 DEF Room
<1>4. /\ ReadNode(data, pos).start = pos /\ ReadNode(data, pos).total = t + l + v
      /\ ReadNode(data, pos).value \in Seq(Byte)
  BY <1>2, NodeAtIs
<1> QED BY <1>2, <1>3, <1>4

\* The recursion of the iteration is well founded: each call stands further on.
LEMMA IterationExists ==
    ASSUME NEW data \in Seq(Byte)
    PROVE  \E from : Iteration(from, data)
<1>. PICK n \in Nat : Len(data) = n BY LenProperties
<1> DEFINE Upto(f, k) == \A pos \in 0 .. n : pos + k >= n => f[pos] = And(data, f, pos)
           P(k) == \E f : f = [pos \in 0 .. n |-> f[pos]] /\ Upto(f, k)
           A == {k \in Nat : P(k)}
<1>1. ASSUME NEW f, NEW g, NEW pos \in 0 .. n,
             \A p \in pos + 1 .. n : f[p] = g[p]
      PROVE  And(data, f, pos) = And(data, g, pos)
  <2>1. CASE ReadNode(data, pos) = None BY <2>1 DEF And
  <2>2. CASE ReadNode(data, pos) # None
    <3>1. pos + ReadNode(data, pos).total \in pos + 1 .. n BY <2>2, StepForward
    <3>2. f[pos + ReadNode(data, pos).total] = g[pos + ReadNode(data, pos).total]
      BY <1>1, <3>1
    <3> QED BY <3>2 DEF And
  <2> QED BY <2>1, <2>2
<1>2. ASSUME NEW f, NEW k \in 0 .. n,
             \A pos \in 0 .. n : pos + k > n => f[pos] = And(data, f, pos)
      PROVE  P(k)
  <2> DEFINE g == [pos \in 0 .. n |-> IF pos + k = n THEN And(data, f, pos) ELSE f[pos]]
  <2>1. g = [pos \in 0 .. n |-> g[pos]] OBVIOUS
  <2>2. ASSUME NEW pos \in 0 .. n, pos + k >= n PROVE g[pos] = And(data, g, pos)
    <3>1. \A p \in pos + 1 .. n : f[p] = g[p] BY <2>2
    <3>2. g[pos] = And(data, f, pos)
      <4>1. CASE pos + k = n BY <4>1
      <4>2. CASE pos + k > n BY <4>2, <1>2
      <4> QED BY <2>2, <4>1, <4>2
    <3> HIDE DEF g
    <3>3. And(data, f, pos) = And(data, g, pos) BY <3>1, <1>1
    <3> QED BY <3>2, <3>3
  <2> HIDE DEF g
  <2> QED BY <2>1, <2>2
<1>3. P(0) BY <1>2
<1>4. ASSUME NEW k \in Nat, P(k) PROVE P(k + 1)
  <2>1. PICK f : f = [pos \in 0 .. n |-> f[pos]] /\ Upto(f, k) BY <1>4
  <2>2. CASE k + 1 \in 0 .. n
    <3>1. \A pos \in 0 .. n : pos + (k + 1) > n => f[pos] = And(data, f, pos) BY <2>1
    <3> HIDE DEF P
    <3> QED BY <3>1, <2>2, <1>2
  <2>3. CASE k >= n BY <2>1, <2>3
  <2> QED BY <2>2, <2>3
<1>5. P(n)
  <2> HIDE DEF P
  <2>1. A \in SUBSET Nat /\ 0 \in A /\ \A k \in A : k + 1 \in A BY <1>3, <1>4
  <2>2. A = Nat
    <3> HIDE DEF A
    <3> QED BY <2>1, SetInduction
  <2> QED BY <2>2
<1>6. PICK f : f = [pos \in 0 .. n |-> f[pos]] /\ Upto(f, n) BY <1>5
<1>7. \A pos \in 0 .. n : f[pos] = And(data, f, pos) BY <1>6
<1>8. f = [pos \in 0 .. n |-> And(data, f, pos)] BY <1>6, <1>7
<1> QED BY <1>8 DEF Iteration

\* So Nodes is what its own equation says.
LEMMA NodesIs ==
    ASSUME NEW data \in Seq(Byte)
    PROVE  \E from : Iteration(from, data) /\ Nodes(data) = from[0]
<1>1. PICK g : Iteration(g, data) BY IterationExists
<1>2. PICK h : h = CHOOSE f : Iteration(f, data) OBVIOUS
<1>3. Iteration(h, data) BY <1>1, <1>2
<1>4. h[0] = Nodes(data) BY <1>2 DEF Iteration, And, Nodes
<1> QED BY <1>3, <1>4

\* A node in front of those that follow it.
LEMMA FollowOne ==
    ASSUME NEW data \in Seq(Byte), NEW n \in Nat, Len(data) = n, NEW pos \in 0 .. n,
           NEW node, node = ReadNode(data, pos), node # None,
           NEW rest, Follow(data, pos + node.total, rest)
    PROVE  Follow(data, pos, <<node>> \o rest)
<1> DEFINE S == {ReadNode(data, p) : p \in 0 .. n}
           ns == <<node>> \o rest
           next == pos + node.total
<1>1. next \in 0 .. n /\ node.start = pos BY StepForward
<1>2. /\ rest \in Seq(S)
      /\ \A i \in 0 .. Len(rest) : Reach(next, rest, i) \in 0 .. n
      /\ \A i \in 1 .. Len(rest) : /\ rest[i] = ReadNode(data, Reach(next, rest, i - 1))
                                   /\ rest[i] # None
      /\ ReadNode(data, Reach(next, rest, Len(rest))) = None
  BY DEF Follow
<1>3. <<node>> \in Seq(S) /\ Len(<<node>>) = 1 /\ <<node>>[1] = node OBVIOUS
<1> HIDE DEF S
<1>. PICK m \in Nat : Len(rest) = m BY <1>2, LenProperties
<1>4. ns \in Seq(S) /\ Len(ns) = m + 1 /\ ns[1] = node
      /\ \A i \in 1 .. m + 1 : ns[i] = IF i <= 1 THEN node ELSE rest[i - 1]
  BY <1>2, <1>3, ConcatProperties
<1> HIDE DEF ns
<1>5. ASSUME NEW i \in 1 .. m + 1 PROVE Reach(pos, ns, i) = Reach(next, rest, i - 1)
  <2>1. CASE i = 1 BY <1>4, <1>1, <2>1 DEF Reach
  <2>2. CASE i > 1 BY <1>4, <2>2 DEF Reach
  <2> QED BY <2>1, <2>2
<1>6. Reach(pos, ns, 0) = pos BY DEF Reach
<1> HIDE DEF next
<1>7. ASSUME NEW i \in 0 .. m + 1 PROVE Reach(pos, ns, i) \in 0 .. n
  <2>1. CASE i = 0 BY <2>1, <1>6
  <2>2. CASE i # 0 BY <2>2, <1>2, <1>5
  <2> QED BY <2>1, <2>2
<1>8. ASSUME NEW i \in 1 .. m + 1
      PROVE  ns[i] = ReadNode(data, Reach(pos, ns, i - 1)) /\ ns[i] # None
  <2>1. CASE i = 1 BY <2>1, <1>6, <1>4
  <2>2. CASE i > 1
    <3>1. i - 1 \in 1 .. m /\ i - 1 \in 1 .. m + 1 BY <2>2
    <3>2. Reach(pos, ns, i - 1) = Reach(next, rest, (i - 1) - 1) BY <3>1, <1>5
    <3>3. ns[i] = rest[i - 1] BY <2>2, <1>4
    <3> QED BY <3>1, <3>2, <3>3, <1>2
  <2> QED BY <2>1, <2>2
<1>9. ReadNode(data, Reach(pos, ns, m + 1)) = None
  <2>1. Reach(pos, ns, m + 1) = Reach(next, rest, (m + 1) - 1) /\ (m + 1) - 1 = m BY <1>5
  <2> QED BY <2>1, <1>2
<1> QED BY <1>4, <1>7, <1>8, <1>9 DEF Follow, S, ns

\* The nodes follow one another from the first byte, each read where the last
\* ended, until none can be read.
LEMMA NodesFollow ==
    ASSUME NEW data \in Seq(Byte)
    PROVE  Follow(data, 0, Nodes(data))
<1>. PICK n \in Nat : Len(data) = n BY LenProperties
<1>1. PICK f : Iteration(f, data) /\ Nodes(data) = f[0] BY NodesIs
<1> DEFINE A == {k \in Nat : \A pos \in 0 .. n : pos + k >= n => Follow(data, pos, f[pos])}
<1>2. ASSUME NEW pos \in 0 .. n,
             \A p \in pos + 1 .. n : Follow(data, p, f[p])
      PROVE  Follow(data, pos, f[pos])
  <2>1. f[pos] = And(data, f, pos) BY <1>1 DEF Iteration
  <2>2. CASE ReadNode(data, pos) = None
    <3>1. f[pos] = <<>> BY <2>1, <2>2 DEF And
    <3>2. Len(<<>>) = 0 /\ Reach(pos, <<>>, 0) = pos BY DEF Reach
    <3>3. Follow(data, pos, <<>>) BY <3>2, <2>2 DEF Follow
    <3> QED BY <3>1, <3>3
  <2>3. CASE ReadNode(data, pos) # None
    <3>1. f[pos] = <<ReadNode(data, pos)>> \o f[pos + ReadNode(data, pos).total]
      BY <2>1, <2>3 DEF And
    <3>2. pos + ReadNode(data, pos).total \in pos + 1 .. n BY <2>3, StepForward
    <3>3. Follow(data, pos + ReadNode(data, pos).total, f[pos + ReadNode(data, pos).total])
      BY <3>2, <1>2
    <3> QED BY <3>1, <3>3, <2>3, FollowOne
  <2> QED BY <2>2, <2>3
<1>3. A \in SUBSET Nat OBVIOUS
<1>4. 0 \in A BY <1>2
<1>5. ASSUME NEW k \in A PROVE k + 1 \in A
  <2> SUFFICES ASSUME NEW pos \in 0 .. n, pos + (k + 1) >= n
               PROVE  Follow(data, pos, f[pos])
    OBVIOUS
  <2>1. \A p \in pos + 1 .. n : Follow(data, p, f[p]) OBVIOUS
  <2> QED BY <2>1, <1>2
<1>6. n \in A
  <2> HIDE DEF A
  <2>1. A = Nat BY <1>3, <1>4, <1>5, SetInduction
  <2> QED BY <2>1
<1>7. Follow(data, 0, f[0]) BY <1>6
<1> QED BY <1>1, <1>7

\* The value of every node is a sequence of bytes.
LEMMA NodesHold ==
    ASSUME NEW data \in Seq(Byte), NEW i \in DOMAIN Nodes(data)
    PROVE  DOMAIN Nodes(data) = 1 .. Len(Nodes(data)) /\ Len(Nodes(data)) \in Nat
           /\ Nodes(data)[i] # None /\ Nodes(data)[i].value \in Seq(Byte)
<1>. PICK n \in Nat : Len(data) = n BY LenProperties
<1> DEFINE ns == Nodes(data)
<1>1. Follow(data, 0, ns) BY NodesFollow
<1> HIDE DEF ns
<1>2. ns \in Seq({ReadNode(data, p) : p \in 0 .. n}) BY <1>1 DEF Follow
<1>3. Len(ns) \in Nat /\ DOMAIN ns = 1 .. Len(ns) BY <1>2, LenProperties
<1>. i \in 1 .. Len(ns) BY <1>3 DEF ns
<1>4. /\ ns[i] = ReadNode(data, Reach(0, ns, i - 1)) /\ ns[i] # None
      /\ Reach(0, ns, i - 1) \in 0 .. n
  BY <1>1, <1>3 DEF Follow
<1>5. ns[i].value \in Seq(Byte) BY <1>4, StepForward
<1> QED BY <1>3, <1>4, <1>5 DEF ns

\* What is found in a buffer depends on what is found one level deeper only.
LEMMA AmongSame ==
    ASSUME NEW f, NEW g, NEW tag, NEW depth \in Nat, NEW data \in Seq(Byte),
           depth + 1 < MaxDepth => \A buffer \in Seq(Byte) :
                                      f[depth + 1][buffer] = g[depth + 1][buffer]
    PROVE  Among(f, tag, depth, Nodes(data)) = Among(g, tag, depth, Nodes(data))
<1> DEFINE ns == Nodes(data)
<1>1. \A i \in DOMAIN ns : Inside(f, tag, depth, ns[i]) = Inside(g, tag, depth, ns[i])
  BY NodesHold DEF Inside
<1>2. DOMAIN ns # {} => DOMAIN ns \in SUBSET Nat
  <2> SUFFICES ASSUME NEW i \in DOMAIN ns PROVE DOMAIN ns \in SUBSET Nat
    OBVIOUS
  <2>1. DOMAIN ns = 1 .. Len(ns) /\ Len(ns) \in Nat BY NodesHold
  <2> HIDE DEF ns
  <2> QED BY <2>1
<1> HIDE DEF ns
<1>3. Hits(f, tag, depth, ns) = Hits(g, tag, depth, ns) BY <1>1 DEF Hits
<1> DEFINE hits == Hits(f, tag, depth, ns)
<1>4. CASE hits = {} BY <1>3, <1>4 DEF Among, ns, hits
<1>5. CASE hits # {}
  <2>1. hits \in SUBSET Nat /\ hits \subseteq DOMAIN ns BY <1>2 DEF Hits
  <2> HIDE DEF hits
  <2>2. Min(hits) \in DOMAIN ns BY <2>1, <1>5, LeastOf
  <2>3. Inside(f, tag, depth, ns[Min(hits)]) = Inside(g, tag, depth, ns[Min(hits)])
    BY <2>2, <1>1
  <2> QED BY <2>3, <1>3, <1>5 DEF Among, hits, ns
<1> QED BY <1>4, <1>5

\* The recursion of the search is well founded: each call is a level deeper.
LEMMA SearchExists == ASSUME NEW tag PROVE \E search : Search(search, tag)
<1>. PICK n \in Nat : MaxDepth = n + 1 BY DEF MaxDepth
<1> DEFINE B == Seq(Byte)
           D == 0 .. n
           Total(f) == f = [depth \in D |-> [buffer \in B |-> f[depth][buffer]]]
           Upto(f, k) == \A depth \in D, buffer \in B :
                            depth + k >= n => f[depth][buffer] = Among(f, tag, depth, Nodes(buffer))
           P(k) == \E f : Total(f) /\ Upto(f, k)
           A == {k \in Nat : P(k)}
<1>2. ASSUME NEW f, NEW k \in 0 .. n,
             \A depth \in D, buffer \in B :
                depth + k > n => f[depth][buffer] = Among(f, tag, depth, Nodes(buffer))
      PROVE  P(k)
  <2> DEFINE g == [depth \in D |-> [buffer \in B |->
                      IF depth + k = n THEN Among(f, tag, depth, Nodes(buffer))
                      ELSE f[depth][buffer]]]
  <2>1. \A depth \in D, buffer \in B :
           g[depth][buffer] = IF depth + k = n THEN Among(f, tag, depth, Nodes(buffer))
                              ELSE f[depth][buffer]
    OBVIOUS
  <2>2. Total(g) OBVIOUS
  <2> HIDE DEF g
  <2>3. ASSUME NEW depth \in D, NEW buffer \in B, depth + k >= n
        PROVE  g[depth][buffer] = Among(g, tag, depth, Nodes(buffer))
    <3>1. depth + 1 < MaxDepth => \A b \in B : f[depth + 1][b] = g[depth + 1][b]
      <4> SUFFICES ASSUME depth + 1 < MaxDepth, NEW b \in B
                   PROVE  f[depth + 1][b] = g[depth + 1][b]
        OBVIOUS
      <4>1. depth + 1 \in D /\ depth + 1 + k # n BY <2>3
      <4> QED BY <4>1, <2>1
    <3>2. Among(f, tag, depth, Nodes(buffer)) = Among(g, tag, depth, Nodes(buffer))
      BY <3>1, AmongSame
    <3>3. CASE depth + k = n BY <3>2, <3>3, <2>1
    <3>4. CASE depth + k > n BY <3>2, <3>4, <2>1, <1>2
    <3> QED BY <2>3, <3>3, <3>4
  <2> HIDE DEF Total
  <2> QED BY <2>2, <2>3
<1>3. P(0)
  <2> HIDE DEF P
  <2> QED BY <1>2
<1>4. ASSUME NEW k \in Nat, P(k) PROVE P(k + 1)
  <2>1. PICK f : Total(f) /\ Upto(f, k) BY <1>4
  <2> HIDE DEF Total
  <2>2. CASE k + 1 \in 0 .. n
    <3>1. \A depth \in D, buffer \in B :
             depth + (k + 1) > n => f[depth][buffer] = Among(f, tag, depth, Nodes(buffer))
      BY <2>1
    <3> HIDE DEF P
    <3> QED BY <3>1, <2>2, <1>2
  <2>3. CASE k >= n BY <2>1, <2>3
  <2> QED BY <2>2, <2>3
<1>5. P(n)
  <2> HIDE DEF P
  <2>1. A \in SUBSET Nat /\ 0 \in A /\ \A k \in A : k + 1 \in A BY <1>3, <1>4
  <2>2. A = Nat
    <3> HIDE DEF A
    <3> QED BY <2>1, SetInduction
  <2> QED BY <2>2
<1>6. PICK f : Total(f) /\ Upto(f, n) BY <1>5
<1>7. \A depth \in D, buffer \in B : f[depth][buffer] = Among(f, tag, depth, Nodes(buffer))
  <2> HIDE DEF Total
  <2> QED BY <1>6
<1>8. f = [depth \in D |-> [buffer \in B |-> Among(f, tag, depth, Nodes(buffer))]]
  BY <1>6, <1>7
<1> QED BY <1>8 DEF Search

\* So FindRecursive is what its own equation says.
LEMMA FindRecursiveIs ==
    ASSUME NEW data, NEW tag
    PROVE  \E search : Search(search, tag) /\ FindRecursive(data, tag) = search[0][data]
<1>1. PICK g : Search(g, tag) BY SearchExists
<1>2. PICK h : h = CHOOSE f : Search(f, tag) OBVIOUS
<1>3. Search(h, tag) BY <1>1, <1>2
<1>4. h[0][data] = FindRecursive(data, tag)
  BY <1>2 DEF Search, Among, Hits, Inside, FindRecursive
<1> QED BY <1>3, <1>4

\* What is found has the tag, and something is if a node of the buffer has it.
LEMMA AmongHasTag ==
    ASSUME NEW f, NEW tag, NEW depth \in Nat, NEW data \in Seq(Byte),
           BelowHasTag(f, tag, depth)
    PROVE  LET found == Among(f, tag, depth, Nodes(data))
           IN /\ found = None \/ found.tag = tag
              /\ (\E i \in DOMAIN Nodes(data) : Nodes(data)[i].tag = tag) => found.tag = tag
<1> DEFINE ns == Nodes(data)
           hits == Hits(f, tag, depth, ns)
           found == Among(f, tag, depth, ns)
<1>1. ASSUME NEW i \in DOMAIN ns
      PROVE  LET x == Inside(f, tag, depth, ns[i])
             IN /\ x = None \/ x.tag = tag
                /\ ns[i].tag = tag => x = ns[i] /\ x # None
  <2>1. ns[i] # None /\ ns[i].value \in Seq(Byte) BY NodesHold
  <2> HIDE DEF ns
  <2> QED BY <2>1 DEF Inside, BelowHasTag
<1>2. DOMAIN ns # {} => DOMAIN ns \in SUBSET Nat
  <2> SUFFICES ASSUME NEW i \in DOMAIN ns PROVE DOMAIN ns \in SUBSET Nat
    OBVIOUS
  <2>1. DOMAIN ns = 1 .. Len(ns) /\ Len(ns) \in Nat BY NodesHold
  <2> HIDE DEF ns
  <2> QED BY <2>1
<1> HIDE DEF ns
<1>3. (\E i \in DOMAIN ns : ns[i].tag = tag) => hits # {} BY <1>1 DEF Hits
<1>4. CASE hits = {} BY <1>3, <1>4 DEF Among, ns
<1>5. CASE hits # {}
  <2>1. hits \in SUBSET Nat /\ hits \subseteq DOMAIN ns BY <1>2 DEF Hits
  <2>2. \A i \in hits : Inside(f, tag, depth, ns[i]) # None BY DEF Hits
  <2> HIDE DEF hits
  <2>3. Min(hits) \in hits BY <2>1, <1>5, LeastOf
  <2>4. found = Inside(f, tag, depth, ns[Min(hits)]) BY <1>5 DEF Among, hits
  <2> HIDE DEF found
  <2>5. found # None /\ (found = None \/ found.tag = tag) BY <2>1, <2>2, <2>3, <2>4, <1>1
  <2> QED BY <2>5 DEF found, ns
<1> QED BY <1>4, <1>5

\* Both searches find the tag of every node of the buffer.
LEMMA FindsTheTag ==
    ASSUME NEW data \in Seq(Byte), NEW i \in DOMAIN Nodes(data)
    PROVE  LET tag == Nodes(data)[i].tag
           IN Find(data, tag).tag = tag /\ FindRecursive(data, tag).tag = tag
<1> DEFINE ns == Nodes(data)
           tag == ns[i].tag
<1>. PICK n \in Nat : MaxDepth = n + 1 BY DEF MaxDepth
<1>1. DOMAIN ns \in SUBSET Nat
  <2>1. DOMAIN ns = 1 .. Len(ns) /\ Len(ns) \in Nat BY NodesHold
  <2> HIDE DEF ns
  <2> QED BY <2>1
<1>2. Find(data, tag).tag = tag
  <2> DEFINE hits == {k \in DOMAIN ns : ns[k].tag = tag}
  <2>1. Find(data, tag) = IF hits = {} THEN None ELSE ns[Min(hits)] BY DEF Find
  <2>2. i \in hits /\ hits \in SUBSET Nat /\ \A k \in hits : ns[k].tag = tag BY <1>1
  <2> HIDE DEF hits, tag, ns
  <2>3. Min(hits) \in hits BY <2>2, LeastOf
  <2> QED BY <2>1, <2>2, <2>3
<1>3. FindRecursive(data, tag).tag = tag
  <2>. DEFINE t == tag
  <2>0. \E k \in DOMAIN Nodes(data) : Nodes(data)[k].tag = t OBVIOUS
  <2> HIDE DEF t
  <2>1. PICK f : Search(f, t) /\ FindRecursive(data, t) = f[0][data] BY FindRecursiveIs
  <2>2. \A depth \in 0 .. n, buffer \in Seq(Byte) :
           f[depth][buffer] = Among(f, t, depth, Nodes(buffer))
    <3>1. MaxDepth - 1 = n OBVIOUS
    <3> DEFINE g == [depth \in 0 .. n |-> [buffer \in Seq(Byte) |->
                                              Among(f, t, depth, Nodes(buffer))]]
    <3>2. f = g BY <2>1, <3>1 DEF Search
    <3>3. \A depth \in 0 .. n, buffer \in Seq(Byte) :
             g[depth][buffer] = Among(f, t, depth, Nodes(buffer))
      OBVIOUS
    <3> HIDE DEF g
    <3> QED BY <3>2, <3>3
  <2> DEFINE Has(depth) == \A buffer \in Seq(Byte) :
                              f[depth][buffer] = None \/ f[depth][buffer].tag = t
             A == {k \in Nat : \A depth \in 0 .. n : depth + k > n => Has(depth)}
  <2>9. ASSUME NEW depth \in Nat, depth + 1 < MaxDepth => Has(depth + 1),
               NEW buffer \in Seq(Byte)
        PROVE  \/ Among(f, t, depth, Nodes(buffer)) = None
               \/ Among(f, t, depth, Nodes(buffer)).tag = t
    <3>1. BelowHasTag(f, t, depth) BY <2>9 DEF BelowHasTag
    <3> QED BY <3>1, AmongHasTag
  <2>3. A \in SUBSET Nat /\ 0 \in A OBVIOUS
  <2>4. ASSUME NEW k \in A PROVE k + 1 \in A
    <3> SUFFICES ASSUME NEW depth \in 0 .. n, depth + (k + 1) > n PROVE Has(depth)
      OBVIOUS
    <3>1. depth + 1 < MaxDepth => Has(depth + 1) OBVIOUS
    <3>2. ASSUME NEW buffer \in Seq(Byte)
          PROVE  f[depth][buffer] = None \/ f[depth][buffer].tag = t
      <4>1. depth \in Nat OBVIOUS
      <4>2. \/ Among(f, t, depth, Nodes(buffer)) = None
            \/ Among(f, t, depth, Nodes(buffer)).tag = t
        BY <3>1, <4>1, <2>9
      <4> QED BY <4>2, <2>2
    <3> QED BY <3>2
  <2>5. A = Nat
    <3> HIDE DEF A
    <3> QED BY <2>3, <2>4, SetInduction
  <2>6. 0 + 1 < MaxDepth => Has(0 + 1)
    <3>1. n \in A BY <2>5
    <3> QED BY <3>1
  <2>7. Among(f, t, 0, Nodes(data)).tag = t
    <3>1. BelowHasTag(f, t, 0) BY <2>6 DEF BelowHasTag
    <3> QED BY <2>0, <3>1, AmongHasTag
  <2>8. FindRecursive(data, t).tag = t BY <2>1, <2>2, <2>7
  <2> QED BY <2>8 DEF t
<1> QED BY <1>2, <1>3

\* A beginning of a cut.
LEMMA CutOfNothing ==
    ASSUME NEW s \in Seq(Byte), NEW a, NEW k, Room(s, a, k), NEW m \in Nat, m <= k
    PROVE  /\ Cut(Cut(s, a, k), 0, m) = Cut(s, a, m) /\ Room(Cut(s, a, k), 0, m)
           /\ Room(s, a, m)
           /\ \A i \in 1 .. m : At(Cut(s, a, k), 0, i) = At(s, a, i)
<1>. a \in Nat /\ k \in Nat BY DEF Room
<1>1. a + 0 = a /\ 0 + m <= k OBVIOUS
<1> QED BY <1>1, CutOfCut

\* Whether a node begins somewhere is a matter of its own bytes.
LEMMA NodeOfCut ==
    ASSUME NEW data \in Seq(Byte), NEW o, NEW k, Room(data, o, k),
           NEW t \in Nat, NEW l \in Nat, NEW v \in Nat, t + l + v <= k
    PROVE  HasNode(Cut(data, o, k), 0, t, l, v) <=> HasNode(data, o, t, l, v)
<1> DEFINE s == Cut(data, o, k)
<1>. o \in Nat /\ k \in Nat BY DEF Room
<1>1. /\ Room(s, 0, t) /\ Room(data, o, t) /\ Cut(s, 0, t) = Cut(data, o, t)
  <2>1. t <= k OBVIOUS
  <2> QED BY <2>1, CutOfNothing
<1>2. /\ Room(s, 0 + t, l) /\ Room(data, o + t, l) /\ Cut(s, 0 + t, l) = Cut(data, o + t, l)
  <2>1. t + l <= k /\ 0 + t = t OBVIOUS
  <2> QED BY <2>1, CutOfCut
<1>3. Room(s, 0 + t + l, v) /\ Room(data, o + t + l, v)
  <2>. PICK b \in Nat : b = t + l OBVIOUS
  <2>1. b + v <= k /\ 0 + t + l = b /\ o + t + l = o + b OBVIOUS
  <2>2. Room(s, b, v) /\ Room(data, o + b, v) BY <2>1, CutOfCut
  <2> QED BY <2>1, <2>2
<1> HIDE DEF s
<1>4. HasNode(s, 0, t, l, v) <=> HasNode(data, o, t, l, v) BY <1>1, <1>2, <1>3 DEF HasNode
<1> QED BY <1>4 DEF s

\* The grammar's node and HasNode are the same.
LEMMA IsNodeIs ==
    ASSUME NEW s \in Seq(Byte), NEW n \in Nat, Len(s) = n, n < Huge
    PROVE  IsNode(s) <=> \E t, l, v : HasNode(s, 0, t, l, v) /\ t + l + v = n
<1>0. \A t \in Nat : SubSeq(s, 1, t) = Cut(s, 0, t) BY DEF Cut
<1>1. \A t, l \in Nat : SubSeq(s, t + 1, t + l) = Cut(s, t, l) /\ 0 + t = t BY DEF Cut
<1>2. ASSUME NEW t \in Nat, NEW l \in Nat, t # 0, l # 0, t + l <= n,
             IsTag(SubSeq(s, 1, t)), SaysLength(SubSeq(s, t + 1, t + l), n - t - l)
      PROVE  HasNode(s, 0, t, l, n - t - l) /\ t + l + (n - t - l) = n
  <2>. PICK v \in Nat : v = n - t - l BY <1>2
  <2>1. Room(s, 0, t) /\ Room(s, 0 + t, l) /\ Room(s, 0 + t + l, v) /\ v < Huge
    <3>1. v <= n OBVIOUS
    <3>2. v < Huge BY <3>1 DEF Huge
    <3> QED BY <3>2, <1>2 DEF Room
  <2>2. IsTag(Cut(s, 0, t)) /\ SaysLength(Cut(s, 0 + t, l), v) BY <1>0, <1>1, <1>2
  <2>3. t + l + v = n OBVIOUS
  <2>4. HasNode(s, 0, t, l, v) BY <2>1, <2>2, <1>2 DEF HasNode
  <2> QED BY <2>3, <2>4
<1>3. ASSUME NEW t, NEW l, NEW v, HasNode(s, 0, t, l, v), t + l + v = n
      PROVE  IsNode(s)
  <2>1. /\ t \in Nat /\ l \in Nat /\ v \in Nat /\ t # 0 /\ l # 0 /\ v < Huge
        /\ Room(s, 0, t) /\ Room(s, 0 + t, l)
        /\ IsTag(Cut(s, 0, t)) /\ SaysLength(Cut(s, 0 + t, l), v)
    BY <1>3 DEF HasNode
  <2>2. t <= 4 BY <2>1, CutIsTag
  <2>3. l = 1 \/ l = 2 \/ l = 3 \/ l = 4 \/ l = 5 BY <2>1, CutSays
  <2>4. t \in 1 .. 4 /\ l \in 1 .. 5 /\ t + l <= n /\ v = n - t - l
    BY <2>1, <2>2, <2>3, <1>3
  <2>5. IsTag(SubSeq(s, 1, t)) /\ SaysLength(SubSeq(s, t + 1, t + l), n - t - l)
    BY <2>1, <2>4, <1>0, <1>1
  <2> QED BY <2>4, <2>5 DEF IsNode
<1>4. IsNode(s) => \E t, l, v : HasNode(s, 0, t, l, v) /\ t + l + v = n
  <2> SUFFICES ASSUME IsNode(s) PROVE \E t, l, v : HasNode(s, 0, t, l, v) /\ t + l + v = n
    OBVIOUS
  <2>1. PICK t \in 1 .. 4, l \in 1 .. 5 :
               /\ t + l <= n
               /\ IsTag(SubSeq(s, 1, t))
               /\ SaysLength(SubSeq(s, t + 1, t + l), n - t - l)
    BY DEF IsNode
  <2>2. t \in Nat /\ l \in Nat /\ t # 0 /\ l # 0 OBVIOUS
  <2> QED
    <3>1. HasNode(s, 0, t, l, n - t - l) /\ t + l + (n - t - l) = n BY <2>1, <2>2, <1>2
    <3> QED BY <3>1
<1> QED BY <1>3, <1>4

\* emrtd_tlv_total_length of the first k bytes of a node: nothing until tag and
\* length are there, and then the truth.
LEMMA TotalLengthIs ==
    ASSUME NEW data \in Seq(Byte), NEW o, NEW t, NEW l, NEW v, HasNode(data, o, t, l, v),
           NEW k \in Nat, k <= t + l + v
    PROVE  TotalLength(Cut(data, o, k)) = IF k < t + l THEN 0 ELSE t + l + v
<1>1. /\ t \in Nat /\ l \in Nat /\ v \in Nat /\ t # 0 /\ l # 0 /\ v < Huge
      /\ Room(data, o, t) /\ Room(data, o + t, l) /\ Room(data, o + t + l, v)
      /\ IsTag(Cut(data, o, t)) /\ SaysLength(Cut(data, o + t, l), v)
  BY DEF HasNode
<1>. t \in Nat /\ l \in Nat /\ v \in Nat /\ o \in Nat BY <1>1 DEF Room
<1>2. Room(data, o, t + l + v) /\ Room(data, o, k) /\ Room(data, o, 0) BY <1>1 DEF Room
<1> DEFINE h == Cut(data, o, k)
           tag == TagBytes(h, 0)
           size == LengthBytes(h, tag)
           len == LengthAt(h, tag, size)
           Wraps == /\ size = 5
                    /\ SubSeq(h, tag + 2, tag + 4) = <<255, 255, 255>>
                    /\ h[tag + 5] > 255 - (tag + size)
<1>3. TotalLength(h) = IF tag = 0 THEN 0
                       ELSE IF size = 0 \/ Wraps THEN 0
                       ELSE IF len = Huge THEN Huge ELSE tag + size + len
  BY DEF TotalLength
<1>4. h \in Seq(Byte) /\ Len(h) = k BY <1>2, CutIs
<1>5. Room(h, 0, 0) BY <1>4 DEF Room
<1>6. \A m \in Nat : m <= k => /\ Cut(h, 0, m) = Cut(data, o, m) /\ Room(h, 0, m)
                               /\ Room(data, o, m)
                               /\ \A i \in 1 .. m : At(h, 0, i) = At(data, o, i)
  BY <1>2, CutOfNothing
<1>6a. ASSUME NEW b \in Nat, NEW m \in Nat, b + m <= k
       PROVE  /\ Room(h, b, m) /\ Cut(h, b, m) = Cut(data, o + b, m)
              /\ \A i \in 1 .. m : At(h, b, i) = At(data, o + b, i)
  <2>1. o \in Nat /\ Room(data, o, k) BY <1>2
  <2> QED BY <2>1, <1>6a, CutOfCut
<1> HIDE DEF h
<1>7. /\ tag # 0 => Room(h, 0, tag) /\ IsTag(Cut(h, 0, tag))
      /\ \A m \in Nat : m # 0 /\ Room(h, 0, m) /\ IsTag(Cut(h, 0, m)) => m = tag
  BY <1>4, <1>5, TagIs
<1>8. \A m \in Nat : m # 0 /\ Room(data, o, m) /\ IsTag(Cut(data, o, m)) => m = t
  BY <1>1, <1>2, TagIs
<1>9. CASE k < t
  <2>1. tag = 0
    <3> SUFFICES ASSUME tag # 0 PROVE FALSE
      OBVIOUS
    <3>1. Room(h, 0, tag) /\ IsTag(Cut(h, 0, tag)) BY <1>7
    <3>2. tag \in Nat /\ tag <= k BY <3>1, <1>4 DEF Room
    <3> HIDE DEF tag
    <3>3. Room(data, o, tag) /\ IsTag(Cut(data, o, tag)) BY <3>1, <3>2, <1>6
    <3>4. tag = t BY <3>2, <3>3, <1>8
    <3> QED BY <3>2, <3>4, <1>9
  <2>2. k < t + l BY <1>9
  <2> QED BY <2>1, <2>2, <1>3 DEF h
<1>10. CASE t <= k
  <2>1. tag = t
    <3>1. Room(h, 0, t) /\ IsTag(Cut(h, 0, t)) BY <1>1, <1>6, <1>10
    <3> HIDE DEF tag
    <3> QED BY <3>1, <1>7, <1>1
  <2>2. Room(h, t, 0) BY <1>4, <1>10 DEF Room
  <2>3. /\ LengthBytes(h, t) # 0 => Room(h, t, LengthBytes(h, t))
        /\ \A L, n \in Nat : /\ L # 0 /\ Room(h, t, L) /\ n < Huge
                             /\ SaysLength(Cut(h, t, L), n)
                             => L = LengthBytes(h, t) /\ n = LengthAt(h, t, LengthBytes(h, t))
    BY <1>4, <2>2, LengthIs
  <2>4. CASE t + l <= k
    <3>1. Room(h, t, l) /\ Cut(h, t, l) = Cut(data, o + t, l)
          /\ \A i \in 1 .. l : At(h, t, i) = At(data, o + t, i)
      BY <2>4, <1>6a
    <3>2. l = LengthBytes(h, t) /\ v = LengthAt(h, t, l) BY <3>1, <2>3, <1>1
    <3>3. l = size /\ v = len BY <3>2, <2>1
    <3>4. ~Wraps
      <4> SUFFICES ASSUME l = 5, SubSeq(h, t + 2, t + 4) = <<255, 255, 255>> PROVE FALSE
        BY <2>1, <3>3
      <4>1. At(data, o + t, 2) = 0 BY <1>1, CutSays
      <4>2. At(h, t, 2) = 0 BY <4>1, <3>1
      <4>3. (t + 1) + 1 = t + 2 /\ (t + 1) + 3 = t + 4 OBVIOUS
      <4>4. Cut(h, t + 1, 3) = <<255, 255, 255>> BY <4>3 DEF Cut
      <4>5. Room(h, t + 1, 3) BY <2>4, <1>4 DEF Room
      <4>6. Cut(h, t + 1, 3)[1] = At(h, t + 1, 1) BY <4>5, <1>4, CutIs
      <4>7. At(h, t + 1, 1) = At(h, t, 2) BY <4>3 DEF At
      <4> QED BY <4>2, <4>4, <4>6, <4>7
    <3>5. v # Huge BY <1>1 DEF Huge
    <3> HIDE DEF tag, size, len, Wraps
    <3>6. TotalLength(h) = t + l + v BY <1>3, <1>1, <2>1, <3>3, <3>4, <3>5
    <3> QED BY <3>6, <2>4 DEF h
  <2>5. CASE k < t + l
    <3>1. LengthBytes(h, t) = 0
      <4> SUFFICES ASSUME LengthBytes(h, t) # 0 PROVE FALSE
        OBVIOUS
      <4> DEFINE s == LengthBytes(h, t)
      <4>1. /\ Room(h, t, s)
            /\ \/ s = 1 /\ At(h, t, 1) < 128
               \/ s = 2 /\ At(h, t, 1) = 129
               \/ s = 3 /\ At(h, t, 1) = 130
               \/ s = 4 /\ At(h, t, 1) = 131
               \/ s = 5 /\ At(h, t, 1) = 132
        BY <1>4, <2>2, LengthBytesAre
      <4> HIDE DEF s
      <4>2. s \in Nat /\ s >= 1 /\ t + s <= k BY <4>1, <1>4 DEF Room
      <4>3. At(h, t, 1) = At(data, o + t, 1) BY <4>2, <1>6a
      <4>4. /\ l = 1 => At(data, o + t, 1) < 128
            /\ l = 2 => At(data, o + t, 1) = 129
            /\ l = 3 => At(data, o + t, 1) = 130
            /\ l = 4 => At(data, o + t, 1) = 131
            /\ l = 5 => At(data, o + t, 1) = 132
            /\ l = 1 \/ l = 2 \/ l = 3 \/ l = 4 \/ l = 5
        BY <1>1, CutSays
      <4>5. s = l BY <4>1, <4>3, <4>4
      <4> QED BY <4>2, <4>5, <2>5
    <3> HIDE DEF tag
    <3> QED BY <3>1, <2>1, <2>5, <1>3 DEF h
  <2> QED BY <2>4, <2>5
<1> QED BY <1>9, <1>10

LEMMA CutOfAll == ASSUME NEW s \in Seq(Byte) PROVE Cut(s, 0, Len(s)) = s /\ Room(s, 0, Len(s))
<1>. PICK n \in Nat : Len(s) = n BY LenProperties
<1>1. Room(s, 0, n) BY DEF Room
<1>2. Cut(s, 0, n) \in Seq(Byte) /\ Len(Cut(s, 0, n)) = n
      /\ \A i \in 1 .. n : Cut(s, 0, n)[i] = At(s, 0, i)
  BY <1>1, CutIs
<1>3. \A i \in 1 .. n : At(s, 0, i) = s[i]
  <2>1. \A i \in 1 .. n : 0 + i = i OBVIOUS
  <2> QED BY <2>1 DEF At
<1>4. Cut(s, 0, n) = s BY <1>2, <1>3, SeqEqual
<1> QED BY <1>1, <1>4

\* A length that is written is read back.
LEMMA LengthIsSaid ==
    ASSUME NEW n \in Nat, n < Huge, NEW w \in Seq(Byte), w # <<>>, SaysLength(w, n)
    PROVE  LengthBytes(w, 0) = Len(w) /\ LengthAt(w, 0, Len(w)) = n
<1>. PICK m \in Nat : Len(w) = m /\ m # 0 BY LenProperties, EmptySeq
<1>1. Room(w, 0, m) /\ SaysLength(Cut(w, 0, m), n) /\ Room(w, 0, 0) BY CutOfAll DEF Room
<1>2. m = LengthBytes(w, 0) /\ n = LengthAt(w, 0, LengthBytes(w, 0)) BY <1>1, LengthIs
<1> QED BY <1>2

\* emrtd_tlv_encode_length writes every length below 2^24 as X.690 does, in the
\* number of bytes announced, and tlv_read_length reads it back.
LEMMA LengthsAlwaysComeBack ==
    ASSUME NEW n \in Nat, n < Huge
    PROVE  LengthComesBack(n)
<1> DEFINE w == EncodeLength(n)
           p == n \div 65536
           q == (n \div 256) % 256
           r == n % 256
<1>1. p \in Nat /\ p < 256 /\ q \in Nat /\ q < 256 /\ r \in Nat /\ r < 256 BY BelowHuge
<1>2. n = BigEndian(p, q, r)
  <2>1. p = (n \div 65536) % 256 BY <1>1
  <2> QED BY <2>1, <1>1, ThreeDigits
<1>3. /\ n < 65536 => p = 0 /\ q = n \div 256
      /\ n < 256 => p = 0 /\ q = 0 /\ r = n
  OBVIOUS
<1>4. \A x \in Nat : x < 256 => x \in Byte BY ByteIs
<1>5. w = IF n < 128 THEN <<n>>
          ELSE IF n < 256 THEN <<129, n>>
          ELSE IF n < 65536 THEN <<130, n \div 256, r>>
          ELSE <<131, p, q, r>>
  BY DEF EncodeLength, EncodedLengthSize
<1>6. EncodedLengthSize(n) = IF n < 128 THEN 1 ELSE IF n < 256 THEN 2
                             ELSE IF n < 65536 THEN 3 ELSE 4
  BY DEF EncodedLengthSize
<1> HIDE DEF w, p, q, r
<1>7. w \in Seq(Byte) /\ w # <<>> /\ Len(w) = EncodedLengthSize(n) /\ SaysLength(w, n)
  <2>1. CASE n < 128
    <3>1. w = <<n>> /\ n \in Byte /\ n = BigEndian(0, 0, n) /\ EncodedLengthSize(n) = 1
      BY <2>1, <1>4, <1>5, <1>6, BigEndianIs
    <3>2. <<n>> \in Seq(Byte) /\ Len(<<n>>) = 1 /\ <<n>>[1] = n /\ <<n>> # <<>> BY <3>1
    <3> QED BY <3>1, <3>2, <2>1, SaysLengthIs
  <2>2. CASE n >= 128 /\ n < 256
    <3>1. /\ w = <<129, n>> /\ n \in Byte /\ 129 \in Byte /\ n = BigEndian(0, 0, n)
          /\ EncodedLengthSize(n) = 2
      BY <2>2, <1>4, <1>5, <1>6, BigEndianIs
    <3>2. w \in Seq(Byte) /\ Len(w) = 2 /\ w[1] = 129 /\ w[2] = n /\ w # <<>> BY <3>1
    <3> QED BY <3>1, <3>2, SaysLengthIs
  <2>3. CASE n >= 256 /\ n < 65536
    <3>1. w = <<130, q, r>> /\ q \in Byte /\ 130 \in Byte /\ r \in Byte /\ n = BigEndian(0, q, r)
          /\ EncodedLengthSize(n) = 3
      BY <2>3, <1>1, <1>2, <1>3, <1>4, <1>5, <1>6
    <3>2. w \in Seq(Byte) /\ Len(w) = 3 /\ w[1] = 130 /\ w[2] = q /\ w[3] = r /\ w # <<>>
      BY <3>1
    <3> QED BY <3>1, <3>2, SaysLengthIs
  <2>4. CASE n >= 65536
    <3>1. w = <<131, p, q, r>> /\ p \in Byte /\ q \in Byte /\ 131 \in Byte /\ r \in Byte
          /\ EncodedLengthSize(n) = 4
      BY <2>4, <1>1, <1>4, <1>5, <1>6
    <3>2. /\ w \in Seq(Byte) /\ Len(w) = 4 /\ w[1] = 131 /\ w[2] = p /\ w[3] = q /\ w[4] = r
          /\ w # <<>>
      BY <3>1
    <3> QED BY <3>1, <3>2, <1>2, SaysLengthIs
  <2> QED BY <2>1, <2>2, <2>3, <2>4
<1>8. LengthBytes(w, 0) = Len(w) /\ LengthAt(w, 0, Len(w)) = n BY <1>7, LengthIsSaid
<1> QED BY <1>7, <1>8 DEF LengthComesBack, w

\* What the iteration returns, one node and what it rests on.
LEMMA NodesAre ==
    ASSUME NEW data \in Seq(Byte), NEW n \in Nat, Len(data) = n, n < Huge
    PROVE  LET ns == Nodes(data)
           IN /\ Len(ns) \in Nat /\ DOMAIN ns = 1 .. Len(ns) /\ (ns = <<>> <=> Len(ns) = 0)
              /\ \A i \in 1 .. Len(ns) :
                    /\ Reach(0, ns, i - 1) \in 0 .. n /\ Reach(0, ns, i) \in 0 .. n
                    /\ \E t, l, v : /\ HasNode(data, Reach(0, ns, i - 1), t, l, v)
                                    /\ ns[i] = NodeAt(data, Reach(0, ns, i - 1), t, l, v)
              /\ Reach(0, ns, Len(ns)) \in 0 .. n
              /\ \A t, l, v : ~HasNode(data, Reach(0, ns, Len(ns)), t, l, v)
<1> DEFINE ns == Nodes(data)
<1>1. Follow(data, 0, ns) BY NodesFollow
<1> HIDE DEF ns
<1>2. ns \in Seq({ReadNode(data, p) : p \in 0 .. n}) BY <1>1 DEF Follow
<1>. PICK m \in Nat : Len(ns) = m BY <1>2, LenProperties
<1>3. DOMAIN ns = 1 .. m /\ (ns = <<>> <=> m = 0) BY <1>2, LenProperties, EmptySeq
<1>4. \A i \in 0 .. m : Reach(0, ns, i) \in 0 .. n BY <1>1 DEF Follow
<1>5. ASSUME NEW i \in 1 .. m
      PROVE  \E t, l, v : /\ HasNode(data, Reach(0, ns, i - 1), t, l, v)
                          /\ ns[i] = NodeAt(data, Reach(0, ns, i - 1), t, l, v)
  <2>1. ns[i] = ReadNode(data, Reach(0, ns, i - 1)) /\ ns[i] # None BY <1>1 DEF Follow
  <2>2. i - 1 \in 0 .. m OBVIOUS
  <2>3. PICK o \in 0 .. n : o = Reach(0, ns, i - 1) BY <2>2, <1>4
  <2>4. Room(data, o, 0) BY DEF Room
  <2>5. ReadNode(data, o) # None BY <2>1, <2>3
  <2>6. PICK t, l, v : HasNode(data, o, t, l, v) BY <2>4, <2>5, ReadNodeIs
  <2>7. ReadNode(data, o) = NodeAt(data, o, t, l, v) BY <2>4, <2>6, ReadNodeIs
  <2> QED BY <2>1, <2>3, <2>6, <2>7
<1>6. ASSUME NEW t, NEW l, NEW v, HasNode(data, Reach(0, ns, m), t, l, v) PROVE FALSE
  <2>1. PICK o \in 0 .. n : o = Reach(0, ns, m) BY <1>4
  <2>2. Room(data, o, 0) /\ HasNode(data, o, t, l, v) BY <2>1, <1>6 DEF Room
  <2>3. ReadNode(data, o) = NodeAt(data, o, t, l, v) BY <2>2, ReadNodeIs
  <2>4. ReadNode(data, o) = None BY <1>1, <2>1 DEF Follow
  <2>5. NodeAt(data, o, t, l, v).total # None.total BY <2>2 DEF NodeAt, None, HasNode
  <2> QED BY <2>3, <2>4, <2>5
<1>7. /\ Len(ns) \in Nat /\ DOMAIN ns = 1 .. Len(ns) /\ (ns = <<>> <=> Len(ns) = 0)
      /\ Reach(0, ns, Len(ns)) \in 0 .. n
  BY <1>3, <1>4
<1>8. \A i \in 1 .. Len(ns) : Reach(0, ns, i - 1) \in 0 .. n /\ Reach(0, ns, i) \in 0 .. n
  BY <1>4
<1> QED BY <1>5, <1>6, <1>7, <1>8 DEF ns

\* What ReadsWhatIsThere says of one node.
LEMMA NodeIsWhatIsThere ==
    ASSUME NEW data \in Seq(Byte), NEW o, NEW t, NEW l, NEW v, HasNode(data, o, t, l, v),
           NEW n, n = NodeAt(data, o, t, l, v)
    PROVE  WholeNode(data, n)
<1>1. /\ t \in Nat /\ l \in Nat /\ v \in Nat /\ t # 0 /\ l # 0 /\ v < Huge
      /\ Room(data, o, t) /\ Room(data, o + t, l) /\ Room(data, o + t + l, v)
      /\ IsTag(Cut(data, o, t)) /\ SaysLength(Cut(data, o + t, l), v)
  BY DEF HasNode
<1>. PICK N \in Nat : Len(data) = N BY LenProperties
<1>. t \in Nat /\ l \in Nat /\ v \in Nat /\ o \in Nat BY <1>1 DEF Room
<1>. PICK k \in Nat : k = t + l + v OBVIOUS
<1>2. Room(data, o, k) /\ o + k <= N BY <1>1 DEF Room
<1> DEFINE raw == Cut(data, o, k)
<1>3. /\ n.start = o /\ n.total = k /\ n.tag = Cut(data, o, t)
      /\ n.value = Cut(data, o + t + l, v)
  BY DEF NodeAt
<1>4. Len(n.tag) = t /\ Len(n.value) = v /\ IsTag(n.tag) BY <1>1, <1>3, CutIs
<1>5. SubSeq(data, n.start + 1, n.start + n.total) = raw BY <1>3 DEF Cut
<1>6. raw \in Seq(Byte) /\ Len(raw) = k BY <1>2, CutIs
<1>7. /\ Cut(raw, 0, t) = Cut(data, o, t) /\ Cut(raw, t, l) = Cut(data, o + t, l)
      /\ Cut(raw, t + l, v) = Cut(data, o + t + l, v)
      /\ HasNode(raw, 0, t, l, v)
  <2>1. Cut(raw, 0, t) = Cut(data, o, t) BY <1>2, CutOfNothing
  <2>2. Cut(raw, t, l) = Cut(data, o + t, l)
    <3>1. t + l <= k OBVIOUS
    <3> QED BY <3>1, <1>2, CutOfCut
  <2>3. Cut(raw, t + l, v) = Cut(data, o + t + l, v)
    <3>. PICK b \in Nat : b = t + l OBVIOUS
    <3>1. b + v <= k /\ o + b = o + t + l OBVIOUS
    <3>2. Cut(raw, b, v) = Cut(data, o + b, v) BY <3>1, <1>2, CutOfCut
    <3> QED BY <3>1, <3>2
  <2>4. t + l + v <= k OBVIOUS
  <2>5. HasNode(raw, 0, t, l, v) BY <1>2, <2>4, NodeOfCut
  <2> QED BY <2>1, <2>2, <2>3, <2>5
<1> HIDE DEF raw
<1>8. \A a \in Nat : SubSeq(raw, 1, a) = Cut(raw, 0, a) BY DEF Cut
<1>9. SubSeq(raw, t + 1, t + l) = Cut(raw, t, l) BY DEF Cut
<1>10. SubSeq(raw, t + l + 1, k) = Cut(raw, t + l, v) BY DEF Cut
<1>11. IsNode(raw)
  <2>1. t <= 4 /\ l <= 5
    <3>1. t <= 4 BY <1>1, CutIsTag
    <3>2. l = 1 \/ l = 2 \/ l = 3 \/ l = 4 \/ l = 5 BY <1>1, CutSays
    <3> QED BY <3>1, <3>2
  <2>2. t \in 1 .. 4 /\ l \in 1 .. 5 /\ t + l <= k /\ k - t - l = v BY <1>1, <2>1
  <2>3. IsTag(SubSeq(raw, 1, t)) /\ SaysLength(SubSeq(raw, t + 1, t + l), k - t - l)
    BY <1>1, <1>7, <1>8, <1>9, <2>2
  <2> QED BY <1>6, <2>2, <2>3 DEF IsNode
<1>12. n.total - Len(n.value) = t + l BY <1>3, <1>4
<1>13. ASSUME NEW j \in 0 .. k
       PROVE  TotalLength(SubSeq(raw, 1, j)) = IF j < t + l THEN 0 ELSE k
  <2>1. Cut(raw, 0, j) = Cut(data, o, j) BY <1>2, CutOfNothing DEF raw
  <2>2. TotalLength(Cut(data, o, j)) = IF j < t + l THEN 0 ELSE t + l + v
    BY <1>1, TotalLengthIs
  <2> QED
    <3>1. SubSeq(raw, 1, j) = Cut(raw, 0, j) BY <1>8
    <3>2. TotalLength(SubSeq(raw, 1, j)) = IF j < t + l THEN 0 ELSE t + l + v
      BY <3>1, <2>1, <2>2
    <3> QED BY <3>2
<1>14. n.tag = SubSeq(raw, 1, Len(n.tag)) BY <1>3, <1>4, <1>7, <1>8
<1>15. n.value = SubSeq(raw, t + l + 1, n.total) BY <1>3, <1>7, <1>10
<1>16. SaysLength(SubSeq(raw, Len(n.tag) + 1, t + l), Len(n.value))
  BY <1>1, <1>4, <1>7, <1>9
<1>17. n.start + n.total <= Len(data) BY <1>2, <1>3
<1>18. \A j \in 0 .. n.total :
          TotalLength(SubSeq(raw, 1, j)) = IF j < t + l THEN 0 ELSE n.total
  BY <1>3, <1>13
<1> QED BY <1>4, <1>5, <1>11, <1>12, <1>14, <1>15, <1>16, <1>17, <1>18 DEF WholeNode

\* Whatever the bytes, below 2^24 of them: the iteration returns whole nodes of
\* the grammar that follow one another, stops only where no node begins, tells
\* their length from as much of a header as is there, and both searches find
\* them.
THEOREM ReadsWhateverIsThere ==
    ASSUME NEW data \in Seq(Byte), Len(data) < Huge
    PROVE  ReadsWhatIsThere(data)
<1>. PICK N \in Nat : Len(data) = N BY LenProperties
<1> DEFINE ns == Nodes(data)
           end == IF ns = <<>> THEN 0 ELSE Last(ns).start + Last(ns).total
<1>1. /\ Len(ns) \in Nat /\ DOMAIN ns = 1 .. Len(ns) /\ (ns = <<>> <=> Len(ns) = 0)
      /\ \A i \in 1 .. Len(ns) :
            /\ Reach(0, ns, i - 1) \in 0 .. N /\ Reach(0, ns, i) \in 0 .. N
            /\ \E t, l, v : /\ HasNode(data, Reach(0, ns, i - 1), t, l, v)
                            /\ ns[i] = NodeAt(data, Reach(0, ns, i - 1), t, l, v)
      /\ Reach(0, ns, Len(ns)) \in 0 .. N
      /\ \A t, l, v : ~HasNode(data, Reach(0, ns, Len(ns)), t, l, v)
  BY NodesAre
<1>2. ASSUME NEW i \in DOMAIN ns
      PROVE  /\ ns[i].start = IF i = 1 THEN 0 ELSE ns[i - 1].start + ns[i - 1].total
             /\ WholeNode(data, ns[i])
             /\ Find(data, ns[i].tag).tag = ns[i].tag
             /\ FindRecursive(data, ns[i].tag).tag = ns[i].tag
  <2>1. Find(data, ns[i].tag).tag = ns[i].tag /\ FindRecursive(data, ns[i].tag).tag = ns[i].tag
    BY FindsTheTag
  <2> HIDE DEF ns
  <2>2. PICK o, t, l, v : /\ o = Reach(0, ns, i - 1)
                          /\ HasNode(data, o, t, l, v)
                          /\ ns[i] = NodeAt(data, o, t, l, v)
    BY <1>1
  <2>3. ns[i].start = IF i = 1 THEN 0 ELSE ns[i - 1].start + ns[i - 1].total
    <3>1. ns[i].start = o BY <2>2 DEF NodeAt
    <3>2. i - 1 = 0 <=> i = 1 BY <1>1
    <3> QED BY <3>1, <3>2, <2>2 DEF Reach
  <2>4. WholeNode(data, ns[i]) BY <2>2, NodeIsWhatIsThere
  <2> QED BY <2>1, <2>3, <2>4
<1>3. end = Reach(0, ns, Len(ns))
  <2> HIDE DEF ns
  <2> QED BY <1>1 DEF Reach, Last
<1>4. ASSUME NEW k \in end + 1 .. Len(data) PROVE ~IsNode(SubSeq(data, end + 1, k))
  <2>1. PICK o \in 0 .. N : o = end BY <1>1, <1>3
  <2> HIDE DEF end
  <2>. PICK c \in Nat : o + c = k
    <3>1. k - o \in Nat /\ o + (k - o) = k BY <2>1, <1>4
    <3> QED BY <3>1
  <2>2. Room(data, o, c) BY <1>4, <2>1 DEF Room
  <2>3. SubSeq(data, end + 1, k) = Cut(data, o, c) BY <2>1 DEF Cut
  <2>4. Cut(data, o, c) \in Seq(Byte) /\ Len(Cut(data, o, c)) = c BY <2>2, CutIs
  <2>5. c < Huge
    <3>1. c <= N BY <1>4, <2>1
    <3> QED BY <3>1 DEF Huge
  <2> SUFFICES ASSUME IsNode(Cut(data, o, c)) PROVE FALSE
    BY <2>3
  <2>6. PICK t, l, v : HasNode(Cut(data, o, c), 0, t, l, v) /\ t + l + v = c
    BY <2>4, <2>5, IsNodeIs
  <2>7. t \in Nat /\ l \in Nat /\ v \in Nat BY <2>6 DEF HasNode
  <2>8. t + l + v <= c BY <2>6, <2>7
  <2>9. HasNode(data, o, t, l, v) BY <2>2, <2>6, <2>7, <2>8, NodeOfCut
  <2>10. ~HasNode(data, o, t, l, v)
    <3>1. o = Reach(0, ns, Len(ns)) BY <2>1, <1>3
    <3> HIDE DEF ns
    <3> QED BY <3>1, <1>1
  <2> QED BY <2>9, <2>10
<1>5. Exhausted(data) <=> end = Len(data) BY DEF Exhausted, Last
<1> QED BY <1>2, <1>4, <1>5 DEF ReadsWhatIsThere

(***************************************************************************)
(* The nodes of a buffer that was put together from parts: each part is    *)
(* read as it would be alone, one behind the other.                        *)
(***************************************************************************)
LEMMA FollowUnique ==
    ASSUME NEW data, NEW pos, NEW ns, NEW ms, Follow(data, pos, ns), Follow(data, pos, ms)
    PROVE  ns = ms
<1> DEFINE S == {ReadNode(data, p) : p \in 0 .. Len(data)}
<1>1. ns \in Seq(S) /\ ms \in Seq(S) BY DEF Follow
<1> HIDE DEF S
<1>. PICK n, m \in Nat : n = Len(ns) /\ m = Len(ms) BY <1>1, LenProperties
<1>2. /\ \A i \in 1 .. n : /\ ns[i] = ReadNode(data, Reach(pos, ns, i - 1))
                           /\ ns[i] # None
      /\ ReadNode(data, Reach(pos, ns, n)) = None
  BY DEF Follow
<1>3. /\ \A i \in 1 .. m : /\ ms[i] = ReadNode(data, Reach(pos, ms, i - 1))
                           /\ ms[i] # None
      /\ ReadNode(data, Reach(pos, ms, m)) = None
  BY DEF Follow
<1> DEFINE A == {k \in Nat : k <= n => /\ k <= m
                                       /\ Reach(pos, ns, k) = Reach(pos, ms, k)
                                       /\ \A i \in 1 .. k : ns[i] = ms[i]}
<1>4. A \in SUBSET Nat OBVIOUS
<1>5. 0 \in A BY DEF Reach
<1>6. ASSUME NEW k \in A PROVE k + 1 \in A
  <2> SUFFICES ASSUME k + 1 <= n
               PROVE  /\ k + 1 <= m
                      /\ Reach(pos, ns, k + 1) = Reach(pos, ms, k + 1)
                      /\ \A i \in 1 .. k + 1 : ns[i] = ms[i]
    OBVIOUS
  <2>1. /\ k <= m /\ Reach(pos, ns, k) = Reach(pos, ms, k)
        /\ \A i \in 1 .. k : ns[i] = ms[i]
    OBVIOUS
  <2>2. k + 1 \in 1 .. n /\ (k + 1) - 1 = k OBVIOUS
  <2>3. ns[k + 1] = ReadNode(data, Reach(pos, ns, k)) /\ ns[k + 1] # None BY <2>2, <1>2
  <2>4. k # m BY <2>1, <2>3, <1>3
  <2>5. k + 1 \in 1 .. m BY <2>1, <2>4
  <2>6. ms[k + 1] = ReadNode(data, Reach(pos, ms, k)) BY <2>2, <2>5, <1>3
  <2>7. ns[k + 1] = ms[k + 1] BY <2>1, <2>3, <2>6
  <2>8. Reach(pos, ns, k + 1) = Reach(pos, ms, k + 1) BY <2>7 DEF Reach
  <2> QED BY <2>1, <2>5, <2>7, <2>8
<1>7. n \in A
  <2> HIDE DEF A
  <2>1. A = Nat BY <1>4, <1>5, <1>6, SetInduction
  <2> QED BY <2>1
<1>8. n <= m /\ Reach(pos, ns, n) = Reach(pos, ms, n) /\ \A i \in 1 .. n : ns[i] = ms[i]
  BY <1>7
<1>9. n = m
  <2> SUFFICES ASSUME n < m PROVE FALSE
    BY <1>8
  <2>1. n + 1 \in 1 .. m /\ (n + 1) - 1 = n OBVIOUS
  <2>2. ms[n + 1] = ReadNode(data, Reach(pos, ms, n)) /\ ms[n + 1] # None BY <2>1, <1>3
  <2> QED BY <2>2, <1>2, <1>8
<1> QED BY <1>1, <1>8, <1>9, SeqEqual

\* The two parts of a buffer that was put together.
LEMMA TwoParts ==
    ASSUME NEW a \in Seq(Byte), NEW b \in Seq(Byte)
    PROVE  /\ a \o b \in Seq(Byte)
           /\ Len(a \o b) = Len(a) + Len(b)
           /\ Cut(a \o b, 0, Len(a)) = a /\ Room(a \o b, 0, Len(a))
           /\ Cut(a \o b, Len(a), Len(b)) = b /\ Room(a \o b, Len(a), Len(b))
<1>0. Len(a) \in Nat /\ Len(b) \in Nat BY LenProperties
<1>. PICK n, m \in Nat : n = Len(a) /\ m = Len(b) BY <1>0
<1> DEFINE d == a \o b
<1>1. d \in Seq(Byte) /\ Len(d) = n + m
      /\ \A i \in 1 .. n + m : d[i] = IF i <= n THEN a[i] ELSE b[i - n]
  BY ConcatProperties
<1> HIDE DEF d
<1>2. Room(d, 0, n) /\ Room(d, n, m) BY <1>1 DEF Room
<1>3. Cut(d, 0, n) = a
  <2>1. Cut(d, 0, n) \in Seq(Byte) /\ Len(Cut(d, 0, n)) = n
        /\ \A i \in 1 .. n : Cut(d, 0, n)[i] = At(d, 0, i)
    BY <1>1, <1>2, CutIs
  <2>2. \A i \in 1 .. n : At(d, 0, i) = a[i]
    <3>1. \A i \in 1 .. n : 0 + i = i /\ i <= n /\ i \in 1 .. n + m OBVIOUS
    <3> QED BY <3>1, <1>1 DEF At
  <2> QED BY <2>1, <2>2, SeqEqual
<1>4. Cut(d, n, m) = b
  <2>1. Cut(d, n, m) \in Seq(Byte) /\ Len(Cut(d, n, m)) = m
        /\ \A i \in 1 .. m : Cut(d, n, m)[i] = At(d, n, i)
    BY <1>1, <1>2, CutIs
  <2>2. ASSUME NEW i \in 1 .. m PROVE At(d, n, i) = b[i]
    <3>1. n + i \in 1 .. n + m /\ ~(n + i <= n) /\ (n + i) - n = i OBVIOUS
    <3> QED BY <3>1, <1>1 DEF At
  <2> QED BY <2>1, <2>2, SeqEqual
<1> QED BY <1>1, <1>2, <1>3, <1>4 DEF d

LEMMA NodeOfPart ==
    ASSUME NEW data \in Seq(Byte), NEW o \in Nat, NEW k \in Nat, Room(data, o, k),
           NEW p \in Nat, NEW t \in Nat, NEW l \in Nat, NEW v \in Nat, p + t + l + v <= k
    PROVE  /\ HasNode(Cut(data, o, k), p, t, l, v) <=> HasNode(data, o + p, t, l, v)
           /\ HasNode(data, o + p, t, l, v) =>
                 NodeAt(data, o + p, t, l, v) = Shift(NodeAt(Cut(data, o, k), p, t, l, v), o)
<1> DEFINE s == Cut(data, o, k)
<1>1. /\ Room(s, p, t) /\ Room(data, o + p, t) /\ Cut(s, p, t) = Cut(data, o + p, t)
      /\ \A i \in 1 .. t : At(s, p, i) = At(data, o + p, i)
  <2>1. p + t <= k OBVIOUS
  <2>2. /\ Room(s, p, t) /\ Room(data, o + p, t) /\ Cut(s, p, t) = Cut(data, o + p, t)
    BY <2>1, CutOfCut
  <2>3. ASSUME NEW i \in 1 .. t PROVE At(s, p, i) = At(data, o + p, i) BY <2>1, CutOfCut
  <2> QED BY <2>2, <2>3
<1>2. /\ Room(s, p + t, l) /\ Room(data, o + p + t, l)
      /\ Cut(s, p + t, l) = Cut(data, o + p + t, l)
  <2>. PICK b \in Nat : b = p + t OBVIOUS
  <2>1. b + l <= k /\ o + b = o + p + t OBVIOUS
  <2>2. Room(s, b, l) /\ Room(data, o + b, l) /\ Cut(s, b, l) = Cut(data, o + b, l)
    BY <2>1, CutOfCut
  <2> QED BY <2>1, <2>2
<1>3. /\ Room(s, p + t + l, v) /\ Room(data, o + p + t + l, v)
      /\ Cut(s, p + t + l, v) = Cut(data, o + p + t + l, v)
  <2>. PICK b \in Nat : b = p + t + l OBVIOUS
  <2>1. b + v <= k /\ o + b = o + p + t + l OBVIOUS
  <2>2. Room(s, b, v) /\ Room(data, o + b, v) /\ Cut(s, b, v) = Cut(data, o + b, v)
    BY <2>1, CutOfCut
  <2> QED BY <2>1, <2>2
<1> HIDE DEF s
<1>4. HasNode(s, p, t, l, v) <=> HasNode(data, o + p, t, l, v)
  BY <1>1, <1>2, <1>3 DEF HasNode
<1>5. t # 0 => data[o + p + 1] = s[p + 1]
  <2>1. t # 0 => At(s, p, 1) = At(data, o + p, 1) BY <1>1
  <2> QED BY <2>1 DEF At
<1>6. t # 0 => NodeAt(data, o + p, t, l, v) = Shift(NodeAt(s, p, t, l, v), o)
  BY <1>1, <1>3, <1>5 DEF NodeAt, Shift
<1>7. HasNode(data, o + p, t, l, v) => t # 0 BY DEF HasNode
<1> QED BY <1>4, <1>6, <1>7 DEF s

LEMMA FollowsIs ==
    ASSUME NEW data \in Seq(Byte), Len(data) < Huge, NEW m \in Nat, NEW o, NEW ns,
           Row(data, m, o, ns)
    PROVE  Nodes(data) = ns
<1>. PICK n \in Nat : Len(data) = n BY LenProperties
<1>a. /\ n < Huge /\ o \in [0 .. m -> 0 .. n] /\ o[0] = 0 /\ ns = [i \in 1 .. m |-> ns[i]]
      /\ \A t, l, v : ~HasNode(data, o[m], t, l, v)
  BY DEF Row
<1>b. \A i \in 1 .. m : \E t, l, v : /\ HasNode(data, o[i - 1], t, l, v)
                                     /\ ns[i] = NodeAt(data, o[i - 1], t, l, v)
                                     /\ o[i] = o[i - 1] + t + l + v
  BY DEF Row
<1> DEFINE S == {ReadNode(data, p) : p \in 0 .. n}
<1>0. \A p \in 0 .. n : Room(data, p, 0) BY DEF Room
<1>1. ASSUME NEW i \in 1 .. m
      PROVE  /\ ns[i] = ReadNode(data, o[i - 1]) /\ ns[i] # None
             /\ ns[i].start + ns[i].total = o[i]
  <2>1. PICK t, l, v : /\ HasNode(data, o[i - 1], t, l, v)
                       /\ ns[i] = NodeAt(data, o[i - 1], t, l, v)
                       /\ o[i] = o[i - 1] + t + l + v
    BY <1>b
  <2>2. o[i - 1] \in 0 .. n /\ t \in Nat /\ l \in Nat /\ v \in Nat /\ t # 0
    BY <1>a, <2>1 DEF HasNode
  <2>3. ReadNode(data, o[i - 1]) = NodeAt(data, o[i - 1], t, l, v)
    BY <2>1, <2>2, <1>0, ReadNodeIs
  <2>4. NodeAt(data, o[i - 1], t, l, v).total # None.total BY <2>2 DEF NodeAt, None
  <2>5. ns[i].start + ns[i].total = o[i]
    <3>1. ns[i].start = o[i - 1] /\ ns[i].total = t + l + v BY <2>1 DEF NodeAt
    <3>2. PICK a \in Nat : a = o[i - 1] BY <2>2
    <3>3. a + (t + l + v) = a + t + l + v BY <2>2
    <3> QED BY <3>1, <3>2, <3>3, <2>1
  <2> QED BY <2>1, <2>3, <2>4, <2>5
<1>2. ns \in Seq(S) /\ Len(ns) = m
  <2>1. \A i \in 1 .. m : ns[i] \in S BY <1>a, <1>1
  <2> HIDE DEF S
  <2>2. [i \in 1 .. m |-> ns[i]] \in Seq(S) /\ Len([i \in 1 .. m |-> ns[i]]) = m BY <2>1
  <2>3. ns = [i \in 1 .. m |-> ns[i]] BY <1>a
  <2> QED BY <2>2, <2>3
<1>3. \A i \in 0 .. m : Reach(0, ns, i) = o[i]
  <2>1. ASSUME NEW i \in 0 .. m PROVE Reach(0, ns, i) = o[i]
    <3>1. CASE i = 0 BY <1>a, <3>1 DEF Reach
    <3>2. CASE i # 0 BY <3>2, <1>1 DEF Reach
    <3> QED BY <3>1, <3>2
  <2> QED BY <2>1
<1>4. ReadNode(data, o[m]) = None
  <2>1. o[m] \in 0 .. n BY <1>a
  <2> QED BY <1>a, <2>1, <1>0, ReadNodeIs
<1>5. Follow(data, 0, ns)
  <2>1. \A i \in 1 .. m : Reach(0, ns, i - 1) = o[i - 1] BY <1>3
  <2> HIDE DEF S
  <2>2. Follow(data, 0, ns) <=>
           /\ ns \in Seq(S)
           /\ \A i \in 0 .. m : Reach(0, ns, i) \in 0 .. n
           /\ \A i \in 1 .. m : /\ ns[i] = ReadNode(data, Reach(0, ns, i - 1))
                                /\ ns[i] # None
           /\ ReadNode(data, Reach(0, ns, m)) = None
    BY <1>2 DEF Follow, S
  <2>3. m \in 0 .. m OBVIOUS
  <2> QED
    <3>1. \A i \in 0 .. m : Reach(0, ns, i) \in 0 .. n BY <1>a, <1>3
    <3>2. \A i \in 1 .. m : ns[i] = ReadNode(data, Reach(0, ns, i - 1)) /\ ns[i] # None
      BY <2>1, <1>1
    <3>3. ReadNode(data, Reach(0, ns, m)) = None BY <2>3, <1>3, <1>4
    <3> QED BY <2>2, <3>1, <3>2, <3>3, <1>2
<1> QED BY <1>5, NodesFollow, FollowUnique

LEMMA EndIs ==
    ASSUME NEW data \in Seq(Byte), Len(data) < Huge
    PROVE  Exhausted(data) <=> Reach(0, Nodes(data), Len(Nodes(data))) = Len(data)
<1>. PICK n \in Nat : Len(data) = n BY LenProperties
<1> DEFINE ns == Nodes(data)
<1>1. Len(ns) \in Nat /\ (ns = <<>> <=> Len(ns) = 0) BY NodesAre
<1>2. Exhausted(data) <=> (IF ns = <<>> THEN 0 ELSE ns[Len(ns)].start + ns[Len(ns)].total) = Len(data)
  BY DEF Exhausted
<1> HIDE DEF ns
<1>3. Exhausted(data) <=> Reach(0, ns, Len(ns)) = Len(data) BY <1>1, <1>2 DEF Reach
<1> QED BY <1>3 DEF ns

LEMMA RowIsNodes ==
    ASSUME NEW data \in Seq(Byte), Len(data) < Huge, NEW n \in Nat, NEW o, NEW ns,
           Row(data, n, o, ns)
    PROVE  /\ Nodes(data) = ns /\ Len(ns) = n
           /\ Exhausted(data) <=> o[n] = Len(data)
<1>. PICK len \in Nat : Len(data) = len BY LenProperties
<1>1. /\ o \in [0 .. n -> 0 .. len] /\ o[0] = 0
      /\ ns = [i \in 1 .. n |-> ns[i]]
      /\ \A t, l, v : ~HasNode(data, o[n], t, l, v)
  BY DEF Row
<1>3. Nodes(data) = ns BY FollowsIs
<1>4. Len(ns) = n
  <2>1. Len([i \in 1 .. n |-> ns[i]]) = n OBVIOUS
  <2> QED BY <2>1, <1>1
<1>5. Reach(0, ns, n) = o[n]
  <2>1. CASE n = 0 BY <2>1, <1>1 DEF Reach
  <2>2. CASE n # 0
    <3>1. n \in 1 .. n BY <2>2
    <3>2. PICK t, l, v \in Nat : /\ ns[n] = NodeAt(data, o[n - 1], t, l, v)
                                 /\ o[n] = o[n - 1] + t + l + v
      BY <3>1 DEF Row
    <3>3. PICK p \in Nat : p = o[n - 1] BY <3>1, <1>1
    <3>4. ns[n].start = p /\ ns[n].total = t + l + v /\ o[n] = p + t + l + v
      BY <3>2, <3>3 DEF NodeAt
    <3> QED BY <3>4, <2>2 DEF Reach
  <2> QED BY <2>1, <2>2
<1> QED BY <1>3, <1>4, <1>5, EndIs

\* A node of the first of two parts, and one of the second.
LEMMA HeadNode ==
    ASSUME NEW a \in Seq(Byte), NEW b \in Seq(Byte), NEW p \in Nat, NEW t, NEW l, NEW v,
           HasNode(a, p, t, l, v)
    PROVE  HasNode(a \o b, p, t, l, v) /\ NodeAt(a \o b, p, t, l, v) = NodeAt(a, p, t, l, v)
<1> DEFINE d == a \o b
<1>. PICK n \in Nat : Len(a) = n BY LenProperties
<1>1. d \in Seq(Byte) /\ Cut(d, 0, n) = a /\ Room(d, 0, n) BY TwoParts
<1> HIDE DEF d
<1>2. t \in Nat /\ l \in Nat /\ v \in Nat /\ p + t + l + v <= n /\ 0 + p = p
  BY DEF HasNode, Room
<1>3. /\ HasNode(a, p, t, l, v) <=> HasNode(d, 0 + p, t, l, v)
      /\ HasNode(d, 0 + p, t, l, v) =>
            NodeAt(d, 0 + p, t, l, v) = Shift(NodeAt(a, p, t, l, v), 0)
  BY <1>1, <1>2, NodeOfPart
<1>4. Shift(NodeAt(a, p, t, l, v), 0) = NodeAt(a, p, t, l, v)
  <2>1. 0 + p = p BY <1>2
  <2> QED BY <2>1 DEF Shift, NodeAt
<1> QED BY <1>2, <1>3, <1>4 DEF d

LEMMA TailNode ==
    ASSUME NEW a \in Seq(Byte), NEW b \in Seq(Byte), NEW p \in Nat, NEW t, NEW l, NEW v,
           NEW n \in Nat, Len(a) = n
    PROVE  /\ HasNode(a \o b, n + p, t, l, v) <=> HasNode(b, p, t, l, v)
           /\ HasNode(b, p, t, l, v) =>
                 NodeAt(a \o b, n + p, t, l, v) = Shift(NodeAt(b, p, t, l, v), n)
<1> DEFINE d == a \o b
<1>. PICK m \in Nat : Len(b) = m BY LenProperties
<1>1. d \in Seq(Byte) /\ Len(d) = n + m /\ Cut(d, n, m) = b /\ Room(d, n, m) BY TwoParts
<1> HIDE DEF d
<1>2. HasNode(b, p, t, l, v) =>
        t \in Nat /\ l \in Nat /\ v \in Nat /\ p + t + l + v <= m
  BY DEF HasNode, Room
<1>3. HasNode(d, n + p, t, l, v) =>
        t \in Nat /\ l \in Nat /\ v \in Nat /\ p + t + l + v <= m
  <2>1. SUFFICES ASSUME HasNode(d, n + p, t, l, v)
                 PROVE  t \in Nat /\ l \in Nat /\ v \in Nat /\ p + t + l + v <= m
    OBVIOUS
  <2>2. t \in Nat /\ l \in Nat /\ v \in Nat /\ n + p + t + l + v <= n + m
    BY <2>1, <1>1 DEF HasNode, Room
  <2> QED BY <2>2
<1>4. t \in Nat /\ l \in Nat /\ v \in Nat /\ p + t + l + v <= m =>
        /\ HasNode(b, p, t, l, v) <=> HasNode(d, n + p, t, l, v)
        /\ HasNode(d, n + p, t, l, v) =>
              NodeAt(d, n + p, t, l, v) = Shift(NodeAt(b, p, t, l, v), n)
  BY <1>1, NodeOfPart
<1> QED BY <1>2, <1>3, <1>4 DEF d

LEMMA RowOfBoth ==
    ASSUME NEW a \in Seq(Byte), NEW b \in Seq(Byte), NEW La \in Nat, Len(a) = La,
           NEW n \in Nat, NEW na, RowTo(a, n, La, na),
           NEW m \in Nat, NEW k, NEW nb, RowTo(b, m, k, nb)
    PROVE  \E ns : RowTo(a \o b, n + m, La + k, ns) /\ Joined(ns, n, na, m, nb, La)
<1>. PICK oa : Row(a, n, oa, na) /\ oa[n] = La BY DEF RowTo
<1>. PICK ob : Row(b, m, ob, nb) /\ ob[m] = k BY DEF RowTo
<1> DEFINE d == a \o b
           o == [i \in 0 .. n + m |-> IF i <= n THEN oa[i] ELSE La + ob[i - n]]
           ns == [i \in 1 .. n + m |-> IF i <= n THEN na[i] ELSE Shift(nb[i - n], La)]
<1>. PICK Lb \in Nat : Len(b) = Lb BY LenProperties
<1>1. d \in Seq(Byte) /\ Len(d) = La + Lb BY TwoParts
<1>2. /\ oa \in [0 .. n -> 0 .. La] /\ oa[0] = 0
      /\ \A i \in 1 .. n : \E t, l, v \in Nat :
          /\ HasNode(a, oa[i - 1], t, l, v)
          /\ na[i] = NodeAt(a, oa[i - 1], t, l, v)
          /\ oa[i] = oa[i - 1] + t + l + v /\ oa[i] <= La
  BY DEF Row
<1>3. /\ ob \in [0 .. m -> 0 .. Lb] /\ ob[0] = 0
      /\ \A i \in 1 .. m : \E t, l, v \in Nat :
          /\ HasNode(b, ob[i - 1], t, l, v)
          /\ nb[i] = NodeAt(b, ob[i - 1], t, l, v)
          /\ ob[i] = ob[i - 1] + t + l + v /\ ob[i] <= Lb
      /\ \A t, l, v : ~HasNode(b, ob[m], t, l, v)
  BY DEF Row
<1>3c. \A i \in 1 .. m : \E t, l, v \in Nat :
          /\ HasNode(b, ob[i - 1], t, l, v)
          /\ nb[i] = NodeAt(b, ob[i - 1], t, l, v)
          /\ ob[i] = ob[i - 1] + t + l + v /\ ob[i] <= Lb
  BY <1>3
<1> HIDE DEF d, ns
<1>4. \A j \in 0 .. m : o[n + j] = La + ob[j]
  <2>1. ASSUME NEW j \in 0 .. m PROVE o[n + j] = La + ob[j]
    <3>1. CASE j = 0
      <4>1. o[n] = oa[n] OBVIOUS
      <4> QED BY <4>1, <3>1, <1>3
    <3>2. CASE j # 0
      <4>1. n + j \in 0 .. n + m /\ ~(n + j <= n) /\ (n + j) - n = j BY <3>2
      <4> QED BY <4>1
    <3> QED BY <3>1, <3>2
  <2> QED BY <2>1
<1>5. o \in [0 .. n + m -> 0 .. La + Lb]
  <2>1. ASSUME NEW i \in 0 .. n + m PROVE (IF i <= n THEN oa[i] ELSE La + ob[i - n]) \in 0 .. La + Lb
    <3>1. CASE i <= n
      <4>1. oa[i] \in 0 .. La BY <3>1, <1>2
      <4> QED BY <3>1, <4>1
    <3>2. CASE ~(i <= n)
      <4>1. i - n \in 0 .. m BY <3>2
      <4>2. ob[i - n] \in 0 .. Lb BY <4>1, <1>3
      <4> QED BY <3>2, <4>2
    <3> QED BY <3>1, <3>2
  <2> QED BY <2>1
<1>6. o[0] = 0 BY <1>2
<1>7. ns = [i \in 1 .. n + m |-> ns[i]] BY DEF ns
<1>a. /\ \A i \in 0 .. n : o[i] = oa[i]
      /\ \A i \in 0 .. n + m : o[i] \in Nat /\ o[i] <= La + Lb
  <2>1. \A i \in 0 .. n : o[i] = oa[i] OBVIOUS
  <2> HIDE DEF o
  <2>2. ASSUME NEW i \in 0 .. n + m PROVE o[i] \in Nat /\ o[i] <= La + Lb
    <3>1. o[i] \in 0 .. La + Lb BY <1>5
    <3> QED BY <3>1
  <2> QED BY <2>1, <2>2
<1>b. /\ \A i \in 1 .. n : ns[i] = na[i]
      /\ \A i \in 1 .. m : ns[n + i] = Shift(nb[i], La)
  <2>1. ASSUME NEW i \in 1 .. m PROVE ns[n + i] = Shift(nb[i], La)
    <3>1. n + i \in 1 .. n + m /\ ~(n + i <= n) /\ (n + i) - n = i OBVIOUS
    <3> QED BY <3>1 DEF ns
  <2>2. \A i \in 1 .. n : ns[i] = na[i] BY DEF ns
  <2> QED BY <2>1, <2>2
<1> HIDE DEF o
<1>8. ASSUME NEW i \in 1 .. n + m
      PROVE  \E t, l, v \in Nat :
          /\ HasNode(d, o[i - 1], t, l, v)
          /\ ns[i] = NodeAt(d, o[i - 1], t, l, v)
          /\ o[i] = o[i - 1] + t + l + v /\ o[i] <= La + Lb
  <2>0. o[i] <= La + Lb
    <3>1. i \in 0 .. n + m OBVIOUS
    <3> QED BY <3>1, <1>a
  <2>1. CASE i <= n
    <3>1. i \in 1 .. n /\ i - 1 \in 0 .. n /\ o[i - 1] = oa[i - 1] /\ o[i] = oa[i] /\ ns[i] = na[i]
      <4>1. i \in 1 .. n /\ i \in 0 .. n /\ i - 1 \in 0 .. n BY <2>1
      <4> QED BY <4>1, <1>a, <1>b
    <3>2. PICK t, l, v \in Nat :
          /\ HasNode(a, oa[i - 1], t, l, v)
          /\ na[i] = NodeAt(a, oa[i - 1], t, l, v)
          /\ oa[i] = oa[i - 1] + t + l + v
      BY <3>1, <1>2
    <3>3. PICK p \in Nat : p = oa[i - 1]
      <4>1. oa[i - 1] \in 0 .. La BY <3>1, <1>2
      <4> QED BY <4>1
    <3>4. HasNode(d, p, t, l, v) /\ NodeAt(d, p, t, l, v) = NodeAt(a, p, t, l, v)
      <4>1. HasNode(a, p, t, l, v) BY <3>2, <3>3
      <4> QED BY <4>1, HeadNode DEF d
    <3> QED BY <2>0, <3>1, <3>2, <3>3, <3>4
  <2>2. CASE ~(i <= n)
    <3>1. PICK j \in 1 .. m : i = n + j
      <4>1. i - n \in 1 .. m /\ i = n + (i - n) BY <2>2
      <4> QED BY <4>1
    <3>2. /\ o[i] = La + ob[j] /\ ns[i] = Shift(nb[j], La)
      <4>1. j \in 0 .. m OBVIOUS
      <4> QED BY <4>1, <3>1, <1>4, <1>b
    <3>3. o[i - 1] = La + ob[j - 1]
      <4>1. j - 1 \in 0 .. m /\ i - 1 = n + (j - 1) BY <3>1
      <4> QED BY <4>1, <1>4
    <3>4. PICK t, l, v \in Nat :
          /\ HasNode(b, ob[j - 1], t, l, v)
          /\ nb[j] = NodeAt(b, ob[j - 1], t, l, v)
          /\ ob[j] = ob[j - 1] + t + l + v /\ ob[j] <= Lb
      BY <1>3c
    <3>5. PICK p \in Nat : p = ob[j - 1]
      <4>1. j - 1 \in 0 .. m OBVIOUS
      <4>2. ob[j - 1] \in 0 .. Lb BY <4>1, <1>3
      <4> QED BY <4>2
    <3>6. HasNode(d, La + p, t, l, v) /\ NodeAt(d, La + p, t, l, v) = Shift(NodeAt(b, p, t, l, v), La)
      <4>1. HasNode(b, p, t, l, v) BY <3>4, <3>5
      <4> QED BY <4>1, TailNode DEF d
    <3>7. La + (p + t + l + v) = La + p + t + l + v OBVIOUS
    <3>8. /\ o[i - 1] = La + p /\ ns[i] = NodeAt(d, La + p, t, l, v)
          /\ o[i] = La + p + t + l + v
      BY <3>2, <3>3, <3>4, <3>5, <3>6, <3>7
    <3> QED BY <2>0, <3>6, <3>8
  <2> QED BY <2>1, <2>2
<1>9. \A t, l, v : ~HasNode(d, o[n + m], t, l, v)
  <2>0. m \in 0 .. m OBVIOUS
  <2>1. PICK p \in Nat : p = ob[m]
    <3>1. ob[m] \in 0 .. Lb BY <2>0, <1>3
    <3> QED BY <3>1
  <2>2. o[n + m] = La + p BY <2>0, <2>1, <1>4
  <2>3. ASSUME NEW t, NEW l, NEW v PROVE ~HasNode(d, La + p, t, l, v)
    <3>1. ~HasNode(b, p, t, l, v) BY <2>1, <1>3
    <3> QED BY <3>1, TailNode DEF d
  <2> QED BY <2>2, <2>3
<1>10. Row(d, n + m, o, ns) BY <1>1, <1>5, <1>6, <1>7, <1>8, <1>9 DEF Row
<1>11. o[n + m] = La + ob[m]
  <2>1. m \in 0 .. m OBVIOUS
  <2> QED BY <2>1, <1>4
<1>12. RowTo(d, n + m, La + k, ns) BY <1>10, <1>11 DEF RowTo
<1> QED BY <1>12, <1>b DEF d, Joined

\* Two parts one behind the other are read one behind the other.
LEMMA ReadsBoth ==
    ASSUME NEW a \in Seq(Byte), NEW b \in Seq(Byte), NEW k, NEW c, NEW d,
           Reads(a, Len(a), c), Reads(b, k, d)
    PROVE  Reads(a \o b, Len(a) + k, c \o d)
<1> DEFINE Of(ns) == [tag |-> ns.tag, value |-> ns.value]
<1>. PICK La \in Nat : Len(a) = La BY LenProperties
<1>1. Reads(a, La, c) OBVIOUS
<1>2a. PICK n \in Nat : \E na :
        RowTo(a, n, La, na) /\ c = [i \in 1 .. n |-> Of(na[i])]
  BY <1>1 DEF Reads
<1>2. PICK na : RowTo(a, n, La, na) /\ c = [i \in 1 .. n |-> Of(na[i])] BY <1>2a
<1>4a. PICK m \in Nat : \E nb :
        RowTo(b, m, k, nb) /\ d = [i \in 1 .. m |-> Of(nb[i])]
  BY DEF Reads
<1>4. PICK nb : RowTo(b, m, k, nb) /\ d = [i \in 1 .. m |-> Of(nb[i])] BY <1>4a
<1>5a. PICK ns : RowTo(a \o b, n + m, La + k, ns) /\ Joined(ns, n, na, m, nb, La)
  <2>1. RowTo(a, n, La, na) /\ RowTo(b, m, k, nb) BY <1>2, <1>4
  <2> QED BY <2>1, RowOfBoth
<1>5. /\ RowTo(a \o b, n + m, La + k, ns)
      /\ \A i \in 1 .. n : ns[i] = na[i]
      /\ \A i \in 1 .. m : ns[n + i] = Shift(nb[i], La)
  BY <1>5a DEF Joined
<1> DEFINE cs == [i \in 1 .. n + m |-> Of(ns[i])]
<1>6. cs = c \o d
  <2> DEFINE S == {c[i] : i \in 1 .. n} \cup {d[i] : i \in 1 .. m}
  <2>1. c \in Seq(S) /\ Len(c) = n /\ d \in Seq(S) /\ Len(d) = m
    <3>1. \A i \in 1 .. n : c[i] \in S OBVIOUS
    <3>2. \A i \in 1 .. m : d[i] \in S OBVIOUS
    <3> HIDE DEF S
    <3>3. c \in [1 .. n -> S] /\ d \in [1 .. m -> S] BY <3>1, <3>2, <1>2, <1>4
    <3>4. Len([i \in 1 .. n |-> Of(na[i])]) = n OBVIOUS
    <3>5. Len([i \in 1 .. m |-> Of(nb[i])]) = m OBVIOUS
    <3> QED BY <3>3, <3>4, <3>5, <1>2, <1>4
  <2> HIDE DEF S
  <2>2. /\ c \o d \in Seq(S) /\ Len(c \o d) = n + m
        /\ \A i \in 1 .. n + m : (c \o d)[i] = IF i <= n THEN c[i] ELSE d[i - n]
    BY <2>1, ConcatProperties
  <2>3. ASSUME NEW i \in 1 .. n + m PROVE cs[i] = IF i <= n THEN c[i] ELSE d[i - n]
    <3>0. cs[i] = Of(ns[i]) OBVIOUS
    <3> HIDE DEF cs
    <3>1. CASE i <= n
      <4>1. i \in 1 .. n BY <3>1
      <4>2. c[i] = Of(na[i]) /\ ns[i] = na[i] BY <4>1, <1>2, <1>5
      <4> QED BY <3>0, <3>1, <4>2
    <3>2. CASE ~(i <= n)
      <4>1. PICK j \in 1 .. m : i - n = j /\ i = n + j
        <5>1. i - n \in 1 .. m /\ i = n + (i - n) BY <3>2
        <5> QED BY <5>1
      <4>2. d[j] = Of(nb[j]) BY <1>4
      <4>3. ns[i] = Shift(nb[j], La) BY <4>1, <1>5
      <4>4. Of(Shift(nb[j], La)) = Of(nb[j]) BY DEF Shift
      <4> HIDE DEF Of
      <4> QED BY <3>0, <3>2, <4>1, <4>2, <4>3, <4>4
    <3> QED BY <3>1, <3>2
  <2>4. cs = [i \in 1 .. n + m |-> cs[i]] /\ DOMAIN cs = 1 .. n + m OBVIOUS
  <2>5. c \o d = [i \in 1 .. n + m |-> (c \o d)[i]]
    <3>1. c \o d \in [1 .. n + m -> S] BY <2>2, LenProperties
    <3> QED BY <3>1
  <2> HIDE DEF cs
  <2> QED BY <2>2, <2>3, <2>4, <2>5
<1>7. RowTo(a \o b, n + m, La + k, ns)
        /\ cs = [i \in 1 .. n + m |-> [tag |-> ns[i].tag, value |-> ns[i].value]]
  BY <1>5
<1>8. n + m \in Nat OBVIOUS
<1> HIDE DEF cs
<1>9. Reads(a \o b, La + k, cs) BY <1>7, <1>8 DEF Reads
<1> QED BY <1>6, <1>9

(***************************************************************************)
(* SecurityInfos: what the fold over the nodes of a file makes of them.    *)
(***************************************************************************)
LEMMA HandleIs ==
    ASSUME NEW n, n.tag = SEQUENCE, NEW infos, Summary(infos)
    PROVE  Handled(n, infos, Handle(n, infos)) /\ Summary(Handle(n, infos))
<1> DEFINE oid == Identifier(n)
           counted == [infos EXCEPT !.entries = Min({@ + 1, 255})]
           info == Announced(n)
           cs == Children(n)
           C == CASE oid[8] \in {PK, CA} -> [counted EXCEPT !.chipAuth = TRUE]
                  [] oid[8] = TA -> [counted EXCEPT !.terminalAuth = TRUE]
                  [] oid[8] = PACE ->
                         IF Len(oid) # PaceOidLen THEN counted
                         ELSE IF infos.pace = <<>> THEN [counted EXCEPT !.pace = <<info>>]
                         ELSE IF PaceRank(info) > PaceRank(infos.pace[1])
                         THEN [counted EXCEPT !.pace = <<info>>]
                         ELSE counted
                  [] OTHER -> counted
<1>1. Handle(n, infos) = IF cs = <<>> THEN infos
                         ELSE IF cs[1].tag # OID THEN infos
                         ELSE IF oid = ActiveAuth THEN [counted EXCEPT !.activeAuth = TRUE]
                         ELSE IF ~HasPrefix(oid) THEN counted
                         ELSE C
  BY DEF Handle, Identifier, Announced
<1>2. /\ Summary(counted) /\ counted.entries = Min({infos.entries + 1, 255})
      /\ counted.chipAuth = infos.chipAuth /\ counted.terminalAuth = infos.terminalAuth
      /\ counted.pace = infos.pace
  BY DEF Summary
<1>3. Opens(n) <=> ~(cs = <<>>) /\ cs[1].tag = OID BY DEF Opens
<1>4. /\ Names(n, PK) <=> Opens(n) /\ oid # ActiveAuth /\ HasPrefix(oid) /\ oid[8] = PK
      /\ Names(n, CA) <=> Opens(n) /\ oid # ActiveAuth /\ HasPrefix(oid) /\ oid[8] = CA
      /\ Names(n, TA) <=> Opens(n) /\ oid # ActiveAuth /\ HasPrefix(oid) /\ oid[8] = TA
      /\ AnnouncesPace(n) <=> /\ Opens(n) /\ oid # ActiveAuth /\ HasPrefix(oid) /\ oid[8] = PACE
                              /\ Len(oid) = PaceOidLen
  BY DEF Names, AnnouncesPace
<1>5. Preferred(n, infos.pace) <=> infos.pace = <<>> \/ PaceRank(info) > PaceRank(infos.pace[1])
  BY DEF Preferred
<1>6. PK # CA /\ PK # TA /\ PK # PACE /\ CA # TA /\ CA # PACE /\ TA # PACE
  BY DEF PK, CA, TA, PACE
<1> HIDE DEF counted, oid, info, cs
<1>7. \A x : /\ Summary([counted EXCEPT !.pace = x])
             /\ [counted EXCEPT !.pace = x].entries = counted.entries
             /\ [counted EXCEPT !.pace = x].chipAuth = counted.chipAuth
             /\ [counted EXCEPT !.pace = x].terminalAuth = counted.terminalAuth
             /\ [counted EXCEPT !.pace = x].pace = x
  BY <1>2 DEF Summary
<1>8. \A x : /\ Summary([counted EXCEPT !.chipAuth = x])
             /\ [counted EXCEPT !.chipAuth = x].entries = counted.entries
             /\ [counted EXCEPT !.chipAuth = x].chipAuth = x
             /\ [counted EXCEPT !.chipAuth = x].terminalAuth = counted.terminalAuth
             /\ [counted EXCEPT !.chipAuth = x].pace = counted.pace
  BY <1>2 DEF Summary
<1>9. \A x : /\ Summary([counted EXCEPT !.terminalAuth = x])
             /\ [counted EXCEPT !.terminalAuth = x].entries = counted.entries
             /\ [counted EXCEPT !.terminalAuth = x].chipAuth = counted.chipAuth
             /\ [counted EXCEPT !.terminalAuth = x].terminalAuth = x
             /\ [counted EXCEPT !.terminalAuth = x].pace = counted.pace
  BY <1>2 DEF Summary
<1>10. \A x : /\ Summary([counted EXCEPT !.activeAuth = x])
              /\ [counted EXCEPT !.activeAuth = x].entries = counted.entries
              /\ [counted EXCEPT !.activeAuth = x].chipAuth = counted.chipAuth
              /\ [counted EXCEPT !.activeAuth = x].terminalAuth = counted.terminalAuth
              /\ [counted EXCEPT !.activeAuth = x].pace = counted.pace
  BY <1>2 DEF Summary
<1> DEFINE h == Handle(n, infos)
<1> HIDE DEF C
<1>11. CASE ~Opens(n)
  <2>1. h = infos BY <1>1, <1>3, <1>11
  <2> HIDE DEF h
  <2> QED BY <2>1, <1>4, <1>11 DEF Handled, h
<1>12. CASE Opens(n) /\ oid = ActiveAuth
  <2>1. h = [counted EXCEPT !.activeAuth = TRUE] BY <1>1, <1>3, <1>12
  <2> HIDE DEF h
  <2> QED BY <2>1, <1>2, <1>4, <1>10, <1>12 DEF Handled, h
<1>13. CASE Opens(n) /\ oid # ActiveAuth /\ ~HasPrefix(oid)
  <2>1. h = counted BY <1>1, <1>3, <1>13
  <2> HIDE DEF h
  <2> QED BY <2>1, <1>2, <1>4, <1>13 DEF Handled, h
<1>14. CASE Opens(n) /\ oid # ActiveAuth /\ HasPrefix(oid)
  <2>0. h = C BY <1>1, <1>3, <1>14
  <2> HIDE DEF h
  <2>1. CASE oid[8] \in {PK, CA}
    <3>1. C = [counted EXCEPT !.chipAuth = TRUE] BY <2>1, <1>6 DEF C
    <3>2. /\ Summary(h) /\ h.entries = counted.entries /\ h.chipAuth = TRUE
          /\ h.terminalAuth = counted.terminalAuth /\ h.pace = counted.pace
      BY <3>1, <2>0, <1>8
    <3>3. Names(n, PK) \/ Names(n, CA) BY <2>1, <1>4, <1>14
    <3>4. ~Names(n, TA) /\ ~AnnouncesPace(n) BY <2>1, <1>4, <1>6
    <3> QED BY <3>2, <3>3, <3>4, <1>2, <1>14 DEF Handled, h
  <2>2. CASE oid[8] = TA
    <3>1. C = [counted EXCEPT !.terminalAuth = TRUE] BY <2>2, <1>6 DEF C
    <3>2. /\ Summary(h) /\ h.entries = counted.entries /\ h.chipAuth = counted.chipAuth
          /\ h.terminalAuth = TRUE /\ h.pace = counted.pace
      BY <3>1, <2>0, <1>9
    <3>3. Names(n, TA) BY <2>2, <1>4, <1>14
    <3>4. ~Names(n, PK) /\ ~Names(n, CA) /\ ~AnnouncesPace(n) BY <2>2, <1>4, <1>6
    <3> QED BY <3>2, <3>3, <3>4, <1>2, <1>14 DEF Handled, h
  <2>3. CASE oid[8] = PACE
    <3>1. C = IF Len(oid) = PaceOidLen /\ Preferred(n, infos.pace)
              THEN [counted EXCEPT !.pace = <<info>>] ELSE counted
      BY <2>3, <1>5, <1>6 DEF C
    <3>2. AnnouncesPace(n) <=> Len(oid) = PaceOidLen BY <2>3, <1>4, <1>14
    <3>3. ~Names(n, PK) /\ ~Names(n, CA) /\ ~Names(n, TA) BY <2>3, <1>4, <1>6
    <3>4. info = Announced(n) BY DEF info
    <3>5. CASE AnnouncesPace(n) /\ Preferred(n, infos.pace)
      <4>1. h = [counted EXCEPT !.pace = <<info>>] BY <2>0, <3>1, <3>2, <3>5
      <4> QED BY <4>1, <3>3, <3>4, <3>5, <1>2, <1>7, <1>14 DEF Handled, h
    <3>6. CASE ~(AnnouncesPace(n) /\ Preferred(n, infos.pace))
      <4>1. h = counted BY <2>0, <3>1, <3>2, <3>6
      <4> QED BY <4>1, <3>3, <3>6, <1>2, <1>14 DEF Handled, h
    <3> QED BY <3>5, <3>6
  <2>4. CASE oid[8] \notin {PK, CA, TA, PACE}
    <3>1. C = counted BY <2>4 DEF C
    <3> QED BY <3>1, <2>0, <2>4, <1>2, <1>4, <1>14 DEF Handled, h
  <2> QED BY <2>1, <2>2, <2>3, <2>4
<1> QED BY <1>11, <1>12, <1>13, <1>14

LEMMA RankIs ==
    ASSUME NEW oid, NEW second
    PROVE  LET info == PaceInfo(oid, second)
           IN /\ info.cipher \in 0 .. 4
              /\ info.usable => info.cipher # 0
              /\ info.usable \in BOOLEAN
              /\ PaceRank(info) \in Nat
              /\ PaceRank(info) = IF info.usable THEN 16 + info.cipher ELSE info.cipher
<1> DEFINE info == PaceInfo(oid, second)
           second0 == IF second \in 0 .. 255 THEN second ELSE NoParameter
           a == Agreement(oid[9])
           m == Mapping(oid[9])
           c == Cipher(oid[10])
<1>1. /\ info.cipher = c
      /\ info.usable = (Reason(a, m, c, second0) = "None")
  BY DEF PaceInfo
<1>2. c \in 0 .. 4 BY DEF Cipher
<1>3. Reason(a, m, c, second0) = "None" => c # 0
  <2> HIDE DEF a, m, c, second0
  <2>1. a = "Ecdh" \/ a = "Dh" \/ a = "Unknown" BY DEF a, Agreement
  <2> QED BY <2>1 DEF Reason
<1> HIDE DEF info, a, m, c, second0
<1>4. PaceRank(info) = IF info.usable THEN 16 + info.cipher ELSE 0 + info.cipher
  BY DEF PaceRank
<1>5. info.cipher \in 0 .. 4 BY <1>1, <1>2
<1>6. PaceRank(info) \in Nat /\ PaceRank(info) = IF info.usable THEN 16 + info.cipher ELSE info.cipher
  BY <1>4, <1>5
<1>7. info.usable \in BOOLEAN /\ (info.usable => info.cipher # 0) BY <1>1, <1>3
<1> QED BY <1>5, <1>6, <1>7 DEF info

LEMMA RankOfAnnounced == \A n : PaceRank(Announced(n)) \in Nat
  BY RankIs DEF Announced

LEMMA BestStep ==
    ASSUME NEW ns, NEW k \in Nat, NEW pace, Best(ns, k, pace), NEW n, n = ns[k + 1]
    PROVE  Best(ns, k + 1, IF AnnouncesPace(n) /\ Preferred(n, pace) THEN <<Announced(n)>> ELSE pace)
<1>0. \A i \in 1 .. k + 1 : i \in 1 .. k \/ i = k + 1 OBVIOUS
<1> DEFINE R(m) == PaceRank(Announced(m))
<1>r. \A m : R(m) \in Nat
  BY RankOfAnnounced
<1>i. \A K, i : IsBest(ns, K, i) <=> 
        /\ AnnouncesPace(ns[i])
        /\ \A j \in 1 .. K : AnnouncesPace(ns[j]) => R(ns[j]) <= R(ns[i]) /\ (j < i => R(ns[j]) < R(ns[i]))
  BY DEF IsBest
<1>p. Preferred(n, pace) <=> pace = <<>> \/ R(n) > PaceRank(pace[1])
  BY DEF Preferred
<1> HIDE DEF R
<1>1. CASE pace = <<>>
  <2>1. \A i \in 1 .. k : ~AnnouncesPace(ns[i])
    <3>1. \A i : <<Announced(ns[i])>> # <<>> OBVIOUS
    <3> QED BY <3>1, <1>1 DEF Best
  <2>2. CASE AnnouncesPace(n)
    <3>1. IsBest(ns, k + 1, k + 1)
      <4>1. ASSUME NEW j \in 1 .. k + 1, AnnouncesPace(ns[j])
            PROVE  R(ns[j]) <= R(ns[k + 1]) /\ (j < k + 1 => R(ns[j]) < R(ns[k + 1]))
        <5>1. j = k + 1 BY <4>1, <1>0, <2>1
        <5> QED BY <5>1, <1>r
      <4> QED BY <4>1, <2>2, <1>i
    <3>2. k + 1 \in 1 .. k + 1 OBVIOUS
    <3> QED BY <3>1, <3>2, <2>2, <1>1, <1>p DEF Best
  <2>3. CASE ~AnnouncesPace(n)
    <3>1. \A i \in 1 .. k + 1 : ~AnnouncesPace(ns[i]) BY <2>1, <2>3, <1>0
    <3> QED BY <3>1, <2>3, <1>1 DEF Best
  <2> QED BY <2>2, <2>3
<1>2. CASE pace # <<>>
  <2>1. PICK i \in 1 .. k : pace = <<Announced(ns[i])>> /\ IsBest(ns, k, i)
    BY <1>2 DEF Best
  <2>2. PaceRank(pace[1]) = R(ns[i]) BY <2>1 DEF R
  <2>3. /\ AnnouncesPace(ns[i])
        /\ \A j \in 1 .. k : AnnouncesPace(ns[j]) => R(ns[j]) <= R(ns[i]) /\ (j < i => R(ns[j]) < R(ns[i]))
    BY <2>1, <1>i
  <2>4. CASE AnnouncesPace(n) /\ R(n) > R(ns[i])
    <3>1. IsBest(ns, k + 1, k + 1)
      <4>1. ASSUME NEW j \in 1 .. k + 1, AnnouncesPace(ns[j])
            PROVE  R(ns[j]) <= R(ns[k + 1]) /\ (j < k + 1 => R(ns[j]) < R(ns[k + 1]))
        <5>1. CASE j = k + 1 BY <5>1, <1>r
        <5>2. CASE j # k + 1
          <6>1. j \in 1 .. k BY <5>2, <1>0
          <6>2. R(ns[j]) <= R(ns[i]) BY <6>1, <4>1, <2>3
          <6>3. R(ns[j]) \in Nat /\ R(ns[i]) \in Nat /\ R(n) \in Nat BY <1>r
          <6> QED BY <6>2, <6>3, <2>4
        <5> QED BY <5>1, <5>2
      <4> QED BY <4>1, <2>4, <1>i
    <3>2. k + 1 \in 1 .. k + 1 OBVIOUS
    <3>3. Preferred(n, pace) BY <2>2, <2>4, <1>p
    <3> QED BY <3>1, <3>2, <3>3, <2>4 DEF Best
  <2>5. CASE ~(AnnouncesPace(n) /\ R(n) > R(ns[i]))
    <3>1. IsBest(ns, k + 1, i)
      <4>1. ASSUME NEW j \in 1 .. k + 1, AnnouncesPace(ns[j])
            PROVE  R(ns[j]) <= R(ns[i]) /\ (j < i => R(ns[j]) < R(ns[i]))
        <5>1. CASE j = k + 1
          <6>1. R(n) \in Nat /\ R(ns[i]) \in Nat BY <1>r
          <6>2. ~(R(n) > R(ns[i])) /\ ~(j < i) BY <4>1, <5>1, <2>5
          <6> QED BY <6>1, <6>2, <5>1
        <5>2. CASE j # k + 1
          <6>1. j \in 1 .. k BY <5>2, <1>0
          <6> QED BY <6>1, <4>1, <2>3
        <5> QED BY <5>1, <5>2
      <4> QED BY <4>1, <2>3, <1>i
    <3>2. i \in 1 .. k + 1 OBVIOUS
    <3>3. ~(AnnouncesPace(n) /\ Preferred(n, pace)) BY <2>2, <2>5, <1>p, <1>2
    <3> QED BY <3>1, <3>2, <3>3, <2>1 DEF Best
  <2> QED BY <2>4, <2>5
<1> QED BY <1>1, <1>2

LEMMA FoldStep ==
    ASSUME NEW ns, NEW k \in Nat, NEW infos, Folded(ns, k, infos), NEW n, n = ns[k + 1],
           NEW g, Handled(n, infos, g), Summary(g)
    PROVE  Folded(ns, k + 1, g)
<1>0. (\A i \in 1 .. k + 1 : i \in 1 .. k \/ i = k + 1) /\ k + 1 \in 1 .. k + 1
      /\ \A i \in 1 .. k : i \in 1 .. k + 1
  OBVIOUS
<1>1. Best(ns, k + 1, g.pace)
  <2>1. Best(ns, k, infos.pace) BY DEF Folded
  <2>2. g.pace = IF AnnouncesPace(n) /\ Preferred(n, infos.pace) THEN <<Announced(n)>> ELSE infos.pace
    BY DEF Handled
  <2> QED BY <2>1, <2>2, BestStep
<1>2. g.chipAuth <=> \E i \in 1 .. k + 1 : Names(ns[i], PK) \/ Names(ns[i], CA)
  <2>1. /\ g.chipAuth <=> infos.chipAuth \/ Names(n, PK) \/ Names(n, CA)
        /\ infos.chipAuth <=> \E i \in 1 .. k : Names(ns[i], PK) \/ Names(ns[i], CA)
    BY DEF Handled, Folded
  <2> QED BY <2>1, <1>0
<1>3. g.terminalAuth <=> \E i \in 1 .. k + 1 : Names(ns[i], TA)
  <2>1. /\ g.terminalAuth <=> infos.terminalAuth \/ Names(n, TA)
        /\ infos.terminalAuth <=> \E i \in 1 .. k : Names(ns[i], TA)
    BY DEF Handled, Folded
  <2> QED BY <2>1, <1>0
<1>4. ASSUME k + 1 <= 255, \A i \in 1 .. k + 1 : Opens(ns[i]) PROVE g.entries = k + 1
  <2>1. k <= 255 /\ (\A i \in 1 .. k : Opens(ns[i])) /\ Opens(n) BY <1>4, <1>0
  <2>2. infos.entries = k BY <2>1 DEF Folded
  <2>3. g.entries = Min({k + 1, 255}) BY <2>1, <2>2 DEF Handled
  <2> DEFINE A == {k + 1, 255}
  <2>4. A \in SUBSET Nat /\ A # {} OBVIOUS
  <2>5. \A x \in A : k + 1 <= x BY <1>4
  <2>6. k + 1 \in A OBVIOUS
  <2> HIDE DEF A
  <2>7. Min(A) \in A /\ \A y \in A : Min(A) <= y BY <2>4, LeastOf
  <2>8. Min(A) = k + 1
    <3>1. Min(A) <= k + 1 /\ k + 1 <= Min(A) BY <2>5, <2>6, <2>7
    <3>2. Min(A) \in Nat BY <2>4, <2>7
    <3> QED BY <3>1, <3>2
  <2> QED BY <2>3, <2>8 DEF A
<1>5. ASSUME \A i \in 1 .. k + 1 : ~Opens(ns[i]) PROVE g.entries = 0
  <2>1. (\A i \in 1 .. k : ~Opens(ns[i])) /\ ~Opens(n) BY <1>5, <1>0
  <2>2. infos.entries = 0 BY <2>1 DEF Folded
  <2> QED BY <2>1, <2>2 DEF Handled
<1> QED BY <1>1, <1>2, <1>3, <1>4, <1>5 DEF Folded

LEMMA FoldExists ==
    ASSUME NEW ns, NEW m \in Nat
    PROVE  \E f : Fold(f, ns, m)
<1> DEFINE A == {k \in Nat : \E f : Fold(f, ns, k)}
<1>1. ASSUME NEW f, NEW g, NEW i \in Nat, i # 0 => f[i - 1] = g[i - 1]
      PROVE  Into(ns, f, i) = Into(ns, g, i)
  BY <1>1 DEF Into
<1>2. 0 \in A
  <2> DEFINE f == [i \in 0 .. 0 |-> NoInfos]
  <2>1. \A i \in 0 .. 0 : Into(ns, f, i) = NoInfos BY DEF Into
  <2>2. f = [i \in 0 .. 0 |-> Into(ns, f, i)] BY <2>1
  <2> HIDE DEF f
  <2>3. Fold(f, ns, 0) BY <2>2 DEF Fold
  <2> QED BY <2>3
<1>3. ASSUME NEW k \in A PROVE k + 1 \in A
  <2>1. PICK f : Fold(f, ns, k) OBVIOUS
  <2>2. f = [i \in 0 .. k |-> f[i]] /\ \A i \in 0 .. k : f[i] = Into(ns, f, i)
    BY <2>1 DEF Fold
  <2> DEFINE g == [i \in 0 .. k + 1 |-> IF i = k + 1 THEN Into(ns, f, k + 1) ELSE f[i]]
  <2>3. g = [i \in 0 .. k + 1 |-> g[i]] /\ (\A i \in 0 .. k : g[i] = f[i])
        /\ g[k + 1] = Into(ns, f, k + 1)
    OBVIOUS
  <2> HIDE DEF g
  <2>4. ASSUME NEW i \in 0 .. k + 1 PROVE g[i] = Into(ns, g, i)
    <3>1. i # 0 => f[i - 1] = g[i - 1]
      <4>1. i # 0 => i - 1 \in 0 .. k OBVIOUS
      <4> QED BY <4>1, <2>3
    <3>2. i \in Nat OBVIOUS
    <3>3. Into(ns, f, i) = Into(ns, g, i) BY <3>1, <3>2, <1>1
    <3>4. g[i] = Into(ns, f, i)
      <4>1. CASE i = k + 1 BY <4>1, <2>3
      <4>2. CASE i # k + 1
        <5>1. i \in 0 .. k BY <4>2
        <5> QED BY <5>1, <2>2, <2>3
      <4> QED BY <4>1, <4>2
    <3> QED BY <3>3, <3>4
  <2>5. g = [i \in 0 .. k + 1 |-> Into(ns, g, i)] BY <2>3, <2>4
  <2>6. Fold(g, ns, k + 1) BY <2>5 DEF Fold
  <2> QED BY <2>6
<1>4. A \in SUBSET Nat OBVIOUS
<1>5. m \in A
  <2> HIDE DEF A
  <2>1. A = Nat BY <1>2, <1>3, <1>4, SetInduction
  <2> QED BY <2>1
<1> QED BY <1>5

LEMMA SecurityInfosIs ==
    ASSUME NEW file, Body(file) # None, NEW ns, ns = Nodes(Body(file).bytes),
           NEW m \in Nat, Len(ns) = m
    PROVE  \E f : Fold(f, ns, m) /\ SecurityInfos(file) = f[m]
<1>1. PICK g : Fold(g, ns, m) BY FoldExists
<1>2. PICK h : h = CHOOSE f : Fold(f, ns, m) OBVIOUS
<1>3. Fold(h, ns, m) BY <1>1, <1>2
<1>4. SecurityInfos(file) = h[m] BY <1>2 DEF Fold, Into, SecurityInfos
<1> QED BY <1>3, <1>4

LEMMA FoldHolds ==
    ASSUME NEW ns, NEW m \in Nat, NEW f, Fold(f, ns, m)
    PROVE  Folded(ns, m, f[m])
<1> DEFINE A == {k \in Nat : k <= m => Folded(ns, k, f[k])}
<1>1. \A i \in 0 .. m : f[i] = Into(ns, f, i) BY DEF Fold
<1>2. 0 \in A
  <2>1. f[0] = NoInfos BY <1>1 DEF Into
  <2>2. Folded(ns, 0, NoInfos)
    <3>1. \A i : i \notin 1 .. 0 OBVIOUS
    <3>2. Best(ns, 0, NoInfos.pace) BY <3>1 DEF Best, NoInfos
    <3>3. Summary(NoInfos) BY DEF Summary, NoInfos
    <3>4. NoInfos.chipAuth = FALSE /\ NoInfos.terminalAuth = FALSE /\ NoInfos.entries = 0
      BY DEF NoInfos
    <3> QED BY <3>1, <3>2, <3>3, <3>4 DEF Folded
  <2> QED BY <2>1, <2>2
<1>3. ASSUME NEW k \in A PROVE k + 1 \in A
  <2> SUFFICES ASSUME k + 1 <= m PROVE Folded(ns, k + 1, f[k + 1])
    OBVIOUS
  <2>1. Folded(ns, k, f[k]) /\ Summary(f[k]) BY DEF Folded
  <2>2. f[k + 1] = IF ns[k + 1].tag # SEQUENCE THEN f[k] ELSE Handle(ns[k + 1], f[k])
    <3>1. k + 1 \in 0 .. m /\ k + 1 # 0 /\ (k + 1) - 1 = k OBVIOUS
    <3> QED BY <3>1, <1>1 DEF Into
  <2>3. CASE ns[k + 1].tag # SEQUENCE
    <3>1. ~Opens(ns[k + 1]) BY <2>3 DEF Opens
    <3>2. Handled(ns[k + 1], f[k], f[k]) BY <3>1 DEF Handled, Names, AnnouncesPace
    <3> QED BY <3>2, <2>1, <2>2, <2>3, FoldStep
  <2>4. CASE ns[k + 1].tag = SEQUENCE
    <3>1. Handled(ns[k + 1], f[k], Handle(ns[k + 1], f[k])) /\ Summary(Handle(ns[k + 1], f[k]))
      BY <2>1, <2>4, HandleIs
    <3> QED BY <3>1, <2>1, <2>2, <2>4, FoldStep
  <2> QED BY <2>3, <2>4
<1>4. A \in SUBSET Nat OBVIOUS
<1>5. m \in A
  <2> HIDE DEF A
  <2>1. A = Nat BY <1>2, <1>3, <1>4, SetInduction
  <2> QED BY <2>1
<1> QED BY <1>5

(***************************************************************************)
(* What is written is read: a node as Wrap writes it, and the nodes of a   *)
(* buffer by their tags and values.                                        *)
(***************************************************************************)
LEMMA LengthIsWritten ==
    ASSUME NEW n \in Nat, n < Huge
    PROVE  /\ EncodeLength(n) \in Seq(Byte) /\ EncodeLength(n) # <<>>
           /\ Len(EncodeLength(n)) # 0 /\ Len(EncodeLength(n)) <= 4
           /\ SaysLength(EncodeLength(n), n)
<1> DEFINE w == EncodeLength(n)
<1>1. \A x \in Nat : x < 256 => x \in Byte BY ByteIs
<1>2. n % 256 \in Nat /\ n % 256 < 256 /\ n \div 65536 \in Nat /\ n \div 65536 < 256
      /\ (n \div 256) % 256 \in Nat /\ (n \div 256) % 256 < 256
      /\ (n < 65536 => n \div 256 \in Nat /\ n \div 256 < 256)
  BY BelowHuge
<1>3. SaysLength(w, n) /\ Len(w) = EncodedLengthSize(n)
  BY LengthsAlwaysComeBack DEF LengthComesBack
<1>4. w = IF n < 128 THEN <<n>>
          ELSE IF n < 256 THEN <<129, n>>
          ELSE IF n < 65536 THEN <<130, n \div 256, n % 256>>
          ELSE <<131, n \div 65536, (n \div 256) % 256, n % 256>>
  BY DEF EncodeLength, EncodedLengthSize
<1>5. EncodedLengthSize(n) # 0 /\ EncodedLengthSize(n) <= 4 BY DEF EncodedLengthSize
<1> HIDE DEF w
<1>6. w \in Seq(Byte)
  <2>0. 129 \in Byte /\ 130 \in Byte /\ 131 \in Byte /\ n % 256 \in Byte /\ n \div 65536 \in Byte
        /\ (n \div 256) % 256 \in Byte /\ (n < 65536 => n \div 256 \in Byte) /\ (n < 256 => n \in Byte)
    BY <1>1, <1>2
  <2> QED BY <2>0, <1>4
<1>7. w # <<>> BY <1>3, <1>5
<1> QED BY <1>3, <1>5, <1>6, <1>7 DEF w

\* What one node is written as is read as that node.
LEMMA WrapIs ==
    ASSUME NEW t \in Seq(Byte), IsTag(t), NEW v \in Seq(Byte), Len(v) < Huge
    PROVE  /\ Wrap(t, v) \in Seq(Byte)
           /\ Len(Wrap(t, v)) <= Len(t) + 4 + Len(v)
           /\ Reads(Wrap(t, v), Len(Wrap(t, v)), <<[tag |-> t, value |-> v]>>)
<1>. PICK T, V \in Nat : T = Len(t) /\ V = Len(v) BY LenProperties
<1> DEFINE w == EncodeLength(V)
<1>1. w \in Seq(Byte) /\ w # <<>> /\ Len(w) # 0 /\ Len(w) <= 4 /\ SaysLength(w, V)
  BY LengthIsWritten
<1> HIDE DEF w
<1>. PICK L \in Nat : L = Len(w) /\ L # 0 /\ L <= 4
  <2>1. PICK L \in Nat : L = Len(w) BY <1>1, LenProperties
  <2> QED BY <2>1, <1>1
<1> DEFINE h == t \o w
           d == h \o v
<1>2. h \in Seq(Byte) /\ Len(h) = T + L /\ Cut(h, 0, T) = t /\ Cut(h, T, L) = w
  BY <1>1, TwoParts
<1> HIDE DEF h
<1>3. d \in Seq(Byte) /\ Len(d) = T + L + V
      /\ Cut(d, 0, T + L) = h /\ Cut(d, T + L, V) = v
      /\ Room(d, 0, T + L) /\ Room(d, T + L, V)
  BY <1>2, TwoParts
<1> HIDE DEF d
<1>4. Cut(d, 0, T) = t /\ Room(d, 0, T)
  <2>1. T <= T + L OBVIOUS
  <2> QED BY <2>1, <1>2, <1>3, CutOfNothing
<1>5. Cut(d, T, L) = w /\ Room(d, T, L)
  <2>0. PICK k \in Nat : k = T + L OBVIOUS
  <2>1. Room(d, 0, k) /\ T + L <= k /\ 0 + T = T BY <2>0, <1>3
  <2> QED BY <2>0, <2>1, <1>2, <1>3, CutOfCut
<1>6. T # 0
  <2>1. t # <<>> BY DEF IsTag
  <2> QED BY <2>1, EmptySeq
<1>7. HasNode(d, 0, T, L, V)
  <2>1. 0 + T = T /\ 0 + T + L = T + L OBVIOUS
  <2> QED BY <2>1, <1>1, <1>3, <1>4, <1>5, <1>6 DEF HasNode
<1> DEFINE k == T + L + V
           n == NodeAt(d, 0, T, L, V)
           ns == <<n>>
           o == [i \in 0 .. 1 |-> IF i = 0 THEN 0 ELSE k]
<1>8. n.tag = t /\ n.value = v
  <2>1. 0 + T + L = T + L OBVIOUS
  <2> QED BY <2>1, <1>3, <1>4 DEF NodeAt
<1> HIDE DEF n
<1>9. Row(d, 1, o, ns)
  <2>1. o \in [0 .. 1 -> 0 .. k] /\ o[0] = 0 /\ o[1] = k OBVIOUS
  <2>2. ns = [i \in 1 .. 1 |-> ns[i]] /\ ns[1] = n OBVIOUS
  <2> HIDE DEF o, ns
  <2>3. ASSUME NEW i \in 1 .. 1
        PROVE  \E t_1, l_1, v_1 \in Nat :
          /\ HasNode(d, o[i - 1], t_1, l_1, v_1)
          /\ ns[i] = NodeAt(d, o[i - 1], t_1, l_1, v_1)
          /\ o[i] = o[i - 1] + t_1 + l_1 + v_1 /\ o[i] <= k
    <3>1. i = 1 /\ o[i - 1] = 0 /\ o[i] = k /\ ns[i] = n BY <2>1, <2>2
    <3>2. HasNode(d, o[i - 1], T, L, V) /\ ns[i] = NodeAt(d, o[i - 1], T, L, V)
      BY <3>1, <1>7 DEF n
    <3>3. o[i] = o[i - 1] + T + L + V /\ o[i] <= k BY <3>1
    <3> QED BY <3>2, <3>3
  <2>4. ASSUME NEW t_1, NEW l_1, NEW v_1 PROVE ~HasNode(d, k, t_1, l_1, v_1)
    <3>1. Room(d, k, t_1) /\ t_1 \in Nat /\ t_1 # 0 => k + t_1 <= k BY <1>3 DEF Room
    <3>2. k \in Nat OBVIOUS
    <3> HIDE DEF k
    <3>3. ~(Room(d, k, t_1) /\ t_1 \in Nat /\ t_1 # 0) BY <3>1, <3>2
    <3> QED BY <3>3 DEF HasNode
  <2>5. Len(d) = k BY <1>3
  <2> HIDE DEF k
  <2> QED BY <2>1, <2>2, <2>3, <2>4, <2>5 DEF Row
<1>10. RowTo(d, 1, k, ns)
  <2>1. o[1] = k OBVIOUS
  <2> HIDE DEF o, ns, k
  <2> QED BY <2>1, <1>9 DEF RowTo
<1>11. Reads(d, k, <<[tag |-> t, value |-> v]>>)
  <2>1. <<[tag |-> t, value |-> v]>> = [i \in 1 .. 1 |-> [tag |-> ns[i].tag, value |-> ns[i].value]]
    BY <1>8
  <2> HIDE DEF ns, k
  <2> QED BY <2>1, <1>10 DEF Reads
<1>12. Wrap(t, v) = d BY DEF Wrap, d, h, w
<1>13. Len(d) = k /\ k <= T + 4 + V BY <1>3
<1> HIDE DEF k
<1> QED BY <1>3, <1>11, <1>12, <1>13

\* Where nothing can be read nothing is.
LEMMA ReadsNothing ==
    ASSUME NEW data \in Seq(Byte), data = <<>> \/ data[1] \in {0, 255}
    PROVE  Reads(data, 0, <<>>)
<1>. PICK n \in Nat : Len(data) = n BY LenProperties
<1>1. ASSUME NEW t, NEW l, NEW v, HasNode(data, 0, t, l, v) PROVE FALSE
  <2>1. t \in Nat /\ t # 0 /\ Room(data, 0, t) /\ IsTag(Cut(data, 0, t)) /\ t <= n
    BY <1>1 DEF HasNode, Room
  <2>2. n # 0 BY <2>1
  <2>3. At(data, 0, 1) \notin {0, 255} BY <2>1, CutIsTag
  <2>4. data[1] \notin {0, 255} BY <2>3 DEF At
  <2>5. data # <<>> BY <2>2
  <2> QED BY <2>4, <2>5
<1> DEFINE o == [i \in 0 .. 0 |-> 0]
           ns == [i \in 1 .. 0 |-> 0]
<1>2. o \in [0 .. 0 -> 0 .. n] /\ o[0] = 0 OBVIOUS
<1>3. ns = [i \in 1 .. 0 |-> ns[i]] OBVIOUS
<1>4. \A i : i \notin 1 .. 0 OBVIOUS
<1>5. <<>> = [i \in 1 .. 0 |-> [tag |-> ns[i].tag, value |-> ns[i].value]] BY <1>4
<1> HIDE DEF o, ns
<1>6. Row(data, 0, o, ns) BY <1>1, <1>2, <1>3, <1>4 DEF Row
<1>7. RowTo(data, 0, 0, ns) BY <1>6, <1>2 DEF RowTo
<1> QED BY <1>5, <1>7 DEF Reads

LEMMA ReadsAre ==
    ASSUME NEW data \in Seq(Byte), Len(data) < Huge, NEW k, NEW cs, Reads(data, k, cs)
    PROVE  \E m \in Nat : Len(cs) = m /\ AreOf(Nodes(data), m, cs)
<1>1. PICK m \in Nat : \E ns : /\ RowTo(data, m, k, ns)
                               /\ cs = [i \in 1 .. m |-> [tag |-> ns[i].tag, value |-> ns[i].value]]
  BY DEF Reads
<1>2. PICK ns : /\ RowTo(data, m, k, ns)
                /\ cs = [i \in 1 .. m |-> [tag |-> ns[i].tag, value |-> ns[i].value]]
  BY <1>1
<1>3. PICK o : Row(data, m, o, ns) BY <1>2 DEF RowTo
<1>4. Nodes(data) = ns /\ Len(ns) = m BY <1>3, RowIsNodes
<1>5. ns = [i \in 1 .. m |-> ns[i]] BY <1>3 DEF Row
<1>6. DOMAIN ns = 1 .. m /\ (ns = <<>> <=> m = 0)
  <2>1. DOMAIN [i \in 1 .. m |-> ns[i]] = 1 .. m OBVIOUS
  <2>2. ([i \in 1 .. m |-> ns[i]] = <<>>) <=> m = 0
    <3>1. CASE m = 0
      <4>1. \A i : i \notin 1 .. m BY <3>1
      <4> QED BY <4>1, <3>1
    <3>2. CASE m # 0
      <4>1. 1 \in 1 .. m BY <3>2
      <4>2. DOMAIN <<>> = 1 .. 0 OBVIOUS
      <4>3. 1 \notin 1 .. 0 OBVIOUS
      <4> QED BY <4>1, <4>2, <4>3, <2>1, <3>2
    <3> QED BY <3>1, <3>2
  <2> QED BY <2>1, <2>2, <1>5
<1>7. Len(cs) = m
  <2>1. Len([i \in 1 .. m |-> [tag |-> ns[i].tag, value |-> ns[i].value]]) = m OBVIOUS
  <2> QED BY <2>1, <1>2
<1>8. ASSUME NEW i \in 1 .. m PROVE IsOf(ns[i], cs[i].tag, cs[i].value)
  <2>1. cs[i].tag = ns[i].tag /\ cs[i].value = ns[i].value
    <3>1. cs[i] = [tag |-> ns[i].tag, value |-> ns[i].value] BY <1>2
    <3> QED BY <3>1
  <2>2. PICK t, l, v \in Nat : HasNode(data, o[i - 1], t, l, v) /\ ns[i] = NodeAt(data, o[i - 1], t, l, v)
    BY <1>3 DEF Row
  <2>3. PICK p \in Nat : p = o[i - 1]
    <3>1. PICK n \in Nat : Len(data) = n BY LenProperties
    <3>2. o \in [0 .. m -> 0 .. n] /\ i - 1 \in 0 .. m BY <3>1, <1>3 DEF Row
    <3> QED BY <3>2
  <2>4. HasNode(data, p, t, l, v) /\ ns[i] = NodeAt(data, p, t, l, v) BY <2>2, <2>3
  <2>5. t # 0 /\ Room(data, p, t) BY <2>4 DEF HasNode
  <2>6. ns[i] # None
    <3>1. ns[i].total # None.total BY <2>4, <2>5 DEF NodeAt, None
    <3> QED BY <3>1
  <2>7. ns[i].tag = Cut(data, p, t) /\ ns[i].constructed = Constructed(data[p + 1])
    BY <2>4 DEF NodeAt
  <2>8. Cut(data, p, t)[1] = data[p + 1]
    <3>1. \A j \in 1 .. t : Cut(data, p, t)[j] = At(data, p, j) BY <2>5, CutIs
    <3> QED BY <3>1, <2>5 DEF At
  <2> QED BY <2>1, <2>6, <2>7, <2>8 DEF IsOf
<1> QED BY <1>4, <1>6, <1>7, <1>8 DEF AreOf

\* The first node is the first of the nodes.
LEMMA FirstIs ==
    ASSUME NEW data \in Seq(Byte), Len(data) < Huge
    PROVE  First(data) = IF Nodes(data) = <<>> THEN None ELSE Nodes(data)[1]
<1>. PICK n \in Nat : Len(data) = n BY LenProperties
<1> DEFINE ns == Nodes(data)
<1>1. Follow(data, 0, ns) BY NodesFollow
<1>2. PICK m \in Nat : Len(ns) = m /\ (ns = <<>> <=> m = 0) BY NodesAre
<1> HIDE DEF ns
<1>3. /\ \A i \in 1 .. m : ns[i] = ReadNode(data, Reach(0, ns, i - 1)) /\ ns[i] # None
      /\ ReadNode(data, Reach(0, ns, m)) = None
  BY <1>1, <1>2 DEF Follow
<1>4. CASE m = 0
  <2>1. ReadNode(data, 0) = None BY <1>3, <1>4 DEF Reach
  <2> QED BY <2>1, <1>2, <1>4 DEF First, ns
<1>5. CASE m # 0
  <2>1. 1 \in 1 .. m /\ 1 - 1 = 0 BY <1>5
  <2>2. ns[1] = ReadNode(data, 0) /\ ns[1] # None BY <2>1, <1>3 DEF Reach
  <2>3. data # <<>>
    <3>1. SUFFICES ASSUME data = <<>> PROVE FALSE OBVIOUS
    <3>2. n = 0 BY <3>1
    <3>3. Room(data, 0, 0) BY DEF Room
    <3>4. PICK t, l, v : HasNode(data, 0, t, l, v) BY <2>2, <3>3, ReadNodeIs
    <3> QED BY <3>2, <3>4 DEF HasNode, Room
  <2> QED BY <2>2, <2>3, <1>2, <1>5 DEF First, ns
<1> QED BY <1>4, <1>5

\* What a node holds are bytes of the buffer, and no more than there are.
LEMMA NodesAreSmaller ==
    ASSUME NEW data \in Seq(Byte), Len(data) < Huge, NEW i \in DOMAIN Nodes(data)
    PROVE  /\ Nodes(data)[i] # None
           /\ Nodes(data)[i].value \in Seq(Byte) /\ Len(Nodes(data)[i].value) < Huge
<1>. PICK n \in Nat : Len(data) = n BY LenProperties
<1> DEFINE ns == Nodes(data)
<1>1. Len(ns) \in Nat /\ DOMAIN ns = 1 .. Len(ns) BY NodesAre
<1>2. /\ Reach(0, ns, i - 1) \in 0 .. n
      /\ \E t, l, v : /\ HasNode(data, Reach(0, ns, i - 1), t, l, v)
                      /\ ns[i] = NodeAt(data, Reach(0, ns, i - 1), t, l, v)
  BY <1>1, NodesAre
<1> HIDE DEF ns
<1>3. PICK p \in Nat : p = Reach(0, ns, i - 1) BY <1>2
<1>4. PICK t, l, v : HasNode(data, p, t, l, v) /\ ns[i] = NodeAt(data, p, t, l, v)
  BY <1>2, <1>3
<1>5. /\ t \in Nat /\ l \in Nat /\ v \in Nat /\ t # 0 /\ v < Huge /\ Room(data, p + t + l, v)
  BY <1>4 DEF HasNode
<1>6. ns[i].value = Cut(data, p + t + l, v) /\ ns[i].total # None.total
  BY <1>4, <1>5 DEF NodeAt, None
<1>7. Cut(data, p + t + l, v) \in Seq(Byte) /\ Len(Cut(data, p + t + l, v)) = v
  BY <1>5, CutIs
<1>8. ns[i] # None BY <1>6
<1> QED BY <1>5, <1>6, <1>7, <1>8 DEF ns

(***************************************************************************)
(* The entry that the reader acts on, whatever is in the file.             *)
(***************************************************************************)
LEMMA FirstIsSmaller ==
    ASSUME NEW data \in Seq(Byte), Len(data) < Huge, First(data) # None
    PROVE  First(data).value \in Seq(Byte) /\ Len(First(data).value) < Huge
<1> DEFINE ns == Nodes(data)
<1>. PICK n \in Nat : Len(data) = n BY LenProperties
<1>1. PICK m \in Nat : Len(ns) = m /\ DOMAIN ns = 1 .. m /\ (ns = <<>> <=> m = 0)
  BY NodesAre
<1>2. First(data) = IF ns = <<>> THEN None ELSE ns[1] BY FirstIs
<1> HIDE DEF ns
<1>3. 1 \in DOMAIN ns /\ First(data) = ns[1] BY <1>1, <1>2
<1> QED BY <1>3, NodesAreSmaller DEF ns

LEMMA BodyIs ==
    ASSUME NEW file \in Seq(Byte), Len(file) < Huge, Body(file) # None
    PROVE  Body(file).bytes \in Seq(Byte) /\ Len(Body(file).bytes) < Huge
<1> DEFINE outer == First(file)
           inner == IF outer.tag = DG14 THEN outer.value ELSE file
           root == First(inner)
           first == First(root.value)
<1>1. Body(file) = IF outer = None THEN None
                   ELSE IF root = None THEN None
                   ELSE IF root.tag = SET THEN [total |-> 1, bytes |-> root.value]
                   ELSE IF root.tag # SEQUENCE THEN None
                   ELSE [total |-> 1,
                         bytes |-> IF first # None /\ first.tag # OID
                                   THEN root.value ELSE inner]
  BY DEF Body
<1>2. outer # None /\ root # None BY <1>1
<1>3. outer.value \in Seq(Byte) /\ Len(outer.value) < Huge BY <1>2, FirstIsSmaller
<1>4. inner \in Seq(Byte) /\ Len(inner) < Huge BY <1>3
<1> HIDE DEF outer, inner
<1>5. root.value \in Seq(Byte) /\ Len(root.value) < Huge BY <1>2, <1>4, FirstIsSmaller
<1> HIDE DEF root, first
<1>6. Body(file).bytes = root.value \/ Body(file).bytes = inner BY <1>1
<1> QED BY <1>4, <1>5, <1>6

LEMMA SummaryIs ==
    ASSUME NEW file \in Seq(Byte), Len(file) < Huge
    PROVE  \E m \in Nat : /\ Len(Siblings(file)) = m /\ DOMAIN Siblings(file) = 1 .. m
                          /\ Folded(Siblings(file), m, SecurityInfos(file))
<1>1. CASE Body(file) = None
  <2>1. Siblings(file) = <<>> /\ SecurityInfos(file) = NoInfos
    BY <1>1 DEF Siblings, SecurityInfos
  <2>2. PICK f : Fold(f, <<>>, 0) BY FoldExists
  <2>3. Folded(<<>>, 0, f[0]) BY <2>2, FoldHolds
  <2>4. f[0] = NoInfos BY <2>2 DEF Fold, Into
  <2>5. Len(<<>>) = 0 /\ DOMAIN <<>> = 1 .. 0 OBVIOUS
  <2> QED BY <2>1, <2>3, <2>4, <2>5
<1>2. CASE Body(file) # None
  <2> DEFINE b == Body(file).bytes
             ns == Nodes(b)
  <2>1. b \in Seq(Byte) /\ Len(b) < Huge BY <1>2, BodyIs
  <2>2. PICK n \in Nat : Len(b) = n BY <2>1, LenProperties
  <2>3. PICK m \in Nat : Len(ns) = m /\ DOMAIN ns = 1 .. m BY <2>1, <2>2, NodesAre
  <2>4. PICK f : Fold(f, ns, m) /\ SecurityInfos(file) = f[m]
    BY <1>2, <2>3, SecurityInfosIs
  <2>5. Folded(ns, m, f[m]) BY <2>4, FoldHolds
  <2>6. Siblings(file) = ns BY <1>2 DEF Siblings
  <2> HIDE DEF ns
  <2> QED BY <2>3, <2>4, <2>5, <2>6
<1> QED BY <1>1, <1>2

LEMMA RankMeans ==
    ASSUME NEW n, NEW m
    PROVE  LET a == Announced(n)
               b == Announced(m)
           IN /\ PaceRank(b) <= PaceRank(a) => Outdoes(a, b)
              /\ PaceRank(b) < PaceRank(a) => ~Outdoes(b, a)
<1>1. ASSUME NEW x
      PROVE  /\ Announced(x).cipher \in Nat /\ Announced(x).cipher <= 4
             /\ Announced(x).usable \in BOOLEAN
             /\ PaceRank(Announced(x)) = IF Announced(x).usable THEN 16 + Announced(x).cipher
                                         ELSE Announced(x).cipher
  <2> DEFINE info == PaceInfo(Identifier(x), SecondInteger(Children(x)))
  <2>1. info.cipher \in 0 .. 4 /\ info.usable \in BOOLEAN
        /\ PaceRank(info) = IF info.usable THEN 16 + info.cipher ELSE info.cipher
    BY RankIs
  <2>2. Announced(x) = info BY DEF Announced
  <2> HIDE DEF info
  <2> QED BY <2>1, <2>2
<1> DEFINE a == Announced(n)
           b == Announced(m)
<1>2. /\ a.cipher \in Nat /\ a.cipher <= 4 /\ a.usable \in BOOLEAN
      /\ PaceRank(a) = IF a.usable THEN 16 + a.cipher ELSE a.cipher
      /\ b.cipher \in Nat /\ b.cipher <= 4 /\ b.usable \in BOOLEAN
      /\ PaceRank(b) = IF b.usable THEN 16 + b.cipher ELSE b.cipher
  BY <1>1
<1> HIDE DEF a, b
<1>3. PICK p, q \in Nat : p = a.cipher /\ q = b.cipher /\ p <= 4 /\ q <= 4 BY <1>2
<1>4. PICK r, s \in Nat : /\ r = PaceRank(a) /\ s = PaceRank(b)
                          /\ (a.usable => r = 16 + p) /\ (~a.usable => r = p)
                          /\ (b.usable => s = 16 + q) /\ (~b.usable => s = q)
  BY <1>2, <1>3
<1>5. s <= r => (b.usable => a.usable) /\ (b.usable = a.usable => q <= p)
  BY <1>2, <1>3, <1>4
<1>6. s < r => ~((a.usable => b.usable) /\ (a.usable = b.usable => p <= q))
  BY <1>2, <1>3, <1>4
<1> QED BY <1>3, <1>4, <1>5, <1>6 DEF Outdoes, a, b

\* Whatever the file: PACE is what is acted on if and only if a SecurityInfo announces
\* it; the entry acted on is the first of those announced that nothing outdoes, and
\* that the reader cannot run it means that it can run none of them.
THEOREM ActsOnTheBest ==
    ASSUME NEW file \in Seq(Byte), Len(file) < Huge
    PROVE  LET ns == Siblings(file)
               paces == {i \in DOMAIN ns : AnnouncesPace(ns[i])}
           IN /\ BestPace(file) = <<>> <=> paces = {}
              /\ paces # {} =>
                   \E i \in paces :
                      /\ BestPace(file) = <<Announced(ns[i])>>
                      /\ \A j \in paces : /\ Outdoes(Announced(ns[i]), Announced(ns[j]))
                                          /\ j < i => ~Outdoes(Announced(ns[j]), Announced(ns[i]))
<1> DEFINE ns == Siblings(file)
           paces == {i \in DOMAIN ns : AnnouncesPace(ns[i])}
<1>1. PICK m \in Nat : DOMAIN ns = 1 .. m /\ Folded(ns, m, SecurityInfos(file))
  BY SummaryIs
<1>2. Best(ns, m, BestPace(file)) BY <1>1 DEF Folded, BestPace
<1> HIDE DEF ns
<1>3. \A i : i \in paces <=> i \in 1 .. m /\ AnnouncesPace(ns[i]) BY <1>1
<1> HIDE DEF paces
<1>4. CASE BestPace(file) = <<>> /\ \A i \in 1 .. m : ~AnnouncesPace(ns[i])
  <2>1. paces = {} BY <1>3, <1>4
  <2> QED BY <2>1, <1>4 DEF ns, paces
<1>5. ASSUME NEW i \in 1 .. m, BestPace(file) = <<Announced(ns[i])>>, IsBest(ns, m, i)
      PROVE  /\ BestPace(file) # <<>> /\ i \in paces
             /\ \A j \in paces : /\ Outdoes(Announced(ns[i]), Announced(ns[j]))
                                 /\ j < i => ~Outdoes(Announced(ns[j]), Announced(ns[i]))
  <2>1. BestPace(file) # <<>> BY <1>5
  <2>2. i \in paces BY <1>3, <1>5 DEF IsBest
  <2>3. ASSUME NEW j \in paces
        PROVE  /\ Outdoes(Announced(ns[i]), Announced(ns[j]))
               /\ j < i => ~Outdoes(Announced(ns[j]), Announced(ns[i]))
    <3>1. /\ PaceRank(Announced(ns[j])) <= PaceRank(Announced(ns[i]))
          /\ j < i => PaceRank(Announced(ns[j])) < PaceRank(Announced(ns[i]))
      BY <1>3, <1>5 DEF IsBest
    <3> QED BY <3>1, RankMeans
  <2> QED BY <2>1, <2>2, <2>3
<1> QED
  <2>1. CASE \E i \in 1 .. m : BestPace(file) = <<Announced(ns[i])>> /\ IsBest(ns, m, i)
    <3>1. PICK i \in 1 .. m : BestPace(file) = <<Announced(ns[i])>> /\ IsBest(ns, m, i)
      BY <2>1
    <3>2. /\ BestPace(file) # <<>> /\ i \in paces
          /\ \A j \in paces : /\ Outdoes(Announced(ns[i]), Announced(ns[j]))
                              /\ j < i => ~Outdoes(Announced(ns[j]), Announced(ns[i]))
      BY <3>1, <1>5
    <3>3. paces # {} BY <3>2
    <3> QED BY <3>1, <3>2, <3>3 DEF ns, paces
  <2> QED BY <2>1, <1>2, <1>4 DEF Best

(***************************************************************************)
(* An INTEGER of one or two bytes is read as it was written.               *)
(***************************************************************************)
LEMMA LeastIs ==
    ASSUME NEW A \in SUBSET Nat, NEW k \in A, \A x \in A : k <= x
    PROVE  Min(A) = k
<1>1. Min(A) \in A /\ \A y \in A : Min(A) <= y BY LeastOf
<1>2. Min(A) \in Nat /\ k \in Nat /\ Min(A) <= k /\ k <= Min(A) BY <1>1
<1> QED BY <1>2

LEMMA ReadUintIs ==
    ASSUME NEW v \in Seq(Byte), NEW m \in Nat, NEW k \in Nat, NEW w, Leads(v, m, k, w)
    PROVE  ReadUint(v) = Number(w)
<1>. /\ Len(v) = m /\ m # 0 /\ m <= 4 /\ k # 0 /\ k <= m + 1
     /\ \A i \in 1 .. m : i < k => v[i] = 0
     /\ k <= m => v[k] # 0
     /\ w = SubSeq(v, k, m)
  BY DEF Leads
<1> DEFINE digits == {i \in DOMAIN v : v[i] # 0}
           first == IF digits = {} THEN Len(v) + 1 ELSE Min(digits)
<1>1. DOMAIN v = 1 .. m /\ v # <<>>
  <2>1. v # <<>> BY EmptySeq
  <2> QED BY <2>1, LenProperties
<1>2. \A i : i \in digits <=> i \in 1 .. m /\ v[i] # 0 BY <1>1
<1>3. digits \in SUBSET Nat BY <1>2
<1>4. ReadUint(v) = IF v = <<>> \/ Len(v) - first + 1 > 4 THEN -1
                    ELSE Number(SubSeq(v, first, Len(v)))
  BY DEF ReadUint
<1> HIDE DEF digits
<1>5. first = k
  <2>1. CASE k = m + 1
    <3>1. digits = {} BY <2>1, <1>2
    <3> QED BY <3>1, <2>1
  <2>2. CASE k # m + 1
    <3>1. k \in 1 .. m /\ k <= m BY <2>2
    <3>2. k \in digits BY <3>1, <1>2
    <3>3. \A x \in digits : k <= x BY <1>2
    <3>4. Min(digits) = k BY <3>2, <3>3, <1>3, LeastIs
    <3> QED BY <3>2, <3>4
  <2> QED BY <2>1, <2>2
<1> HIDE DEF first
<1>6. ~(m - k + 1 > 4) OBVIOUS
<1> QED BY <1>1, <1>4, <1>5, <1>6

\* The sequence that holds one byte, and the number it stands for.
LEMMA OneByte ==
    ASSUME NEW n \in Nat, n < 256
    PROVE  /\ <<n>> \in Seq(Byte) /\ Len(<<n>>) = 1 /\ <<n>>[1] = n
           /\ Number(<<n>>) = n
<1> DEFINE v == <<n>>
<1>1. n \in Byte BY ByteIs
<1>2. v \in Seq(Byte) /\ Len(v) = 1 /\ v[1] = n BY <1>1
<1>3. v # <<>> BY <1>2, EmptySeq
<1> HIDE DEF v
<1>4. Number(v) = BigEndian(0, 0, v[1]) BY <1>2, <1>3, NumberIs
<1>5. Number(v) = n BY <1>4, <1>2, BigEndianIs
<1> QED BY <1>2, <1>5 DEF v

LEMMA TwoBytes ==
    ASSUME NEW p \in Nat, p < 256, NEW q \in Nat, q < 256
    PROVE  /\ <<p, q>> \in Seq(Byte) /\ Len(<<p, q>>) = 2
           /\ <<p, q>>[1] = p /\ <<p, q>>[2] = q
           /\ Number(<<p, q>>) = p * 256 + q
<1> DEFINE v == <<p, q>>
<1>1. p \in Byte /\ q \in Byte BY ByteIs
<1>2. v \in Seq(Byte) /\ Len(v) = 2 /\ v[1] = p /\ v[2] = q BY <1>1
<1>3. v # <<>> BY <1>2, EmptySeq
<1> HIDE DEF v
<1>4. Number(v) = BigEndian(0, v[1], v[2]) BY <1>2, <1>3, NumberIs
<1>5. Number(v) = p * 256 + q BY <1>4, <1>2 DEF BigEndian
<1> QED BY <1>2, <1>5 DEF v

\* An INTEGER of one or two bytes is read as written.
LEMMA ReadUintOfOne ==
    ASSUME NEW n \in Nat, n < 256
    PROVE  ReadUint(<<n>>) = n
<1> DEFINE v == <<n>>
<1>1. v \in Seq(Byte) /\ Len(v) = 1 /\ v[1] = n /\ Number(v) = n BY OneByte
<1> HIDE DEF v
<1>2. CASE n = 0
  <2>1. PICK w : w = SubSeq(v, 2, 1) OBVIOUS
  <2>2. w = <<>>
    <3>1. Room(v, 1, 0) BY <1>1 DEF Room
    <3>2. Cut(v, 1, 0) \in Seq(Byte) /\ Len(Cut(v, 1, 0)) = 0 BY <3>1, <1>1, CutIs
    <3>3. Cut(v, 1, 0) = <<>> BY <3>2, EmptySeq
    <3>4. Cut(v, 1, 0) = w BY <2>1 DEF Cut
    <3> QED BY <3>3, <3>4
  <2>3. Leads(v, 1, 2, w) BY <1>1, <1>2, <2>1 DEF Leads
  <2>4. ReadUint(v) = Number(w) BY <1>1, <2>3, ReadUintIs
  <2>5. Number(w) = 0 BY <2>2 DEF Number
  <2> QED BY <2>4, <2>5, <1>2 DEF v
<1>3. CASE n # 0
  <2>1. Cut(v, 0, 1) = v BY <1>1, CutOfAll
  <2>2. v = SubSeq(v, 1, 1) BY <2>1 DEF Cut
  <2>3. Leads(v, 1, 1, v) BY <1>1, <1>3, <2>2 DEF Leads
  <2>4. ReadUint(v) = Number(v) BY <1>1, <2>3, ReadUintIs
  <2> QED BY <2>4, <1>1 DEF v
<1> QED BY <1>2, <1>3

LEMMA ReadUintOfTwo ==
    ASSUME NEW p \in Nat, p < 256, NEW q \in Nat, q < 256, q # 0 \/ p # 0
    PROVE  ReadUint(<<p, q>>) = p * 256 + q
<1> DEFINE v == <<p, q>>
<1>1. v \in Seq(Byte) /\ Len(v) = 2 /\ v[1] = p /\ v[2] = q /\ Number(v) = p * 256 + q
  BY TwoBytes
<1> HIDE DEF v
<1>2. CASE p = 0
  <2> DEFINE w == <<q>>
  <2>0. w \in Seq(Byte) /\ Len(w) = 1 /\ w[1] = q /\ Number(w) = q BY OneByte
  <2> HIDE DEF w
  <2>1. w = SubSeq(v, 2, 2)
    <3>1. PICK a, k \in Nat : a = 1 /\ k = 1 /\ a + k = 2 OBVIOUS
    <3>2. Room(v, a, k) BY <3>1, <1>1 DEF Room
    <3>3. /\ Cut(v, a, k) \in Seq(Byte) /\ Len(Cut(v, a, k)) = k
          /\ \A i \in 1 .. k : Cut(v, a, k)[i] = At(v, a, i)
      BY <3>2, <1>1, CutIs
    <3>4. At(v, a, 1) = q BY <3>1, <1>1 DEF At
    <3>5. Cut(v, 1, 1) = w
      <4>1. Len(w) = k BY <2>0, <3>1
      <4>2. \A i \in 1 .. k : Cut(v, a, k)[i] = w[i] BY <3>1, <3>3, <3>4, <2>0
      <4>3. Cut(v, a, k) = w BY <4>1, <4>2, <3>3, <2>0, SeqEqual
      <4> QED BY <4>3, <3>1
    <3> QED BY <3>5 DEF Cut
  <2>2. Leads(v, 2, 2, w) BY <1>1, <1>2, <2>1 DEF Leads
  <2>3. ReadUint(v) = Number(w) BY <1>1, <2>2, ReadUintIs
  <2>4. ReadUint(v) = q BY <2>3, <2>0
  <2>5. p * 256 + q = q BY <1>2
  <2> QED BY <2>4, <2>5 DEF v
<1>3. CASE p # 0
  <2>1. Cut(v, 0, 2) = v BY <1>1, CutOfAll
  <2>2. v = SubSeq(v, 1, 2) BY <2>1 DEF Cut
  <2>3. Leads(v, 2, 1, v) BY <1>1, <1>3, <2>2 DEF Leads
  <2>4. ReadUint(v) = Number(v) BY <1>1, <2>3, ReadUintIs
  <2> QED BY <2>4, <1>1 DEF v
<1> QED BY <1>2, <1>3

LEMMA IntegerIs ==
    ASSUME NEW n \in Nat, n \div 256 < 256
    PROVE  /\ IntegerBytes(n) \in Seq(Byte) /\ Len(IntegerBytes(n)) \in {1, 2}
           /\ ReadUint(IntegerBytes(n)) = n
           /\ DerInteger(n) = Wrap(INTEGER, IntegerBytes(n))
<1>0. DerInteger(n) = Wrap(INTEGER, IntegerBytes(n)) BY DEF DerInteger, IntegerBytes
<1>1. CASE n <= 127
  <2>1. IntegerBytes(n) = <<n>> BY <1>1 DEF IntegerBytes
  <2>2. <<n>> \in Seq(Byte) /\ Len(<<n>>) \in {1, 2}
    <3>1. n < 256 /\ 0 < 256 BY <1>1
    <3>2. <<n>> \in Seq(Byte) /\ Len(<<n>>) = 1 BY Zenon, <3>1, OneByte
    <3> QED BY Zenon, <3>2
  <2>3. ReadUint(<<n>>) = n BY <1>1, ReadUintOfOne
  <2> QED BY <2>1, <2>2, <2>3, <1>0
<1>2. CASE n > 127 /\ n <= 255
  <2>1. IntegerBytes(n) = <<0, n>> BY <1>2 DEF IntegerBytes
  <2>2. <<0, n>> \in Seq(Byte) /\ Len(<<0, n>>) \in {1, 2}
    <3>1. n < 256 /\ 0 < 256 BY <1>2
    <3>2. <<0, n>> \in Seq(Byte) /\ Len(<<0, n>>) = 2 BY Zenon, <3>1, TwoBytes
    <3> QED BY Zenon, <3>2
  <2>3. ReadUint(<<0, n>>) = 0 * 256 + n BY <1>2, ReadUintOfTwo
  <2>4. 0 * 256 + n = n OBVIOUS
  <2> QED BY <2>1, <2>2, <2>3, <2>4, <1>0
<1>3. CASE n > 255
  <2>1. PICK p, q \in Nat : /\ p = n \div 256 /\ q = n % 256 /\ p # 0 /\ p < 256 /\ q < 256
                            /\ n = p * 256 + q
    BY <1>3
  <2>2. IntegerBytes(n) = <<p, q>> BY <1>3, <2>1 DEF IntegerBytes
  <2>3. <<p, q>> \in Seq(Byte) /\ Len(<<p, q>>) \in {1, 2}
    <3>1. p < 256 /\ q < 256 BY <2>1
    <3>2. <<p, q>> \in Seq(Byte) /\ Len(<<p, q>>) = 2 BY Zenon, <3>1, TwoBytes
    <3> QED BY Zenon, <3>2
  <2>4. ReadUint(<<p, q>>) = p * 256 + q BY <2>1, ReadUintOfTwo
  <2>5. ReadUint(<<p, q>>) = n BY <2>1, <2>4
  <2> QED BY <2>2, <2>3, <2>5, <1>0
<1> QED BY <1>1, <1>2, <1>3

(***************************************************************************)
(* Buffers that are read to the end.                                       *)
(***************************************************************************)
LEMMA WholeBoth ==
    ASSUME NEW a, NEW c, Whole(a, c), NEW b, NEW d, Whole(b, d)
    PROVE  Whole(a \o b, c \o d) /\ Len(a \o b) = Len(a) + Len(b)
<1>1. a \in Seq(Byte) /\ b \in Seq(Byte) /\ Reads(a, Len(a), c) /\ Reads(b, Len(b), d)
  BY DEF Whole
<1>2. a \o b \in Seq(Byte) /\ Len(a \o b) = Len(a) + Len(b) BY <1>1, TwoParts
<1>3. Reads(a \o b, Len(a) + Len(b), c \o d) BY <1>1, ReadsBoth
<1> QED BY <1>2, <1>3 DEF Whole

LEMMA SimpleIs ==
    ASSUME NEW b \in Nat, b < 255, b # 0, b % 32 # 31
    PROVE  Simple(<<b>>) /\ <<b>>[1] = b
<1> DEFINE t == <<b>>
<1>1. b \in Byte BY ByteIs
<1>2. t \in Seq(Byte) /\ Len(t) = 1 /\ t[1] = b BY <1>1
<1>3. t # <<>> BY <1>2, EmptySeq
<1> HIDE DEF t
<1>4. IsTag(t) BY <1>2, <1>3 DEF IsTag
<1> QED BY <1>2, <1>4 DEF Simple, t

LEMMA TagsAre ==
    /\ Simple(SEQUENCE) /\ Simple(SET) /\ Simple(OID) /\ Simple(INTEGER) /\ Simple(DG14)
    /\ Constructed(SEQUENCE[1]) /\ Constructed(SET[1]) /\ Constructed(DG14[1])
    /\ SET # SEQUENCE /\ SET # DG14 /\ SEQUENCE # DG14 /\ SEQUENCE # OID /\ INTEGER # OID
<1>1. Simple(<<48>>) /\ <<48>>[1] = 48 BY SimpleIs
<1>2. Simple(<<49>>) /\ <<49>>[1] = 49 BY SimpleIs
<1>3. Simple(<<6>>) /\ <<6>>[1] = 6 BY SimpleIs
<1>4. Simple(<<2>>) /\ <<2>>[1] = 2 BY SimpleIs
<1>5. Simple(<<110>>) /\ <<110>>[1] = 110 BY SimpleIs
<1>6. Constructed(48) /\ Constructed(49) /\ Constructed(110) BY DEF Constructed
<1> QED BY <1>1, <1>2, <1>3, <1>4, <1>5, <1>6 DEF SEQUENCE, SET, OID, INTEGER, DG14

\* A node in the writing, its value at most k bytes long.
LEMMA WholeWrap ==
    ASSUME NEW t, Simple(t), NEW v \in Seq(Byte), NEW k \in Nat, Len(v) <= k, k < Huge
    PROVE  Whole(Wrap(t, v), <<Kid(t, v)>>) /\ Len(Wrap(t, v)) <= k + 5
<1>. PICK n \in Nat : n = Len(v) BY LenProperties
<1>1. t \in Seq(Byte) /\ IsTag(t) /\ Len(t) = 1 BY DEF Simple
<1>2. n < Huge BY DEF Huge
<1>3. /\ Wrap(t, v) \in Seq(Byte) /\ Len(Wrap(t, v)) <= Len(t) + 4 + Len(v)
      /\ Reads(Wrap(t, v), Len(Wrap(t, v)), <<Kid(t, v)>>)
  BY <1>1, <1>2, WrapIs DEF Kid
<1>4. PICK m \in Nat : m = Len(Wrap(t, v)) BY <1>3, LenProperties
<1>5. m <= 1 + 4 + n BY <1>1, <1>3, <1>4
<1> QED BY <1>3, <1>4, <1>5 DEF Whole

(***************************************************************************)
(* What an offer is written as, and what is read of it.                    *)
(***************************************************************************)
LEMMA PrefixIs ==
    ASSUME NEW w \in Seq(Byte), NEW n \in Nat, Len(w) = n, n # 0
    PROVE  LET id == BsiPrefix \o w
           IN /\ id \in Seq(Byte) /\ Len(id) = 7 + n /\ HasPrefix(id) /\ id # ActiveAuth
              /\ \A i \in 1 .. n : id[7 + i] = w[i]
<1> DEFINE b == BsiPrefix
           id == b \o w
<1>1. b \in Seq(Byte) /\ Len(b) = 7 /\ b[1] = 4
  <2>1. 4 \in Byte /\ 0 \in Byte /\ 127 \in Byte /\ 7 \in Byte /\ 2 \in Byte BY ByteIs
  <2> QED BY <2>1 DEF BsiPrefix
<1> HIDE DEF b
<1>0. PICK p \in Nat : p = 7 OBVIOUS
<1>2. /\ id \in Seq(Byte) /\ Len(id) = p + n /\ Cut(id, 0, p) = b /\ Room(id, 0, p)
      /\ Cut(id, p, n) = w /\ Room(id, p, n)
  <2>1. Len(b) = p BY <1>0, <1>1
  <2>2. b \in Seq(Byte) BY <1>1
  <2>3. /\ id \in Seq(Byte) /\ Len(id) = Len(b) + Len(w)
        /\ Cut(id, 0, Len(b)) = b /\ Room(id, 0, Len(b))
        /\ Cut(id, Len(b), Len(w)) = w /\ Room(id, Len(b), Len(w))
    BY <2>2, TwoParts
  <2> HIDE DEF id
  <2> QED BY <2>1, <2>3
<1> HIDE DEF id
<1>3. SubSeq(id, 1, 7) = b
  <2>1. SubSeq(id, 0 + 1, 0 + p) = b BY <1>2 DEF Cut
  <2> QED BY <2>1, <1>0
<1>4. HasPrefix(id)
  <2>1. Len(id) > Len(BsiPrefix) BY <1>0, <1>1, <1>2 DEF b
  <2>2. SubSeq(id, 1, Len(BsiPrefix)) = BsiPrefix BY <1>1, <1>3 DEF b
  <2> QED BY <2>1, <2>2 DEF HasPrefix
<1>5. \A i \in 1 .. n : id[7 + i] = w[i]
  <2>1. \A i \in 1 .. n : Cut(id, p, n)[i] = At(id, p, i) BY <1>2, CutIs
  <2> QED BY <2>1, <1>0, <1>2 DEF At
<1>6. id # ActiveAuth
  <2>1. Len(id) # 6 BY <1>0, <1>2
  <2>2. Len(ActiveAuth) = 6 BY DEF ActiveAuth
  <2>3. Len(id) # Len(ActiveAuth)
    <3> HIDE DEF id
    <3> QED BY <2>1, <2>2
  <2> QED BY <2>3
<1> QED BY <1>0, <1>2, <1>4, <1>5, <1>6 DEF id, b

\* The identifier of an offer is behind the prefix, and says what is offered.
LEMMA IdentifierIs ==
    ASSUME NEW o, PaceOffer(o) \/ OtherOffer(o)
    PROVE  LET id == IdentifierOf(o)
           IN /\ id \in Seq(Byte) /\ Len(id) \in {8, 10} /\ HasPrefix(id) /\ id # ActiveAuth
              /\ IsPace(o) => /\ Len(id) = PaceOidLen /\ id[8] = PACE
                              /\ id[9] = o.mapping /\ id[10] = o.cipher
              /\ ~IsPace(o) => Len(id) # PaceOidLen /\ id[8] = o.component
<1>1. CASE PaceOffer(o)
  <2>. PICK m, c \in Byte : m = o.mapping /\ c = o.cipher BY <1>1 DEF PaceOffer
  <2> DEFINE w == <<4, m, c>>
  <2>1. w \in Seq(Byte) /\ Len(w) = 3 /\ w[1] = 4 /\ w[2] = m /\ w[3] = c
    <3>1. 4 \in Byte BY ByteIs
    <3> QED BY <3>1
  <2> HIDE DEF w
  <2> DEFINE id == BsiPrefix \o w
  <2>2. PICK n \in Nat : n = 3 /\ n # 0 OBVIOUS
  <2>3. /\ id \in Seq(Byte) /\ Len(id) = 7 + n /\ HasPrefix(id) /\ id # ActiveAuth
        /\ \A i \in 1 .. n : id[7 + i] = w[i]
    BY <2>1, <2>2, PrefixIs DEF id
  <2>4. IdentifierOf(o) = id BY <1>1 DEF PaceOffer, IdentifierOf, w
  <2> HIDE DEF id
  <2>5. id[8] = 4 /\ id[9] = m /\ id[10] = c
    <3>1. 1 \in 1 .. n /\ 2 \in 1 .. n /\ 3 \in 1 .. n BY <2>2
    <3>2. id[7 + 1] = w[1] /\ id[7 + 2] = w[2] /\ id[7 + 3] = w[3] BY <3>1, <2>3
    <3> QED BY <3>2, <2>1
  <2>6. Len(id) = 10 BY <2>2, <2>3
  <2>7. IsPace(o) BY <1>1 DEF PaceOffer
  <2>8. PaceOidLen = 10 /\ PACE = 4 BY DEF PaceOidLen, PACE
  <2> QED BY <2>3, <2>4, <2>5, <2>6, <2>7, <2>8
<1>2. CASE OtherOffer(o)
  <2>. PICK c \in Byte : c = o.component BY <1>2 DEF OtherOffer
  <2> DEFINE w == <<c>>
  <2>1. w \in Seq(Byte) /\ Len(w) = 1 /\ w[1] = c OBVIOUS
  <2> HIDE DEF w
  <2> DEFINE id == BsiPrefix \o w
  <2>2. PICK n \in Nat : n = 1 /\ n # 0 OBVIOUS
  <2>3. /\ id \in Seq(Byte) /\ Len(id) = 7 + n /\ HasPrefix(id) /\ id # ActiveAuth
        /\ \A i \in 1 .. n : id[7 + i] = w[i]
    BY <2>1, <2>2, PrefixIs DEF id
  <2>4. IdentifierOf(o) = id BY <1>2 DEF OtherOffer, IdentifierOf, w
  <2> HIDE DEF id
  <2>5. id[8] = c
    <3>1. 1 \in 1 .. n BY <2>2
    <3>2. id[7 + 1] = w[1] BY <3>1, <2>3
    <3> QED BY <3>2, <2>1
  <2>6. Len(id) = 8 BY <2>2, <2>3
  <2>7. ~IsPace(o) BY <1>2 DEF OtherOffer
  <2>8. Len(id) # PaceOidLen BY <2>6 DEF PaceOidLen
  <2> QED BY <2>3, <2>4, <2>5, <2>6, <2>7, <2>8
<1> QED BY <1>1, <1>2

LEMMA PairIs ==
    ASSUME NEW x, NEW y
    PROVE  <<x>> \o <<y>> = <<x, y>>
<1>1. <<x>> \in Seq({x, y}) /\ <<y>> \in Seq({x, y}) /\ <<x, y>> \in Seq({x, y}) OBVIOUS
<1>2. Len(<<x>> \o <<y>>) = 2 /\ (<<x>> \o <<y>>)[1] = x /\ (<<x>> \o <<y>>)[2] = y
  OBVIOUS
<1>3. Len(<<x, y>>) = 2 /\ <<x, y>>[1] = x /\ <<x, y>>[2] = y OBVIOUS
<1> DEFINE c == <<x>> \o <<y>>
           d == <<x, y>>
<1>4. c \in Seq({x, y}) /\ d \in Seq({x, y}) /\ Len(c) = Len(d) BY <1>1, <1>2, <1>3
<1>5. \A i \in 1 .. Len(c) : c[i] = d[i]
  <2> HIDE DEF c, d
  <2>1. \A i \in 1 .. 2 : i = 1 \/ i = 2 OBVIOUS
  <2>2. Len(c) = 2 /\ c[1] = d[1] /\ c[2] = d[2] BY <1>2, <1>3 DEF c, d
  <2> QED BY <2>1, <2>2
<1> HIDE DEF c, d
<1>6. c = d BY <1>4, <1>5, SeqEqual
<1> QED BY <1>6 DEF c, d

LEMMA EncodedIs ==
    ASSUME NEW o
    PROVE  Encoded(o) = Wrap(SEQUENCE, Inner(o))
<1> DEFINE a == Wrap(OID, IdentifierOf(o))
           v == DerInteger(IF IsPace(o) THEN 2 ELSE 1)
           p == IF ~IsPace(o) THEN <<>> ELSE IF o.parameter < 0 THEN <<>> ELSE DerInteger(o.parameter)
<1>1. Encoded(o) = Wrap(SEQUENCE, a \o v \o p) BY DEF Encoded
<1>2. v = DerInteger(Version(o)) BY DEF Version
<1>3. p = IF Given(o) THEN DerInteger(o.parameter) ELSE <<>> BY DEF Given
<1> QED BY <1>1, <1>2, <1>3 DEF Inner, Opening

LEMMA IntegerReads ==
    ASSUME NEW n \in Nat, n \div 256 < 256
    PROVE  Whole(DerInteger(n), <<Kid(INTEGER, IntegerBytes(n))>>) /\ Len(DerInteger(n)) <= 7
<1>1. IntegerBytes(n) \in Seq(Byte) /\ Len(IntegerBytes(n)) \in {1, 2}
      /\ DerInteger(n) = Wrap(INTEGER, IntegerBytes(n))
  BY IntegerIs
<1> DEFINE v == IntegerBytes(n)
<1> HIDE DEF v
<1>2. v \in Seq(Byte) /\ Len(v) \in {1, 2} BY <1>1 DEF v
<1>4. Simple(INTEGER) BY TagsAre
<1>5. PICK k \in Nat : k = 2 /\ k < Huge BY DEF Huge
<1>3. Len(v) <= k
  <2>1. Len(v) = 1 \/ Len(v) = 2 BY <1>2
  <2>2. 1 <= k /\ 2 <= k BY <1>5
  <2> QED BY <2>1, <2>2
<1>6. Whole(Wrap(INTEGER, v), <<Kid(INTEGER, v)>>) /\ Len(Wrap(INTEGER, v)) <= k + 5
  BY <1>2, <1>3, <1>4, <1>5, WholeWrap
<1>7. Len(Wrap(INTEGER, v)) <= 7
  <2>1. k + 5 = 7 BY <1>5
  <2> QED BY <2>1, <1>6
<1> QED BY <1>1, <1>6, <1>7 DEF v

LEMMA OpeningReads ==
    ASSUME NEW o, PaceOffer(o) \/ OtherOffer(o)
    PROVE  Whole(Opening(o), Two(o)) /\ Len(Opening(o)) <= 22
<1> DEFINE id == IdentifierOf(o)
           a == Wrap(OID, id)
           w == Version(o)
           b == DerInteger(w)
           c == <<Kid(OID, id)>>
           d == <<Kid(INTEGER, IntegerBytes(w))>>
<1>1. id \in Seq(Byte) /\ Len(id) \in {8, 10} BY IdentifierIs
<1>2. w \in Nat /\ w \div 256 < 256
  <2>1. w = 1 \/ w = 2 BY DEF Version
  <2> QED BY <2>1
<1>3. Two(o) = c \o d
  <2> DEFINE x == Kid(OID, id)
             y == Kid(INTEGER, IntegerBytes(w))
  <2>1. Two(o) = <<x, y>> BY DEF Two
  <2> HIDE DEF x, y
  <2>2. <<x>> \o <<y>> = <<x, y>> BY PairIs
  <2> QED BY <2>1, <2>2 DEF x, y
<1>4. Opening(o) = a \o b BY DEF Opening
<1>5. PICK k \in Nat : k = 10 /\ k < Huge BY DEF Huge
<1> HIDE DEF id, w
<1>6. Len(id) <= k
  <2>1. Len(id) = 8 \/ Len(id) = 10 BY <1>1
  <2>2. 8 <= k /\ 10 <= k BY <1>5
  <2> QED BY <2>1, <2>2
<1>7. Simple(OID) BY TagsAre
<1>8. Whole(a, c) /\ Len(a) <= k + 5 BY <1>1, <1>5, <1>6, <1>7, WholeWrap
<1>9. Whole(b, d) /\ Len(b) <= 7 BY <1>2, IntegerReads
<1> HIDE DEF a, b, c, d
<1>10. Whole(a \o b, c \o d) /\ Len(a \o b) = Len(a) + Len(b) BY <1>8, <1>9, WholeBoth
<1>11. PICK p, q \in Nat : p = Len(a) /\ q = Len(b) BY <1>8, <1>9, LenProperties DEF Whole
<1>12. Len(a \o b) <= 22 BY <1>5, <1>8, <1>9, <1>10, <1>11
<1> QED BY <1>3, <1>4, <1>10, <1>12

LEMMA InnerReads ==
    ASSUME NEW o, PaceOffer(o) \/ OtherOffer(o)
    PROVE  Whole(Inner(o), Kids(o)) /\ Len(Inner(o)) <= 29
<1> DEFINE a == Opening(o)
           c == Two(o)
<1>1. Whole(a, c) /\ Len(a) <= 22 BY OpeningReads
<1>2. PICK p \in Nat : p = Len(a) /\ p <= 22 BY <1>1, LenProperties DEF Whole
<1>3. CASE Given(o)
  <2> DEFINE b == DerInteger(o.parameter)
             d == <<Kid(INTEGER, IntegerBytes(o.parameter))>>
  <2>1. Inner(o) = a \o b /\ Kids(o) = c \o d BY <1>3 DEF Inner, Kids
  <2>2. o.parameter \in Nat /\ o.parameter \div 256 < 256
    BY <1>3 DEF Given, PaceOffer, OtherOffer
  <2>3. Whole(b, d) /\ Len(b) <= 7 BY <2>2, IntegerReads
  <2> HIDE DEF a, b, c, d
  <2>4. Whole(a \o b, c \o d) /\ Len(a \o b) = Len(a) + Len(b) BY <1>1, <2>3, WholeBoth
  <2>5. PICK q \in Nat : q = Len(b) BY <2>3, LenProperties DEF Whole
  <2>6. Len(a \o b) <= 29 BY <1>2, <2>3, <2>4, <2>5
  <2> QED BY <2>1, <2>4, <2>6
<1>4. CASE ~Given(o)
  <2>1. Inner(o) = a \o <<>> /\ Kids(o) = c \o <<>> BY <1>4 DEF Inner, Kids
  <2>2. c = <<Kid(OID, IdentifierOf(o)), Kid(INTEGER, IntegerBytes(Version(o)))>>
    BY DEF Two
  <2>3. a \in Seq(Byte) BY <1>1 DEF Whole
  <2> HIDE DEF a
  <2>4. a \o <<>> = a BY <2>3
  <2>5. c \o <<>> = c BY <2>2
  <2>6. Len(a) <= 29 BY <1>2
  <2> QED BY <1>1, <2>1, <2>4, <2>5, <2>6
<1> QED BY <1>3, <1>4

LEMMA KidsAre ==
    ASSUME NEW o
    PROVE  LET ks == Kids(o)
               m == IF Given(o) THEN 3 ELSE 2
           IN /\ Len(ks) = m
              /\ ks[1] = Kid(OID, IdentifierOf(o))
              /\ ks[2] = Kid(INTEGER, IntegerBytes(Version(o)))
              /\ Given(o) => ks[3] = Kid(INTEGER, IntegerBytes(o.parameter))
<1> DEFINE x == Kid(OID, IdentifierOf(o))
           y == Kid(INTEGER, IntegerBytes(Version(o)))
           z == Kid(INTEGER, IntegerBytes(o.parameter))
<1>1. Kids(o) = <<x, y>> \o (IF Given(o) THEN <<z>> ELSE <<>>) BY DEF Kids, Two
<1> HIDE DEF x, y, z
<1>2. /\ Len(<<x, y>> \o <<z>>) = 3 /\ (<<x, y>> \o <<z>>)[1] = x
      /\ (<<x, y>> \o <<z>>)[2] = y /\ (<<x, y>> \o <<z>>)[3] = z
  OBVIOUS
<1>3. <<x, y>> \o <<>> = <<x, y>> /\ Len(<<x, y>>) = 2 /\ <<x, y>>[1] = x /\ <<x, y>>[2] = y
  OBVIOUS
<1>4. CASE Given(o)
  <2>1. Kids(o) = <<x, y>> \o <<z>> BY <1>1, <1>4
  <2> QED BY <2>1, <1>2, <1>4 DEF x, y, z
<1>5. CASE ~Given(o)
  <2>1. Kids(o) = <<x, y>> BY <1>1, <1>3, <1>5
  <2> QED BY <2>1, <1>3, <1>5 DEF x, y
<1> QED BY <1>4, <1>5

\* What a SecurityInfo is written as is read as it.
LEMMA NodeMeans ==
    ASSUME NEW o, PaceOffer(o) \/ OtherOffer(o), NEW n, IsOf(n, SEQUENCE, Inner(o))
    PROVE  Means(n, o)
<1> DEFINE d == Inner(o)
           ks == Kids(o)
           cs == Nodes(d)
<1>1. d \in Seq(Byte) /\ Reads(d, Len(d), ks) /\ Len(d) < Huge
  <2>1. Whole(d, ks) /\ Len(d) <= 29 BY InnerReads
  <2> HIDE DEF d, ks
  <2>2. PICK k \in Nat : k = Len(d) BY <2>1, LenProperties DEF Whole
  <2>3. k < Huge BY <2>1, <2>2 DEF Huge
  <2> QED BY <2>1, <2>2, <2>3 DEF Whole
<1>2. n.tag = SEQUENCE /\ Children(n) = cs
  <2>1. n.tag = SEQUENCE /\ n.value = d /\ n.constructed = Constructed(SEQUENCE[1])
    BY DEF IsOf
  <2>2. n.constructed BY <2>1, TagsAre
  <2> QED BY <2>1, <2>2 DEF Children
<1> HIDE DEF d
<1>3. PICK m \in Nat : Len(ks) = m /\ AreOf(cs, m, ks) BY <1>1, ReadsAre
<1>4. /\ m = IF Given(o) THEN 3 ELSE 2
      /\ ks[1].tag = OID /\ ks[1].value = IdentifierOf(o)
      /\ ks[2].tag = INTEGER /\ ks[2].value = IntegerBytes(Version(o))
      /\ Given(o) => ks[3].tag = INTEGER /\ ks[3].value = IntegerBytes(o.parameter)
  <2>1. /\ Len(ks) = IF Given(o) THEN 3 ELSE 2
        /\ ks[1] = Kid(OID, IdentifierOf(o))
        /\ ks[2] = Kid(INTEGER, IntegerBytes(Version(o)))
        /\ Given(o) => ks[3] = Kid(INTEGER, IntegerBytes(o.parameter))
    BY KidsAre
  <2> HIDE DEF ks
  <2>2. \A t, v : Kid(t, v).tag = t /\ Kid(t, v).value = v BY DEF Kid
  <2>3. m = IF Given(o) THEN 3 ELSE 2 BY <2>1, <1>3
  <2>4. ks[1].tag = OID /\ ks[1].value = IdentifierOf(o) BY <2>1, <2>2
  <2>5. ks[2].tag = INTEGER /\ ks[2].value = IntegerBytes(Version(o)) BY <2>1, <2>2
  <2>6. Given(o) => ks[3].tag = INTEGER /\ ks[3].value = IntegerBytes(o.parameter)
    BY <2>1, <2>2
  <2> QED BY <2>3, <2>4, <2>5, <2>6
<1> HIDE DEF ks, cs
<1>5. /\ Len(cs) = m /\ cs # <<>>
      /\ cs[1].tag = OID /\ cs[1].value = IdentifierOf(o)
      /\ cs[2].tag = INTEGER /\ cs[2].value = IntegerBytes(Version(o))
      /\ Given(o) => cs[3].tag = INTEGER /\ cs[3].value = IntegerBytes(o.parameter)
  <2>1. Len(cs) = m /\ (cs = <<>> <=> m = 0)
        /\ \A i \in 1 .. m : cs[i].tag = ks[i].tag /\ cs[i].value = ks[i].value
    BY <1>3 DEF AreOf, IsOf
  <2>2. m # 0 /\ 1 \in 1 .. m /\ 2 \in 1 .. m /\ (Given(o) => 3 \in 1 .. m) BY <1>4
  <2> QED BY <2>1, <2>2, <1>4
<1>6. Opens(n) /\ Identifier(n) = IdentifierOf(o) BY <1>2, <1>5 DEF Opens, Identifier
<1>7. ReadUint(cs[2].value) \in Nat
  <2>1. Version(o) \in Nat /\ Version(o) \div 256 < 256 BY DEF Version
  <2>2. ReadUint(IntegerBytes(Version(o))) = Version(o) BY <2>1, IntegerIs
  <2> QED BY <2>1, <2>2, <1>5
<1>8. Given(o) => o.parameter \in Nat /\ ReadUint(cs[3].value) = o.parameter
  <2> SUFFICES ASSUME Given(o) PROVE o.parameter \in Nat /\ ReadUint(cs[3].value) = o.parameter
    OBVIOUS
  <2>1. o.parameter \in Nat /\ o.parameter \div 256 < 256
    BY DEF Given, PaceOffer, OtherOffer
  <2>2. ReadUint(IntegerBytes(o.parameter)) = o.parameter BY <2>1, IntegerIs
  <2> QED BY <2>1, <2>2, <1>5
<1> DEFINE readable == {i \in 2 .. Len(cs) : cs[i].tag = INTEGER /\ ReadUint(cs[i].value) >= 0}
           later == {i \in readable : \E j \in readable : j < i}
<1>9. SecondInteger(cs) = IF later = {} THEN -1 ELSE ReadUint(cs[Min(later)].value)
  BY DEF SecondInteger
<1>10. \A i : i \in readable <=> i \in 2 .. m /\ cs[i].tag = INTEGER /\ ReadUint(cs[i].value) >= 0
  BY <1>5
<1> HIDE DEF readable
<1>11. \A i : i \in later <=> i \in readable /\ \E j \in readable : j < i OBVIOUS
<1> HIDE DEF later
<1>12. SecondInteger(cs) = Second(o)
  <2>1. 2 \in readable
    <3>1. 2 \in 2 .. m BY <1>4
    <3> QED BY <3>1, <1>5, <1>7, <1>10
  <2>2. CASE Given(o)
    <3>1. m = 3 BY <2>2, <1>4
    <3>2. 3 \in readable BY <3>1, <2>2, <1>5, <1>8, <1>10
    <3>3. 3 \in later BY <2>1, <3>2, <1>11
    <3>4. \A i \in later : i = 3 BY <3>1, <1>10, <1>11
    <3>5. later \in SUBSET Nat BY <3>4
    <3>6. Min(later) = 3 BY <3>3, <3>5, <3>4, LeastOf
    <3>7. SecondInteger(cs) = ReadUint(cs[3].value) BY <3>3, <3>6, <1>9
    <3> QED BY <3>7, <2>2, <1>8 DEF Second
  <2>3. CASE ~Given(o)
    <3>1. m = 2 BY <2>3, <1>4
    <3>2. later = {} BY <3>1, <1>10, <1>11
    <3> QED BY <3>2, <2>3, <1>9 DEF Second
  <2> QED BY <2>2, <2>3
<1> QED BY <1>2, <1>6, <1>12 DEF Means

LEMMA PaceStands ==
    ASSUME NEW o, PaceOffer(o), NEW oid, oid[9] = o.mapping, oid[10] = o.cipher
    PROVE  LET a == PaceInfo(oid, Second(o))
           IN /\ a.usable <=> Runs(o)
              /\ Runs(o) => a.cipher = o.cipher /\ a.parameter = o.parameter
<1>. PICK m, c \in Nat : m = o.mapping /\ c = o.cipher BY ByteIs DEF PaceOffer
<1>. PICK p \in Int : p = o.parameter /\ p >= -1 BY DEF PaceOffer
<1> DEFINE a == PaceInfo(oid, Second(o))
           q == IF p \in 0 .. 255 THEN p ELSE NoParameter
<1>1. Second(o) = p
  <2>1. IsPace(o) BY DEF PaceOffer
  <2> QED BY <2>1 DEF Second, Given
<1>2. /\ a.usable = (Reason(Agreement(m), Mapping(m), Cipher(c), q) = "None")
      /\ a.cipher = Cipher(c) /\ a.parameter = q
  BY <1>1 DEF PaceInfo
<1> HIDE DEF a
<1>3. q \in CarriedCurves <=> p \in CarriedCurves BY DEF CarriedCurves, NoParameter
<1>4. p \in CarriedCurves => q = p BY DEF CarriedCurves
<1> HIDE DEF q
<1>5. Cipher(c) = (IF c \in 1 .. 4 THEN c ELSE 0) /\ (Cipher(c) = 0 <=> c \notin 1 .. 4)
  BY DEF Cipher
<1>6. Reason(Agreement(m), Mapping(m), Cipher(c), q) = "None" <=>
         /\ Agreement(m) = "Ecdh" /\ Mapping(m) = "Generic" /\ q \in CarriedCurves
         /\ Cipher(c) # 0
  <2> DEFINE g == Agreement(m)
             k == Mapping(m)
             x == Cipher(c)
  <2>1. g \in {"Ecdh", "Dh", "Unknown"} BY DEF Agreement
  <2> HIDE DEF g, k, x
  <2> QED BY <2>1 DEF Reason, g, k, x
<1>7. Agreement(m) = "Ecdh" /\ Mapping(m) = "Generic" <=> m = 2
  <2>1. Agreement(m) = "Ecdh" <=> m \in {2, 4, 6} BY DEF Agreement
  <2>2. Mapping(m) = "Generic" <=> m \in {1, 2} BY DEF Mapping
  <2> QED BY <2>1, <2>2
<1>8. Runs(o) <=> m = 2 /\ c \in 1 .. 4 /\ p \in CarriedCurves BY DEF Runs
<1>9. a.usable <=> Runs(o) BY <1>2, <1>3, <1>5, <1>6, <1>7, <1>8
<1>10. Runs(o) => a.cipher = o.cipher /\ a.parameter = o.parameter
  BY <1>2, <1>4, <1>5, <1>8
<1> QED BY <1>9, <1>10 DEF a

LEMMA OfferStands ==
    ASSUME NEW o, PaceOffer(o) \/ OtherOffer(o), NEW n, Means(n, o)
    PROVE  Stands(n, o)
<1> DEFINE id == IdentifierOf(o)
<1>1. /\ HasPrefix(id) /\ id # ActiveAuth
      /\ IsPace(o) => Len(id) = PaceOidLen /\ id[8] = PACE /\ id[9] = o.mapping /\ id[10] = o.cipher
      /\ ~IsPace(o) => Len(id) # PaceOidLen /\ id[8] = o.component
  BY IdentifierIs
<1>2. Opens(n) /\ Identifier(n) = id /\ Announced(n) = PaceInfo(id, Second(o))
  BY DEF Means, Announced
<1> HIDE DEF id
<1>3. PACE # PK /\ PACE # CA /\ PACE # TA BY DEF PACE, PK, CA, TA
<1>4. \A c : Names(n, c) <=> id[8] = c BY <1>1, <1>2 DEF Names
<1>5. AnnouncesPace(n) <=> id[8] = PACE /\ Len(id) = PaceOidLen
  BY <1>2, <1>4 DEF AnnouncesPace
<1>6. CASE IsPace(o)
  <2>1. PaceOffer(o) BY <1>6 DEF OtherOffer
  <2>2. id[9] = o.mapping /\ id[10] = o.cipher BY <1>1, <1>6
  <2>3. /\ PaceInfo(id, Second(o)).usable <=> Runs(o)
        /\ Runs(o) => /\ PaceInfo(id, Second(o)).cipher = o.cipher
                      /\ PaceInfo(id, Second(o)).parameter = o.parameter
    BY <2>1, <2>2, PaceStands
  <2>4. AnnouncesPace(n) /\ ~Names(n, PK) /\ ~Names(n, CA) /\ ~Names(n, TA)
    BY <1>1, <1>3, <1>4, <1>5, <1>6
  <2> QED BY <2>3, <2>4, <1>2, <1>6 DEF Stands
<1>7. CASE ~IsPace(o)
  <2>1. ~AnnouncesPace(n) BY <1>1, <1>5, <1>7
  <2>2. \A c : Names(n, c) <=> o.component = c BY <1>1, <1>4, <1>7
  <2> QED BY <2>1, <2>2, <1>2, <1>7 DEF Stands
<1> QED BY <1>6, <1>7

(***************************************************************************)
(* The offers of a file and the SecurityInfos that stand for them.         *)
(***************************************************************************)
\* Of two SecurityInfos that the reader can run, the first the stronger or as strong.
LEMMA RankOfRuns ==
    ASSUME NEW n, NEW o, Stands(n, o), IsPace(o), NEW k, NEW p, Stands(k, p), IsPace(p)
    PROVE  /\ PaceRank(Announced(n)) <= PaceRank(Announced(k)) =>
                 (Runs(o) => Runs(p) /\ o.cipher <= p.cipher)
           /\ Runs(o) /\ Runs(p) /\ PaceRank(Announced(n)) < PaceRank(Announced(k)) =>
                 o.cipher < p.cipher
<1>1. ASSUME NEW x
      PROVE  /\ Announced(x).cipher \in Nat /\ Announced(x).cipher <= 4
             /\ Announced(x).usable \in BOOLEAN
             /\ PaceRank(Announced(x)) = IF Announced(x).usable THEN 16 + Announced(x).cipher
                                         ELSE Announced(x).cipher
  <2> DEFINE info == PaceInfo(Identifier(x), SecondInteger(Children(x)))
  <2>1. info.cipher \in 0 .. 4 /\ info.usable \in BOOLEAN
        /\ PaceRank(info) = IF info.usable THEN 16 + info.cipher ELSE info.cipher
    BY RankIs
  <2>2. Announced(x) = info BY DEF Announced
  <2> HIDE DEF info
  <2> QED BY <2>1, <2>2
<1>2. /\ Announced(n).usable <=> Runs(o)
      /\ Announced(k).usable <=> Runs(p)
      /\ Runs(o) => Announced(n).cipher = o.cipher
      /\ Runs(p) => Announced(k).cipher = p.cipher
  BY DEF Stands
<1> DEFINE a == Announced(n)
           b == Announced(k)
<1>3. /\ a.cipher \in Nat /\ a.cipher <= 4 /\ b.cipher \in Nat /\ b.cipher <= 4
      /\ PaceRank(a) = (IF Runs(o) THEN 16 + a.cipher ELSE a.cipher)
      /\ PaceRank(b) = (IF Runs(p) THEN 16 + b.cipher ELSE b.cipher)
  BY <1>1, <1>2
<1> HIDE DEF a, b
<1>4. PICK p1, q1 \in Nat : p1 = a.cipher /\ q1 = b.cipher /\ p1 <= 4 /\ q1 <= 4 BY <1>3
<1>5. PICK r, s \in Nat : /\ r = PaceRank(a) /\ s = PaceRank(b)
                          /\ (Runs(o) => r = 16 + p1) /\ (~Runs(o) => r = p1)
                          /\ (Runs(p) => s = 16 + q1) /\ (~Runs(p) => s = q1)
  BY <1>3, <1>4
<1>6. r <= s => (Runs(o) => Runs(p) /\ p1 <= q1) BY <1>4, <1>5
<1>7. r < s => (Runs(o) => Runs(p) /\ p1 < q1) BY <1>4, <1>5
<1>8. (Runs(o) => p1 = o.cipher) /\ (Runs(p) => q1 = p.cipher) BY <1>2, <1>4 DEF a, b
<1> QED BY <1>5, <1>6, <1>7, <1>8 DEF a, b

LEMMA ActedIs ==
    ASSUME NEW ns, NEW m \in Nat, NEW offers, StandFor(ns, m, offers), NEW pace, Best(ns, m, pace),
           \A i \in RunsOf(offers) : offers[i].cipher \in Nat
    PROVE  ActedOf(offers, pace)
<1>1. \A i : i \in PacesOf(offers) <=> i \in 1 .. m /\ AnnouncesPace(ns[i])
  BY DEF PacesOf, StandFor, Stands
<1>2. \A i : i \in RunsOf(offers) <=> i \in PacesOf(offers) /\ Runs(offers[i])
  BY DEF RunsOf
<1>3. CASE pace = <<>> /\ \A i \in 1 .. m : ~AnnouncesPace(ns[i])
  <2>1. PacesOf(offers) = {} BY <1>1, <1>3
  <2>2. RunsOf(offers) = {} BY <2>1, <1>2
  <2> QED BY <2>1, <2>2, <1>3 DEF ActedOf
<1>4. ASSUME NEW i \in 1 .. m, pace = <<Announced(ns[i])>>, IsBest(ns, m, i)
      PROVE  ActedOf(offers, pace)
  <2>1. i \in PacesOf(offers) /\ IsPace(offers[i]) /\ Stands(ns[i], offers[i])
    BY <1>1, <1>4 DEF IsBest, PacesOf, StandFor
  <2>2. pace # <<>> /\ pace[1] = Announced(ns[i]) BY <1>4
  <2>3. pace[1].usable <=> Runs(offers[i]) BY <2>1, <2>2 DEF Stands
  <2>4. ASSUME NEW j \in PacesOf(offers)
        PROVE  /\ j \in 1 .. m
               /\ Runs(offers[j]) => Runs(offers[i]) /\ offers[j].cipher <= offers[i].cipher
               /\ Runs(offers[j]) /\ j < i => offers[j].cipher < offers[i].cipher
    <3>1. j \in 1 .. m /\ AnnouncesPace(ns[j]) /\ Stands(ns[j], offers[j]) /\ IsPace(offers[j])
      BY <1>1 DEF StandFor, PacesOf
    <3>2. PaceRank(Announced(ns[j])) <= PaceRank(Announced(ns[i]))
          /\ (j < i => PaceRank(Announced(ns[j])) < PaceRank(Announced(ns[i])))
      BY <3>1, <1>4 DEF IsBest
    <3> DEFINE p == PaceRank(Announced(ns[j])) <= PaceRank(Announced(ns[i]))
               q == PaceRank(Announced(ns[j])) < PaceRank(Announced(ns[i]))
    <3>3. /\ p => (Runs(offers[j]) => Runs(offers[i]) /\ offers[j].cipher <= offers[i].cipher)
          /\ Runs(offers[j]) /\ Runs(offers[i]) /\ q => offers[j].cipher < offers[i].cipher
      BY <2>1, <3>1, RankOfRuns
    <3> HIDE DEF p, q
    <3>4. p /\ (j < i => q) BY <3>2 DEF p, q
    <3> QED BY <3>1, <3>3, <3>4
  <2>5. (RunsOf(offers) # {}) <=> Runs(offers[i]) BY <2>1, <2>4, <1>2
  <2>6. ASSUME RunsOf(offers) # {}
        PROVE  /\ pace[1].cipher = offers[Min(StrongestOf(offers))].cipher
               /\ pace[1].parameter = offers[Min(StrongestOf(offers))].parameter
    <3>1. i \in RunsOf(offers) BY <2>1, <2>5, <2>6, <1>2
    <3>2. i \in StrongestOf(offers) BY <3>1, <2>4, <1>2 DEF StrongestOf
    <3>3. ASSUME NEW j \in StrongestOf(offers) PROVE i <= j
      <4>1. j \in RunsOf(offers) /\ j \in PacesOf(offers) /\ Runs(offers[j]) /\ j \in Nat
        BY <1>1, <1>2 DEF StrongestOf
      <4>2. offers[i].cipher <= offers[j].cipher BY <3>1 DEF StrongestOf
      <4>3. ~(offers[j].cipher < offers[i].cipher)
        <5>1. PICK x, y \in Nat : x = offers[i].cipher /\ y = offers[j].cipher
          BY <3>1, <4>1
        <5> QED BY <5>1, <4>2
      <4>4. ~(j < i) BY <4>1, <4>3, <2>4
      <4> QED BY <4>1, <4>4
    <3>4. StrongestOf(offers) \in SUBSET Nat BY <1>1, <1>2 DEF StrongestOf
    <3>5. Min(StrongestOf(offers)) = i BY <3>2, <3>3, <3>4, LeastIs
    <3>6. pace[1].cipher = offers[i].cipher /\ pace[1].parameter = offers[i].parameter
      BY <2>1, <2>2, <3>1, <1>2 DEF Stands
    <3> QED BY <3>5, <3>6
  <2> QED BY <2>1, <2>2, <2>3, <2>5, <2>6 DEF ActedOf
<1> QED BY <1>3, <1>4 DEF Best

LEMMA BestOfOffersIs ==
    ASSUME NEW offers, NEW file, SummedUp(offers, SecurityInfos(file))
    PROVE  BestOfOffers(offers, file)
BY DEF BestOfOffers, SummedUp, ActedOf, StrongestOf, RunsOf, PacesOf, Runs

LEMMA FoldIsSummedUp ==
    ASSUME NEW ns, NEW m \in Nat, m <= 255, NEW offers, StandFor(ns, m, offers),
           \A i \in RunsOf(offers) : offers[i].cipher \in Nat,
           NEW infos, Folded(ns, m, infos)
    PROVE  SummedUp(offers, infos)
<1>1. /\ Best(ns, m, infos.pace)
      /\ infos.chipAuth <=> \E i \in 1 .. m : Names(ns[i], PK) \/ Names(ns[i], CA)
      /\ infos.terminalAuth <=> \E i \in 1 .. m : Names(ns[i], TA)
      /\ m <= 255 /\ (\A i \in 1 .. m : Opens(ns[i])) => infos.entries = m
  BY DEF Folded
<1>2. Len(offers) = m /\ DOMAIN offers = 1 .. m /\ \A i \in 1 .. m : Stands(ns[i], offers[i])
  BY DEF StandFor
<1>3. ActedOf(offers, infos.pace) BY <1>1, ActedIs
<1>4. infos.entries = Len(offers) BY <1>1, <1>2 DEF Stands
<1>5. \A i : i \in DOMAIN offers \ PacesOf(offers) <=> i \in 1 .. m /\ ~IsPace(offers[i])
  BY <1>2 DEF PacesOf
<1>6. ASSUME NEW i \in 1 .. m
      PROVE  /\ Names(ns[i], PK) \/ Names(ns[i], CA) <=>
                   i \in DOMAIN offers \ PacesOf(offers) /\ offers[i].component \in {PK, CA}
             /\ Names(ns[i], TA) <=>
                   i \in DOMAIN offers \ PacesOf(offers) /\ offers[i].component \in {TA}
  <2>1. Stands(ns[i], offers[i]) BY <1>2
  <2> QED BY <2>1, <1>5 DEF Stands
<1>7. infos.chipAuth <=>
          \E i \in DOMAIN offers \ PacesOf(offers) : offers[i].component \in {PK, CA}
  BY <1>1, <1>5, <1>6
<1>8. infos.terminalAuth <=>
          \E i \in DOMAIN offers \ PacesOf(offers) : offers[i].component \in {TA}
  BY <1>1, <1>5, <1>6
<1> QED BY <1>3, <1>4, <1>7, <1>8 DEF SummedUp

\* A file in which nothing is announced and nothing was offered.
LEMMA NothingIsSummedUp ==
    ASSUME NEW offers, Len(offers) = 0, DOMAIN offers = {},
           NEW ns, NEW m \in Nat, \A i \in 1 .. m : ~Opens(ns[i]), NEW infos, Folded(ns, m, infos)
    PROVE  SummedUp(offers, infos)
<1>1. \A i \in 1 .. m : /\ ~Names(ns[i], PK) /\ ~Names(ns[i], CA) /\ ~Names(ns[i], TA)
                        /\ ~AnnouncesPace(ns[i])
  BY DEF Names, AnnouncesPace
<1>2. infos.pace = <<>> /\ infos.chipAuth = FALSE /\ infos.terminalAuth = FALSE /\ infos.entries = 0
  BY <1>1 DEF Folded, Best, IsBest
<1>3. PacesOf(offers) = {} /\ RunsOf(offers) = {} BY DEF PacesOf, RunsOf
<1> QED BY <1>2, <1>3 DEF SummedUp, ActedOf

(***************************************************************************)
(* A file of up to 255 offers, in every shape.                             *)
(***************************************************************************)
LEMMA FlatExists ==
    ASSUME NEW seqs, NEW m \in Nat
    PROVE  \E f : Flat(f, seqs, m)
<1> DEFINE A == {k \in Nat : \E f : Flat(f, seqs, k)}
<1>1. ASSUME NEW f, NEW g, NEW i, i # 1 => f[i - 1] = g[i - 1]
      PROVE  Into2(seqs, f, i) = Into2(seqs, g, i)
  BY <1>1 DEF Into2
<1>2. 0 \in A
  <2> DEFINE f == [i \in 1 .. 0 |-> 0]
  <2>1. \A i : i \notin 1 .. 0 OBVIOUS
  <2>2. f = [i \in 1 .. 0 |-> Into2(seqs, f, i)] BY <2>1
  <2> HIDE DEF f
  <2>3. Flat(f, seqs, 0) BY <2>2 DEF Flat
  <2> QED BY <2>3
<1>3. ASSUME NEW k \in A PROVE k + 1 \in A
  <2>1. PICK f : Flat(f, seqs, k) OBVIOUS
  <2>2. f = [i \in 1 .. k |-> f[i]] /\ \A i \in 1 .. k : f[i] = Into2(seqs, f, i)
    BY <2>1 DEF Flat
  <2> DEFINE g == [i \in 1 .. k + 1 |-> IF i = k + 1 THEN Into2(seqs, f, k + 1) ELSE f[i]]
  <2>3. g = [i \in 1 .. k + 1 |-> g[i]] /\ (\A i \in 1 .. k : g[i] = f[i])
        /\ g[k + 1] = Into2(seqs, f, k + 1)
    OBVIOUS
  <2> HIDE DEF g
  <2>4. ASSUME NEW i \in 1 .. k + 1 PROVE g[i] = Into2(seqs, g, i)
    <3>1. i # 1 => f[i - 1] = g[i - 1]
      <4>1. i # 1 => i - 1 \in 1 .. k OBVIOUS
      <4> QED BY <4>1, <2>3
    <3>3. Into2(seqs, f, i) = Into2(seqs, g, i) BY <3>1, <1>1
    <3>4. g[i] = Into2(seqs, f, i)
      <4>1. CASE i = k + 1 BY <4>1, <2>3
      <4>2. CASE i # k + 1
        <5>1. i \in 1 .. k BY <4>2
        <5> QED BY <5>1, <2>2, <2>3
      <4> QED BY <4>1, <4>2
    <3> QED BY <3>3, <3>4
  <2>5. g = [i \in 1 .. k + 1 |-> Into2(seqs, g, i)] BY <2>3, <2>4
  <2>6. Flat(g, seqs, k + 1) BY <2>5 DEF Flat
  <2> QED BY <2>6
<1>4. A \in SUBSET Nat OBVIOUS
<1>5. m \in A
  <2> HIDE DEF A
  <2>1. A = Nat BY <1>2, <1>3, <1>4, SetInduction
  <2> QED BY <2>1
<1> QED BY <1>5

LEMMA FlattenIs ==
    ASSUME NEW seqs, NEW m \in Nat, Len(seqs) = m, m # 0
    PROVE  \E f : Flat(f, seqs, m) /\ FlattenSeq(seqs) = f[m]
<1>1. PICK g : Flat(g, seqs, m) BY FlatExists
<1>2. PICK h : h = CHOOSE f : Flat(f, seqs, m) OBVIOUS
<1>3. Flat(h, seqs, m) BY <1>1, <1>2
<1>4. FlattenSeq(seqs) = h[m] BY <1>2 DEF Flat, Into2, FlattenSeq
<1> QED BY <1>3, <1>4

LEMMA InSequenceStep ==
    ASSUME NEW vals, NEW k \in Nat
    PROVE  InSequence(vals, k + 1) = InSequence(vals, k) \o <<Kid(SEQUENCE, vals[k + 1])>>
<1> DEFINE S == {Kid(SEQUENCE, vals[i]) : i \in 1 .. k + 1}
           a == InSequence(vals, k)
           c == InSequence(vals, k + 1)
           x == Kid(SEQUENCE, vals[k + 1])
<1>1. /\ a \in Seq(S) /\ Len(a) = k /\ c \in Seq(S) /\ Len(c) = k + 1
      /\ c[k + 1] = x /\ x \in S /\ \A i \in 1 .. k : c[i] = a[i]
  BY DEF InSequence
<1> HIDE DEF S, a, c, x
<1> DEFINE b == <<x>>
           d == a \o b
<1>2. b \in Seq(S) /\ Len(b) = 1 /\ b[1] = x BY <1>1
<1>3. d \in Seq(S) /\ Len(d) = k + 1 /\ d[k + 1] = x /\ \A i \in 1 .. k : d[i] = a[i]
  BY <1>1, <1>2
<1> HIDE DEF d
<1>4. \A i \in 1 .. k + 1 : c[i] = d[i]
  <2>1. \A i \in 1 .. k + 1 : i \in 1 .. k \/ i = k + 1 OBVIOUS
  <2> QED BY <2>1, <1>1, <1>3
<1>5. c = d BY <1>1, <1>3, <1>4, SeqEqual
<1> QED BY <1>5 DEF c, d, a, x

\* SEQUENCEs one behind the other are read as them, in their order.
LEMMA FlatReads ==
    ASSUME NEW seqs, NEW vals, NEW m \in Nat, Len(seqs) = m, seqs = [i \in 1 .. m |-> seqs[i]],
           NEW w \in Nat,
           \A i \in 1 .. m : Whole(seqs[i], <<Kid(SEQUENCE, vals[i])>>) /\ Len(seqs[i]) <= w
    PROVE  /\ Whole(FlattenSeq(seqs), InSequence(vals, m)) /\ Len(FlattenSeq(seqs)) <= w * m
           /\ m = 0 => FlattenSeq(seqs) = <<>>
<1>4. CASE m = 0
  <2>1. FlattenSeq(seqs) = seqs BY <1>4 DEF FlattenSeq
  <2>0. \A i : i \notin 1 .. m BY <1>4
  <2>2. seqs = <<>> BY <2>0
  <2>3. InSequence(vals, m) = <<>> BY <2>0 DEF InSequence
  <2>4. <<>> \in Seq(Byte) /\ Len(<<>>) = 0 OBVIOUS
  <2>5. Reads(<<>>, 0, <<>>) BY <2>4, ReadsNothing
  <2>6. Whole(<<>>, <<>>) BY <2>4, <2>5 DEF Whole
  <2>7. w * m = 0 BY <1>4
  <2> QED BY <2>1, <2>2, <2>3, <2>4, <2>6, <2>7
<1>5. CASE m # 0
  <2>1. PICK f : Flat(f, seqs, m) /\ FlattenSeq(seqs) = f[m] BY <1>5, FlattenIs
  <2>2. \A i \in 1 .. m : f[i] = Into2(seqs, f, i) BY <2>1 DEF Flat
  <2> DEFINE Good(k) == Whole(f[k], InSequence(vals, k)) /\ Len(f[k]) <= w * k
             A == {k \in Nat : k # 0 /\ k <= m => Good(k)}
  <2>3. 0 \in A OBVIOUS
  <2>4. ASSUME NEW k \in A PROVE k + 1 \in A
    <3> SUFFICES ASSUME k + 1 <= m PROVE Good(k + 1)
      OBVIOUS
    <3>1. k + 1 \in 1 .. m /\ (k + 1) - 1 = k /\ k \in Nat OBVIOUS
    <3> DEFINE s == seqs[k + 1]
               x == Kid(SEQUENCE, vals[k + 1])
    <3>2. Whole(s, <<x>>) /\ Len(s) <= w BY <3>1
    <3>3. InSequence(vals, k + 1) = InSequence(vals, k) \o <<x>> BY <3>1, InSequenceStep
    <3>5. CASE k = 0
      <4>1. f[k + 1] = s BY <3>1, <3>5, <2>2 DEF Into2
      <4>2. InSequence(vals, k + 1) = <<x>>
        <5>1. InSequence(vals, k) = <<>>
          <6>1. \A i : i \notin 1 .. k BY <3>5
          <6> QED BY <6>1 DEF InSequence
        <5> HIDE DEF x
        <5>2. <<>> \o <<x>> = <<x>> OBVIOUS
        <5> QED BY <5>1, <5>2, <3>3
      <4>3. w * (k + 1) = w BY <3>5
      <4> QED BY <4>1, <4>2, <4>3, <3>2
    <3>6. CASE k # 0
      <4>1. f[k + 1] = f[k] \o s
        <5>1. f[k + 1] = Into2(seqs, f, k + 1) BY <3>1, <2>2
        <5>2. PICK j \in Nat : j = k + 1 /\ j # 1 /\ j - 1 = k BY <3>6
        <5>3. Into2(seqs, f, j) = f[j - 1] \o seqs[j] BY <5>2 DEF Into2
        <5> QED BY <5>1, <5>2, <5>3
      <4>2. Whole(f[k], InSequence(vals, k)) /\ Len(f[k]) <= w * k BY <3>1, <3>6
      <4> HIDE DEF s, x
      <4>3. /\ Whole(f[k] \o s, InSequence(vals, k) \o <<x>>)
            /\ Len(f[k] \o s) = Len(f[k]) + Len(s)
        BY <4>2, <3>2, WholeBoth
      <4>5. PICK p, q \in Nat : p = Len(f[k]) /\ q = Len(s)
        BY <4>2, <3>2, LenProperties DEF Whole
      <4>6. p + q <= w * (k + 1)
        <5>1. w * (k + 1) = w * k + w BY <3>1
        <5>2. PICK wk \in Nat : wk = w * k BY <3>1
        <5>3. p <= wk /\ q <= w BY <4>2, <4>5, <5>2, <3>2
        <5> QED BY <5>1, <5>2, <5>3
      <4> QED BY <4>1, <4>3, <4>5, <4>6, <3>3
    <3> QED BY <3>5, <3>6
  <2>5. A \in SUBSET Nat OBVIOUS
  <2>6. m \in A
    <3> HIDE DEF A
    <3>1. A = Nat BY <2>3, <2>4, <2>5, SetInduction
    <3> QED BY <3>1
  <2>7. Good(m) BY <2>6, <1>5
  <2> QED BY <2>1, <2>7, <1>5
<1> QED BY <1>4, <1>5

\* What one offer is written as.
LEMMA EncodedReads ==
    ASSUME NEW o, PaceOffer(o) \/ OtherOffer(o)
    PROVE  Whole(Encoded(o), <<Kid(SEQUENCE, Inner(o))>>) /\ Len(Encoded(o)) <= 34
<1> DEFINE d == Inner(o)
<1>1. d \in Seq(Byte) /\ Len(d) <= 29 BY InnerReads DEF Whole
<1>2. Encoded(o) = Wrap(SEQUENCE, d) BY EncodedIs
<1> HIDE DEF d
<1>3. PICK k \in Nat : k = 29 /\ k < Huge BY DEF Huge
<1>4. Simple(SEQUENCE) BY TagsAre
<1>5. Len(d) <= k BY <1>1, <1>3
<1>6. Whole(Wrap(SEQUENCE, d), <<Kid(SEQUENCE, d)>>) /\ Len(Wrap(SEQUENCE, d)) <= k + 5
  BY <1>1, <1>3, <1>4, <1>5, WholeWrap
<1>7. k + 5 = 34 BY <1>3
<1> QED BY <1>2, <1>6, <1>7 DEF d

LEMMA EntriesRead ==
    ASSUME NEW offers, NEW m \in Nat, AllOffers(offers, m)
    PROVE  /\ Whole(EntriesOf(offers), Written(offers, m)) /\ Len(EntriesOf(offers)) <= 34 * m
           /\ m = 0 => EntriesOf(offers) = <<>>
<1> DEFINE seqs == [i \in DOMAIN offers |-> Encoded(offers[i])]
           vals == [i \in 1 .. m |-> Inner(offers[i])]
<1>1. seqs = [i \in 1 .. m |-> Encoded(offers[i])] BY DEF AllOffers
<1>2. EntriesOf(offers) = FlattenSeq(seqs) BY DEF EntriesOf
<1>3. ASSUME NEW i \in 1 .. m
      PROVE  Whole(seqs[i], <<Kid(SEQUENCE, vals[i])>>) /\ Len(seqs[i]) <= 34
  <2> DEFINE o == offers[i]
  <2>1. PaceOffer(o) \/ OtherOffer(o) BY DEF AllOffers
  <2>2. seqs[i] = Encoded(o) /\ vals[i] = Inner(o) BY <1>1
  <2> HIDE DEF o, seqs, vals
  <2>3. Whole(Encoded(o), <<Kid(SEQUENCE, Inner(o))>>) /\ Len(Encoded(o)) <= 34
    BY <2>1, EncodedReads
  <2> QED BY <2>2, <2>3
<1>4. Len(seqs) = m /\ seqs = [i \in 1 .. m |-> seqs[i]] BY <1>1
<1>5. InSequence(vals, m) = Written(offers, m) BY DEF InSequence, Written
<1> HIDE DEF seqs, vals
<1>6. PICK w \in Nat : w = 34 OBVIOUS
<1>7. \A i \in 1 .. m : Whole(seqs[i], <<Kid(SEQUENCE, vals[i])>>) /\ Len(seqs[i]) <= w
  BY <1>3, <1>6
<1>8. /\ Whole(FlattenSeq(seqs), InSequence(vals, m)) /\ Len(FlattenSeq(seqs)) <= w * m
      /\ m = 0 => FlattenSeq(seqs) = <<>>
  BY <1>4, <1>7, FlatReads
<1> QED BY <1>2, <1>5, <1>6, <1>8

LEMMA EntriesStand ==
    ASSUME NEW offers, NEW m \in Nat, AllOffers(offers, m),
           NEW data \in Seq(Byte), Len(data) < Huge, NEW k, Reads(data, k, Written(offers, m))
    PROVE  /\ StandFor(Nodes(data), m, offers)
           /\ Len(Nodes(data)) = m /\ (Nodes(data) = <<>> <=> m = 0)
           /\ \A i \in 1 .. m : IsOf(Nodes(data)[i], SEQUENCE, Inner(offers[i]))
<1> DEFINE cs == Written(offers, m)
           ns == Nodes(data)
<1>1. Len(cs) = m /\ \A i \in 1 .. m : cs[i] = Kid(SEQUENCE, Inner(offers[i]))
  BY DEF Written
<1> HIDE DEF cs
<1>2. PICK n \in Nat : Len(cs) = n /\ AreOf(ns, n, cs) BY ReadsAre DEF cs
<1>3. n = m BY <1>1, <1>2
<1> HIDE DEF ns
<1>4. \A t, v : Kid(t, v).tag = t /\ Kid(t, v).value = v BY DEF Kid
<1>5. \A i \in 1 .. m : IsOf(ns[i], SEQUENCE, Inner(offers[i]))
  BY <1>1, <1>2, <1>3, <1>4 DEF AreOf
<1>6. ASSUME NEW i \in 1 .. m PROVE Stands(ns[i], offers[i])
  <2> DEFINE o == offers[i]
             x == ns[i]
  <2>1. PaceOffer(o) \/ OtherOffer(o) BY DEF AllOffers
  <2>2. IsOf(x, SEQUENCE, Inner(o)) BY <1>5
  <2> HIDE DEF o, x
  <2>3. Means(x, o) BY <2>1, <2>2, NodeMeans
  <2>4. Stands(x, o) BY <2>1, <2>3, OfferStands
  <2> QED BY <2>4 DEF o, x
<1>7. StandFor(ns, m, offers) BY <1>6 DEF StandFor, AllOffers
<1>8. Len(ns) = m /\ (ns = <<>> <=> m = 0) BY <1>2, <1>3 DEF AreOf
<1> QED BY <1>5, <1>7, <1>8 DEF ns

LEMMA CiphersAre ==
    ASSUME NEW offers, NEW m \in Nat, AllOffers(offers, m)
    PROVE  \A i \in RunsOf(offers) : offers[i].cipher \in Nat
<1> SUFFICES ASSUME NEW i \in RunsOf(offers) PROVE offers[i].cipher \in Nat
  OBVIOUS
<1>1. i \in 1 .. m /\ IsPace(offers[i]) BY DEF RunsOf, PacesOf, AllOffers
<1>2. PaceOffer(offers[i]) BY <1>1 DEF AllOffers, OtherOffer
<1> QED BY <1>2, ByteIs DEF PaceOffer

\* Of a file whose siblings are the offers.
LEMMA BodyIsSummedUp ==
    ASSUME NEW offers, NEW m \in Nat, m <= 255, AllOffers(offers, m),
           NEW file \in Seq(Byte), Len(file) < Huge, Body(file) # None,
           NEW k, Reads(Body(file).bytes, k, Written(offers, m))
    PROVE  BestOfOffers(offers, file)
<1> DEFINE data == Body(file).bytes
           ns == Nodes(data)
<1>1. data \in Seq(Byte) /\ Len(data) < Huge BY BodyIs
<1> HIDE DEF data
<1>2. StandFor(ns, m, offers) /\ Len(ns) = m BY <1>1, EntriesStand DEF data
<1>3. Siblings(file) = ns BY DEF Siblings, data
<1> HIDE DEF ns
<1>4. PICK n \in Nat : Len(ns) = n /\ Folded(ns, n, SecurityInfos(file))
  BY <1>3, SummaryIs
<1>5. Folded(ns, m, SecurityInfos(file)) BY <1>2, <1>4
<1>6. SummedUp(offers, SecurityInfos(file)) BY <1>2, <1>5, CiphersAre, FoldIsSummedUp
<1> QED BY <1>6, BestOfOffersIs

\* Of a file in which no SecurityInfo is found.
LEMMA NothingFound ==
    ASSUME NEW offers, AllOffers(offers, 0), NEW file \in Seq(Byte), Len(file) < Huge,
           \A i \in DOMAIN Siblings(file) : ~Opens(Siblings(file)[i])
    PROVE  BestOfOffers(offers, file)
<1> DEFINE ns == Siblings(file)
<1>1. PICK n \in Nat : DOMAIN ns = 1 .. n /\ Folded(ns, n, SecurityInfos(file))
  BY SummaryIs
<1> HIDE DEF ns
<1>2. Len(offers) = 0 /\ DOMAIN offers = {}
  <2>1. \A i : i \notin 1 .. 0 OBVIOUS
  <2> QED BY <2>1 DEF AllOffers
<1>3. \A i \in 1 .. n : ~Opens(ns[i]) BY <1>1 DEF ns
<1>4. SummedUp(offers, SecurityInfos(file)) BY <1>1, <1>2, <1>3, NothingIsSummedUp
<1> QED BY <1>4, BestOfOffersIs

\* The first node of a buffer.
LEMMA FirstReads ==
    ASSUME NEW data \in Seq(Byte), Len(data) < Huge, NEW t, NEW v, NEW k,
           Reads(data, k, <<Kid(t, v)>>)
    PROVE  /\ IsOf(First(data), t, v) /\ Len(Nodes(data)) = 1 /\ DOMAIN Nodes(data) = 1 .. 1
           /\ IsOf(Nodes(data)[1], t, v)
<1> DEFINE cs == <<Kid(t, v)>>
           ns == Nodes(data)
<1>1. Len(cs) = 1 /\ cs[1] = Kid(t, v) OBVIOUS
<1> HIDE DEF cs
<1>2. PICK n \in Nat : Len(cs) = n /\ AreOf(ns, n, cs) BY ReadsAre DEF cs
<1>3. n = 1 BY <1>1, <1>2
<1>4. First(data) = IF ns = <<>> THEN None ELSE ns[1] BY FirstIs
<1> HIDE DEF ns
<1>5. Kid(t, v).tag = t /\ Kid(t, v).value = v BY DEF Kid
<1>6. 1 \in 1 .. n /\ ns # <<>> /\ Len(ns) = 1 /\ DOMAIN ns = 1 .. 1
  BY <1>2, <1>3 DEF AreOf
<1>7. IsOf(ns[1], t, v) BY <1>1, <1>2, <1>5, <1>6 DEF AreOf
<1>8. IsOf(First(data), t, v) BY <1>4, <1>6, <1>7
<1> QED BY <1>6, <1>7, <1>8 DEF ns

LEMMA BodyCases ==
    ASSUME NEW file
    PROVE  /\ First(file) = None => Body(file) = None
           /\ \A v : IsOf(First(file), SET, v) =>
                 Body(file) # None /\ Body(file).bytes = v
           /\ \A w, v : IsOf(First(file), DG14, w) /\ IsOf(First(w), SET, v) =>
                 Body(file) # None /\ Body(file).bytes = v
           /\ \A v : IsOf(First(file), SEQUENCE, v) =>
                 /\ Body(file) # None
                 /\ Body(file).bytes = IF First(v) # None /\ First(v).tag # OID THEN v ELSE file
<1> DEFINE outer == First(file)
           inner == IF outer.tag = DG14 THEN outer.value ELSE file
           root == First(inner)
           first == First(root.value)
           R(b) == [total |-> 1, bytes |-> b]
<1>1. Body(file) = IF outer = None THEN None
                   ELSE IF root = None THEN None
                   ELSE IF root.tag = SET THEN R(root.value)
                   ELSE IF root.tag # SEQUENCE THEN None
                   ELSE R(IF first # None /\ first.tag # OID THEN root.value ELSE inner)
  BY DEF Body
<1>2. \A b : R(b) # None /\ R(b).bytes = b
  <2>1. \A b : R(b).total = 1 /\ R(b).bytes = b OBVIOUS
  <2>2. None.total = 0 BY DEF None
  <2> HIDE DEF R
  <2> QED BY <2>1, <2>2
<1> HIDE DEF R
<1>3. SET # SEQUENCE /\ SET # DG14 /\ SEQUENCE # DG14 BY TagsAre
<1>4. outer = None => Body(file) = None BY <1>1
<1>5. ASSUME NEW v, IsOf(outer, SET, v) PROVE Body(file) # None /\ Body(file).bytes = v
  <2>1. outer # None /\ outer.tag = SET /\ outer.value = v BY <1>5 DEF IsOf
  <2>2. inner = file BY <2>1, <1>3
  <2>3. root = outer BY <2>2
  <2> HIDE DEF root, first, inner, outer
  <2>4. Body(file) = R(v) BY <1>1, <2>1, <2>3
  <2> QED BY <2>4, <1>2
<1>6. ASSUME NEW w, NEW v, IsOf(outer, DG14, w), IsOf(First(w), SET, v)
      PROVE  Body(file) # None /\ Body(file).bytes = v
  <2>1. outer # None /\ outer.tag = DG14 /\ outer.value = w BY <1>6 DEF IsOf
  <2>2. inner = w BY <2>1
  <2>3. root = First(w) BY <2>2
  <2>4. root # None /\ root.tag = SET /\ root.value = v BY <2>3, <1>6 DEF IsOf
  <2> HIDE DEF root, first, inner, outer
  <2>5. Body(file) = R(v) BY <1>1, <2>1, <2>4
  <2> QED BY <2>5, <1>2
<1>7. ASSUME NEW v, IsOf(outer, SEQUENCE, v)
      PROVE  /\ Body(file) # None
             /\ Body(file).bytes = IF First(v) # None /\ First(v).tag # OID THEN v ELSE file
  <2>1. outer # None /\ outer.tag = SEQUENCE /\ outer.value = v BY <1>7 DEF IsOf
  <2>2. inner = file BY <2>1, <1>3
  <2>3. root = outer BY <2>2
  <2>4. first = First(v) BY <2>1, <2>3
  <2> DEFINE x == IF First(v) # None /\ First(v).tag # OID THEN v ELSE file
  <2>5. x = IF first # None /\ first.tag # OID THEN root.value ELSE inner
    BY <2>1, <2>2, <2>3, <2>4
  <2> HIDE DEF root, first, inner, outer, x
  <2>6. Body(file) = R(x) BY <1>1, <1>3, <2>1, <2>3, <2>5
  <2>7. Body(file) # None /\ Body(file).bytes = x BY <2>6, <1>2
  <2> QED BY <2>7 DEF x
<1> HIDE DEF outer
<1> QED BY <1>4, <1>5, <1>6, <1>7 DEF outer

\* The entries of up to 255 offers are bytes that are read as them, and few.
LEMMA EntriesAreFew ==
    ASSUME NEW offers, NEW m \in Nat, m <= 255, AllOffers(offers, m)
    PROVE  \E e \in Nat : /\ e = Len(EntriesOf(offers)) /\ e <= 8670
                          /\ EntriesOf(offers) \in Seq(Byte)
                          /\ Reads(EntriesOf(offers), e, Written(offers, m))
                          /\ m = 0 => EntriesOf(offers) = <<>>
<1> DEFINE x == EntriesOf(offers)
<1>1. Whole(x, Written(offers, m)) /\ Len(x) <= 34 * m /\ (m = 0 => x = <<>>)
  BY EntriesRead
<1> HIDE DEF x
<1>2. PICK e \in Nat : e = Len(x) BY <1>1, LenProperties DEF Whole
<1>3. e <= 8670 BY <1>1, <1>2
<1> QED BY <1>1, <1>2, <1>3 DEF Whole, x

\* What is read in a buffer is a sequence.
LEMMA ReadsIsSeq ==
    ASSUME NEW data, NEW k, NEW cs, Reads(data, k, cs)
    PROVE  cs \o <<>> = cs
<1>1. PICK n \in Nat : \E ns : cs = [i \in 1 .. n |-> [tag |-> ns[i].tag, value |-> ns[i].value]]
  BY DEF Reads
<1>2. PICK ns : cs = [i \in 1 .. n |-> [tag |-> ns[i].tag, value |-> ns[i].value]] BY <1>1
<1> DEFINE S == {[tag |-> ns[i].tag, value |-> ns[i].value] : i \in 1 .. n}
<1>3. cs \in Seq(S) BY <1>2
<1> HIDE DEF S
<1> QED BY <1>3, ConcatEmptySeq

\* Filler behind what is read is not read.
LEMMA FillerBehind ==
    ASSUME NEW a \in Seq(Byte), NEW cs, Reads(a, Len(a), cs),
           NEW z \in Seq(Byte), z[1] = 0
    PROVE  \E k : Reads(a \o z, k, cs)
<1>1. Reads(z, 0, <<>>) BY ReadsNothing
<1>2. Reads(a \o z, Len(a) + 0, cs \o <<>>) BY <1>1, ReadsBoth
<1>3. cs \o <<>> = cs BY ReadsIsSeq
<1>4. Reads(a \o z, Len(a) + 0, cs) BY <1>2, <1>3
<1> QED BY <1>4

LEMMA ShapedIs ==
    ASSUME NEW offers
    PROVE  LET e == EntriesOf(offers)
           IN /\ Shaped("set", offers) = Wrap(SET, e)
              /\ Shaped("padded", offers) = Wrap(SET, e \o <<0, 0>>) \o <<0>>
              /\ Shaped("dg14", offers) = Wrap(DG14, Wrap(SET, e))
              /\ Shaped("sequence", offers) = Wrap(SEQUENCE, e)
              /\ Shaped("bare", offers) = e
  BY DEF Shaped

\* A SET of what is read as the offers.
LEMMA SetOf ==
    ASSUME NEW offers, NEW m \in Nat, m <= 255, AllOffers(offers, m),
           NEW e \in Seq(Byte), NEW n \in Nat, Len(e) = n, n <= 8700,
           NEW k, Reads(e, k, Written(offers, m)),
           NEW file \in Seq(Byte), Len(file) < Huge, IsOf(First(file), SET, e)
    PROVE  BestOfOffers(offers, file)
<1>1. Body(file) # None /\ Body(file).bytes = e BY BodyCases
<1> QED BY <1>1, BodyIsSummedUp

LEMMA SetShape ==
    ASSUME NEW offers, NEW m \in Nat, m <= 255, AllOffers(offers, m)
    PROVE  BestOfOffers(offers, Shaped("set", offers))
<1> DEFINE e == EntriesOf(offers)
           file == Wrap(SET, e)
<1>1. PICK n \in Nat : n = Len(e) /\ n <= 8670 /\ e \in Seq(Byte) /\ Reads(e, n, Written(offers, m))
  BY EntriesAreFew
<1>2. Shaped("set", offers) = file BY ShapedIs
<1> HIDE DEF e
<1>3. PICK k \in Nat : k = 8670 /\ k < Huge /\ k + 5 < Huge BY DEF Huge
<1>4. Simple(SET) BY TagsAre
<1>5. Len(e) <= k BY <1>1, <1>3
<1>6. Whole(file, <<Kid(SET, e)>>) /\ Len(file) <= k + 5
  BY <1>1, <1>3, <1>4, <1>5, WholeWrap
<1> HIDE DEF file
<1>7. PICK l \in Nat : l = Len(file) BY <1>6, LenProperties DEF Whole
<1>8. Len(file) < Huge BY <1>3, <1>6, <1>7 DEF Huge
<1>9. file \in Seq(Byte) /\ Reads(file, l, <<Kid(SET, e)>>) BY <1>6, <1>7 DEF Whole
<1>10. IsOf(First(file), SET, e) BY <1>8, <1>9, FirstReads
<1>11. n <= 8700 BY <1>1
<1>12. BestOfOffers(offers, file) BY <1>1, <1>8, <1>9, <1>10, <1>11, SetOf
<1> QED BY <1>2, <1>12

LEMMA PaddedShape ==
    ASSUME NEW offers, NEW m \in Nat, m <= 255, AllOffers(offers, m)
    PROVE  BestOfOffers(offers, Shaped("padded", offers))
<1> DEFINE e0 == EntriesOf(offers)
           z == <<0, 0>>
           y == <<0>>
           e == e0 \o z
           w == Wrap(SET, e)
           file == w \o y
<1>1. PICK n0 \in Nat : /\ n0 = Len(e0) /\ n0 <= 8670 /\ e0 \in Seq(Byte)
                        /\ Reads(e0, n0, Written(offers, m))
  BY EntriesAreFew
<1>2. Shaped("padded", offers) = file BY ShapedIs
<1>z. z \in Seq(Byte) /\ Len(z) = 2 /\ z[1] = 0 /\ y \in Seq(Byte) /\ Len(y) = 1 /\ y[1] = 0
  <2>1. 0 \in Byte BY ByteIs
  <2> QED BY <2>1
<1> HIDE DEF e0, z, y
<1>e. e \in Seq(Byte) /\ Len(e) = Len(e0) + Len(z)
  <2>1. e0 \in Seq(Byte) /\ z \in Seq(Byte) BY <1>1, <1>z
  <2> QED BY <2>1, TwoParts
<1>r. PICK r : Reads(e, r, Written(offers, m))
  BY <1>1, <1>z, FillerBehind
<1> HIDE DEF e
<1>n. PICK n \in Nat : n = Len(e) /\ n <= 8672
  BY <1>1, <1>z, <1>e
<1>3. PICK k \in Nat : k = 8672 /\ k < Huge /\ k + 6 < Huge BY DEF Huge
<1>4. Simple(SET) BY TagsAre
<1>5. Len(e) <= k BY <1>n, <1>3
<1>6. Whole(w, <<Kid(SET, e)>>) /\ Len(w) <= k + 5 BY <1>e, <1>3, <1>4, <1>5, WholeWrap
<1> HIDE DEF w
<1>7. PICK l \in Nat : l = Len(w) BY <1>6, LenProperties DEF Whole
<1>w. w \in Seq(Byte) /\ Reads(w, Len(w), <<Kid(SET, e)>>)
  BY <1>6 DEF Whole
<1>f. file \in Seq(Byte) /\ Len(file) = Len(w) + Len(y)
  BY <1>w, <1>z, TwoParts
<1>g. PICK g : Reads(file, g, <<Kid(SET, e)>>)
  BY <1>w, <1>z, FillerBehind
<1> HIDE DEF file
<1>8. Len(file) < Huge
  <2>1. Len(file) = l + 1 /\ l <= k + 5 BY <1>6, <1>7, <1>f, <1>z
  <2> QED BY <2>1, <1>3 DEF Huge
<1>10. IsOf(First(file), SET, e) BY <1>8, <1>f, <1>g, FirstReads
<1>11. n <= 8700 BY <1>n
<1>12. BestOfOffers(offers, file)
  <2>1. e \in Seq(Byte) /\ Len(e) = n /\ file \in Seq(Byte) BY <1>e, <1>n, <1>f
  <2> QED BY <2>1, <1>r, <1>8, <1>10, <1>11, SetOf
<1> QED BY <1>2, <1>12

LEMMA Dg14Shape ==
    ASSUME NEW offers, NEW m \in Nat, m <= 255, AllOffers(offers, m)
    PROVE  BestOfOffers(offers, Shaped("dg14", offers))
<1> DEFINE e == EntriesOf(offers)
           w == Wrap(SET, e)
           file == Wrap(DG14, w)
<1>1. PICK n \in Nat : n = Len(e) /\ n <= 8670 /\ e \in Seq(Byte) /\ Reads(e, n, Written(offers, m))
  BY EntriesAreFew
<1>2. Shaped("dg14", offers) = file BY ShapedIs
<1> HIDE DEF e
<1>3. PICK k, j \in Nat : /\ k = 8670 /\ k < Huge /\ k + 5 < Huge /\ j = 8675 /\ j = k + 5
                          /\ j < Huge /\ j + 5 < Huge
  BY DEF Huge
<1>4. Simple(SET) /\ Simple(DG14) BY TagsAre
<1>5. Len(e) <= k BY <1>1, <1>3
<1>6. Whole(w, <<Kid(SET, e)>>) /\ Len(w) <= k + 5 BY <1>1, <1>3, <1>4, <1>5, WholeWrap
<1> HIDE DEF w
<1>w. w \in Seq(Byte) /\ Reads(w, Len(w), <<Kid(SET, e)>>) /\ Len(w) <= j
  BY <1>3, <1>6 DEF Whole
<1>7. Whole(file, <<Kid(DG14, w)>>) /\ Len(file) <= j + 5 BY <1>w, <1>3, <1>4, WholeWrap
<1> HIDE DEF file
<1>8. PICK l, q \in Nat : l = Len(file) /\ q = Len(w)
  BY <1>w, <1>7, LenProperties DEF Whole
<1>9. Len(file) < Huge /\ Len(w) < Huge
  <2>1. l <= j + 5 /\ q <= j BY <1>7, <1>8, <1>w
  <2>2. l < Huge /\ q < Huge BY <2>1, <1>3 DEF Huge
  <2> QED BY <2>2, <1>8
<1>10. IsOf(First(w), SET, e) BY <1>w, <1>9, FirstReads
<1>11. file \in Seq(Byte) /\ Reads(file, Len(file), <<Kid(DG14, w)>>) BY <1>7 DEF Whole
<1>12. IsOf(First(file), DG14, w) BY <1>9, <1>11, FirstReads
<1>13. Body(file) # None /\ Body(file).bytes = e BY <1>10, <1>12, BodyCases
<1>14. BestOfOffers(offers, file) BY <1>1, <1>9, <1>11, <1>13, BodyIsSummedUp
<1> QED BY <1>2, <1>14

LEMMA SequenceShape ==
    ASSUME NEW offers, NEW m \in Nat, m <= 255, AllOffers(offers, m)
    PROVE  BestOfOffers(offers, Shaped("sequence", offers))
<1> DEFINE e == EntriesOf(offers)
           file == Wrap(SEQUENCE, e)
<1>1. PICK n \in Nat : /\ n = Len(e) /\ n <= 8670 /\ e \in Seq(Byte)
                       /\ Reads(e, n, Written(offers, m)) /\ (m = 0 => e = <<>>)
  BY EntriesAreFew
<1>2. Shaped("sequence", offers) = file BY ShapedIs
<1> HIDE DEF e
<1>3. PICK k \in Nat : k = 8670 /\ k < Huge /\ k + 5 < Huge BY DEF Huge
<1>4. Simple(SEQUENCE) BY TagsAre
<1>5. Len(e) <= k BY <1>1, <1>3
<1>6. Whole(file, <<Kid(SEQUENCE, e)>>) /\ Len(file) <= k + 5
  BY <1>1, <1>3, <1>4, <1>5, WholeWrap
<1> HIDE DEF file
<1>7. PICK l \in Nat : l = Len(file) BY <1>6, LenProperties DEF Whole
<1>8. Len(file) < Huge /\ Len(e) < Huge BY <1>1, <1>3, <1>6, <1>7 DEF Huge
<1>9. file \in Seq(Byte) /\ Reads(file, l, <<Kid(SEQUENCE, e)>>) BY <1>6, <1>7 DEF Whole
<1>10. /\ IsOf(First(file), SEQUENCE, e) /\ DOMAIN Nodes(file) = 1 .. 1
       /\ IsOf(Nodes(file)[1], SEQUENCE, e)
  BY <1>8, <1>9, FirstReads
<1>11. /\ Body(file) # None
       /\ Body(file).bytes = IF First(e) # None /\ First(e).tag # OID THEN e ELSE file
  BY <1>10, BodyCases
<1>12. /\ Nodes(e) = <<>> <=> m = 0
       /\ \A i \in 1 .. m : IsOf(Nodes(e)[i], SEQUENCE, Inner(offers[i]))
  BY <1>1, <1>8, EntriesStand
<1>13. First(e) = IF Nodes(e) = <<>> THEN None ELSE Nodes(e)[1] BY <1>1, <1>8, FirstIs
<1>14. CASE m # 0
  <2>1. 1 \in 1 .. m BY <1>14
  <2>2. First(e) = Nodes(e)[1] /\ IsOf(Nodes(e)[1], SEQUENCE, Inner(offers[1]))
    BY <2>1, <1>12, <1>13, <1>14
  <2>3. First(e) # None /\ First(e).tag = SEQUENCE BY <2>2 DEF IsOf
  <2>4. First(e).tag # OID BY <2>3, TagsAre
  <2>5. Body(file).bytes = e BY <2>3, <2>4, <1>11
  <2>6. BestOfOffers(offers, file)
    <3>1. Reads(Body(file).bytes, n, Written(offers, m)) BY <2>5, <1>1
    <3> QED BY <3>1, <1>8, <1>9, <1>11, BodyIsSummedUp
  <2> QED BY <2>6, <1>2
<1>15. CASE m = 0
  <2>1. First(e) = None /\ e = <<>> BY <1>1, <1>12, <1>13, <1>15
  <2>2. Body(file).bytes = file BY <2>1, <1>11
  <2>3. Siblings(file) = Nodes(file) BY <2>2, <1>11 DEF Siblings
  <2>4. ~Opens(Nodes(file)[1])
    <3> DEFINE x == Nodes(file)[1]
    <3>1. x.value = <<>> BY <1>10, <2>1 DEF IsOf
    <3> HIDE DEF x
    <3>2. Nodes(<<>>) = <<>> BY <1>12, <1>15, <2>1
    <3>3. Children(x) = <<>> BY <3>1, <3>2 DEF Children
    <3>4. ~Opens(x) BY <3>3 DEF Opens
    <3> QED BY <3>4 DEF x
  <2>5. \A i \in DOMAIN Siblings(file) : ~Opens(Siblings(file)[i])
    <3>1. \A i \in 1 .. 1 : i = 1 OBVIOUS
    <3> QED BY <3>1, <2>3, <2>4, <1>10
  <2>6. AllOffers(offers, 0) BY <1>15
  <2>7. BestOfOffers(offers, file) BY <2>5, <2>6, <1>8, <1>9, NothingFound
  <2> QED BY <2>7, <1>2
<1> QED BY <1>14, <1>15

LEMMA BareShape ==
    ASSUME NEW offers, NEW m \in Nat, m <= 255, AllOffers(offers, m)
    PROVE  BestOfOffers(offers, Shaped("bare", offers))
<1> DEFINE e == EntriesOf(offers)
<1>1. PICK n \in Nat : /\ n = Len(e) /\ n <= 8670 /\ e \in Seq(Byte)
                       /\ Reads(e, n, Written(offers, m)) /\ (m = 0 => e = <<>>)
  BY EntriesAreFew
<1>2. Shaped("bare", offers) = e BY ShapedIs
<1> HIDE DEF e
<1>3. Len(e) < Huge BY <1>1 DEF Huge
<1>4. /\ Nodes(e) = <<>> <=> m = 0
      /\ \A i \in 1 .. m : IsOf(Nodes(e)[i], SEQUENCE, Inner(offers[i]))
  BY <1>1, <1>3, EntriesStand
<1>5. First(e) = IF Nodes(e) = <<>> THEN None ELSE Nodes(e)[1] BY <1>1, <1>3, FirstIs
<1>6. CASE m # 0
  <2> DEFINE o == offers[1]
             d == Inner(o)
  <2>1. 1 \in 1 .. m BY <1>6
  <2>2. IsOf(First(e), SEQUENCE, d) BY <2>1, <1>4, <1>5, <1>6
  <2>3. PaceOffer(o) \/ OtherOffer(o) BY <2>1 DEF AllOffers
  <2> HIDE DEF o
  <2>4. Whole(d, Kids(o)) /\ Len(d) <= 29 BY <2>3, InnerReads
  <2>5. Kids(o)[1] = Kid(OID, IdentifierOf(o)) /\ Len(Kids(o)) # 0 BY KidsAre
  <2> HIDE DEF d
  <2>6. PICK r \in Nat : r = Len(d) BY <2>4, LenProperties DEF Whole
  <2>7. d \in Seq(Byte) /\ Reads(d, r, Kids(o)) /\ Len(d) < Huge
    BY <2>4, <2>6 DEF Whole, Huge
  <2>8. PICK j \in Nat : Len(Kids(o)) = j /\ AreOf(Nodes(d), j, Kids(o)) BY <2>7, ReadsAre
  <2>9. j # 0 /\ 1 \in 1 .. j BY <2>5, <2>8
  <2>10. Nodes(d) # <<>> /\ IsOf(Nodes(d)[1], Kids(o)[1].tag, Kids(o)[1].value)
    BY <2>8, <2>9 DEF AreOf
  <2>11. First(d) = Nodes(d)[1] BY <2>7, <2>10, FirstIs
  <2>12. Kids(o)[1].tag = OID BY <2>5 DEF Kid
  <2>13. First(d).tag = OID BY <2>10, <2>11, <2>12 DEF IsOf
  <2>14. Body(e) # None /\ Body(e).bytes = e BY <2>2, <2>13, BodyCases
  <2>15. BestOfOffers(offers, e)
    <3>1. Reads(Body(e).bytes, n, Written(offers, m)) /\ e \in Seq(Byte) BY <2>14, <1>1
    <3> QED BY <3>1, <2>14, <1>3, BodyIsSummedUp
  <2> QED BY <2>15, <1>2
<1>7. CASE m = 0
  <2>1. First(e) = None BY <1>4, <1>5, <1>7
  <2>2. Siblings(e) = <<>> BY <2>1, BodyCases DEF Siblings
  <2>3. \A i \in DOMAIN Siblings(e) : ~Opens(Siblings(e)[i])
    <3>1. DOMAIN <<>> = {} OBVIOUS
    <3> QED BY <2>2, <3>1
  <2>4. AllOffers(offers, 0) BY <1>7
  <2>5. BestOfOffers(offers, e) BY <2>3, <2>4, <1>1, <1>3, NothingFound
  <2> QED BY <2>5, <1>2
<1> QED BY <1>6, <1>7

\* Of up to 255 offers, whatever they announce and however the file wraps them, the
\* reader makes what BestOfOffers says.
THEOREM BestOfAnyOffers ==
    ASSUME NEW offers, NEW m \in Nat, m <= 255, AllOffers(offers, m), NEW shape \in Shapes
    PROVE  BestOfOffers(offers, Shaped(shape, offers))
<1>1. shape \in {"set", "padded", "dg14", "sequence", "bare"} BY DEF Shapes
<1> QED BY <1>1, SetShape, PaddedShape, Dg14Shape, SequenceShape, BareShape

(***************************************************************************)
(* The files of the run.                                                   *)
(***************************************************************************)
LEMMA OffersOfTheRun == \A o \in Offers : PaceOffer(o) \/ OtherOffer(o)
<1> SUFFICES ASSUME NEW o \in Offers PROVE PaceOffer(o) \/ OtherOffer(o)
  OBVIOUS
<1>b. \A x \in 0 .. 7 : x \in Byte
  BY ByteIs
<1>1. CASE o \in [mapping : {1, 2, 4, 6, 7}, cipher : {0, 1, 2, 4}, parameter : {8, 13, 14, 269}]
  <2>1. IsPace(o) BY <1>1 DEF IsPace
  <2>2. o.mapping \in 0 .. 7 /\ o.cipher \in 0 .. 7 BY <1>1
  <2>3. o.parameter \in Nat /\ o.parameter \div 256 < 256
    <3>1. o.parameter \in {8, 13, 14, 269} BY <1>1
    <3> QED BY <3>1
  <2> QED BY <2>1, <2>2, <2>3, <1>b DEF PaceOffer
<1>2. CASE o = [mapping |-> 2, cipher |-> 3, parameter |-> -1]
  <2>1. IsPace(o) BY <1>2 DEF IsPace
  <2>2. o.mapping \in 0 .. 7 /\ o.cipher \in 0 .. 7 /\ o.parameter = -1 BY <1>2
  <2> QED BY <2>1, <2>2, <1>b DEF PaceOffer
<1>3. ASSUME NEW c \in 0 .. 7, o = [component |-> c] PROVE OtherOffer(o)
  <2>1. ~IsPace(o) BY <1>3 DEF IsPace
  <2> QED BY <2>1, <1>3, <1>b DEF OtherOffer
<1>4. \/ o \in [mapping : {1, 2, 4, 6, 7}, cipher : {0, 1, 2, 4}, parameter : {8, 13, 14, 269}]
      \/ o = [mapping |-> 2, cipher |-> 3, parameter |-> -1]
      \/ \E c \in 0 .. 7 : o = [component |-> c]
  BY DEF Offers
<1> QED BY <1>1, <1>2, <1>3, <1>4

LEMMA InfosPicked ==
    PickInfos => \E offers, file :
                    /\ sample' = [kind |-> "infos", offers |-> offers, file |-> file]
                    /\ InfosOf(offers, file)
<1> SUFFICES ASSUME PickInfos
             PROVE \E offers, file :
                      /\ sample' = [kind |-> "infos", offers |-> offers, file |-> file]
                      /\ InfosOf(offers, file)
  OBVIOUS
<1>1. PICK shape \in Shapes, n \in 0 .. 2 :
         \E offers \in [1 .. n -> Offers] :
            sample' = [kind |-> "infos", offers |-> offers, file |-> Shaped(shape, offers)]
  BY DEF PickInfos
<1>2. PICK offers \in [1 .. n -> Offers] :
         sample' = [kind |-> "infos", offers |-> offers, file |-> Shaped(shape, offers)]
  BY <1>1
<1>3. AllOffers(offers, n)
  <2>1. Len(offers) = n /\ DOMAIN offers = 1 .. n /\ \A i \in 1 .. n : offers[i] \in Offers
    OBVIOUS
  <2> QED BY <2>1, OffersOfTheRun DEF AllOffers
<1>4. n \in Nat /\ n <= 255 OBVIOUS
<1>5. InfosOf(offers, Shaped(shape, offers)) BY <1>3, <1>4 DEF InfosOf
<1> QED BY <1>2, <1>5

LEMMA InfosBest ==
    ASSUME NEW offers, NEW file, InfosOf(offers, file)
    PROVE  BestOfOffers(offers, file)
BY BestOfAnyOffers DEF InfosOf

(***************************************************************************)
(* The hashes of EF.SOD: what the fold over the nodes of the list makes of *)
(* them.                                                                   *)
(***************************************************************************)
LEMMA SlotsExist ==
    ASSUME NEW ns, NEW m \in Nat
    PROVE  \E f : FoldSlots(f, ns, m)
<1> DEFINE A == {k \in Nat : \E f : FoldSlots(f, ns, k)}
<1>1. ASSUME NEW f, NEW g, NEW i \in Nat, i # 0 => f[i - 1] = g[i - 1]
      PROVE  IntoSlots(ns, f, i) = IntoSlots(ns, g, i)
  BY <1>1 DEF IntoSlots
<1>2. 0 \in A
  <2> DEFINE f == [i \in 0 .. 0 |-> <<>>]
  <2>1. \A i \in 0 .. 0 : IntoSlots(ns, f, i) = <<>> BY DEF IntoSlots
  <2>2. f = [i \in 0 .. 0 |-> IntoSlots(ns, f, i)] BY <2>1
  <2> HIDE DEF f
  <2>3. FoldSlots(f, ns, 0) BY <2>2 DEF FoldSlots
  <2> QED BY <2>3
<1>3. ASSUME NEW k \in A PROVE k + 1 \in A
  <2>1. PICK f : FoldSlots(f, ns, k) OBVIOUS
  <2>2. f = [i \in 0 .. k |-> f[i]] /\ \A i \in 0 .. k : f[i] = IntoSlots(ns, f, i)
    BY <2>1 DEF FoldSlots
  <2> DEFINE g == [i \in 0 .. k + 1 |-> IF i = k + 1 THEN IntoSlots(ns, f, k + 1) ELSE f[i]]
  <2>3. g = [i \in 0 .. k + 1 |-> g[i]] /\ (\A i \in 0 .. k : g[i] = f[i])
        /\ g[k + 1] = IntoSlots(ns, f, k + 1)
    OBVIOUS
  <2> HIDE DEF g
  <2>4. ASSUME NEW i \in 0 .. k + 1 PROVE g[i] = IntoSlots(ns, g, i)
    <3>1. i # 0 => f[i - 1] = g[i - 1]
      <4>1. i # 0 => i - 1 \in 0 .. k OBVIOUS
      <4> QED BY <4>1, <2>3
    <3>2. i \in Nat OBVIOUS
    <3>3. IntoSlots(ns, f, i) = IntoSlots(ns, g, i) BY <3>1, <3>2, <1>1
    <3>4. g[i] = IntoSlots(ns, f, i)
      <4>1. CASE i = k + 1 BY <4>1, <2>3
      <4>2. CASE i # k + 1
        <5>1. i \in 0 .. k BY <4>2
        <5> QED BY <5>1, <2>2, <2>3
      <4> QED BY <4>1, <4>2
    <3> QED BY <3>3, <3>4
  <2>5. g = [i \in 0 .. k + 1 |-> IntoSlots(ns, g, i)] BY <2>3, <2>4
  <2>6. FoldSlots(g, ns, k + 1) BY <2>5 DEF FoldSlots
  <2> QED BY <2>6
<1>4. A \in SUBSET Nat OBVIOUS
<1>5. m \in A
  <2> HIDE DEF A
  <2>1. A = Nat BY <1>2, <1>3, <1>4, SetInduction
  <2> QED BY <2>1
<1> QED BY <1>5

LEMMA HashesIs ==
    ASSUME NEW ns, NEW m \in Nat, Len(ns) = m
    PROVE  \E f : FoldSlots(f, ns, m) /\ Hashes(ns) = f[m]
<1>1. PICK g : FoldSlots(g, ns, m) BY SlotsExist
<1>2. PICK h : h = CHOOSE f : FoldSlots(f, ns, m) OBVIOUS
<1>3. FoldSlots(h, ns, m) BY <1>1, <1>2
<1>4. Hashes(ns) = h[m] BY <1>2 DEF FoldSlots, IntoSlots, TakenAs, Hashes
<1> QED BY <1>3, <1>4

\* A slot is filled.
LEMMA SlotStep ==
    ASSUME NEW ns, NEW k \in Nat, NEW S, NEW slots \in Seq(S), NEW dg,
           Reflects(ns, k, slots, dg), TakenAs(ns[k + 1]), EntryOf(ns[k + 1]) \in S
    PROVE  Reflects(ns, k + 1, Append(slots, EntryOf(ns[k + 1])), dg)
<1> DEFINE x == EntryOf(ns[k + 1])
           more == Append(slots, x)
<1>. PICK l \in Nat : l = Len(slots) BY LenProperties
<1>1. /\ Len(more) = l + 1 /\ more[l + 1] = x
      /\ \A p \in 1 .. l : more[p] = slots[p]
  BY AppendProperties
<1>2. TakenAs(ns[k + 1]) /\ (Speaks(ns[k + 1], dg) <=> x.dg = dg) BY DEF Speaks
<1> HIDE DEF more, x
<1>3. \A i : i \in 1 .. k + 1 <=> i \in 1 .. k \/ i = k + 1 OBVIOUS
<1>4. \A p : p \in 1 .. l + 1 <=> p \in 1 .. l \/ p = l + 1 OBVIOUS
<1>5. CASE SameFirst(ns, k, slots, dg)
  <2>1. PICK i, p : /\ FirstNode(ns, k, dg, i) /\ FirstSlot(slots, dg, p)
                    /\ slots[p].hash = EntryOf(ns[i]).hash
    BY <1>5 DEF SameFirst
  <2>2. FirstNode(ns, k + 1, dg, i) BY <2>1, <1>3 DEF FirstNode
  <2>3. p \in 1 .. l /\ slots[p].dg = dg /\ \A q \in 1 .. p - 1 : slots[q].dg # dg
    BY <2>1 DEF FirstSlot
  <2>4. \A q \in 1 .. p - 1 : q \in 1 .. l BY <2>3
  <2>5. FirstSlot(more, dg, p) BY <2>3, <2>4, <1>1, <1>4 DEF FirstSlot
  <2>6. more[p].hash = EntryOf(ns[i]).hash BY <2>1, <2>3, <1>1
  <2>7. SameFirst(ns, k + 1, more, dg) BY <2>2, <2>5, <2>6 DEF SameFirst
  <2> QED BY <2>7 DEF Reflects, more, x
<1>6. CASE Unlisted(ns, k, slots, dg) /\ x.dg = dg
  <2>1. \A i \in 1 .. k : ~Speaks(ns[i], dg) BY <1>6 DEF Unlisted
  <2>2. \A p \in 1 .. l : slots[p].dg # dg BY <1>6 DEF Unlisted
  <2>3. FirstNode(ns, k + 1, dg, k + 1)
    <3>1. k + 1 \in 1 .. k + 1 /\ \A j \in 1 .. (k + 1) - 1 : j \in 1 .. k OBVIOUS
    <3> QED BY <3>1, <2>1, <1>2, <1>6 DEF FirstNode
  <2>4. FirstSlot(more, dg, l + 1)
    <3>1. l + 1 \in 1 .. l + 1 /\ \A q \in 1 .. (l + 1) - 1 : q \in 1 .. l OBVIOUS
    <3>2. \A q \in 1 .. (l + 1) - 1 : more[q].dg # dg BY <3>1, <2>2, <1>1
    <3> QED BY <3>1, <3>2, <1>1, <1>6 DEF FirstSlot
  <2>5. more[l + 1].hash = EntryOf(ns[k + 1]).hash BY <1>1 DEF x
  <2>6. SameFirst(ns, k + 1, more, dg) BY <2>3, <2>4, <2>5 DEF SameFirst
  <2> QED BY <2>6 DEF Reflects, more, x
<1>7. CASE Unlisted(ns, k, slots, dg) /\ x.dg # dg
  <2>1. \A i \in 1 .. k : ~Speaks(ns[i], dg) BY <1>7 DEF Unlisted
  <2>2. \A p \in 1 .. l : slots[p].dg # dg BY <1>7 DEF Unlisted
  <2>3. \A i \in 1 .. k + 1 : ~Speaks(ns[i], dg) BY <2>1, <1>2, <1>3, <1>7
  <2>4. \A p \in 1 .. Len(more) : more[p].dg # dg BY <2>2, <1>1, <1>4, <1>7
  <2>5. Unlisted(ns, k + 1, more, dg) BY <2>3, <2>4 DEF Unlisted
  <2> QED BY <2>5 DEF Reflects, more, x
<1> QED BY <1>5, <1>6, <1>7 DEF Reflects

\* A node is passed over.
LEMMA PassedOver ==
    ASSUME NEW ns, NEW k \in Nat, NEW slots, NEW dg,
           Reflects(ns, k, slots, dg), ~TakenAs(ns[k + 1])
    PROVE  Reflects(ns, k + 1, slots, dg)
<1>1. ~Speaks(ns[k + 1], dg) BY DEF Speaks
<1>2. \A i : i \in 1 .. k + 1 <=> i \in 1 .. k \/ i = k + 1 OBVIOUS
<1>3. Unlisted(ns, k, slots, dg) => Unlisted(ns, k + 1, slots, dg)
  BY <1>1, <1>2 DEF Unlisted
<1>4. ASSUME SameFirst(ns, k, slots, dg) PROVE SameFirst(ns, k + 1, slots, dg)
  <2>1. PICK i, p : /\ FirstNode(ns, k, dg, i) /\ FirstSlot(slots, dg, p)
                    /\ slots[p].hash = EntryOf(ns[i]).hash
    BY <1>4 DEF SameFirst
  <2>2. FirstNode(ns, k + 1, dg, i) BY <2>1, <1>2 DEF FirstNode
  <2> QED BY <2>1, <2>2 DEF SameFirst
<1> QED BY <1>3, <1>4 DEF Reflects

LEMMA SlotTaken ==
    ASSUME NEW ns, NEW k \in Nat, NEW S, NEW slots \in Seq(S), Slotted(ns, k, slots),
           TakenAs(ns[k + 1]), EntryOf(ns[k + 1]) \in S, Len(slots) < SodHashMax
    PROVE  Slotted(ns, k + 1, Append(slots, EntryOf(ns[k + 1])))
<1> DEFINE x == EntryOf(ns[k + 1])
           more == Append(slots, x)
<1>. PICK l \in Nat : l = Len(slots) BY LenProperties
<1>1. /\ Len(more) = l + 1 /\ more[l + 1] = x /\ more # <<>>
      /\ \A p \in 1 .. l : more[p] = slots[p]
  BY AppendProperties
<1>2. x.dg \in 1 .. 16 /\ Len(x.hash) \in 1 .. HashMax BY DEF TakenAs
<1>3. \A dg : ~Full(slots, dg) BY DEF Full, SodHashMax
<1>4. \A dg : Reflects(ns, k, slots, dg) BY <1>3 DEF Slotted
<1>5. \A dg : Reflects(ns, k + 1, more, dg) BY <1>4, SlotStep
<1> HIDE DEF more, x
<1>6. Len(more) <= k + 1 /\ Len(more) <= SodHashMax
  <2>1. l <= k /\ l < SodHashMax BY DEF Slotted
  <2> QED BY <2>1, <1>1 DEF SodHashMax
<1>7. \A p \in 1 .. Len(more) : more[p].dg \in 1 .. 16 /\ Len(more[p].hash) \in 1 .. HashMax
  <2>1. \A p \in 1 .. l : slots[p].dg \in 1 .. 16 /\ Len(slots[p].hash) \in 1 .. HashMax
    BY DEF Slotted
  <2>2. \A p \in 1 .. l + 1 : p \in 1 .. l \/ p = l + 1 OBVIOUS
  <2> QED BY <2>1, <2>2, <1>1, <1>2
<1>8. (more = <<>>) <=> \A i \in 1 .. k + 1 : ~TakenAs(ns[i])
  <2>1. k + 1 \in 1 .. k + 1 OBVIOUS
  <2> QED BY <2>1, <1>1
<1> QED BY <1>5, <1>6, <1>7, <1>8 DEF Slotted, more, x

LEMMA SlotLeft ==
    ASSUME NEW ns, NEW k \in Nat, NEW S, NEW slots \in Seq(S), Slotted(ns, k, slots),
           ~TakenAs(ns[k + 1]) \/ ~(Len(slots) < SodHashMax)
    PROVE  Slotted(ns, k + 1, slots)
<1>. PICK l \in Nat : l = Len(slots) BY LenProperties
<1>0. l <= k /\ l <= SodHashMax BY DEF Slotted
<1>1. \A i : i \in 1 .. k + 1 <=> i \in 1 .. k \/ i = k + 1 OBVIOUS
<1>2. CASE ~TakenAs(ns[k + 1])
  <2>1. \A dg : Reflects(ns, k, slots, dg) => Reflects(ns, k + 1, slots, dg)
    BY <1>2, PassedOver
  <2>2. (slots = <<>>) <=> \A i \in 1 .. k + 1 : ~TakenAs(ns[i]) BY <1>1, <1>2 DEF Slotted
  <2>3. \A dg : Reflects(ns, k + 1, slots, dg) \/ Full(slots, dg) BY <2>1 DEF Slotted
  <2>4. k + 1 <= SodHashMax => \A dg : Reflects(ns, k + 1, slots, dg)
    BY <2>1 DEF Slotted, SodHashMax
  <2>5. Len(slots) <= k + 1 BY <1>0
  <2> QED BY <2>2, <2>3, <2>4, <2>5 DEF Slotted
<1>3. CASE ~(l < SodHashMax)
  <2>0. PICK h \in Nat : h = SodHashMax /\ h # 0 BY DEF SodHashMax
  <2>1. l = SodHashMax /\ ~(k + 1 <= SodHashMax) /\ l <= k + 1 BY <2>0, <1>0, <1>3
  <2>2. slots # <<>>
    <3>1. Len(<<>>) = 0 OBVIOUS
    <3> QED BY <3>1, <2>0, <2>1
  <2>3. (slots = <<>>) <=> \A i \in 1 .. k + 1 : ~TakenAs(ns[i]) BY <2>2, <1>1 DEF Slotted
  <2>4. ASSUME NEW dg PROVE Reflects(ns, k + 1, slots, dg) \/ Full(slots, dg)
    <3>1. CASE Full(slots, dg) BY <3>1
    <3>2. CASE Unlisted(ns, k, slots, dg) BY <3>2, <2>1 DEF Unlisted, Full
    <3>3. CASE SameFirst(ns, k, slots, dg)
      <4>1. PICK i, p : /\ FirstNode(ns, k, dg, i) /\ FirstSlot(slots, dg, p)
                        /\ slots[p].hash = EntryOf(ns[i]).hash
        BY <3>3 DEF SameFirst
      <4>2. FirstNode(ns, k + 1, dg, i) BY <4>1, <1>1 DEF FirstNode
      <4>3. SameFirst(ns, k + 1, slots, dg) BY <4>1, <4>2 DEF SameFirst
      <4> QED BY <4>3 DEF Reflects
    <3> QED BY <3>1, <3>2, <3>3 DEF Slotted, Reflects
  <2> QED BY <2>1, <2>3, <2>4 DEF Slotted
<1> QED BY <1>2, <1>3

LEMMA SlotsHold ==
    ASSUME NEW ns, NEW m \in Nat, NEW f, FoldSlots(f, ns, m)
    PROVE  Slotted(ns, m, f[m]) /\ Len(f[m]) \in Nat /\ DOMAIN f[m] = 1 .. Len(f[m])
<1> DEFINE S == {EntryOf(ns[i]) : i \in 1 .. m}
           A == {k \in Nat : k <= m => f[k] \in Seq(S) /\ Slotted(ns, k, f[k])}
<1>1. \A i \in 0 .. m : f[i] = IntoSlots(ns, f, i) BY DEF FoldSlots
<1>2. 0 \in A
  <2>1. f[0] = <<>> BY <1>1 DEF IntoSlots
  <2>2. Slotted(ns, 0, <<>>)
    <3>1. \A i : i \notin 1 .. 0 OBVIOUS
    <3>2. Len(<<>>) = 0 OBVIOUS
    <3>3. \A dg : Unlisted(ns, 0, <<>>, dg) BY <3>1, <3>2 DEF Unlisted
    <3>4. \A dg : Reflects(ns, 0, <<>>, dg) BY <3>3 DEF Reflects
    <3>5. \A p \in 1 .. Len(<<>>) : /\ <<>>[p].dg \in 1 .. 16
                                    /\ Len(<<>>[p].hash) \in 1 .. HashMax
      BY <3>1, <3>2
    <3> QED BY <3>1, <3>2, <3>4, <3>5 DEF Slotted, SodHashMax
  <2>3. <<>> \in Seq(S) OBVIOUS
  <2> QED BY <2>1, <2>2, <2>3
<1>3. ASSUME NEW k \in A PROVE k + 1 \in A
  <2> SUFFICES ASSUME k + 1 <= m PROVE f[k + 1] \in Seq(S) /\ Slotted(ns, k + 1, f[k + 1])
    OBVIOUS
  <2>1. k + 1 \in 0 .. m /\ k + 1 # 0 /\ (k + 1) - 1 = k /\ k + 1 \in 1 .. m
        /\ k \in Nat
    OBVIOUS
  <2>2. f[k] \in Seq(S) /\ Slotted(ns, k, f[k]) OBVIOUS
  <2>3. f[k + 1] = IF Len(f[k]) < SodHashMax /\ TakenAs(ns[k + 1])
                   THEN Append(f[k], EntryOf(ns[k + 1])) ELSE f[k]
    BY <2>1, <1>1 DEF IntoSlots
  <2>4. EntryOf(ns[k + 1]) \in S BY <2>1
  <2> HIDE DEF S, A
  <2>5. CASE Len(f[k]) < SodHashMax /\ TakenAs(ns[k + 1])
    <3>1. f[k + 1] = Append(f[k], EntryOf(ns[k + 1])) BY <2>3, <2>5
    <3>2. Slotted(ns, k + 1, Append(f[k], EntryOf(ns[k + 1])))
      BY <2>1, <2>2, <2>4, <2>5, SlotTaken
    <3>3. Append(f[k], EntryOf(ns[k + 1])) \in Seq(S) BY <2>2, <2>4, AppendProperties
    <3> QED BY <3>1, <3>2, <3>3
  <2>6. CASE ~(Len(f[k]) < SodHashMax /\ TakenAs(ns[k + 1]))
    <3>1. f[k + 1] = f[k] BY <2>3, <2>6
    <3>2. ~TakenAs(ns[k + 1]) \/ ~(Len(f[k]) < SodHashMax) BY <2>6
    <3>3. Slotted(ns, k + 1, f[k]) BY <2>1, <2>2, <3>2, SlotLeft
    <3> QED BY <3>1, <3>3, <2>2
  <2> QED BY <2>5, <2>6
<1>4. A \in SUBSET Nat OBVIOUS
<1>5. m \in A
  <2> HIDE DEF A
  <2>1. A = Nat BY <1>2, <1>3, <1>4, SetInduction
  <2> QED BY <2>1
<1>6. f[m] \in Seq(S) /\ Slotted(ns, m, f[m]) BY <1>5
<1> QED BY <1>6, LenProperties

\* lds_read_hashes, for every list: no more is kept than there are slots, each slot
\* has a group from 1 to 16 and a hash that fits, nothing is kept only when no
\* entry is fit to be, and of every group the first slot holds what its first entry
\* says, unless the slots were full before one was met.
THEOREM HashesOfAnyList ==
    ASSUME NEW ns, NEW m \in Nat, Len(ns) = m
    PROVE  /\ Slotted(ns, m, Hashes(ns))
           /\ Len(Hashes(ns)) \in Nat /\ DOMAIN Hashes(ns) = 1 .. Len(Hashes(ns))
BY HashesIs, SlotsHold

\* What emrtd_lds_sod_hash_for returns.
LEMMA HashForIs ==
    ASSUME NEW sod, Len(sod.hashes) \in Nat, DOMAIN sod.hashes = 1 .. Len(sod.hashes), NEW dg
    PROVE  /\ \A p : FirstSlot(sod.hashes, dg, p) => SodHashFor(sod, dg) = sod.hashes[p].hash
           /\ (\A p \in 1 .. Len(sod.hashes) : sod.hashes[p].dg # dg) => SodHashFor(sod, dg) = <<>>
<1> DEFINE hits == {i \in DOMAIN sod.hashes : sod.hashes[i].dg = dg}
<1>. PICK l \in Nat : l = Len(sod.hashes) OBVIOUS
<1>1. SodHashFor(sod, dg) = IF hits = {} THEN <<>> ELSE sod.hashes[Min(hits)].hash
  BY DEF SodHashFor
<1>2. \A i : i \in hits <=> i \in 1 .. l /\ sod.hashes[i].dg = dg OBVIOUS
<1> HIDE DEF hits
<1>3. hits \in SUBSET Nat BY <1>2
<1>4. ASSUME NEW p, FirstSlot(sod.hashes, dg, p) PROVE SodHashFor(sod, dg) = sod.hashes[p].hash
  <2>1. p \in 1 .. l /\ sod.hashes[p].dg = dg /\ \A q \in 1 .. p - 1 : sod.hashes[q].dg # dg
    BY <1>4 DEF FirstSlot
  <2>2. p \in hits BY <2>1, <1>2
  <2>3. ASSUME NEW x \in hits PROVE p <= x
    <3>1. x \in 1 .. l /\ sod.hashes[x].dg = dg BY <1>2
    <3>2. ~(x \in 1 .. p - 1) BY <3>1, <2>1
    <3> QED BY <3>1, <3>2, <2>1
  <2>4. Min(hits) = p BY <2>2, <2>3, <1>3, LeastIs
  <2>5. hits # {} BY <2>2
  <2> QED BY <2>4, <2>5, <1>1
<1>5. ASSUME \A p \in 1 .. l : sod.hashes[p].dg # dg PROVE SodHashFor(sod, dg) = <<>>
  <2>1. hits = {} BY <1>5, <1>2
  <2> QED BY <2>1, <1>1
<1> QED BY <1>4, <1>5

(***************************************************************************)
(* Buffers of nodes, by how long they are and how many are in them.        *)
(***************************************************************************)
LEMMA LongerIs ==
    ASSUME NEW cs, NEW x, NEW m \in Nat, Len(cs) = m, NEW a, Whole(a, cs)
    PROVE  Len(cs \o <<x>>) = m + 1 /\ Grown(cs \o <<x>>, cs, m, x)
<1>1. \E n \in Nat : \E ns : cs = [i \in 1 .. n |-> [tag |-> ns[i].tag, value |-> ns[i].value]]
  BY DEF Whole, Reads
<1>2. PICK n \in Nat : \E ns : cs = [i \in 1 .. n |-> [tag |-> ns[i].tag, value |-> ns[i].value]]
  BY <1>1
<1>3. cs = [i \in 1 .. n |-> cs[i]] BY <1>2
<1> DEFINE S == {cs[i] : i \in 1 .. n} \cup {x}
<1>4. cs \in Seq(S) /\ x \in S /\ <<x>> \in Seq(S) /\ Len(<<x>>) = 1 /\ <<x>>[1] = x
  BY <1>3
<1> HIDE DEF S
<1> DEFINE y == <<x>>
<1>5. y \in Seq(S) /\ Len(y) = 1 /\ y[1] = x BY <1>4
<1> HIDE DEF y
<1>7. cs \in Seq(S) /\ Len(cs) = m BY <1>4
<1>8. cs \o y \in Seq(S) /\ Len(cs \o y) = Len(cs) + Len(y)
      /\ \A i \in 1 .. Len(cs) + Len(y) :
            (cs \o y)[i] = IF i <= Len(cs) THEN cs[i] ELSE y[i - Len(cs)]
  BY <1>5, <1>7, ConcatProperties
<1>9. \A i \in 1 .. m + 1 : (cs \o y)[i] = IF i <= m THEN cs[i] ELSE y[i - m]
  BY <1>5, <1>7, <1>8
<1>10. m + 1 \in 1 .. m + 1 /\ ~(m + 1 <= m) /\ (m + 1) - m = 1 OBVIOUS
<1>11. (cs \o y)[m + 1] = x BY <1>5, <1>9, <1>10
<1>12. \A i \in 1 .. m : (cs \o y)[i] = cs[i] BY <1>9
<1>6. Len(cs \o y) = m + 1 /\ (cs \o y)[m + 1] = x /\ \A i \in 1 .. m : (cs \o y)[i] = cs[i]
  BY <1>5, <1>7, <1>8, <1>11, <1>12
<1> QED BY <1>6 DEF Grown, y

LEMMA ChainOne ==
    ASSUME NEW t, Simple(t), NEW v \in Seq(Byte), NEW k \in Nat, Len(v) <= k, k < Huge
    PROVE  Chain(Wrap(t, v), k + 5, <<Kid(t, v)>>, 1) /\ <<Kid(t, v)>>[1] = Kid(t, v)
<1>1. Whole(Wrap(t, v), <<Kid(t, v)>>) /\ Len(Wrap(t, v)) <= k + 5 BY WholeWrap
<1>2. Len(<<Kid(t, v)>>) = 1 /\ <<Kid(t, v)>>[1] = Kid(t, v) OBVIOUS
<1> QED BY <1>1, <1>2 DEF Chain

LEMMA ChainMore ==
    ASSUME NEW a, NEW n \in Nat, NEW cs, NEW m \in Nat, Chain(a, n, cs, m),
           NEW b, NEW k \in Nat, NEW x, Chain(b, k, <<x>>, 1)
    PROVE  Chain(a \o b, n + k, cs \o <<x>>, m + 1) /\ Grown(cs \o <<x>>, cs, m, x)
<1>1. Whole(a, cs) /\ Len(a) <= n /\ Len(cs) = m /\ Whole(b, <<x>>) /\ Len(b) <= k
  BY DEF Chain
<1>2. Whole(a \o b, cs \o <<x>>) /\ Len(a \o b) = Len(a) + Len(b) BY <1>1, WholeBoth
<1>3. Len(cs \o <<x>>) = m + 1 /\ Grown(cs \o <<x>>, cs, m, x) BY <1>1, LongerIs
<1>4. PICK p, q \in Nat : p = Len(a) /\ q = Len(b) BY <1>1, LenProperties DEF Whole
<1>5. Len(a \o b) <= n + k BY <1>1, <1>2, <1>4
<1> QED BY <1>2, <1>3, <1>5 DEF Chain

LEMMA ChainReads ==
    ASSUME NEW data, NEW n \in Nat, NEW cs, NEW m, Chain(data, n, cs, m), n < Huge
    PROVE  data \in Seq(Byte) /\ Len(data) < Huge /\ AreOf(Nodes(data), m, cs)
<1>1. data \in Seq(Byte) /\ Reads(data, Len(data), cs) /\ Len(data) <= n /\ Len(cs) = m
  BY DEF Chain, Whole
<1>2. PICK p \in Nat : p = Len(data) BY <1>1, LenProperties
<1>3. p < Huge BY <1>1, <1>2 DEF Huge
<1>4. PICK l \in Nat : Len(cs) = l /\ AreOf(Nodes(data), l, cs)
  BY <1>1, <1>2, <1>3, ReadsAre
<1> QED BY <1>1, <1>2, <1>3, <1>4

\* The first of the nodes, and the first with a tag.
LEMMA FirstOf ==
    ASSUME NEW data \in Seq(Byte), Len(data) < Huge, NEW cs, NEW m \in Nat, m # 0,
           AreOf(Nodes(data), m, cs), NEW t, NEW v, cs[1] = Kid(t, v)
    PROVE  IsOf(First(data), t, v)
<1> DEFINE ns == Nodes(data)
<1>1. First(data) = IF ns = <<>> THEN None ELSE ns[1] BY FirstIs
<1> HIDE DEF ns
<1>2. ns # <<>> /\ 1 \in 1 .. m /\ \A i \in 1 .. m : IsOf(ns[i], cs[i].tag, cs[i].value)
  BY DEF AreOf, ns
<1>3. cs[1].tag = t /\ cs[1].value = v BY DEF Kid
<1> QED BY <1>1, <1>2, <1>3

LEMMA FoundIn ==
    ASSUME NEW data, NEW cs, NEW m \in Nat, AreOf(Nodes(data), m, cs),
           NEW k \in 1 .. m, NEW t, NEW v, cs[k] = Kid(t, v), \A i \in 1 .. k - 1 : cs[i].tag # t
    PROVE  IsOf(Find(data, t), t, v)
<1> DEFINE ns == Nodes(data)
           hits == {i \in DOMAIN ns : ns[i].tag = t}
<1>1. Find(data, t) = IF hits = {} THEN None ELSE ns[Min(hits)] BY DEF Find
<1> HIDE DEF ns
<1>2. DOMAIN ns = 1 .. m /\ \A i \in 1 .. m : IsOf(ns[i], cs[i].tag, cs[i].value)
  BY DEF AreOf, ns
<1>3. \A i : i \in hits <=> i \in 1 .. m /\ ns[i].tag = t BY <1>2
<1> HIDE DEF hits
<1>4. cs[k].tag = t /\ cs[k].value = v BY DEF Kid
<1>5. IsOf(ns[k], t, v) BY <1>2, <1>4
<1>6. k \in hits BY <1>3, <1>5 DEF IsOf
<1>7. ASSUME NEW i \in hits PROVE k <= i
  <2>1. i \in 1 .. m /\ ns[i].tag = t BY <1>3
  <2>2. cs[i].tag = t BY <2>1, <1>2 DEF IsOf
  <2>3. ~(i \in 1 .. k - 1) BY <2>2
  <2> QED BY <2>1, <2>3
<1>8. hits \in SUBSET Nat BY <1>3
<1>9. Min(hits) = k BY <1>6, <1>7, <1>8, LeastIs
<1>10. hits # {} BY <1>6
<1> QED BY <1>1, <1>5, <1>9, <1>10

\* The places of a tag.
LEMMA PlacesIn ==
    ASSUME NEW ns, NEW cs, NEW m \in Nat, AreOf(ns, m, cs), NEW t
    PROVE  /\ \A i : i \in PlacesOf(ns, t) <=> i \in 1 .. m /\ cs[i].tag = t
           /\ PlacesOf(ns, t) \in SUBSET Nat
<1>1. DOMAIN ns = 1 .. m /\ \A i \in 1 .. m : ns[i].tag = cs[i].tag BY DEF AreOf, IsOf
<1>2. \A i : i \in PlacesOf(ns, t) <=> i \in 1 .. m /\ cs[i].tag = t BY <1>1 DEF PlacesOf
<1> QED BY <1>2

LEMMA TagsOfSod ==
    /\ Simple(INTEGER) /\ Simple(OCTET_STRING) /\ Simple(OID) /\ Simple(SEQUENCE)
    /\ Simple(SET) /\ Simple(CONTEXT_0) /\ Simple(EF_SOD)
    /\ Constructed(SEQUENCE[1])
    /\ INTEGER # OCTET_STRING /\ INTEGER # SEQUENCE /\ OID # CONTEXT_0 /\ SET # SEQUENCE
    /\ EF_SOD # SEQUENCE /\ CONTEXT_0 # SEQUENCE
<1>1. Simple(<<48>>) /\ <<48>>[1] = 48 BY SimpleIs
<1>2. Simple(<<49>>) /\ <<49>>[1] = 49 BY SimpleIs
<1>3. Simple(<<6>>) /\ <<6>>[1] = 6 BY SimpleIs
<1>4. Simple(<<2>>) /\ <<2>>[1] = 2 BY SimpleIs
<1>5. Simple(<<4>>) /\ <<4>>[1] = 4 BY SimpleIs
<1>6. Simple(<<160>>) /\ <<160>>[1] = 160 BY SimpleIs
<1>7. Simple(<<119>>) /\ <<119>>[1] = 119 BY SimpleIs
<1>8. Constructed(48) BY DEF Constructed
<1> QED
  BY <1>1, <1>2, <1>3, <1>4, <1>5, <1>6, <1>7, <1>8
     DEF SEQUENCE, SET, OID, INTEGER, OCTET_STRING, CONTEXT_0, EF_SOD

(***************************************************************************)
(* What a group is listed as, and what is read of it.                      *)
(***************************************************************************)
LEMMA ShaAre ==
    /\ Sha1 \in Seq(Byte) /\ Len(Sha1) = 5
    /\ \A oid \in {Sha224, Sha256, Sha384, Sha512} : oid \in Seq(Byte) /\ Len(oid) = 9
    /\ Sha256[9] = 1 /\ Sha384[9] = 2 /\ Sha512[9] = 3 /\ Sha224[9] = 4
<1>1. /\ 43 \in Byte /\ 14 \in Byte /\ 3 \in Byte /\ 2 \in Byte /\ 26 \in Byte /\ 96 \in Byte
      /\ 134 \in Byte /\ 72 \in Byte /\ 1 \in Byte /\ 101 \in Byte /\ 4 \in Byte
  BY ByteIs
<1>2. Sha1 \in Seq(Byte) /\ Len(Sha1) = 5 BY <1>1 DEF Sha1
<1>3. Sha224 \in Seq(Byte) /\ Len(Sha224) = 9 /\ Sha224[9] = 4 BY <1>1 DEF Sha224
<1>4. Sha256 \in Seq(Byte) /\ Len(Sha256) = 9 /\ Sha256[9] = 1 BY <1>1 DEF Sha256
<1>5. Sha384 \in Seq(Byte) /\ Len(Sha384) = 9 /\ Sha384[9] = 2 BY <1>1 DEF Sha384
<1>6. Sha512 \in Seq(Byte) /\ Len(Sha512) = 9 /\ Sha512[9] = 3 BY <1>1 DEF Sha512
<1> QED BY <1>2, <1>3, <1>4, <1>5, <1>6

\* The length of what was signed, and of what the reader computes.
LEMMA AlgorithmIs ==
    ASSUME NEW oid \in Algorithms
    PROVE  /\ oid \in Seq(Byte) /\ Len(oid) \in {5, 9}
           /\ SignedLen(oid) \in {20, 28, 32, 64}
           /\ oid \in {Sha1, Sha256} => /\ DigestLen(oid) = SignedLen(oid)
                                        /\ DigestLen(oid) \in {20, 32}
           /\ oid \notin {Sha1, Sha256} => DigestLen(oid) \notin {20, 32}
<1>1. /\ Sha1 # Sha224 /\ Sha1 # Sha256 /\ Sha1 # Sha512 /\ Sha224 # Sha256
      /\ Sha224 # Sha512 /\ Sha256 # Sha512
  <2>1. Len(Sha1) = 5 /\ Len(Sha224) = 9 /\ Len(Sha256) = 9 /\ Len(Sha512) = 9 BY ShaAre
  <2>2. Sha1 # Sha224 /\ Sha1 # Sha256 /\ Sha1 # Sha512 BY <2>1
  <2>3. Sha256[9] = 1 /\ Sha512[9] = 3 /\ Sha224[9] = 4 BY ShaAre
  <2>4. Sha224 # Sha256 /\ Sha224 # Sha512 /\ Sha256 # Sha512 BY <2>3
  <2> QED BY <2>2, <2>4
<1>2. /\ DigestLen(Sha1) = 20 /\ DigestLen(Sha224) = 28 /\ DigestLen(Sha256) = 32
      /\ DigestLen(Sha512) = 0
  BY <1>1 DEF DigestLen
<1>3. /\ SignedLen(Sha1) = 20 /\ SignedLen(Sha224) = 28 /\ SignedLen(Sha256) = 32
      /\ SignedLen(Sha512) = 64
  BY <1>1, <1>2 DEF SignedLen
<1>4. oid \in Seq(Byte) /\ Len(oid) \in {5, 9} BY ShaAre DEF Algorithms
<1>5. oid = Sha1 \/ oid = Sha256 \/ oid = Sha512 \/ oid = Sha224 BY DEF Algorithms
<1>6. SignedLen(oid) \in {20, 28, 32, 64} BY <1>3, <1>5
<1>7. oid \in {Sha1, Sha256} => DigestLen(oid) = SignedLen(oid) /\ DigestLen(oid) \in {20, 32}
  BY <1>2, <1>3
<1>8. oid \notin {Sha1, Sha256} => DigestLen(oid) \notin {20, 32} BY <1>2, <1>5
<1> QED BY <1>4, <1>6, <1>7, <1>8

LEMMA HashBytesIs ==
    ASSUME NEW oid \in Algorithms, NEW e, HashEntry(e)
    PROVE  /\ HashBytes(oid, e) \in Seq(Byte) /\ Len(HashBytes(oid, e)) <= 64
           /\ (Len(HashBytes(oid, e)) \in 1 .. HashMax) <=> ~e.empty
<1> DEFINE h == HashBytes(oid, e)
<1>1. CASE e.empty
  <2>1. h = <<>> BY <1>1 DEF HashBytes
  <2>2. Len(<<>>) = 0 /\ <<>> \in Seq(Byte) OBVIOUS
  <2> HIDE DEF h
  <2>3. h \in Seq(Byte) /\ Len(h) <= 64 /\ ~(Len(h) \in 1 .. HashMax) BY <2>1, <2>2
  <2> QED BY <2>3, <1>1 DEF h
<1>2. CASE ~e.empty
  <2>1. PICK n \in Nat : n = SignedLen(oid) /\ n >= 1 /\ n <= 64 BY AlgorithmIs
  <2>2. h = [i \in 1 .. n |-> e.content] /\ e.content \in Byte
    BY <1>2, <2>1 DEF HashBytes, HashOf, HashEntry
  <2> HIDE DEF h
  <2>3. h \in Seq(Byte) /\ Len(h) = n BY <2>2
  <2>6. PICK most \in Nat : most = HashMax /\ n <= most BY <2>1 DEF HashMax
  <2>4. Len(h) \in 1 .. HashMax BY <2>1, <2>3, <2>6
  <2>5. Len(h) <= 64 BY <2>1, <2>3
  <2> QED BY <2>3, <2>4, <2>5, <1>2 DEF h
<1> QED BY <1>1, <1>2

LEMMA EntryChain ==
    ASSUME NEW oid \in Algorithms, NEW e, HashEntry(e)
    PROVE  /\ Chain(EntryBytes(oid, e), 76, EntryNodes(oid, e), 2)
           /\ EntryNodes(oid, e)[1] = Kid(INTEGER, IntegerBytes(e.dg))
           /\ EntryNodes(oid, e)[2] = Kid(OCTET_STRING, HashBytes(oid, e))
<1> DEFINE a == DerInteger(e.dg)
           h == HashBytes(oid, e)
           b == Wrap(OCTET_STRING, h)
           x == Kid(INTEGER, IntegerBytes(e.dg))
           y == Kid(OCTET_STRING, h)
<1>1. Whole(a, <<x>>) /\ Len(a) <= 7 BY IntegerReads DEF HashEntry
<1>2. Chain(a, 7, <<x>>, 1) /\ <<x>>[1] = x
  <2> HIDE DEF a, x
  <2>1. Len(<<x>>) = 1 /\ <<x>>[1] = x OBVIOUS
  <2> QED BY <2>1, <1>1 DEF Chain
<1>3. PICK k \in Nat : k = 64 /\ k < Huge BY DEF Huge
<1>4. h \in Seq(Byte) /\ Len(h) <= k BY <1>3, HashBytesIs
<1>5. Simple(OCTET_STRING) BY TagsOfSod
<1> HIDE DEF h
<1>6. Chain(b, k + 5, <<y>>, 1) BY <1>3, <1>4, <1>5, ChainOne
<1> DEFINE c == <<x>>
           d == c \o <<y>>
<1>7. c[1] = x /\ Chain(a, 7, c, 1) BY <1>2
<1> HIDE DEF a, b, x, y, c
<1>8. PICK p, q \in Nat : p = 7 /\ q = k + 5 /\ p + q = 76 BY <1>3
<1>9. PICK o \in Nat : o = 1 /\ o + 1 = 2 OBVIOUS
<1>10. Chain(a, p, c, o) /\ Chain(b, q, <<y>>, 1) BY <1>6, <1>7, <1>8, <1>9
<1>11. Chain(a \o b, p + q, d, o + 1) /\ Grown(d, c, o, y) BY <1>10, ChainMore
<1> HIDE DEF d
<1>12. Chain(a \o b, 76, d, 2) BY <1>8, <1>9, <1>11
<1>13. d[1] = x /\ d[2] = y BY <1>7, <1>9, <1>11 DEF Grown
<1>14. EntryBytes(oid, e) = a \o b /\ EntryNodes(oid, e) = d
  BY DEF EntryBytes, EntryNodes, a, b, c, d, h, x, y
<1> QED BY <1>12, <1>13, <1>14 DEF x, y, h

LEMMA ListedReads ==
    ASSUME NEW oid \in Algorithms, NEW e, HashEntry(e)
    PROVE  /\ Whole(Listed(oid, e), <<Kid(SEQUENCE, EntryBytes(oid, e))>>)
           /\ Len(Listed(oid, e)) <= 81
<1> DEFINE d == EntryBytes(oid, e)
<1>1. Listed(oid, e) = Wrap(SEQUENCE, d) BY DEF Listed, EntryBytes, HashBytes
<1>2. d \in Seq(Byte) /\ Len(d) <= 76 BY EntryChain DEF Chain, Whole
<1> HIDE DEF d
<1>3. PICK k \in Nat : k = 76 /\ k < Huge BY DEF Huge
<1>4. Len(d) <= k /\ Simple(SEQUENCE) BY <1>2, <1>3, TagsOfSod
<1>5. Whole(Wrap(SEQUENCE, d), <<Kid(SEQUENCE, d)>>) /\ Len(Wrap(SEQUENCE, d)) <= k + 5
  BY <1>2, <1>3, <1>4, WholeWrap
<1>6. k + 5 = 81 BY <1>3
<1> QED BY <1>1, <1>5, <1>6 DEF d

\* What the reader makes of an entry.
LEMMA EntryReads ==
    ASSUME NEW oid \in Algorithms, NEW e, HashEntry(e), NEW n, IsOf(n, SEQUENCE, EntryBytes(oid, e))
    PROVE  /\ EntryOf(n).dg = e.dg /\ EntryOf(n).hash = HashBytes(oid, e)
           /\ TakenAs(n) <=> e.dg \in 1 .. 16 /\ ~e.empty
<1> DEFINE d == EntryBytes(oid, e)
           cs == EntryNodes(oid, e)
           h == HashBytes(oid, e)
<1>1. /\ Chain(d, 76, cs, 2)
      /\ cs[1] = Kid(INTEGER, IntegerBytes(e.dg)) /\ cs[2] = Kid(OCTET_STRING, h)
  BY EntryChain
<1>2. n # None /\ n.tag = SEQUENCE /\ n.value = d BY DEF IsOf
<1>h. (Len(h) \in 1 .. HashMax) <=> ~e.empty
  BY HashBytesIs
<1> HIDE DEF d, cs, h
<1>3. PICK k, m \in Nat : k = 76 /\ k < Huge /\ m = 2 BY DEF Huge
<1>4. AreOf(Nodes(d), m, cs) BY <1>1, <1>3, ChainReads
<1>5. INTEGER # OCTET_STRING /\ cs[1].tag = INTEGER BY <1>1, TagsOfSod DEF Kid
<1>6. IsOf(Find(d, INTEGER), INTEGER, IntegerBytes(e.dg))
  <2>1. 1 \in 1 .. m /\ \A i : i \notin 1 .. 1 - 1 BY <1>3
  <2> QED BY <2>1, <1>1, <1>4, FoundIn
<1>7. IsOf(Find(d, OCTET_STRING), OCTET_STRING, h)
  <2>1. 2 \in 1 .. m /\ \A i \in 1 .. 2 - 1 : i = 1 BY <1>3
  <2>2. \A i \in 1 .. 2 - 1 : cs[i].tag # OCTET_STRING BY <2>1, <1>5
  <2> QED BY <2>1, <2>2, <1>1, <1>4, FoundIn
<1>8. ReadUint(IntegerBytes(e.dg)) = e.dg BY IntegerIs DEF HashEntry
<1>9. EntryOf(n).dg = e.dg /\ EntryOf(n).hash = h /\ IsEntry(n)
  BY <1>2, <1>6, <1>7, <1>8 DEF EntryOf, IsEntry, IsOf
<1> QED BY <1>9, <1>h DEF TakenAs, h

LEMMA ListReads ==
    ASSUME NEW oid \in Algorithms, NEW entries, NEW m \in Nat, m <= 16, AllEntries(entries, m)
    PROVE  Chain(HashList(oid, entries), 1296, InSequence(EntriesBytes(oid, entries, m), m), m)
<1> DEFINE seqs == [i \in DOMAIN entries |-> Listed(oid, entries[i])]
           vals == EntriesBytes(oid, entries, m)
           cs == InSequence(vals, m)
<1>1. seqs = [i \in 1 .. m |-> Listed(oid, entries[i])] BY DEF AllEntries
<1>2. HashList(oid, entries) = FlattenSeq(seqs) BY DEF HashList
<1>3. PICK w \in Nat : w = 81 /\ w * m <= 1296
  <2>1. 81 * m <= 1296 OBVIOUS
  <2> QED BY <2>1
<1>4. \A i \in 1 .. m : Whole(seqs[i], <<Kid(SEQUENCE, vals[i])>>) /\ Len(seqs[i]) <= w
  <2> SUFFICES ASSUME NEW i \in 1 .. m
               PROVE  Whole(seqs[i], <<Kid(SEQUENCE, vals[i])>>) /\ Len(seqs[i]) <= w
    OBVIOUS
  <2> DEFINE e == entries[i]
  <2>1. HashEntry(e) BY DEF AllEntries
  <2>2. seqs[i] = Listed(oid, e) /\ vals[i] = EntryBytes(oid, e) BY <1>1 DEF EntriesBytes
  <2> HIDE DEF e, seqs, vals
  <2>3. Whole(Listed(oid, e), <<Kid(SEQUENCE, EntryBytes(oid, e))>>) /\ Len(Listed(oid, e)) <= 81
    BY <2>1, ListedReads
  <2> QED BY <1>3, <2>2, <2>3
<1>5. Len(seqs) = m /\ seqs = [i \in 1 .. m |-> seqs[i]] BY <1>1
<1> HIDE DEF seqs
<1>6. Whole(FlattenSeq(seqs), InSequence(vals, m)) /\ Len(FlattenSeq(seqs)) <= w * m
  <2> HIDE DEF vals
  <2> QED BY <1>4, <1>5, FlatReads
<1>7. Len(cs) = m BY DEF InSequence
<1>8. PICK l \in Nat : l = Len(FlattenSeq(seqs)) BY <1>6, LenProperties DEF Whole
<1>9. l <= 1296 BY <1>3, <1>6, <1>8
<1> QED BY <1>2, <1>6, <1>7, <1>8, <1>9 DEF Chain

LEMMA ListNodesAre ==
    ASSUME NEW oid \in Algorithms, NEW entries, NEW m \in Nat, m <= 16, AllEntries(entries, m)
    PROVE  LET ns == ListNodes(oid, entries)
           IN /\ Len(ns) = m
              /\ \A i \in 1 .. m : /\ TakenAs(ns[i]) <=> Counts(entries[i])
                                   /\ EntryOf(ns[i]).dg = entries[i].dg
                                   /\ EntryOf(ns[i]).hash = HashBytes(oid, entries[i])
<1> DEFINE data == HashList(oid, entries)
           vals == EntriesBytes(oid, entries, m)
           cs == InSequence(vals, m)
           ns == Nodes(data)
<1>1. Chain(data, 1296, cs, m) BY ListReads
<1>2. \A i \in 1 .. m : cs[i] = Kid(SEQUENCE, EntryBytes(oid, entries[i]))
  BY DEF InSequence, EntriesBytes
<1>3. ns = ListNodes(oid, entries) BY DEF ListNodes
<1> HIDE DEF data, cs
<1>4. PICK k \in Nat : k = 1296 /\ k < Huge BY DEF Huge
<1>5. AreOf(ns, m, cs) BY <1>1, <1>4, ChainReads
<1> HIDE DEF ns
<1>6. ASSUME NEW i \in 1 .. m
      PROVE  /\ TakenAs(ns[i]) <=> Counts(entries[i])
             /\ EntryOf(ns[i]).dg = entries[i].dg
             /\ EntryOf(ns[i]).hash = HashBytes(oid, entries[i])
  <2> DEFINE e == entries[i]
             n == ns[i]
             d == EntryBytes(oid, e)
  <2>1. HashEntry(e) BY DEF AllEntries
  <2>2. IsOf(n, SEQUENCE, d)
    <3>1. cs[i] = Kid(SEQUENCE, d) BY <1>2
    <3>2. IsOf(ns[i], cs[i].tag, cs[i].value) BY <1>5 DEF AreOf
    <3> QED BY <3>1, <3>2 DEF Kid
  <2> HIDE DEF e, n
  <2>3. /\ EntryOf(n).dg = e.dg /\ EntryOf(n).hash = HashBytes(oid, e)
        /\ TakenAs(n) <=> e.dg \in 1 .. 16 /\ ~e.empty
    BY <2>1, <2>2, EntryReads
  <2> QED BY <2>3 DEF Counts, e, n
<1>7. Len(ns) = m BY <1>5 DEF AreOf
<1> QED BY <1>3, <1>6, <1>7

\* Digests are the same exactly if what was hashed is.
LEMMA SameHash ==
    ASSUME NEW n \in Nat, n # 0, NEW c, NEW d
    PROVE  /\ HashOf(n, c) = HashOf(n, d) <=> c = d
           /\ Len(HashOf(n, c)) = n /\ HashOf(n, c) # <<>>
<1>1. HashOf(n, c) = [i \in 1 .. n |-> c] /\ HashOf(n, d) = [i \in 1 .. n |-> d]
  BY DEF HashOf
<1>2. 1 \in 1 .. n OBVIOUS
<1>3. HashOf(n, c)[1] = c /\ HashOf(n, d)[1] = d BY <1>1, <1>2
<1>4. Len(HashOf(n, c)) = n BY <1>1
<1>5. HashOf(n, c) # <<>>
  <2>1. Len(<<>>) = 0 OBVIOUS
  <2> QED BY <2>1, <1>4
<1>6. HashOf(n, c) = HashOf(n, d) => c = d BY <1>3
<1>7. c = d => HashOf(n, c) = HashOf(n, d) OBVIOUS
<1> QED BY <1>4, <1>5, <1>6, <1>7

LEMMA VerdictIs ==
    ASSUME NEW oid, NEW entries, NEW m \in Nat, AllEntries(entries, m), NEW dg, NEW content
    PROVE  VerdictOn(oid, entries, dg, content) =
              IF \A i \in 1 .. m : ~Counts(entries[i]) THEN "Unknown"
              ELSE IF oid \notin {Sha1, Sha256} THEN "UnsupportedDigest"
              ELSE IF Listings(entries, m, dg) = {} THEN "NotListed"
              ELSE IF entries[Min(Listings(entries, m, dg))].content = content
              THEN "Match" ELSE "Mismatch"
<1> DEFINE listed == {i \in DOMAIN entries : entries[i].dg \in 1 .. 16 /\ ~entries[i].empty}
           listings == {i \in listed : entries[i].dg = dg}
<1>1. VerdictOn(oid, entries, dg, content) =
         IF listed = {} THEN "Unknown"
         ELSE IF oid \notin {Sha1, Sha256} THEN "UnsupportedDigest"
         ELSE IF listings = {} THEN "NotListed"
         ELSE IF entries[Min(listings)].content = content THEN "Match" ELSE "Mismatch"
  BY DEF VerdictOn
<1>2. \A i : i \in listed <=> i \in 1 .. m /\ Counts(entries[i]) BY DEF AllEntries, Counts
<1>3. listings = Listings(entries, m, dg)
  <2>1. \A i : i \in listings <=> i \in listed /\ entries[i].dg = dg OBVIOUS
  <2>2. \A i : i \in Listings(entries, m, dg) <=> i \in 1 .. m /\ Counts(entries[i]) /\ entries[i].dg = dg
    BY DEF Listings, CountsFor
  <2> HIDE DEF listings, listed
  <2>3. \A i : i \in listings <=> i \in Listings(entries, m, dg) BY <2>1, <2>2, <1>2
  <2> QED BY <2>3
<1> HIDE DEF listings, listed
<1>4. listed = {} <=> \A i \in 1 .. m : ~Counts(entries[i]) BY <1>2
<1> QED BY <1>1, <1>3, <1>4

(***************************************************************************)
(* The hashes that are read lead to the verdict that is right.             *)
(***************************************************************************)
LEMMA FirstListing ==
    ASSUME NEW oid \in Algorithms, NEW entries, NEW m \in Nat, m <= 16, AllEntries(entries, m),
           NEW dg, NEW i, FirstNode(ListNodes(oid, entries), m, dg, i)
    PROVE  /\ Listings(entries, m, dg) # {} /\ Min(Listings(entries, m, dg)) = i
           /\ i \in 1 .. m /\ Counts(entries[i])
<1> DEFINE ns == ListNodes(oid, entries)
           L == Listings(entries, m, dg)
<1>1. \A j \in 1 .. m : Speaks(ns[j], dg) <=> CountsFor(entries[j], dg)
  BY ListNodesAre DEF Speaks, CountsFor
<1>2. i \in 1 .. m /\ Speaks(ns[i], dg) /\ \A j \in 1 .. i - 1 : ~Speaks(ns[j], dg)
  BY DEF FirstNode
<1>3. \A j : j \in L <=> j \in 1 .. m /\ CountsFor(entries[j], dg) BY DEF Listings
<1> HIDE DEF ns, L
<1>4. i \in L BY <1>1, <1>2, <1>3
<1>5. ASSUME NEW j \in L PROVE i <= j
  <2>1. j \in 1 .. m /\ Speaks(ns[j], dg) BY <1>1, <1>3
  <2>2. ~(j \in 1 .. i - 1) BY <2>1, <1>2
  <2> QED BY <2>1, <2>2, <1>2
<1>6. L \in SUBSET Nat BY <1>3
<1>7. Min(L) = i BY <1>4, <1>5, <1>6, LeastIs
<1>8. Counts(entries[i]) BY <1>1, <1>2 DEF CountsFor
<1> QED BY <1>2, <1>4, <1>7, <1>8 DEF L

LEMMA NoListing ==
    ASSUME NEW oid \in Algorithms, NEW entries, NEW m \in Nat, m <= 16, AllEntries(entries, m),
           NEW dg, \A i \in 1 .. m : ~Speaks(ListNodes(oid, entries)[i], dg)
    PROVE  Listings(entries, m, dg) = {}
<1> DEFINE ns == ListNodes(oid, entries)
<1>1. \A j \in 1 .. m : Speaks(ns[j], dg) <=> CountsFor(entries[j], dg)
  BY ListNodesAre DEF Speaks, CountsFor
<1> QED BY <1>1 DEF Listings

\* What the state of a file is when EF.SOD lists a hash for its group.
LEMMA Compared ==
    ASSUME NEW oid \in {Sha1, Sha256}, NEW e, ~e.empty, NEW sod, sod.error = "None",
           sod.digestLen = DigestLen(oid), NEW dg, NEW content,
           SodHashFor(sod, dg) = HashBytes(oid, e)
    PROVE  HashState(sod, dg, Digest(sod, content)) =
              IF e.content = content THEN "Match" ELSE "Mismatch"
<1>1. PICK n \in Nat : n = DigestLen(oid) /\ n = SignedLen(oid) /\ n \in {20, 32} /\ n # 0
  <2>1. oid \in Algorithms BY DEF Algorithms
  <2>2. DigestLen(oid) = SignedLen(oid) /\ DigestLen(oid) \in {20, 32}
    BY <2>1, AlgorithmIs
  <2>3. \A n \in {20, 32} : n \in Nat /\ n # 0 OBVIOUS
  <2> QED BY <2>2, <2>3
<1> DEFINE x == HashOf(n, e.content)
           y == HashOf(n, content)
<1>2. SodHashFor(sod, dg) = x BY <1>1 DEF HashBytes
<1>3. Digest(sod, content) = y BY <1>1 DEF Digest
<1>4. (x = y <=> e.content = content) /\ Len(x) = n /\ x # <<>> BY <1>1, SameHash
<1>5. Len(y) = n /\ y # <<>> BY <1>1, SameHash
<1> HIDE DEF x, y
<1>6. HashState(sod, dg, y) = IF x = y THEN "Match" ELSE "Mismatch"
  BY <1>1, <1>2, <1>4, <1>5 DEF HashState
<1> QED BY <1>3, <1>4, <1>6

\* The hashes of a list lead to the verdict that is right.
LEMMA HashesJudge ==
    ASSUME NEW oid \in Algorithms, NEW entries, NEW m \in Nat, m <= 16, AllEntries(entries, m),
           NEW sod, SodOf(sod, oid, entries), NEW dg, NEW content
    PROVE  HashState(sod, dg, Digest(sod, content)) = VerdictOn(oid, entries, dg, content)
<1> DEFINE ns == ListNodes(oid, entries)
           H == Hashes(ns)
<1>0. /\ VerdictOn(oid, entries, dg, content) =
              IF \A i \in 1 .. m : ~Counts(entries[i]) THEN "Unknown"
              ELSE IF oid \notin {Sha1, Sha256} THEN "UnsupportedDigest"
              ELSE IF Listings(entries, m, dg) = {} THEN "NotListed"
              ELSE IF entries[Min(Listings(entries, m, dg))].content = content
              THEN "Match" ELSE "Mismatch"
  BY VerdictIs
<1>1. Len(ns) = m /\ \A i \in 1 .. m : /\ TakenAs(ns[i]) <=> Counts(entries[i])
                                       /\ EntryOf(ns[i]).hash = HashBytes(oid, entries[i])
  BY ListNodesAre
<1>2. Slotted(ns, m, H) /\ Len(H) \in Nat /\ DOMAIN H = 1 .. Len(H)
  BY <1>1, HashesOfAnyList
<1>3. IF H = <<>> THEN sod.error = "Parse"
      ELSE sod.error = "None" /\ sod.hashes = H /\ sod.digestLen = DigestLen(oid)
  BY DEF SodOf
<1> HIDE DEF ns, H
<1>4. H = <<>> <=> \A i \in 1 .. m : ~Counts(entries[i]) BY <1>1, <1>2 DEF Slotted
<1>5. CASE H = <<>>
  <2>1. sod.error = "Parse" BY <1>3, <1>5
  <2>2. HashState(sod, dg, Digest(sod, content)) = "Unknown" BY <2>1 DEF HashState
  <2> QED BY <2>2, <1>0, <1>4, <1>5
<1>6. CASE H # <<>> /\ oid \notin {Sha1, Sha256}
  <2>1. sod.error = "None" /\ sod.digestLen \notin {20, 32} BY <1>3, <1>6, AlgorithmIs
  <2>2. Digest(sod, content) = <<>> BY <2>1 DEF Digest
  <2>3. HashState(sod, dg, Digest(sod, content)) = "UnsupportedDigest"
    BY <2>1, <2>2 DEF HashState
  <2> QED BY <2>3, <1>0, <1>4, <1>6
<1>7. CASE H # <<>> /\ oid \in {Sha1, Sha256}
  <2>1. sod.error = "None" /\ sod.hashes = H /\ sod.digestLen = DigestLen(oid)
    BY <1>3, <1>7
  <2>2. Unlisted(ns, m, H, dg) \/ SameFirst(ns, m, H, dg)
    <3>1. m <= SodHashMax BY DEF SodHashMax
    <3> QED BY <3>1, <1>2 DEF Slotted, Reflects
  <2>3. CASE Unlisted(ns, m, H, dg)
    <3>1. (\A i \in 1 .. m : ~Speaks(ns[i], dg)) /\ \A p \in 1 .. Len(H) : H[p].dg # dg
      BY <2>3 DEF Unlisted
    <3>2. Listings(entries, m, dg) = {} BY <3>1, NoListing DEF ns
    <3>3. SodHashFor(sod, dg) = <<>> BY <3>1, <2>1, <1>2, HashForIs
    <3>4. PICK n \in Nat : n = DigestLen(oid) /\ n \in {20, 32} /\ n # 0
      <4>1. DigestLen(oid) \in {20, 32} BY <1>7, AlgorithmIs
      <4>2. \A n \in {20, 32} : n \in Nat /\ n # 0 OBVIOUS
      <4> QED BY <4>1, <4>2
    <3>5. Digest(sod, content) = HashOf(n, content) BY <3>4, <2>1 DEF Digest
    <3>6. HashOf(n, content) # <<>> BY <3>4, SameHash
    <3>7. HashState(sod, dg, Digest(sod, content)) = "NotListed"
      BY <3>3, <3>4, <3>5, <3>6, <2>1 DEF HashState
    <3> QED BY <3>2, <3>7, <1>0, <1>4, <1>7
  <2>4. CASE SameFirst(ns, m, H, dg)
    <3>1. PICK i, p : /\ FirstNode(ns, m, dg, i) /\ FirstSlot(H, dg, p)
                      /\ H[p].hash = EntryOf(ns[i]).hash
      BY <2>4 DEF SameFirst
    <3>2. /\ Listings(entries, m, dg) # {} /\ Min(Listings(entries, m, dg)) = i
          /\ i \in 1 .. m /\ Counts(entries[i])
      BY <3>1, FirstListing DEF ns
    <3>3. SodHashFor(sod, dg) = H[p].hash BY <3>1, <2>1, <1>2, HashForIs
    <3> DEFINE e == entries[i]
    <3>4. SodHashFor(sod, dg) = HashBytes(oid, e) /\ ~e.empty
      BY <3>1, <3>2, <3>3, <1>1 DEF Counts
    <3> HIDE DEF e
    <3>5. HashState(sod, dg, Digest(sod, content)) =
              IF e.content = content THEN "Match" ELSE "Mismatch"
      BY <3>4, <2>1, <1>7, Compared
    <3> QED BY <3>2, <3>5, <1>0, <1>4, <1>7 DEF e
  <2> QED BY <2>2, <2>3, <2>4
<1> QED BY <1>5, <1>6, <1>7

(***************************************************************************)
(* EF.SOD, from the inside out.                                            *)
(***************************************************************************)
\* Nodes one behind the other.
LEMMA ChainTwo ==
    ASSUME NEW a, NEW n \in Nat, NEW c, Chain(a, n, c, 1),
           NEW b, NEW k \in Nat, NEW y, Chain(b, k, <<y>>, 1)
    PROVE  \E cs : Chain(a \o b, n + k, cs, 2) /\ cs[1] = c[1] /\ cs[2] = y
<1> DEFINE d == c \o <<y>>
<1>2. PICK o \in Nat : o = 1 /\ o + 1 = 2 OBVIOUS
<1>3. Chain(a, n, c, o) BY <1>2
<1>4. Chain(a \o b, n + k, d, o + 1) /\ Grown(d, c, o, y) BY <1>3, ChainMore
<1> HIDE DEF d
<1>5. Chain(a \o b, n + k, d, 2) BY <1>2, <1>4
<1>6. 1 \in 1 .. o BY <1>2
<1>7. d[1] = c[1] /\ d[2] = y BY <1>2, <1>4, <1>6 DEF Grown
<1> QED BY <1>5, <1>7

LEMMA ChainThree ==
    ASSUME NEW a, NEW n \in Nat, NEW c, Chain(a, n, c, 2),
           NEW b, NEW k \in Nat, NEW y, Chain(b, k, <<y>>, 1)
    PROVE  \E cs : Chain(a \o b, n + k, cs, 3) /\ cs[1] = c[1] /\ cs[2] = c[2] /\ cs[3] = y
<1> DEFINE d == c \o <<y>>
<1>2. PICK o \in Nat : o = 2 /\ o + 1 = 3 OBVIOUS
<1>3. Chain(a, n, c, o) BY <1>2
<1>4. Chain(a \o b, n + k, d, o + 1) /\ Grown(d, c, o, y) BY <1>3, ChainMore
<1> HIDE DEF d
<1>5. Chain(a \o b, n + k, d, 3) BY <1>2, <1>4
<1>6. 1 \in 1 .. o /\ 2 \in 1 .. o BY <1>2
<1>7. d[1] = c[1] /\ d[2] = c[2] /\ d[3] = y BY <1>2, <1>4, <1>6 DEF Grown
<1> QED BY <1>5, <1>7

LEMMA ChainFour ==
    ASSUME NEW a, NEW n \in Nat, NEW c, Chain(a, n, c, 3),
           NEW b, NEW k \in Nat, NEW y, Chain(b, k, <<y>>, 1)
    PROVE  \E cs : /\ Chain(a \o b, n + k, cs, 4)
                   /\ cs[1] = c[1] /\ cs[2] = c[2] /\ cs[3] = c[3] /\ cs[4] = y
<1> DEFINE d == c \o <<y>>
<1>2. PICK o \in Nat : o = 3 /\ o + 1 = 4 OBVIOUS
<1>3. Chain(a, n, c, o) BY <1>2
<1>4. Chain(a \o b, n + k, d, o + 1) /\ Grown(d, c, o, y) BY <1>3, ChainMore
<1> HIDE DEF d
<1>5. Chain(a \o b, n + k, d, 4) BY <1>2, <1>4
<1>6. 1 \in 1 .. o /\ 2 \in 1 .. o /\ 3 \in 1 .. o BY <1>2
<1>7. d[1] = c[1] /\ d[2] = c[2] /\ d[3] = c[3] /\ d[4] = y BY <1>2, <1>4, <1>6 DEF Grown
<1> QED BY <1>5, <1>7

LEMMA ChainFive ==
    ASSUME NEW a, NEW n \in Nat, NEW c, Chain(a, n, c, 4),
           NEW b, NEW k \in Nat, NEW y, Chain(b, k, <<y>>, 1)
    PROVE  \E cs : /\ Chain(a \o b, n + k, cs, 5) /\ cs[1] = c[1] /\ cs[2] = c[2]
                   /\ cs[3] = c[3] /\ cs[4] = c[4] /\ cs[5] = y
<1> DEFINE d == c \o <<y>>
<1>2. PICK o \in Nat : o = 4 /\ o + 1 = 5 OBVIOUS
<1>3. Chain(a, n, c, o) BY <1>2
<1>4. Chain(a \o b, n + k, d, o + 1) /\ Grown(d, c, o, y) BY <1>3, ChainMore
<1> HIDE DEF d
<1>5. Chain(a \o b, n + k, d, 5) BY <1>2, <1>4
<1>6. 1 \in 1 .. o /\ 2 \in 1 .. o /\ 3 \in 1 .. o /\ 4 \in 1 .. o BY <1>2
<1>7. d[1] = c[1] /\ d[2] = c[2] /\ d[3] = c[3] /\ d[4] = c[4] /\ d[5] = y
  BY <1>2, <1>4, <1>6 DEF Grown
<1> QED BY <1>5, <1>7

\* A node in the writing, by the bytes of what it holds.
LEMMA ChainWrap ==
    ASSUME NEW t, Simple(t), NEW v, NEW k \in Nat, NEW cs, NEW m, Chain(v, k, cs, m), k < Huge
    PROVE  Chain(Wrap(t, v), k + 5, <<Kid(t, v)>>, 1)
<1>1. v \in Seq(Byte) /\ Len(v) <= k BY DEF Chain, Whole
<1> QED BY <1>1, ChainOne

LEMMA OidChain ==
    ASSUME NEW oid \in Seq(Byte), Len(oid) <= 9
    PROVE  Chain(Wrap(OID, oid), 14, <<Kid(OID, oid)>>, 1)
<1>1. PICK k \in Nat : k = 9 /\ k < Huge /\ k + 5 = 14 BY DEF Huge
<1>2. Simple(OID) /\ Len(oid) <= k BY <1>1, TagsOfSod
<1>3. Chain(Wrap(OID, oid), k + 5, <<Kid(OID, oid)>>, 1) BY <1>1, <1>2, ChainOne
<1> QED BY <1>1, <1>3

LEMMA IntegerChain ==
    ASSUME NEW n \in Nat, n \div 256 < 256
    PROVE  Chain(DerInteger(n), 7, <<Kid(INTEGER, IntegerBytes(n))>>, 1)
<1> DEFINE x == Kid(INTEGER, IntegerBytes(n))
<1>1. Whole(DerInteger(n), <<x>>) /\ Len(DerInteger(n)) <= 7 BY IntegerReads
<1> HIDE DEF x
<1>2. Len(<<x>>) = 1 OBVIOUS
<1>3. Chain(DerInteger(n), 7, <<x>>, 1) BY <1>1, <1>2 DEF Chain
<1> QED BY <1>3 DEF x

LEMMA AlgorithmChain ==
    ASSUME NEW oid \in Algorithms
    PROVE  /\ Chain(Wrap(OID, oid), 14, <<Kid(OID, oid)>>, 1)
           /\ Chain(AlgorithmBytes(oid), 19, <<Kid(SEQUENCE, Wrap(OID, oid))>>, 1)
<1>1. oid \in Seq(Byte) /\ Len(oid) <= 9
  <2>1. oid \in Seq(Byte) /\ (Len(oid) = 5 \/ Len(oid) = 9) BY AlgorithmIs
  <2>2. PICK n \in Nat : n = Len(oid) BY <2>1, LenProperties
  <2>3. n = 5 \/ n = 9 BY <2>1, <2>2
  <2>4. n <= 9 BY <2>3
  <2>5. Len(oid) <= 9 BY <2>2, <2>4
  <2> QED BY <2>1, <2>5
<1>2. Chain(Wrap(OID, oid), 14, <<Kid(OID, oid)>>, 1) BY <1>1, OidChain
<1>3. PICK k \in Nat : k = 14 /\ k < Huge /\ k + 5 = 19 BY DEF Huge
<1>4. Simple(SEQUENCE) BY TagsOfSod
<1> DEFINE v == Wrap(OID, oid)
           cs == <<Kid(OID, oid)>>
<1>5. Chain(v, k, cs, 1) BY <1>2, <1>3
<1> HIDE DEF v, cs
<1>6. Chain(Wrap(SEQUENCE, v), k + 5, <<Kid(SEQUENCE, v)>>, 1)
  BY <1>3, <1>4, <1>5, ChainWrap
<1> QED BY <1>2, <1>3, <1>6 DEF AlgorithmBytes, v

LEMMA ObjectChain ==
    ASSUME NEW oid \in Algorithms, NEW entries, NEW m \in Nat, m <= 16, AllEntries(entries, m)
    PROVE  \E cs : /\ Chain(ObjectBytes(oid, entries), 1327, cs, 3)
                   /\ cs[1] = Kid(INTEGER, IntegerBytes(0))
                   /\ cs[2] = Kid(SEQUENCE, Wrap(OID, oid))
                   /\ cs[3] = Kid(SEQUENCE, HashList(oid, entries))
<1> DEFINE a == DerInteger(0)
           b == AlgorithmBytes(oid)
           h == HashList(oid, entries)
           c == Wrap(SEQUENCE, h)
           x == Kid(INTEGER, IntegerBytes(0))
           y == Kid(SEQUENCE, Wrap(OID, oid))
           z == Kid(SEQUENCE, h)
<1>1. PICK i, j, k \in Nat : i = 7 /\ j = 19 /\ k = 1296 /\ k < Huge /\ (i + j) + (k + 5) = 1327
  BY DEF Huge
<1>2. Chain(a, i, <<x>>, 1)
  <2>1. 0 \in Nat /\ 0 \div 256 < 256 OBVIOUS
  <2> QED BY <2>1, <1>1, IntegerChain
<1>3. Chain(b, j, <<y>>, 1)
  <2>1. Chain(b, 19, <<y>>, 1) BY AlgorithmChain
  <2> QED BY <2>1, <1>1
<1>4. Chain(h, k, InSequence(EntriesBytes(oid, entries, m), m), m) BY <1>1, ListReads
<1>5. Simple(SEQUENCE) BY TagsOfSod
<1> HIDE DEF h
<1>6. Chain(c, k + 5, <<z>>, 1) BY <1>1, <1>4, <1>5, ChainWrap
<1> HIDE DEF a, b, c, x, y, z
<1> DEFINE u == <<x>>
<1>u. Chain(a, i, u, 1) /\ u[1] = x
  BY <1>2
<1> HIDE DEF u
<1>7. PICK cs : Chain(a \o b, i + j, cs, 2) /\ cs[1] = u[1] /\ cs[2] = y
  BY <1>3, <1>u, ChainTwo
<1>8. i + j \in Nat /\ k + 5 \in Nat OBVIOUS
<1>9. PICK ds : /\ Chain((a \o b) \o c, (i + j) + (k + 5), ds, 3)
                /\ ds[1] = cs[1] /\ ds[2] = cs[2] /\ ds[3] = z
  BY <1>6, <1>7, <1>8, ChainThree
<1>10. (a \o b) \o c = ObjectBytes(oid, entries) BY DEF ObjectBytes, a, b, c, h
<1> QED BY <1>1, <1>u, <1>7, <1>9, <1>10 DEF x, y, z, h

LEMMA ObjectReads ==
    ASSUME NEW oid \in Algorithms, NEW entries, NEW m \in Nat, m <= 16, AllEntries(entries, m)
    PROVE  Chain(ObjectOf(oid, entries), 1332, <<Kid(SEQUENCE, ObjectBytes(oid, entries))>>, 1)
<1> DEFINE b == ObjectBytes(oid, entries)
           c == <<Kid(SEQUENCE, b)>>
<1>1. PICK cs : Chain(b, 1327, cs, 3) BY ObjectChain
<1>2. PICK k \in Nat : k = 1327 /\ k < Huge /\ k + 5 = 1332 BY DEF Huge
<1>3. Simple(SEQUENCE) /\ Chain(b, k, cs, 3) BY <1>1, <1>2, TagsOfSod
<1> HIDE DEF b
<1>4. Chain(Wrap(SEQUENCE, b), k + 5, c, 1) BY <1>2, <1>3, ChainWrap
<1> HIDE DEF c
<1>5. Chain(Wrap(SEQUENCE, b), 1332, c, 1) BY <1>2, <1>4
<1> QED BY <1>5 DEF ObjectOf, c, b

LEMMA ObjectFirst ==
    ASSUME NEW oid \in Algorithms, NEW entries, NEW m \in Nat, m <= 16, AllEntries(entries, m)
    PROVE  IsOf(First(ObjectOf(oid, entries)), SEQUENCE, ObjectBytes(oid, entries))
<1> DEFINE b == ObjectBytes(oid, entries)
           v == ObjectOf(oid, entries)
           c == <<Kid(SEQUENCE, b)>>
<1>1. Chain(v, 1332, c, 1) BY ObjectReads
<1>2. c[1] = Kid(SEQUENCE, b) OBVIOUS
<1> HIDE DEF b, v, c
<1>3. PICK l, o \in Nat : l = 1332 /\ l < Huge /\ o = 1 /\ o # 0 BY DEF Huge
<1>4. Chain(v, l, c, o) BY <1>1, <1>3
<1>5. v \in Seq(Byte) /\ Len(v) < Huge /\ AreOf(Nodes(v), o, c)
  <2>1. l \in Nat /\ l < Huge BY <1>3
  <2> QED BY <2>1, <1>4, ChainReads
<1>6. IsOf(First(v), SEQUENCE, b) BY <1>2, <1>3, <1>5, FirstOf
<1> QED BY <1>6 DEF v, b

\* The SEQUENCEs of the object: the algorithm and the list.
LEMMA ObjectParts ==
    ASSUME NEW oid \in Algorithms, NEW entries, NEW m \in Nat, m <= 16, AllEntries(entries, m),
           NEW object, IsOf(object, SEQUENCE, ObjectBytes(oid, entries))
    PROVE  LET parts == Children(object)
               sequences == PlacesOf(parts, SEQUENCE)
           IN /\ Later(sequences) # {} /\ Min(sequences) = 2 /\ Min(Later(sequences)) = 3
              /\ IsOf(parts[2], SEQUENCE, Wrap(OID, oid))
              /\ IsOf(parts[3], SEQUENCE, HashList(oid, entries))
<1> DEFINE b == ObjectBytes(oid, entries)
           h == HashList(oid, entries)
           a == Wrap(OID, oid)
           parts == Children(object)
           P == PlacesOf(parts, SEQUENCE)
           Q == Later(P)
<1>1. PICK cs : /\ Chain(b, 1327, cs, 3)
                /\ cs[1] = Kid(INTEGER, IntegerBytes(0))
                /\ cs[2] = Kid(SEQUENCE, a) /\ cs[3] = Kid(SEQUENCE, h)
  BY ObjectChain
<1>2. PICK k, o \in Nat : k = 1327 /\ k < Huge /\ o = 3 BY DEF Huge
<1>3. object.constructed /\ object.value = b BY TagsOfSod DEF IsOf
<1>4. parts = Nodes(b) BY <1>3 DEF Children
<1> HIDE DEF b, h, a, parts
<1>5. Chain(b, k, cs, o) BY <1>1, <1>2
<1>6. AreOf(parts, o, cs) BY <1>2, <1>4, <1>5, ChainReads
<1>7. cs[1].tag = INTEGER /\ cs[2].tag = SEQUENCE /\ cs[3].tag = SEQUENCE
      /\ cs[2].value = a /\ cs[3].value = h /\ INTEGER # SEQUENCE
  BY <1>1, TagsOfSod DEF Kid
<1>8. (\A i : i \in P <=> i \in 1 .. o /\ cs[i].tag = SEQUENCE) /\ P \in SUBSET Nat
  BY <1>6, PlacesIn
<1>9. \A i : i \in Q <=> i \in P /\ \E j \in P : j < i BY DEF Later
<1> HIDE DEF P, Q
<1>10. \A i : i \in 1 .. o <=> i = 1 \/ i = 2 \/ i = 3 BY <1>2
<1>11. \A i : i \in P <=> i = 2 \/ i = 3 BY <1>7, <1>8, <1>10
<1>12. \A i : i \in Q <=> i = 3 BY <1>9, <1>11
<1>13. Min(P) = 2
  <2>1. 2 \in P /\ P \in SUBSET Nat /\ \A x \in P : 2 <= x BY <1>11
  <2> QED BY <2>1, LeastIs
<1>14. Min(Q) = 3
  <2>1. 3 \in Q /\ Q \in SUBSET Nat /\ \A x \in Q : 3 <= x BY <1>12
  <2> QED BY <2>1, LeastIs
<1>15. IsOf(parts[2], SEQUENCE, a) /\ IsOf(parts[3], SEQUENCE, h)
  BY <1>6, <1>7, <1>10 DEF AreOf
<1>16. Q # {} BY <1>12
<1> QED BY <1>13, <1>14, <1>15, <1>16 DEF P, Q, parts, a, h

LEMMA SecurityObjectIs ==
    ASSUME NEW oid \in Algorithms, NEW entries, NEW m \in Nat, m <= 16, AllEntries(entries, m),
           NEW octets, octets.value = ObjectOf(oid, entries), NEW certificate
    PROVE  SodOf(SecurityObject(octets, certificate), oid, entries)
<1> DEFINE object == First(octets.value)
           parts == Children(object)
           P == PlacesOf(parts, SEQUENCE)
           algorithm == Find(parts[Min(P)].value, OID)
           list == Children(parts[Min(Later(P))])
           H == Hashes(list)
<1>1. IsOf(object, SEQUENCE, ObjectBytes(oid, entries))
  <2> DEFINE v == ObjectOf(oid, entries)
             b == ObjectBytes(oid, entries)
  <2>1. IsOf(First(v), SEQUENCE, b) BY ObjectFirst
  <2> HIDE DEF v, b
  <2>2. octets.value = v BY DEF v
  <2> QED BY <2>1, <2>2 DEF b
<1>2. /\ Later(P) # {} /\ Min(P) = 2 /\ Min(Later(P)) = 3
      /\ IsOf(parts[2], SEQUENCE, Wrap(OID, oid))
      /\ IsOf(parts[3], SEQUENCE, HashList(oid, entries))
  <2> HIDE DEF object
  <2> QED BY <1>1, ObjectParts
<1>3. SecurityObject(octets, certificate) =
        IF object = None THEN [error |-> "Parse"]
        ELSE IF object.tag # SEQUENCE THEN [error |-> "Parse"]
        ELSE IF Later(P) = {} THEN [error |-> "Parse"]
        ELSE IF H = <<>> THEN [error |-> "Parse"]
        ELSE [error |-> "None", certificate |-> certificate, hashes |-> H,
              digestLen |-> IF algorithm = None THEN 0 ELSE DigestLen(algorithm.value)]
  BY DEF SecurityObject
<1>4. object # None /\ object.tag = SEQUENCE BY <1>1 DEF IsOf
<1>5. list = ListNodes(oid, entries)
  <2>1. parts[3].constructed /\ parts[3].value = HashList(oid, entries)
    BY <1>2, TagsOfSod DEF IsOf
  <2> HIDE DEF parts, P
  <2>2. Children(parts[3]) = Nodes(HashList(oid, entries)) BY <2>1 DEF Children
  <2> QED BY <2>2, <1>2 DEF ListNodes
<1>6. algorithm # None /\ algorithm.value = oid
  <2> DEFINE v == Wrap(OID, oid)
             cs == <<Kid(OID, oid)>>
  <2>1. Chain(v, 14, cs, 1) /\ cs[1] = Kid(OID, oid) BY AlgorithmChain
  <2>2. PICK k, o \in Nat : k = 14 /\ k < Huge /\ o = 1 BY DEF Huge
  <2>3. parts[Min(P)].value = v BY <1>2 DEF IsOf
  <2> HIDE DEF v, cs, parts, P
  <2>4. AreOf(Nodes(v), o, cs) BY <2>1, <2>2, ChainReads
  <2>5. 1 \in 1 .. o /\ \A i : i \notin 1 .. 1 - 1 BY <2>2
  <2>6. IsOf(Find(v, OID), OID, oid) BY <2>1, <2>4, <2>5, FoundIn
  <2> QED BY <2>3, <2>6 DEF IsOf
<1> HIDE DEF object, parts, P, algorithm, list
<1>7. SecurityObject(octets, certificate) =
        IF H = <<>> THEN [error |-> "Parse"]
        ELSE [error |-> "None", certificate |-> certificate, hashes |-> H,
              digestLen |-> DigestLen(oid)]
  BY <1>2, <1>3, <1>4, <1>6
<1>8. H = Hashes(ListNodes(oid, entries)) BY <1>5
<1> HIDE DEF H
<1>9. CASE H = <<>> BY <1>7, <1>8, <1>9 DEF SodOf
<1>10. CASE H # <<>>
  <2>1. SecurityObject(octets, certificate) =
          [error |-> "None", certificate |-> certificate, hashes |-> H,
           digestLen |-> DigestLen(oid)]
    BY <1>7, <1>10
  <2> QED BY <2>1, <1>8, <1>10 DEF SodOf
<1> QED BY <1>9, <1>10

LEMMA TypesAre ==
    /\ LdsSecurityObject \in Seq(Byte) /\ Len(LdsSecurityObject) <= 9
    /\ SignedData \in Seq(Byte) /\ Len(SignedData) <= 9
<1>1. /\ 103 \in Byte /\ 129 \in Byte /\ 8 \in Byte /\ 1 \in Byte /\ 42 \in Byte /\ 134 \in Byte
      /\ 72 \in Byte /\ 247 \in Byte /\ 13 \in Byte /\ 7 \in Byte /\ 2 \in Byte
  BY ByteIs
<1>2. LdsSecurityObject \in Seq(Byte) /\ Len(LdsSecurityObject) = 6
  BY <1>1 DEF LdsSecurityObject
<1>3. SignedData \in Seq(Byte) /\ Len(SignedData) = 9 BY <1>1 DEF SignedData
<1> QED BY <1>2, <1>3

LEMMA OctetsChain ==
    ASSUME NEW oid \in Algorithms, NEW entries, NEW m \in Nat, m <= 16, AllEntries(entries, m)
    PROVE  Chain(OctetsOf(oid, entries), 1337, <<Kid(OCTET_STRING, ObjectOf(oid, entries))>>, 1)
<1> DEFINE b == ObjectOf(oid, entries)
           v == OctetsOf(oid, entries)
           d == <<Kid(SEQUENCE, ObjectBytes(oid, entries))>>
           x == Kid(OCTET_STRING, b)
           c == <<x>>
<1>1. Chain(b, 1332, d, 1) BY ObjectReads
<1>2. PICK k \in Nat : k = 1332 /\ k < Huge /\ k + 5 = 1337 BY DEF Huge
<1>3. v = Wrap(OCTET_STRING, b) BY DEF OctetsOf
<1> HIDE DEF b, d, v
<1>4. Simple(OCTET_STRING) /\ Chain(b, k, d, 1) BY <1>1, <1>2, TagsOfSod
<1>5. Chain(Wrap(OCTET_STRING, b), k + 5, c, 1) BY <1>2, <1>4, ChainWrap
<1> HIDE DEF c, x
<1>6. Chain(v, 1337, c, 1) BY <1>2, <1>3, <1>5
<1> QED BY <1>6 DEF v, c, x, b

LEMMA OctetsFound ==
    ASSUME NEW oid \in Algorithms, NEW entries, NEW m \in Nat, m <= 16, AllEntries(entries, m)
    PROVE  IsOf(Find(OctetsOf(oid, entries), OCTET_STRING), OCTET_STRING, ObjectOf(oid, entries))
<1> DEFINE b == ObjectOf(oid, entries)
           v == OctetsOf(oid, entries)
           c == <<Kid(OCTET_STRING, b)>>
<1>1. Chain(v, 1337, c, 1) BY OctetsChain
<1>2. PICK l, o \in Nat : l = 1337 /\ l < Huge /\ o = 1 BY DEF Huge
<1>3. c[1] = Kid(OCTET_STRING, b) OBVIOUS
<1> HIDE DEF b, v, c
<1>4. l < Huge /\ Chain(v, l, c, o) BY <1>1, <1>2
<1>5. AreOf(Nodes(v), o, c) BY <1>4, ChainReads
<1>6. 1 \in 1 .. o /\ \A i : i \notin 1 .. 1 - 1 BY <1>2
<1>7. IsOf(Find(v, OCTET_STRING), OCTET_STRING, b) BY <1>3, <1>5, <1>6, FoundIn
<1> QED BY <1>7 DEF v, b

LEMMA EncapChain ==
    ASSUME NEW oid \in Algorithms, NEW entries, NEW m \in Nat, m <= 16, AllEntries(entries, m)
    PROVE  LET v == EncapBytes(oid, entries)
           IN /\ \E cs : Chain(v, 1356, cs, 2)
              /\ IsOf(Find(v, OID), OID, LdsSecurityObject)
              /\ IsOf(Find(v, CONTEXT_0), CONTEXT_0, OctetsOf(oid, entries))
<1> DEFINE v == EncapBytes(oid, entries)
           s == OctetsOf(oid, entries)
           d == <<Kid(OCTET_STRING, ObjectOf(oid, entries))>>
           a == Wrap(OID, LdsSecurityObject)
           b == Wrap(CONTEXT_0, s)
           c == <<Kid(OID, LdsSecurityObject)>>
           y == Kid(CONTEXT_0, s)
<1>1. Chain(s, 1337, d, 1) BY OctetsChain
<1>2. PICK i, k, o \in Nat : /\ i = 14 /\ k = 1337 /\ k < Huge /\ i + (k + 5) = 1356 /\ o = 2
                             /\ i + (k + 5) < Huge
  BY DEF Huge
<1>3. Chain(a, i, c, 1) /\ c[1] = Kid(OID, LdsSecurityObject)
  <2>1. Chain(a, 14, c, 1) BY TypesAre, OidChain
  <2> QED BY <2>1, <1>2
<1>4. v = a \o b BY DEF EncapBytes
<1> HIDE DEF s, d, a, c, v
<1>5. Simple(CONTEXT_0) /\ Chain(s, k, d, 1) BY <1>1, <1>2, TagsOfSod
<1>6. Chain(b, k + 5, <<y>>, 1) BY <1>2, <1>5, ChainWrap
<1>7. y.tag = CONTEXT_0 /\ y = Kid(CONTEXT_0, s) /\ k + 5 \in Nat BY DEF Kid
<1> HIDE DEF b, y
<1>8. PICK cs : Chain(a \o b, i + (k + 5), cs, 2) /\ cs[1] = c[1] /\ cs[2] = y
  BY <1>3, <1>6, <1>7, ChainTwo
<1>9. Chain(v, i + (k + 5), cs, o) /\ i + (k + 5) \in Nat /\ i + (k + 5) < Huge
  BY <1>2, <1>4, <1>8
<1>10. AreOf(Nodes(v), o, cs) BY <1>9, ChainReads
<1>11. cs[1].tag = OID /\ OID # CONTEXT_0 /\ cs[1] = Kid(OID, LdsSecurityObject)
       /\ cs[2] = Kid(CONTEXT_0, s)
  BY <1>3, <1>7, <1>8, TagsOfSod DEF Kid
<1>12. IsOf(Find(v, OID), OID, LdsSecurityObject)
  <2>1. 1 \in 1 .. o /\ \A j : j \notin 1 .. 1 - 1 BY <1>2
  <2> QED BY <2>1, <1>10, <1>11, FoundIn
<1>13. IsOf(Find(v, CONTEXT_0), CONTEXT_0, s)
  <2>1. 2 \in 1 .. o /\ \A j \in 1 .. 2 - 1 : j = 1 BY <1>2
  <2>2. \A j \in 1 .. 2 - 1 : cs[j].tag # CONTEXT_0 BY <2>1, <1>11
  <2> QED BY <2>1, <2>2, <1>10, <1>11, FoundIn
<1>14. Chain(v, 1356, cs, 2) BY <1>2, <1>4, <1>8
<1> QED BY <1>12, <1>13, <1>14 DEF v, s

LEMMA SetsChain ==
    ASSUME NEW oid \in Algorithms
    PROVE  LET a == AlgorithmBytes(oid)
           IN /\ Chain(Wrap(SET, a), 24, <<Kid(SET, a)>>, 1)
              /\ Chain(Wrap(SET, Wrap(SEQUENCE, a)), 29, <<Kid(SET, Wrap(SEQUENCE, a))>>, 1)
<1> DEFINE a == AlgorithmBytes(oid)
           s == Wrap(SEQUENCE, a)
           c == <<Kid(SEQUENCE, Wrap(OID, oid))>>
           d == <<Kid(SEQUENCE, a)>>
           x == <<Kid(SET, a)>>
           y == <<Kid(SET, s)>>
<1>1. Chain(a, 19, c, 1) BY AlgorithmChain
<1>2. PICK k, l \in Nat : k = 19 /\ k < Huge /\ k + 5 = l /\ l = 24 /\ l < Huge /\ l + 5 = 29
  BY DEF Huge
<1> HIDE DEF a, c
<1>3. Simple(SET) /\ Simple(SEQUENCE) /\ Chain(a, k, c, 1) BY <1>1, <1>2, TagsOfSod
<1>4. Chain(Wrap(SET, a), k + 5, x, 1) BY <1>2, <1>3, ChainWrap
<1>5. Chain(s, k + 5, d, 1) BY <1>2, <1>3, ChainWrap
<1> HIDE DEF s, d
<1>6. Chain(s, l, d, 1) BY <1>2, <1>5
<1>7. Chain(Wrap(SET, s), l + 5, y, 1) BY <1>2, <1>3, <1>6, ChainWrap
<1> HIDE DEF x, y
<1>8. Chain(Wrap(SET, a), 24, x, 1) /\ Chain(Wrap(SET, s), 29, y, 1) BY <1>2, <1>4, <1>7
<1> QED BY <1>8 DEF x, y, s, a

LEMMA CertificateChain ==
    \E x : Chain(Wrap(CONTEXT_0, Wrap(SEQUENCE, <<>>)), 10, <<x>>, 1)
<1> DEFINE s == Wrap(SEQUENCE, <<>>)
           c == <<Kid(SEQUENCE, <<>>)>>
<1>1. PICK k, l \in Nat : k = 0 /\ k < Huge /\ k + 5 = l /\ l < Huge /\ l + 5 = 10
  BY DEF Huge
<1>2. <<>> \in Seq(Byte) /\ Len(<<>>) <= k BY <1>1
<1>3. Simple(SEQUENCE) /\ Simple(CONTEXT_0) BY TagsOfSod
<1>4. Chain(s, k + 5, c, 1) BY <1>1, <1>2, <1>3, ChainOne
<1> HIDE DEF s, c
<1>5. Chain(s, l, c, 1) BY <1>1, <1>4
<1> DEFINE x == Kid(CONTEXT_0, s)
<1>6. Chain(Wrap(CONTEXT_0, s), l + 5, <<x>>, 1) BY <1>1, <1>3, <1>5, ChainWrap
<1> HIDE DEF x
<1>7. Chain(Wrap(CONTEXT_0, s), 10, <<x>>, 1) BY <1>1, <1>6
<1> QED BY <1>7 DEF s

LEMMA ChainWithin ==
    ASSUME NEW data, NEW n \in Nat, NEW cs, NEW m, Chain(data, n, cs, m), NEW k \in Nat, n <= k
    PROVE  Chain(data, k, cs, m)
<1>1. Whole(data, cs) /\ Len(data) <= n /\ Len(cs) = m BY DEF Chain
<1>2. PICK p \in Nat : p = Len(data) BY <1>1, LenProperties DEF Whole
<1>3. p <= n BY <1>1, <1>2
<1>4. p <= k BY <1>3
<1> QED BY <1>1, <1>2, <1>4 DEF Chain

\* The first three of them: the version, the algorithms and the content.
LEMMA ContentChain ==
    ASSUME NEW oid \in Algorithms, NEW entries, NEW m \in Nat, m <= 16, AllEntries(entries, m)
    PROVE  \E cs : /\ Chain(DerInteger(3) \o Wrap(SET, AlgorithmBytes(oid))
                            \o Wrap(SEQUENCE, EncapBytes(oid, entries)), 1392, cs, 3)
                   /\ cs[1] = Kid(INTEGER, IntegerBytes(3))
                   /\ cs[2] = Kid(SET, AlgorithmBytes(oid))
                   /\ cs[3] = Kid(SEQUENCE, EncapBytes(oid, entries))
<1> DEFINE a == DerInteger(3)
           b == Wrap(SET, AlgorithmBytes(oid))
           h == EncapBytes(oid, entries)
           c == Wrap(SEQUENCE, h)
           x == Kid(INTEGER, IntegerBytes(3))
           y == Kid(SET, AlgorithmBytes(oid))
           z == Kid(SEQUENCE, h)
<1>1. PICK i, j, k \in Nat : i = 7 /\ j = 24 /\ k = 1356 /\ k < Huge /\ (i + j) + (k + 5) = 1392
  BY DEF Huge
<1>2. Chain(a, i, <<x>>, 1)
  <2>1. 3 \in Nat /\ 3 \div 256 < 256 OBVIOUS
  <2> QED BY <2>1, <1>1, IntegerChain
<1>3. Chain(b, j, <<y>>, 1)
  <2>1. Chain(b, 24, <<y>>, 1) BY SetsChain
  <2> QED BY <2>1, <1>1
<1>4. PICK ds : Chain(h, k, ds, 2)
  <2>1. \E ds : Chain(h, 1356, ds, 2) BY EncapChain
  <2> QED BY <2>1, <1>1
<1>5. Simple(SEQUENCE) BY TagsOfSod
<1> HIDE DEF h
<1>6. Chain(c, k + 5, <<z>>, 1) BY <1>1, <1>4, <1>5, ChainWrap
<1> HIDE DEF a, b, c, x, y, z
<1> DEFINE u == <<x>>
<1>u. Chain(a, i, u, 1) /\ u[1] = x
  BY <1>2
<1> HIDE DEF u
<1>7. PICK cs : Chain(a \o b, i + j, cs, 2) /\ cs[1] = u[1] /\ cs[2] = y
  BY <1>3, <1>u, ChainTwo
<1>8. i + j \in Nat /\ k + 5 \in Nat OBVIOUS
<1>9. PICK es : /\ Chain((a \o b) \o c, (i + j) + (k + 5), es, 3)
                /\ es[1] = cs[1] /\ es[2] = cs[2] /\ es[3] = z
  BY <1>6, <1>7, <1>8, ChainThree
<1>10. Chain((a \o b) \o c, 1392, es, 3) /\ es[1] = x /\ es[2] = y /\ es[3] = z
  BY <1>1, <1>u, <1>7, <1>9
<1> QED BY <1>10 DEF a, b, c, x, y, z, h

LEMMA SignedChain ==
    ASSUME NEW oid \in Algorithms, NEW entries, NEW m \in Nat, m <= 16, AllEntries(entries, m),
           NEW form
    PROVE  \E n \in Nat : \E cs :
              /\ n > 2 /\ Chain(SignedBytes(oid, entries, form), 1431, cs, n)
              /\ cs[1].tag = INTEGER /\ cs[2].tag = SET
              /\ cs[3] = Kid(SEQUENCE, EncapBytes(oid, entries))
<1> DEFINE a == DerInteger(3) \o Wrap(SET, AlgorithmBytes(oid))
                \o Wrap(SEQUENCE, EncapBytes(oid, entries))
           x == Kid(INTEGER, IntegerBytes(3))
           y == Kid(SET, AlgorithmBytes(oid))
           z == Kid(SEQUENCE, EncapBytes(oid, entries))
           t == Wrap(SET, AlgorithmBytes(oid))
           s == Wrap(SET, Wrap(SEQUENCE, AlgorithmBytes(oid)))
           w == Kid(SET, Wrap(SEQUENCE, AlgorithmBytes(oid)))
           q == Wrap(CONTEXT_0, Wrap(SEQUENCE, <<>>))
<1>1. PICK cs : Chain(a, 1392, cs, 3) /\ cs[1] = x /\ cs[2] = y /\ cs[3] = z
  BY ContentChain
<1>2. PICK i, j, k \in Nat : i = 1392 /\ j = 29 /\ k = 10 /\ (i + k) + j = 1431 /\ i + j <= 1431
                             /\ i + k \in Nat /\ i + j \in Nat
  OBVIOUS
<1>3. Chain(s, j, <<w>>, 1)
  <2>1. Chain(s, 29, <<w>>, 1) BY SetsChain
  <2> QED BY <2>1, <1>2
<1>4. SignedBytes(oid, entries, form) = (IF form = "certified" THEN (a \o q) \o s
                                         ELSE (a \o <<>>) \o s)
  BY DEF SignedBytes, CertificateOf
<1>5. x.tag = INTEGER /\ y.tag = SET BY DEF Kid
<1>6. \E v : Chain(q, 10, <<v>>, 1) BY CertificateChain
<1> HIDE DEF a, x, y, z, s, w, q
<1>7. Chain(a, i, cs, 3) BY <1>1, <1>2
<1>8. CASE form = "certified"
  <2>1. PICK v : Chain(q, 10, <<v>>, 1) BY <1>6
  <2>2. Chain(q, k, <<v>>, 1) BY <2>1, <1>2
  <2>3. PICK ds : /\ Chain(a \o q, i + k, ds, 4)
                  /\ ds[1] = cs[1] /\ ds[2] = cs[2] /\ ds[3] = cs[3] /\ ds[4] = v
    BY <2>2, <1>7, ChainFour
  <2>4. i + k \in Nat BY <1>2
  <2>5. PICK es : /\ Chain((a \o q) \o s, (i + k) + j, es, 5) /\ es[1] = ds[1] /\ es[2] = ds[2]
                  /\ es[3] = ds[3] /\ es[4] = ds[4] /\ es[5] = w
    BY <2>3, <2>4, <1>3, ChainFive
  <2>6. Chain(SignedBytes(oid, entries, form), 1431, es, 5) BY <2>5, <1>2, <1>4, <1>8
  <2>7. es[1].tag = INTEGER /\ es[2].tag = SET /\ es[3] = z BY <2>3, <2>5, <1>1, <1>5
  <2>8. 5 \in Nat /\ 5 > 2 OBVIOUS
  <2> QED BY <2>6, <2>7, <2>8 DEF z
<1>9. CASE form # "certified"
  <2>1. a \o <<>> = a
    <3>1. a \in Seq(Byte) BY <1>7 DEF Chain, Whole
    <3> QED BY <3>1, ConcatEmptySeq
  <2>2. PICK ds : /\ Chain(a \o s, i + j, ds, 4)
                  /\ ds[1] = cs[1] /\ ds[2] = cs[2] /\ ds[3] = cs[3] /\ ds[4] = w
    BY <1>3, <1>7, ChainFour
  <2>3. PICK l \in Nat : l = 1431 OBVIOUS
  <2>4. Chain(a \o s, l, ds, 4)
    <3>1. i + j \in Nat /\ i + j <= l BY <2>3, <1>2
    <3> QED BY <3>1, <2>2, ChainWithin
  <2>5. Chain(SignedBytes(oid, entries, form), 1431, ds, 4)
    BY <2>1, <2>3, <2>4, <1>4, <1>9
  <2>6. ds[1].tag = INTEGER /\ ds[2].tag = SET /\ ds[3] = z BY <2>2, <1>1, <1>5
  <2>7. 4 \in Nat /\ 4 > 2 OBVIOUS
  <2> QED BY <2>5, <2>6, <2>7 DEF z
<1> QED BY <1>8, <1>9

\* The first SEQUENCE of SignedData is the content.
LEMMA SignedParts ==
    ASSUME NEW oid \in Algorithms, NEW entries, NEW m \in Nat, m <= 16, AllEntries(entries, m),
           NEW form, NEW node, IsOf(node, SEQUENCE, SignedBytes(oid, entries, form))
    PROVE  LET parts == Children(node)
               sequences == PlacesOf(parts, SEQUENCE)
           IN /\ sequences # {} /\ Min(sequences) = 3
              /\ parts[3].value = EncapBytes(oid, entries)
<1> DEFINE b == SignedBytes(oid, entries, form)
           e == EncapBytes(oid, entries)
           parts == Children(node)
           P == PlacesOf(parts, SEQUENCE)
<1>1. \E o \in Nat : \E cs :
         /\ o > 2 /\ Chain(b, 1431, cs, o)
         /\ cs[1].tag = INTEGER /\ cs[2].tag = SET /\ cs[3] = Kid(SEQUENCE, e)
  BY SignedChain
<1>3. node.constructed /\ node.value = b BY TagsOfSod DEF IsOf
<1>4. parts = Nodes(b) BY <1>3 DEF Children
<1> HIDE DEF b, e, parts
<1>2. PICK k \in Nat : k = 1431 /\ k < Huge BY DEF Huge
<1>5. PICK o \in Nat : \E cs :
         /\ o > 2 /\ Chain(b, k, cs, o)
         /\ cs[1].tag = INTEGER /\ cs[2].tag = SET /\ cs[3] = Kid(SEQUENCE, e)
  BY <1>1, <1>2
<1>6. PICK cs : /\ o > 2 /\ Chain(b, k, cs, o)
                /\ cs[1].tag = INTEGER /\ cs[2].tag = SET /\ cs[3] = Kid(SEQUENCE, e)
  BY <1>5
<1>7. AreOf(parts, o, cs)
  <2>1. k < Huge /\ Chain(b, k, cs, o) BY <1>2, <1>6
  <2>2. AreOf(Nodes(b), o, cs) BY <2>1, ChainReads
  <2> QED BY <2>2, <1>4
<1>8. /\ cs[1].tag # SEQUENCE /\ cs[2].tag # SEQUENCE
      /\ cs[3].tag = SEQUENCE /\ cs[3].value = e
  BY <1>6, TagsOfSod DEF Kid
<1>9. (\A i : i \in P <=> i \in 1 .. o /\ cs[i].tag = SEQUENCE) /\ P \in SUBSET Nat
  BY <1>7, PlacesIn
<1> HIDE DEF P
<1>10. 3 \in 1 .. o /\ \A i \in 1 .. o : i = 1 \/ i = 2 \/ 3 <= i BY <1>6
<1>11. 3 \in P /\ \A i \in P : 3 <= i BY <1>8, <1>9, <1>10
<1>12. Min(P) = 3 BY <1>9, <1>11, LeastIs
<1>13. parts[3].value = e BY <1>7, <1>8, <1>10 DEF AreOf, IsOf
<1> QED BY <1>11, <1>12, <1>13 DEF P, parts, e

LEMMA SignedIs ==
    ASSUME NEW oid \in Algorithms, NEW entries, NEW m \in Nat, m <= 16, AllEntries(entries, m),
           NEW form, NEW node, IsOf(node, SEQUENCE, SignedBytes(oid, entries, form))
    PROVE  SodOf(Signed(node), oid, entries)
<1> DEFINE parts == Children(node)
           P == PlacesOf(parts, SEQUENCE)
           Q == PlacesOf(parts, CONTEXT_0)
           encap == parts[Min(P)].value
           type == Find(encap, OID)
           content == Find(encap, CONTEXT_0)
           octets == Find(content.value, OCTET_STRING)
           certificate == Q # {} /\ parts[Max(Q)].value # <<>>
<1>1. P # {} /\ encap = EncapBytes(oid, entries) BY SignedParts
<1>2. Signed(node) =
        IF P = {} THEN [error |-> "Parse"]
        ELSE IF type # None /\ ~OidIs(type, LdsSecurityObject) THEN [error |-> "Parse"]
        ELSE IF content = None THEN [error |-> "Parse"]
        ELSE IF octets = None THEN [error |-> "Parse"]
        ELSE SecurityObject(octets, certificate)
  BY DEF Signed
<1> DEFINE v == EncapBytes(oid, entries)
           s == OctetsOf(oid, entries)
           b == ObjectOf(oid, entries)
<1>3. IsOf(Find(v, OID), OID, LdsSecurityObject) /\ IsOf(Find(v, CONTEXT_0), CONTEXT_0, s)
  BY EncapChain
<1>4. IsOf(Find(s, OCTET_STRING), OCTET_STRING, b) BY OctetsFound
<1>5. encap = v BY <1>1
<1> HIDE DEF P, encap, v, s, b, certificate
<1>6. IsOf(type, OID, LdsSecurityObject) /\ IsOf(content, CONTEXT_0, s) BY <1>3, <1>5
<1> HIDE DEF type, content
<1>7. IsOf(octets, OCTET_STRING, b) BY <1>4, <1>6 DEF IsOf
<1> HIDE DEF octets
<1>8. OidIs(type, LdsSecurityObject) /\ content # None /\ octets # None /\ octets.value = b
  BY <1>6, <1>7 DEF IsOf, OidIs
<1>9. Signed(node) = SecurityObject(octets, certificate) BY <1>1, <1>2, <1>8
<1>10. octets.value = ObjectOf(oid, entries) BY <1>8 DEF b
<1>11. SodOf(SecurityObject(octets, certificate), oid, entries) BY <1>10, SecurityObjectIs
<1> QED BY <1>9, <1>11

\* What is wrapped is the first node of its wrapping.
LEMMA FirstWrapped ==
    ASSUME NEW t, Simple(t), NEW v, NEW k \in Nat, NEW cs, NEW m, Chain(v, k, cs, m), k + 5 < Huge
    PROVE  IsOf(First(Wrap(t, v)), t, v)
<1> DEFINE c == <<Kid(t, v)>>
           w == Wrap(t, v)
<1>1. k < Huge /\ k + 5 \in Nat BY DEF Huge
<1>2. Chain(w, k + 5, c, 1) BY <1>1, ChainWrap
<1>3. c[1] = Kid(t, v) OBVIOUS
<1> HIDE DEF c, w
<1>4. PICK o \in Nat : o = 1 /\ o # 0 OBVIOUS
<1>5. PICK l \in Nat : l = k + 5 /\ l < Huge BY <1>1
<1>6. Chain(w, l, c, o) BY <1>2, <1>4, <1>5
<1>7. w \in Seq(Byte) /\ Len(w) < Huge /\ AreOf(Nodes(w), o, c) BY <1>5, <1>6, ChainReads
<1>8. IsOf(First(w), t, v) BY <1>3, <1>4, <1>7, FirstOf
<1> QED BY <1>8 DEF w

LEMMA SodIs ==
    ASSUME NEW oid, NEW entries, NEW form
    PROVE  Sod(oid, entries, form) = IF form = "bare" THEN InfoOf(oid, entries, form)
                                     ELSE Wrap(EF_SOD, InfoOf(oid, entries, form))
  BY DEF Sod, InfoOf, InfoBytes, SignedOf, SignedBytes, CertificateOf, EncapBytes, OctetsOf,
         ObjectOf, ObjectBytes, AlgorithmBytes

LEMMA SignedFirst ==
    ASSUME NEW oid \in Algorithms, NEW entries, NEW m \in Nat, m <= 16, AllEntries(entries, m),
           NEW form
    PROVE  /\ \E cs : Chain(SignedOf(oid, entries, form), 1436, cs, 1)
           /\ IsOf(First(SignedOf(oid, entries, form)), SEQUENCE, SignedBytes(oid, entries, form))
<1> DEFINE b == SignedBytes(oid, entries, form)
           v == SignedOf(oid, entries, form)
           c == <<Kid(SEQUENCE, b)>>
<1>1. \E o \in Nat : \E cs :
         /\ o > 2 /\ Chain(b, 1431, cs, o)
         /\ cs[1].tag = INTEGER /\ cs[2].tag = SET
         /\ cs[3] = Kid(SEQUENCE, EncapBytes(oid, entries))
  BY SignedChain
<1>2. v = Wrap(SEQUENCE, b) /\ Simple(SEQUENCE) BY TagsOfSod DEF SignedOf
<1> HIDE DEF b, v
<1>3. PICK k \in Nat : k = 1431 /\ k < Huge /\ k + 5 < Huge /\ k + 5 = 1436 BY DEF Huge
<1>4. \E o \in Nat : \E cs : Chain(b, k, cs, o) BY <1>1, <1>3
<1>5. PICK o \in Nat : \E cs : Chain(b, k, cs, o) BY <1>4
<1>6. PICK cs : Chain(b, k, cs, o) BY <1>5
<1>7. Chain(Wrap(SEQUENCE, b), k + 5, c, 1) BY <1>2, <1>3, <1>6, ChainWrap
<1>8. IsOf(First(Wrap(SEQUENCE, b)), SEQUENCE, b) BY <1>2, <1>3, <1>6, FirstWrapped
<1> HIDE DEF c
<1>9. Chain(v, 1436, c, 1) /\ IsOf(First(v), SEQUENCE, b) BY <1>2, <1>3, <1>7, <1>8
<1> QED BY <1>9 DEF v, b

LEMMA InfoChain ==
    ASSUME NEW oid \in Algorithms, NEW entries, NEW m \in Nat, m <= 16, AllEntries(entries, m),
           NEW form
    PROVE  LET v == InfoBytes(oid, entries, form)
           IN /\ \E cs : Chain(v, 1455, cs, 2)
              /\ IsOf(Find(v, OID), OID, SignedData)
              /\ IsOf(Find(v, CONTEXT_0), CONTEXT_0, SignedOf(oid, entries, form))
<1> DEFINE v == InfoBytes(oid, entries, form)
           s == SignedOf(oid, entries, form)
           a == Wrap(OID, SignedData)
           b == Wrap(CONTEXT_0, s)
           c == <<Kid(OID, SignedData)>>
           y == Kid(CONTEXT_0, s)
<1>1. \E d : Chain(s, 1436, d, 1) BY SignedFirst
<1>2. PICK i, k, o \in Nat : /\ i = 14 /\ k = 1436 /\ k < Huge /\ i + (k + 5) = 1455 /\ o = 2
                             /\ i + (k + 5) < Huge
  BY DEF Huge
<1>3. Chain(a, i, c, 1) /\ c[1] = Kid(OID, SignedData)
  <2>1. Chain(a, 14, c, 1) BY TypesAre, OidChain
  <2> QED BY <2>1, <1>2
<1>4. v = a \o b BY DEF InfoBytes
<1> HIDE DEF s, a, c, v
<1>d. PICK d : Chain(s, k, d, 1)
  BY <1>1, <1>2
<1>5. Simple(CONTEXT_0) BY TagsOfSod
<1>6. Chain(b, k + 5, <<y>>, 1) BY <1>2, <1>5, <1>d, ChainWrap
<1>7. y.tag = CONTEXT_0 /\ y = Kid(CONTEXT_0, s) /\ k + 5 \in Nat BY DEF Kid
<1> HIDE DEF b, y
<1>8. PICK cs : Chain(a \o b, i + (k + 5), cs, 2) /\ cs[1] = c[1] /\ cs[2] = y
  BY <1>3, <1>6, <1>7, ChainTwo
<1>9. Chain(v, i + (k + 5), cs, o) /\ i + (k + 5) \in Nat /\ i + (k + 5) < Huge
  BY <1>2, <1>4, <1>8
<1>10. AreOf(Nodes(v), o, cs) BY <1>9, ChainReads
<1>11. cs[1].tag = OID /\ OID # CONTEXT_0 /\ cs[1] = Kid(OID, SignedData)
       /\ cs[2] = Kid(CONTEXT_0, s)
  BY <1>3, <1>7, <1>8, TagsOfSod DEF Kid
<1>12. IsOf(Find(v, OID), OID, SignedData)
  <2>1. 1 \in 1 .. o /\ \A j : j \notin 1 .. 1 - 1 BY <1>2
  <2> QED BY <2>1, <1>10, <1>11, FoundIn
<1>13. IsOf(Find(v, CONTEXT_0), CONTEXT_0, s)
  <2>1. 2 \in 1 .. o /\ \A j \in 1 .. 2 - 1 : j = 1 BY <1>2
  <2>2. \A j \in 1 .. 2 - 1 : cs[j].tag # CONTEXT_0 BY <2>1, <1>11
  <2> QED BY <2>1, <2>2, <1>10, <1>11, FoundIn
<1>14. Chain(v, 1455, cs, 2) BY <1>2, <1>4, <1>8
<1> QED BY <1>12, <1>13, <1>14 DEF v, s

LEMMA InfoFirst ==
    ASSUME NEW oid \in Algorithms, NEW entries, NEW m \in Nat, m <= 16, AllEntries(entries, m),
           NEW form
    PROVE  LET info == InfoOf(oid, entries, form)
           IN /\ IsOf(First(info), SEQUENCE, InfoBytes(oid, entries, form))
              /\ IsOf(First(Wrap(EF_SOD, info)), EF_SOD, info)
<1> DEFINE b == InfoBytes(oid, entries, form)
           info == InfoOf(oid, entries, form)
           c == <<Kid(SEQUENCE, b)>>
<1>1. \E cs : Chain(b, 1455, cs, 2) BY InfoChain
<1>2. info = Wrap(SEQUENCE, b) /\ Simple(SEQUENCE) /\ Simple(EF_SOD)
  BY TagsOfSod DEF InfoOf
<1> HIDE DEF b, info
<1>3. PICK k \in Nat : k = 1455 /\ k < Huge /\ k + 5 < Huge /\ (k + 5) + 5 < Huge
  BY DEF Huge
<1>4. PICK cs : Chain(b, k, cs, 2) BY <1>1, <1>3
<1>5. IsOf(First(Wrap(SEQUENCE, b)), SEQUENCE, b) BY <1>2, <1>3, <1>4, FirstWrapped
<1>6. Chain(Wrap(SEQUENCE, b), k + 5, c, 1) BY <1>2, <1>3, <1>4, ChainWrap
<1> HIDE DEF c
<1>7. PICK l \in Nat : l = k + 5 /\ l + 5 < Huge BY <1>3
<1>8. Chain(info, l, c, 1) BY <1>2, <1>6, <1>7
<1>9. IsOf(First(Wrap(EF_SOD, info)), EF_SOD, info) BY <1>2, <1>7, <1>8, FirstWrapped
<1> QED BY <1>2, <1>5, <1>9 DEF info, b

LEMMA RootIs ==
    ASSUME NEW oid \in Algorithms, NEW entries, NEW m \in Nat, m <= 16, AllEntries(entries, m),
           NEW form
    PROVE  LET outer == First(Sod(oid, entries, form))
               root == IF outer.tag = EF_SOD THEN First(outer.value) ELSE outer
           IN outer # None /\ IsOf(root, SEQUENCE, InfoBytes(oid, entries, form))
<1> DEFINE b == InfoBytes(oid, entries, form)
           info == InfoOf(oid, entries, form)
           file == Sod(oid, entries, form)
<1>1. IsOf(First(info), SEQUENCE, b) /\ IsOf(First(Wrap(EF_SOD, info)), EF_SOD, info)
  BY InfoFirst
<1>2. file = IF form = "bare" THEN info ELSE Wrap(EF_SOD, info) BY SodIs
<1>3. EF_SOD # SEQUENCE BY TagsOfSod
<1> HIDE DEF b, info, file
<1>4. CASE form = "bare"
  <2>1. First(file) = First(info) BY <1>2, <1>4
  <2>2. First(file) # None /\ First(file).tag # EF_SOD BY <2>1, <1>1, <1>3 DEF IsOf
  <2> QED BY <2>1, <2>2, <1>1 DEF file, b
<1>5. CASE form # "bare"
  <2>1. First(file) = First(Wrap(EF_SOD, info)) BY <1>2, <1>5
  <2>2. First(file) # None /\ First(file).tag = EF_SOD /\ First(file).value = info
    BY <2>1, <1>1 DEF IsOf
  <2>3. First(First(file).value) = First(info) BY <2>2
  <2> QED BY <2>2, <2>3, <1>1 DEF file, b
<1> QED BY <1>4, <1>5

LEMMA ParsedSod ==
    ASSUME NEW oid \in Algorithms, NEW entries, NEW m \in Nat, m <= 16, AllEntries(entries, m),
           NEW form
    PROVE  SodOf(ParseSod(Sod(oid, entries, form)), oid, entries)
<1> DEFINE file == Sod(oid, entries, form)
           outer == First(file)
           root == IF outer.tag = EF_SOD THEN First(outer.value) ELSE outer
           type == Find(root.value, OID)
           content == Find(root.value, CONTEXT_0)
           signedData == First(content.value)
           b == InfoBytes(oid, entries, form)
           s == SignedOf(oid, entries, form)
           d == SignedBytes(oid, entries, form)
<1>1. outer # None /\ IsOf(root, SEQUENCE, b) BY RootIs
<1>2. IsOf(Find(b, OID), OID, SignedData) /\ IsOf(Find(b, CONTEXT_0), CONTEXT_0, s)
  BY InfoChain
<1>3. IsOf(First(s), SEQUENCE, d) BY SignedFirst
<1>4. ParseSod(file) =
        IF outer = None THEN [error |-> "Parse"]
        ELSE IF root = None THEN [error |-> "Parse"]
        ELSE IF root.tag # SEQUENCE THEN [error |-> "Parse"]
        ELSE IF type # None /\ ~OidIs(type, SignedData) THEN [error |-> "Parse"]
        ELSE IF content = None THEN [error |-> "Parse"]
        ELSE IF signedData = None THEN [error |-> "Parse"]
        ELSE IF signedData.tag # SEQUENCE THEN [error |-> "Parse"]
        ELSE Signed(signedData)
  BY DEF ParseSod
<1> HIDE DEF file, outer, root, b, s, d
<1>5. IsOf(type, OID, SignedData) /\ IsOf(content, CONTEXT_0, s) BY <1>1, <1>2 DEF IsOf
<1> HIDE DEF type, content
<1>6. IsOf(signedData, SEQUENCE, d) BY <1>3, <1>5 DEF IsOf
<1> HIDE DEF signedData
<1>7. root # None /\ root.tag = SEQUENCE /\ OidIs(type, SignedData) /\ content # None
      /\ signedData # None /\ signedData.tag = SEQUENCE
  BY <1>1, <1>5, <1>6 DEF IsOf, OidIs
<1>8. ParseSod(file) = Signed(signedData) BY <1>1, <1>4, <1>7
<1>9. IsOf(signedData, SEQUENCE, SignedBytes(oid, entries, form)) BY <1>6 DEF d
<1>10. SodOf(Signed(signedData), oid, entries) BY <1>9, SignedIs
<1>11. SodOf(ParseSod(file), oid, entries) BY <1>8, <1>10
<1> QED BY <1>11 DEF file

\* emrtd_lds_parse_sod, emrtd_lds_sod_hash_for and emrtd_worker_check_hash: of an
\* EF.SOD with up to EMRTD_SOD_HASH_MAX entries, in order or not, of groups or of
\* numbers that are none, with hashes or without, of some group twice, whichever
\* of the four algorithms it names and however it is wrapped, and of a file with
\* any content, the verdict is that of the first entry that lists its group.
THEOREM VerdictOfAnySod ==
    ASSUME NEW oid \in Algorithms, NEW entries, NEW m \in Nat, m <= 16, AllEntries(entries, m),
           NEW form, NEW dg, NEW content
    PROVE  LET sod == ParseSod(Sod(oid, entries, form))
           IN HashState(sod, dg, Digest(sod, content)) = VerdictOn(oid, entries, dg, content)
<1> DEFINE sod == ParseSod(Sod(oid, entries, form))
<1>1. SodOf(sod, oid, entries) BY ParsedSod
<1> HIDE DEF sod
<1>2. HashState(sod, dg, Digest(sod, content)) = VerdictOn(oid, entries, dg, content)
  BY <1>1, HashesJudge
<1> QED BY <1>2 DEF sod

(***************************************************************************)
(* The files of the run.                                                   *)
(***************************************************************************)
LEMMA EntriesOfTheRun == \A e \in Entries : HashEntry(e)
<1> SUFFICES ASSUME NEW e \in Entries PROVE HashEntry(e)
  OBVIOUS
<1>b. 1 \in Byte /\ 2 \in Byte
  BY ByteIs
<1>1. CASE e \in [dg : {0, 1, 2, 17, 257}, content : {1, 2}, empty : {FALSE}]
  <2>1. e.dg \in {0, 1, 2, 17, 257} /\ e.content \in {1, 2} /\ e.empty = FALSE BY <1>1
  <2>2. e.dg \in Nat /\ e.dg \div 256 < 256 BY <2>1
  <2> QED BY <2>1, <2>2, <1>b DEF HashEntry
<1>2. CASE e = [dg |-> 1, content |-> 1, empty |-> TRUE]
  <2>1. e.dg = 1 /\ e.content = 1 /\ e.empty = TRUE BY <1>2
  <2>2. e.dg \in Nat /\ e.dg \div 256 < 256 BY <2>1
  <2> QED BY <2>1, <2>2, <1>b DEF HashEntry
<1> QED BY <1>1, <1>2 DEF Entries

LEMMA SodPicked ==
    PickSod => \E oid, entries, file :
                  /\ sample' = [kind |-> "sod", algorithm |-> oid, entries |-> entries, file |-> file]
                  /\ SodOfRun(oid, entries, file)
<1> SUFFICES ASSUME PickSod
             PROVE \E oid, entries, file :
                      /\ sample' = [kind |-> "sod", algorithm |-> oid, entries |-> entries,
                                    file |-> file]
                      /\ SodOfRun(oid, entries, file)
  OBVIOUS
<1>1. PICK oid \in Algorithms, form \in {"bare", "certified"} :
         \E n \in 0 .. 2 : \E entries \in [1 .. n -> Entries] :
            sample' = [kind |-> "sod", algorithm |-> oid, entries |-> entries,
                       file |-> Sod(oid, entries, form)]
  BY DEF PickSod
<1>2. PICK n \in 0 .. 2 : \E entries \in [1 .. n -> Entries] :
         sample' = [kind |-> "sod", algorithm |-> oid, entries |-> entries,
                    file |-> Sod(oid, entries, form)]
  BY <1>1
<1>3. PICK entries \in [1 .. n -> Entries] :
         sample' = [kind |-> "sod", algorithm |-> oid, entries |-> entries,
                    file |-> Sod(oid, entries, form)]
  BY <1>2
<1>4. AllEntries(entries, n)
  <2>1. Len(entries) = n /\ DOMAIN entries = 1 .. n /\ \A i \in 1 .. n : entries[i] \in Entries
    OBVIOUS
  <2> QED BY <2>1, EntriesOfTheRun DEF AllEntries
<1>5. n \in Nat /\ n <= 16 OBVIOUS
<1>6. SodOfRun(oid, entries, Sod(oid, entries, form)) BY <1>4, <1>5 DEF SodOfRun
<1> QED BY <1>3, <1>6

LEMMA SodJudged ==
    ASSUME NEW oid, NEW entries, NEW file, SodOfRun(oid, entries, file), NEW dg, NEW content
    PROVE  HashState(ParseSod(file), dg, Digest(ParseSod(file), content)) =
              VerdictOn(oid, entries, dg, content)
<1>1. PICK m \in Nat : m <= 16 /\ AllEntries(entries, m) BY DEF SodOfRun
<1>2. PICK form \in {"bare", "certified"} : file = Sod(oid, entries, form) BY DEF SodOfRun
<1>3. oid \in Algorithms BY DEF SodOfRun
<1> DEFINE sod == ParseSod(Sod(oid, entries, form))
<1>4. HashState(sod, dg, Digest(sod, content)) = VerdictOn(oid, entries, dg, content)
  BY <1>1, <1>3, VerdictOfAnySod
<1> QED BY <1>2, <1>4

(***************************************************************************)
(* The frames, the buffers and the files among the inputs of the run.      *)
(***************************************************************************)
LEMMA SampleStep == SampleInv /\ [Next]_vars => SampleInv'
<1> SUFFICES ASSUME SampleInv, [Next]_vars PROVE SampleInv'
  OBVIOUS
<1>1. CASE Pick
  <2>1. CASE PickFrame
    <3>1. PICK fsd \in {0} \cup 16 .. 300, block \in {0, 8, 16}, sw2 \in {0, 1, 16, 128, 255} :
             sample' = [kind |-> "frame", fsd |-> fsd, block |-> block, sw2 |-> sw2]
      BY <2>1 DEF PickFrame
    <3>2. fsd \in Nat /\ sw2 \in 0 .. 255 OBVIOUS
    <3> QED BY <3>1, <3>2 DEF SampleInv, Blocks
  <2>2. CASE PickBytes
    <3>0. PICK head \in {<<>>, <<2, 132>>}, n \in 0 .. 5 :
             \E data \in [1 .. n -> Alphabet] :
                sample' = [kind |-> "bytes", data |-> head \o data]
      BY <2>2 DEF PickBytes
    <3>1. PICK data \in [1 .. n -> Alphabet] :
             sample' = [kind |-> "bytes", data |-> head \o data]
      BY <3>0
    <3>2. head \in Seq(Byte) /\ Len(head) \in Nat /\ Len(head) <= 2
      <4>1. 2 \in Byte /\ 132 \in Byte BY ByteIs
      <4>2. CASE head = <<>> BY <4>2, EmptySeq
      <4>3. CASE head = <<2, 132>> BY <4>1, <4>3
      <4> QED BY <4>2, <4>3
    <3>3. data \in Seq(Byte) /\ Len(data) \in Nat /\ Len(data) <= 5
      <4>1. Alphabet \subseteq Byte BY ByteIs DEF Alphabet
      <4>2. data \in Seq(Alphabet) /\ Len(data) = n OBVIOUS
      <4> QED BY <4>1, <4>2
    <3>4. head \o data \in Seq(Byte) /\ Len(head \o data) = Len(head) + Len(data)
      BY <3>2, <3>3, ConcatProperties
    <3>5. Len(head \o data) < Huge BY <3>2, <3>3, <3>4 DEF Huge
    <3> QED BY <3>1, <3>4, <3>5 DEF SampleInv
  <2>3. CASE PickInfos
    <3>1. PICK offers, file : /\ sample' = [kind |-> "infos", offers |-> offers, file |-> file]
                              /\ InfosOf(offers, file)
      BY <2>3, InfosPicked
    <3> QED BY <3>1 DEF SampleInv
  <2>4. CASE PickSod
    <3>1. PICK oid, entries, file :
             /\ sample' = [kind |-> "sod", algorithm |-> oid, entries |-> entries, file |-> file]
             /\ SodOfRun(oid, entries, file)
      BY <2>4, SodPicked
    <3> QED BY <3>1 DEF SampleInv
  <2>5. CASE PickZone
    <3>1. \E number, zone :
             sample' = [kind |-> "zone", number |-> number, read |-> "right", zone |-> zone]
      BY <2>5, Zenon DEF PickZone
    <3> QED BY <3>1 DEF SampleInv
  <2> QED BY <1>1, <2>1, <2>2, <2>3, <2>4, <2>5 DEF Pick
<1>2. CASE Misread
  <2>1. sample.kind = "zone" /\ sample'.kind = sample.kind /\ DOMAIN sample' = DOMAIN sample
    <3>1. PICK d \in {0, 1, 5, 17, Filler} :
             \/ \E field \in {"number", "birth", "expiry", "optional", "optional2"} :
                   \E i \in DOMAIN sample.zone[field] :
                       /\ (field = "optional2") => sample.zone.format = "TD1"
                       /\ Differ(sample.zone[field][i], d)
                       /\ sample' = [sample EXCEPT !.read = "misread", !.zone[field][i] = d]
             \/ \E field \in {"numberDigit", "birthDigit", "expiryDigit", "optionalDigit",
                             "composite"} :
                   /\ (field = "optionalDigit") => sample.zone.format = "TD3"
                   /\ Differ(sample.zone[field], d)
                   /\ sample' = [sample EXCEPT !.read = "misread", !.zone[field] = d]
      BY <1>2 DEF Misread
    <3>2. sample.kind = "zone" BY <1>2 DEF Misread
    <3> QED BY <3>1, <3>2 DEF SampleInv
  <2> QED BY <2>1 DEF SampleInv
<1>3. CASE Keys BY <1>3 DEF Keys, SampleInv
<1>4. CASE Drop BY <1>4 DEF Drop, NoSample, SampleInv
<1>5. CASE UNCHANGED vars BY <1>5 DEF vars, SampleInv
<1> QED BY <1>1, <1>2, <1>3, <1>4, <1>5 DEF Next

\* What the run checks of the frames it picks is AnswersFit of each.
THEOREM AnswersFitInTheRun == Spec => []AnswerFitsTheFrame
<1>1. Init => SampleInv BY DEF Init, NoSample, SampleInv
<1>2. SampleInv => AnswerFitsTheFrame
  <2> SUFFICES ASSUME SampleInv, sample.kind = "frame" PROVE AnswerFitsTheFrame
    BY DEF AnswerFitsTheFrame
  <2>1. PICK fsd \in Nat, block \in Blocks, sw2 \in 0 .. 255 :
           fsd = sample.fsd /\ block = sample.block /\ sw2 = sample.sw2
    BY DEF SampleInv
  <2>2. ChunkSize(fsd, block) >= 1 /\ \A n \in Asked(fsd, block, sw2) : Fits(n, fsd, block)
    BY AnswersFit
  <2> QED BY <2>1, <2>2 DEF AnswerFitsTheFrame, Asked, Fits
<1> QED BY <1>1, <1>2, SampleStep, PTL DEF Spec

\* What the run checks of the buffers it picks is ReadsWhateverIsThere of each, and
\* of the lengths it writes LengthsAlwaysComeBack.
THEOREM ReadsWhatIsThereInTheRun == Spec => []TlvReadsWhatIsThere
<1>1. Init => SampleInv BY DEF Init, NoSample, SampleInv
<1>2. SampleInv => TlvReadsWhatIsThere
  <2> SUFFICES ASSUME SampleInv, sample.kind = "bytes" PROVE TlvReadsWhatIsThere
    BY DEF TlvReadsWhatIsThere
  <2>1. ReadsWhatIsThere(sample.data) BY ReadsWhateverIsThere DEF SampleInv
  <2>2. LengthsComeBack
    <3>1. \A n \in LengthsToWrite : n \in Nat /\ n < Huge BY DEF LengthsToWrite, Huge
    <3> QED BY <3>1, LengthsAlwaysComeBack DEF LengthsComeBack
  <2> QED BY <2>1, <2>2 DEF TlvReadsWhatIsThere
<1> QED BY <1>1, <1>2, SampleStep, PTL DEF Spec

\* What the run checks of the files it picks is BestOfAnyOffers of each.
THEOREM BestOfTheOfferInTheRun == Spec => []BestOfTheOffer
<1>1. Init => SampleInv BY DEF Init, NoSample, SampleInv
<1>2. SampleInv => BestOfTheOffer BY InfosBest DEF SampleInv, BestOfTheOffer
<1> QED BY <1>1, <1>2, SampleStep, PTL DEF Spec

\* What the run checks of the EF.SODs it picks is VerdictOfAnySod of each.
THEOREM HashVerdictInTheRun == Spec => []HashVerdict
<1>1. Init => SampleInv BY DEF Init, NoSample, SampleInv
<1>2. SampleInv => HashVerdict
  <2> SUFFICES ASSUME SampleInv, sample.kind = "sod" PROVE HashVerdict
    BY DEF HashVerdict
  <2> DEFINE oid == sample.algorithm
             entries == sample.entries
             file == sample.file
  <2>1. SodOfRun(oid, entries, file) BY DEF SampleInv
  <2> HIDE DEF oid, entries, file
  <2>2. \A dg \in 1 .. 3, content \in {1, 2} :
           HashState(ParseSod(file), dg, Digest(ParseSod(file), content)) =
              VerdictOn(oid, entries, dg, content)
    BY <2>1, SodJudged
  <2> QED BY <2>2 DEF HashVerdict, oid, entries, file
<1> QED BY <1>1, <1>2, SampleStep, PTL DEF Spec

(***************************************************************************)
(* The machine readable zone: check digits, and what is left of a field    *)
(* without its filler.                                                     *)
(***************************************************************************)
LEMMA TotalExists ==
    ASSUME NEW chars, NEW m \in Nat
    PROVE  \E f : FoldTotal(f, chars, m)
<1> DEFINE A == {k \in Nat : \E f : FoldTotal(f, chars, k)}
<1>1. ASSUME NEW f, NEW g, NEW i \in Nat, i # 0 => f[i - 1] = g[i - 1]
      PROVE  WeighedUpTo(chars, f, i) = WeighedUpTo(chars, g, i)
  BY <1>1 DEF WeighedUpTo
<1>2. 0 \in A
  <2> DEFINE f == [i \in 0 .. 0 |-> 0]
  <2>1. \A i \in 0 .. 0 : WeighedUpTo(chars, f, i) = 0 BY DEF WeighedUpTo
  <2>2. f = [i \in 0 .. 0 |-> WeighedUpTo(chars, f, i)] BY <2>1
  <2> HIDE DEF f
  <2>3. FoldTotal(f, chars, 0) BY <2>2 DEF FoldTotal
  <2> QED BY <2>3
<1>3. ASSUME NEW k \in A PROVE k + 1 \in A
  <2>1. PICK f : FoldTotal(f, chars, k) OBVIOUS
  <2>2. f = [i \in 0 .. k |-> f[i]] /\ \A i \in 0 .. k : f[i] = WeighedUpTo(chars, f, i)
    BY <2>1 DEF FoldTotal
  <2> DEFINE g == [i \in 0 .. k + 1 |-> IF i = k + 1 THEN WeighedUpTo(chars, f, k + 1) ELSE f[i]]
  <2>3. g = [i \in 0 .. k + 1 |-> g[i]] /\ (\A i \in 0 .. k : g[i] = f[i])
        /\ g[k + 1] = WeighedUpTo(chars, f, k + 1)
    OBVIOUS
  <2> HIDE DEF g
  <2>4. ASSUME NEW i \in 0 .. k + 1 PROVE g[i] = WeighedUpTo(chars, g, i)
    <3>1. i # 0 => f[i - 1] = g[i - 1]
      <4>1. i # 0 => i - 1 \in 0 .. k OBVIOUS
      <4> QED BY <4>1, <2>3
    <3>2. i \in Nat OBVIOUS
    <3>3. WeighedUpTo(chars, f, i) = WeighedUpTo(chars, g, i) BY <3>1, <3>2, <1>1
    <3>4. g[i] = WeighedUpTo(chars, f, i)
      <4>1. CASE i = k + 1 BY <4>1, <2>3
      <4>2. CASE i # k + 1
        <5>1. i \in 0 .. k BY <4>2
        <5> QED BY <5>1, <2>2, <2>3
      <4> QED BY <4>1, <4>2
    <3> QED BY <3>3, <3>4
  <2>5. g = [i \in 0 .. k + 1 |-> WeighedUpTo(chars, g, i)] BY <2>3, <2>4
  <2>6. FoldTotal(g, chars, k + 1) BY <2>5 DEF FoldTotal
  <2> QED BY <2>6
<1>4. A \in SUBSET Nat OBVIOUS
<1>5. m \in A
  <2> HIDE DEF A
  <2>1. A = Nat BY <1>2, <1>3, <1>4, SetInduction
  <2> QED BY <2>1
<1> QED BY <1>5

LEMMA TotalIs ==
    ASSUME NEW chars, NEW m \in Nat, Len(chars) = m
    PROVE  \E f : FoldTotal(f, chars, m) /\ TotalWeight(chars) = f[m]
<1>1. PICK g : FoldTotal(g, chars, m) BY TotalExists
<1>2. PICK h : h = CHOOSE f : FoldTotal(f, chars, m) OBVIOUS
<1>3. FoldTotal(h, chars, m) BY <1>1, <1>2
<1>4. TotalWeight(chars) = h[m] BY <1>2 DEF FoldTotal, WeighedUpTo, TotalWeight
<1> QED BY <1>3, <1>4

LEMMA CompactExists ==
    ASSUME NEW chars, NEW m \in Nat
    PROVE  \E f : FoldCompact(f, chars, m)
<1> DEFINE A == {k \in Nat : \E f : FoldCompact(f, chars, k)}
<1>1. ASSUME NEW f, NEW g, NEW i \in Nat, i # 0 => f[i - 1] = g[i - 1]
      PROVE  KeptUpTo(chars, f, i) = KeptUpTo(chars, g, i)
  BY <1>1 DEF KeptUpTo
<1>2. 0 \in A
  <2> DEFINE f == [i \in 0 .. 0 |-> <<>>]
  <2>1. \A i \in 0 .. 0 : KeptUpTo(chars, f, i) = <<>> BY DEF KeptUpTo
  <2>2. f = [i \in 0 .. 0 |-> KeptUpTo(chars, f, i)] BY <2>1
  <2> HIDE DEF f
  <2>3. FoldCompact(f, chars, 0) BY <2>2 DEF FoldCompact
  <2> QED BY <2>3
<1>3. ASSUME NEW k \in A PROVE k + 1 \in A
  <2>1. PICK f : FoldCompact(f, chars, k) OBVIOUS
  <2>2. f = [i \in 0 .. k |-> f[i]] /\ \A i \in 0 .. k : f[i] = KeptUpTo(chars, f, i)
    BY <2>1 DEF FoldCompact
  <2> DEFINE g == [i \in 0 .. k + 1 |-> IF i = k + 1 THEN KeptUpTo(chars, f, k + 1) ELSE f[i]]
  <2>3. g = [i \in 0 .. k + 1 |-> g[i]] /\ (\A i \in 0 .. k : g[i] = f[i])
        /\ g[k + 1] = KeptUpTo(chars, f, k + 1)
    OBVIOUS
  <2> HIDE DEF g
  <2>4. ASSUME NEW i \in 0 .. k + 1 PROVE g[i] = KeptUpTo(chars, g, i)
    <3>1. i # 0 => f[i - 1] = g[i - 1]
      <4>1. i # 0 => i - 1 \in 0 .. k OBVIOUS
      <4> QED BY <4>1, <2>3
    <3>2. i \in Nat OBVIOUS
    <3>3. KeptUpTo(chars, f, i) = KeptUpTo(chars, g, i) BY <3>1, <3>2, <1>1
    <3>4. g[i] = KeptUpTo(chars, f, i)
      <4>1. CASE i = k + 1 BY <4>1, <2>3
      <4>2. CASE i # k + 1
        <5>1. i \in 0 .. k BY <4>2
        <5> QED BY <5>1, <2>2, <2>3
      <4> QED BY <4>1, <4>2
    <3> QED BY <3>3, <3>4
  <2>5. g = [i \in 0 .. k + 1 |-> KeptUpTo(chars, g, i)] BY <2>3, <2>4
  <2>6. FoldCompact(g, chars, k + 1) BY <2>5 DEF FoldCompact
  <2> QED BY <2>6
<1>4. A \in SUBSET Nat OBVIOUS
<1>5. m \in A
  <2> HIDE DEF A
  <2>1. A = Nat BY <1>2, <1>3, <1>4, SetInduction
  <2> QED BY <2>1
<1> QED BY <1>5

LEMMA CompactIs ==
    ASSUME NEW chars, NEW m \in Nat, Len(chars) = m
    PROVE  \E f : FoldCompact(f, chars, m) /\ Compact(chars) = f[m]
<1>1. PICK g : FoldCompact(g, chars, m) BY CompactExists
<1>2. PICK h : h = CHOOSE f : FoldCompact(f, chars, m) OBVIOUS
<1>3. FoldCompact(h, chars, m) BY <1>1, <1>2
<1>4. Compact(chars) = h[m] BY <1>2 DEF FoldCompact, KeptUpTo, Compact
<1> QED BY <1>3, <1>4

\* What a character weighs.
LEMMA ValueIs == \A c \in Char : Value(c) \in Nat /\ Value(c) < 36
<1> SUFFICES ASSUME NEW c \in Char PROVE Value(c) \in Nat /\ Value(c) < 36
  OBVIOUS
<1> QED BY DEF Value, Char, Filler

LEMMA WeightIs == \A i \in Nat : i # 0 => Weight(i) \in {7, 3, 1}
<1> SUFFICES ASSUME NEW i \in Nat, i # 0 PROVE Weight(i) \in {7, 3, 1}
  OBVIOUS
<1>1. (i - 1) % 3 \in 0 .. 2 OBVIOUS
<1>2. PICK j \in 1 .. 3 : j = ((i - 1) % 3) + 1 BY <1>1
<1>3. <<7, 3, 1>>[j] \in {7, 3, 1} BY <1>2
<1> QED BY <1>2, <1>3 DEF Weight

LEMMA TotalsAre ==
    ASSUME NEW chars \in Seq(Char), NEW m \in Nat, m = Len(chars), NEW f, FoldTotal(f, chars, m)
    PROVE  \A k \in 0 .. m : f[k] \in Nat
<1> DEFINE A == {k \in Nat : k <= m => f[k] \in Nat}
<1>1. \A i \in 0 .. m : f[i] = WeighedUpTo(chars, f, i) BY DEF FoldTotal
<1>2. 0 \in A BY <1>1 DEF WeighedUpTo
<1>3. ASSUME NEW k \in A PROVE k + 1 \in A
  <2> SUFFICES ASSUME k + 1 <= m PROVE f[k + 1] \in Nat
    OBVIOUS
  <2>1. k + 1 \in 1 .. m /\ k + 1 # 0 /\ k + 1 \in Nat /\ k + 1 \in 0 .. m /\ (k + 1) - 1 = k /\ f[k] \in Nat
    OBVIOUS
  <2>2. f[k + 1] = f[k] + Value(chars[k + 1]) * Weight(k + 1)
    BY <2>1, <1>1 DEF WeighedUpTo
  <2>3. chars[k + 1] \in Char BY <2>1, ElementOfSeq
  <2>4. Value(chars[k + 1]) \in Nat /\ Weight(k + 1) \in {7, 3, 1}
    BY <2>1, <2>3, ValueIs, WeightIs
  <2>5. Value(chars[k + 1]) * Weight(k + 1) \in Nat
    <3>1. PICK v \in Nat : v = Value(chars[k + 1]) BY <2>4
    <3>2. v * 7 \in Nat /\ v * 3 \in Nat /\ v * 1 \in Nat OBVIOUS
    <3> QED BY <3>1, <3>2, <2>4
  <2> QED BY <2>1, <2>2, <2>5
<1>4. A \in SUBSET Nat OBVIOUS
<1>5. A = Nat
  <2> HIDE DEF A
  <2> QED BY <1>2, <1>3, <1>4, SetInduction
<1>6. \A k \in 0 .. m : k \in A /\ k <= m BY <1>5
<1> QED BY <1>6

LEMMA DigitIs ==
    ASSUME NEW chars \in Seq(Char)
    PROVE  /\ TotalWeight(chars) \in Nat
           /\ CheckDigit(chars) = TotalWeight(chars) % 10
           /\ CheckDigit(chars) \in 0 .. 9 /\ CheckDigit(chars) # Filler
<1>. PICK m \in Nat : m = Len(chars) BY LenProperties
<1>1. PICK f : FoldTotal(f, chars, m) /\ TotalWeight(chars) = f[m] BY TotalIs
<1>2. TotalWeight(chars) \in Nat
  <2>1. m \in 0 .. m OBVIOUS
  <2> QED BY <2>1, <1>1, TotalsAre
<1>3. \A i \in DOMAIN chars : chars[i] \in Char BY LenProperties, ElementOfSeq
<1>4. CheckDigit(chars) = TotalWeight(chars) % 10 BY <1>3 DEF CheckDigit
<1> QED BY <1>2, <1>4 DEF Filler

\* One character taken for another.
LEMMA ChangeWeighs ==
    ASSUME NEW chars \in Seq(Char), NEW k \in 1 .. Len(chars), NEW d \in Char
    PROVE  LET new == [chars EXCEPT ![k] = d]
           IN TotalWeight(new) = TotalWeight(chars) + (Value(d) - Value(chars[k])) * Weight(k)
<1> DEFINE new == [chars EXCEPT ![k] = d]
<1>. PICK m \in Nat : m = Len(chars) BY LenProperties
<1>1. /\ new \in Seq(Char) /\ Len(new) = m
      /\ \A j \in 1 .. m : new[j] = IF j = k THEN d ELSE chars[j]
  BY ExceptSeq
<1> HIDE DEF new
<1>2. PICK f : FoldTotal(f, chars, m) /\ TotalWeight(chars) = f[m] BY TotalIs
<1>3. PICK g : FoldTotal(g, new, m) /\ TotalWeight(new) = g[m] BY <1>1, TotalIs
<1>4. PICK delta \in Int : delta = (Value(d) - Value(chars[k])) * Weight(k)
  <2>1. Value(d) \in Nat /\ Value(chars[k]) \in Nat BY ValueIs, ElementOfSeq
  <2>2. Weight(k) \in {7, 3, 1} BY WeightIs
  <2>3. PICK x \in Int : x = Value(d) - Value(chars[k]) BY <2>1
  <2>4. x * 7 \in Int /\ x * 3 \in Int /\ x * 1 \in Int OBVIOUS
  <2> QED BY <2>2, <2>3, <2>4
<1>5. (\A i \in 0 .. m : f[i] \in Nat) /\ \A i \in 0 .. m : g[i] \in Nat
  BY <1>1, <1>2, <1>3, TotalsAre
<1>6. /\ \A i \in 0 .. m : f[i] = WeighedUpTo(chars, f, i)
      /\ \A i \in 0 .. m : g[i] = WeighedUpTo(new, g, i)
  BY <1>2, <1>3 DEF FoldTotal
<1> DEFINE A == {i \in Nat : i <= m => g[i] = IF i < k THEN f[i] ELSE f[i] + delta}
<1>7. 0 \in A
  <2>1. 0 \in 0 .. m /\ 0 < k OBVIOUS
  <2> QED BY <2>1, <1>6 DEF WeighedUpTo
<1>8. ASSUME NEW i \in A PROVE i + 1 \in A
  <2> SUFFICES ASSUME i + 1 <= m
               PROVE  g[i + 1] = IF i + 1 < k THEN f[i + 1] ELSE f[i + 1] + delta
    OBVIOUS
  <2>1. /\ i + 1 \in 1 .. m /\ i + 1 # 0 /\ i + 1 \in 0 .. m /\ (i + 1) - 1 = i /\ i \in 0 .. m
        /\ i \in Nat /\ i + 1 \in Nat
    OBVIOUS
  <2>2. g[i] = IF i < k THEN f[i] ELSE f[i] + delta OBVIOUS
  <2>3. f[i] \in Nat /\ g[i] \in Nat BY <2>1, <1>5
  <2>4. f[i + 1] = f[i] + Value(chars[i + 1]) * Weight(i + 1)
    BY <2>1, <1>6 DEF WeighedUpTo
  <2>5. g[i + 1] = g[i] + Value(new[i + 1]) * Weight(i + 1) BY <2>1, <1>6 DEF WeighedUpTo
  <2>6. PICK w, v \in Nat : w = Weight(i + 1) /\ v = Value(chars[i + 1]) /\ w \in {7, 3, 1}
    <3>1. chars[i + 1] \in Char BY <2>1, ElementOfSeq
    <3>2. Value(chars[i + 1]) \in Nat /\ Weight(i + 1) \in {7, 3, 1}
      BY <3>1, <2>1, ValueIs, WeightIs
    <3> QED BY <3>2
  <2>7. v * w \in Nat
    <3>1. v * 7 \in Nat /\ v * 3 \in Nat /\ v * 1 \in Nat OBVIOUS
    <3> QED BY <3>1, <2>6
  <2>8. CASE i + 1 # k
    <3>1. new[i + 1] = chars[i + 1] BY <2>1, <2>8, <1>1
    <3>2. (i < k) <=> (i + 1 < k) BY <2>1, <2>8
    <3>3. f[i + 1] = f[i] + v * w /\ g[i + 1] = g[i] + v * w BY <3>1, <2>4, <2>5, <2>6
    <3> QED BY <3>2, <3>3, <2>2, <2>3, <2>7
  <2>9. CASE i + 1 = k
    <3>1. new[i + 1] = d BY <2>1, <2>9, <1>1
    <3>2. i < k /\ ~(i + 1 < k) BY <2>1, <2>9
    <3>3. PICK u \in Nat : u = Value(d) /\ delta = (u - v) * w
      <4>1. Value(d) \in Nat BY ValueIs
      <4>2. delta = (Value(d) - v) * w BY <2>6, <2>9, <1>4
      <4> QED BY <4>1, <4>2
    <3>4. g[i + 1] = f[i] + u * w /\ f[i + 1] = f[i] + v * w
      BY <3>1, <3>2, <3>3, <2>2, <2>4, <2>5, <2>6
    <3>5. u * w = v * w + (u - v) * w
      <4>1. u * 7 = v * 7 + (u - v) * 7 /\ u * 3 = v * 3 + (u - v) * 3 /\ u * 1 = v * 1 + (u - v) * 1
        OBVIOUS
      <4> QED BY <4>1, <2>6
    <3>6. u * w \in Nat
      <4>1. u * 7 \in Nat /\ u * 3 \in Nat /\ u * 1 \in Nat OBVIOUS
      <4> QED BY <4>1, <2>6
    <3>7. u * w = v * w + delta BY <3>3, <3>5
    <3> QED BY <3>2, <3>4, <3>6, <3>7, <2>3, <2>7
  <2> QED BY <2>8, <2>9
<1>9. A \in SUBSET Nat OBVIOUS
<1>10. A = Nat
  <2> HIDE DEF A
  <2> QED BY <1>7, <1>8, <1>9, SetInduction
<1>11. m \in A /\ m <= m /\ ~(m < k) BY <1>10
<1>12. g[m] = f[m] + delta BY <1>11
<1> QED BY <1>2, <1>3, <1>4, <1>12 DEF new

LEMMA Shown ==
    ASSUME NEW x \in Int, x % 10 # 0, NEW w \in {7, 3, 1}, NEW n \in Int
    PROVE  (n + x * w) % 10 # n % 10
<1>1. (n + x * 7) % 10 # n % 10 OBVIOUS
<1>2. (n + x * 3) % 10 # n % 10 OBVIOUS
<1>3. (n + x * 1) % 10 # n % 10 OBVIOUS
<1> QED BY <1>1, <1>2, <1>3

LEMMA OtherWayRound == \A u, v \in Nat : (v - u) % 10 # 0 => (u - v) % 10 # 0
  OBVIOUS

\* A change of one character to another of another weight shows in the digit.
LEMMA ChangeShows ==
    ASSUME NEW chars \in Seq(Char), NEW k \in 1 .. Len(chars), NEW d \in Char, Differ(chars[k], d)
    PROVE  LET new == [chars EXCEPT ![k] = d]
           IN new \in Seq(Char) /\ Len(new) = Len(chars) /\ CheckDigit(new) # CheckDigit(chars)
<1> DEFINE new == [chars EXCEPT ![k] = d]
<1>1. new \in Seq(Char) /\ Len(new) = Len(chars) BY ExceptSeq
<1>2. TotalWeight(new) = TotalWeight(chars) + (Value(d) - Value(chars[k])) * Weight(k)
  BY ChangeWeighs
<1> HIDE DEF new
<1>3. /\ CheckDigit(new) = TotalWeight(new) % 10 /\ TotalWeight(chars) \in Nat
      /\ CheckDigit(chars) = TotalWeight(chars) % 10
  BY <1>1, DigitIs
<1>4. PICK u, v \in Nat : u = Value(d) /\ v = Value(chars[k]) BY ValueIs, ElementOfSeq
<1>5. PICK x \in Int : x = u - v /\ x % 10 # 0
  <2>1. (v - u) % 10 # 0 BY <1>4 DEF Differ
  <2>2. u - v \in Int /\ (u - v) % 10 # 0 BY <2>1, OtherWayRound
  <2> QED BY <2>2
<1>6. PICK n \in Int : n = TotalWeight(chars) BY <1>3
<1>7. Weight(k) \in {7, 3, 1} BY WeightIs
<1>8. (n + x * Weight(k)) % 10 # n % 10
  <2>1. PICK w \in {7, 3, 1} : w = Weight(k) BY <1>7
  <2>2. (n + x * w) % 10 # n % 10 BY <1>5, Shown, Zenon
  <2> QED BY <2>1, <2>2
<1>9. TotalWeight(new) = n + x * Weight(k) BY <1>2, <1>4, <1>5, <1>6
<1> QED BY <1>1, <1>3, <1>6, <1>8, <1>9 DEF new

(***************************************************************************)
(* One character taken for another of another weight shows in the digit of *)
(* the stretch it is in.                                                   *)
(***************************************************************************)
LEMMA OffShows ==
    ASSUME NEW a \in Seq(Char), NEW b, Off(a, b)
    PROVE  b \in Seq(Char) /\ CheckDigit(b) # CheckDigit(a)
<1>1. PICK k \in 1 .. Len(a) : \E d \in Char : Differ(a[k], d) /\ b = [a EXCEPT ![k] = d]
  BY DEF Off
<1>2. PICK d \in Char : Differ(a[k], d) /\ b = [a EXCEPT ![k] = d] BY <1>1
<1> QED BY <1>2, ChangeShows

LEMMA OffBefore ==
    ASSUME NEW a \in Seq(Char), NEW b, Off(a, b), NEW c \in Seq(Char)
    PROVE  Off(a \o c, b \o c)
<1>1. PICK k \in 1 .. Len(a) : \E d \in Char : Differ(a[k], d) /\ b = [a EXCEPT ![k] = d]
  BY DEF Off
<1>2. PICK d \in Char : Differ(a[k], d) /\ b = [a EXCEPT ![k] = d] BY <1>1
<1>. PICK n, m \in Nat : n = Len(a) /\ m = Len(c) BY LenProperties
<1>3. b \in Seq(Char) /\ Len(b) = n /\ \A j \in 1 .. n : b[j] = IF j = k THEN d ELSE a[j]
  BY <1>2, ExceptSeq
<1> DEFINE u == a \o c
           v == b \o c
           w == [u EXCEPT ![k] = d]
<1>4. /\ u \in Seq(Char) /\ Len(u) = n + m
      /\ \A i \in 1 .. n + m : u[i] = IF i <= n THEN a[i] ELSE c[i - n]
  BY ConcatProperties
<1>5. /\ v \in Seq(Char) /\ Len(v) = n + m
      /\ \A i \in 1 .. n + m : v[i] = IF i <= n THEN b[i] ELSE c[i - n]
  <2>1. b \in Seq(Char) /\ c \in Seq(Char) BY <1>3
  <2>2. /\ b \o c \in Seq(Char) /\ Len(b \o c) = Len(b) + Len(c)
        /\ \A i \in 1 .. Len(b) + Len(c) :
              (b \o c)[i] = IF i <= Len(b) THEN b[i] ELSE c[i - Len(b)]
    BY <2>1, ConcatProperties
  <2>3. Len(b) = n /\ Len(c) = m BY <1>3
  <2> QED BY <2>2, <2>3
<1> HIDE DEF u, v
<1>6. k \in 1 .. n + m /\ k <= n OBVIOUS
<1>7. w \in Seq(Char) /\ Len(w) = n + m /\ \A j \in 1 .. n + m : w[j] = IF j = k THEN d ELSE u[j]
  BY <1>4, <1>6, ExceptSeq
<1> HIDE DEF w
<1>8. \A j \in 1 .. n + m : j <= n => j \in 1 .. n OBVIOUS
<1>9. \A j \in 1 .. n + m : v[j] = w[j] BY <1>3, <1>4, <1>5, <1>6, <1>7, <1>8
<1>10. v = w BY <1>5, <1>7, <1>9, SeqEqual
<1>11. u[k] = a[k] BY <1>4, <1>6
<1>12. k \in 1 .. Len(u) /\ Differ(u[k], d) /\ v = [u EXCEPT ![k] = d]
  BY <1>2, <1>4, <1>6, <1>10, <1>11 DEF w
<1>13. Off(u, v) BY <1>12 DEF Off
<1> QED BY <1>13 DEF u, v

LEMMA OffBehind ==
    ASSUME NEW a \in Seq(Char), NEW b, Off(a, b), NEW c \in Seq(Char)
    PROVE  Off(c \o a, c \o b)
<1>1. PICK k \in 1 .. Len(a) : \E d \in Char : Differ(a[k], d) /\ b = [a EXCEPT ![k] = d]
  BY DEF Off
<1>2. PICK d \in Char : Differ(a[k], d) /\ b = [a EXCEPT ![k] = d] BY <1>1
<1>. PICK n, m \in Nat : n = Len(a) /\ m = Len(c) BY LenProperties
<1>3. b \in Seq(Char) /\ Len(b) = n /\ \A j \in 1 .. n : b[j] = IF j = k THEN d ELSE a[j]
  BY <1>2, ExceptSeq
<1> DEFINE u == c \o a
           v == c \o b
           p == m + k
           w == [u EXCEPT ![p] = d]
<1>4. /\ u \in Seq(Char) /\ Len(u) = m + n
      /\ \A i \in 1 .. m + n : u[i] = IF i <= m THEN c[i] ELSE a[i - m]
  BY ConcatProperties
<1>5. /\ v \in Seq(Char) /\ Len(v) = m + n
      /\ \A i \in 1 .. m + n : v[i] = IF i <= m THEN c[i] ELSE b[i - m]
  <2>1. c \in Seq(Char) /\ b \in Seq(Char) BY <1>3
  <2>2. /\ c \o b \in Seq(Char) /\ Len(c \o b) = Len(c) + Len(b)
        /\ \A i \in 1 .. Len(c) + Len(b) :
              (c \o b)[i] = IF i <= Len(c) THEN c[i] ELSE b[i - Len(c)]
    BY <2>1, ConcatProperties
  <2>3. Len(c) = m /\ Len(b) = n BY <1>3
  <2> QED BY <2>2, <2>3
<1> HIDE DEF u, v
<1>6. p \in 1 .. m + n /\ ~(p <= m) /\ p - m = k /\ \A j \in 1 .. m + n : (j - m = k <=> j = p)
  OBVIOUS
<1> HIDE DEF p
<1>7. w \in Seq(Char) /\ Len(w) = m + n /\ \A j \in 1 .. m + n : w[j] = IF j = p THEN d ELSE u[j]
  BY <1>4, <1>6, ExceptSeq
<1> HIDE DEF w
<1>8. \A j \in 1 .. m + n : ~(j <= m) => j - m \in 1 .. n OBVIOUS
<1>9. ASSUME NEW j \in 1 .. m + n PROVE v[j] = w[j]
  <2>1. CASE j <= m
    <3>1. j # p BY <2>1, <1>6
    <3> QED BY <3>1, <2>1, <1>4, <1>5, <1>7
  <2>2. CASE ~(j <= m)
    <3>1. j - m \in 1 .. n /\ (j - m = k <=> j = p) BY <2>2, <1>6, <1>8
    <3>2. v[j] = b[j - m] /\ u[j] = a[j - m] BY <2>2, <1>4, <1>5
    <3>3. b[j - m] = IF j - m = k THEN d ELSE a[j - m] BY <3>1, <1>3
    <3> QED BY <3>1, <3>2, <3>3, <1>7
  <2> QED BY <2>1, <2>2
<1>10. v = w BY <1>5, <1>7, <1>9, SeqEqual
<1>11. u[p] = a[k] BY <1>4, <1>6
<1>12. p \in 1 .. Len(u) /\ Differ(u[p], d) /\ v = [u EXCEPT ![p] = d]
  BY <1>2, <1>4, <1>6, <1>10, <1>11 DEF w
<1>13. Off(u, v) BY <1>12 DEF Off
<1> QED BY <1>13 DEF u, v

LEMMA DriftJoin ==
    ASSUME NEW field, NEW a, NEW b, NEW F, Drift(a, b, field, F),
           NEW c, NEW d, NEW G, Drift(c, d, field, G), field \notin F \cap G
    PROVE  Drift(a \o c, b \o d, field, F \cup G)
<1>1. a \in Seq(Char) /\ c \in Seq(Char) BY DEF Drift
<1>2. a \o c \in Seq(Char) BY <1>1, ConcatProperties
<1>3. CASE field \in F
  <2>1. Off(a, b) /\ d = c BY <1>3 DEF Drift
  <2> QED BY <2>1, <1>1, <1>2, <1>3, OffBefore DEF Drift
<1>4. CASE field \in G
  <2>1. Off(c, d) /\ b = a BY <1>4 DEF Drift
  <2> QED BY <2>1, <1>1, <1>2, <1>4, OffBehind DEF Drift
<1>5. CASE field \notin F /\ field \notin G BY <1>2, <1>5 DEF Drift
<1> QED BY <1>3, <1>4, <1>5

LEMMA WeighedDrifts ==
    ASSUME NEW z, z.format \in Formats, NEW w, NEW field, MisreadAs(z, w, field)
    PROVE  Drift(Weighed(z), Weighed(w), field, WeighedFields(z.format))
<1> DEFINE a1 == z.number
           b1 == w.number
           a2 == <<z.numberDigit>>
           b2 == <<w.numberDigit>>
           a3 == z.birth
           b3 == w.birth
           a4 == <<z.birthDigit>>
           b4 == <<w.birthDigit>>
           a5 == z.expiry
           b5 == w.expiry
           a6 == <<z.expiryDigit>>
           b6 == <<w.expiryDigit>>
           a7 == z.optional
           b7 == w.optional
           a8 == <<z.optionalDigit>>
           b8 == <<w.optionalDigit>>
           a9 == z.optional2
           b9 == w.optional2
           F1 == {"number"}
           F2 == {"numberDigit"}
           F3 == {"birth"}
           F4 == {"birthDigit"}
           F5 == {"expiry"}
           F6 == {"expiryDigit"}
           F7 == {"optional"}
           F8 == {"optionalDigit"}
           F9 == {"optional2"}
<1>1. /\ Drift(a1, b1, field, F1) /\ Drift(a2, b2, field, F2) /\ Drift(a3, b3, field, F3)
      /\ Drift(a4, b4, field, F4) /\ Drift(a5, b5, field, F5) /\ Drift(a6, b6, field, F6)
      /\ Drift(a7, b7, field, F7) /\ Drift(a8, b8, field, F8) /\ Drift(a9, b9, field, F9)
      /\ w.format = z.format
  BY DEF MisreadAs
<1>2. /\ z.format = "TD3" => Weighed(z) = a1 \o a2 \o a3 \o a4 \o a5 \o a6 \o a7 \o a8
      /\ z.format = "TD2" => Weighed(z) = a1 \o a2 \o a3 \o a4 \o a5 \o a6 \o a7
      /\ z.format = "TD1" => Weighed(z) = a1 \o a2 \o a7 \o a3 \o a4 \o a5 \o a6 \o a9
  BY DEF Weighed
<1>3. /\ w.format = "TD3" => Weighed(w) = b1 \o b2 \o b3 \o b4 \o b5 \o b6 \o b7 \o b8
      /\ w.format = "TD2" => Weighed(w) = b1 \o b2 \o b3 \o b4 \o b5 \o b6 \o b7
      /\ w.format = "TD1" => Weighed(w) = b1 \o b2 \o b7 \o b3 \o b4 \o b5 \o b6 \o b9
  BY DEF Weighed
<1> DEFINE G2 == F1 \cup F2
           G3 == G2 \cup F3
           G4 == G3 \cup F4
           G5 == G4 \cup F5
           G6 == G5 \cup F6
           G7 == G6 \cup F7
           G8 == G7 \cup F8
           H3 == G2 \cup F7
           H4 == H3 \cup F3
           H5 == H4 \cup F4
           H6 == H5 \cup F5
           H7 == H6 \cup F6
           H8 == H7 \cup F9
<1>4. /\ field \notin F1 \cap F2 /\ field \notin G2 \cap F3 /\ field \notin G3 \cap F4
      /\ field \notin G4 \cap F5 /\ field \notin G5 \cap F6 /\ field \notin G6 \cap F7
      /\ field \notin G7 \cap F8
  OBVIOUS
<1>5. /\ field \notin G2 \cap F7 /\ field \notin H3 \cap F3 /\ field \notin H4 \cap F4
      /\ field \notin H5 \cap F5 /\ field \notin H6 \cap F6 /\ field \notin H7 \cap F9
  OBVIOUS
<1>6. /\ z.format = "TD3" => WeighedFields(z.format) = G8
      /\ z.format = "TD2" => WeighedFields(z.format) = G7
      /\ z.format = "TD1" => WeighedFields(z.format) = H8
  BY DEF WeighedFields
<1> HIDE DEF a1, a2, a3, a4, a5, a6, a7, a8, a9, b1, b2, b3, b4, b5, b6, b7, b8, b9,
             F1, F2, F3, F4, F5, F6, F7, F8, F9
<1>7. Drift(a1 \o a2, b1 \o b2, field, G2) BY <1>1, <1>4, DriftJoin
<1> HIDE DEF G2
<1>8. CASE z.format \in {"TD2", "TD3"}
  <2>1. Drift(a1 \o a2 \o a3, b1 \o b2 \o b3, field, G3) BY <1>1, <1>4, <1>7, DriftJoin
  <2> HIDE DEF G3
  <2>2. Drift(a1 \o a2 \o a3 \o a4, b1 \o b2 \o b3 \o b4, field, G4)
    BY <1>1, <1>4, <2>1, DriftJoin
  <2> HIDE DEF G4
  <2>3. Drift(a1 \o a2 \o a3 \o a4 \o a5, b1 \o b2 \o b3 \o b4 \o b5, field, G5)
    BY <1>1, <1>4, <2>2, DriftJoin
  <2> HIDE DEF G5
  <2>4. Drift(a1 \o a2 \o a3 \o a4 \o a5 \o a6, b1 \o b2 \o b3 \o b4 \o b5 \o b6, field, G6)
    BY <1>1, <1>4, <2>3, DriftJoin
  <2> HIDE DEF G6
  <2>5. Drift(a1 \o a2 \o a3 \o a4 \o a5 \o a6 \o a7, b1 \o b2 \o b3 \o b4 \o b5 \o b6 \o b7,
              field, G7)
    BY <1>1, <1>4, <2>4, DriftJoin
  <2> HIDE DEF G7
  <2>6. Drift(a1 \o a2 \o a3 \o a4 \o a5 \o a6 \o a7 \o a8,
              b1 \o b2 \o b3 \o b4 \o b5 \o b6 \o b7 \o b8, field, G8)
    BY <1>1, <1>4, <2>5, DriftJoin
  <2> HIDE DEF G8
  <2> QED BY <2>5, <2>6, <1>1, <1>2, <1>3, <1>6, <1>8
<1>9. CASE z.format = "TD1"
  <2>1. Drift(a1 \o a2 \o a7, b1 \o b2 \o b7, field, H3) BY <1>1, <1>5, <1>7, DriftJoin
  <2> HIDE DEF H3
  <2>2. Drift(a1 \o a2 \o a7 \o a3, b1 \o b2 \o b7 \o b3, field, H4)
    BY <1>1, <1>5, <2>1, DriftJoin
  <2> HIDE DEF H4
  <2>3. Drift(a1 \o a2 \o a7 \o a3 \o a4, b1 \o b2 \o b7 \o b3 \o b4, field, H5)
    BY <1>1, <1>5, <2>2, DriftJoin
  <2> HIDE DEF H5
  <2>4. Drift(a1 \o a2 \o a7 \o a3 \o a4 \o a5, b1 \o b2 \o b7 \o b3 \o b4 \o b5, field, H6)
    BY <1>1, <1>5, <2>3, DriftJoin
  <2> HIDE DEF H6
  <2>5. Drift(a1 \o a2 \o a7 \o a3 \o a4 \o a5 \o a6, b1 \o b2 \o b7 \o b3 \o b4 \o b5 \o b6,
              field, H7)
    BY <1>1, <1>5, <2>4, DriftJoin
  <2> HIDE DEF H7
  <2>6. Drift(a1 \o a2 \o a7 \o a3 \o a4 \o a5 \o a6 \o a9,
              b1 \o b2 \o b7 \o b3 \o b4 \o b5 \o b6 \o b9, field, H8)
    BY <1>1, <1>5, <2>5, DriftJoin
  <2> HIDE DEF H8
  <2> QED BY <2>6, <1>1, <1>2, <1>3, <1>6, <1>9
<1> QED BY <1>8, <1>9 DEF Formats

\* mrz_parse_td1, mrz_parse_td2 and mrz_parse_td3 refuse a zone whose composite digit
\* is that of what it should cover, once one character of one field it weighs, or the
\* digit itself, is taken for another of another weight modulo ten: whichever zone it
\* is, whatever else it holds, and whichever character of it that is.
THEOREM MisreadIsRefused ==
    ASSUME NEW z, z.format \in Formats, z.composite = CheckDigit(Weighed(z)),
           NEW w, NEW field, MisreadAs(z, w, field)
    PROVE  ~Parse(w).valid
<1>1. Parse(w).valid => CheckDigit(Weighed(w)) = w.composite BY DEF Parse
<1>2. Drift(Weighed(z), Weighed(w), field, WeighedFields(z.format)) BY WeighedDrifts
<1>3. Weighed(z) \in Seq(Char) BY <1>2 DEF Drift
<1>4. CASE field = "composite"
  <2>1. Weighed(w) = Weighed(z) BY <1>2, <1>4 DEF Drift, WeighedFields
  <2>2. Differ(z.composite, w.composite) BY <1>4 DEF MisreadAs
  <2>3. z.composite \in 0 .. 9 BY <1>3, DigitIs
  <2>4. w.composite # z.composite BY <2>2, <2>3 DEF Differ, Value, Filler
  <2> QED BY <1>1, <2>1, <2>4
<1>5. CASE field # "composite"
  <2>1. field \in WeighedFields(z.format) /\ w.composite = z.composite
    BY <1>5 DEF MisreadAs
  <2>2. Off(Weighed(z), Weighed(w)) BY <1>2, <2>1 DEF Drift
  <2>3. CheckDigit(Weighed(w)) # CheckDigit(Weighed(z)) BY <1>3, <2>2, OffShows
  <2> QED BY <1>1, <2>1, <2>3
<1> QED BY <1>4, <1>5

(***************************************************************************)
(* Stretches of characters put together, and cut out again.                *)
(***************************************************************************)
LEMMA OneChar ==
    ASSUME NEW c \in Char
    PROVE  <<c>> \in Seq(Char) /\ Len(<<c>>) = 1 /\ <<c>>[1] = c
OBVIOUS

LEMMA GluedExists ==
    ASSUME NEW a \in Seq(Char), NEW b \in Seq(Char)
    PROVE  \E x : Glued(x, a, b)
BY DEF Glued

LEMMA GluedIs ==
    ASSUME NEW a, NEW b, NEW x, Glued(x, a, b)
    PROVE  /\ a \in Seq(Char) /\ b \in Seq(Char) /\ x \in Seq(Char) /\ x = a \o b
           /\ Len(x) = Len(a) + Len(b)
           /\ \A i \in 1 .. Len(a) + Len(b) : x[i] = IF i <= Len(a) THEN a[i] ELSE b[i - Len(a)]
<1>1. a \in Seq(Char) /\ b \in Seq(Char) BY DEF Glued
<1>2. /\ a \o b \in Seq(Char) /\ Len(a \o b) = Len(a) + Len(b)
      /\ \A i \in 1 .. Len(a) + Len(b) : (a \o b)[i] = IF i <= Len(a) THEN a[i] ELSE b[i - Len(a)]
  BY <1>1, ConcatProperties
<1>3. x = a \o b BY DEF Glued
<1> QED BY <1>1, <1>2, <1>3, Zenon

LEMMA GluedLength ==
    ASSUME NEW a, NEW b, NEW x, Glued(x, a, b), NEW n \in Nat, n = Len(a), NEW m \in Nat, m = Len(b)
    PROVE  x \in Seq(Char) /\ Len(x) = n + m /\ \A i \in 1 .. n + m : x[i] = IF i <= n THEN a[i] ELSE b[i - n]
BY GluedIs

LEMMA AnyOrder == \A a, b, c \in Seq(Char) : (a \o b) \o c = a \o (b \o c)
BY ConcatAssociative

LEMMA Regrouped ==
    ASSUME NEW a, NEW b, NEW c, NEW ab, NEW bc, NEW x,
           Glued(ab, a, b), Glued(x, ab, c), Glued(bc, b, c)
    PROVE  Glued(x, a, bc)
<1>0. bc \in Seq(Char) BY GluedIs
<1>1. a \in Seq(Char) /\ b \in Seq(Char) /\ c \in Seq(Char) BY DEF Glued
<1>2. ab = a \o b /\ x = ab \o c /\ bc = b \o c BY DEF Glued
<1>3. (a \o b) \o c = a \o (b \o c) BY <1>1, AnyOrder, Zenon
<1>4. x = a \o bc BY <1>2, <1>3, Zenon
<1> QED BY <1>0, <1>1, <1>4 DEF Glued

\* Where the parts are found again.
LEMMA FirstPart ==
    ASSUME NEW a, NEW b, NEW x, Glued(x, a, b), NEW n \in Nat, n = Len(a)
    PROVE  SubSeq(x, 1, n) = a
<1>0. a \in Seq(Char) /\ b \in Seq(Char) BY DEF Glued
<1>. PICK m \in Nat : m = Len(b) BY <1>0, LenProperties
<1>2. x \in Seq(Char) /\ Len(x) = n + m /\ \A i \in 1 .. n + m : x[i] = IF i <= n THEN a[i] ELSE b[i - n]
  BY GluedLength
<1>3. \A i \in 1 .. n : i \in 1 .. n + m /\ i <= n /\ 1 + i - 1 = i OBVIOUS
<1>4. \A i \in 1 .. n : x[i] \in Char /\ x[i] = a[i] BY <1>2, <1>3, ElementOfSeq
<1> DEFINE s == SubSeq(x, 1, n)
<1>5. /\ s \in Seq(Char) /\ Len(s) = IF 1 <= n THEN n - 1 + 1 ELSE 0
      /\ \A i \in 1 .. n - 1 + 1 : s[i] = x[1 + i - 1]
  BY <1>4, SubSeqProperties
<1> HIDE DEF s
<1>6. Len(s) = n /\ n - 1 + 1 = n BY <1>5
<1>7. \A i \in 1 .. n : s[i] = a[i] BY <1>3, <1>4, <1>5, <1>6
<1>8. s = a BY <1>0, <1>5, <1>6, <1>7, SeqEqual
<1> QED BY <1>8 DEF s

LEMMA LastPart ==
    ASSUME NEW a, NEW b, NEW x, Glued(x, a, b), NEW n \in Nat, n = Len(a),
           NEW m \in Nat, m = Len(b)
    PROVE  \E i, j \in Nat : i = n + 1 /\ j = n + m /\ SubSeq(x, i, j) = b
<1>0. a \in Seq(Char) /\ b \in Seq(Char) BY DEF Glued
<1>2. x \in Seq(Char) /\ Len(x) = n + m /\ \A k \in 1 .. n + m : x[k] = IF k <= n THEN a[k] ELSE b[k - n]
  BY GluedLength
<1>3. \A k \in n + 1 .. n + m : k \in 1 .. n + m OBVIOUS
<1>4. \A k \in n + 1 .. n + m : x[k] \in Char BY <1>2, <1>3, ElementOfSeq
<1> DEFINE s == SubSeq(x, n + 1, n + m)
<1>5. /\ s \in Seq(Char) /\ Len(s) = IF n + 1 <= n + m THEN (n + m) - (n + 1) + 1 ELSE 0
      /\ \A k \in 1 .. (n + m) - (n + 1) + 1 : s[k] = x[(n + 1) + k - 1]
  <2>1. n + 1 \in Int /\ n + m \in Int OBVIOUS
  <2> QED BY <1>4, <2>1, SubSeqProperties
<1> HIDE DEF s
<1>6. Len(s) = m /\ (n + m) - (n + 1) + 1 = m BY <1>5
<1>7. \A k \in 1 .. m : (n + 1) + k - 1 = n + k /\ n + k \in 1 .. n + m /\ ~(n + k <= n) /\ (n + k) - n = k
  OBVIOUS
<1>8. ASSUME NEW k \in 1 .. m PROVE s[k] = b[k]
  <2>1. s[k] = x[(n + 1) + k - 1] BY <1>5, <1>6
  <2>2. s[k] = x[n + k] BY <2>1, <1>7
  <2>3. x[n + k] = b[(n + k) - n] BY <1>2, <1>7
  <2> QED BY <2>2, <2>3, <1>7
<1>9. n + 1 \in Nat /\ n + m \in Nat OBVIOUS
<1>10. s = b BY <1>0, <1>5, <1>6, <1>8, SeqEqual
<1> QED BY <1>9, <1>10 DEF s

LEMMA LastPartIs ==
    ASSUME NEW a, NEW b, NEW x, Glued(x, a, b), NEW i, Behind(i, a), NEW j, UpTo(j, x)
    PROVE  Part(x, i, j, b)
<1>. PICK n \in Nat : n = Len(a) /\ i = n + 1 BY DEF Behind
<1>. PICK m \in Nat : m = Len(b) BY LenProperties DEF Glued
<1>1. Len(x) = n + m BY GluedLength
<1>2. j = n + m BY <1>1 DEF UpTo
<1>3. PICK k, l \in Nat : k = n + 1 /\ l = n + m /\ SubSeq(x, k, l) = b BY LastPart
<1> QED BY <1>2, <1>3 DEF Part

LEMMA MiddlePart ==
    ASSUME NEW a, NEW b, NEW c, NEW y, NEW x, Glued(y, a, b), Glued(x, y, c), Some(b),
           NEW i, Behind(i, a), NEW j, UpTo(j, y)
    PROVE  Part(x, i, j, b)
<1>1. Part(y, i, j, b) BY LastPartIs
<1>2. y \in Seq(Char) /\ c \in Seq(Char) /\ x = y \o c BY DEF Glued
<1>3. i \in 1 .. Len(y) /\ j \in 1 .. Len(y)
  <2>. PICK n \in Nat : n = Len(a) /\ i = n + 1 BY DEF Behind
  <2>. PICK m \in Nat : m = Len(b) BY LenProperties DEF Glued
  <2>1. Len(y) = n + m /\ m # 0 BY GluedLength DEF Some
  <2> QED BY <2>1 DEF UpTo
<1>5. SubSeq(y \o c, i, j) = SubSeq(y, i, j) BY <1>2, <1>3, SubSeqOfConcat1
<1> QED BY <1>1, <1>2, <1>5 DEF Part

\* Three stretches with something between them.
LEMMA CutOut ==
    ASSUME NEW a, NEW g, NEW b, NEW h, NEW c, NEW y, NEW z, NEW w, NEW x,
           Glued(y, a, g), Glued(z, y, b), Glued(w, z, h), Glued(x, w, c), Some(b),
           NEW n, UpTo(n, a), NEW i, Behind(i, y), NEW j, UpTo(j, z),
           NEW k, Behind(k, w), NEW l, UpTo(l, x)
    PROVE  Part(x, 1, n, a) /\ Part(x, i, j, b) /\ Part(x, k, l, c)
<1>1. Part(x, k, l, c) BY LastPartIs
<1>2. PICK v : Glued(v, h, c) BY GluedExists DEF Glued
<1>3. Glued(x, z, v) BY <1>2, Regrouped
<1>4. Part(x, i, j, b) BY <1>3, MiddlePart
<1>5. PICK u : Glued(u, b, v) BY <1>2, GluedExists, GluedIs DEF Glued
<1>6. Glued(x, y, u) BY <1>3, <1>5, Regrouped
<1>7. PICK t : Glued(t, g, u) BY <1>5, GluedExists, GluedIs DEF Glued
<1>8. Glued(x, a, t) BY <1>6, <1>7, Regrouped
<1>9. Part(x, 1, n, a) BY <1>8, FirstPart DEF Part, UpTo
<1> QED BY <1>1, <1>4, <1>9

(***************************************************************************)
(* The positions a composite digit covers are the fields it weighs.        *)
(***************************************************************************)
LEMMA SizedGlue ==
    ASSUME NEW a, NEW n, Sized(a, n), NEW b, NEW m, Sized(b, m), NEW p, p = n + m
    PROVE  \E x : Glued(x, a, b) /\ Sized(x, p)
<1>1. a \in Seq(Char) /\ b \in Seq(Char) /\ n \in Nat /\ m \in Nat /\ Len(a) = n /\ Len(b) = m
  BY DEF Sized
<1>2. PICK x : Glued(x, a, b) BY <1>1, GluedExists
<1>3. x \in Seq(Char) /\ Len(x) = n + m BY <1>1, <1>2, GluedLength
<1>4. Sized(x, p) BY <1>1, <1>3 DEF Sized
<1> QED BY <1>2, <1>4

LEMMA SizedEnds ==
    ASSUME NEW a, NEW n, Sized(a, n), NEW p, p = n + 1
    PROVE  UpTo(n, a) /\ Behind(p, a)
BY DEF Sized, UpTo, Behind

LEMMA SizedOne == ASSUME NEW c \in Char PROVE Sized(<<c>>, 1)
BY OneChar DEF Sized

LEMMA Alike == ASSUME NEW a, NEW b, NEW x, Glued(x, a, b) PROVE x = a \o b
BY DEF Glued

LEMMA GapIs == ASSUME NEW n \in Nat PROVE Sized(Gap(n), n)
<1>1. Filler \in Char BY DEF Filler, Char
<1>2. Gap(n) \in [1 .. n -> Char] BY <1>1 DEF Gap
<1>3. Gap(n) \in Seq(Char) BY <1>2, IsASeq
<1>4. Len(Gap(n)) = n BY <1>2, <1>3, LenProperties
<1> QED BY <1>3, <1>4 DEF Sized

LEMMA GroupsExist ==
    ASSUME NEW z, Fields(z)
    PROVE  \E p : \E q : \E e : Groups(z, p, q, e)
<1>1. PICK p : Glued(p, z.number, <<z.numberDigit>>) /\ Sized(p, 10)
  <2>1. 10 = 9 + 1 OBVIOUS
  <2> QED BY <2>1, SizedGlue DEF Fields
<1>2. \A d, c : Sized(d, 6) /\ Sized(c, 1) => \E q : Glued(q, d, c) /\ Sized(q, 7)
  <2>1. 7 = 6 + 1 OBVIOUS
  <2> QED BY <2>1, SizedGlue
<1>3. PICK q : Glued(q, z.birth, <<z.birthDigit>>) /\ Sized(q, 7) BY <1>2 DEF Fields
<1>4. PICK e : Glued(e, z.expiry, <<z.expiryDigit>>) /\ Sized(e, 7) BY <1>2 DEF Fields
<1> QED BY <1>1, <1>3, <1>4 DEF Groups

\* A field and its digit are one stretch behind what is before them.
LEMMA GroupBehind ==
    ASSUME NEW f, NEW d, NEW q, Glued(q, f, d), NEW x, NEW n, Sized(x, n), NEW m, Sized(q, m),
           NEW k, k = n + m
    PROVE  \E y : \E w : Glued(y, x, f) /\ Glued(w, y, d) /\ Glued(w, x, q) /\ Sized(w, k)
<1>1. x \in Seq(Char) /\ f \in Seq(Char) /\ d \in Seq(Char) BY DEF Sized, Glued
<1>2. PICK y : Glued(y, x, f) BY <1>1, GluedExists
<1>3. y \in Seq(Char) BY <1>2, GluedIs
<1>4. PICK w : Glued(w, y, d) BY <1>1, <1>3, GluedExists
<1>5. Glued(w, x, q) BY <1>2, <1>4, Regrouped
<1>6. PICK v : Glued(v, x, q) /\ Sized(v, k) BY SizedGlue
<1>7. v = w BY <1>5, <1>6 DEF Glued
<1> QED BY <1>2, <1>4, <1>5, <1>6, <1>7

LEMMA PartStays ==
    ASSUME NEW x, NEW b, NEW y, Glued(y, x, b), NEW n \in Nat, UpTo(n, x),
           NEW i \in 1 .. n, NEW j \in 1 .. n, NEW a, Part(x, i, j, a)
    PROVE  Part(y, i, j, a)
<1>1. x \in Seq(Char) /\ b \in Seq(Char) /\ y = x \o b BY DEF Glued
<1>2. i \in 1 .. Len(x) /\ j \in 1 .. Len(x) BY DEF UpTo
<1>3. SubSeq(x \o b, i, j) = SubSeq(x, i, j) BY <1>1, <1>2, SubSeqOfConcat1
<1> QED BY <1>1, <1>3 DEF Part

\* The line of a TD2 and of a TD3: the parts that are weighed, and the rest.
LEMMA LowerLine ==
    ASSUME NEW z, NEW p, NEW q, NEW e, Groups(z, p, q, e), NEW n, Sized(z.optional, n),
           NEW k, k = 21 + 7 + n
    PROVE  \E y : \E r :
              /\ LowerIs(y, z) /\ Glued(r, e, z.optional) /\ Sized(y, k)
              /\ Part(y, 1, 10, p) /\ Part(y, 14, 20, q) /\ Part(y, 22, k, r)
              /\ \E x : Glued(y, x, r) /\ Behind(22, x)
<1>1. /\ Glued(p, z.number, <<z.numberDigit>>) /\ Sized(p, 10)
      /\ Glued(q, z.birth, <<z.birthDigit>>) /\ Sized(q, 7)
      /\ Glued(e, z.expiry, <<z.expiryDigit>>) /\ Sized(e, 7)
  BY DEF Groups
<1>2. Sized(Gap(3), 3) /\ Sized(Gap(1), 1) BY GapIs
<1> DEFINE g == Gap(3)
           h == Gap(1)
<1> HIDE DEF g, h
<1>3. Sized(g, 3) /\ Sized(h, 1) BY <1>2 DEF g, h
<1>4. PICK x1 : Glued(x1, p, g) /\ Sized(x1, 13)
  <2>1. 13 = 10 + 3 OBVIOUS
  <2> QED BY <2>1, <1>1, <1>3, SizedGlue
<1>5. PICK x2, x3 : /\ Glued(x2, x1, z.birth) /\ Glued(x3, x2, <<z.birthDigit>>)
                    /\ Glued(x3, x1, q) /\ Sized(x3, 20)
  <2>1. 20 = 13 + 7 OBVIOUS
  <2> QED BY <2>1, <1>1, <1>4, GroupBehind
<1>6. PICK x4 : Glued(x4, x3, h) /\ Sized(x4, 21)
  <2>1. 21 = 20 + 1 OBVIOUS
  <2> QED BY <2>1, <1>3, <1>5, SizedGlue
<1>7. PICK m : m = 21 + 7 OBVIOUS
<1>8. PICK x5, x6 : /\ Glued(x5, x4, z.expiry) /\ Glued(x6, x5, <<z.expiryDigit>>)
                    /\ Glued(x6, x4, e) /\ Sized(x6, m)
  BY <1>1, <1>6, <1>7, GroupBehind
<1>9. PICK y : Glued(y, x6, z.optional) /\ Sized(y, k) BY <1>7, <1>8, SizedGlue
<1>10. PICK r : Glued(r, e, z.optional) BY <1>1, GluedExists DEF Sized
<1>11. Glued(y, x4, r) BY <1>8, <1>9, <1>10, Regrouped
<1>12. Part(y, 1, 10, p) /\ Part(y, 14, 20, q) /\ Part(y, 22, k, r)
  <2>1. UpTo(10, p) /\ UpTo(20, x3) /\ UpTo(k, y) BY <1>1, <1>5, <1>9 DEF UpTo, Sized
  <2>2. Behind(14, x1) BY <1>4, SizedEnds
  <2>3. Behind(22, x4) BY <1>6, SizedEnds
  <2>4. Some(q) BY <1>1 DEF Sized, Some
  <2> QED BY <2>1, <2>2, <2>3, <2>4, <1>4, <1>5, <1>6, <1>11, CutOut
<1>14. Behind(22, x4) BY <1>6, SizedEnds
<1>13. y = z.number \o <<z.numberDigit>> \o g \o z.birth \o <<z.birthDigit>> \o h
           \o z.expiry \o <<z.expiryDigit>> \o z.optional
  <2>1. x1 = z.number \o <<z.numberDigit>> \o g BY <1>1, <1>4, Alike
  <2>2. x3 = x1 \o z.birth \o <<z.birthDigit>> BY <1>5, Alike
  <2>3. x6 = x3 \o h \o z.expiry \o <<z.expiryDigit>> BY <1>6, <1>8, Alike
  <2>4. y = x6 \o z.optional BY <1>9, Alike
  <2> QED BY <2>1, <2>2, <2>3, <2>4, Zenon
<1>15. LowerIs(y, z) BY <1>13, Zenon DEF g, h, LowerIs
<1> QED BY <1>9, <1>10, <1>11, <1>12, <1>14, <1>15

\* What is weighed of it.
LEMMA WeighedLine ==
    ASSUME NEW z, NEW p, NEW q, NEW e, Groups(z, p, q, e), NEW r, Glued(r, e, z.optional)
    PROVE  \E x : \E y :
              Glued(x, p, q) /\ Glued(y, x, r) /\ WeighedIs(y, z)
<1>1. /\ Glued(p, z.number, <<z.numberDigit>>) /\ Sized(p, 10)
      /\ Glued(q, z.birth, <<z.birthDigit>>) /\ Sized(q, 7)
      /\ Glued(e, z.expiry, <<z.expiryDigit>>) /\ Sized(e, 7)
  BY DEF Groups
<1>2. PICK n, m : n = 10 + 7 /\ m = n + 7 OBVIOUS
<1>3. PICK x1, x : /\ Glued(x1, p, z.birth) /\ Glued(x, x1, <<z.birthDigit>>)
                   /\ Glued(x, p, q) /\ Sized(x, n)
  BY <1>1, <1>2, GroupBehind
<1>4. PICK x2, x3 : /\ Glued(x2, x, z.expiry) /\ Glued(x3, x2, <<z.expiryDigit>>)
                    /\ Glued(x3, x, e) /\ Sized(x3, m)
  BY <1>1, <1>2, <1>3, GroupBehind
<1>5. PICK y : Glued(y, x3, z.optional) BY <1>4, GluedExists DEF Sized, Glued
<1>6. Glued(y, x, r) BY <1>4, <1>5, Regrouped
<1>7. WeighedIs(y, z)
  <2>1. x = z.number \o <<z.numberDigit>> \o z.birth \o <<z.birthDigit>>
    BY <1>1, <1>3, Alike
  <2>2. y = x \o z.expiry \o <<z.expiryDigit>> \o z.optional BY <1>4, <1>5, Alike
  <2> QED BY <2>1, <2>2, Zenon DEF WeighedIs
<1> QED BY <1>3, <1>6, <1>7

LEMMA CoveredTd2 ==
    ASSUME NEW z, Fields(z), z.format = "TD2"
    PROVE  Covered(z) = Weighed(z)
<1>1. PICK p, q, e : Groups(z, p, q, e) BY GroupsExist
<1>2. Sized(z.optional, 7) /\ Sized(<<z.optionalDigit>>, 1) BY DEF Fields
<1>3. PICK y, r : /\ LowerIs(y, z) /\ Glued(r, e, z.optional) /\ Sized(y, 35)
                  /\ Part(y, 1, 10, p) /\ Part(y, 14, 20, q) /\ Part(y, 22, 35, r)
  <2>1. 35 = 21 + 7 + 7 OBVIOUS
  <2> QED BY <1>1, <1>2, <2>1, LowerLine
<1>4. PICK x, w : Glued(x, p, q) /\ Glued(w, x, r) /\ WeighedIs(w, z)
  BY <1>1, <1>3, WeighedLine
<1>5. PICK l : Glued(l, y, <<z.optionalDigit>>) BY <1>2, <1>3, GluedExists DEF Sized
<1>6. Part(l, 1, 10, p) /\ Part(l, 14, 20, q) /\ Part(l, 22, 35, r)
  <2>1. UpTo(35, y) BY <1>3 DEF Sized, UpTo
  <2>2. \A i \in {1, 10, 14, 20, 22, 35} : i \in 1 .. 35 OBVIOUS
  <2>3. Part(l, 1, 10, p) BY <2>1, <2>2, <1>3, <1>5, PartStays
  <2>4. Part(l, 14, 20, q) BY <2>1, <2>2, <1>3, <1>5, PartStays
  <2>5. Part(l, 22, 35, r) BY <2>1, <2>2, <1>3, <1>5, PartStays
  <2> QED BY <2>3, <2>4, <2>5
<1>7. l = z.number \o <<z.numberDigit>> \o Gap(3) \o z.birth \o <<z.birthDigit>> \o Gap(1)
          \o z.expiry \o <<z.expiryDigit>> \o z.optional \o <<z.optionalDigit>>
  BY <1>3, <1>5, Alike, Zenon DEF LowerIs
<1>8. Covered(z) = SubSeq(l, 1, 10) \o SubSeq(l, 14, 20) \o SubSeq(l, 22, 35)
  BY <1>7 DEF Covered, Gap
<1>9. Covered(z) = p \o q \o r BY <1>6, <1>8 DEF Part
<1>10. w = p \o q \o r BY <1>4, Alike
<1>11. Weighed(z) = w BY <1>4 DEF Weighed, WeighedIs
<1> QED BY <1>9, <1>10, <1>11

LEMMA CoveredTd3 ==
    ASSUME NEW z, Fields(z), z.format = "TD3"
    PROVE  Covered(z) = Weighed(z)
<1>1. PICK p, q, e : Groups(z, p, q, e) BY GroupsExist
<1>2. Sized(z.optional, 14) /\ Sized(<<z.optionalDigit>>, 1) BY DEF Fields
<1>3. PICK y, r : /\ LowerIs(y, z) /\ Glued(r, e, z.optional) /\ Sized(y, 42)
                  /\ Part(y, 1, 10, p) /\ Part(y, 14, 20, q)
                  /\ \E x : Glued(y, x, r) /\ Behind(22, x)
  <2>1. 42 = 21 + 7 + 14 OBVIOUS
  <2> QED BY <1>1, <1>2, <2>1, LowerLine
<1>4. PICK x, w : Glued(x, p, q) /\ Glued(w, x, r) /\ WeighedIs(w, z)
  BY <1>1, <1>3, WeighedLine
<1>5. PICK l : Glued(l, y, <<z.optionalDigit>>) /\ Sized(l, 43)
  <2>1. 43 = 42 + 1 OBVIOUS
  <2> QED BY <1>2, <1>3, <2>1, SizedGlue
<1>6. PICK s : Glued(s, r, <<z.optionalDigit>>)
  BY <1>2, <1>3, GluedExists, GluedIs DEF Sized
<1>7. Part(l, 1, 10, p) /\ Part(l, 14, 20, q) /\ Part(l, 22, 43, s)
  <2>1. UpTo(42, y) /\ UpTo(43, l) BY <1>3, <1>5 DEF Sized, UpTo
  <2>2. \A i \in {1, 10, 14, 20} : i \in 1 .. 42 OBVIOUS
  <2>3. Part(l, 1, 10, p) BY <2>1, <2>2, <1>3, <1>5, PartStays
  <2>4. Part(l, 14, 20, q) BY <2>1, <2>2, <1>3, <1>5, PartStays
  <2>5. PICK v : Glued(y, v, r) /\ Behind(22, v) BY <1>3
  <2>6. Glued(l, v, s) BY <2>5, <1>5, <1>6, Regrouped
  <2>7. Part(l, 22, 43, s) BY <2>1, <2>5, <2>6, LastPartIs
  <2> QED BY <2>3, <2>4, <2>7
<1>8. l = z.number \o <<z.numberDigit>> \o Gap(3) \o z.birth \o <<z.birthDigit>> \o Gap(1)
          \o z.expiry \o <<z.expiryDigit>> \o z.optional \o <<z.optionalDigit>>
  BY <1>3, <1>5, Alike, Zenon DEF LowerIs
<1>9. Covered(z) = SubSeq(l, 1, 10) \o SubSeq(l, 14, 20) \o SubSeq(l, 22, 43)
  BY <1>8 DEF Covered, Gap
<1>10. Covered(z) = p \o q \o s BY <1>7, <1>9 DEF Part
<1>11. PICK u : Glued(u, w, <<z.optionalDigit>>)
  BY <1>2, <1>4, GluedExists, GluedIs DEF Sized
<1>12. Glued(u, x, s) BY <1>4, <1>6, <1>11, Regrouped
<1>13. u = p \o q \o s BY <1>4, <1>12, Alike
<1>14. Weighed(z) = w \o <<z.optionalDigit>> BY <1>4 DEF Weighed, WeighedIs
<1>15. u = w \o <<z.optionalDigit>> BY <1>11, Alike
<1> QED BY <1>10, <1>13, <1>14, <1>15

LEMMA CoveredTd1 ==
    ASSUME NEW z, Fields(z), z.format = "TD1"
    PROVE  Covered(z) = Weighed(z)
<1>1. PICK p, q, e : Groups(z, p, q, e) BY GroupsExist
<1>2. Sized(z.optional, 15) /\ Sized(z.optional2, 11) BY DEF Fields
<1>3. /\ Glued(p, z.number, <<z.numberDigit>>) /\ Sized(p, 10)
      /\ Glued(q, z.birth, <<z.birthDigit>>) /\ Sized(q, 7)
      /\ Glued(e, z.expiry, <<z.expiryDigit>>) /\ Sized(e, 7)
  BY <1>1 DEF Groups
<1>4. Sized(Gap(5), 5) /\ Sized(Gap(1), 1) /\ Sized(Gap(3), 3) BY GapIs
<1>5. PICK g, h, k : g = Gap(5) /\ h = Gap(1) /\ k = Gap(3) /\ Sized(g, 5) /\ Sized(h, 1) /\ Sized(k, 3)
  BY <1>4
<1>6. PICK r : Glued(r, p, z.optional) /\ Sized(r, 25)
  <2>1. 25 = 10 + 15 OBVIOUS
  <2> QED BY <2>1, <1>2, <1>3, SizedGlue
 \* The first line.
<1>7. PICK f : f = g \o p \o z.optional /\ Part(f, 6, 30, r)
  <2>1. PICK x : Glued(x, g, p) BY <1>3, <1>5, GluedExists DEF Sized
  <2>2. PICK y : Glued(y, x, z.optional) BY <2>1, <1>2, GluedExists, GluedIs DEF Sized
  <2>3. Glued(y, g, r) BY <2>1, <2>2, <1>6, Regrouped
  <2>4. PICK v : Glued(v, g, r) /\ Sized(v, 30)
    <3>1. 30 = 5 + 25 OBVIOUS
    <3> QED BY <3>1, <1>5, <1>6, SizedGlue
  <2>5. v = y BY <2>3, <2>4, Alike
  <2>6. UpTo(30, y) BY <2>4, <2>5 DEF Sized, UpTo
  <2>7. Behind(6, g) BY <1>5, SizedEnds
  <2>8. Part(y, 6, 30, r) BY <2>3, <2>6, <2>7, LastPartIs
  <2>9. y = g \o p \o z.optional BY <2>1, <2>2, Alike
  <2> QED BY <2>8, <2>9
 \* The second.
<1>8. PICK s : /\ s = z.birth \o <<z.birthDigit>> \o h \o z.expiry \o <<z.expiryDigit>> \o k \o z.optional2
               /\ Part(s, 1, 7, q) /\ Part(s, 9, 15, e) /\ Part(s, 19, 29, z.optional2)
  <2>1. PICK x1 : Glued(x1, q, h) /\ Sized(x1, 8)
    <3>1. 8 = 7 + 1 OBVIOUS
    <3> QED BY <3>1, <1>3, <1>5, SizedGlue
  <2>2. PICK x2, x3 : /\ Glued(x2, x1, z.expiry) /\ Glued(x3, x2, <<z.expiryDigit>>)
                      /\ Glued(x3, x1, e) /\ Sized(x3, 15)
    <3>1. 15 = 8 + 7 OBVIOUS
    <3> QED BY <3>1, <2>1, <1>3, GroupBehind
  <2>3. PICK x4 : Glued(x4, x3, k) /\ Sized(x4, 18)
    <3>1. 18 = 15 + 3 OBVIOUS
    <3> QED BY <3>1, <2>2, <1>5, SizedGlue
  <2>4. PICK y : Glued(y, x4, z.optional2) /\ Sized(y, 29)
    <3>1. 29 = 18 + 11 OBVIOUS
    <3> QED BY <3>1, <2>3, <1>2, SizedGlue
  <2>5. UpTo(7, q) /\ UpTo(15, x3) /\ UpTo(29, y) BY <2>2, <2>4, <1>3 DEF Sized, UpTo
  <2>6. Behind(9, x1) BY <2>1, SizedEnds
  <2>7. Behind(19, x4) BY <2>3, SizedEnds
  <2>8. Some(e) BY <1>3 DEF Sized, Some
  <2>9. Part(y, 1, 7, q) /\ Part(y, 9, 15, e) /\ Part(y, 19, 29, z.optional2)
    BY <2>1, <2>2, <2>3, <2>4, <2>5, <2>6, <2>7, <2>8, CutOut
  <2>10. y = z.birth \o <<z.birthDigit>> \o h \o z.expiry \o <<z.expiryDigit>> \o k \o z.optional2
    <3>1. x1 = z.birth \o <<z.birthDigit>> \o h BY <2>1, <1>3, Alike
    <3>2. x3 = x1 \o z.expiry \o <<z.expiryDigit>> BY <2>2, Alike
    <3>3. y = x3 \o k \o z.optional2 BY <2>3, <2>4, Alike
    <3> QED BY <3>1, <3>2, <3>3, Zenon
  <2> QED BY <2>9, <2>10
<1>9. Covered(z) = SubSeq(f, 6, 30) \o SubSeq(s, 1, 7) \o SubSeq(s, 9, 15) \o SubSeq(s, 19, 29)
  <2>1. p = z.number \o <<z.numberDigit>> BY <1>3, Alike
  <2>2. f = Gap(5) \o (z.number \o <<z.numberDigit>>) \o z.optional BY <2>1, <1>5, <1>7
  <2>3. s = z.birth \o <<z.birthDigit>> \o Gap(1) \o z.expiry \o <<z.expiryDigit>> \o Gap(3)
            \o z.optional2
    BY <1>5, <1>8
  <2> QED BY <2>2, <2>3 DEF Covered, Gap
<1>10. Covered(z) = r \o q \o e \o z.optional2 BY <1>7, <1>8, <1>9 DEF Part
 \* What is weighed.
<1>11. PICK w : /\ w = r \o z.birth \o <<z.birthDigit>> \o z.expiry \o <<z.expiryDigit>>
                /\ w = r \o q \o e
  <2>1. PICK n, m : n = 25 + 7 /\ m = n + 7 OBVIOUS
  <2>2. PICK x1, x : /\ Glued(x1, r, z.birth) /\ Glued(x, x1, <<z.birthDigit>>)
                     /\ Glued(x, r, q) /\ Sized(x, n)
    BY <2>1, <1>3, <1>6, GroupBehind
  <2>3. PICK x2, x3 : /\ Glued(x2, x, z.expiry) /\ Glued(x3, x2, <<z.expiryDigit>>)
                      /\ Glued(x3, x, e) /\ Sized(x3, m)
    BY <2>1, <2>2, <1>3, GroupBehind
  <2>4. x3 = r \o z.birth \o <<z.birthDigit>> \o z.expiry \o <<z.expiryDigit>>
    BY <2>2, <2>3, Alike
  <2>5. x3 = r \o q \o e BY <2>2, <2>3, Alike
  <2> QED BY <2>4, <2>5
<1>12. Weighed(z) = w \o z.optional2
  <2>1. r = z.number \o <<z.numberDigit>> \o z.optional BY <1>3, <1>6, Alike
  <2>2. Weighed(z) = z.number \o <<z.numberDigit>> \o z.optional \o z.birth \o <<z.birthDigit>>
                         \o z.expiry \o <<z.expiryDigit>> \o z.optional2
    BY DEF Weighed
  <2> QED BY <2>1, <2>2, <1>11, Zenon
<1> QED BY <1>10, <1>11, <1>12, Zenon

\* The stretches mrz_parse_td1, mrz_parse_td2 and mrz_parse_td3 hand to
\* mrz_check_digit_ranges are, put together, the positions of the printed lines that
\* the composite digit of that format covers, of any zone with fields of its widths.
THEOREM WeighedAsPrinted == \A z : Fields(z) => Covered(z) = Weighed(z)
BY CoveredTd1, CoveredTd2, CoveredTd3 DEF Fields, Formats

(***************************************************************************)
(* What is printed for a document.                                         *)
(***************************************************************************)
LEMMA PaddedIs ==
    ASSUME NEW a, NEW k, Sized(a, k), NEW n \in Nat, k <= n
    PROVE  Widened(Padded(a, n), a, k, n)
<1>1. k \in Nat /\ Len(a) = k BY DEF Sized
<1>2. PICK m \in Nat : m = n - k BY <1>1
<1>3. Padded(a, n) = a \o Gap(m) BY <1>1, <1>2 DEF Padded, Gap
<1>4. Sized(Gap(m), m) BY GapIs
<1>5. n = k + m BY <1>1, <1>2
<1>6. PICK x : Glued(x, a, Gap(m)) /\ Sized(x, n) BY <1>4, <1>5, SizedGlue
<1>7. x = Padded(a, n) BY <1>3, <1>6, Alike
<1>8. ASSUME NEW i \in 1 .. n PROVE x[i] = IF i <= k THEN a[i] ELSE Filler
  <2>1. x[i] = IF i <= k THEN a[i] ELSE Gap(m)[i - k]
    <3>1. Len(a) = k /\ Len(Gap(m)) = m BY <1>1, <1>4 DEF Sized
    <3>2. \A j \in 1 .. k + m : x[j] = IF j <= k THEN a[j] ELSE Gap(m)[j - k]
      BY <1>1, <1>6, <3>1, GluedLength
    <3> QED BY <1>5, <3>2
  <2>2. CASE i <= k BY <2>1, <2>2
  <2>3. CASE ~(i <= k)
    <3>1. i - k \in 1 .. m BY <2>3, <1>1, <1>5
    <3>2. Gap(m)[i - k] = Filler BY <3>1 DEF Gap
    <3> QED BY <2>1, <2>3, <3>2
  <2> QED BY <2>2, <2>3
<1> QED BY <1>6, <1>7, <1>8 DEF Widened

LEMMA CutTo ==
    ASSUME NEW a, NEW n, Sized(a, n), NEW k \in Nat, k <= n
    PROVE  /\ Sized(SubSeq(a, 1, k), k)
           /\ \A i \in 1 .. k : SubSeq(a, 1, k)[i] = a[i]
<1>1. a \in Seq(Char) /\ n \in Nat /\ Len(a) = n BY DEF Sized
<1>2. \A i \in 1 .. k : a[i] \in Char BY <1>1, ElementOfSeq
<1> DEFINE s == SubSeq(a, 1, k)
<1>3. /\ s \in Seq(Char) /\ Len(s) = (IF 1 <= k THEN k - 1 + 1 ELSE 0)
      /\ \A i \in 1 .. k - 1 + 1 : s[i] = a[1 + i - 1]
  BY <1>2, SubSeqProperties
<1> HIDE DEF s
<1>4. Len(s) = k /\ \A i \in 1 .. k : i \in 1 .. k - 1 + 1 /\ 1 + i - 1 = i BY <1>3
<1>5. \A i \in 1 .. k : s[i] = a[i] BY <1>3, <1>4
<1>6. Sized(s, k) BY <1>3, <1>4 DEF Sized
<1> QED BY <1>5, <1>6 DEF s

LEMMA WholeCut ==
    ASSUME NEW a, NEW n, Sized(a, n)
    PROVE  SubSeq(a, 1, n) = a
BY SubSeqFull DEF Sized

\* What is left of a field without its filler.
LEMMA CompactOf ==
    ASSUME NEW a, NEW k, Sized(a, k), \A i \in 1 .. k : a[i] # Filler,
           NEW w, NEW n, Widened(w, a, k, n)
    PROVE  Compact(w) = a
<1>1. /\ a \in Seq(Char) /\ k \in Nat /\ Len(a) = k
      /\ w \in Seq(Char) /\ n \in Nat /\ Len(w) = n /\ k <= n
      /\ \A i \in 1 .. n : w[i] = IF i <= k THEN a[i] ELSE Filler
  BY DEF Sized, Widened
<1>2. PICK f : FoldCompact(f, w, n) /\ Compact(w) = f[n] BY <1>1, CompactIs
<1>3. \A i \in 0 .. n : f[i] = KeptUpTo(w, f, i) BY <1>2 DEF FoldCompact
<1> DEFINE A == {i \in Nat : i <= n => f[i] = IF i <= k THEN SubSeq(a, 1, i) ELSE a}
<1>4. 0 \in A
  <2>1. SubSeq(a, 1, 0) = <<>> BY SubSeqEmpty
  <2>2. 0 \in 0 .. n /\ 0 <= k BY <1>1
  <2>3. f[0] = <<>> BY <2>2, <1>3 DEF KeptUpTo
  <2> QED BY <2>1, <2>2, <2>3
<1>5. ASSUME NEW i \in A PROVE i + 1 \in A
  <2> SUFFICES ASSUME i + 1 <= n
               PROVE  f[i + 1] = IF i + 1 <= k THEN SubSeq(a, 1, i + 1) ELSE a
    OBVIOUS
  <2>1. /\ i \in Nat /\ i + 1 \in 1 .. n /\ i + 1 \in 0 .. n /\ i + 1 # 0 /\ (i + 1) - 1 = i /\ i <= n
    BY <1>1
  <2>2. f[i] = IF i <= k THEN SubSeq(a, 1, i) ELSE a BY <2>1
  <2>3. f[i + 1] = IF w[i + 1] # Filler THEN Append(f[i], w[i + 1]) ELSE f[i]
    BY <2>1, <1>3 DEF KeptUpTo
  <2>4. CASE i + 1 <= k
    <3>1. w[i + 1] = a[i + 1] /\ a[i + 1] # Filler /\ i <= k BY <2>1, <2>4, <1>1
    <3>2. f[i + 1] = Append(SubSeq(a, 1, i), a[i + 1]) BY <3>1, <2>2, <2>3
    <3>3. Append(SubSeq(a, 1, i), a[i + 1]) = SubSeq(a, 1, i + 1)
      <4>1. i \in Nat /\ i + 1 \in Nat /\ i <= k /\ i + 1 <= k BY <2>1, <2>4, <3>1
      <4>2. Sized(SubSeq(a, 1, i), i) /\ \A j \in 1 .. i : SubSeq(a, 1, i)[j] = a[j]
        BY <4>1, CutTo
      <4>3. Sized(SubSeq(a, 1, i + 1), i + 1) /\ \A j \in 1 .. i + 1 : SubSeq(a, 1, i + 1)[j] = a[j]
        BY <4>1, CutTo
      <4>4. PICK u : u = SubSeq(a, 1, i) /\ Sized(u, i) /\ \A j \in 1 .. i : u[j] = a[j]
        BY <4>2
      <4>5. PICK v : v = SubSeq(a, 1, i + 1) /\ Sized(v, i + 1) /\ \A j \in 1 .. i + 1 : v[j] = a[j]
        BY <4>3
      <4>6. PICK c \in Char : c = a[i + 1] BY <2>1, <2>4, <1>1, ElementOfSeq
      <4>7. u \in Seq(Char) /\ Len(u) = i BY <4>4 DEF Sized
      <4>8. /\ Append(u, c) \in Seq(Char) /\ Len(Append(u, c)) = Len(u) + 1
            /\ \A j \in 1 .. Len(u) : Append(u, c)[j] = u[j]
            /\ Append(u, c)[Len(u) + 1] = c
        BY <4>7, AppendProperties
      <4>9. \A j \in 1 .. i + 1 : Append(u, c)[j] = v[j] BY <4>4, <4>5, <4>6, <4>7, <4>8
      <4>10. v \in Seq(Char) /\ Len(v) = i + 1 BY <4>5 DEF Sized
      <4>11. Append(u, c) = v BY <4>7, <4>8, <4>9, <4>10, SeqEqual
      <4> QED BY <4>4, <4>5, <4>6, <4>11
    <3> QED BY <2>4, <3>2, <3>3
  <2>5. CASE ~(i + 1 <= k)
    <3>1. w[i + 1] = Filler BY <2>1, <2>5, <1>1
    <3>2. f[i] = a
      <4>1. CASE i <= k
        <5>1. i = k BY <4>1, <2>1, <2>5, <1>1
        <5> QED BY <5>1, <4>1, <2>2, WholeCut
      <4>2. CASE ~(i <= k) BY <4>2, <2>2
      <4> QED BY <4>1, <4>2
    <3> QED BY <3>1, <3>2, <2>3, <2>5
  <2> QED BY <2>4, <2>5
<1>6. A = Nat
  <2>1. A \in SUBSET Nat OBVIOUS
  <2> HIDE DEF A
  <2> QED BY <2>1, <1>4, <1>5, SetInduction
<1>7. n \in A BY <1>1, <1>6
<1>8. f[n] = a
  <2>1. f[n] = IF n <= k THEN SubSeq(a, 1, n) ELSE a BY <1>1, <1>7
  <2>2. CASE n <= k
    <3>1. n = k BY <2>2, <1>1
    <3> QED BY <3>1, <2>1, <2>2, WholeCut
  <2> QED BY <2>1, <2>2
<1> QED BY <1>2, <1>8

LEMMA DigitOne ==
    ASSUME NEW a, NEW n, Sized(a, n)
    PROVE  CheckDigit(a) \in Char /\ CheckDigit(a) # Filler /\ Sized(<<CheckDigit(a)>>, 1)
<1>1. CheckDigit(a) \in 0 .. 9 /\ CheckDigit(a) # Filler BY DigitIs DEF Sized
<1>2. CheckDigit(a) \in Char BY <1>1 DEF Char
<1> QED BY <1>1, <1>2, SizedOne

LEMMA FillerOne == Filler \in Char /\ Sized(<<Filler>>, 1)
BY SizedOne DEF Filler, Char

LEMMA GluedAt ==
    ASSUME NEW a, NEW n, Sized(a, n), NEW b, NEW m, Sized(b, m), NEW x, Glued(x, a, b)
    PROVE  \A p : p = n + m => \A i \in 1 .. p : x[i] = IF i <= n THEN a[i] ELSE b[i - n]
<1>1. n \in Nat /\ n = Len(a) /\ m \in Nat /\ m = Len(b) BY DEF Sized
<1>2. PICK k \in Nat : k = Len(a) BY <1>1
<1>3. PICK l \in Nat : l = Len(b) BY <1>1
<1>4. \A i \in 1 .. k + l : x[i] = IF i <= k THEN a[i] ELSE b[i - k]
  BY <1>2, <1>3, GluedLength
<1> QED BY <1>1, <1>2, <1>3, <1>4

LEMMA RestIs ==
    ASSUME NEW number, NEW n, Sized(number, n), n > 9
    PROVE  /\ Sized(RestOf(number, n), n - 7)
           /\ \A i \in 1 .. n - 7 :
                 RestOf(number, n)[i] = IF i <= n - 9 THEN number[9 + i]
                                        ELSE IF i = n - 8 THEN CheckDigit(number) ELSE Filler
<1>1. number \in Seq(Char) /\ n \in Nat /\ Len(number) = n BY DEF Sized
<1>2. PICK c \in Char : c = CheckDigit(number) BY DigitOne
<1>3. PICK m \in Nat : m = n - 9 /\ m # 0 BY <1>1
<1>4. \A i \in 10 .. n : number[i] \in Char BY <1>1, ElementOfSeq
<1> DEFINE s == SubSeq(number, 10, n)
<1>5. /\ s \in Seq(Char) /\ Len(s) = (IF 10 <= n THEN n - 10 + 1 ELSE 0)
      /\ \A i \in 1 .. n - 10 + 1 : s[i] = number[10 + i - 1]
  BY <1>1, <1>4, SubSeqProperties
<1> HIDE DEF s
<1>6. Sized(s, m) BY <1>1, <1>3, <1>5 DEF Sized
<1>7. \A i \in 1 .. m : s[i] = number[9 + i]
  <2>1. \A i \in 1 .. m : i \in 1 .. n - 10 + 1 /\ 10 + i - 1 = 9 + i BY <1>1, <1>3
  <2> QED BY <2>1, <1>5
<1>8. Sized(<<c, Filler>>, 2) /\ <<c, Filler>>[1] = c /\ <<c, Filler>>[2] = Filler
  BY FillerOne DEF Sized
<1>9. PICK t : t = <<c, Filler>> /\ Sized(t, 2) /\ t[1] = c /\ t[2] = Filler BY <1>8
<1>10. PICK p \in Nat : p = m + 2 /\ p = n - 7 BY <1>1, <1>3
<1>11. PICK x : Glued(x, s, t) /\ Sized(x, p) BY <1>6, <1>9, <1>10, SizedGlue
<1>12. x = RestOf(number, n) BY <1>2, <1>9, <1>11, Alike DEF RestOf, s
<1>13. \A i \in 1 .. p : x[i] = IF i <= m THEN s[i] ELSE t[i - m]
  BY <1>6, <1>9, <1>10, <1>11, GluedAt
<1>14. ASSUME NEW i \in 1 .. p
       PROVE  x[i] = IF i <= n - 9 THEN number[9 + i] ELSE IF i = n - 8 THEN c ELSE Filler
  <2>1. CASE i <= m
    <3>1. i \in 1 .. m /\ i \in 1 .. p /\ i <= n - 9 BY <2>1, <1>3, <1>10
    <3> QED BY <3>1, <2>1, <1>7, <1>13
  <2>2. CASE i = m + 1
    <3>1. i \in 1 .. p /\ ~(i <= m) /\ i - m = 1 /\ ~(i <= n - 9) /\ i = n - 8
      BY <2>2, <1>1, <1>3
    <3> QED BY <3>1, <1>9, <1>13
  <2>3. CASE i = m + 2
    <3>1. i \in 1 .. p /\ ~(i <= m) /\ i - m = 2 /\ ~(i <= n - 9) /\ i # n - 8
      BY <2>3, <1>1, <1>3
    <3> QED BY <3>1, <1>9, <1>13
  <2> QED BY <2>1, <2>2, <2>3, <1>10
<1> QED BY <1>2, <1>10, <1>11, <1>12, <1>14

LEMMA GoesOnIs ==
    ASSUME NEW number, NEW n, Sized(number, n), n > 9, NEW w \in Nat, n - 8 <= w
    PROVE  /\ Sized(GoesOn(number, n, w), w)
           /\ \A i \in 1 .. w :
                 GoesOn(number, n, w)[i] = IF i <= n - 9 THEN number[9 + i]
                                           ELSE IF i = n - 8 THEN CheckDigit(number) ELSE Filler
<1>1. n \in Nat BY DEF Sized
<1>2. PICK k \in Nat : k = Min({n - 7, w}) /\ k <= n - 7 /\ k <= w /\ k >= n - 8
  <2>1. n - 7 \in Nat /\ {n - 7, w} \in SUBSET Nat /\ n - 8 <= n - 7 /\ n - 7 <= n - 7
    BY <1>1
  <2> DEFINE k == Min({n - 7, w})
  <2>2. CASE n - 7 <= w
    <3>1. Min({n - 7, w}) = n - 7
      <4>1. \A x \in {n - 7, w} : n - 7 <= x BY <2>1, <2>2
      <4> QED BY <2>1, <4>1, LeastIs
    <3>2. k \in Nat /\ k <= n - 7 /\ k <= w /\ k >= n - 8 BY <3>1, <2>1, <2>2
    <3> QED BY <3>2
  <2>3. CASE w <= n - 7
    <3>1. Min({n - 7, w}) = w
      <4>1. \A x \in {n - 7, w} : w <= x BY <2>1, <2>3
      <4> QED BY <2>1, <4>1, LeastIs
    <3>2. k \in Nat /\ k <= n - 7 /\ k <= w /\ k >= n - 8 BY <3>1, <2>1, <2>3
    <3> QED BY <3>2
  <2> QED BY <2>1, <2>2, <2>3
<1> DEFINE r == RestOf(number, n)
           s == SubSeq(r, 1, k)
           x == GoesOn(number, n, w)
<1>3. /\ Sized(r, n - 7)
      /\ \A i \in 1 .. n - 7 : r[i] = IF i <= n - 9 THEN number[9 + i]
                                      ELSE IF i = n - 8 THEN CheckDigit(number) ELSE Filler
  BY RestIs
<1> HIDE DEF r
<1>4. Sized(s, k) /\ \A i \in 1 .. k : s[i] = r[i] BY <1>2, <1>3, CutTo
<1> HIDE DEF s
<1>5. Widened(Padded(s, w), s, k, w) BY <1>2, <1>4, PaddedIs
<1>6. x = Padded(s, w) BY <1>2 DEF GoesOn, r, s
<1> HIDE DEF x
<1>7. Sized(x, w) /\ \A i \in 1 .. w : x[i] = IF i <= k THEN s[i] ELSE Filler
  BY <1>5, <1>6 DEF Widened
<1>8. ASSUME NEW i \in 1 .. w
      PROVE  x[i] = IF i <= n - 9 THEN number[9 + i] ELSE IF i = n - 8 THEN CheckDigit(number) ELSE Filler
  <2>1. CASE i <= k
    <3>1. i \in 1 .. k /\ i \in 1 .. n - 7 BY <2>1, <1>1, <1>2
    <3>2. x[i] = r[i] BY <3>1, <2>1, <1>4, <1>7
    <3> QED BY <3>1, <3>2, <1>3
  <2>2. CASE ~(i <= k)
    <3>1. ~(i <= n - 9) /\ i # n - 8 BY <2>2, <1>1, <1>2
    <3> QED BY <3>1, <2>2, <1>7
  <2> QED BY <2>1, <2>2
<1> QED BY <1>7, <1>8 DEF x

LEMMA PrintedIsZone ==
    ASSUME NEW format, NEW number, NEW birth, NEW expiry, NEW personal
    PROVE  Printed(format, number, birth, expiry, personal)
               = ZoneWith(format, PrintedNumber(number), PrintedDigit(number), birth, expiry,
                          PrintedOptional(format, number, personal),
                          PrintedOptional2(format, personal))
BY Zenon DEF Printed, ZoneWith, PrintedNumber, PrintedDigit, PrintedOptional, PrintedOptional2

LEMMA CoversFields ==
    ASSUME NEW a, NEW b, a.format = b.format, a.number = b.number, a.numberDigit = b.numberDigit,
           a.birth = b.birth, a.birthDigit = b.birthDigit, a.expiry = b.expiry,
           a.expiryDigit = b.expiryDigit, a.optional = b.optional,
           a.optionalDigit = b.optionalDigit, a.optional2 = b.optional2
    PROVE  Covered(a) = Covered(b)
BY Zenon DEF Covered

LEMMA ZoneHas ==
    ASSUME NEW format, NEW field, NEW digit, NEW birth, NEW expiry, NEW optional, NEW optional2
    PROVE  HasFields(ZoneWith(format, field, digit, birth, expiry, optional, optional2),
                     format, field, digit, birth, expiry, optional, optional2)
<1> DEFINE zone == [format |-> format, number |-> field, numberDigit |-> digit,
                    birth |-> birth, birthDigit |-> CheckDigit(birth),
                    expiry |-> expiry, expiryDigit |-> CheckDigit(expiry),
                    optional |-> optional, optionalDigit |-> CheckDigit(optional),
                    optional2 |-> optional2, composite |-> 0]
           z == ZoneWith(format, field, digit, birth, expiry, optional, optional2)
<1>1. /\ zone.format = format /\ zone.number = field /\ zone.numberDigit = digit
      /\ zone.birth = birth /\ zone.birthDigit = CheckDigit(birth)
      /\ zone.expiry = expiry /\ zone.expiryDigit = CheckDigit(expiry)
      /\ zone.optional = optional /\ zone.optionalDigit = CheckDigit(optional)
      /\ zone.optional2 = optional2
  OBVIOUS
<1>2. PICK c : c = CheckDigit(Covered(zone)) OBVIOUS
<1>3. z = [zone EXCEPT !.composite = c] BY <1>2, Zenon DEF ZoneWith
<1>4. /\ z.format = format /\ z.number = field /\ z.numberDigit = digit
      /\ z.birth = birth /\ z.birthDigit = CheckDigit(birth)
      /\ z.expiry = expiry /\ z.expiryDigit = CheckDigit(expiry)
      /\ z.optional = optional /\ z.optionalDigit = CheckDigit(optional)
      /\ z.optional2 = optional2 /\ z.composite = c
  BY <1>3
<1> HIDE DEF z, zone
<1>5. Covered(z) = Covered(zone) BY <1>1, <1>4, CoversFields, Zenon
<1>6. HasFields(z, format, field, digit, birth, expiry, optional, optional2)
  BY <1>2, <1>4, <1>5 DEF HasFields
<1> QED BY <1>6 DEF z

LEMMA ShortNumberIs ==
    ASSUME NEW number, NEW n, Sized(number, n), n <= 9
    PROVE  /\ Widened(PrintedNumber(number), number, n, 9)
           /\ PrintedDigit(number) = CheckDigit(PrintedNumber(number))
<1>1. n \in Nat /\ Len(number) = n BY DEF Sized
<1>2. Min({9, n}) = n
  <2>1. {9, n} \in SUBSET Nat /\ \A x \in {9, n} : n <= x BY <1>1
  <2> QED BY <2>1, LeastIs
<1>3. PrintedNumber(number) = Padded(number, 9)
  <2>1. Min({9, Len(number)}) = n BY <1>1, <1>2
  <2> QED BY <2>1, WholeCut DEF PrintedNumber
<1>4. Widened(Padded(number, 9), number, n, 9) BY PaddedIs
<1>5. PrintedDigit(number) = CheckDigit(Padded(number, 9)) BY <1>1 DEF PrintedDigit
<1> QED BY <1>3, <1>4, <1>5

LEMMA LongNumberIs ==
    ASSUME NEW number, NEW n, Sized(number, n), n > 9
    PROVE  /\ Sized(PrintedNumber(number), 9)
           /\ \A i \in 1 .. 9 : PrintedNumber(number)[i] = number[i]
           /\ PrintedDigit(number) = Filler
<1>1. n \in Nat /\ Len(number) = n BY DEF Sized
<1>. PICK k \in Nat : k = 9 OBVIOUS
<1>2. Min({9, n}) = k
  <2>1. {9, n} \in SUBSET Nat /\ \A x \in {9, n} : 9 <= x BY <1>1
  <2> QED BY <2>1, LeastIs
<1> DEFINE s == SubSeq(number, 1, k)
<1>3. PrintedNumber(number) = Padded(s, k)
  <2>1. Min({9, Len(number)}) = k BY <1>1, <1>2
  <2> QED BY <2>1 DEF PrintedNumber
<1>4. Sized(s, k) /\ \A i \in 1 .. k : s[i] = number[i] BY <1>1, CutTo
<1> HIDE DEF s
<1>5. Widened(Padded(s, k), s, k, k) BY <1>4, PaddedIs
<1>6. /\ Sized(PrintedNumber(number), k)
      /\ \A i \in 1 .. k : PrintedNumber(number)[i] = number[i]
  BY <1>3, <1>4, <1>5 DEF Widened
<1>7. PrintedDigit(number) = Filler BY <1>1 DEF PrintedDigit
<1> QED BY <1>6, <1>7

LEMMA NothingIs == Sized(<<>>, 0)
BY DEF Sized

LEMMA PrintedOptional2Is ==
    ASSUME NEW format, NEW personal, Personalised(personal, format)
    PROVE  Sized(PrintedOptional2(format, personal), 11)
<1>1. PICK m : Sized(personal, m) /\ m <= PersonalRoom(format) BY DEF Personalised
<1>2. PICK k \in Nat : k = 11 OBVIOUS
<1>3. CASE format = "TD1"
  <2>1. m <= k BY <1>1, <1>2, <1>3 DEF PersonalRoom
  <2>2. Widened(Padded(personal, k), personal, m, k) BY <2>1, <1>1, PaddedIs
  <2> QED BY <2>2, <1>2, <1>3 DEF PrintedOptional2, Widened
<1>4. CASE format # "TD1"
  <2>1. Widened(Padded(<<>>, k), <<>>, 0, k) BY NothingIs, PaddedIs
  <2> QED BY <2>1, <1>2, <1>4 DEF PrintedOptional2, Widened
<1> QED BY <1>3, <1>4

LEMMA PrintedOptionalIs ==
    ASSUME NEW format \in Formats, NEW number, NEW n, Sized(number, n), n <= LongestNumber(format),
           NEW personal, Personalised(personal, format)
    PROVE  LET o == PrintedOptional(format, number, personal)
               w == OptionalWidth(format)
           IN /\ Sized(o, w)
              /\ n > 9 => \A i \in 1 .. w : o[i] = IF i <= n - 9 THEN number[9 + i]
                                                  ELSE IF i = n - 8 THEN CheckDigit(number) ELSE Filler
<1>1. n \in Nat /\ Len(number) = n BY DEF Sized
<1>2. PICK m : Sized(personal, m) /\ m <= PersonalRoom(format) BY DEF Personalised
<1>3. PICK w \in Nat : w = OptionalWidth(format) BY DEF OptionalWidth, Formats
<1> DEFINE o == PrintedOptional(format, number, personal)
           rest == SubSeq(number, 10, Len(number)) \o <<CheckDigit(number), Filler>>
<1>4. o = Padded(IF Len(number) > 9 THEN SubSeq(rest, 1, Min({Len(rest), w}))
                 ELSE IF format = "TD1" THEN <<>> ELSE personal, w)
  <2>1. o = Padded(IF Len(number) > 9 THEN SubSeq(rest, 1, Min({Len(rest), OptionalWidth(format)}))
                   ELSE IF format = "TD1" THEN <<>> ELSE personal, OptionalWidth(format))
    BY Zenon DEF PrintedOptional, OptionalWidth
  <2> HIDE DEF o, rest
  <2> QED BY <2>1, <1>3
<1>5. rest = RestOf(number, n) BY <1>1, Zenon DEF RestOf
<1> HIDE DEF o, rest
<1>6. CASE n > 9
  <2>1. Len(rest) = n - 7 BY <1>5, <1>6, RestIs DEF Sized
  <2>2. o = Padded(SubSeq(rest, 1, Min({n - 7, w})), w) BY <2>1, <1>1, <1>4, <1>6
  <2>3. o = GoesOn(number, n, w) BY <2>2, <1>5, Zenon DEF GoesOn
  <2>4. n - 8 <= w BY <1>1, <1>3, <1>6 DEF OptionalWidth, Formats, LongestNumber
  <2>5. /\ Sized(GoesOn(number, n, w), w)
        /\ \A i \in 1 .. w :
              GoesOn(number, n, w)[i] = IF i <= n - 9 THEN number[9 + i]
                                        ELSE IF i = n - 8 THEN CheckDigit(number) ELSE Filler
    BY <2>4, <1>6, GoesOnIs
  <2> QED BY <2>3, <2>5, <1>3 DEF o
<1>7. CASE ~(n > 9)
  <2>1. CASE format = "TD1"
    <3>1. o = Padded(<<>>, w) BY <2>1, <1>1, <1>4, <1>7
    <3>2. Widened(Padded(<<>>, w), <<>>, 0, w) BY NothingIs, PaddedIs
    <3> QED BY <3>1, <3>2, <1>3, <1>7 DEF Widened, o
  <2>2. CASE format # "TD1"
    <3>1. o = Padded(personal, w) BY <2>2, <1>1, <1>4, <1>7
    <3>2. m <= w BY <2>2, <1>2, <1>3 DEF PersonalRoom
    <3>3. Widened(Padded(personal, w), personal, m, w) BY <3>2, <1>2, PaddedIs
    <3> QED BY <3>1, <3>3, <1>3, <1>7 DEF Widened, o
  <2> QED BY <2>1, <2>2
<1> QED BY <1>6, <1>7

LEMMA PrintedIs ==
    ASSUME NEW format, NEW number, NEW birth, NEW expiry, NEW personal,
           Document(format, number, birth, expiry, personal), NEW n, Numbered(number, n, format)
    PROVE  ZoneOf(Printed(format, number, birth, expiry, personal), format, number, n, birth, expiry)
<1> DEFINE z == Printed(format, number, birth, expiry, personal)
<1>1. /\ format \in Formats /\ Sized(number, n) /\ n <= LongestNumber(format)
      /\ Sized(birth, 6) /\ Sized(expiry, 6) /\ Personalised(personal, format)
  BY DEF Document, Numbered, Date
<1>2. n \in Nat BY <1>1 DEF Sized
<1>3. /\ z.format = format /\ z.number = PrintedNumber(number)
      /\ z.numberDigit = PrintedDigit(number)
      /\ z.birth = birth /\ z.birthDigit = CheckDigit(birth)
      /\ z.expiry = expiry /\ z.expiryDigit = CheckDigit(expiry)
      /\ z.optional = PrintedOptional(format, number, personal)
      /\ z.optionalDigit = CheckDigit(z.optional)
      /\ z.optional2 = PrintedOptional2(format, personal) /\ z.composite = CheckDigit(Covered(z))
  <2> DEFINE f == PrintedNumber(number)
             d == PrintedDigit(number)
             o == PrintedOptional(format, number, personal)
             o2 == PrintedOptional2(format, personal)
             y == ZoneWith(format, f, d, birth, expiry, o, o2)
  <2>1. z = y BY PrintedIsZone, Zenon
  <2> HIDE DEF z, f, d, o, o2
  <2>2. HasFields(y, format, f, d, birth, expiry, o, o2) BY ZoneHas
  <2> HIDE DEF y
  <2> QED BY <2>1, <2>2 DEF f, d, o, o2, HasFields
<1> HIDE DEF z
<1>4. PICK w : w = OptionalWidth(format) OBVIOUS
<1>5. /\ Sized(z.optional, w)
      /\ n > 9 => \A i \in 1 .. w : z.optional[i] = IF i <= n - 9 THEN number[9 + i]
                                          ELSE IF i = n - 8 THEN CheckDigit(number) ELSE Filler
  BY <1>1, <1>3, <1>4, PrintedOptionalIs
<1>6. Sized(z.optional2, 11) BY <1>1, <1>3, PrintedOptional2Is
<1>7. IF n > 9 THEN LongIn(z, number, n, w) ELSE ShortIn(z, number, n)
  <2>1. CASE n > 9 BY <2>1, <1>1, <1>3, <1>5, LongNumberIs DEF LongIn
  <2>2. CASE ~(n > 9)
    <3>1. n <= 9 BY <2>2, <1>2
    <3>2. /\ Widened(PrintedNumber(number), number, n, 9)
          /\ PrintedDigit(number) = CheckDigit(PrintedNumber(number))
      BY <3>1, <1>1, ShortNumberIs
    <3> QED BY <3>2, <2>2, <1>3 DEF ShortIn
  <2> QED BY <2>1, <2>2
<1>8. Sized(z.number, 9) /\ Sized(<<z.numberDigit>>, 1)
  <2>1. CASE n > 9 BY <2>1, <1>7, FillerOne DEF LongIn
  <2>2. CASE ~(n > 9)
    <3>1. Sized(z.number, 9) /\ z.numberDigit = CheckDigit(z.number)
      BY <2>2, <1>7 DEF ShortIn, Widened
    <3> QED BY <3>1, DigitOne
  <2> QED BY <2>1, <2>2
<1>9. Sized(<<z.birthDigit>>, 1) /\ Sized(<<z.expiryDigit>>, 1) /\ Sized(<<z.optionalDigit>>, 1)
  BY <1>1, <1>3, <1>5, DigitOne
<1>10. Fields(z)
  <2>1. /\ format = "TD1" => w = 15
        /\ format = "TD2" => w = 7
        /\ format = "TD3" => w = 14
    BY <1>4 DEF OptionalWidth
  <2> QED BY <2>1, <1>1, <1>3, <1>5, <1>6, <1>8, <1>9 DEF Fields
<1>11. z.composite = CheckDigit(Weighed(z)) BY <1>3, <1>10, WeighedAsPrinted
<1>12. ZoneOf(z, format, number, n, birth, expiry)
  BY <1>3, <1>4, <1>7, <1>10, <1>11 DEF ZoneOf
<1> QED BY <1>12 DEF z

(***************************************************************************)
(* What is read of it, and typed to open it.                               *)
(***************************************************************************)
\* What mrz_document_number makes of a short number: the field without its filler.
LEMMA ShortRead ==
    ASSUME NEW number, NEW n, Sized(number, n), \A i \in 1 .. n : number[i] # Filler,
           NEW z, ShortIn(z, number, n), NEW optional
    PROVE  DocumentNumber(z.number, z.numberDigit, optional)
               = [number |-> number, digit |-> z.numberDigit, extended |-> FALSE]
<1>1. Widened(z.number, number, n, 9) /\ z.numberDigit = CheckDigit(z.number)
  BY DEF ShortIn
<1>2. z.numberDigit # Filler BY <1>1, DigitOne DEF Widened
<1>3. Compact(z.number) = number BY <1>1, CompactOf
<1> QED BY <1>2, <1>3 DEF DocumentNumber

LEMMA RunIs ==
    ASSUME NEW number, NEW n, Sized(number, n), n > 9, Solid(number, n),
           NEW o, NEW w, Sized(o, w), n - 8 <= w,
           Continues(o, number, n, w)
    PROVE  RunOf(o) = n - 8
<1> DEFINE fillers == {i \in DOMAIN o : o[i] = Filler}
<1>1. n \in Nat /\ w \in Nat /\ Len(o) = w /\ DOMAIN o = 1 .. w BY LenProperties DEF Sized
<1>0. \A i \in 1 .. w : o[i] = IF i <= n - 9 THEN number[9 + i]
                               ELSE IF i = n - 8 THEN CheckDigit(number) ELSE Filler
  BY DEF Continues
<1>2. CheckDigit(number) # Filler BY DigitOne
<1>3. \A i \in 1 .. w : (o[i] = Filler) <=> i >= n - 7
  <2>1. SUFFICES ASSUME NEW i \in 1 .. w PROVE (o[i] = Filler) <=> i >= n - 7 OBVIOUS
  <2>2. CASE i <= n - 9
    <3>1. 9 + i \in 1 .. n /\ ~(i >= n - 7) BY <2>2, <1>1
    <3>2. o[i] = number[9 + i] BY <2>2, <1>0
    <3> QED BY <3>1, <3>2 DEF Solid
  <2>3. CASE i = n - 8
    <3>1. ~(i <= n - 9) /\ ~(i >= n - 7) BY <2>3, <1>1
    <3>2. o[i] = CheckDigit(number) BY <2>3, <3>1, <1>0
    <3> QED BY <3>1, <3>2, <1>2
  <2>4. CASE i >= n - 7
    <3>1. ~(i <= n - 9) /\ i # n - 8 BY <2>4, <1>1
    <3>2. o[i] = Filler BY <3>1, <1>0
    <3> QED BY <3>2, <2>4
  <2> QED BY <2>2, <2>3, <2>4, <1>1
<1>4. fillers = {i \in 1 .. w : i >= n - 7} BY <1>1, <1>3
<1> HIDE DEF fillers
<1>5. CASE n - 7 <= w
  <2>1. n - 7 \in fillers /\ fillers \in SUBSET Nat /\ \A x \in fillers : n - 7 <= x
    BY <1>1, <1>4, <1>5
  <2>2. Min(fillers) = n - 7 BY <2>1, LeastIs
  <2>3. fillers # {} /\ (n - 7) - 1 = n - 8 BY <2>1, <1>1
  <2> QED BY <2>2, <2>3 DEF fillers, RunOf
<1>6. CASE ~(n - 7 <= w)
  <2>1. fillers = {} /\ w = n - 8 BY <1>1, <1>4, <1>6
  <2> QED BY <2>1, <1>1 DEF fillers, RunOf
<1> QED BY <1>5, <1>6

\* The two pieces of a long number.
LEMMA PutTogether ==
    ASSUME NEW number, NEW n, Sized(number, n), n > 9, Solid(number, n),
           NEW f, Sized(f, 9), \A i \in 1 .. 9 : f[i] = number[i],
           NEW o, NEW w, Sized(o, w), n - 8 <= w,
           Continues(o, number, n, w)
    PROVE  Compact(f) \o SubSeq(o, 1, n - 9) = number
<1>1. n \in Nat /\ w \in Nat BY DEF Sized
<1>. PICK k, m \in Nat : k = 9 /\ m = n - 9 /\ k + m = n /\ m <= w BY <1>1
<1>2. Sized(f, k) /\ \A i \in 1 .. k : f[i] = number[i] /\ f[i] # Filler
  <2>1. \A i \in 1 .. k : i \in 1 .. n BY <1>1
  <2> QED BY <2>1 DEF Solid
<1>3. Compact(f) = f
  <2>1. Widened(f, f, k, k) BY <1>2 DEF Widened
  <2> QED BY <2>1, <1>2, CompactOf
<1> DEFINE s == SubSeq(o, 1, m)
<1>4. Sized(s, m) /\ \A i \in 1 .. m : s[i] = o[i] BY CutTo
<1> HIDE DEF s
<1>5. PICK x : Glued(x, f, s) /\ Sized(x, n) BY <1>2, <1>4, SizedGlue
<1>6. \A i \in 1 .. n : x[i] = IF i <= k THEN f[i] ELSE s[i - k]
  BY <1>2, <1>4, <1>5, GluedAt
<1>7. ASSUME NEW i \in 1 .. n PROVE x[i] = number[i]
  <2>1. CASE i <= k BY <2>1, <1>2, <1>6
  <2>2. CASE ~(i <= k)
    <3>1. i - k \in 1 .. m /\ i - k \in 1 .. w /\ i - k <= n - 9 /\ 9 + (i - k) = i
      BY <2>2, <1>1
    <3>2. s[i - k] = o[i - k] BY <3>1, <1>4
    <3>3. o[i - k] = number[9 + (i - k)] BY <3>1 DEF Continues
    <3> QED BY <2>2, <3>1, <3>2, <3>3, <1>6
  <2> QED BY <2>1, <2>2
<1>8. x = number
  <2>1. x \in Seq(Char) /\ Len(x) = n /\ number \in Seq(Char) /\ Len(number) = n
    BY <1>5 DEF Sized
  <2> QED BY <2>1, <1>7, SeqEqual
<1>9. x = f \o s BY <1>5, Alike
<1> QED BY <1>3, <1>8, <1>9 DEF s

LEMMA LongRead ==
    ASSUME NEW number, NEW n, Sized(number, n), n > 9, n <= 16, Solid(number, n),
           NEW z, NEW w, LongIn(z, number, n, w), Sized(z.optional, w), n - 8 <= w
    PROVE  DocumentNumber(z.number, z.numberDigit, z.optional)
               = [number |-> number, digit |-> CheckDigit(number), extended |-> TRUE]
<1> DEFINE f == z.number
           o == z.optional
           run == RunOf(o)
           whole == Compact(f) \o SubSeq(o, 1, run - 1)
<1>1. /\ Sized(f, 9) /\ \A i \in 1 .. 9 : f[i] = number[i]
      /\ z.numberDigit = Filler /\ Sized(o, w)
      /\ Continues(o, number, n, w)
  BY DEF LongIn, Continues
<1>2. n \in Nat /\ w \in Nat /\ Len(number) = n BY DEF Sized
<1> HIDE DEF f, o
<1>3. run = n - 8 BY <1>1, RunIs
<1>4. DocumentNumber(f, Filler, o)
          = IF Filler # Filler \/ run < 2
            THEN [number |-> Compact(f), digit |-> Filler, extended |-> FALSE]
            ELSE [number |-> SubSeq(whole, 1, Min({Len(whole), DocNumberMax})),
                  digit |-> o[run], extended |-> TRUE]
  BY Zenon DEF DocumentNumber, RunOf
<1> HIDE DEF run
<1>5. ~(run < 2) /\ run - 1 = n - 9 BY <1>2, <1>3
<1>6. whole = number
  <2>1. Compact(f) \o SubSeq(o, 1, n - 9) = number BY <1>1, PutTogether
  <2> QED BY <2>1, <1>5
<1>7. Min({Len(whole), DocNumberMax}) = n
  <2>1. PICK d \in Nat : d = DocNumberMax /\ n <= d BY <1>2 DEF DocNumberMax
  <2>2. {n, d} \in SUBSET Nat /\ n \in {n, d} /\ \A x \in {n, d} : n <= x BY <1>2, <2>1
  <2>3. Min({n, d}) = n BY <2>2, LeastIs
  <2> QED BY <2>1, <2>3, <1>2, <1>6
<1>8. SubSeq(whole, 1, Min({Len(whole), DocNumberMax})) = number BY <1>6, <1>7, WholeCut
<1>9. o[run] = CheckDigit(number)
  <2>1. n - 8 \in 1 .. w /\ ~(n - 8 <= n - 9) BY <1>2
  <2> QED BY <2>1, <1>1, <1>3 DEF Continues
<1>10. DocumentNumber(f, Filler, o) = [number |-> number, digit |-> CheckDigit(number), extended |-> TRUE]
  BY <1>4, <1>5, <1>8, <1>9
<1> QED BY <1>1, <1>10 DEF f, o

LEMMA UpperIs ==
    /\ \A c \in Char : Upper(c) = c
    /\ \A c \in 10 .. 35 : Upper(c + 28) = c
<1>1. ASSUME NEW c \in Char PROVE Upper(c) = c BY <1>1 DEF Upper, Small, Char
<1>2. ASSUME NEW c \in 10 .. 35 PROVE Upper(c + 28) = c BY <1>2 DEF Upper, Small
<1> QED BY <1>1, <1>2

LEMMA TypedIs ==
    ASSUME NEW number, NEW n, Sized(number, n), n # 0, NEW typed \in {number, InSmall(number)}
    PROVE  typed # <<>> /\ Len(typed) = n /\ Capitals(typed) = number
<1>1. number \in Seq(Char) /\ n \in Nat /\ Len(number) = n BY DEF Sized
<1>2. DOMAIN number = 1 .. n /\ number = [i \in 1 .. n |-> number[i]]
  BY <1>1, LenProperties
<1>3. \A i \in 1 .. n : number[i] \in Char BY <1>1, ElementOfSeq
<1>4. CASE typed = number
  <2>1. \A i \in 1 .. n : Upper(number[i]) = number[i] BY <1>3, UpperIs
  <2>2. Capitals(number) = number BY <1>2, <2>1 DEF Capitals
  <2> QED BY <1>1, <1>4, <2>2
<1>5. CASE typed = InSmall(number)
  <2> DEFINE s == InSmall(number)
  <2>1. s = [i \in 1 .. n |-> IF number[i] \in 10 .. 35 THEN number[i] + 28 ELSE number[i]]
    BY <1>2 DEF InSmall
  <2>2. s \in [1 .. n -> Int]
    <3>1. \A i \in 1 .. n : number[i] \in Int BY <1>3 DEF Char
    <3> QED BY <2>1, <3>1
  <2>3. DOMAIN s = 1 .. n /\ s \in Seq(Int) /\ Len(s) = n
    BY <2>2, <1>1, IsASeq, LenProperties
  <2> HIDE DEF s
  <2>4. ASSUME NEW i \in 1 .. n PROVE Upper(s[i]) = number[i]
    <3>1. s[i] = IF number[i] \in 10 .. 35 THEN number[i] + 28 ELSE number[i] BY <2>1
    <3>2. PICK c \in Char : c = number[i] BY <1>3
    <3>3. CASE c \in 10 .. 35 BY <3>1, <3>2, <3>3, UpperIs
    <3>4. CASE c \notin 10 .. 35 BY <3>1, <3>2, <3>4, UpperIs
    <3> QED BY <3>3, <3>4
  <2>5. Capitals(s) = number BY <1>2, <2>3, <2>4 DEF Capitals
  <2>6. s # <<>> BY <2>3
  <2> QED BY <1>5, <2>3, <2>5, <2>6 DEF s
<1> QED BY <1>4, <1>5

LEMMA PaddedLong ==
    ASSUME NEW a, NEW k, Sized(a, k), k > 9
    PROVE  Padded(a, 9) = a
<1>1. a \in Seq(Char) /\ k \in Nat /\ Len(a) = k BY DEF Sized
<1>2. 1 .. 9 - Len(a) = {} BY <1>1
<1>3. [i \in 1 .. 9 - Len(a) |-> Filler] = <<>>
  <2>1. 1 .. 0 = {} OBVIOUS
  <2>2. PICK e : e = [i \in 1 .. 9 - Len(a) |-> Filler] OBVIOUS
  <2>3. e = [i \in 1 .. 0 |-> Filler] BY <1>2, <2>1, <2>2
  <2>4. Sized(Gap(0), 0) BY GapIs
  <2>5. e = Gap(0) BY <2>3 DEF Gap
  <2>6. e \in Seq(Char) /\ Len(e) = 0 BY <2>4, <2>5 DEF Sized
  <2> QED BY <2>2, <2>6, EmptySeq
<1>4. Padded(a, 9) = a \o <<>> BY <1>3 DEF Padded
<1> QED BY <1>1, <1>4, ConcatEmptySeq

LEMMA InformationIs ==
    ASSUME NEW number, NEW n, Sized(number, n), n # 0, n <= 16,
           NEW typed \in {number, InSmall(number)}, NEW birth, Date(birth), NEW expiry, Date(expiry)
    PROVE  KeyedBy(Information(typed, birth, expiry), Padded(number, 9), birth, expiry)
<1> DEFINE upper == Capitals(typed)
           field == Padded(upper, 9)
<1>1. n \in Nat /\ \A i \in DOMAIN number : number[i] \in Char
  BY LenProperties, ElementOfSeq DEF Sized
<1>2. typed # <<>> /\ Len(typed) = n /\ upper = number BY TypedIs
<1>3. Len(typed) <= DocNumberMax BY <1>1, <1>2 DEF DocNumberMax
<1>4. Len(birth) = 6 /\ AllDigits(birth) /\ Len(expiry) = 6 /\ AllDigits(expiry)
  BY DEF Date, Sized
<1>5. Information(typed, birth, expiry)
          = IF \/ typed = <<>> \/ Len(typed) > DocNumberMax
               \/ Len(birth) # 6 \/ ~AllDigits(birth)
               \/ Len(expiry) # 6 \/ ~AllDigits(expiry)
               \/ \E i \in DOMAIN upper : upper[i] \notin Char
               \/ Len(field) + 1 + 2 * 7 > 31
            THEN <<>>
            ELSE field \o <<CheckDigit(field)>> \o birth \o <<CheckDigit(birth)>>
                 \o expiry \o <<CheckDigit(expiry)>>
  BY Zenon DEF Information, Capitals
<1> HIDE DEF upper
<1>6. Len(field) \in Nat /\ Len(field) <= 16
  <2>1. CASE n <= 9
    <3>1. Widened(Padded(number, 9), number, n, 9) BY <2>1, PaddedIs
    <3>2. field = Padded(number, 9) BY <1>2
    <3>3. Len(Padded(number, 9)) = 9 BY <3>1 DEF Widened, Sized
    <3> HIDE DEF field
    <3>4. Len(field) = 9 BY <3>2, <3>3
    <3> QED BY <3>4
  <2>2. CASE ~(n <= 9)
    <3>1. n > 9 BY <2>2, <1>1
    <3>2. field = number BY <3>1, <1>2, PaddedLong
    <3> QED BY <3>2 DEF Sized
  <2> QED BY <2>1, <2>2
<1> HIDE DEF field
<1>7. ~(Len(field) + 1 + 2 * 7 > 31) BY <1>6
<1>8. ~(Len(typed) > DocNumberMax) BY <1>1, <1>2 DEF DocNumberMax
<1>9. ~(\E i \in DOMAIN upper : upper[i] \notin Char) BY <1>1, <1>2
<1>10. Information(typed, birth, expiry)
           = field \o <<CheckDigit(field)>> \o birth \o <<CheckDigit(birth)>>
             \o expiry \o <<CheckDigit(expiry)>>
  BY <1>2, <1>4, <1>5, <1>7, <1>8, <1>9, Zenon
<1>11. KeyedBy(Information(typed, birth, expiry), field, birth, expiry)
  BY <1>10, Zenon DEF KeyedBy
<1>12. field = Padded(number, 9) BY <1>2 DEF field
<1> QED BY <1>11, <1>12

LEMMA ParseHas ==
    ASSUME NEW z
    PROVE  /\ Parse(z).number = NumberRead(z).number
           /\ Parse(z).birth = z.birth /\ Parse(z).expiry = z.expiry
           /\ Parse(z).valid <=> /\ DocumentNumberOk(z.number, NumberRead(z))
                                 /\ CheckDigitOk(z.birth, z.birthDigit)
                                 /\ CheckDigitOk(z.expiry, z.expiryDigit)
                                 /\ z.format = "TD3" => CheckDigitOk(z.optional, z.optionalDigit)
                                 /\ CheckDigit(Weighed(z)) = z.composite
<1> DEFINE doc == NumberRead(z)
           r == [number |-> doc.number, birth |-> z.birth, expiry |-> z.expiry,
                 optional |-> Compact(CASE z.format = "TD1" -> z.optional2
                                        [] z.format = "TD2" /\ doc.extended -> <<>>
                                        [] OTHER -> z.optional),
                 valid |-> /\ DocumentNumberOk(z.number, doc)
                           /\ CheckDigitOk(z.birth, z.birthDigit)
                           /\ CheckDigitOk(z.expiry, z.expiryDigit)
                           /\ z.format = "TD3" => CheckDigitOk(z.optional, z.optionalDigit)
                           /\ CheckDigit(Weighed(z)) = z.composite]
<1>1. Parse(z) = r BY Zenon DEF Parse, NumberRead
<1>2. /\ r.number = doc.number /\ r.birth = z.birth /\ r.expiry = z.expiry
      /\ r.valid <=> /\ DocumentNumberOk(z.number, doc)
                     /\ CheckDigitOk(z.birth, z.birthDigit)
                     /\ CheckDigitOk(z.expiry, z.expiryDigit)
                     /\ z.format = "TD3" => CheckDigitOk(z.optional, z.optionalDigit)
                     /\ CheckDigit(Weighed(z)) = z.composite
  BY Zenon
<1> HIDE DEF r, doc
<1> QED BY <1>1, <1>2, Zenon DEF doc

LEMMA DigitOk ==
    ASSUME NEW a, NEW n, Sized(a, n)
    PROVE  CheckDigitOk(a, CheckDigit(a))
BY DigitOne DEF CheckDigitOk

\* The number of a zone, short or long, is read, and its digit is right.
LEMMA NumberReadIs ==
    ASSUME NEW z, NEW format, NEW number, NEW n, NEW birth, NEW expiry,
           ZoneOf(z, format, number, n, birth, expiry), Numbered(number, n, format)
    PROVE  NumberRead(z).number = number /\ DocumentNumberOk(z.number, NumberRead(z))
<1>1. /\ z.format = format /\ Fields(z) /\ Sized(number, n) /\ n # 0 /\ n <= LongestNumber(format)
      /\ \A i \in 1 .. n : number[i] # Filler
  BY DEF ZoneOf, Numbered
<1>2. n \in Nat /\ format \in Formats BY <1>1 DEF Sized, Fields
<1>3. CASE ~(n > 9)
  <2>1. ShortIn(z, number, n) BY <1>3 DEF ZoneOf
  <2>2. PICK o : o = IF z.format = "TD3" THEN <<>> ELSE z.optional OBVIOUS
  <2>3. DocumentNumber(z.number, z.numberDigit, o)
            = [number |-> number, digit |-> z.numberDigit, extended |-> FALSE]
    BY <2>1, <1>1, ShortRead
  <2>4. NumberRead(z) = [number |-> number, digit |-> z.numberDigit, extended |-> FALSE]
    BY <2>2, <2>3 DEF NumberRead
  <2>5. CheckDigitOk(z.number, z.numberDigit) BY <2>1, DigitOk DEF ShortIn, Widened
  <2> QED BY <2>4, <2>5 DEF DocumentNumberOk
<1>4. CASE n > 9
  <2>1. LongIn(z, number, n, OptionalWidth(format)) BY <1>4 DEF ZoneOf
  <2>2. format # "TD3" /\ n <= 16 /\ n - 8 <= OptionalWidth(format)
    BY <1>1, <1>2, <1>4 DEF LongestNumber, OptionalWidth, Formats
  <2>3. Sized(z.optional, OptionalWidth(format))
    BY <1>1, <1>2, <2>2 DEF Fields, OptionalWidth, Formats
  <2>4. DocumentNumber(z.number, z.numberDigit, z.optional)
            = [number |-> number, digit |-> CheckDigit(number), extended |-> TRUE]
    <3>1. PICK w : w = OptionalWidth(format) OBVIOUS
    <3>2. Solid(number, n) /\ LongIn(z, number, n, w) /\ Sized(z.optional, w) /\ n - 8 <= w
      BY <2>1, <2>2, <2>3, <3>1, <1>1 DEF Solid
    <3>3. Sized(number, n) /\ n > 9 /\ n <= 16 BY <1>1, <1>4, <2>2
    <3> QED BY <3>2, <3>3, LongRead
  <2>5. NumberRead(z) = [number |-> number, digit |-> CheckDigit(number), extended |-> TRUE]
    BY <2>2, <2>4, <1>1 DEF NumberRead
  <2>6. CheckDigitOk(number, CheckDigit(number)) BY <1>1, DigitOk
  <2> QED BY <2>5, <2>6 DEF DocumentNumberOk
<1> QED BY <1>3, <1>4

LEMMA ZoneRead ==
    ASSUME NEW z, NEW format, NEW number, NEW n, NEW birth, NEW expiry,
           ZoneOf(z, format, number, n, birth, expiry), Numbered(number, n, format)
    PROVE  Parse(z).valid /\ Parse(z).number = number
<1>1. /\ Fields(z) /\ z.birthDigit = CheckDigit(z.birth) /\ z.expiryDigit = CheckDigit(z.expiry)
      /\ z.optionalDigit = CheckDigit(z.optional) /\ z.composite = CheckDigit(Weighed(z))
  BY DEF ZoneOf
<1>2. CheckDigitOk(z.birth, z.birthDigit) /\ CheckDigitOk(z.expiry, z.expiryDigit)
  BY <1>1, DigitOk DEF Fields
<1>3. z.format = "TD3" => CheckDigitOk(z.optional, z.optionalDigit)
  BY <1>1, DigitOk DEF Fields
<1>4. NumberRead(z).number = number /\ DocumentNumberOk(z.number, NumberRead(z))
  BY NumberReadIs
<1> QED BY <1>1, <1>2, <1>3, <1>4, ParseHas, Zenon

\* What the user types of it leads to the key.
LEMMA ZoneLeads ==
    ASSUME NEW z, NEW format, NEW number, NEW n, NEW birth, NEW expiry,
           ZoneOf(z, format, number, n, birth, expiry), Numbered(number, n, format),
           Date(birth), Date(expiry), NEW typed \in {number, InSmall(number)}
    PROVE  LeadsToTheKey(number, z, typed)
<1>1. /\ z.format = format /\ Fields(z) /\ Sized(number, n) /\ n # 0 /\ n <= LongestNumber(format)
      /\ z.birth = birth /\ z.birthDigit = CheckDigit(birth)
      /\ z.expiry = expiry /\ z.expiryDigit = CheckDigit(expiry)
  BY DEF ZoneOf, Numbered
<1>2. n \in Nat /\ format \in Formats /\ Len(number) = n BY <1>1 DEF Sized, Fields
<1>3. n <= 16 BY <1>1, <1>2 DEF LongestNumber, Formats
<1> DEFINE field == Padded(number, 9)
           first == IF Len(number) > 9 THEN number ELSE z.number
           digit == IF Len(number) > 9 THEN z.optional[Len(number) - 8] ELSE z.numberDigit
<1>4. Information(typed, birth, expiry)
          = field \o <<CheckDigit(field)>> \o birth \o <<CheckDigit(birth)>>
            \o expiry \o <<CheckDigit(expiry)>>
  <2>1. KeyedBy(Information(typed, birth, expiry), field, birth, expiry)
    BY <1>1, <1>3, InformationIs
  <2> QED BY <2>1, Zenon DEF KeyedBy
<1>5. field = first /\ CheckDigit(field) = digit
  <2>1. CASE n > 9
    <3>1. LongIn(z, number, n, OptionalWidth(format)) BY <2>1 DEF ZoneOf
    <3>2. PICK w : w = OptionalWidth(format) OBVIOUS
    <3>3. n - 8 \in 1 .. w /\ ~(n - 8 <= n - 9)
      BY <1>1, <1>2, <2>1, <3>2 DEF LongestNumber, OptionalWidth, Formats
    <3>4. z.optional[n - 8] = CheckDigit(number) BY <3>1, <3>2, <3>3 DEF LongIn
    <3>5. field = number BY <2>1, <1>1, PaddedLong
    <3> HIDE DEF field
    <3> QED BY <2>1, <3>4, <3>5, <1>2
  <2>2. CASE ~(n > 9)
    <3>1. ShortIn(z, number, n) BY <2>2 DEF ZoneOf
    <3>2. n <= 9 BY <2>2, <1>2
    <3>3. Widened(field, number, n, 9) /\ Widened(z.number, number, n, 9)
      BY <3>1, <3>2, <1>1, PaddedIs DEF ShortIn
    <3> HIDE DEF field
    <3>4. PICK k \in Nat : k = 9 OBVIOUS
    <3>5. field = z.number
      <4>1. /\ field \in Seq(Char) /\ Len(field) = k /\ z.number \in Seq(Char) /\ Len(z.number) = k
            /\ \A i \in 1 .. k : field[i] = z.number[i]
        BY <3>3, <3>4 DEF Widened, Sized
      <4> QED BY <4>1, SeqEqual
    <3> QED BY <2>2, <3>1, <3>5, <1>2 DEF ShortIn
  <2> QED BY <2>1, <2>2
<1>6. LeadsToTheKey(number, z, typed)
          <=> Information(typed, z.birth, z.expiry)
                  = first \o <<digit>> \o z.birth \o <<z.birthDigit>>
                    \o z.expiry \o <<z.expiryDigit>>
  BY Zenon DEF LeadsToTheKey
<1> HIDE DEF field, first, digit
<1> QED BY <1>1, <1>4, <1>5, <1>6, Zenon

\* emrtd_mrz_parse and emrtd_mrz_information together, whatever the document: a
\* number of any length its format has room for, any dates and any personal data.  The
\* zone printed for it is accepted, the number comes out of it as it went in, short or
\* carried on into the optional data, and typed in capitals or in small letters it leads
\* to the very characters of the zone that the chip derives its keys from.
THEOREM AnyDocumentIsRead ==
    ASSUME NEW format, NEW number, NEW birth, NEW expiry, NEW personal,
           Document(format, number, birth, expiry, personal)
    PROVE  ReadAs(number, Printed(format, number, birth, expiry, personal))
<1> DEFINE z == Printed(format, number, birth, expiry, personal)
<1>1. PICK n : Numbered(number, n, format) BY DEF Document
<1>2. ZoneOf(z, format, number, n, birth, expiry) /\ Date(birth) /\ Date(expiry)
  BY <1>1, PrintedIs DEF Document
<1> HIDE DEF z
<1>3. Parse(z).valid /\ Parse(z).number = number BY <1>1, <1>2, ZoneRead
<1>4. Parse(z).birth = z.birth /\ Parse(z).expiry = z.expiry BY ParseHas
<1>5. \A typed \in {number, InSmall(number)} : LeadsToTheKey(number, z, typed)
  BY <1>1, <1>2, ZoneLeads
<1>6. ReadAs(number, z) BY <1>3, <1>4, <1>5 DEF ReadAs
<1> QED BY <1>6 DEF z

(***************************************************************************)
(* The zones of the run.                                                   *)
(***************************************************************************)
LEMMA ZoneNamed ==
    ASSUME NEW format, NEW field, NEW digit, NEW birth, NEW expiry, NEW optional, NEW optional2
    PROVE  DOMAIN ZoneWith(format, field, digit, birth, expiry, optional, optional2) = ZoneNames
<1>1. PICK c : c = CheckDigit(Covered([format |-> format, number |-> field, numberDigit |-> digit,
                                       birth |-> birth, birthDigit |-> CheckDigit(birth),
                                       expiry |-> expiry, expiryDigit |-> CheckDigit(expiry),
                                       optional |-> optional, optionalDigit |-> CheckDigit(optional),
                                       optional2 |-> optional2, composite |-> 0]))
  OBVIOUS
<1> QED BY <1>1 DEF ZoneWith, ZoneNames

LEMMA RightZoneHas ==
    ASSUME NEW number, NEW z, RightZone(number, z)
    PROVE  /\ DOMAIN z = ZoneNames /\ Fields(z) /\ z.composite = CheckDigit(Weighed(z))
           /\ ReadAs(number, z)
<1>1. PICK format, birth, expiry, personal :
         /\ Document(format, number, birth, expiry, personal)
         /\ z = Printed(format, number, birth, expiry, personal)
  BY DEF RightZone
<1>2. PICK n : Numbered(number, n, format) BY <1>1 DEF Document
<1>3. ZoneOf(z, format, number, n, birth, expiry) BY <1>1, <1>2, PrintedIs
<1>4. Fields(z) /\ z.composite = CheckDigit(Weighed(z)) BY <1>3 DEF ZoneOf
<1>5. DOMAIN z = ZoneNames
  <2> DEFINE f == PrintedNumber(number)
             d == PrintedDigit(number)
             o == PrintedOptional(format, number, personal)
             o2 == PrintedOptional2(format, personal)
  <2>1. z = ZoneWith(format, f, d, birth, expiry, o, o2) BY <1>1, PrintedIsZone, Zenon
  <2> HIDE DEF f, d, o, o2
  <2> QED BY <2>1, ZoneNamed
<1>6. ReadAs(number, z) BY <1>1, AnyDocumentIsRead
<1> QED BY <1>4, <1>5, <1>6

\* A field of a zone with one of its characters changed, and one that is a single character.
LEMMA DriftOne ==
    ASSUME NEW a \in Seq(Char), NEW b, NEW field, NEW name,
           IF field = name THEN Off(a, b) ELSE b = a
    PROVE  Drift(a, b, field, {name})
BY DEF Drift

LEMMA OneOff ==
    ASSUME NEW c \in Char, NEW d \in Char, Differ(c, d)
    PROVE  Off(<<c>>, <<d>>)
<1>1. <<c>> \in Seq(Char) /\ Len(<<c>>) = 1 /\ <<c>>[1] = c BY OneChar
<1>2. <<d>> = [<<c>> EXCEPT ![1] = d] OBVIOUS
<1>3. 1 \in 1 .. Len(<<c>>) /\ Differ(<<c>>[1], d) BY <1>1
<1> QED BY <1>2, <1>3 DEF Off

LEMMA FieldsAre ==
    ASSUME NEW z, Fields(z)
    PROVE  /\ z.format \in Formats
           /\ \A f \in Stretches : z[f] \in Seq(Char)
           /\ \A f \in Digits : <<z[f]>> \in Seq(Char) /\ z[f] \in Char
<1>1. z.number \in Seq(Char) /\ z.birth \in Seq(Char) /\ z.expiry \in Seq(Char) /\ z.optional2 \in Seq(Char)
  BY DEF Fields, Sized
<1>2. z.optional \in Seq(Char) BY DEF Fields, Sized, Formats
<1>3. \A c : Sized(<<c>>, 1) => <<c>> \in Seq(Char) /\ c \in Char
  <2> SUFFICES ASSUME NEW c, Sized(<<c>>, 1) PROVE <<c>> \in Seq(Char) /\ c \in Char
    OBVIOUS
  <2>1. <<c>> \in Seq(Char) /\ Len(<<c>>) = 1 /\ <<c>>[1] = c BY DEF Sized
  <2>2. <<c>>[1] \in Char BY <2>1, ElementOfSeq
  <2> QED BY <2>1, <2>2
<1>4. /\ Sized(<<z.numberDigit>>, 1) /\ Sized(<<z.birthDigit>>, 1)
      /\ Sized(<<z.expiryDigit>>, 1) /\ Sized(<<z.optionalDigit>>, 1)
  BY DEF Fields
<1>5. \A f \in Digits : Sized(<<z[f]>>, 1) BY <1>4 DEF Digits
<1>6. \A f \in Digits : <<z[f]>> \in Seq(Char) /\ z[f] \in Char BY <1>3, <1>5
<1>7. \A f \in Stretches : z[f] \in Seq(Char) BY <1>1, <1>2 DEF Stretches
<1> QED BY <1>6, <1>7 DEF Fields

\* One field is another, all the others are the same: MisreadAs in the names of the fields.
LEMMA OneMisread ==
    ASSUME NEW z, Fields(z), NEW w, NEW field, w.format = z.format,
           \A f \in Stretches : IF field = f THEN Off(z[f], w[f]) ELSE w[f] = z[f],
           \A f \in Digits : IF field = f THEN Off(<<z[f]>>, <<w[f]>>) ELSE w[f] = z[f],
           IF field = "composite" THEN Differ(z.composite, w.composite)
           ELSE field \in WeighedFields(z.format) /\ w.composite = z.composite
    PROVE  MisreadAs(z, w, field)
<1>1. \A f \in Stretches : Drift(z[f], w[f], field, {f}) BY FieldsAre, DriftOne
<1>2. \A f \in Digits : Drift(<<z[f]>>, <<w[f]>>, field, {f})
  <2> SUFFICES ASSUME NEW f \in Digits PROVE Drift(<<z[f]>>, <<w[f]>>, field, {f})
    OBVIOUS
  <2>1. <<z[f]>> \in Seq(Char) BY FieldsAre
  <2>2. IF field = f THEN Off(<<z[f]>>, <<w[f]>>) ELSE <<w[f]>> = <<z[f]>> OBVIOUS
  <2> QED BY <2>1, <2>2, DriftOne
<1> QED BY <1>1, <1>2 DEF MisreadAs, Stretches, Digits

\* The two disjuncts of Misread.
LEMMA StretchMisread ==
    ASSUME NEW z, DOMAIN z = ZoneNames, Fields(z), NEW field \in Stretches,
           field = "optional2" => z.format = "TD1",
           NEW i \in DOMAIN z[field], NEW d \in Char, Differ(z[field][i], d)
    PROVE  MisreadAs(z, [z EXCEPT ![field] = [z[field] EXCEPT ![i] = d]], field)
<1> DEFINE new == [z[field] EXCEPT ![i] = d]
           w == [z EXCEPT ![field] = new]
<1>1. z[field] \in Seq(Char) BY FieldsAre
<1>2. Off(z[field], new)
  <2>1. i \in 1 .. Len(z[field]) BY <1>1, LenProperties
  <2> QED BY <2>1 DEF Off
<1> HIDE DEF new
<1>3. field \in ZoneNames BY DEF Stretches, ZoneNames
<1>4. \A f \in ZoneNames : w[f] = IF f = field THEN new ELSE z[f] BY <1>3
<1> HIDE DEF w
<1>5. w.format = z.format /\ w.composite = z.composite BY <1>4 DEF Stretches, ZoneNames
<1>6. \A f \in Stretches : IF field = f THEN Off(z[f], w[f]) ELSE w[f] = z[f]
  BY <1>2, <1>4 DEF Stretches, ZoneNames
<1>7. \A f \in Digits : f \in ZoneNames /\ f # field BY DEF Digits, Stretches, ZoneNames
<1>8. \A f \in Digits : IF field = f THEN Off(<<z[f]>>, <<w[f]>>) ELSE w[f] = z[f]
  BY <1>4, <1>7
<1>9. field # "composite" /\ field \in WeighedFields(z.format)
  BY DEF Stretches, WeighedFields
<1>10. MisreadAs(z, w, field) BY <1>5, <1>6, <1>8, <1>9, OneMisread
<1> QED BY <1>10 DEF w, new

LEMMA DigitMisread ==
    ASSUME NEW z, DOMAIN z = ZoneNames, Fields(z), NEW field \in Digits \cup {"composite"},
           field = "optionalDigit" => z.format = "TD3",
           NEW d \in Char, Differ(z[field], d)
    PROVE  MisreadAs(z, [z EXCEPT ![field] = d], field)
<1> DEFINE w == [z EXCEPT ![field] = d]
<1>1. field \in ZoneNames BY DEF Digits, ZoneNames
<1>2. \A f \in ZoneNames : w[f] = IF f = field THEN d ELSE z[f] BY <1>1
<1> HIDE DEF w
<1>3. w.format = z.format BY <1>2 DEF Digits, ZoneNames
<1>4. \A f \in Stretches : f \in ZoneNames /\ f # field
  BY DEF Digits, Stretches, ZoneNames
<1>5. \A f \in Stretches : IF field = f THEN Off(z[f], w[f]) ELSE w[f] = z[f]
  BY <1>2, <1>4
<1>6. ASSUME NEW f \in Digits PROVE IF field = f THEN Off(<<z[f]>>, <<w[f]>>) ELSE w[f] = z[f]
  <2>1. f \in ZoneNames BY DEF Digits, ZoneNames
  <2>2. CASE field = f
    <3>1. z[f] \in Char /\ w[f] = d /\ Differ(z[f], d) BY <2>1, <2>2, <1>2, FieldsAre
    <3> QED BY <2>2, <3>1, OneOff
  <2>3. CASE field # f BY <2>1, <2>3, <1>2
  <2> QED BY <2>2, <2>3
<1>7. IF field = "composite" THEN Differ(z.composite, w.composite)
      ELSE field \in WeighedFields(z.format) /\ w.composite = z.composite
  <2>1. CASE field = "composite" BY <2>1, <1>2 DEF ZoneNames
  <2>2. CASE field # "composite"
    <3>1. w.composite = z.composite BY <2>2, <1>2 DEF ZoneNames
    <3>2. field \in WeighedFields(z.format) BY <2>2 DEF Digits, WeighedFields
    <3> QED BY <2>2, <3>1, <3>2
  <2> QED BY <2>1, <2>2
<1>8. MisreadAs(z, w, field) BY <1>3, <1>5, <1>6, <1>7, OneMisread
<1> QED BY <1>8 DEF w

LEMMA MisreadStep == ZoneInv /\ Misread => ZoneInv'
<1> SUFFICES ASSUME ZoneInv, Misread PROVE ZoneInv'
  OBVIOUS
<1>1. sample.kind = "zone" /\ sample.read = "right" BY DEF Misread
<1>2. PICK number, read, z : /\ sample = ZoneSample(number, read, z)
                             /\ IF read = "misread" THEN ~Parse(z).valid
                                ELSE read = "right" /\ RightZone(number, z)
  BY <1>1 DEF ZoneInv
<1>3. read = "right" /\ sample.zone = z BY <1>1, <1>2 DEF ZoneSample
<1>4. RightZone(number, z) BY <1>2, <1>3
<1>5. DOMAIN z = ZoneNames /\ Fields(z) /\ z.composite = CheckDigit(Weighed(z)) /\ z.format \in Formats
  BY <1>4, RightZoneHas DEF Fields
<1>6. \A w, field : MisreadAs(z, w, field) => ~Parse(w).valid BY <1>5, MisreadIsRefused
<1>7. PICK d \in {0, 1, 5, 17, Filler} :
         \/ \E field \in {"number", "birth", "expiry", "optional", "optional2"} :
               \E i \in DOMAIN sample.zone[field] :
                   /\ (field = "optional2") => sample.zone.format = "TD1"
                   /\ Differ(sample.zone[field][i], d)
                   /\ sample' = [sample EXCEPT !.read = "misread", !.zone[field][i] = d]
         \/ \E field \in {"numberDigit", "birthDigit", "expiryDigit", "optionalDigit",
                         "composite"} :
               /\ (field = "optionalDigit") => sample.zone.format = "TD3"
               /\ Differ(sample.zone[field], d)
               /\ sample' = [sample EXCEPT !.read = "misread", !.zone[field] = d]
  BY DEF Misread
<1>8. d \in Char BY DEF Char, Filler
<1>9. \E w, field : sample' = ZoneSample(number, "misread", w) /\ MisreadAs(z, w, field)
  <2>1. CASE \E field \in {"number", "birth", "expiry", "optional", "optional2"} :
                \E i \in DOMAIN sample.zone[field] :
                    /\ (field = "optional2") => sample.zone.format = "TD1"
                    /\ Differ(sample.zone[field][i], d)
                    /\ sample' = [sample EXCEPT !.read = "misread", !.zone[field][i] = d]
    <3>1. PICK field \in Stretches :
             \E i \in DOMAIN z[field] :
                 /\ (field = "optional2") => z.format = "TD1"
                 /\ Differ(z[field][i], d)
                 /\ sample' = [sample EXCEPT !.read = "misread", !.zone[field][i] = d]
      BY <2>1, <1>3 DEF Stretches
    <3>2. PICK i \in DOMAIN z[field] :
             /\ (field = "optional2") => z.format = "TD1"
             /\ Differ(z[field][i], d)
             /\ sample' = [sample EXCEPT !.read = "misread", !.zone[field][i] = d]
      BY <3>1
    <3>3. field \in ZoneNames BY DEF Stretches, ZoneNames
    <3>4. MisreadAs(z, [z EXCEPT ![field] = [z[field] EXCEPT ![i] = d]], field)
      BY <3>2, <1>5, <1>8, StretchMisread
    <3>5. sample' = ZoneSample(number, "misread", [z EXCEPT ![field] = [z[field] EXCEPT ![i] = d]])
      <4>1. field \in DOMAIN z /\ sample = ZoneSample(number, read, z) BY <3>3, <1>2, <1>5
      <4>2. sample' = [sample EXCEPT !.read = "misread", !.zone[field][i] = d] BY <3>2
      <4> QED BY <4>1, <4>2 DEF ZoneSample
    <3> QED BY <3>4, <3>5
  <2>2. CASE \E field \in {"numberDigit", "birthDigit", "expiryDigit", "optionalDigit",
                          "composite"} :
                /\ (field = "optionalDigit") => sample.zone.format = "TD3"
                /\ Differ(sample.zone[field], d)
                /\ sample' = [sample EXCEPT !.read = "misread", !.zone[field] = d]
    <3>1. PICK field \in Digits \cup {"composite"} :
             /\ (field = "optionalDigit") => z.format = "TD3"
             /\ Differ(z[field], d)
             /\ sample' = [sample EXCEPT !.read = "misread", !.zone[field] = d]
      BY <2>2, <1>3 DEF Digits
    <3>2. field \in ZoneNames BY DEF Digits, ZoneNames
    <3>3. MisreadAs(z, [z EXCEPT ![field] = d], field) BY <3>1, <1>5, <1>8, DigitMisread
    <3>4. sample' = ZoneSample(number, "misread", [z EXCEPT ![field] = d])
      <4>1. field \in DOMAIN z /\ sample = ZoneSample(number, read, z) BY <3>2, <1>2, <1>5
      <4>2. sample' = [sample EXCEPT !.read = "misread", !.zone[field] = d] BY <3>1
      <4> QED BY <4>1, <4>2 DEF ZoneSample
    <3> QED BY <3>3, <3>4
  <2> QED BY <1>7, <2>1, <2>2
<1>10. PICK w, field : sample' = ZoneSample(number, "misread", w) /\ MisreadAs(z, w, field)
  BY <1>9
<1>11. ~Parse(w).valid BY <1>6, <1>10
<1> QED BY <1>10, <1>11 DEF ZoneInv

\* What is printed in the run is documents.
LEMMA NumbersOfTheRun ==
    ASSUME NEW format \in Formats, NEW number \in Numbers(format)
    PROVE  \E n : Numbered(number, n, format)
<1>1. PICK n \in IF format = "TD3" THEN {1, 8, 9}
                 ELSE IF format = "TD2" THEN {1, 9, 10, 15} ELSE {1, 9, 10, 16} :
         number = NumberOf(n)
  BY DEF Numbers
<1>2. n \in Nat /\ n # 0 /\ n <= LongestNumber(format) BY <1>1 DEF LongestNumber, Formats
<1>3. \A i \in 1 .. n : NumberOf(n)[i] \in Char /\ NumberOf(n)[i] # Filler
  <2> SUFFICES ASSUME NEW i \in 1 .. n
               PROVE  NumberOf(n)[i] \in Char /\ NumberOf(n)[i] # Filler
    OBVIOUS
  <2>1. i \in Nat /\ i % 7 \in 0 .. 6 OBVIOUS
  <2>2. PICK j \in 1 .. 7 : j = (i % 7) + 1 BY <2>1
  <2>3. NumberOf(n)[i] = <<21, 8, 9, 30, 0, 7, 35>>[j] BY <1>2, <2>2 DEF NumberOf
  <2>4. <<21, 8, 9, 30, 0, 7, 35>>[j] \in {21, 8, 9, 30, 0, 7, 35} BY <2>2
  <2>5. \A c \in {21, 8, 9, 30, 0, 7, 35} : c \in Char /\ c # Filler BY DEF Char, Filler
  <2> QED BY <2>3, <2>4, <2>5
<1>4. Sized(NumberOf(n), n)
  <2>1. NumberOf(n) \in [1 .. n -> Char] BY <1>3 DEF NumberOf
  <2>2. NumberOf(n) \in Seq(Char) /\ Len(NumberOf(n)) = n
    BY <2>1, <1>2, IsASeq, LenProperties
  <2> QED BY <2>2, <1>2 DEF Sized
<1> QED BY <1>1, <1>2, <1>3, <1>4 DEF Numbered

LEMMA DatesOfTheRun == \A d \in Dates : Date(d)
<1>1. \A c \in 0 .. 9 : c \in Char BY DEF Char
<1>2. Date(<<7, 4, 0, 8, 1, 2>>) BY <1>1 DEF Date, Sized, AllDigits
<1>3. Date(<<2, 8, 0, 2, 2, 9>>) BY <1>1 DEF Date, Sized, AllDigits
<1> QED BY <1>2, <1>3 DEF Dates

LEMMA PersonalOfTheRun == \A p \in Personal : \A format \in Formats : Personalised(p, format)
<1>1. Sized(<<35, 14, 1, 8, 4>>, 5)
  <2>1. 35 \in Char /\ 14 \in Char /\ 1 \in Char /\ 8 \in Char /\ 4 \in Char BY DEF Char
  <2> QED BY <2>1 DEF Sized
<1>2. \A p \in Personal : \E m \in {0, 5} : Sized(p, m) BY <1>1, NothingIs DEF Personal
<1>3. \A format \in Formats : \A m \in {0, 5} : m <= PersonalRoom(format)
  BY DEF Formats, PersonalRoom, OptionalWidth
<1> QED BY <1>2, <1>3 DEF Personalised

LEMMA ZonePicked ==
    PickZone => \E number, z : sample' = ZoneSample(number, "right", z) /\ RightZone(number, z)
<1> SUFFICES ASSUME PickZone
             PROVE \E number, z : sample' = ZoneSample(number, "right", z) /\ RightZone(number, z)
  OBVIOUS
<1>1. PICK format \in {"TD1", "TD2", "TD3"}, birth \in Dates, expiry \in Dates, personal \in Personal :
         \E number \in Numbers(format) :
            sample' = [kind |-> "zone", number |-> number, read |-> "right",
                       zone |-> Printed(format, number, birth, expiry, personal)]
  BY Zenon DEF PickZone
<1>2. PICK number \in Numbers(format) :
         sample' = [kind |-> "zone", number |-> number, read |-> "right",
                    zone |-> Printed(format, number, birth, expiry, personal)]
  BY <1>1
<1>3. format \in Formats BY DEF Formats
<1>4. Document(format, number, birth, expiry, personal)
  BY <1>3, NumbersOfTheRun, DatesOfTheRun, PersonalOfTheRun DEF Document
<1>5. PICK z : z = Printed(format, number, birth, expiry, personal) OBVIOUS
<1>6. RightZone(number, z) BY <1>4, <1>5 DEF RightZone
<1>7. sample' = ZoneSample(number, "right", z) BY <1>2, <1>5, Zenon DEF ZoneSample
<1> QED BY <1>6, <1>7

LEMMA ZoneStep == ZoneInv /\ [Next]_vars => ZoneInv'
<1> SUFFICES ASSUME ZoneInv, [Next]_vars PROVE ZoneInv'
  OBVIOUS
<1>1. CASE Pick
  <2>1. CASE PickZone
    <3>1. PICK number, z : sample' = ZoneSample(number, "right", z) /\ RightZone(number, z)
      BY <2>1, ZonePicked
    <3> QED BY <3>1 DEF ZoneInv
  <2>2. CASE PickFrame
    <3>1. sample'.kind = "frame" BY <2>2 DEF PickFrame
    <3> QED BY <3>1 DEF ZoneInv
  <2>3. CASE PickBytes
    <3>1. sample'.kind = "bytes" BY <2>3 DEF PickBytes
    <3> QED BY <3>1 DEF ZoneInv
  <2>4. CASE PickInfos
    <3>1. sample'.kind = "infos" BY <2>4, InfosPicked
    <3> QED BY <3>1 DEF ZoneInv
  <2>5. CASE PickSod
    <3>1. sample'.kind = "sod" BY <2>5, SodPicked
    <3> QED BY <3>1 DEF ZoneInv
  <2> QED BY <1>1, <2>1, <2>2, <2>3, <2>4, <2>5 DEF Pick
<1>2. CASE Misread BY <1>2, MisreadStep
<1>3. CASE Keys BY <1>3 DEF Keys, ZoneInv
<1>4. CASE Drop
  <2>1. sample'.kind # "zone" BY <1>4 DEF Drop, NoSample
  <2> QED BY <2>1 DEF ZoneInv
<1>5. CASE UNCHANGED vars BY <1>5 DEF vars, ZoneInv
<1> QED BY <1>1, <1>2, <1>3, <1>4, <1>5 DEF Next

\* What the run checks of the zones it picks is AnyDocumentIsRead of each, and of
\* those it takes a character of for another MisreadIsRefused.
THEOREM KeyIsThePrintedOneInTheRun == Spec => []KeyIsThePrintedOne
<1>1. Init => ZoneInv BY DEF Init, NoSample, ZoneInv
<1>2. ZoneInv => KeyIsThePrintedOne
  <2> SUFFICES ASSUME ZoneInv, sample.kind = "zone"
               PROVE  IF sample.read = "misread" THEN ~Parse(sample.zone).valid
                      ELSE ReadAs(sample.number, sample.zone)
    BY DEF KeyIsThePrintedOne
  <2>1. PICK number, read, z : /\ sample = ZoneSample(number, read, z)
                               /\ IF read = "misread" THEN ~Parse(z).valid
                                  ELSE read = "right" /\ RightZone(number, z)
    BY DEF ZoneInv
  <2>2. sample.number = number /\ sample.read = read /\ sample.zone = z
    BY <2>1 DEF ZoneSample
  <2> QED BY <2>1, <2>2, RightZoneHas
<1> QED BY <1>1, <1>2, ZoneStep, PTL DEF Spec
=============================================================================
