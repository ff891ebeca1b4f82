------------------------- MODULE ReadSessionProofs --------------------------
(***************************************************************************)
(* Proofs about the read of one document.                                  *)
(*                                                                         *)
(* What the record says at the end rests on where the read stands before:  *)
(* nothing is entered ahead of the file under way (AheadInv), no file but  *)
(* that one is "Reading" (ReadingInv), none from it on has been refused    *)
(* (RefusedInv), the groups behind it are accounted for (BehindInv), and   *)
(* as long as the read has not ended nothing is blamed (PhaseInv).         *)
(* SearchInv says which drivers the walk over the scores has tried: those  *)
(* above the level, and those at the level that come before the next.      *)
(* BarInv counts the files done against those there were to do.            *)
(***************************************************************************)
EXTENDS ReadSession, FiniteSetTheorems, SequenceTheorems, TLAPS

InputInv ==
    wanted \in Selections /\ pin \in Pins /\ hasCan \in BOOLEAN /\ hasMrz \in BOOLEAN

Before == {"select", "cardAccess", "auth", "driver", "again", "inside"}
Under  == {"file", "selecting", "blocks"}

PhaseInv ==
    /\ pc \in Before => ~authenticated
    /\ pc \in Under \cup {"next"} => authenticated
    /\ pc # "ended" => error = "None" /\ errorFile = "COM"
    /\ ~authenticated =>
          /\ file = 1 /\ filesDone = 0 /\ filesTotal = 0 /\ ~hasCom
          /\ \A f \in ToSet(Files) : state[f] = "Absent" /\ fileError[f] = "None"

Untouched(i) == state[Files[i]] = "Absent" /\ fileError[Files[i]] = "None"

AheadInv ==
    \A i \in DOMAIN Files : i > file \/ (i = file /\ pc = "file") => Untouched(i)

ReadingInv ==
    \A i \in DOMAIN Files :
        state[Files[i]] = "Reading" => i = file /\ pc \in {"selecting", "blocks"}

\* Only a file the read is done with has been refused.
RefusedInv ==
    \A i \in DOMAIN Files :
        Files[i] \in refused => i < file \/ (i = file /\ pc \in {"next", "ended"})

BehindInv ==
    /\ file > 2 /\ pc \in Under => ~Passed(Name)
    /\ pc \in Under \cup {"next"} \/ (pc = "ended" /\ error = "None") =>
          \A i \in DOMAIN Files :
              2 < i /\ (i < file \/ (i = file /\ pc \notin Under)) => Accounted(Files[i])
    /\ pc = "ended" /\ error = "None" => file = Len(Files)

\* Drivers tried, when the walk asks for the next.
Tried(i) == Score(Drivers[i]) > level \/ (Score(Drivers[i]) = level /\ i < next)

SearchInv ==
    /\ pc \in {"select", "cardAccess"} =>
          level = Announced /\ next = 1 /\ \A d \in ToSet(Drivers) : said[d] = "None"
    /\ pin # "Auto" /\ pc # "ended" => pc # "again" /\ \A d \in ToSet(Drivers) : said[d] = "None"
    /\ pin = "Auto" /\ pc \in {"auth", "driver", "again", "inside"} =>
          \A i \in DOMAIN Drivers :
              said[Drivers[i]] # "None" <=> Tried(i) \/ (pc = "again" /\ i = next)
    /\ pin = "Auto" /\ pc \in {"driver", "again", "inside"} =>
          level >= Possible /\ Score(Driver) = level

\* The files that count, and those of them the read has come to.
Counting == {"COM", "SOD"} \cup ToBeRead(IF file = 1 THEN DefaultMask ELSE present)
Reached == {Files[i] : i \in 1 .. IF pc \in Under THEN file - 1 ELSE file}

BarInv ==
    pc \in Under \cup {"next"} =>
        /\ filesTotal = CountFiles(IF file = 1 THEN DefaultMask ELSE present)
        /\ filesDone <= Cardinality(Counting \cap Reached)

IInv ==
    /\ TypeOK /\ InputInv /\ PhaseInv /\ AheadInv /\ ReadingInv /\ RefusedInv /\ BehindInv
    /\ SearchInv /\ BarInv /\ DeathIsTheVerdict /\ BlamedFileFailedForIt

(***************************************************************************)
(* The files of the catalogue.                                             *)
(***************************************************************************)
LEMMA Catalogue ==
    /\ Len(Groups) \in Nat /\ Len(Files) = 2 + Len(Groups) /\ DOMAIN Files = 1 .. Len(Files)
    /\ Files[1] = "COM" /\ Files[2] = "SOD"
    /\ \A i \in DOMAIN Files : i > 2 => Files[i] \in ToSet(Groups)
    /\ \A g \in ToSet(Groups) : \E i \in DOMAIN Files : i > 2 /\ Files[i] = g
    /\ ToSet(Files) = {"COM", "SOD"} \cup ToSet(Groups)
    /\ \A i, j \in DOMAIN Files : Files[i] = Files[j] => i = j
    /\ "COM" \notin ToSet(Groups) /\ "SOD" \notin ToSet(Groups)
  <1>1. /\ Groups \in Seq(STRING) /\ "COM" \notin ToSet(Groups) /\ "SOD" \notin ToSet(Groups)
        /\ \A a, b \in DOMAIN Groups : Groups[a] = Groups[b] => a = b
    BY ReadAssumption DEF ReadAssumption, IsInjective
  <1>2. Len(Groups) \in Nat /\ DOMAIN Groups = 1 .. Len(Groups)
    BY <1>1, LenProperties
  <1> DEFINE two == <<"COM", "SOD">>
             Names == STRING \cup {"COM", "SOD"}
  <1>0. "COM" \in Names /\ "SOD" \in Names /\ STRING \subseteq Names
    OBVIOUS
  <1> HIDE DEF Names
  <1>3. two \in Seq(Names) /\ Len(two) = 2 /\ two[1] = "COM" /\ two[2] = "SOD"
    BY <1>0
  <1> HIDE DEF two
  <1>13. Groups \in Seq(Names)
    BY <1>0, <1>1, SeqMonotonic
  <1>4. Files = two \o Groups
    BY DEF Files, two
  <1>5. /\ Files \in Seq(Names) /\ Len(Files) = 2 + Len(Groups)
        /\ \A i \in 1 .. 2 + Len(Groups) : Files[i] = IF i <= 2 THEN two[i] ELSE Groups[i - 2]
    <2>1. /\ two \o Groups \in Seq(Names)
          /\ Len(two \o Groups) = Len(two) + Len(Groups)
          /\ \A i \in 1 .. Len(two) + Len(Groups) :
                (two \o Groups)[i] = IF i <= Len(two) THEN two[i] ELSE Groups[i - Len(two)]
      BY <1>13, <1>3, ConcatProperties
    <2> QED
      BY <2>1, <1>3, <1>4
  <1>6. DOMAIN Files = 1 .. Len(Files)
    BY <1>5, LenProperties
  <1>7. Files[1] = "COM" /\ Files[2] = "SOD"
    BY <1>2, <1>3, <1>5
  <1>8. \A i \in DOMAIN Files : i > 2 => Files[i] = Groups[i - 2] /\ i - 2 \in DOMAIN Groups
    BY <1>2, <1>5, <1>6
  <1>9. \A i \in DOMAIN Files : i > 2 => Files[i] \in ToSet(Groups)
    BY <1>8 DEF ToSet
  <1>10. \A g \in ToSet(Groups) : \E i \in DOMAIN Files : i > 2 /\ Files[i] = g
    <2>1. ASSUME NEW j \in DOMAIN Groups
          PROVE  j + 2 \in DOMAIN Files /\ j + 2 > 2 /\ Files[j + 2] = Groups[j]
      BY <1>2, <1>5, <1>6
    <2> QED
      BY <2>1 DEF ToSet
  <1>11. ToSet(Files) = {"COM", "SOD"} \cup ToSet(Groups)
    <2>1. \A i \in DOMAIN Files : i = 1 \/ i = 2 \/ i > 2
      BY <1>6, <1>5, <1>2
    <2>2. 1 \in DOMAIN Files /\ 2 \in DOMAIN Files
      BY <1>6, <1>5, <1>2
    <2>3. ToSet(Files) = {Files[i] : i \in DOMAIN Files}
      BY DEF ToSet
    <2> QED
      BY <2>1, <2>2, <2>3, <1>7, <1>9, <1>10
  <1>12. \A i, j \in DOMAIN Files : Files[i] = Files[j] => i = j
    <2>1. ASSUME NEW i \in DOMAIN Files, NEW j \in DOMAIN Files, Files[i] = Files[j], i > 2
          PROVE  i = j
      <3>1. j > 2
        BY <2>1, <1>1, <1>7, <1>9, <1>6, <1>5, <1>2
      <3> QED
        BY <2>1, <3>1, <1>1, <1>8, <1>6, <1>5, <1>2
    <2>2. \A i \in DOMAIN Files : i = 1 \/ i = 2 \/ i > 2
      BY <1>6, <1>5, <1>2
    <2> QED
      BY <2>1, <2>2, <1>7
  <1> QED
    BY <1>1, <1>2, <1>5, <1>6, <1>7, <1>9, <1>10, <1>11, <1>12

LEMMA Entered ==
    ASSUME TypeOK, NEW i \in DOMAIN Files, NEW s, NEW e, Enter(Files[i], s, e)
    PROVE  /\ state'[Files[i]] = s /\ fileError'[Files[i]] = e
           /\ \A j \in DOMAIN Files : j # i =>
                 state'[Files[j]] = state[Files[j]] /\ fileError'[Files[j]] = fileError[Files[j]]
  <1>1. \A j \in DOMAIN Files : Files[j] \in ToSet(Files) /\ (Files[j] = Files[i] => j = i)
    BY Catalogue DEF ToSet
  <1> QED
    BY <1>1 DEF TypeOK, Enter

LEMMA Registry ==
    /\ DOMAIN Drivers = {1, 2} /\ Len(Drivers) = 2
    /\ Drivers[1] = "PACE" /\ Drivers[2] = "BAC" /\ ToSet(Drivers) = {"PACE", "BAC"}
  <1>1. DOMAIN Drivers = {1, 2} /\ Len(Drivers) = 2 /\ Drivers[1] = "PACE" /\ Drivers[2] = "BAC"
    BY DEF Drivers
  <1> QED
    BY <1>1 DEF ToSet

(***************************************************************************)
(* The initial states.                                                     *)
(***************************************************************************)
LEMMA InvInit == Init => IInv
  <1> SUFFICES ASSUME Init PROVE IInv
    OBVIOUS
  <1>1. 1 \in DOMAIN Files /\ Files[1] \in ToSet(Files) /\ Files[1] = "COM"
    BY Catalogue DEF ToSet
  <1>2. \A i \in DOMAIN Files : Files[i] \in ToSet(Files)
    BY DEF ToSet
  <1>3. TypeOK
    <2>1. level \in Unsupported .. Announced /\ next \in DOMAIN Drivers
      BY Registry DEF Init, Unsupported, Announced
    <2>2. best \in DriverErrors \cup Reasons
      BY DEF Init, Reasons
    <2>3. filesTotal \in 0 .. Len(Files) /\ filesDone \in 0 .. filesTotal
      BY Catalogue DEF Init
    <2>4. errorFile \in ToSet(Files) /\ file \in DOMAIN Files
      BY <1>1 DEF Init
    <2> QED
      BY <2>1, <2>2, <2>3, <2>4 DEF Init, TypeOK
  <1>4. InputInv /\ PhaseInv /\ AheadInv /\ ReadingInv /\ RefusedInv /\ BehindInv /\ BarInv
    BY <1>1, <1>2
       DEF Init, InputInv, PhaseInv, AheadInv, ReadingInv, RefusedInv, BehindInv, BarInv, Untouched, Under,
           Before
  <1>5. SearchInv
    BY Registry DEF Init, SearchInv
  <1>6. DeathIsTheVerdict /\ BlamedFileFailedForIt
    BY DEF Init, DeathIsTheVerdict, BlamedFileFailedForIt
  <1> QED
    BY <1>3, <1>4, <1>5, <1>6 DEF IInv

(***************************************************************************)
(* The record.                                                             *)
(***************************************************************************)
RecordInv ==
    /\ PhaseInv /\ AheadInv /\ ReadingInv /\ RefusedInv /\ BehindInv
    /\ DeathIsTheVerdict /\ BlamedFileFailedForIt

\* A record in which nothing has been entered.
LEMMA NothingEntered ==
    ASSUME TypeOK, RecordInv,
           ~authenticated, UNCHANGED <<entries, refused, found, errorFile, file, filesDone>>,
           \/ pc' \in Before /\ ~authenticated' /\ UNCHANGED <<error, filesTotal>>
           \/ pc' = "file" /\ authenticated' /\ UNCHANGED error
           \/ pc' = "ended" /\ UNCHANGED <<authenticated, filesTotal>> /\ error' # "None"
           \/ pc' = "ended" /\ error' = "Cancelled" /\ authenticated',
           pc # "ended"
    PROVE  RecordInv'
  <1> DEFINE late == pc' \in {"file", "selecting", "blocks", "next"}
  <1>1. /\ \A f \in ToSet(Files) : state'[f] = "Absent" /\ fileError'[f] = "None"
        /\ file' = 1 /\ filesDone' = 0 /\ ~hasCom' /\ error = "None" /\ errorFile' = "COM"
        /\ ~authenticated' => filesTotal' = 0
    BY DEF RecordInv, PhaseInv, entries, found, Before
  <1>2. \A i \in DOMAIN Files : Files[i] \in ToSet(Files)
    BY DEF ToSet
  <1>3. PhaseInv'
    BY <1>1 DEF PhaseInv, Before, Under
  <1>4. AheadInv' /\ ReadingInv'
    BY <1>1, <1>2 DEF AheadInv, ReadingInv, Untouched
  <1>8. RefusedInv'
    BY DEF RecordInv, PhaseInv, RefusedInv, Under
  <1>5. BehindInv'
    BY <1>1, Catalogue DEF BehindInv, Before, Under
  <1>6. errorFile' \in ToSet(Files)
    BY <1>1, Catalogue
  <1>7. DeathIsTheVerdict' /\ BlamedFileFailedForIt'
    BY <1>1, <1>2, <1>6 DEF DeathIsTheVerdict, BlamedFileFailedForIt, Before, Deaths
  <1> QED
    BY <1>3, <1>4, <1>5, <1>7, <1>8 DEF RecordInv

LEMMA OpeningRecord ==
    ASSUME TypeOK, RecordInv, Opening
    PROVE  RecordInv'
  <1>1. pc \in Before /\ pc # "ended"
    BY DEF Opening, SelectApplication, ReadCardAccess, TryPinned, Asking, SkipDriver,
           TryDriver, NoDriverLeft, DriverFails, SelectAgain, DriverOpens, SelectInside, Before
  <1>2. ~authenticated /\ error = "None"
    BY <1>1 DEF RecordInv, PhaseInv
  <1>3. CASE DriverOpens
    BY <1>1, <1>2, <1>3, NothingEntered DEF DriverOpens, End, bar
  <1>4. ASSUME UNCHANGED early, \/ pc' \in Before /\ UNCHANGED error
                                \/ pc' = "ended" /\ error' # "None"
        PROVE  RecordInv'
    BY <1>1, <1>2, <1>4, NothingEntered DEF early, bar
  <1>5. CASE SelectApplication
    BY <1>4, <1>5 DEF SelectApplication, End, SessionErrors, LinkErrors, Before
  <1>6. CASE ReadCardAccess
    BY <1>4, <1>6 DEF ReadCardAccess, End, Before
  <1>7. CASE TryPinned
    BY <1>4, <1>7 DEF TryPinned, End, Reason, Before
  <1>8. CASE SkipDriver \/ TryDriver
    BY <1>1, <1>4, <1>8 DEF SkipDriver, TryDriver, Asking, Before
  <1>9. best # "None"
    BY DEF TypeOK, DriverErrors, Reasons, KeyVerdicts, SessionErrors, LinkErrors
  <1>10. CASE NoDriverLeft
    BY <1>4, <1>9, <1>10 DEF NoDriverLeft, End
  <1>11. CASE DriverFails
    <2>1. PICK e \in DriverErrors \cup SessionErrors :
             IF pin # "Auto" THEN End(e)
             ELSE best' = Blame(e) /\ IF e \in Gone THEN End(best')
                                      ELSE pc' = "again" /\ UNCHANGED error
      BY <1>11 DEF DriverFails
    <2>2. e # "None" /\ Blame(e) # "None"
      BY <1>9 DEF DriverErrors, KeyVerdicts, SessionErrors, LinkErrors, Blame
    <2>3. UNCHANGED early
      BY <1>11 DEF DriverFails
    <2> QED
      BY <1>4, <2>1, <2>2, <2>3 DEF End, Before
  <1>12. CASE SelectAgain
    BY <1>4, <1>9, <1>12 DEF SelectAgain, End, Before
  <1>13. CASE SelectInside
    BY <1>4, <1>13 DEF SelectInside, Before
  <1> QED
    BY <1>3, <1>5, <1>6, <1>7, <1>8, <1>10, <1>11, <1>12, <1>13 DEF Opening

\* The file under way is entered with how it went, and the read goes on or ends.
LEMMA FileOver ==
    ASSUME TypeOK, RecordInv, pc \in Under, NEW s, NEW e, Enter(Name, s, e),
           s \in {"Absent", "Read", "Failed"}, s = "Absent" => e = "Refused",
           s # "Failed" => e \notin Deaths,
           UNCHANGED <<authenticated, wanted, file>>,
           file = 1 \/ UNCHANGED present,
           \/ UNCHANGED refused
           \/ pc' = "next" /\ refused' = refused \cup {Name},
           \/ /\ e \notin Deaths \/ Name \in refused'
              /\ pc' = "next" /\ UNCHANGED <<error, errorFile>>
           \/ e \in Deaths /\ End(e) /\ errorFile' = Name
           \/ End("Cancelled") /\ e = "Cancelled" /\ errorFile' \in {errorFile, Name}
    PROVE  RecordInv'
  <1>1. /\ authenticated /\ error = "None" /\ errorFile = "COM" /\ file \in DOMAIN Files
        /\ pc # "ended"
    BY DEF RecordInv, PhaseInv, TypeOK, Under
  <1>2. /\ state'[Name] = s /\ fileError'[Name] = e
        /\ \A j \in DOMAIN Files : j # file =>
              state'[Files[j]] = state[Files[j]] /\ fileError'[Files[j]] = fileError[Files[j]]
    BY <1>1, Entered DEF Name
  <1>3. /\ \A f \in ToSet(Files) : \E j \in DOMAIN Files : f = Files[j]
        /\ \A j \in DOMAIN Files : Files[j] \in ToSet(Files) /\ (Files[j] = Name => j = file)
        /\ DOMAIN Files = 1 .. Len(Files) /\ Len(Files) \in Nat
    BY <1>1, Catalogue DEF ToSet, Name
  <1>4. \/ pc' = "next" /\ UNCHANGED <<error, errorFile>>
        \/ pc' = "ended" /\ error' = e /\ error' # "None"
    BY DEF End, Deaths
  <1>5. PhaseInv'
    BY <1>1, <1>4 DEF PhaseInv, Before, Under
  <1>6. AheadInv'
    BY <1>2, <1>3, <1>4, <1>1 DEF RecordInv, AheadInv, Untouched
  <1>7. ReadingInv'
    BY <1>2, <1>3, <1>4, <1>1 DEF RecordInv, ReadingInv, Name
  <1>11. RefusedInv' /\ Name \notin refused
    BY <1>1, <1>3, <1>4 DEF RecordInv, RefusedInv, Name, Under
  <1>8. BehindInv'
    <2>1. ASSUME NEW i \in DOMAIN Files, 2 < i, i < file, UNCHANGED present
          PROVE  Accounted(Files[i])'
      <3>1. Accounted(Files[i])
        BY <2>1 DEF RecordInv, BehindInv
      <3>2. i # file
        BY <2>1, <1>1, <1>3
      <3> QED
        BY <3>1, <3>2, <2>1, <1>2 DEF Accounted
    <2>2. ASSUME 2 < file, pc' = "next", UNCHANGED present
          PROVE  Accounted(Name)'
      <3>1. ~Passed(Name)
        BY <2>2 DEF RecordInv, BehindInv
      <3> QED
        BY <3>1, <2>2, <1>2 DEF Accounted, Passed, Name
    <2>3. file = 1 \/ UNCHANGED present
      OBVIOUS
    <2> QED
      BY <1>1, <1>3, <1>4, <2>1, <2>2, <2>3 DEF BehindInv, Under, Name
  <1>9. DeathIsTheVerdict'
    <2>1. \A f \in ToSet(Files) \ refused : ~(state[f] = "Failed" /\ fileError[f] \in Deaths)
      BY <1>1 DEF RecordInv, DeathIsTheVerdict
    <2>2. \A i \in DOMAIN Files : i > file => state[Files[i]] = "Absent"
      BY DEF RecordInv, AheadInv, Untouched
    <2>3. CASE e \notin Deaths \/ Name \in refused'
      <3>1. error' \notin Deaths
        BY <2>3, <1>1, <1>11 DEF End, Deaths
      <3>2. \A f \in ToSet(Files) \ refused' : ~(state'[f] = "Failed" /\ fileError'[f] \in Deaths)
        BY <2>1, <2>3, <1>2, <1>3 DEF Name
      <3> QED
        BY <3>1, <3>2 DEF DeathIsTheVerdict
    <2>4. CASE e \in Deaths /\ Name \notin refused'
      <3>1. pc' = "ended" /\ error' = e /\ errorFile' = Name /\ s = "Failed"
        BY <2>4 DEF End, Deaths
      <3>2. \A f \in ToSet(Files) \ refused' : f # Name => ~(state'[f] = "Failed" /\ fileError'[f] \in Deaths)
        BY <2>1, <1>2, <1>3 DEF Name
      <3>3. \A i \in DOMAIN Files : i > file => state'[Files[i]] = "Absent"
        BY <2>2, <1>1, <1>2, <1>3
      <3>4. file' = file
        OBVIOUS
      <3> QED
        BY <3>1, <3>2, <3>3, <3>4, <2>4, <1>2 DEF DeathIsTheVerdict
    <2> QED
      BY <2>3, <2>4
  <1>10. BlamedFileFailedForIt'
    BY <1>2, <1>4 DEF BlamedFileFailedForIt, End, Deaths
  <1> QED
    BY <1>5, <1>6, <1>7, <1>8, <1>9, <1>10, <1>11 DEF RecordInv

LEMMA ProceedCases ==
    ASSUME NEW e, Proceed(e), RecordInv
    PROVE  /\ UNCHANGED file
           /\ \/ e \notin Deaths /\ pc' = "next" /\ UNCHANGED <<error, errorFile>>
              \/ e \in Deaths /\ End(e) /\ errorFile' = Name
              \/ End("Cancelled") /\ e = "Cancelled" /\ errorFile' \in {errorFile, Name}
  BY DEF Proceed, Fatal, Gone, Deaths, End

LEMMA ReadingRecord ==
    ASSUME TypeOK, RecordInv, Reading
    PROVE  RecordInv'
  <1> USE DEF Under
  <1>1. file \in DOMAIN Files /\ DOMAIN Files = 1 .. Len(Files) /\ Len(Files) \in Nat
    BY Catalogue DEF TypeOK
  <1>2. CASE BeginFile
    <2>1. CASE stop
      BY <1>2, <2>1, FileOver, ProceedCases DEF BeginFile, reading, kept, input, found, Deaths
    <2>2. CASE ~stop
      <3>1. /\ pc = "file" /\ pc' = "selecting" /\ Enter(Name, "Reading", "None")
            /\ UNCHANGED <<error, errorFile, file, authenticated, wanted, present, hasCom,
                           filesDone, filesTotal, refused>>
        BY <1>2, <2>2 DEF BeginFile, reading, kept, input, found, bar
      <3>2. /\ state'[Name] = "Reading" /\ fileError'[Name] = "None"
            /\ \A j \in DOMAIN Files : j # file =>
                  /\ state'[Files[j]] = state[Files[j]]
                  /\ fileError'[Files[j]] = fileError[Files[j]]
        BY <1>1, <3>1, Entered DEF Name
      <3>3. /\ \A f \in ToSet(Files) : \E j \in DOMAIN Files : f = Files[j]
            /\ \A j \in DOMAIN Files : Files[j] = Name => j = file
        BY <1>1, Catalogue DEF ToSet, Name
      <3>4. authenticated /\ error = "None" /\ errorFile = "COM"
        BY <3>1 DEF RecordInv, PhaseInv
      <3>5. PhaseInv'
        BY <3>1, <3>4 DEF PhaseInv, Before
      <3>6. AheadInv'
        BY <3>1, <3>2, <1>1 DEF RecordInv, AheadInv, Untouched
      <3>7. ReadingInv'
        BY <3>1, <3>2 DEF RecordInv, ReadingInv
      <3>10. RefusedInv'
        BY <3>1 DEF RecordInv, RefusedInv
      <3>8. BehindInv'
        BY <3>1, <3>2, <1>1 DEF RecordInv, BehindInv, Accounted, Passed, Name
      <3>9. DeathIsTheVerdict' /\ BlamedFileFailedForIt'
        <4>1. \A f \in ToSet(Files) \ refused : ~(state[f] = "Failed" /\ fileError[f] \in Deaths)
          BY <3>1 DEF RecordInv, DeathIsTheVerdict
        <4>2. \A f \in ToSet(Files) \ refused' : ~(state'[f] = "Failed" /\ fileError'[f] \in Deaths)
          BY <4>1, <3>1, <3>2, <3>3 DEF Name
        <4> QED
          BY <4>2, <3>1, <3>4 DEF DeathIsTheVerdict, BlamedFileFailedForIt, Deaths
      <3> QED
        BY <3>5, <3>6, <3>7, <3>8, <3>9, <3>10 DEF RecordInv
    <2> QED
      BY <2>1, <2>2
  <1>3. CASE SelectFile
    BY <1>3
       DEF SelectFile, reading, kept, input, entries, found, bar, RecordInv, PhaseInv, AheadInv,
           ReadingInv, RefusedInv, BehindInv, DeathIsTheVerdict, BlamedFileFailedForIt, Untouched,
           Accounted, Passed, Name, Before
  <1>4. CASE FileRefused
    BY <1>4, FileOver DEF FileRefused, kept, input, found, Deaths
  <1>5. CASE SelectFails
    BY <1>5, FileOver, ProceedCases DEF SelectFails, reading, kept, input, found
  <1>6. CASE FileRead
    <2>1. file = 1 \/ UNCHANGED present
      BY <1>6, <1>1, Catalogue DEF FileRead, Name, found
    <2> QED
      BY <1>6, <2>1, FileOver DEF FileRead, reading, kept, input, Deaths
  <1>7. CASE FileBreaksOff
    BY <1>7, FileOver, ProceedCases DEF FileBreaksOff, reading, kept, input, found
  <1>8. CASE ExchangeFails
    BY <1>8, FileOver, ProceedCases DEF ExchangeFails, reading, kept, input, found
  <1>9. CASE FileStopped
    BY <1>9, FileOver, ProceedCases DEF FileStopped, reading, kept, input, found, Deaths
  <1>10. CASE NextIsSod
    <2>1. /\ pc = "next" /\ file = 1
          /\ UNCHANGED <<entries, refused, errorFile, authenticated, wanted>>
          /\ \/ pc' = "ended" /\ error' = "Cancelled" /\ UNCHANGED file
             \/ pc' = "file" /\ file' = 2 /\ UNCHANGED error
      BY <1>10, <1>1, Catalogue DEF NextIsSod, Name, reading, kept, input, End
    <2>2. authenticated /\ error = "None" /\ errorFile = "COM"
      BY <2>1 DEF RecordInv, PhaseInv
    <2>3. PhaseInv'
      BY <2>1, <2>2 DEF PhaseInv, Before
    <2>4. AheadInv' /\ ReadingInv' /\ RefusedInv'
      BY <2>1, <1>1 DEF RecordInv, AheadInv, ReadingInv, RefusedInv, Untouched, entries
    <2>5. BehindInv'
      BY <2>1, <1>1 DEF BehindInv
    <2>6. DeathIsTheVerdict' /\ BlamedFileFailedForIt'
      <3>1. \A f \in ToSet(Files) \ refused : ~(state[f] = "Failed" /\ fileError[f] \in Deaths)
        BY <2>1 DEF RecordInv, DeathIsTheVerdict
      <3> QED
        BY <3>1, <2>1, <2>2 DEF DeathIsTheVerdict, BlamedFileFailedForIt, Deaths, entries
    <2> QED
      BY <2>3, <2>4, <2>5, <2>6 DEF RecordInv
  <1>11. CASE PassGroup
    <2>0. PICK i \in DOMAIN Files : i = file + 1
      BY <1>11, <1>1 DEF PassGroup
    <2> DEFINE g == Files[i]
    <2>1. /\ pc = "next" /\ pc' = pc /\ file' = i /\ Passed(g)
          /\ Enter(g, Verdict(g), IF g \in present \cap Eac THEN "Unsupported" ELSE fileError[g])
          /\ UNCHANGED <<error, errorFile, refused, authenticated, wanted, present, hasCom>>
      BY <1>11, <2>0 DEF PassGroup, reading, kept, input, found
    <2>2. file \in Nat /\ file > 1
      BY <1>11, <1>1, Catalogue DEF PassGroup, Name
    <2>3. Untouched(i)
      BY <2>0, <2>2 DEF RecordInv, AheadInv
    <2>4. /\ state'[g] = Verdict(g)
          /\ fileError'[g] = IF g \in present \cap Eac THEN "Unsupported" ELSE "None"
          /\ \A j \in DOMAIN Files : j # i =>
                state'[Files[j]] = state[Files[j]] /\ fileError'[Files[j]] = fileError[Files[j]]
      BY <2>1, <2>3, Entered DEF Untouched
    <2>5. authenticated /\ error = "None" /\ errorFile = "COM"
      BY <2>1 DEF RecordInv, PhaseInv
    <2>6. state'[g] \notin {"Reading", "Failed"}
      BY <2>4 DEF Verdict
    <2>7. PhaseInv'
      BY <2>1, <2>5 DEF PhaseInv, Before
    <2>8. AheadInv'
      BY <2>0, <2>1, <2>2, <2>4, <1>1 DEF RecordInv, AheadInv, Untouched
    <2>9. ReadingInv'
      BY <2>1, <2>4, <2>6 DEF RecordInv, ReadingInv
    <2>12. RefusedInv'
      BY <2>0, <2>1, <2>2, <1>1 DEF RecordInv, RefusedInv
    <2>10. BehindInv'
      <3>1. Accounted(g)'
        BY <2>1, <2>4 DEF Accounted, Passed, Verdict
      <3>2. ASSUME NEW j \in DOMAIN Files, 2 < j, j <= file
            PROVE  Accounted(Files[j])'
        <4>1. Accounted(Files[j])
          BY <3>2, <2>1, <1>1 DEF RecordInv, BehindInv
        <4>2. j # i
          BY <3>2, <2>0, <1>1
        <4> QED
          BY <4>1, <4>2, <2>1, <2>4 DEF Accounted
      <3>3. \A j \in DOMAIN Files : j <= i => j = i \/ j <= file
        BY <2>0, <1>1
      <3> QED
        BY <2>1, <2>5, <3>1, <3>2, <3>3, <1>1 DEF BehindInv
    <2>11. DeathIsTheVerdict' /\ BlamedFileFailedForIt'
      <3>1. \A f \in ToSet(Files) \ refused : ~(state[f] = "Failed" /\ fileError[f] \in Deaths)
        BY <2>1 DEF RecordInv, DeathIsTheVerdict
      <3>2. \A f \in ToSet(Files) : \E j \in DOMAIN Files : f = Files[j]
        BY DEF ToSet
      <3>3. \A f \in ToSet(Files) \ refused' : ~(state'[f] = "Failed" /\ fileError'[f] \in Deaths)
        BY <3>1, <3>2, <2>1, <2>4, <2>6
      <3> QED
        BY <3>3, <2>1, <2>5 DEF DeathIsTheVerdict, BlamedFileFailedForIt, Deaths
    <2> QED
      BY <2>7, <2>8, <2>9, <2>10, <2>11, <2>12 DEF RecordInv
  <1>12. CASE NextGroup
    <2>1. /\ pc = "next" /\ pc' = "file" /\ file' = file + 1 /\ file + 1 \in DOMAIN Files
          /\ ~Passed(Files[file + 1])
          /\ UNCHANGED <<entries, error, errorFile, refused, authenticated, wanted, present,
                         hasCom>>
      BY <1>12, <1>1 DEF NextGroup, reading, kept, input, found
    <2>2. authenticated /\ error = "None" /\ errorFile = "COM"
      BY <2>1 DEF RecordInv, PhaseInv
    <2>3. PhaseInv'
      BY <2>1, <2>2 DEF PhaseInv, Before
    <2>4. AheadInv' /\ ReadingInv' /\ RefusedInv'
      BY <2>1, <1>1 DEF RecordInv, AheadInv, ReadingInv, RefusedInv, Untouched, entries
    <2>5. BehindInv'
      BY <2>1, <1>1 DEF RecordInv, BehindInv, Accounted, Passed, Name, entries
    <2>6. DeathIsTheVerdict' /\ BlamedFileFailedForIt'
      <3>1. \A f \in ToSet(Files) \ refused : ~(state[f] = "Failed" /\ fileError[f] \in Deaths)
        BY <2>1 DEF RecordInv, DeathIsTheVerdict
      <3> QED
        BY <3>1, <2>1, <2>2 DEF DeathIsTheVerdict, BlamedFileFailedForIt, Deaths, entries
    <2> QED
      BY <2>3, <2>4, <2>5, <2>6 DEF RecordInv
  <1>13. CASE ReadOver
    <2>1. /\ pc = "next" /\ pc' = "ended"
          /\ error' = "Cancelled" \/ (error' = "None" /\ file = Len(Files))
          /\ UNCHANGED <<entries, errorFile, refused, authenticated, wanted, present, hasCom, file>>
      BY <1>13 DEF ReadOver, End, reading, kept, input, found
    <2>2. authenticated /\ error = "None" /\ errorFile = "COM"
      BY <2>1 DEF RecordInv, PhaseInv
    <2>3. PhaseInv'
      BY <2>1, <2>2 DEF PhaseInv, Before
    <2>4. AheadInv' /\ ReadingInv' /\ RefusedInv'
      BY <2>1, <1>1 DEF RecordInv, AheadInv, ReadingInv, RefusedInv, Untouched, entries
    <2>5. BehindInv'
      BY <2>1, <1>1 DEF RecordInv, BehindInv, Accounted, entries
    <2>6. DeathIsTheVerdict' /\ BlamedFileFailedForIt'
      <3>1. \A f \in ToSet(Files) \ refused : ~(state[f] = "Failed" /\ fileError[f] \in Deaths)
        BY <2>1 DEF RecordInv, DeathIsTheVerdict
      <3> QED
        BY <3>1, <2>1 DEF DeathIsTheVerdict, BlamedFileFailedForIt, Deaths, entries
    <2> QED
      BY <2>3, <2>4, <2>5, <2>6 DEF RecordInv
  <1> QED
    BY <1>2, <1>3, <1>4, <1>5, <1>6, <1>7, <1>8, <1>9, <1>10, <1>11, <1>12, <1>13 DEF Reading

(***************************************************************************)
(* The walk over the drivers.                                              *)
(***************************************************************************)
LEMMA Scores == \A d : Score(d) \in {0, 1, 2}
  BY DEF Score, Unsupported, Possible, Announced

LEMMA ScoresStay ==
    ASSUME UNCHANGED <<paceInfo, hasCan, hasMrz>>
    PROVE  \A d : Score(d)' = Score(d)
  BY DEF Score

\* Advance adds the driver the walk stood at, if it was its turn, to those tried.
LEMMA AdvanceTries ==
    ASSUME TypeOK, level >= Possible, Advance, UNCHANGED <<paceInfo, hasCan, hasMrz>>
    PROVE  /\ level' \in Unsupported .. Announced /\ next' \in DOMAIN Drivers
           /\ \A i \in DOMAIN Drivers :
                 Tried(i)' <=> Tried(i) \/ (i = next /\ Score(Drivers[i]) = level)
  <1> USE DEF Unsupported, Possible, Announced
  <1>1. level \in {1, 2} /\ next \in {1, 2} /\ DOMAIN Drivers = {1, 2} /\ Len(Drivers) = 2
    BY Registry DEF TypeOK
  <1>2. \A i \in DOMAIN Drivers : Score(Drivers[i])' = Score(Drivers[i])
    BY ScoresStay
  <1>3. \A i \in DOMAIN Drivers : Score(Drivers[i]) \in {0, 1, 2}
    BY Scores
  <1>4. CASE next = 1
    <2>1. next' = 2 /\ level' = level
      BY <1>1, <1>4 DEF Advance
    <2> QED
      BY <1>1, <1>2, <1>3, <1>4, <2>1 DEF Tried
  <1>5. CASE next = 2
    <2>1. next' = 1 /\ level' = level - 1
      BY <1>1, <1>5 DEF Advance
    <2>2. level' \in Unsupported .. Announced /\ next' \in DOMAIN Drivers
      BY <1>1, <2>1
    <2>3. ASSUME NEW i \in DOMAIN Drivers
          PROVE  Tried(i)' <=> Tried(i) \/ (i = next /\ Score(Drivers[i]) = level)
      <3>1. Tried(i)' <=> Score(Drivers[i]) > level - 1
        BY <1>1, <1>2, <1>3, <2>1 DEF Tried
      <3>2. Tried(i) \/ (i = next /\ Score(Drivers[i]) = level)
               <=> Score(Drivers[i]) > level \/ Score(Drivers[i]) = level
        BY <1>1, <1>3, <1>5 DEF Tried
      <3> QED
        BY <1>1, <1>3, <3>1, <3>2
    <2> QED
      BY <2>2, <2>3
  <1> QED
    BY <1>1, <1>4, <1>5

LEMMA SearchStep ==
    ASSUME TypeOK, InputInv, SearchInv, Next
    PROVE  /\ SearchInv'
           /\ level' \in Unsupported .. Announced /\ next' \in DOMAIN Drivers
  <1> USE DEF Unsupported, Possible, Announced
  <1>1. UNCHANGED input
    BY DEF Next, Stop, Opening, SelectApplication, ReadCardAccess, TryPinned, SkipDriver,
           TryDriver, NoDriverLeft, DriverFails, SelectAgain, DriverOpens, SelectInside, Reading,
           BeginFile, SelectFile, FileRefused, SelectFails, FileRead, FileBreaksOff,
           ExchangeFails, FileStopped, NextIsSod, PassGroup, NextGroup, ReadOver, early, reading, kept
  <1>2. UNCHANGED <<pin, hasCan, hasMrz>>
    BY <1>1 DEF input
  <1>3. level \in Unsupported .. Announced /\ next \in DOMAIN Drivers
    BY DEF TypeOK
  <1>4. ASSUME UNCHANGED search, pc' \notin {"select", "cardAccess", "auth", "driver", "again", "inside"},
               pin # "Auto" /\ pc' # "ended" => \A d \in ToSet(Drivers) : said[d] = "None"
        PROVE  SearchInv'
    BY <1>2, <1>4 DEF SearchInv, search
  <1>5. ASSUME UNCHANGED <<pc, search, paceInfo>>
        PROVE  SearchInv'
    <2>1. \A d : Score(d)' = Score(d)
      BY <1>2, <1>5, ScoresStay
    <2> QED
      BY <1>2, <1>5, <2>1 DEF SearchInv, search, Tried, Driver
  <1>6. CASE Stop
    BY <1>3, <1>5, <1>6 DEF Stop, search
  <1>7. CASE Reading
    <2>1. UNCHANGED search /\ pc' \in {"file", "selecting", "blocks", "next", "ended"} /\ pc # "ended"
      BY <1>7
         DEF Reading, BeginFile, SelectFile, FileRefused, SelectFails, FileRead, FileBreaksOff,
             ExchangeFails, FileStopped, NextIsSod, PassGroup, NextGroup, ReadOver, reading, kept,
             Proceed, End
    <2>2. pin # "Auto" => \A d \in ToSet(Drivers) : said[d] = "None"
      BY <2>1 DEF SearchInv
    <2> QED
      BY <1>3, <1>4, <2>1, <2>2 DEF search
  <1>8. CASE SelectApplication
    <2>1. UNCHANGED <<search, paceInfo>> /\ pc' \in {"cardAccess", "ended"} /\ pc = "select"
      BY <1>8 DEF SelectApplication, End
    <2> QED
      BY <1>2, <1>3, <2>1 DEF SearchInv, search
  <1>9. CASE ReadCardAccess
    <2>1. UNCHANGED search /\ pc = "cardAccess" /\ pc' \in {"auth", "ended"}
      BY <1>9 DEF ReadCardAccess, End
    <2>2. level = 2 /\ next = 1 /\ \A d \in ToSet(Drivers) : said[d] = "None"
      BY <2>1 DEF SearchInv
    <2>3. \A i \in DOMAIN Drivers : Drivers[i] \in ToSet(Drivers) /\ ~(i < 1)
      BY Registry
    <2>4. \A d : Score(d)' \in {0, 1, 2}
      BY DEF Score
    <2>5. \A i \in DOMAIN Drivers : ~Tried(i)'
      BY <2>1, <2>2, <2>3, <2>4 DEF Tried, search
    <2> QED
      BY <1>2, <1>3, <2>1, <2>2, <2>3, <2>5 DEF SearchInv, search
  <1>10. CASE TryPinned
    <2>1. /\ UNCHANGED search /\ pc = "auth" /\ pc' \in {"driver", "ended"} /\ pin # "Auto"
      BY <1>10 DEF TryPinned, End
    <2> QED
      BY <1>2, <1>3, <2>1 DEF SearchInv, search
  <1>11. CASE SkipDriver
    <2>1. /\ pc = "auth" /\ pc' = "auth" /\ pin = "Auto" /\ level >= 1 /\ Advance
          /\ Score(Drivers[next]) # level /\ UNCHANGED <<said, paceInfo>>
      BY <1>11 DEF SkipDriver, Asking, Driver
    <2>2. /\ level' \in Unsupported .. Announced /\ next' \in DOMAIN Drivers
          /\ \A i \in DOMAIN Drivers : Tried(i)' <=> Tried(i)
      BY <1>2, <2>1, AdvanceTries
    <2> QED
      BY <1>2, <2>1, <2>2 DEF SearchInv
  <1>12. CASE TryDriver
    <2>1. /\ pc = "auth" /\ pc' = "driver" /\ pin = "Auto" /\ level >= 1 /\ Score(Driver) = level
          /\ UNCHANGED <<search, paceInfo>>
      BY <1>12 DEF TryDriver, Asking
    <2>2. \A d : Score(d)' = Score(d)
      BY <1>2, <2>1, ScoresStay
    <2> QED
      BY <1>2, <1>3, <2>1, <2>2 DEF SearchInv, search, Tried, Driver
  <1>13. CASE NoDriverLeft
    BY <1>3, <1>4, <1>13 DEF NoDriverLeft, End, search
  <1>14. CASE DriverFails
    <2>1. PICK e \in DriverErrors \cup SessionErrors :
             /\ said' = [said EXCEPT ![Driver] = e]
             /\ IF pin # "Auto" THEN pc' = "ended" ELSE pc' \in {"ended", "again"}
      BY <1>14 DEF DriverFails, End
    <2>2. pc \in {"driver", "inside"} /\ UNCHANGED <<level, next, paceInfo>>
      BY <1>14 DEF DriverFails, early
    <2>3. e # "None"
      BY DEF DriverErrors, KeyVerdicts, SessionErrors, LinkErrors
    <2>4. CASE pc' = "ended"
      BY <1>2, <1>3, <2>2, <2>4 DEF SearchInv
    <2>5. CASE pc' = "again" /\ pin = "Auto"
      <3>1. \A d : Score(d)' = Score(d)
        BY <1>2, <2>2, ScoresStay
      <3>2. Driver = Drivers[next]
        BY <2>5 DEF Driver
      <3>3. \A i \in DOMAIN Drivers : Drivers[i] \in ToSet(Drivers) /\
               (Drivers[i] = Drivers[next] => i = next)
        BY <1>3, Registry
      <3>4. \A i \in DOMAIN Drivers :
               said'[Drivers[i]] = IF i = next THEN e ELSE said[Drivers[i]]
        BY <2>1, <3>2, <3>3 DEF TypeOK
      <3>5. \A i \in DOMAIN Drivers : Tried(i)' <=> Tried(i)
        BY <2>2, <3>1 DEF Tried
      <3>6. \A i \in DOMAIN Drivers : said[Drivers[i]] # "None" <=> Tried(i)
        BY <2>2, <2>5 DEF SearchInv
      <3>7. level >= 1 /\ Score(Driver) = level
        BY <2>2, <2>5 DEF SearchInv
      <3>8. (level >= 1 /\ Score(Driver) = level)'
        BY <1>2, <2>2, <3>1, <3>7 DEF Driver
      <3> QED
        BY <1>2, <1>3, <2>2, <2>3, <2>5, <3>4, <3>5, <3>6, <3>8 DEF SearchInv
    <2> QED
      BY <2>1, <2>4, <2>5
  <1>15. CASE SelectAgain
    <2>1. pc = "again" /\ UNCHANGED <<said, paceInfo>>
      BY <1>15 DEF SelectAgain, early
    <2>2. pin = "Auto" /\ level >= 1 /\ Score(Drivers[next]) = level
      BY <2>1 DEF SearchInv, Driver
    <2>3. CASE pc' = "ended" /\ UNCHANGED <<level, next>>
      BY <1>2, <1>3, <2>2, <2>3 DEF SearchInv
    <2>4. CASE pc' = "auth" /\ Advance
      <3>1. /\ level' \in Unsupported .. Announced /\ next' \in DOMAIN Drivers
            /\ \A i \in DOMAIN Drivers : Tried(i)' <=> Tried(i) \/ i = next
        BY <1>2, <2>1, <2>2, <2>4, AdvanceTries
      <3> QED
        BY <1>2, <2>1, <2>2, <2>4, <3>1 DEF SearchInv
    <2> QED
      BY <1>15, <2>3, <2>4 DEF SelectAgain, End
  <1>16. CASE DriverOpens
    <2>1. UNCHANGED search /\ pc \in {"driver", "inside"} /\ pc' \in {"file", "ended"}
      BY <1>16 DEF DriverOpens, End
    <2> QED
      BY <1>3, <1>4, <2>1 DEF SearchInv, search
  <1>17. CASE SelectInside
    <2>1. UNCHANGED <<search, paceInfo>> /\ pc = "driver" /\ pc' = "inside"
      BY <1>17 DEF SelectInside
    <2>2. \A d : Score(d)' = Score(d)
      BY <1>2, <2>1, ScoresStay
    <2> QED
      BY <1>2, <1>3, <2>1, <2>2 DEF SearchInv, search, Tried, Driver
  <1> QED
    BY <1>6, <1>7, <1>8, <1>9, <1>10, <1>11, <1>12, <1>13, <1>14, <1>15, <1>16, <1>17
       DEF Next, Opening

(***************************************************************************)
(* The progress bar.                                                       *)
(***************************************************************************)
LEMMA GroupsFinite ==
    IsFiniteSet(ToSet(Groups)) /\ Cardinality(ToSet(Groups)) <= Len(Groups)
  <1>1. Groups \in Seq(STRING)
    BY ReadAssumption DEF ReadAssumption
  <1>2. Len(Groups) \in Nat /\ DOMAIN Groups = 1 .. Len(Groups) /\ Groups \in [1 .. Len(Groups) -> STRING]
    BY <1>1, LenProperties
  <1>3. Groups \in Surjection(1 .. Len(Groups), ToSet(Groups))
    BY <1>2 DEF Surjection, ToSet
  <1>4. IsFiniteSet(1 .. Len(Groups)) /\ Cardinality(1 .. Len(Groups)) = Len(Groups)
    BY SMTT(30), <1>2, FS_Interval
  <1> QED
    BY <1>3, <1>4, FS_Surjection

LEMMA Counts ==
    ASSUME NEW G \in SUBSET ToSet(Groups)
    PROVE  /\ IsFiniteSet({"COM", "SOD"} \cup ToBeRead(G))
           /\ CountFiles(G) = Cardinality({"COM", "SOD"} \cup ToBeRead(G))
           /\ CountFiles(G) \in 2 .. Len(Files) /\ CountFiles(G) <= CountFiles(DefaultMask)
  <1> DEFINE T(H) == ToBeRead(H)
  <1>1. \A H \in SUBSET ToSet(Groups) : T(H) \in SUBSET ToSet(Groups)
    BY DEF ToBeRead
  <1>2. \A H \in SUBSET ToSet(Groups) :
           /\ IsFiniteSet(T(H)) /\ Cardinality(T(H)) \in Nat /\ Cardinality(T(H)) <= Len(Groups)
    <2>1. ASSUME NEW H \in SUBSET ToSet(Groups)
          PROVE  /\ IsFiniteSet(T(H)) /\ Cardinality(T(H)) \in Nat
                 /\ Cardinality(T(H)) <= Len(Groups)
      <3>1. T(H) \in SUBSET ToSet(Groups)
        BY <1>1
      <3> HIDE DEF T
      <3>2. IsFiniteSet(T(H)) /\ Cardinality(T(H)) <= Cardinality(ToSet(Groups))
        BY <3>1, GroupsFinite, FS_Subset
      <3>3. Cardinality(T(H)) \in Nat /\ Cardinality(ToSet(Groups)) \in Nat
        BY <3>2, GroupsFinite, FS_CardinalityType
      <3> QED
        BY <3>2, <3>3, GroupsFinite, Catalogue
    <2> QED
      BY <2>1
  <1>3. IsFiniteSet({"COM", "SOD"} \cup T(G))
        /\ Cardinality({"COM", "SOD"} \cup T(G)) = 2 + Cardinality(T(G))
    <2>1. "COM" \notin T(G) /\ "SOD" \notin T(G) \cup {"COM"}
      BY <1>1, Catalogue
    <2> HIDE DEF T
    <2>2. /\ IsFiniteSet(T(G) \cup {"COM"})
          /\ Cardinality(T(G) \cup {"COM"}) = Cardinality(T(G)) + 1
      BY <1>2, <2>1, FS_AddElement
    <2>3. /\ IsFiniteSet((T(G) \cup {"COM"}) \cup {"SOD"})
          /\ Cardinality((T(G) \cup {"COM"}) \cup {"SOD"}) = Cardinality(T(G) \cup {"COM"}) + 1
      BY <2>2, <2>1, FS_AddElement
    <2>4. (T(G) \cup {"COM"}) \cup {"SOD"} = {"COM", "SOD"} \cup T(G)
      OBVIOUS
    <2>5. Cardinality(T(G)) \in Nat
      BY <1>2
    <2> DEFINE U == (T(G) \cup {"COM"}) \cup {"SOD"}
    <2>6. IsFiniteSet(U) /\ Cardinality(U) = 2 + Cardinality(T(G))
      BY <2>2, <2>3, <2>5
    <2> QED
      BY <2>4, <2>6, Zenon
  <1>4. Cardinality(T(G)) <= Cardinality(T(DefaultMask))
    <2>1. T(G) \in SUBSET T(DefaultMask) /\ DefaultMask \in SUBSET ToSet(Groups)
      BY DEF ToBeRead, DefaultMask
    <2> HIDE DEF T
    <2> QED
      BY <1>2, <2>1, FS_Subset
  <1>5. DefaultMask \in SUBSET ToSet(Groups)
    BY DEF DefaultMask
  <1> QED
    BY <1>2, <1>3, <1>4, <1>5, Catalogue DEF CountFiles

LEMMA Monotone ==
    ASSUME NEW d \in Nat, NEW e \in Nat, NEW t \in Nat \ {0}, NEW u \in Nat \ {0},
           d <= e, u <= t
    PROVE  Min({25 + (65 * d) \div t, 90}) <= Min({25 + (65 * e) \div u, 90})
  <1> DEFINE a == (65 * d) \div t
             b == (65 * e) \div u
  <1>1. a \in Nat /\ t * a <= 65 * d
    OBVIOUS
  <1>2. b \in Nat /\ 65 * e < u * (b + 1)
    OBVIOUS
  <1>3. a <= b
    <2> SUFFICES ASSUME b + 1 <= a PROVE FALSE
      BY <1>1, <1>2
    <2> HIDE DEF a, b
    <2>1. u * (b + 1) <= u * a
      BY <1>1, <1>2
    <2>2. u * a <= t * a
      BY <1>1
    <2>3. u * (b + 1) \in Nat /\ u * a \in Nat /\ t * a \in Nat
      BY <1>1, <1>2
    <2> QED
      BY <1>1, <1>2, <2>1, <2>2, <2>3
  <1>4. \A x \in Nat : Min({25 + x, 90}) = IF 25 + x <= 90 THEN 25 + x ELSE 90
    <2>1. ASSUME NEW x \in Nat
          PROVE  Min({25 + x, 90}) = IF 25 + x <= 90 THEN 25 + x ELSE 90
      <3> DEFINE m == IF 25 + x <= 90 THEN 25 + x ELSE 90
      <3>1. m \in {25 + x, 90} /\ \A y \in {25 + x, 90} : m <= y
        OBVIOUS
      <3>2. \A n \in {25 + x, 90} : (\A y \in {25 + x, 90} : n <= y) => n = m
        OBVIOUS
      <3> HIDE DEF m
      <3> QED
        BY <3>1, <3>2 DEF Min
    <2> QED
      BY <2>1
  <1> HIDE DEF a, b
  <1>5. Min({25 + a, 90}) <= Min({25 + b, 90})
    BY <1>1, <1>2, <1>3, <1>4
  <1> QED
    BY <1>5 DEF a, b

\* The groups the count is made of.
Planned == IF file = 1 THEN DefaultMask ELSE present

LEMMA ReachedCounts ==
    ASSUME TypeOK
    PROVE  /\ Planned \in SUBSET ToSet(Groups) /\ Counting = {"COM", "SOD"} \cup ToBeRead(Planned)
           /\ IsFiniteSet(Counting) /\ Cardinality(Counting) = CountFiles(Planned)
           /\ \A S : /\ IsFiniteSet(Counting \cap S) /\ Cardinality(Counting \cap S) \in Nat
                     /\ Cardinality(Counting \cap S) <= CountFiles(Planned)
  <1>1. Planned \in SUBSET ToSet(Groups)
    BY DEF Planned, DefaultMask, TypeOK
  <1>2. Counting = {"COM", "SOD"} \cup ToBeRead(Planned)
    BY DEF Counting, Planned
  <1>3. IsFiniteSet(Counting) /\ Cardinality(Counting) = CountFiles(Planned)
    BY <1>1, <1>2, Counts
  <1>4. ASSUME NEW S
        PROVE  /\ IsFiniteSet(Counting \cap S) /\ Cardinality(Counting \cap S) \in Nat
               /\ Cardinality(Counting \cap S) <= Cardinality(Counting)
    <2>1. Counting \cap S \in SUBSET Counting
      OBVIOUS
    <2>2. IsFiniteSet(Counting \cap S) /\ Cardinality(Counting \cap S) <= Cardinality(Counting)
      BY <1>3, <2>1, FS_Subset
    <2> QED
      BY <2>2, FS_CardinalityType
  <1> QED
    BY <1>1, <1>2, <1>3, <1>4

\* The file under way is one of those that count, and not one of those done.
LEMMA OneMore ==
    ASSUME TypeOK, RecordInv, BarInv, pc \in Under
    PROVE  /\ filesDone + 1 <= Cardinality(Counting \cap {Files[i] : i \in 1 .. file})
           /\ filesDone + 1 <= filesTotal /\ filesTotal \in Nat \ {0}
           /\ filesTotal = CountFiles(Planned)
  <1>1. file \in DOMAIN Files /\ DOMAIN Files = 1 .. Len(Files) /\ Len(Files) \in Nat
    BY Catalogue DEF TypeOK
  <1>2. filesTotal = CountFiles(Planned) /\ filesDone <= Cardinality(Counting \cap Reached)
    BY DEF BarInv, Planned
  <1>3. Name \in Counting
    <2>1. CASE file <= 2
      <3>1. file = 1 \/ file = 2
        BY <1>1, <2>1
      <3> QED
        BY <3>1, Catalogue DEF Name, Counting
    <2>2. CASE file > 2
      <3>1. ~Passed(Name) /\ file # 1
        BY <1>1, <2>2 DEF RecordInv, BehindInv
      <3> QED
        BY <3>1 DEF Passed, Counting, ToBeRead
    <2> QED
      BY <1>1, <2>1, <2>2
  <1>4. Reached = {Files[i] : i \in 1 .. file - 1}
    BY DEF Reached
  <1>5. Name \notin Reached
    <2>1. \A i \in 1 .. file - 1 : i \in DOMAIN Files /\ i # file
      BY <1>1
    <2> QED
      BY <1>1, <1>4, <2>1, Catalogue DEF Name
  <1>6. {Files[i] : i \in 1 .. file} = Reached \cup {Name}
    <2>1. 1 .. file = (1 .. file - 1) \cup {file}
      BY <1>1
    <2> QED
      BY <1>4, <2>1 DEF Name
  <1>7. Counting \cap (Reached \cup {Name}) = (Counting \cap Reached) \cup {Name}
    BY <1>3
  <1>8. /\ IsFiniteSet(Counting \cap Reached) /\ Cardinality(Counting \cap Reached) \in Nat
    BY ReachedCounts
  <1> DEFINE old == Counting \cap Reached
  <1>9. Cardinality(old \cup {Name}) = Cardinality(old) + 1
    <2>1. Name \notin old /\ IsFiniteSet(old)
      BY <1>5, <1>8
    <2> HIDE DEF old
    <2> QED
      BY <2>1, FS_AddElement
  <1>10. Cardinality(Counting \cap {Files[i] : i \in 1 .. file}) = Cardinality(old) + 1
    BY <1>6, <1>7, <1>9
  <1>11. /\ Cardinality(Counting \cap {Files[i] : i \in 1 .. file}) <= CountFiles(Planned)
         /\ CountFiles(Planned) \in 2 .. Len(Files)
    BY ReachedCounts, Counts
  <1>12. filesDone \in Nat
    BY Catalogue DEF TypeOK
  <1> QED
    BY <1>1, <1>2, <1>8, <1>10, <1>11, <1>12

LEMMA BarStep ==
    ASSUME TypeOK, RecordInv, BarInv, Next
    PROVE  /\ BarInv' /\ Percent <= Percent'
           /\ filesTotal' \in 0 .. Len(Files) /\ filesDone' \in 0 .. filesTotal'
  <1> DEFINE Goal == /\ BarInv' /\ Percent <= Percent'
                     /\ filesTotal' \in 0 .. Len(Files) /\ filesDone' \in 0 .. filesTotal'
  <1>1. /\ file \in DOMAIN Files /\ DOMAIN Files = 1 .. Len(Files) /\ Len(Files) \in Nat
        /\ filesTotal \in 0 .. Len(Files) /\ filesDone \in 0 .. filesTotal
    BY Catalogue DEF TypeOK
  <1>2. \A x \in Nat, y \in Nat \ {0} : Min({25 + (65 * x) \div y, 90}) <= Min({25 + (65 * x) \div y, 90})
    BY Monotone
  <1>3. Percent <= Percent
    <2>1. CASE filesTotal = 0
      BY <2>1 DEF Percent
    <2>2. CASE filesTotal # 0
      BY <1>1, <1>2, <2>2 DEF Percent
    <2> QED
      BY <2>1, <2>2
  <1>4. ASSUME UNCHANGED bar, pc' \notin Under \cup {"next"}
        PROVE  Goal
    BY <1>1, <1>3, <1>4 DEF bar, Percent, BarInv, Under
  <1>5. ASSUME UNCHANGED <<bar, wanted>>, pc \in Under \cup {"next"}, Planned' = Planned,
               file' = 1 <=> file = 1, Reached \subseteq Reached'
        PROVE  Goal
    <2>1. filesTotal = CountFiles(Planned) /\ filesDone <= Cardinality(Counting \cap Reached)
      BY <1>5 DEF BarInv, Planned
    <2>2. Counting' = Counting /\ CountFiles(Planned)' = CountFiles(Planned)
      BY <1>5, ReachedCounts DEF Counting, Planned, CountFiles, ToBeRead
    <2>3. /\ IsFiniteSet(Counting \cap Reached') /\ Cardinality(Counting \cap Reached') \in Nat
          /\ Cardinality(Counting \cap Reached) \in Nat
      BY ReachedCounts
    <2>4. Cardinality(Counting \cap Reached) <= Cardinality(Counting \cap Reached')
      <3>1. Counting \cap Reached \in SUBSET (Counting \cap Reached')
        BY <1>5
      <3> QED
        BY <2>3, <3>1, FS_Subset
    <2>5. filesTotal' = CountFiles(Planned)' /\ filesDone' <= Cardinality(Counting \cap Reached)'
      BY <1>1, <1>5, <2>1, <2>2, <2>3, <2>4 DEF bar
    <2>6. BarInv'
      BY <2>5 DEF BarInv, Planned
    <2> QED
      BY <1>1, <1>3, <1>5, <2>6 DEF bar, Percent
  <1>6. ASSUME pc \in {"selecting", "blocks"}, Counted, pc' \in {"next", "ended"},
               UNCHANGED <<file, wanted>>, file = 1 \/ UNCHANGED present
        PROVE  Goal
    <2>1. /\ filesDone + 1 <= Cardinality(Counting \cap {Files[i] : i \in 1 .. file})
          /\ filesDone + 1 <= filesTotal /\ filesTotal \in Nat \ {0}
          /\ filesTotal = CountFiles(Planned)
      BY <1>6, OneMore DEF Under
    <2>2. filesDone' = filesDone + 1 /\ filesTotal' = filesTotal
      BY <1>6 DEF Counted
    <2>3. Planned' = Planned /\ Counting' = Counting /\ CountFiles(Planned)' = CountFiles(Planned)
      BY <1>6 DEF Counting, Planned, CountFiles, ToBeRead
    <2>4. Reached' = {Files[i] : i \in 1 .. file}
      BY <1>6 DEF Reached, Under
    <2>5. BarInv'
      BY <1>6, <2>1, <2>2, <2>3, <2>4 DEF BarInv, Under, Planned
    <2>6. Min({25 + (65 * filesDone) \div filesTotal, 90})
             <= Min({25 + (65 * filesDone') \div filesTotal', 90})
      <3>1. filesDone \in Nat /\ filesDone' \in Nat /\ filesDone <= filesDone' /\ filesTotal' \in Nat \ {0}
            /\ filesTotal' <= filesTotal
        BY <1>1, <2>1, <2>2
      <3> QED
        BY ZenonT(60), <2>1, <3>1, Monotone
    <2> QED
      BY <1>1, <2>1, <2>2, <2>5, <2>6 DEF Percent
  <1>7. CASE Stop
    <2>1. UNCHANGED <<bar, wanted, pc, file, present>>
      BY <1>7 DEF Stop, input, found
    <2>2. Reached' = Reached /\ Planned' = Planned
      BY <2>1 DEF Reached, Planned
    <2> QED
      BY <1>4, <1>5, <2>1, <2>2
  <1>8. CASE DriverOpens
    <2>1. ~authenticated
      BY <1>8 DEF DriverOpens, RecordInv, PhaseInv, Before
    <2>2. file = 1 /\ filesDone = 0 /\ filesTotal = 0
      BY <2>1 DEF RecordInv, PhaseInv
    <2>3. UNCHANGED <<filesDone, file, present, wanted>>
      BY <1>8 DEF DriverOpens, input, found
    <2>4. CASE stop
      BY <1>8, <2>4, <2>3, <1>4 DEF DriverOpens, End, bar, Under
    <2>5. CASE ~stop
      <3>1. pc' = "file" /\ filesTotal' = CountFiles(DefaultMask)
        BY <1>8, <2>5 DEF DriverOpens
      <3>2. DefaultMask \in SUBSET ToSet(Groups)
        BY DEF DefaultMask
      <3>3. CountFiles(DefaultMask) \in 2 .. Len(Files) /\ CountFiles(DefaultMask)' = CountFiles(DefaultMask)
        BY <2>3, <3>2, Counts DEF CountFiles, ToBeRead
      <3>4. Counting' = Counting
        BY <2>3 DEF Counting, ToBeRead
      <3>5. Cardinality(Counting \cap Reached') \in Nat
        BY ReachedCounts
      <3>6. BarInv'
        BY <2>2, <2>3, <3>1, <3>3, <3>4, <3>5 DEF BarInv
      <3>7. Percent' = Min({25 + (65 * 0) \div filesTotal', 90}) /\ Percent = 25
        BY <2>2, <2>3, <3>1, <3>3 DEF Percent
      <3>8. \A t \in Nat \ {0} : (65 * 0) \div t = 0
        OBVIOUS
      <3>9. Min({25 + 0, 90}) = 25
        <4>1. \A n \in {25 + 0, 90} : (\A y \in {25 + 0, 90} : n <= y) <=> n = 25
          OBVIOUS
        <4> QED
          BY <4>1 DEF Min
      <3>10. filesTotal' \in Nat \ {0}
        BY <3>1, <3>3
      <3>11. Percent' = Min({25 + 0, 90})
        BY <3>7, <3>8, <3>10
      <3> QED
        BY <1>1, <2>2, <2>3, <3>1, <3>3, <3>6, <3>7, <3>9, <3>11
    <2> QED
      BY <2>4, <2>5
  <1>9. ASSUME Opening, ~DriverOpens PROVE Goal
    <2>1. UNCHANGED bar /\ pc' \in Before \cup {"ended"}
      BY <1>9
         DEF Opening, SelectApplication, ReadCardAccess, TryPinned, Asking, SkipDriver,
             TryDriver, NoDriverLeft, DriverFails, SelectAgain, SelectInside, Before, End, early
    <2> QED
      BY <1>4, <2>1 DEF Before, Under
  <1>10. CASE BeginFile
    <2>1. /\ pc = "file" /\ pc' \in {"selecting", "ended", "next"}
          /\ UNCHANGED <<bar, wanted, present, file>>
      BY <1>10, ProceedCases DEF BeginFile, reading, kept, input, found, End
    <2>2. Planned' = Planned /\ Reached \subseteq Reached'
      BY <1>1, <2>1 DEF Planned, Reached, Under
    <2> QED
      BY <1>5, <2>1, <2>2 DEF Under
  <1>11. CASE SelectFile
    <2>1. pc = "selecting" /\ pc' = "blocks" /\ UNCHANGED <<bar, wanted, present, file>>
      BY <1>11 DEF SelectFile, reading, kept, input, found
    <2>2. Planned' = Planned /\ Reached \subseteq Reached'
      BY <1>1, <2>1 DEF Planned, Reached, Under
    <2> QED
      BY <1>5, <2>1, <2>2 DEF Under
  <1>12. CASE SelectFails
    <2>1. /\ pc = "selecting" /\ pc' \in {"next", "ended"}
          /\ UNCHANGED <<bar, wanted, present, file>>
      BY <1>12, ProceedCases DEF SelectFails, reading, kept, input, found, End
    <2>2. Planned' = Planned /\ Reached \subseteq Reached'
      BY <1>1, <2>1 DEF Planned, Reached, Under
    <2> QED
      BY <1>5, <2>1, <2>2 DEF Under
  <1>13. CASE FileRefused
    BY <1>6, <1>13 DEF FileRefused, reading, kept, input, found
  <1>14. CASE FileRead
    <2>1. file = 1 \/ UNCHANGED present
      BY <1>14, <1>1, Catalogue DEF FileRead, Name, found
    <2> QED
      BY <1>6, <1>14, <2>1 DEF FileRead, reading, kept, input
  <1>15. CASE FileBreaksOff \/ ExchangeFails \/ FileStopped
    BY <1>6, <1>15, ProceedCases
       DEF FileBreaksOff, ExchangeFails, FileStopped, reading, kept, input, found, End
  <1>16. CASE NextIsSod
    <2>1. /\ pc = "next" /\ file = 1 /\ UNCHANGED <<wanted, filesDone>>
          /\ filesTotal' = CountFiles(Announce) /\ present' = Announce
          /\ pc' = "ended" \/ (pc' = "file" /\ file' = 2)
      BY <1>16, <1>1, Catalogue DEF NextIsSod, Name, reading, kept, input, End
    <2>2. Announce \in SUBSET ToSet(Groups)
      BY DEF Announce, DefaultMask, TypeOK
    <2>3. /\ filesTotal = CountFiles(DefaultMask)
          /\ filesDone <= Cardinality(Counting \cap Reached)
      BY <2>1 DEF BarInv
    <2>4. Reached = {"COM"}
      <3>1. 1 .. 1 = {1}
        OBVIOUS
      <3> QED
        BY <2>1, <3>1, Catalogue DEF Reached, Under
    <2>5. Counting \cap Reached = {"COM"}
      BY <2>4 DEF Counting
    <2>6. filesDone \in 0 .. 1
      <3>1. Cardinality({"COM"}) = 1
        BY FS_Singleton
      <3>2. filesDone <= 1
        BY <2>3, <2>5, <3>1
      <3> QED
        BY <1>1, <3>2
    <2>7. filesTotal' \in 2 .. Len(Files) /\ filesTotal' <= filesTotal
      BY <2>1, <2>2, <2>3, Counts
    <2>8. BarInv'
      <3>1. ASSUME pc' = "file", file' = 2 PROVE BarInv'
        <4>1. CountFiles(present)' = CountFiles(Announce)
          BY <2>1 DEF CountFiles, ToBeRead
        <4>2. Reached' = {"COM"}
          <5>1. 1 .. 2 - 1 = {1}
            OBVIOUS
          <5> QED
            BY <3>1, <5>1, Catalogue DEF Reached, Under
        <4>3. (Counting \cap Reached)' = {"COM"}
          BY <4>2 DEF Counting
        <4>4. Cardinality((Counting \cap Reached)') = 1
          BY <4>3, FS_Singleton
        <4> QED
          BY <2>1, <2>6, <3>1, <4>1, <4>4 DEF BarInv
      <3> QED
        BY <2>1, <3>1 DEF BarInv, Under
    <2>9. Percent <= Percent'
      <3>0. /\ filesDone \in Nat /\ filesDone' \in Nat /\ filesDone <= filesDone'
            /\ filesTotal \in Nat \ {0}
            /\ filesTotal' \in Nat \ {0} /\ filesTotal' <= filesTotal
        BY <1>1, <2>1, <2>6, <2>7
      <3>1. Min({25 + (65 * filesDone) \div filesTotal, 90})
               <= Min({25 + (65 * filesDone') \div filesTotal', 90})
        BY ZenonT(60), <3>0, Monotone
      <3> QED
        BY <3>0, <3>1 DEF Percent
    <2> QED
      BY <2>1, <2>6, <2>7, <2>8, <2>9
  <1>17. CASE PassGroup
    <2>1. /\ pc = "next" /\ pc' = "next" /\ UNCHANGED <<bar, wanted, present>> /\ file' = file + 1
          /\ file # 1
      BY <1>17, Catalogue DEF PassGroup, reading, kept, input, found, Name
    <2>2. Planned' = Planned /\ Reached \subseteq Reached'
      BY <1>1, <2>1 DEF Planned, Reached, Under
    <2> QED
      BY <1>1, <1>5, <2>1, <2>2
  <1>18. CASE NextGroup
    <2>1. /\ pc = "next" /\ pc' = "file" /\ UNCHANGED <<bar, wanted, present>> /\ file' = file + 1
          /\ file # 1
      BY <1>18, Catalogue DEF NextGroup, reading, kept, input, found, Name
    <2>2. Planned' = Planned /\ Reached \subseteq Reached'
      BY <1>1, <2>1 DEF Planned, Reached, Under
    <2> QED
      BY <1>1, <1>5, <2>1, <2>2
  <1>19. CASE ReadOver
    BY <1>4, <1>19 DEF ReadOver, End, Under
  <1> QED
    BY <1>7, <1>8, <1>9, <1>10, <1>11, <1>12, <1>13, <1>14, <1>15, <1>16, <1>17, <1>18, <1>19
       DEF Next, Reading

(***************************************************************************)
(* The types, and the invariant as a whole.                                *)
(***************************************************************************)
FileErrors == SessionErrors \cup {"None", "Parse", "Unsupported", "Cancelled"}

LEMMA EnteredType ==
    ASSUME TypeOK, NEW f \in ToSet(Files),
           NEW s \in {"Absent", "Reading", "Read", "Skipped", "Failed"},
           NEW e \in FileErrors, Enter(f, s, e)
    PROVE  /\ state' \in [ToSet(Files) -> {"Absent", "Reading", "Read", "Skipped", "Failed"}]
           /\ fileError' \in [ToSet(Files) -> FileErrors]
  BY DEF TypeOK, Enter, FileErrors

\* What the steps of the files have in common.
Entries(s, e) ==
    /\ s \in [ToSet(Files) -> {"Absent", "Reading", "Read", "Skipped", "Failed"}]
    /\ e \in [ToSet(Files) -> FileErrors]

LEMMA ReadingTypes ==
    ASSUME TypeOK, PhaseInv, Reading
    PROVE  /\ UNCHANGED <<stop, authenticated, paceInfo, search, input>>
           /\ pc' \in {"file", "selecting", "blocks", "next", "ended"}
           /\ slipped' \in BOOLEAN /\ hasCom' \in BOOLEAN /\ present' \subseteq ToSet(Groups)
           /\ file' \in DOMAIN Files /\ errorFile' \in ToSet(Files)
           /\ error' \in DriverErrors \cup Reasons \cup {"None", "NotEmrtd", "Cancelled"}
           /\ Entries(state', fileError') /\ refused' \subseteq ToSet(Files)
  <1> DEFINE ends == DriverErrors \cup Reasons \cup {"None", "NotEmrtd", "Cancelled"}
  <1>1. /\ file \in DOMAIN Files /\ DOMAIN Files = 1 .. Len(Files) /\ Len(Files) \in Nat
        /\ Len(Files) >= 2
    BY Catalogue DEF TypeOK
  <1>2. Name \in ToSet(Files) /\ errorFile \in ToSet(Files) /\ error \in ends
    BY <1>1 DEF TypeOK, Name, ToSet
  <1>3. Entries(state, fileError)
    BY DEF TypeOK, Entries, FileErrors
  <1>4. slipped \in BOOLEAN /\ hasCom \in BOOLEAN /\ present \subseteq ToSet(Groups)
    BY DEF TypeOK
  <1>5. Fatal \subseteq ends /\ "Cancelled" \in ends /\ "None" \in ends
    BY DEF Fatal, Gone, DriverErrors, SessionErrors, LinkErrors
  <1>6. ASSUME NEW e \in FileErrors, Proceed(e)
        PROVE  /\ pc' \in {"next", "ended"} /\ error' \in ends /\ errorFile' \in ToSet(Files)
               /\ file' = file
    BY <1>2, <1>5, <1>6 DEF Proceed, End
  <1>7. SessionErrors \subseteq FileErrors /\ {"None", "Refused", "Parse", "Unsupported",
           "Cancelled", "SecureMessaging", "BufferTooSmall"} \subseteq FileErrors
    BY DEF FileErrors, SessionErrors, LinkErrors
  <1>8. UNCHANGED kept /\ refused' \subseteq ToSet(Files)
    BY <1>2 DEF Reading, BeginFile, SelectFile, FileRefused, SelectFails, FileRead, FileBreaksOff,
           ExchangeFails, FileStopped, NextIsSod, PassGroup, NextGroup, ReadOver,
           reading, TypeOK
  <1>9. slipped' \in BOOLEAN
    BY <1>4
       DEF Reading, BeginFile, SelectFile, FileRefused, SelectFails, FileRead, FileBreaksOff,
           ExchangeFails, FileStopped, NextIsSod, PassGroup, NextGroup, ReadOver, Succeeds, Fails
  <1>10. hasCom' \in BOOLEAN /\ present' \subseteq ToSet(Groups)
    BY <1>4
       DEF Reading, BeginFile, SelectFile, FileRefused, SelectFails, FileRead, FileBreaksOff,
           ExchangeFails, FileStopped, NextIsSod, PassGroup, NextGroup, ReadOver, found,
           Announce, DefaultMask
  <1> HIDE DEF ends
  <1>11. ASSUME NEW s \in {"Absent", "Reading", "Read", "Skipped", "Failed"},
                NEW e \in FileErrors, Enter(Name, s, e)
         PROVE  Entries(state', fileError')
    BY <1>2, <1>11, EnteredType DEF Entries
  <1> DEFINE Rest == /\ pc' \in {"file", "selecting", "blocks", "next", "ended"}
                     /\ file' \in DOMAIN Files /\ errorFile' \in ToSet(Files) /\ error' \in ends
                     /\ Entries(state', fileError')
  <1>12. ASSUME BeginFile PROVE Rest
    BY <1>1, <1>2, <1>6, <1>7, <1>11, <1>12 DEF BeginFile
  <1>13. ASSUME SelectFile PROVE Rest
    BY <1>1, <1>2, <1>3, <1>13 DEF SelectFile, entries
  <1>14. ASSUME FileRefused PROVE Rest
    BY <1>1, <1>2, <1>7, <1>11, <1>14 DEF FileRefused
  <1>15. ASSUME SelectFails PROVE Rest
    BY <1>1, <1>6, <1>7, <1>11, <1>15 DEF SelectFails
  <1>16. ASSUME FileRead PROVE Rest
    BY <1>1, <1>2, <1>7, <1>11, <1>16 DEF FileRead
  <1>17. ASSUME FileBreaksOff PROVE Rest
    BY <1>1, <1>6, <1>7, <1>11, <1>17 DEF FileBreaksOff
  <1>18. ASSUME ExchangeFails PROVE Rest
    BY <1>1, <1>6, <1>7, <1>11, <1>18 DEF ExchangeFails
  <1>19. ASSUME FileStopped PROVE Rest
    BY <1>1, <1>6, <1>7, <1>11, <1>19 DEF FileStopped
  <1>20. ASSUME NextIsSod PROVE Rest
    BY <1>1, <1>2, <1>3, <1>5, <1>20 DEF NextIsSod, entries, End
  <1>21. ASSUME PassGroup PROVE Rest
    <2>0. PICK i \in DOMAIN Files : i = file + 1
      BY <1>21, <1>1 DEF PassGroup
    <2>1. Files[i] \in ToSet(Files)
      BY DEF ToSet
    <2>2. fileError[Files[i]] \in FileErrors
      BY <2>1, <1>3 DEF Entries
    <2>3. PICK s \in {"Absent", "Skipped"} : \E e \in FileErrors : Enter(Files[i], s, e)
      BY <1>21, <1>7, <2>0, <2>2 DEF PassGroup, Verdict
    <2>4. Entries(state', fileError')
      BY <2>1, <2>3, EnteredType DEF Entries
    <2> QED
      BY <1>2, <1>21, <2>0, <2>4 DEF PassGroup
  <1>22. ASSUME NextGroup PROVE Rest
    BY <1>1, <1>2, <1>3, <1>22 DEF NextGroup, entries
  <1>23. ASSUME ReadOver PROVE Rest
    BY <1>1, <1>2, <1>3, <1>5, <1>23 DEF ReadOver, entries, End
  <1>24. Rest
    BY <1>12, <1>13, <1>14, <1>15, <1>16, <1>17, <1>18, <1>19, <1>20, <1>21, <1>22, <1>23
       DEF Reading
  <1> QED
    BY <1>8, <1>9, <1>10, <1>24 DEF kept, ends

LEMMA OpeningTypes ==
    ASSUME TypeOK, InputInv, Opening
    PROVE  /\ UNCHANGED <<input, stop, errorFile, entries, refused, found, slipped, file>>
           /\ pc' \in Before \cup {"file", "ended"} /\ authenticated' \in BOOLEAN
           /\ paceInfo' \in {"none", "unusable", "usable"}
           /\ best' \in DriverErrors \cup Reasons /\ attempted' \in BOOLEAN
           /\ said' \in [ToSet(Drivers) -> DriverErrors \cup {"None"}]
           /\ error' \in DriverErrors \cup Reasons \cup {"None", "NotEmrtd", "Cancelled"}
  <1> DEFINE ends == DriverErrors \cup Reasons \cup {"None", "NotEmrtd", "Cancelled"}
             Rest == /\ paceInfo' \in {"none", "unusable", "usable"}
                     /\ best' \in DriverErrors \cup Reasons /\ attempted' \in BOOLEAN
                     /\ said' \in [ToSet(Drivers) -> DriverErrors \cup {"None"}]
                     /\ error' \in ends
  <1>1. UNCHANGED <<input, stop, errorFile, entries, refused, found, slipped, file>>
    BY DEF Opening, SelectApplication, ReadCardAccess, TryPinned, SkipDriver, TryDriver,
           NoDriverLeft, DriverFails, SelectAgain, DriverOpens, SelectInside, early
  <1>2. pc' \in Before \cup {"file", "ended"}
    BY DEF Opening, SelectApplication, ReadCardAccess, TryPinned, SkipDriver, TryDriver,
           NoDriverLeft, DriverFails, SelectAgain, DriverOpens, SelectInside, Asking, End, Before
  <1>3. authenticated' \in BOOLEAN
    BY DEF Opening, SelectApplication, ReadCardAccess, TryPinned, SkipDriver, TryDriver,
           NoDriverLeft, DriverFails, SelectAgain, DriverOpens, SelectInside, early, TypeOK
  <1>4. /\ paceInfo \in {"none", "unusable", "usable"} /\ best \in DriverErrors \cup Reasons
        /\ attempted \in BOOLEAN /\ said \in [ToSet(Drivers) -> DriverErrors \cup {"None"}]
        /\ error \in ends
    BY DEF TypeOK
  <1>5. /\ {"Cancelled", "NotEmrtd", "None", "Refused"} \subseteq ends
        /\ LinkErrors \subseteq ends /\ DriverErrors \subseteq ends /\ Reasons \subseteq ends
        /\ SessionErrors \subseteq DriverErrors /\ KeyVerdicts \subseteq DriverErrors
    BY DEF DriverErrors, SessionErrors
  <1>6. \A d : Reason(d) \in Reasons
    BY DEF Reason, Reasons
  <1> HIDE DEF ends
  <1>7. ASSUME SelectApplication PROVE Rest
    BY <1>4, <1>5, <1>7 DEF SelectApplication, End, search
  <1>8. ASSUME ReadCardAccess PROVE Rest
    BY <1>4, <1>5, <1>8 DEF ReadCardAccess, End, search
  <1>9. ASSUME TryPinned PROVE Rest
    BY <1>4, <1>5, <1>6, <1>9 DEF TryPinned, End, search
  <1>10. ASSUME SkipDriver PROVE Rest
    BY <1>4, <1>6, <1>10 DEF SkipDriver
  <1>11. ASSUME TryDriver PROVE Rest
    BY <1>4, <1>11 DEF TryDriver, search
  <1>12. ASSUME NoDriverLeft PROVE Rest
    BY <1>4, <1>5, <1>12 DEF NoDriverLeft, End, search
  <1>13. ASSUME DriverFails PROVE Rest
    <2>1. PICK e \in DriverErrors :
             /\ said' = [said EXCEPT ![Driver] = e]
             /\ IF pin # "Auto" THEN End(e) /\ UNCHANGED <<best, attempted>>
                ELSE /\ best' = Blame(e) /\ attempted' = TRUE
                     /\ IF e \in Gone THEN End(best') ELSE pc' = "again" /\ UNCHANGED error
      BY <1>5, <1>13 DEF DriverFails
    <2>2. Blame(e) \in DriverErrors \cup Reasons
      BY <1>4 DEF Blame
    <2>3. UNCHANGED paceInfo
      BY <1>13 DEF DriverFails
    <2> QED
      BY <1>4, <1>5, <2>1, <2>2, <2>3 DEF End
  <1>14. ASSUME SelectAgain PROVE Rest
    BY <1>4, <1>5, <1>14 DEF SelectAgain, End
  <1>15. ASSUME DriverOpens PROVE Rest
    BY <1>4, <1>5, <1>15 DEF DriverOpens, End, search
  <1>16. ASSUME SelectInside PROVE Rest
    BY <1>4, <1>16 DEF SelectInside, search
  <1>17. Rest
    BY <1>7, <1>8, <1>9, <1>10, <1>11, <1>12, <1>13, <1>14, <1>15, <1>16 DEF Opening
  <1> QED
    BY <1>1, <1>2, <1>3, <1>17 DEF ends

LEMMA Parts == IInv <=> TypeOK /\ InputInv /\ RecordInv /\ SearchInv /\ BarInv
  BY DEF IInv, RecordInv

LEMMA InvStep == IInv /\ [Next]_vars => IInv'
  <1> SUFFICES ASSUME IInv, [Next]_vars PROVE IInv'
    OBVIOUS
  <1> USE Parts
  <1>1. CASE UNCHANGED vars
    BY <1>1
       DEF vars, input, search, entries, found, bar, IInv, TypeOK, InputInv, PhaseInv, AheadInv,
           ReadingInv, RefusedInv, BehindInv, SearchInv, BarInv, DeathIsTheVerdict, BlamedFileFailedForIt,
           Untouched, Accounted, Passed, Name, Tried, Score, Driver, Counting, Reached,
           CountFiles, ToBeRead
  <1>2. ASSUME Next PROVE IInv'
    <2>1. /\ SearchInv' /\ BarInv'
          /\ level' \in Unsupported .. Announced /\ next' \in DOMAIN Drivers
          /\ filesTotal' \in 0 .. Len(Files) /\ filesDone' \in 0 .. filesTotal'
      BY <1>2, SearchStep, BarStep
    <2>2. CASE Stop
      <3>1. UNCHANGED <<pc, input, paceInfo, search, error, errorFile, authenticated, entries,
                        refused, found, slipped, file, bar>> /\ stop' \in BOOLEAN
        BY <2>2 DEF Stop
      <3>2. TypeOK' /\ InputInv'
        BY <3>1 DEF TypeOK, InputInv, input, search, entries, found, bar
      <3>3. RecordInv'
        BY <3>1
           DEF RecordInv, PhaseInv, AheadInv, ReadingInv, RefusedInv, BehindInv, DeathIsTheVerdict,
               BlamedFileFailedForIt, Untouched, Accounted, Passed, Name, input, entries, found,
               bar
      <3> QED
        BY <2>1, <3>2, <3>3, Parts DEF IInv, RecordInv
    <2>3. CASE Opening
      <3>1. TypeOK' /\ InputInv'
        BY <2>1, <2>3, OpeningTypes DEF TypeOK, InputInv, input, entries, found, Before
      <3> QED
        BY <2>1, <2>3, <3>1, OpeningRecord DEF IInv, RecordInv
    <2>4. CASE Reading
      <3>1. PhaseInv
        BY DEF RecordInv
      <3>2. TypeOK' /\ InputInv'
        BY <2>1, <2>4, <3>1, ReadingTypes DEF TypeOK, InputInv, input, search, Entries, FileErrors
      <3> QED
        BY <2>1, <2>4, <3>2, ReadingRecord DEF IInv, RecordInv
    <2> QED
      BY <1>2, <2>2, <2>3, <2>4 DEF Next
  <1> QED
    BY <1>1, <1>2

LEMMA Invariance == Spec => []IInv
  BY InvInit, InvStep, PTL DEF Spec

(***************************************************************************)
(* The theorems.                                                           *)
(***************************************************************************)
\* The state keeps its shape: what a driver, a file and the read itself may fail
\* with are the errors that reach them, and the bar counts at most the files of
\* the catalogue (emrtd_worker.c, the record of emrtd_worker_read).
THEOREM ReadTypeCorrect == Spec => []TypeOK
  <1>1. IInv => TypeOK
    BY DEF IInv
  <1> QED
    BY <1>1, Invariance, PTL

\* For any catalogue and any settings: a session that dies under a file ends the
\* read, with that error and that file, and nothing else is blamed on a death; a
\* status word in answer to a SELECT is no death, whatever error it is entered as.
THEOREM ADeadSessionIsTheVerdict == Spec => []DeathIsTheVerdict
  <1>1. IInv => DeathIsTheVerdict
    BY DEF IInv
  <1> QED
    BY <1>1, Invariance, PTL

\* The file the error screen names did not fail for another reason.
THEOREM TheBlameIsRight == Spec => []BlamedFileFailedForIt
  <1>1. IInv => BlamedFileFailedForIt
    BY DEF IInv
  <1> QED
    BY <1>1, Invariance, PTL

\* A read that ends without an error has accounted for every group of the
\* catalogue, and leaves no file "Reading".
THEOREM CompletedMeansAccounted == Spec => []RecordIsComplete
  <1>1. IInv => RecordIsComplete
    <2> SUFFICES ASSUME IInv, pc = "ended", error = "None"
                 PROVE  /\ \A f \in ToSet(Files) : state[f] # "Reading"
                        /\ \A g \in ToSet(Groups) : Accounted(g)
      BY DEF RecordIsComplete
    <2>1. file = Len(Files) /\ DOMAIN Files = 1 .. Len(Files) /\ Len(Files) \in Nat
      BY Catalogue DEF IInv, BehindInv
    <2>2. \A i \in DOMAIN Files : 2 < i => Accounted(Files[i])
      BY <2>1 DEF IInv, BehindInv, Under
    <2>3. \A i \in DOMAIN Files : state[Files[i]] # "Reading"
      BY DEF IInv, ReadingInv
    <2> QED
      BY <2>2, <2>3, Catalogue DEF ToSet
  <1> QED
    BY <1>1, Invariance, PTL

\* A driver is run at most once in a read, never before one that promises more,
\* and a pinned one alone.
THEOREM NoAttemptTwice == Spec => EachDriverOnceBestFirst
  <1> DEFINE Once == pc # "driver" /\ pc' = "driver" =>
                        /\ said[Driver] = "None"
                        /\ pin = "Auto" => \A d \in ToSet(Drivers) :
                                              Score(d) > Score(Driver) => said[d] # "None"
                        /\ pin # "Auto" => Driver = pin
  <1>1. ASSUME IInv, Next, pc # "driver", pc' = "driver" PROVE Once
    <2>1. /\ pc = "auth" /\ (pin = "Auto" => TryDriver)
      BY <1>1
         DEF Next, Stop, Opening, SelectApplication, ReadCardAccess, TryPinned, SkipDriver,
             TryDriver, NoDriverLeft, DriverFails, SelectAgain, DriverOpens, SelectInside,
             Asking, End, Reading, BeginFile, SelectFile, FileRefused, SelectFails, FileRead,
             FileBreaksOff, ExchangeFails, FileStopped, NextIsSod, PassGroup, NextGroup,
             ReadOver, Proceed
    <2>2. CASE pin # "Auto"
      <3>1. Driver \in ToSet(Drivers) /\ Driver = pin
        BY <1>1, <2>2, ReadAssumption DEF IInv, InputInv, Driver, ReadAssumption
      <3> QED
        BY <1>1, <2>1, <2>2, <3>1 DEF IInv, SearchInv
    <2>3. CASE pin = "Auto"
      <3>1. Score(Driver) = level /\ Driver = Drivers[next] /\ next \in DOMAIN Drivers
        BY <1>1, <2>1, <2>3 DEF TryDriver, Driver, IInv, TypeOK
      <3>2. \A i \in DOMAIN Drivers : said[Drivers[i]] # "None" <=> Tried(i)
        BY <1>1, <2>1, <2>3 DEF IInv, SearchInv
      <3>3. level \in Nat /\ next \in Nat
        BY <1>1, Registry DEF IInv, TypeOK, Unsupported, Announced
      <3>4. ~Tried(next)
        BY <3>1, <3>3 DEF Tried
      <3>5. \A i \in DOMAIN Drivers : Score(Drivers[i]) > Score(Driver) => Tried(i)
        BY <3>1 DEF Tried
      <3> QED
        BY <2>3, <3>1, <3>2, <3>4, <3>5 DEF ToSet
    <2> QED
      BY <2>2, <2>3
  <1>2. IInv /\ [Next]_vars => [Once]_vars
    BY <1>1
  <1> QED
    BY <1>2, Invariance, PTL DEF Spec, EachDriverOnceBestFirst

\* The bar never goes back, and never runs past its end, for a catalogue of any
\* length and whatever EF.COM announces of it.
THEOREM TheBarOnlyAdvances == Spec => BarNeverGoesBack
  <1>1. IInv /\ Next => Percent <= Percent' /\ filesDone' <= filesTotal'
    <2> SUFFICES ASSUME IInv, Next PROVE Percent <= Percent' /\ filesDone' <= filesTotal'
      OBVIOUS
    <2>1. Percent <= Percent' /\ filesTotal' \in 0 .. Len(Files) /\ filesDone' \in 0 .. filesTotal'
      BY BarStep, Parts
    <2>2. Len(Files) \in Nat
      BY Catalogue
    <2> QED
      BY <2>1, <2>2
  <1>2. IInv /\ [Next]_vars => [Percent <= Percent' /\ filesDone' <= filesTotal']_vars
    BY <1>1
  <1> QED
    BY <1>2, Invariance, PTL DEF Spec, BarNeverGoesBack

(***************************************************************************)
(* The plan.                                                               *)
(***************************************************************************)
LEMMA PlanPhases ==
    /\ pc = "select" => PlanPhase = "selecting"
    /\ pc = "cardAccess" => PlanPhase = "cardAccess"
    /\ pc \in {"auth", "driver", "again", "inside"} => PlanPhase = "authenticating"
    /\ pc = "ended" => PlanPhase = "over"
    /\ pc \in {"file", "selecting", "blocks", "next"} => PlanPhase = "files"
  BY DEF PlanPhase

LEMMA PlanPhasesNext ==
    /\ pc' = "select" => PlanPhase' = "selecting"
    /\ pc' = "cardAccess" => PlanPhase' = "cardAccess"
    /\ pc' \in {"auth", "driver", "again", "inside"} => PlanPhase' = "authenticating"
    /\ pc' = "ended" => PlanPhase' = "over"
    /\ pc' \in {"file", "selecting", "blocks", "next"} => PlanPhase' = "files"
  BY DEF PlanPhase

\* The read ends with an error that is not the user's stop.
LEMMA EndFails ==
    ASSUME NEW e, e \notin {"None", "Cancelled"}, End(e),
           PlanPhase \in {"selecting", "authenticating", "files"},
           UNCHANGED <<stop, authenticated>>
    PROVE  Plan!Fail
  <1>1. PlanPhase' = "over" /\ VerdictOf(error)' = "failed"
    BY PlanPhasesNext DEF End, VerdictOf
  <1> QED
    BY <1>1 DEF Plan!Fail

LEMMA EndStops ==
    ASSUME End("Cancelled"), stop, pc # "ended",
           PlanPhase # "over", UNCHANGED <<stop, authenticated>>
    PROVE  Plan!Stop
  <1>1. PlanPhase' = "over" /\ VerdictOf(error)' = "stopped"
    BY PlanPhasesNext DEF End, VerdictOf
  <1> QED
    BY <1>1 DEF Plan!Stop

\* A step within a stage.
LEMMA PlanStutters ==
    ASSUME PlanPhase' = PlanPhase, UNCHANGED <<stop, authenticated, error>>
    PROVE  UNCHANGED Plan!vars
  BY DEF Plan!vars, VerdictOf

LEMMA OpeningIsPlanned ==
    ASSUME TypeOK, Opening
    PROVE  [Plan!Next]_(Plan!vars)
  <1>1. CASE SelectApplication
    <2>1. UNCHANGED <<stop, authenticated>> /\ PlanPhase = "selecting" /\ pc = "select"
      BY <1>1, PlanPhases DEF SelectApplication, early
    <2>2. CASE stop /\ End("Cancelled")
      BY <2>1, <2>2, EndStops DEF Plan!Next
    <2>3. CASE pc' = "cardAccess" /\ UNCHANGED error
      BY <2>1, <2>3, PlanPhasesNext DEF Plan!Next, Plan!Advance, VerdictOf
    <2>4. CASE \E e \in SessionErrors \cup {"NotEmrtd"} : End(e)
      <3>1. PICK e \in SessionErrors \cup {"NotEmrtd"} : End(e)
        BY <2>4
      <3>2. e \notin {"None", "Cancelled"}
        BY DEF SessionErrors, LinkErrors
      <3> QED
        BY <2>1, <3>1, <3>2, EndFails DEF Plan!Next
    <2> QED
      BY <1>1, <2>2, <2>3, <2>4 DEF SelectApplication
  <1>2. CASE ReadCardAccess
    <2>1. UNCHANGED <<stop, authenticated>> /\ PlanPhase = "cardAccess" /\ pc = "cardAccess"
      BY <1>2, PlanPhases DEF ReadCardAccess, early
    <2>2. CASE stop
      <3>1. End("Cancelled")
        BY <1>2, <2>2 DEF ReadCardAccess
      <3> QED
        BY <2>1, <2>2, <3>1, EndStops DEF Plan!Next
    <2>3. CASE ~stop
      <3>1. pc' = "auth" /\ UNCHANGED error
        BY <1>2, <2>3 DEF ReadCardAccess
      <3> QED
        BY <2>1, <3>1, PlanPhasesNext DEF Plan!Next, Plan!Advance, VerdictOf
    <2> QED
      BY <2>2, <2>3
  <1>3. CASE TryPinned \/ SkipDriver \/ TryDriver \/ NoDriverLeft \/ DriverFails \/ SelectAgain
             \/ SelectInside
    <2>1. UNCHANGED <<stop, authenticated>> /\ pc \in {"auth", "driver", "again", "inside"}
      BY <1>3 DEF TryPinned, SkipDriver, TryDriver, NoDriverLeft, DriverFails, SelectAgain,
                  SelectInside, early, Asking
    <2>2. \/ pc' \in {"auth", "driver", "again", "inside"} /\ UNCHANGED error
          \/ stop /\ End("Cancelled")
          \/ \E e \in DriverErrors \cup Reasons : End(e)
      <3>1. best \in DriverErrors \cup Reasons
        BY DEF TypeOK
      <3>2. CASE TryPinned
        <4>1. Reason(pin) \in Reasons
          BY DEF Reason, Reasons
        <4> QED
          BY <3>2, <4>1 DEF TryPinned
      <3>3. CASE SkipDriver \/ TryDriver \/ SelectInside
        BY <3>3 DEF SkipDriver, TryDriver, SelectInside, Asking
      <3>4. CASE NoDriverLeft \/ SelectAgain
        BY <3>1, <3>4 DEF NoDriverLeft, SelectAgain
      <3>5. CASE DriverFails
        <4>1. PICK e \in DriverErrors :
                 IF pin # "Auto" THEN End(e) /\ UNCHANGED <<best, attempted>>
                 ELSE /\ best' = Blame(e) /\ attempted' = TRUE
                      /\ IF e \in Gone THEN End(best') ELSE pc' = "again" /\ UNCHANGED error
          BY <3>5 DEF DriverFails, DriverErrors
        <4>2. Blame(e) \in DriverErrors \cup Reasons
          BY <3>1 DEF Blame
        <4> QED
          BY <4>1, <4>2
      <3> QED
        BY <1>3, <3>2, <3>3, <3>4, <3>5
    <2>3. PlanPhase = "authenticating"
      BY <2>1, PlanPhases
    <2>4. \A e \in DriverErrors \cup Reasons : e \notin {"None", "Cancelled"}
      BY DEF DriverErrors, Reasons, SessionErrors, LinkErrors, KeyVerdicts
    <2>5. CASE pc' \in {"auth", "driver", "again", "inside"} /\ UNCHANGED error
      BY <2>1, <2>3, <2>5, PlanPhasesNext, PlanStutters
    <2>6. CASE stop /\ End("Cancelled")
      BY <2>1, <2>3, <2>6, EndStops DEF Plan!Next
    <2>7. CASE \E e \in DriverErrors \cup Reasons : End(e)
      BY <2>1, <2>3, <2>4, <2>7, EndFails DEF Plan!Next
    <2> QED
      BY <2>2, <2>5, <2>6, <2>7
  <1>4. CASE DriverOpens
    <2>1. /\ authenticated' = TRUE /\ UNCHANGED stop
          /\ pc \in {"driver", "inside"} /\ PlanPhase = "authenticating"
      BY <1>4, PlanPhases DEF DriverOpens
    <2>2. CASE stop
      <3>1. PlanPhase' = "over" /\ VerdictOf(error)' = "stopped"
        BY <1>4, <2>2, PlanPhasesNext DEF DriverOpens, End, VerdictOf
      <3> QED
        BY <2>1, <2>2, <3>1 DEF Plan!Next, Plan!Authenticate
    <2>3. CASE ~stop
      <3>1. PlanPhase' = "files" /\ UNCHANGED error
        BY <1>4, <2>3, PlanPhasesNext DEF DriverOpens
      <3> QED
        BY <2>1, <3>1 DEF Plan!Next, Plan!Authenticate, VerdictOf
    <2> QED
      BY <2>2, <2>3
  <1> QED
    BY <1>1, <1>2, <1>3, <1>4 DEF Opening

LEMMA ReadingIsPlanned ==
    ASSUME PhaseInv, Reading
    PROVE  [Plan!Next]_(Plan!vars)
  <1>1. UNCHANGED <<stop, authenticated>> /\ pc \in {"file", "selecting", "blocks", "next"}
    BY DEF Reading, BeginFile, SelectFile, FileRefused, SelectFails, FileRead, FileBreaksOff,
           ExchangeFails, FileStopped, NextIsSod, PassGroup, NextGroup, ReadOver, reading, kept
  <1>2. \/ pc' \in {"file", "selecting", "blocks", "next"} /\ UNCHANGED error
        \/ stop /\ End("Cancelled")
        \/ End("None")
        \/ \E e \in Fatal : End(e)
    <2>1. ASSUME NEW e, Proceed(e)
          PROVE  \/ pc' = "next" /\ UNCHANGED error
                 \/ e = "Cancelled" /\ End("Cancelled")
                 \/ e \in Fatal /\ End(e)
      BY <2>1 DEF Proceed
    <2>2. CASE BeginFile \/ FileStopped
      BY <2>1, <2>2 DEF BeginFile, FileStopped, Fatal, Gone
    <2>3. CASE SelectFails \/ FileBreaksOff \/ ExchangeFails
      <3>1. PICK e : e # "Cancelled" /\ Proceed(e)
        BY <2>3 DEF SelectFails, FileBreaksOff, ExchangeFails, SessionErrors, LinkErrors
      <3> QED
        BY <2>1, <3>1
    <2>4. CASE SelectFile \/ FileRefused \/ FileRead
      BY <2>4 DEF SelectFile, FileRefused, FileRead
    <2>5. CASE NextIsSod \/ PassGroup \/ NextGroup \/ ReadOver
      BY <2>5 DEF NextIsSod, PassGroup, NextGroup, ReadOver
    <2> QED
      BY <2>2, <2>3, <2>4, <2>5 DEF Reading
  <1>3. PlanPhase = "files"
    BY <1>1, PlanPhases
  <1>4. CASE pc' \in {"file", "selecting", "blocks", "next"} /\ UNCHANGED error
    BY <1>1, <1>3, <1>4, PlanPhasesNext, PlanStutters
  <1>5. CASE stop /\ End("Cancelled")
    BY <1>1, <1>3, <1>5, EndStops DEF Plan!Next
  <1>6. CASE \E e \in Fatal : End(e)
    <2>1. \A e \in Fatal : e \notin {"None", "Cancelled"}
      BY DEF Fatal, Gone
    <2> QED
      BY <1>1, <1>3, <1>6, <2>1, EndFails DEF Plan!Next
  <1>7. CASE End("None")
    <2>1. PlanPhase' = "over" /\ error = "None" /\ error' = "None"
      BY <1>1, <1>7, PlanPhasesNext DEF PhaseInv, End
    <2> QED
      BY <1>1, <1>3, <2>1 DEF Plan!Next, Plan!Complete, VerdictOf
  <1> QED
    BY <1>2, <1>4, <1>5, <1>6, <1>7

\* Whatever drivers and files there are and however they fail, the read is the one
\* its threads and screens take it for (emrtd_worker.c:1744-1747).
THEOREM ImplementsReadPlan == Spec => ImplementsPlan
  <1>1. Init => Plan!Init
    <2> SUFFICES ASSUME Init PROVE Plan!Init
      OBVIOUS
    <2>1. PlanPhase = "selecting" /\ VerdictOf(error) = "none"
      BY PlanPhases DEF Init, VerdictOf
    <2> QED
      BY <2>1 DEF Init, Plan!Init
  <1>2. IInv /\ [Next]_vars => [Plan!Next]_(Plan!vars)
    <2> SUFFICES ASSUME IInv, [Next]_vars PROVE [Plan!Next]_(Plan!vars)
      OBVIOUS
    <2>1. CASE Stop
      <3>1. PlanPhase' = PlanPhase
        BY <2>1 DEF Stop, PlanPhase
      <3> QED
        BY <2>1, <3>1 DEF Stop, Plan!Next, Plan!Ask, VerdictOf
    <2>2. CASE UNCHANGED vars
      <3>1. UNCHANGED <<pc, stop, error, authenticated>>
        BY <2>2 DEF vars
      <3>2. PlanPhase' = PlanPhase
        BY <3>1 DEF PlanPhase
      <3> QED
        BY <3>1, <3>2, PlanStutters
    <2> QED
      BY <2>1, <2>2, OpeningIsPlanned, ReadingIsPlanned DEF Next, IInv
  <1> QED
    BY <1>1, <1>2, Invariance, PTL DEF Spec, ImplementsPlan, Plan!Spec
=============================================================================
