------------------------ MODULE AccessControlProofs --------------------------
(***************************************************************************)
(* Proofs about PACE, BAC and the walk through the two, for every document *)
(* and credential and any number of copies of a command.                   *)
(*                                                                         *)
(* AnswersInv says that what the chip has sent of a session is still true  *)
(* of it: a session once open stays as it is, so an answer that is late is *)
(* believed only if it is right.  SessionInv is the reader's side of that. *)
(* As long as the exchange has done nothing wrong (~slipped), RunInv       *)
(* follows both sides from step to step, and FailedInv draws from it what  *)
(* a driver that failed says of the document.                              *)
(***************************************************************************)
EXTENDS AccessControl, SequenceTheorems, TLAPS

ShapeInv ==
    /\ DOMAIN chip = {"open", "ks", "base", "n", "paceSelected", "gen", "ifd", "challenges",
                      "hasChallenge"}
    /\ DOMAIN held = {"challenge", "nonce", "gen", "ic"}
    /\ copies = 0 <=> newest = <<>>

\* The drivers that have run when the turns before t are over, if none opened the
\* document.
PaceRuns == Probe("PACE").score = "Announced"
BacRuns  == Probe("BAC").score = "Possible"
RanBefore(t) ==
    IF PaceRuns /\ t > 1
    THEN IF BacRuns /\ t > 4 THEN <<"PACE", "BAC">> ELSE <<"PACE">>
    ELSE IF BacRuns /\ t > 4 THEN <<"BAC">> ELSE <<>>

WalkInv ==
    /\ pc = "choosing" => tried = IF Pinned THEN <<>> ELSE RanBefore(turn)
    /\ Pinned => turn = 1
    /\ pc = "waiting" /\ Pinned =>
          tried = <<user.method>> /\ step # "select" /\ Probe(user.method).score # "Unsupported"
    /\ pc = "waiting" /\ ~Pinned =>
          /\ tried = RanBefore(turn + 1)
          /\ (turn = 1 /\ PaceRuns) \/ (turn = 4 /\ BacRuns)
    /\ pc = "waiting" /\ step \in PaceSteps => tried = <<"PACE">>
    /\ pc = "waiting" /\ step \in BacSteps => tried \in {<<"BAC">>, <<"PACE", "BAC">>}

\* What an answer that opened a session, or came in one, says of the chip.
Said(a) ==
    /\ Kind(a) = "token" => chip.open /\ chip.base = <<>> /\ Value(a) = Mac(chip.ks, chip.ifd)
    /\ Kind(a) = "external" =>
          /\ chip.open /\ chip.ks = <<{"k_ifd", Value(a).k_ic}, G>>
          /\ chip.base = <<Value(a).rnd_ic, Value(a).rnd_ifd>>
    /\ Kind(a) = "sealed" =>
          chip.open /\ \E n \in 0..chip.n : Value(a) = <<chip.ks, chip.base, n>>
AnswersInv == \A a \in answers : Said(a)

Session(n) == [ks |-> chip.ks, base |-> chip.base, n |-> n]
SessionInv ==
    /\ sm # NoSession =>
          /\ chip.open /\ keys = Session(0)
          /\ \/ pc = "waiting" /\ step = "reselect" /\ published = "none" /\ sm = Session(1)
             \/ /\ pc = "done" /\ published # "none"
                /\ \E n \in 0..chip.n : sm = Session(n) /\ (slipped \/ n = chip.n)
    /\ sm = NoSession => keys = NoSession
    /\ pc = "waiting" /\ step = "reselect" => sm # NoSession
    /\ published # "none" => pc = "done"

\* Where both sides are in a run over an exchange that did nothing wrong.
NonceAnswer == Answer("nonce", [key |-> ChipPassword, value |-> "nonce"])
Proof == [key |-> Mrz("right"), rnd_ic |-> chip.challenges, rnd_ifd |-> "r_ifd", k_ic |-> "k_ic"]
Same == held.gen = chip.gen <=> Fits("PACE")
Agreed == chip.ks = Shared("a_ic", AgreeIfd) /\ chip.ifd = AgreeIfd

AtSetAt ==
    /\ ~chip.open
    /\ \/ newest = <<>>
       \/ Offers("PACE") /\ newest = <<Ok>> /\ chip.paceSelected
       \/ ~Offers("PACE") /\ newest = <<Refusal("6985")>>
InPace == Offers("PACE") /\ chip.paceSelected
AtNonce == InPace /\ ~chip.open /\ newest \in {<<>>, <<NonceAnswer>>}
AtMap ==
    /\ InPace /\ ~chip.open /\ (held.nonce = "nonce" <=> Fits("PACE"))
    /\ \/ newest = <<>>
       \/ /\ newest = <<Answer("map", Point("m_ic", G))>>
          /\ chip.gen = Mapped("nonce", Shared("m_ic", MapIfd))
AtAgree ==
    /\ InPace /\ ~chip.open /\ Same
    /\ \/ newest = <<>>
       \/ newest = <<Answer("agree", Point("a_ic", chip.gen))>> /\ Agreed
AtToken ==
    /\ InPace /\ Same /\ Agreed /\ held.ic = Point("a_ic", chip.gen)
    /\ \/ newest = <<>> /\ ~chip.open
       \/ /\ Fits("PACE") \/ doc.lenient
          /\ newest = <<Answer("token", Mac(chip.ks, chip.ifd))>> /\ chip.open /\ chip.n = 0
       \/ ~Fits("PACE") /\ ~doc.lenient /\ newest = <<Refusal("6300")>> /\ ~chip.open
AtReselect ==
    \/ newest = <<>> /\ chip.n = 0
    \/ newest = <<Answer("sealed", <<chip.ks, chip.base, 2>>)>> /\ chip.n = 2
AtChallenge ==
    \/ newest = <<>>
    \/ /\ ~chip.open /\ Offers("BAC") /\ chip.hasChallenge
       /\ newest = <<Answer("challenge", chip.challenges)>>
    \/ ~chip.open /\ ~Offers("BAC") /\ newest = <<Refusal("6985")>>
    \/ chip.open /\ newest = <<Refusal("6987")>>
AtExternal ==
    /\ Offers("BAC") /\ held.challenge = chip.challenges
    /\ \/ newest = <<>> /\ ~chip.open /\ chip.hasChallenge
       \/ /\ Fits("BAC") \/ doc.lenient
          /\ newest = <<Answer("external", Proof)>> /\ chip.open /\ chip.n = 0
       \/ ~Fits("BAC") /\ ~doc.lenient /\ newest = <<Refusal("6300")>> /\ ~chip.open

RunInv ==
    pc = "waiting" =>
        /\ copies <= 1
        /\ step = "set AT" => AtSetAt
        /\ step = "nonce" => AtNonce
        /\ step = "map" => AtMap
        /\ step = "agree" => AtAgree
        /\ step = "token" => AtToken
        /\ step = "reselect" => AtReselect
        /\ step = "challenge" => AtChallenge
        /\ step = "external" => AtExternal

\* What those drivers say that have failed.
Failed(d) ==
    IF d = "PACE"
    THEN /\ tried \in {<<"PACE">>, <<"PACE", "BAC">>}
         /\ pc = "choosing" \/ (pc = "waiting" /\ step \notin PaceSteps)
    ELSE /\ tried \in {<<"BAC">>, <<"PACE", "BAC">>}
         /\ pc = "choosing" \/ (pc = "waiting" /\ step = "select")
Hopeless(d) == ~(Offers(d) /\ Fits(d))
\* The drivers before BAC have not opened the chip behind the reader's back.
StillClosed ==
    /\ pc = "choosing" \/ (pc = "waiting" /\ step = "select") \/ (pc = "waiting" /\ step = "challenge")
    /\ \/ tried = <<>> \/ (tried = <<"PACE">> /\ ~doc.lenient)
       \/ (step = "challenge" /\ pc = "waiting" /\ (tried = <<"BAC">> \/ ~doc.lenient))
BestInv ==
    best \in KeyVerdicts =>
        tried # <<>> /\ \A d \in {"PACE", "BAC"} : tried[1] = d => ~Fits(d)
HopelessInv == ~doc.lenient => \A d \in {"PACE", "BAC"} : Failed(d) => Hopeless(d)
ClosedInv == StillClosed => ~chip.open
FailedInv == BestInv /\ HopelessInv /\ ClosedInv

IInv ==
    /\ TypeOK /\ ShapeInv /\ WalkInv /\ AnswersInv /\ SessionInv
    /\ BlamesTheWrongKey /\ RightKeyOpens
    /\ ~slipped => RunInv /\ FailedInv

(***************************************************************************)
(* What does not change, and what the drivers say before they run.         *)
(***************************************************************************)
LEMMA SetupKept ==
    ASSUME UNCHANGED setup
    PROVE  /\ Pinned' <=> Pinned
           /\ PaceRuns' <=> PaceRuns
           /\ BacRuns' <=> BacRuns
           /\ ChipPassword' = ChipPassword
           /\ \A d : (Fits(d)' <=> Fits(d)) /\ (Offers(d)' <=> Offers(d)) /\ Probe(d)' = Probe(d)
           /\ \A t : RanBefore(t)' = RanBefore(t)
  <1>1. user' = user /\ doc' = doc
    BY DEF setup
  <1>2. ProbePace' = ProbePace /\ ProbeBac' = ProbeBac
    BY <1>1 DEF ProbePace, ProbeBac
  <1>3. \A d : Probe(d)' = Probe(d)
    BY <1>2 DEF Probe
  <1>4. (PaceRuns' <=> PaceRuns) /\ (BacRuns' <=> BacRuns)
    BY <1>3 DEF PaceRuns, BacRuns
  <1>5. PacePassword' = PacePassword /\ ChipPassword' = ChipPassword
    BY <1>1 DEF PacePassword, ChipPassword, Can, Mrz
  <1> QED
    BY <1>1, <1>3, <1>4, <1>5 DEF Pinned, Fits, Offers, RanBefore

LEMMA Probes ==
    /\ Probe("PACE").score \in {"Unsupported", "Announced"}
    /\ Probe("BAC").score \in {"Unsupported", "Possible"}
    /\ \A d : Probe(d).reason \in (Errors \ KeyVerdicts) \cup {"none"}
    /\ \A d : Probe(d).score = "Unsupported" => Probe(d).reason # "none"
  BY DEF Probe, ProbePace, ProbeBac, Errors, KeyVerdicts, LinkErrors, LinkGone

LEMMA TurnsAre ==
    /\ Len(Turns) = 4
    /\ Turns[1] = <<"Announced", "PACE">> /\ Turns[2] = <<"Announced", "BAC">>
    /\ Turns[3] = <<"Possible", "PACE">> /\ Turns[4] = <<"Possible", "BAC">>
  BY DEF Turns

LEMMA Appends ==
    /\ Append(<<>>, "PACE") = <<"PACE">> /\ Append(<<>>, "BAC") = <<"BAC">>
    /\ Append(<<"PACE">>, "BAC") = <<"PACE", "BAC">>
  <1> DEFINE D == {"PACE", "BAC"}
             s == Append(<<"PACE">>, "BAC")
  <1>1. <<"PACE">> \in Seq(D)
    OBVIOUS
  <1>2. <<"PACE", "BAC">> \in Seq(D)
    OBVIOUS
  <1>3. "BAC" \in D
    OBVIOUS
  <1>4. Len(<<"PACE">>) = 1 /\ Len(<<"PACE", "BAC">>) = 2
    OBVIOUS
  <1> HIDE DEF D
  <1>5. s \in Seq(D) /\ Len(s) = 2 /\ s[1] = "PACE" /\ s[2] = "BAC"
    BY <1>1, <1>3, <1>4, AppendProperties
  <1>6. \A i \in 1..2 : s[i] = <<"PACE", "BAC">>[i]
    BY <1>5
  <1> HIDE DEF s
  <1>7. s = <<"PACE", "BAC">>
    BY <1>2, <1>4, <1>5, <1>6, SeqEqual
  <1>8. Append(<<>>, "PACE") = <<"PACE">> /\ Append(<<>>, "BAC") = <<"BAC">>
    OBVIOUS
  <1> QED
    BY <1>7, <1>8 DEF s

\* The driver whose turn it is, and the drivers that have run with it.
LEMMA Suitable ==
    ASSUME TypeOK, WalkInv, TryNext
    PROVE  \/ turn = 1 /\ PaceRuns /\ Driver = "PACE" /\ tried = <<>> /\ RanBefore(2) = <<"PACE">>
           \/ /\ turn = 4 /\ BacRuns /\ Driver = "BAC" /\ tried \in {<<>>, <<"PACE">>}
              /\ RanBefore(5) = Append(tried, "BAC")
  <1>1. turn \in 1..4 /\ Suits /\ ~Pinned /\ tried = RanBefore(turn)
    BY TurnsAre DEF TryNext, Asked, WalkInv, TypeOK
  <1>2. CASE turn = 1
    BY <1>1, <1>2, TurnsAre DEF Suits, Driver, PaceRuns, RanBefore
  <1>3. CASE turn = 4
    <2>1. BacRuns /\ Driver = "BAC"
      BY <1>1, <1>3, TurnsAre DEF Suits, Driver, BacRuns
    <2>2. CASE PaceRuns
      <3>1. tried = <<"PACE">> /\ RanBefore(5) = <<"PACE", "BAC">>
        BY <1>1, <1>3, <2>1, <2>2 DEF RanBefore
      <3> QED
        BY <1>3, <2>1, <3>1, Appends
    <2>3. CASE ~PaceRuns
      <3>1. tried = <<>> /\ RanBefore(5) = <<"BAC">>
        BY <1>1, <1>3, <2>1, <2>3 DEF RanBefore
      <3> QED
        BY <1>3, <2>1, <3>1, Appends
    <2> QED
      BY <2>2, <2>3
  <1>4. turn # 2 /\ turn # 3
    BY <1>1, TurnsAre, Probes DEF Suits, Driver
  <1> QED
    BY <1>1, <1>2, <1>3, <1>4

(***************************************************************************)
(* What a step of the reader does, whatever the answer was.                *)
(***************************************************************************)
\* A driver that failed: the walk ends with this, or goes on to a selection.
LEMMA Failure ==
    ASSUME NEW e, DriverFails(e)
    PROVE  /\ UNCHANGED <<setup, turn, tried, stop, published, chip, answers>>
           /\ sm' = NoSession /\ keys' = NoSession /\ held' = Nothing
           /\ \/ /\ Pinned /\ pc' = "done" /\ result' = e
                 /\ UNCHANGED <<best, step, copies, newest>>
              \/ /\ ~Pinned /\ best' = Diagnosis(e) /\ e \in LinkGone /\ pc' = "done"
                 /\ result' = best' /\ UNCHANGED <<step, copies, newest>>
              \/ /\ ~Pinned /\ best' = Diagnosis(e) /\ e \notin LinkGone /\ pc' = "waiting"
                 /\ step' = "select" /\ copies' = 0 /\ newest' = <<>> /\ UNCHANGED result
  BY DEF DriverFails, Carry, Done, Send

Follows(s, t) ==
    <<s, t>> \in {<<"set AT", "nonce">>, <<"nonce", "map">>, <<"map", "agree">>,
                  <<"agree", "token">>, <<"challenge", "external">>}
Failing == /\ waiting /\ step # "select" /\ (~slipped' => ~slipped) /\ slipped' \in BOOLEAN
           /\ \E e \in Errors : DriverFails(e)
Learning ==
    /\ waiting /\ (~slipped' => ~slipped) /\ slipped' \in BOOLEAN
    /\ pc' = "waiting" /\ Follows(step, step') /\ copies' = 0 /\ newest' = <<>>
    /\ UNCHANGED <<setup, progress, sessions, stop, chip, answers>>
    /\ DOMAIN held' = DOMAIN held
GivingUp ==
    /\ waiting /\ step = "select" /\ slipped' = TRUE /\ Done(best)
    /\ UNCHANGED <<setup, turn, best, tried, held, sessions, stop>>

LEMMA Slips ==
    ASSUME TypeOK, NEW a, Arrives(a)
    PROVE  /\ waiting /\ slipped' \in BOOLEAN /\ (~slipped' => ~slipped)
           /\ ~slipped' => newest = <<a>>
  <1>1. slipped \in BOOLEAN
    BY DEF TypeOK
  <1>2. CASE newest = <<a>> /\ UNCHANGED slipped
    BY <1>1, <1>2 DEF Arrives
  <1>3. CASE slipped' = TRUE
    BY <1>3 DEF Arrives
  <1> QED
    BY <1>2, <1>3 DEF Arrives

LEMMA Learned ==
    ASSUME TypeOK,
           PaceSelected \/ PaceNonce \/ PaceMapped \/ PaceAgreed \/ BacChallenged
    PROVE  Learning
  <1>1. ASSUME NEW a \in answers, NEW s, NEW t, Learns(a, s, t), Follows(s, t),
               held' = held \/ \E v, f : held' = [held EXCEPT ![f] = v]
        PROVE  Learning
    <2>1. DOMAIN held' = DOMAIN held
      BY <1>1
    <2>2. /\ Arrives(a) /\ step = s /\ pc' = "waiting" /\ step' = t /\ copies' = 0
          /\ newest' = <<>> /\ UNCHANGED <<setup, progress, sessions, stop, chip, answers>>
      BY <1>1 DEF Learns, Send
    <2> QED
      BY <1>1, <2>1, <2>2, Slips DEF Learning
  <1>2. CASE PaceSelected
    BY <1>1, <1>2 DEF PaceSelected, Follows
  <1>3. CASE PaceNonce
    BY <1>1, <1>3 DEF PaceNonce, Follows
  <1>4. CASE PaceMapped
    BY <1>1, <1>4 DEF PaceMapped, Follows
  <1>5. CASE PaceAgreed
    BY <1>1, <1>5 DEF PaceAgreed, Follows
  <1>6. CASE BacChallenged
    BY <1>1, <1>6 DEF BacChallenged, Follows
  <1> QED
    BY <1>2, <1>3, <1>4, <1>5, <1>6

LEMMA ReaderMoves ==
    ASSUME TypeOK, ReaderNext
    PROVE  \/ Failing \/ Learning \/ GivingUp
           \/ PaceOpened \/ Reselected \/ BacOpened \/ Selected
  <1>1. CASE AnswerRefused
    <2>1. PICK a \in answers : Refused(a)
      BY <1>1 DEF AnswerRefused
    <2>2. Arrives(a) /\ DriverFails(Status(a)) /\ Status(a) \in Errors /\ step # "select"
      BY <1>1, <2>1 DEF AnswerRefused, Refused, InDriver, Status, Errors, KeyVerdicts
    <2> QED
      BY <2>2, Slips DEF Failing
  <1>2. CASE AnswerOfAnotherStep
    <2>1. PICK a \in answers : Arrives(a) /\
              DriverFails(IF step \in {"challenge", "external"} THEN "Protocol" ELSE "Parse")
      BY <1>2 DEF AnswerOfAnotherStep
    <2>2. step # "select" /\ "Protocol" \in Errors /\ "Parse" \in Errors
      BY <1>2 DEF AnswerOfAnotherStep, Bringing, Errors, LinkErrors
    <2> QED
      BY <2>1, <2>2, Slips DEF Failing
  <1>3. CASE ExchangeFails
    <2>1. \A e \in LinkErrors : e \in Errors
      BY DEF Errors
    <2>2. waiting /\ slipped' = TRUE
      BY <1>3 DEF ExchangeFails
    <2>3. PICK e \in LinkErrors :
            \/ step # "select" /\ DriverFails(e)
            \/ /\ step = "select" /\ Done(best)
               /\ UNCHANGED <<setup, turn, best, tried, held, sessions, stop>>
      BY <1>3 DEF ExchangeFails
    <2>4. CASE step # "select" /\ DriverFails(e)
      BY <2>1, <2>2, <2>4 DEF Failing
    <2>5. CASE step = "select" /\ Done(best)
               /\ UNCHANGED <<setup, turn, best, tried, held, sessions, stop>>
      BY <2>2, <2>5 DEF GivingUp
    <2> QED
      BY <2>3, <2>4, <2>5
  <1>4. CASE PaceTokenDiffers \/ BacEchoDiffers \/ ReselectFails
    <2>1. PICK e \in {"PaceFailed", "WrongKey", "SecureMessaging"} : DriverFails(e)
      BY <1>4 DEF PaceTokenDiffers, BacEchoDiffers, ReselectFails
    <2>2. PICK a \in answers : Arrives(a)
      BY <1>4 DEF PaceTokenDiffers, BacEchoDiffers, ReselectFails
    <2>3. step # "select" /\ e \in Errors
      BY <1>4, <2>1
         DEF PaceTokenDiffers, BacEchoDiffers, ReselectFails, Errors, KeyVerdicts
    <2> QED
      BY <2>1, <2>2, <2>3, Slips DEF Failing
  <1>5. CASE PaceSelected \/ PaceNonce \/ PaceMapped \/ PaceAgreed \/ BacChallenged
    BY <1>5, Learned
  <1> QED
    BY <1>1, <1>2, <1>3, <1>4, <1>5 DEF ReaderNext

(***************************************************************************)
(* Types, and where the walk is.                                           *)
(***************************************************************************)
\* The chip takes the command, once more or for the first time.
LEMMA Received ==
    ASSUME TypeOK, ShapeInv, ChipNext
    PROVE  /\ UNCHANGED <<setup, reader, stop>> /\ waiting
           /\ copies' \in 0..Copies /\ copies' # 0 /\ newest' # <<>>
           /\ slipped' \in BOOLEAN /\ (~slipped' => ~slipped /\ newest = <<>> /\ copies' = 1)
  <1>1. ChipReceives /\ \E a : Answers(a)
    BY DEF ChipNext, ChipSelects, ChipChallenges, ChipAuthenticates, ChipSetsAt, ChipSendsNonce,
           ChipMaps, ChipAgrees, ChipChecksToken, ChipRefuses, ChipInSession, ChipReselects,
           General, Plain
  <1>2. newest' # <<>>
    BY <1>1 DEF Answers
  <1>3. /\ UNCHANGED <<setup, reader, stop>> /\ waiting /\ copies < Copies /\ copies' = copies + 1
        /\ slipped' = (slipped \/ copies > 0)
    BY <1>1 DEF ChipReceives
  <1>4. slipped \in BOOLEAN /\ copies \in 0..Copies /\ Copies \in Nat
    BY CopiesAssumption DEF TypeOK, CopiesAssumption
  <1>5. slipped' \in BOOLEAN
    BY <1>3
  <1>6. ~slipped' => ~slipped /\ ~(copies > 0)
    BY <1>3
  <1>7. ~(copies > 0) => copies = 0 /\ copies' = 1
    BY <1>3, <1>4
  <1>8. copies' \in 0..Copies /\ copies' # 0
    BY <1>3, <1>4
  <1> QED
    BY <1>2, <1>3, <1>5, <1>6, <1>7, <1>8 DEF ShapeInv

ChipType ==
    /\ DOMAIN chip = {"open", "ks", "base", "n", "paceSelected", "gen", "ifd", "challenges",
                      "hasChallenge"}
    /\ chip.n \in Nat /\ chip.challenges \in Nat
    /\ chip.open \in BOOLEAN /\ chip.paceSelected \in BOOLEAN /\ chip.hasChallenge \in BOOLEAN

LEMMA ChipTypeStep ==
    ASSUME ChipType, ChipNext
    PROVE  ChipType'
  <1>1. CASE UNCHANGED chip
    BY <1>1 DEF ChipType
  <1>2. CASE ChipChallenges
    BY <1>2 DEF ChipChallenges, ChipType
  <1>3. CASE ChipAuthenticates
    <2>1. \/ UNCHANGED chip
          \/ chip' = [chip EXCEPT !.open = TRUE, !.ks = <<{"k_ifd", "k_ic"}, G>>, !.n = 0,
                                  !.base = <<chip.challenges, "r_ifd">>, !.hasChallenge = FALSE]
      BY <1>3, Zenon DEF ChipAuthenticates
    <2>2. CASE chip' = [chip EXCEPT !.open = TRUE, !.ks = <<{"k_ifd", "k_ic"}, G>>, !.n = 0,
                                    !.base = <<chip.challenges, "r_ifd">>, !.hasChallenge = FALSE]
      BY <2>2 DEF ChipType
    <2> QED
      BY <1>1, <2>1, <2>2
  <1>4. CASE ChipSetsAt
    BY <1>4 DEF ChipSetsAt, ChipType
  <1>5. CASE ChipMaps
    BY <1>5 DEF ChipMaps, ChipType
  <1>6. CASE ChipAgrees
    BY <1>6 DEF ChipAgrees, ChipType
  <1>7. CASE ChipChecksToken
    <2>1. UNCHANGED chip \/ chip' = [chip EXCEPT !.open = TRUE, !.base = <<>>, !.n = 0]
      BY <1>7, Zenon DEF ChipChecksToken
    <2>2. CASE chip' = [chip EXCEPT !.open = TRUE, !.base = <<>>, !.n = 0]
      BY <2>2 DEF ChipType
    <2> QED
      BY <1>1, <2>1, <2>2
  <1>8. CASE ChipReselects
    <2>1. chip' = [chip EXCEPT !.n = chip.n + 2] \/ chip' = [chip EXCEPT !.n = chip.n + 1]
      BY <1>8 DEF ChipReselects
    <2> QED
      BY <2>1 DEF ChipType
  <1> QED
    BY <1>1, <1>2, <1>3, <1>4, <1>5, <1>6, <1>7, <1>8
       DEF ChipNext, ChipSelects, ChipSendsNonce, ChipRefuses, ChipInSession

WalkType ==
    /\ pc \in {"choosing", "waiting", "done"} /\ turn \in 1..5
    /\ step \in PaceSteps \cup BacSteps \cup {"select"}
    /\ tried \in {<<>>, <<"PACE">>, <<"BAC">>, <<"PACE", "BAC">>}
    /\ best \in Errors /\ result \in Errors \cup {"none", "Cancelled"}
    /\ published \in {"none", "PACE", "BAC"} /\ stop \in BOOLEAN /\ slipped \in BOOLEAN

\* A driver is started; nothing has gone wrong with it yet.
LEMMA Starts ==
    ASSUME NEW d, Try(d)
    PROVE  /\ pc' = "waiting" /\ step' = (IF d = "PACE" THEN "set AT" ELSE "challenge")
           /\ tried' = Append(tried, d) /\ held' = Nothing /\ copies' = 0 /\ newest' = <<>>
           /\ UNCHANGED <<setup, turn, best, result, sessions, stop, slipped, chip, answers>>
  BY DEF Try, Send

LEMMA Ends ==
    ASSUME NEW r, Refuse(r)
    PROVE  /\ pc' = "done" /\ result' = r
           /\ UNCHANGED <<setup, turn, best, tried, held, sessions, stop, slipped, step, wire>>
  BY DEF Refuse, Done, wire

LEMMA MoreTypes ==
    ASSUME TypeOK, WalkInv, Walk \/ ReaderNext
    PROVE  /\ UNCHANGED <<setup, chip, answers>> /\ WalkType'
           /\ DOMAIN held' = {"challenge", "nonce", "gen", "ic"} \/ DOMAIN held' = DOMAIN held
           /\ (copies' = 0 /\ newest' = <<>>) \/ UNCHANGED <<copies, newest>>
           /\ ~slipped' => ~slipped
  <1> DEFINE Goal ==
        /\ UNCHANGED <<setup, chip, answers>> /\ WalkType'
        /\ DOMAIN held' = {"challenge", "nonce", "gen", "ic"} \/ DOMAIN held' = DOMAIN held
        /\ (copies' = 0 /\ newest' = <<>>) \/ UNCHANGED <<copies, newest>>
        /\ ~slipped' => ~slipped
  <1>1. WalkType
    BY TurnsAre DEF TypeOK, WalkType
  <1>2. DOMAIN Nothing = {"challenge", "nonce", "gen", "ic"}
    BY DEF Nothing
  <1>3. "set AT" \in PaceSteps /\ "challenge" \in BacSteps /\ "reselect" \in PaceSteps
    BY DEF PaceSteps, BacSteps
  <1>4. ASSUME NEW d \in {"PACE", "BAC"}, Try(d),
               Append(tried, d) \in {<<>>, <<"PACE">>, <<"BAC">>, <<"PACE", "BAC">>}
        PROVE  Goal
    BY <1>1, <1>2, <1>3, <1>4, Starts DEF WalkType, sessions
  <1>5. ASSUME NEW r \in Errors \cup {"Cancelled"}, Refuse(r) PROVE Goal
    BY <1>1, <1>5, Ends DEF WalkType, sessions, wire
  <1>6. CASE TryPinned
    <2>1. pc = "choosing" /\ Pinned /\ tried = <<>> /\ user.method \in {"PACE", "BAC"}
      BY <1>6 DEF TryPinned, WalkInv, Pinned, TypeOK
    <2>2. \/ Try(user.method)
          \/ Probe(user.method).score = "Unsupported" /\ Refuse(Probe(user.method).reason)
      BY <1>6 DEF TryPinned
    <2> QED
      BY <1>4, <1>5, <2>1, <2>2, Appends, Probes
  <1>7. CASE TryNext
    <2>1. Driver \in {"PACE", "BAC"} /\ Try(Driver)
          /\ Append(tried, Driver) \in {<<>>, <<"PACE">>, <<"BAC">>, <<"PACE", "BAC">>}
      BY <1>7, Suitable, Appends DEF TryNext
    <2> QED
      BY <1>4, <2>1
  <1>8. CASE Skip
    <2>1. Probe(Driver).reason # "none" => Probe(Driver).reason \in Errors
      BY Probes
    <2>2. turn' \in 1..5 /\ best' \in Errors
      BY <1>1, <1>8, <2>1, TurnsAre DEF Skip, Asked, WalkType
    <2> QED
      BY <1>1, <1>8, <2>2 DEF Skip, sessions, wire, WalkType
  <1>9. CASE Exhausted
    BY <1>1, <1>5, <1>9 DEF Exhausted, WalkType
  <1>10. CASE Cancel
    BY <1>5, <1>10 DEF Cancel
  <1>11. CASE Stop
    BY <1>1, <1>11 DEF Stop, reader, progress, sessions, wire, WalkType
  <1>12. CASE Failing
    <2>1. PICK e \in Errors : DriverFails(e)
      BY <1>12 DEF Failing
    <2>2. Diagnosis(e) \in Errors
      BY <1>1 DEF Diagnosis, WalkType
    <2>3. slipped' \in BOOLEAN /\ (~slipped' => ~slipped)
      BY <1>12 DEF Failing
    <2> QED
      BY <1>1, <1>2, <2>1, <2>2, <2>3, Failure DEF WalkType
  <1>13. CASE Learning
    <2>1. step' \in PaceSteps \cup BacSteps
      BY <1>13 DEF Learning, Follows, PaceSteps, BacSteps
    <2> QED
      BY <1>1, <1>13, <2>1 DEF Learning, progress, sessions, WalkType
  <1>14. CASE GivingUp
    BY <1>1, <1>14 DEF GivingUp, Done, sessions, WalkType
  <1>15. CASE PaceOpened
    <2>1. slipped' \in BOOLEAN /\ (~slipped' => ~slipped)
      BY <1>15, Slips DEF PaceOpened
    <2> QED
      BY <1>1, <1>2, <1>3, <1>15, <2>1 DEF PaceOpened, Send, progress, WalkType
  <1>16. CASE Reselected \/ BacOpened
    <2>1. slipped' \in BOOLEAN /\ (~slipped' => ~slipped)
      BY <1>16, Slips DEF Reselected, BacOpened
    <2>2. \E d \in {"PACE", "BAC"} : Publish(d)
      BY <1>16 DEF Reselected, BacOpened
    <2> QED
      BY <1>1, <1>2, <2>1, <2>2 DEF Publish, Done, WalkType
  <1>17. CASE Selected
    <2>1. slipped' \in BOOLEAN /\ (~slipped' => ~slipped) /\ step = "select" /\ waiting
      BY <1>17, Slips DEF Selected
    <2>2. turn \in 1..4
      BY <1>1, <2>1 DEF WalkInv, waiting, WalkType
    <2> QED
      BY <1>1, <1>17, <2>1, <2>2 DEF Selected, sessions, WalkType
  <1> QED
    BY <1>6, <1>7, <1>8, <1>9, <1>10, <1>11, <1>12, <1>13, <1>14, <1>15, <1>16, <1>17, ReaderMoves
       DEF Walk

LEMMA TypeStep ==
    ASSUME TypeOK, ShapeInv, WalkInv, Next
    PROVE  TypeOK' /\ ShapeInv' /\ UNCHANGED setup /\ (~slipped' => ~slipped)
  <1>1. ChipType /\ WalkType /\ copies \in 0..Copies /\ Copies \in Nat
    BY TurnsAre, CopiesAssumption DEF TypeOK, ShapeInv, ChipType, WalkType, CopiesAssumption
  <1>2. ASSUME UNCHANGED setup, ChipType', WalkType', copies' \in 0..Copies PROVE TypeOK'
    BY <1>2, TurnsAre DEF setup, TypeOK, ChipType, WalkType
  <1>3. CASE Walk \/ ReaderNext
    BY <1>1, <1>2, <1>3, MoreTypes DEF ChipType, ShapeInv
  <1>4. CASE ChipNext
    BY <1>1, <1>2, <1>4, Received, ChipTypeStep
       DEF reader, progress, sessions, ChipType, WalkType, ShapeInv
  <1> QED
    BY <1>3, <1>4 DEF Next

LEMMA WalkStep ==
    ASSUME TypeOK, ShapeInv, WalkInv, Next
    PROVE  WalkInv'
  <1>1. UNCHANGED setup
    BY TypeStep
  <1>2. user' = user /\ (Pinned' <=> Pinned) /\ (PaceRuns' <=> PaceRuns) /\ (BacRuns' <=> BacRuns)
    BY <1>1, SetupKept DEF setup
  <1>3. Probe("PACE")' = Probe("PACE") /\ Probe("BAC")' = Probe("BAC")
    BY <1>1, SetupKept
  <1>4. Probe(user.method)' = Probe(user.method)
    <2>1. ProbePace' = ProbePace /\ ProbeBac' = ProbeBac
      BY <1>3 DEF Probe
    <2> QED
      BY <1>2, <2>1 DEF Probe
  <1>5. turn \in 1..5
    BY TurnsAre DEF TypeOK
  <1>6. PaceSteps \cap BacSteps = {} /\ "select" \notin PaceSteps \cup BacSteps
        /\ "set AT" \in PaceSteps /\ "challenge" \in BacSteps
        /\ "token" \in PaceSteps /\ "reselect" \in PaceSteps
    BY DEF PaceSteps, BacSteps
  <1>7. CASE ChipNext \/ Stop
    <2>1. UNCHANGED reader
      BY <1>7, Received DEF Stop
    <2> QED
      BY <1>2, <1>3, <1>4, <2>1 DEF WalkInv, RanBefore, reader, progress
  <1>8. CASE TryPinned
    <2>1. pc = "choosing" /\ Pinned /\ tried = <<>> /\ turn = 1 /\ user.method \in {"PACE", "BAC"}
      BY <1>8 DEF TryPinned, WalkInv, Pinned, TypeOK
    <2>2. CASE Probe(user.method).score # "Unsupported" /\ Try(user.method)
      <3>1. /\ pc' = "waiting" /\ tried' = Append(tried, user.method) /\ turn' = turn
            /\ step' = IF user.method = "PACE" THEN "set AT" ELSE "challenge"
        BY <2>2, Starts
      <3>2. tried' = <<user.method>>
        BY <2>1, <3>1, Appends
      <3> QED
        BY <1>2, <1>4, <1>6, <2>1, <2>2, <3>1, <3>2 DEF WalkInv
    <2>3. CASE Refuse(Probe(user.method).reason)
      BY <1>2, <2>1, <2>3, Ends DEF WalkInv
    <2> QED
      BY <1>8, <2>2, <2>3 DEF TryPinned
  <1>9. CASE TryNext
    <2>1. Try(Driver) /\ ~Pinned
      BY <1>9 DEF TryNext, Asked
    <2>2. /\ pc' = "waiting" /\ tried' = Append(tried, Driver) /\ turn' = turn
          /\ step' = IF Driver = "PACE" THEN "set AT" ELSE "challenge"
      BY <2>1, Starts
    <2>3. CASE turn = 1 /\ PaceRuns /\ Driver = "PACE" /\ tried = <<>> /\ RanBefore(2) = <<"PACE">>
      <3>1. tried' = <<"PACE">> /\ step' = "set AT"
        BY <2>2, <2>3, Appends
      <3>2. turn' = 1 /\ ~Pinned' /\ PaceRuns'
        BY <1>2, <2>1, <2>2, <2>3
      <3>3. RanBefore(turn + 1)' = <<"PACE">>
        BY <3>2 DEF RanBefore
      <3>4. step' \notin BacSteps
        BY <1>6, <3>1
      <3> QED
        BY <2>2, <3>1, <3>2, <3>3, <3>4 DEF WalkInv
    <2>4. CASE /\ turn = 4 /\ BacRuns /\ Driver = "BAC" /\ tried \in {<<>>, <<"PACE">>}
               /\ RanBefore(5) = Append(tried, "BAC")
      <3>1. tried' \in {<<"BAC">>, <<"PACE", "BAC">>} /\ step' = "challenge"
            /\ tried' = RanBefore(5)
        BY <2>2, <2>4, Appends
      <3>2. turn' = 4 /\ ~Pinned' /\ BacRuns'
        BY <1>2, <2>1, <2>2, <2>4
      <3>3. RanBefore(turn + 1)' = RanBefore(5)
        BY <1>2, <3>2 DEF RanBefore
      <3>4. step' \notin PaceSteps
        BY <1>6, <3>1
      <3> QED
        BY <2>2, <3>1, <3>2, <3>3, <3>4 DEF WalkInv
    <2> QED
      BY <1>9, <2>3, <2>4, Suitable
  <1>10. CASE Skip
    <2>1. /\ turn \in 1..4 /\ ~Suits /\ ~Pinned /\ pc = "choosing" /\ tried = RanBefore(turn)
          /\ turn' = turn + 1 /\ UNCHANGED <<pc, tried, step>>
      BY <1>5, <1>10, TurnsAre DEF Skip, Asked, WalkInv
    <2>2. turn = 1 => ~PaceRuns
      BY <2>1, TurnsAre DEF Suits, Driver, PaceRuns
    <2>3. turn = 4 => ~BacRuns
      BY <2>1, TurnsAre DEF Suits, Driver, BacRuns
    <2>4. RanBefore(turn + 1) = RanBefore(turn)
      BY <2>1, <2>2, <2>3 DEF RanBefore
    <2> QED
      BY <1>2, <2>1, <2>4 DEF WalkInv, RanBefore
  <1>11. CASE Exhausted \/ Cancel
    <2>1. \E r : Refuse(r)
      BY <1>11 DEF Exhausted, Cancel
    <2> QED
      BY <1>2, <2>1, Ends DEF WalkInv
  <1>12. CASE Failing
    <2>1. PICK e \in Errors : DriverFails(e)
      BY <1>12 DEF Failing
    <2> QED
      BY <1>2, <1>6, <1>12, <2>1, Failure DEF WalkInv, RanBefore, Failing, waiting
  <1>13. CASE Learning
    <2>1. (step \in PaceSteps /\ step' \in PaceSteps) \/ (step \in BacSteps /\ step' \in BacSteps)
      BY <1>13 DEF Learning, Follows, PaceSteps, BacSteps
    <2> QED
      BY <1>2, <1>4, <1>6, <1>13, <2>1 DEF WalkInv, RanBefore, Learning, waiting, progress
  <1>14. CASE GivingUp \/ Reselected \/ BacOpened
    <2>1. pc' = "done" /\ turn' = turn
      BY <1>14 DEF GivingUp, Reselected, BacOpened, Publish, Done
    <2> QED
      BY <1>2, <2>1 DEF WalkInv
  <1>15. CASE PaceOpened
    <2>1. pc = "waiting" /\ step = "token" /\ pc' = "waiting" /\ step' = "reselect"
          /\ UNCHANGED <<turn, tried>>
      BY <1>15 DEF PaceOpened, Arrives, waiting, Send, progress
    <2> QED
      BY <1>2, <1>4, <1>6, <2>1 DEF WalkInv, RanBefore
  <1>16. CASE Selected
    <2>1. pc = "waiting" /\ step = "select" /\ pc' = "choosing" /\ turn' = turn + 1
          /\ UNCHANGED <<tried, step>>
      BY <1>16 DEF Selected, waiting
    <2> QED
      BY <1>2, <2>1 DEF WalkInv, RanBefore
  <1> QED
    BY <1>7, <1>8, <1>9, <1>10, <1>11, <1>12, <1>13, <1>14, <1>15, <1>16, ReaderMoves
       DEF Next, Walk

(***************************************************************************)
(* What the chip has sent stays true of it.                                *)
(***************************************************************************)
LEMMA AnswersStep ==
    ASSUME TypeOK, ShapeInv, AnswersInv, Next
    PROVE  AnswersInv'
  <1>1. CASE Walk \/ ReaderNext
    <2>1. UNCHANGED <<chip, answers>>
      <3>1. CASE TryPinned \/ TryNext
        <4>1. (\E d : Try(d)) \/ (\E r : Refuse(r))
          BY <3>1 DEF TryPinned, TryNext
        <4> QED
          BY <4>1, Starts, Ends DEF wire
      <3>2. CASE Exhausted \/ Cancel
        <4>1. \E r : Refuse(r)
          BY <3>2 DEF Exhausted, Cancel
        <4> QED
          BY <4>1, Ends DEF wire
      <3>3. CASE Skip \/ Stop
        BY <3>3 DEF Skip, Stop, wire
      <3>4. CASE Failing
        BY <3>4, Failure DEF Failing
      <3>5. CASE Learning \/ GivingUp
        BY <3>5 DEF Learning, GivingUp, Done
      <3>6. CASE PaceOpened \/ Reselected \/ BacOpened \/ Selected
        BY <3>6 DEF PaceOpened, Reselected, BacOpened, Selected, Publish, Done, Send
      <3> QED
        BY <1>1, <3>1, <3>2, <3>3, <3>4, <3>5, <3>6, ReaderMoves DEF Walk
    <2> QED
      BY <2>1 DEF AnswersInv, Said
  <1> DEFINE Quiet(a) == Kind(a) \notin {"token", "external", "sealed"}
  <1>2. \A a : Quiet(a) => Said(a)'
    BY DEF Said
  <1>3. ~chip.open => \A a \in answers : Quiet(a)
    BY DEF AnswersInv, Said
  <1>4. \A v : \A r \in Refusals : Quiet(Refusal(r)) /\ Quiet(Ok)
          /\ Quiet(Answer("challenge", v)) /\ Quiet(Answer("nonce", v))
          /\ Quiet(Answer("map", v)) /\ Quiet(Answer("agree", v))
    BY DEF Kind, Refusal, Refusals, Ok, Answer
  <1>5. "6300" \in Refusals /\ "6985" \in Refusals /\ "6987" \in Refusals /\ "6988" \in Refusals
    BY DEF Refusals
  <1> HIDE DEF Quiet
  <1>6. ASSUME NEW b, Answers(b), Said(b)', \A a \in answers : Said(a)' PROVE AnswersInv'
    BY <1>6 DEF Answers, AnswersInv
  <1>7. CASE ChipSelects \/ ChipChallenges \/ ChipSetsAt \/ ChipSendsNonce \/ ChipMaps
             \/ ChipAgrees \/ ChipRefuses
    <2>1. ~chip.open
      BY <1>7 DEF ChipSelects, ChipChallenges, ChipSetsAt, ChipSendsNonce, ChipMaps, ChipAgrees,
                  ChipRefuses, General, Plain
    <2>2. PICK b : Answers(b) /\ Quiet(b)
      BY <1>4, <1>5, <1>7 DEF ChipSelects, ChipChallenges, ChipSetsAt, ChipSendsNonce, ChipMaps,
                              ChipAgrees, ChipRefuses
    <2> QED
      BY <1>2, <1>3, <1>6, <2>1, <2>2
  <1>8. CASE ChipInSession
    <2>1. Answers(Refusal("6987")) /\ UNCHANGED chip
      BY <1>8 DEF ChipInSession
    <2>2. \A a \in answers : Said(a)'
      BY <2>1 DEF AnswersInv, Said
    <2> QED
      BY <1>2, <1>4, <1>5, <1>6, <2>1, <2>2
  <1>9. CASE ChipAuthenticates
    <2>1. ~chip.open
      BY <1>9 DEF ChipAuthenticates, Plain
    <2>2. \/ Answers(Refusal("6300"))
          \/ /\ Answers(Answer("external", Proof))
             /\ chip' = [chip EXCEPT !.open = TRUE, !.ks = <<{"k_ifd", "k_ic"}, G>>, !.n = 0,
                                     !.base = <<chip.challenges, "r_ifd">>,
                                     !.hasChallenge = FALSE]
      BY <1>9, Zenon DEF ChipAuthenticates, Proof
    <2>3. CASE Answers(Refusal("6300"))
      BY <1>2, <1>3, <1>4, <1>5, <1>6, <2>1, <2>3
    <2>4. CASE /\ Answers(Answer("external", Proof))
               /\ chip' = [chip EXCEPT !.open = TRUE, !.ks = <<{"k_ifd", "k_ic"}, G>>, !.n = 0,
                                       !.base = <<chip.challenges, "r_ifd">>,
                                       !.hasChallenge = FALSE]
      <3>1. /\ chip'.open /\ chip'.ks = <<{"k_ifd", "k_ic"}, G>>
            /\ chip'.base = <<chip.challenges, "r_ifd">>
        BY <2>4 DEF ShapeInv
      <3>2. Proof.rnd_ic = chip.challenges /\ Proof.rnd_ifd = "r_ifd" /\ Proof.k_ic = "k_ic"
        BY DEF Proof
      <3>3. \A v : Kind(Answer("external", v)) = "external" /\ Value(Answer("external", v)) = v
        BY DEF Kind, Value, Answer
      <3>4. ASSUME NEW v, v.k_ic = "k_ic", v.rnd_ic = chip.challenges, v.rnd_ifd = "r_ifd"
            PROVE  Said(Answer("external", v))'
        BY <3>1, <3>3, <3>4 DEF Said
      <3> QED
        BY <1>2, <1>3, <1>6, <2>1, <2>4, <3>2, <3>4
    <2> QED
      BY <2>2, <2>3, <2>4
  <1>10. CASE ChipChecksToken
    <2>1. ~chip.open
      BY <1>10 DEF ChipChecksToken, General, Plain
    <2>2. \/ Answers(Refusal("6300"))
          \/ /\ Answers(Answer("token", Mac(chip.ks, chip.ifd)))
             /\ chip' = [chip EXCEPT !.open = TRUE, !.base = <<>>, !.n = 0]
      BY <1>10, Zenon DEF ChipChecksToken
    <2>3. CASE Answers(Refusal("6300"))
      BY <1>2, <1>3, <1>4, <1>5, <1>6, <2>1, <2>3
    <2>4. CASE /\ Answers(Answer("token", Mac(chip.ks, chip.ifd)))
               /\ chip' = [chip EXCEPT !.open = TRUE, !.base = <<>>, !.n = 0]
      <3>1. chip'.open /\ chip'.base = <<>> /\ chip'.ks = chip.ks /\ chip'.ifd = chip.ifd
        BY <2>4 DEF ShapeInv
      <3>2. \A v : Kind(Answer("token", v)) = "token" /\ Value(Answer("token", v)) = v
        BY DEF Kind, Value, Answer
      <3>3. Said(Answer("token", Mac(chip.ks, chip.ifd)))'
        <4>1. ASSUME NEW v, v = Mac(chip.ks, chip.ifd) PROVE Said(Answer("token", v))'
          BY <3>1, <3>2, <4>1 DEF Said, Mac
        <4> QED
          BY <3>1, <4>1
      <3> QED
        BY <1>2, <1>3, <1>6, <2>1, <2>4, <3>3
    <2> QED
      BY <2>2, <2>3, <2>4
  <1>11. CASE ChipReselects
    <2>1. chip.open
      BY <1>11 DEF ChipReselects
    <2>2. \/ /\ Answers(Answer("sealed", <<chip.ks, chip.base, chip.n + 2>>))
             /\ chip' = [chip EXCEPT !.n = chip.n + 2]
          \/ /\ Answers(Refusal("6988")) /\ chip' = [chip EXCEPT !.n = chip.n + 1]
      BY <1>11, Zenon DEF ChipReselects
    <2>3. /\ chip'.open = chip.open /\ chip'.ks = chip.ks /\ chip'.base = chip.base
          /\ chip'.ifd = chip.ifd /\ chip.n \in Nat /\ chip'.n \in Nat /\ chip.n <= chip'.n
      BY <2>2 DEF ShapeInv, TypeOK
    <2>4. 0..chip.n \subseteq 0..chip'.n
      BY <2>3
    <2>5. \A a \in answers : Said(a)'
      BY <2>3, <2>4 DEF AnswersInv, Said
    <2>6. CASE Answers(Refusal("6988"))
      BY <1>2, <1>4, <1>5, <1>6, <2>5, <2>6
    <2>7. CASE /\ Answers(Answer("sealed", <<chip.ks, chip.base, chip.n + 2>>))
               /\ chip' = [chip EXCEPT !.n = chip.n + 2]
      <3>1. chip'.n = chip.n + 2 /\ chip.n + 2 \in 0..chip'.n
        BY <2>3, <2>7 DEF ShapeInv
      <3>2. \A v : Kind(Answer("sealed", v)) = "sealed" /\ Value(Answer("sealed", v)) = v
        BY DEF Kind, Value, Answer
      <3>3. ASSUME NEW v, v = <<chip.ks, chip.base, chip.n + 2>> PROVE Said(Answer("sealed", v))'
        BY <2>1, <2>3, <3>1, <3>2, <3>3 DEF Said
      <3> QED
        BY <1>6, <2>5, <2>7, <3>3
    <2> QED
      BY <2>2, <2>6, <2>7
  <1> QED
    BY <1>1, <1>7, <1>8, <1>9, <1>10, <1>11 DEF Next, ChipNext

(***************************************************************************)
(* The session of the reader is the session of the chip.                   *)
(***************************************************************************)
LEMMA OpenStays ==
    ASSUME TypeOK, ShapeInv, ChipNext, chip.open
    PROVE  /\ chip'.open /\ chip'.ks = chip.ks /\ chip'.base = chip.base
           /\ chip'.n \in Nat /\ chip.n <= chip'.n
           /\ ChipInSession \/ ChipReselects
  <1>1. ChipInSession \/ ChipReselects
    BY DEF ChipNext, ChipSelects, ChipChallenges, ChipAuthenticates, ChipSetsAt, ChipSendsNonce,
           ChipMaps, ChipAgrees, ChipChecksToken, ChipRefuses, General, Plain
  <1>2. CASE ChipInSession
    BY <1>1, <1>2 DEF ChipInSession, TypeOK
  <1>3. CASE ChipReselects
    <2>1. chip' = [chip EXCEPT !.n = chip.n + 2] \/ chip' = [chip EXCEPT !.n = chip.n + 1]
      BY <1>3 DEF ChipReselects
    <2> QED
      BY <1>1, <2>1 DEF ShapeInv, TypeOK
  <1> QED
    BY <1>1, <1>2, <1>3

LEMMA SessionStep ==
    ASSUME TypeOK, ShapeInv, AnswersInv, SessionInv, ~slipped => RunInv, Next
    PROVE  SessionInv'
  <1>1. ASSUME sm = NoSession, keys = NoSession, published = "none", UNCHANGED sessions,
               ~(pc' = "waiting" /\ step' = "reselect")
        PROVE  SessionInv'
    BY <1>1 DEF SessionInv, sessions, NoSession
  <1>2. ASSUME pc = "choosing" \/ (pc = "waiting" /\ step # "reselect")
        PROVE  sm = NoSession /\ keys = NoSession /\ published = "none"
    BY <1>2 DEF SessionInv
  <1>3. CASE TryPinned \/ TryNext
    <2>1. pc = "choosing" /\ ((\E d : Try(d)) \/ (\E r : Refuse(r)))
      BY <1>3 DEF TryPinned, TryNext, Asked
    <2>2. UNCHANGED sessions /\ (pc' = "waiting" => step' \in {"set AT", "challenge"})
      BY <2>1, Starts, Ends
    <2> QED
      BY <1>1, <1>2, <2>1, <2>2
  <1>4. CASE Exhausted \/ Cancel \/ Skip
    <2>1. pc = "choosing" /\ ((\E r : Refuse(r)) \/ UNCHANGED <<pc, sessions>>)
      BY <1>4 DEF Exhausted, Cancel, Skip, Asked
    <2>2. UNCHANGED sessions /\ pc' # "waiting"
      BY <2>1, Ends
    <2> QED
      BY <1>1, <1>2, <2>1, <2>2
  <1>5. CASE Stop
    BY <1>5 DEF Stop, reader, progress, sessions, wire, SessionInv, Session, NoSession
  <1>6. CASE ChipNext
    <2>1. UNCHANGED <<pc, step, sm, keys, published>> /\ pc = "waiting"
      BY <1>6, Received DEF reader, sessions, waiting
    <2>2. CASE step # "reselect"
      BY <1>1, <1>2, <2>1, <2>2 DEF sessions
    <2>3. CASE step = "reselect"
      <3>1. /\ sm # NoSession /\ chip.open /\ keys = Session(0) /\ published = "none"
            /\ sm = Session(1)
        BY <2>1, <2>3 DEF SessionInv
      <3>2. chip'.open /\ Session(0)' = Session(0) /\ Session(1)' = Session(1)
        BY <1>6, <3>1, OpenStays DEF Session
      <3>3. NoSession' = NoSession
        BY DEF NoSession
      <3> QED
        BY <2>1, <2>3, <3>1, <3>2, <3>3 DEF SessionInv
    <2> QED
      BY <2>2, <2>3
  <1>7. CASE Failing
    <2>1. PICK e \in Errors : DriverFails(e)
      BY <1>7 DEF Failing
    <2>2. published = "none"
      BY <1>7 DEF Failing, waiting, SessionInv
    <2>3. sm' = NoSession /\ keys' = NoSession /\ published' = "none" /\ NoSession' = NoSession
      BY <2>1, <2>2, Failure DEF NoSession
    <2>4. ~(pc' = "waiting" /\ step' = "reselect")
      BY <2>1, Failure
    <2> QED
      BY <2>3, <2>4 DEF SessionInv
  <1>8. CASE Learning
    <2>1. pc = "waiting" /\ step # "reselect" /\ step' # "reselect" /\ UNCHANGED sessions
      BY <1>8 DEF Learning, Follows, waiting
    <2> QED
      BY <1>1, <1>2, <2>1
  <1>9. CASE GivingUp \/ Selected
    <2>1. pc = "waiting" /\ step = "select" /\ pc' # "waiting" /\ UNCHANGED sessions
      BY <1>9 DEF GivingUp, Selected, waiting, Done
    <2> QED
      BY <1>1, <1>2, <2>1
  <1>10. CASE PaceOpened
    <2>1. PICK a \in answers : Arrives(a) /\ Kind(a) = "token" /\ TokenMatches(a)
      BY <1>10 DEF PaceOpened
    <2>2. chip.open /\ chip.base = <<>> /\ Value(a) = Mac(chip.ks, chip.ifd)
      BY <2>1 DEF AnswersInv, Said
    <2>3. ReaderKs = chip.ks
      BY <2>1, <2>2 DEF TokenMatches, Mac
    <2>4. /\ keys' = [ks |-> ReaderKs, base |-> <<>>, n |-> 0] /\ sm' = [keys' EXCEPT !.n = 1]
          /\ pc' = "waiting" /\ step' = "reselect" /\ chip' = chip /\ published' = published
      BY <1>10 DEF PaceOpened, Send
    <2>5. keys' = Session(0)' /\ sm' = Session(1)'
      BY <2>2, <2>3, <2>4 DEF Session
    <2>6. sm' # NoSession'
      BY <2>5 DEF Session, NoSession
    <2>7. published = "none"
      BY <2>1 DEF SessionInv, Arrives, waiting
    <2> QED
      BY <2>2, <2>4, <2>5, <2>6, <2>7 DEF SessionInv
  <1>11. CASE Reselected
    <2>1. PICK a \in answers : Arrives(a) /\ Verifies(a)
      BY <1>11 DEF Reselected
    <2>2. step = "reselect" /\ waiting
      BY <1>11, <2>1 DEF Reselected, Arrives
    <2>3. sm # NoSession /\ chip.open /\ keys = Session(0) /\ sm = Session(1)
      BY <2>2 DEF SessionInv, waiting
    <2>4. Kind(a) = "sealed" /\ Value(a) = <<chip.ks, chip.base, 2>>
      BY <2>1, <2>3 DEF Verifies, Session
    <2>5. 2 \in 0..chip.n
      BY <2>4 DEF AnswersInv, Said
    <2>6. ~slipped' => chip.n = 2
      <3>1. ASSUME ~slipped' PROVE newest # <<>> /\ AtReselect
        <4>1. newest = <<a>> /\ ~slipped
          BY <2>1, <3>1, Slips
        <4> QED
          BY <2>2, <4>1 DEF RunInv, waiting
      <3> QED
        BY <3>1 DEF AtReselect
    <2>7. /\ sm' = [sm EXCEPT !.n = sm.n + 1] /\ keys' = keys /\ pc' = "done"
          /\ published' = "PACE" /\ chip' = chip
      BY <1>11 DEF Reselected, Publish, Done
    <2>8. sm' = Session(2)' /\ keys' = Session(0)'
      BY <2>3, <2>7 DEF Session
    <2>9. sm' # NoSession'
      BY <2>8 DEF Session, NoSession
    <2>10. slipped' \in BOOLEAN
      BY <2>1, Slips
    <2>11. \E n \in 0..chip'.n : sm' = Session(n)' /\ (slipped' \/ n = chip'.n)
      BY <2>5, <2>6, <2>7, <2>8, <2>10
    <2>12. chip'.open
      BY <2>3, <2>7
    <2>13. \A n : Session(n)' = [ks |-> chip'.ks, base |-> chip'.base, n |-> n]
      BY DEF Session
    <2> QED
      BY <2>7, <2>8, <2>9, <2>11, <2>12, <2>13 DEF SessionInv, Session
  <1>12. CASE BacOpened
    <2>1. PICK a \in answers :
            /\ Arrives(a) /\ Kind(a) = "external" /\ EchoMatches(a)
            /\ sm' = [ks |-> <<{"k_ifd", Value(a).k_ic}, G>>,
                      base |-> <<held.challenge, "r_ifd">>, n |-> 0]
      BY <1>12 DEF BacOpened
    <2>2. step = "external" /\ waiting
      BY <1>12, <2>1 DEF BacOpened, Arrives
    <2>3. /\ chip.open /\ chip.ks = <<{"k_ifd", Value(a).k_ic}, G>>
          /\ chip.base = <<Value(a).rnd_ic, Value(a).rnd_ifd>>
      BY <2>1 DEF AnswersInv, Said
    <2>4. chip.base = <<held.challenge, "r_ifd">>
      BY <2>1, <2>3 DEF EchoMatches
    <2>5. chip.n \in Nat /\ 0 \in 0..chip.n
      BY DEF TypeOK
    <2>6. ~slipped' => chip.n = 0
      <3>1. ASSUME ~slipped' PROVE newest = <<a>> /\ AtExternal
        <4>1. newest = <<a>> /\ ~slipped
          BY <2>1, <3>1, Slips
        <4> QED
          BY <2>2, <4>1 DEF RunInv, waiting
      <3>2. a # Refusal("6300")
        BY <2>1 DEF Refusal, Kind
      <3> QED
        BY <3>1, <3>2 DEF AtExternal
    <2>7. keys' = sm' /\ pc' = "done" /\ published' = "BAC" /\ chip' = chip
      BY <1>12 DEF BacOpened, Publish, Done
    <2>8. sm' = Session(0)' /\ keys' = Session(0)'
      BY <2>1, <2>3, <2>4, <2>7 DEF Session
    <2>9. sm' # NoSession'
      BY <2>1 DEF NoSession
    <2>10. slipped' \in BOOLEAN
      BY <2>1, Slips
    <2>11. \E n \in 0..chip'.n : sm' = Session(n)' /\ (slipped' \/ n = chip'.n)
      BY <2>5, <2>6, <2>7, <2>8, <2>10
    <2>12. chip'.open
      BY <2>3, <2>7
    <2>13. \A n : Session(n)' = [ks |-> chip'.ks, base |-> chip'.base, n |-> n]
      BY DEF Session
    <2> QED
      BY <2>7, <2>8, <2>9, <2>11, <2>12, <2>13 DEF SessionInv, Session
  <1> QED
    BY <1>3, <1>4, <1>5, <1>6, <1>7, <1>8, <1>9, <1>10, <1>11, <1>12, ReaderMoves
       DEF Next, Walk

(***************************************************************************)
(* A run over an exchange that does nothing wrong, from step to step.      *)
(***************************************************************************)
\* Only what is said of the command being exchanged is to be shown.
LEMMA RunNext ==
    ASSUME copies' <= 1,
           \/ step' = "select"
           \/ step' = "set AT" /\ AtSetAt'
           \/ step' = "nonce" /\ AtNonce'
           \/ step' = "map" /\ AtMap'
           \/ step' = "agree" /\ AtAgree'
           \/ step' = "token" /\ AtToken'
           \/ step' = "reselect" /\ AtReselect'
           \/ step' = "challenge" /\ AtChallenge'
           \/ step' = "external" /\ AtExternal'
    PROVE  RunInv'
  BY DEF RunInv

\* Both sides have the same generator exactly when they have the same password.
LEMMA Generators ==
    ASSUME NEW n, NEW m
    PROVE  /\ Mapped(n, Shared("m_ifd", Point("m_ic", G))) = Mapped(m, Shared("m_ic", MapIfd))
                <=> n = m
           /\ Shared("a_ifd", Point("a_ic", m)) = Shared("a_ic", Point("a_ifd", n)) <=> n = m
  <1>1. {"m_ifd", "m_ic"} = {"m_ic", "m_ifd"} /\ {"a_ifd", "a_ic"} = {"a_ic", "a_ifd"}
    OBVIOUS
  <1>2. /\ Shared("m_ifd", Point("m_ic", G)) = <<{"m_ifd", "m_ic"}, G>>
        /\ Shared("m_ic", MapIfd) = <<{"m_ic", "m_ifd"}, G>>
        /\ Shared("a_ifd", Point("a_ic", m)) = <<{"a_ifd", "a_ic"}, m>>
        /\ Shared("a_ic", Point("a_ifd", n)) = <<{"a_ic", "a_ifd"}, n>>
    BY DEF Shared, Point, MapIfd
  <1> QED
    BY <1>1, <1>2 DEF Mapped

LEMMA ReaderRun ==
    ASSUME TypeOK, ShapeInv, RunInv, ReaderNext, ~slipped'
    PROVE  RunInv'
  <1>1. UNCHANGED setup
    <2>1. CASE Failing
      BY <2>1, Failure DEF Failing
    <2>2. CASE ~Failing
      BY <2>2, ReaderMoves
         DEF Learning, GivingUp, PaceOpened, Reselected, BacOpened, Selected, Publish
    <2> QED
      BY <2>1, <2>2
  <1>2. /\ \A d : (Fits(d)' <=> Fits(d)) /\ (Offers(d)' <=> Offers(d))
        /\ ChipPassword' = ChipPassword
    BY <1>1, SetupKept
  <1>3. ASSUME NEW a, Arrives(a) PROVE newest = <<a>> /\ pc = "waiting"
    BY <1>3, Slips DEF waiting
  <1>4. \A a, b : <<a>> = <<b>> => a = b
    OBVIOUS
  <1>5. ASSUME NEW e, DriverFails(e) PROVE RunInv'
    <2>1. CASE pc' = "waiting"
      <3>1. step' = "select" /\ copies' = 0
        BY <1>5, <2>1, Failure
      <3> QED
        BY <3>1, RunNext
    <2>2. CASE pc' # "waiting"
      BY <2>2 DEF RunInv
    <2> QED
      BY <2>1, <2>2
  <1>6. CASE GivingUp \/ Reselected \/ BacOpened \/ Selected
    <2>1. pc' # "waiting"
      BY <1>6 DEF GivingUp, Reselected, BacOpened, Selected, Publish, Done
    <2> QED
      BY <2>1 DEF RunInv
  <1>7. CASE PaceSelected
    <2>1. PICK a \in answers : Learns(a, "set AT", "nonce") /\ held' = held
      BY <1>7 DEF PaceSelected
    <2>2. Arrives(a) /\ step = "set AT" /\ Succeeds(a)
      BY <2>1 DEF Learns, Bringing
    <2>3. step' = "nonce" /\ copies' = 0 /\ newest' = <<>> /\ chip' = chip
      BY <2>1 DEF Learns, Send
    <2>4. AtSetAt /\ newest = <<a>>
      BY <1>3, <2>2 DEF RunInv
    <2>5. a # Refusal("6985")
      <3>1. Kind(Refusal("6985")) = "6985" /\ "6985" \in Refusals
        BY DEF Refusal, Refusals, Kind
      <3> QED
        BY <2>2, <3>1 DEF Succeeds
    <2>6. InPace /\ ~chip.open
      BY <1>4, <2>4, <2>5 DEF AtSetAt, InPace
    <2>7. AtNonce'
      BY <1>2, <2>3, <2>6 DEF AtNonce, InPace
    <2> QED
      BY <2>3, <2>7, RunNext
  <1>8. CASE PaceNonce
    <2>1. PICK a \in answers : Learns(a, "nonce", "map")
                               /\ held' = [held EXCEPT !.nonce = Decrypted(Value(a))]
      BY <1>8 DEF PaceNonce
    <2>2. Arrives(a) /\ step = "nonce"
      BY <2>1 DEF Learns
    <2>3. step' = "map" /\ copies' = 0 /\ newest' = <<>> /\ chip' = chip
      BY <2>1 DEF Learns, Send
    <2>4. AtNonce /\ newest = <<a>>
      BY <1>3, <2>2 DEF RunInv
    <2>5. a = NonceAnswer
      BY <1>4, <2>4 DEF AtNonce
    <2>6. held'.nonce = Decrypted([key |-> ChipPassword, value |-> "nonce"])
      BY <2>1, <2>5 DEF ShapeInv, NonceAnswer, Answer, Value
    <2>7. held'.nonce = "nonce" <=> Fits("PACE")
      BY <2>6 DEF Decrypted, Fits
    <2>8. AtMap'
      BY <1>2, <2>3, <2>4, <2>7 DEF AtNonce, AtMap, InPace
    <2> QED
      BY <2>3, <2>8, RunNext
  <1>9. CASE PaceMapped
    <2>1. PICK a \in answers :
            /\ Learns(a, "map", "agree")
            /\ held' = [held EXCEPT !.gen = Mapped(held.nonce, Shared("m_ifd", Value(a)))]
      BY <1>9 DEF PaceMapped
    <2>2. Arrives(a) /\ step = "map"
      BY <2>1 DEF Learns
    <2>3. step' = "agree" /\ copies' = 0 /\ newest' = <<>> /\ chip' = chip
      BY <2>1 DEF Learns, Send
    <2>4. AtMap /\ newest = <<a>>
      BY <1>3, <2>2 DEF RunInv
    <2>5. a = Answer("map", Point("m_ic", G)) /\ chip.gen = Mapped("nonce", Shared("m_ic", MapIfd))
      BY <1>4, <2>4 DEF AtMap
    <2>6. Value(a) = Point("m_ic", G)
      BY <2>5 DEF Answer, Value
    <2>7. held'.gen = Mapped(held.nonce, Shared("m_ifd", Point("m_ic", G)))
      BY <2>1, <2>6 DEF ShapeInv
    <2>8. held'.gen = chip'.gen <=> held.nonce = "nonce"
      BY <2>3, <2>5, <2>7, Generators
    <2>9. Same'
      BY <1>2, <2>4, <2>8 DEF AtMap, Same
    <2>10. AtAgree'
      BY <1>2, <2>3, <2>4, <2>9 DEF AtMap, AtAgree, InPace
    <2> QED
      BY <2>3, <2>10, RunNext
  <1>10. CASE PaceAgreed
    <2>1. PICK a \in answers : Learns(a, "agree", "token") /\ held' = [held EXCEPT !.ic = Value(a)]
      BY <1>10 DEF PaceAgreed
    <2>2. Arrives(a) /\ step = "agree"
      BY <2>1 DEF Learns
    <2>3. step' = "token" /\ copies' = 0 /\ newest' = <<>> /\ chip' = chip
      BY <2>1 DEF Learns, Send
    <2>4. AtAgree /\ newest = <<a>>
      BY <1>3, <2>2 DEF RunInv
    <2>5. a = Answer("agree", Point("a_ic", chip.gen)) /\ Agreed
      BY <1>4, <2>4 DEF AtAgree
    <2>6. held'.ic = Point("a_ic", chip.gen) /\ held'.gen = held.gen
      BY <2>1, <2>5 DEF ShapeInv, Answer, Value
    <2>7. Same' /\ Agreed' /\ held'.ic = Point("a_ic", chip.gen)'
      BY <1>2, <2>3, <2>4, <2>5, <2>6 DEF AtAgree, Same, Agreed, AgreeIfd, Point
    <2>8. AtToken'
      BY <1>2, <2>3, <2>4, <2>7 DEF AtAgree, AtToken, InPace
    <2> QED
      BY <2>3, <2>8, RunNext
  <1>11. CASE BacChallenged
    <2>1. PICK a \in answers : Learns(a, "challenge", "external")
                               /\ held' = [held EXCEPT !.challenge = Value(a)]
      BY <1>11 DEF BacChallenged
    <2>2. Arrives(a) /\ step = "challenge" /\ Kind(a) = "challenge"
      BY <2>1 DEF Learns, Bringing
    <2>3. step' = "external" /\ copies' = 0 /\ newest' = <<>> /\ chip' = chip
      BY <2>1 DEF Learns, Send
    <2>4. AtChallenge /\ newest = <<a>> /\ a # Refusal("6985") /\ a # Refusal("6987")
      BY <1>3, <2>2 DEF RunInv, Refusal, Kind
    <2>5. /\ ~chip.open /\ Offers("BAC") /\ chip.hasChallenge
          /\ a = Answer("challenge", chip.challenges)
      BY <1>4, <2>4 DEF AtChallenge
    <2>6. held'.challenge = chip.challenges
      BY <2>1, <2>5 DEF ShapeInv, Answer, Value
    <2>7. AtExternal'
      BY <1>2, <2>3, <2>5, <2>6 DEF AtExternal
    <2> QED
      BY <2>3, <2>7, RunNext
  <1>12. CASE PaceOpened
    <2>1. PICK a \in answers : Arrives(a) /\ Kind(a) = "token"
      BY <1>12 DEF PaceOpened
    <2>2. step = "token" /\ step' = "reselect" /\ copies' = 0 /\ newest' = <<>> /\ chip' = chip
      BY <1>12 DEF PaceOpened, Send
    <2>3. AtToken /\ newest = <<a>> /\ a # Refusal("6300")
      BY <1>3, <2>1, <2>2 DEF RunInv, Refusal, Kind
    <2>4. chip.n = 0
      BY <1>4, <2>3 DEF AtToken
    <2>5. AtReselect'
      BY <2>2, <2>4 DEF AtReselect
    <2> QED
      BY <2>2, <2>5, RunNext
  <1>13. CASE AnswerRefused \/ AnswerOfAnotherStep \/ ExchangeFails \/ PaceTokenDiffers
              \/ BacEchoDiffers \/ ReselectFails
    <2>1. CASE ExchangeFails
      BY <2>1 DEF ExchangeFails
    <2>2. CASE ~ExchangeFails
      <3>1. \E e : DriverFails(e)
        BY <1>13, <2>2 DEF AnswerRefused, Refused, AnswerOfAnotherStep, PaceTokenDiffers,
                           BacEchoDiffers, ReselectFails
      <3> QED
        BY <1>5, <3>1
    <2> QED
      BY <2>1, <2>2
  <1> QED
    BY <1>6, <1>7, <1>8, <1>9, <1>10, <1>11, <1>12, <1>13 DEF ReaderNext

LEMMA ChipRun ==
    ASSUME TypeOK, ShapeInv, SessionInv, RunInv, ChipNext, ~slipped'
    PROVE  RunInv'
  <1>1. /\ UNCHANGED <<setup, pc, step, held, sm>> /\ pc = "waiting"
        /\ newest = <<>> /\ copies' = 1
    BY Received DEF reader, sessions, waiting
  <1>2. /\ \A d : (Fits(d)' <=> Fits(d)) /\ (Offers(d)' <=> Offers(d))
        /\ ChipPassword' = ChipPassword /\ doc' = doc /\ user' = user
    BY <1>1, SetupKept DEF setup
  <1>3. \A a : newest # <<a>>
    BY <1>1
  <1>4. DOMAIN chip = {"open", "ks", "base", "n", "paceSelected", "gen", "ifd", "challenges",
                       "hasChallenge"}
    BY DEF ShapeInv
  <1>5. ASSUME step = "select" PROVE RunInv'
    BY <1>1, <1>5, RunNext
  <1>6. CASE ChipSelects
    BY <1>5, <1>6 DEF ChipSelects, Plain
  <1>7. CASE ChipChallenges
    <2>1. step = "challenge" /\ ~chip.open /\ Offers("BAC")
      BY <1>7 DEF ChipChallenges, Plain
    <2>2. /\ chip' = [chip EXCEPT !.challenges = chip.challenges + 1, !.hasChallenge = TRUE]
          /\ newest' = <<Answer("challenge", chip.challenges + 1)>>
      BY <1>7 DEF ChipChallenges, Answers
    <2>3. ~chip'.open /\ chip'.hasChallenge /\ chip'.challenges = chip.challenges + 1
      BY <1>4, <2>1, <2>2
    <2>4. newest' = <<Answer("challenge", chip'.challenges)>>
      BY <2>2, <2>3
    <2>5. AtChallenge'
      BY <1>2, <2>1, <2>3, <2>4 DEF AtChallenge, Answer
    <2> QED
      BY <1>1, <2>1, <2>5, RunNext
  <1>8. CASE ChipAuthenticates
    <2>1. step = "external" /\ ~chip.open /\ Offers("BAC")
      BY <1>8 DEF ChipAuthenticates, Plain
    <2>2. held.challenge = chip.challenges
      BY <1>1, <2>1 DEF RunInv, AtExternal
    <2>3. ProvesMrz <=> Fits("BAC")
      BY <2>2 DEF ProvesMrz, Fits
    <2>4. \/ /\ Fits("BAC") \/ doc.lenient
             /\ newest' = <<Answer("external", Proof)>>
             /\ chip' = [chip EXCEPT !.open = TRUE, !.ks = <<{"k_ifd", "k_ic"}, G>>, !.n = 0,
                                     !.base = <<chip.challenges, "r_ifd">>,
                                     !.hasChallenge = FALSE]
          \/ ~Fits("BAC") /\ ~doc.lenient /\ newest' = <<Refusal("6300")>> /\ chip' = chip
      BY <1>8, <2>3, Zenon DEF ChipAuthenticates, Proof, Answers
    <2>5. CASE /\ Fits("BAC") \/ doc.lenient
               /\ newest' = <<Answer("external", Proof)>>
               /\ chip' = [chip EXCEPT !.open = TRUE, !.ks = <<{"k_ifd", "k_ic"}, G>>, !.n = 0,
                                       !.base = <<chip.challenges, "r_ifd">>,
                                       !.hasChallenge = FALSE]
      <3>1. chip'.open /\ chip'.n = 0 /\ chip'.challenges = chip.challenges
        BY <1>4, <2>5
      <3>2. Proof' = Proof
        BY <3>1 DEF Proof, Mrz
      <3>3. newest' = <<Answer("external", Proof')>>
        BY <2>5, <3>2
      <3>4. AtExternal'
        BY <1>1, <1>2, <2>1, <2>2, <2>5, <3>1, <3>3 DEF AtExternal, Answer
      <3> QED
        BY <1>1, <2>1, <3>4, RunNext
    <2>6. CASE ~Fits("BAC") /\ ~doc.lenient /\ newest' = <<Refusal("6300")>> /\ chip' = chip
      <3>1. AtExternal'
        BY <1>1, <1>2, <2>1, <2>2, <2>6 DEF AtExternal, Refusal
      <3> QED
        BY <1>1, <2>1, <3>1, RunNext
    <2> QED
      BY <2>4, <2>5, <2>6
  <1>9. CASE ChipSetsAt
    <2>1. step = "set AT" /\ ~chip.open /\ Offers("PACE") /\ newest' = <<Ok>>
          /\ chip' = [chip EXCEPT !.paceSelected = TRUE]
      BY <1>9 DEF ChipSetsAt, Plain, Answers
    <2>2. ~chip'.open /\ chip'.paceSelected
      BY <1>4, <2>1
    <2>3. AtSetAt'
      BY <1>2, <2>1, <2>2 DEF AtSetAt, Ok
    <2>4. copies' <= 1
      BY <1>1
    <2>5. step' = "set AT"
      BY <1>1, <2>1, Zenon
    <2> QED
      BY <2>3, <2>4, <2>5, RunNext
  <1>10. CASE ChipSendsNonce
    <2>1. /\ step = "nonce" /\ ~chip.open /\ InPace /\ newest' = <<NonceAnswer>> /\ chip' = chip
      BY <1>10 DEF ChipSendsNonce, General, Plain, InPace, Answers, NonceAnswer
    <2>2. InPace' /\ NonceAnswer' = NonceAnswer
      BY <1>2, <2>1 DEF InPace, NonceAnswer, Answer
    <2>3. AtNonce'
      BY <2>1, <2>2 DEF AtNonce
    <2> QED
      BY <1>1, <2>1, <2>3, RunNext
  <1>11. CASE ChipMaps
    <2>1. /\ step = "map" /\ ~chip.open /\ InPace /\ newest' = <<Answer("map", Point("m_ic", G))>>
          /\ chip' = [chip EXCEPT !.gen = Mapped("nonce", Shared("m_ic", MapIfd))]
      BY <1>11 DEF ChipMaps, General, Plain, InPace, Answers
    <2>2. ~chip'.open /\ InPace' /\ chip'.gen = Mapped("nonce", Shared("m_ic", MapIfd))
      BY <1>2, <1>4, <2>1 DEF InPace
    <2>3. held'.nonce = "nonce" <=> Fits("PACE")
      BY <1>1, <2>1 DEF RunInv, AtMap
    <2>4. AtMap'
      BY <1>2, <2>1, <2>2, <2>3 DEF AtMap, Mapped, MapIfd, Shared, Point, G, Answer
    <2> QED
      BY <1>1, <2>1, <2>4, RunNext
  <1>12. CASE ChipAgrees
    <2>1. /\ step = "agree" /\ ~chip.open /\ InPace
          /\ newest' = <<Answer("agree", Point("a_ic", chip.gen))>>
          /\ chip' = [chip EXCEPT !.ks = Shared("a_ic", AgreeIfd), !.ifd = AgreeIfd]
      BY <1>12 DEF ChipAgrees, General, Plain, InPace, Answers
    <2>2. /\ ~chip'.open /\ InPace' /\ chip'.gen = chip.gen
          /\ chip'.ks = Shared("a_ic", AgreeIfd) /\ chip'.ifd = AgreeIfd
      BY <1>2, <1>4, <2>1 DEF InPace
    <2>3. AgreeIfd' = AgreeIfd
      BY <1>1 DEF AgreeIfd, Point
    <2>4. Agreed'
      BY <2>2, <2>3 DEF Agreed, Shared
    <2>5. Same
      BY <1>1, <2>1 DEF RunInv, AtAgree
    <2>6. Same'
      BY <1>1, <1>2, <2>2, <2>5 DEF Same
    <2>7. newest' = <<Answer("agree", Point("a_ic", chip'.gen))>>
      BY <2>1, <2>2
    <2>8. AtAgree'
      BY <2>2, <2>4, <2>6, <2>7 DEF AtAgree, Answer, Point
    <2> QED
      BY <1>1, <2>1, <2>8, RunNext
  <1>13. CASE ChipChecksToken
    <2>1. step = "token" /\ ~chip.open /\ InPace
      BY <1>13 DEF ChipChecksToken, General, Plain, InPace
    <2>2. Same /\ Agreed /\ held.ic = Point("a_ic", chip.gen)
      BY <1>1, <2>1 DEF RunInv, AtToken
    <2>3. ReaderKs = chip.ks <=> chip.gen = held.gen
      BY <2>2, Generators DEF ReaderKs, Agreed, AgreeIfd
    <2>4. TokenIfd = Mac(chip.ks, Point("a_ic", chip.gen)) <=> ReaderKs = chip.ks
      BY <2>2 DEF TokenIfd, Mac
    <2>5. TokenIfd = Mac(chip.ks, Point("a_ic", chip.gen)) <=> Fits("PACE")
      BY <2>2, <2>3, <2>4 DEF Same
    <2>6. \/ /\ Fits("PACE") \/ doc.lenient
             /\ newest' = <<Answer("token", Mac(chip.ks, chip.ifd))>>
             /\ chip' = [chip EXCEPT !.open = TRUE, !.base = <<>>, !.n = 0]
          \/ ~Fits("PACE") /\ ~doc.lenient /\ newest' = <<Refusal("6300")>> /\ chip' = chip
      BY <1>13, <2>5, Zenon DEF ChipChecksToken, Answers
    <2>7. /\ chip'.ks = chip.ks /\ chip'.ifd = chip.ifd /\ chip'.gen = chip.gen
          /\ chip'.paceSelected = chip.paceSelected
      BY <1>4, <2>6
    <2>8. InPace' /\ Same' /\ Agreed' /\ held'.ic = Point("a_ic", chip.gen)'
      BY <1>1, <1>2, <2>1, <2>2, <2>7 DEF InPace, Same, Agreed, AgreeIfd, Point, Shared
    <2>9. CASE /\ Fits("PACE") \/ doc.lenient
               /\ newest' = <<Answer("token", Mac(chip.ks, chip.ifd))>>
               /\ chip' = [chip EXCEPT !.open = TRUE, !.base = <<>>, !.n = 0]
      <3>1. chip'.open /\ chip'.n = 0
        BY <1>4, <2>9
      <3>2. newest' = <<Answer("token", Mac(chip'.ks, chip'.ifd))>>
        BY <2>7, <2>9
      <3>3. AtToken'
        BY <1>2, <2>8, <2>9, <3>1, <3>2 DEF AtToken, Answer, Mac
      <3> QED
        BY <1>1, <2>1, <3>3, RunNext
    <2>10. CASE ~Fits("PACE") /\ ~doc.lenient /\ newest' = <<Refusal("6300")>> /\ chip' = chip
      <3>1. AtToken'
        BY <1>2, <2>1, <2>8, <2>10 DEF AtToken, Refusal
      <3> QED
        BY <1>1, <2>1, <3>1, RunNext
    <2> QED
      BY <2>6, <2>9, <2>10
  <1>14. CASE ChipRefuses
    <2>1. ~chip.open /\ chip' = chip /\ newest' = <<Refusal("6985")>>
      BY <1>14 DEF ChipRefuses, Answers
    <2>2. ~(step = "nonce") /\ ~(step = "map") /\ ~(step = "agree") /\ ~(step = "token")
      BY <1>1, <1>14 DEF ChipRefuses, RunInv, AtNonce, AtMap, AtAgree, AtToken, InPace
    <2>3. step # "external"
      BY <1>1, <1>3, <1>14 DEF ChipRefuses, RunInv, AtExternal
    <2>4. \/ step = "challenge" /\ ~Offers("BAC")
          \/ step = "set AT" /\ ~Offers("PACE")
      BY <1>14, <2>2, <2>3 DEF ChipRefuses
    <2>5. CASE step = "challenge" /\ ~Offers("BAC")
      <3>1. AtChallenge'
        BY <1>2, <2>1, <2>5 DEF AtChallenge, Refusal
      <3> QED
        BY <1>1, <2>5, <3>1, RunNext
    <2>6. CASE step = "set AT" /\ ~Offers("PACE")
      <3>1. AtSetAt'
        BY <1>2, <2>1, <2>6 DEF AtSetAt, Refusal
      <3>2. copies' <= 1
        BY <1>1
      <3>3. step' = "set AT"
        BY <1>1, <2>6, Zenon
      <3> QED
        BY <3>1, <3>2, <3>3, RunNext
    <2> QED
      BY <2>4, <2>5, <2>6
  <1>15. CASE ChipInSession
    <2>1. chip.open /\ step # "reselect" /\ chip' = chip /\ newest' = <<Refusal("6987")>>
      BY <1>15 DEF ChipInSession, Answers
    <2>2. step \notin {"set AT", "nonce", "map", "agree", "token", "external"}
      BY <1>1, <1>3, <2>1 DEF RunInv, AtSetAt, AtNonce, AtMap, AtAgree, AtToken, AtExternal
    <2>3. step = "select" \/ step = "challenge"
      BY <2>1, <2>2 DEF TypeOK, PaceSteps, BacSteps
    <2>4. CASE step = "challenge"
      <3>1. AtChallenge'
        BY <2>1 DEF AtChallenge, Refusal
      <3> QED
        BY <1>1, <2>4, <3>1, RunNext
    <2> QED
      BY <1>5, <2>3, <2>4
  <1>16. CASE ChipReselects
    <2>1. step = "reselect"
      BY <1>16 DEF ChipReselects
    <2>2. chip.n = 0 /\ sm = Session(1)
      BY <1>1, <1>3, <2>1 DEF RunInv, AtReselect, SessionInv
    <2>3. <<sm.ks, sm.base, sm.n>> = <<chip.ks, chip.base, chip.n + 1>> /\ chip.n + 2 = 2
      BY <2>2 DEF Session
    <2>4. /\ newest' = <<Answer("sealed", <<chip.ks, chip.base, 2>>)>>
          /\ chip' = [chip EXCEPT !.n = 2]
      BY <1>16, <2>3 DEF ChipReselects, Answers
    <2>5. chip'.n = 2 /\ chip'.ks = chip.ks /\ chip'.base = chip.base
      BY <1>4, <2>4
    <2>6. newest' = <<Answer("sealed", <<chip'.ks, chip'.base, 2>>)>>
      BY <2>4, <2>5
    <2>7. AtReselect'
      BY <2>5, <2>6 DEF AtReselect, Answer
    <2> QED
      BY <1>1, <2>1, <2>7, RunNext
  <1> QED
    BY <1>6, <1>7, <1>8, <1>9, <1>10, <1>11, <1>12, <1>13, <1>14, <1>15, <1>16 DEF ChipNext

LEMMA SameRun ==
    ASSUME RunInv, UNCHANGED <<setup, pc, step, held, chip, copies, newest>>
    PROVE  RunInv'
  <1>1. UNCHANGED <<setup, pc, step, held, chip, copies, newest>>
    OBVIOUS
  <1>2. /\ \A d : (Fits(d)' <=> Fits(d)) /\ (Offers(d)' <=> Offers(d))
        /\ ChipPassword' = ChipPassword /\ doc' = doc
    BY <1>1, SetupKept DEF setup
  <1>3. (AtSetAt => AtSetAt') /\ (AtReselect => AtReselect')
    BY <1>1, <1>2 DEF AtSetAt, AtReselect, Answer, Refusal, Ok
  <1>4. (AtNonce => AtNonce') /\ (AtMap => AtMap')
    BY <1>1, <1>2 DEF AtNonce, AtMap, InPace, NonceAnswer, Answer, Point, Mapped, Shared, MapIfd, G
  <1>5. (AtAgree => AtAgree') /\ (AtToken => AtToken')
    BY <1>1, <1>2
       DEF AtAgree, AtToken, InPace, Same, Agreed, AgreeIfd, Answer, Refusal, Point, Shared, Mac
  <1>6. (AtChallenge => AtChallenge') /\ (AtExternal => AtExternal')
    BY <1>1, <1>2 DEF AtChallenge, AtExternal, Answer, Refusal, Proof, Mrz
  <1> QED
    BY <1>1, <1>3, <1>4, <1>5, <1>6 DEF RunInv

LEMMA WalkRun ==
    ASSUME TypeOK, WalkInv, RunInv, FailedInv, Walk
    PROVE  RunInv'
  <1>1. ASSUME NEW d \in {"PACE", "BAC"}, Try(d), d = "PACE" => ~chip.open PROVE RunInv'
    <2>0. copies' = 0 /\ newest' = <<>> /\ chip' = chip
      BY <1>1, Starts, Zenon
    <2>1. copies' <= 1 /\ newest' = <<>> /\ chip' = chip
      BY <2>0
    <2>2. CASE d = "PACE"
      <3>1. step' = "set AT"
        BY <1>1, <2>2, Starts, Zenon
      <3>2. AtSetAt'
        BY <1>1, <2>1, <2>2 DEF AtSetAt
      <3> QED
        BY <2>1, <3>1, <3>2, RunNext
    <2>3. CASE d = "BAC"
      <3>1. step' = "challenge"
        BY <1>1, <2>3, Starts
      <3>2. AtChallenge'
        BY <2>1 DEF AtChallenge
      <3> QED
        BY <2>1, <3>1, <3>2, RunNext
    <2> QED
      BY <1>1, <2>2, <2>3
  <1>2. ASSUME pc' # "waiting" PROVE RunInv'
    BY <1>2 DEF RunInv
  <1>3. ASSUME pc = "choosing", tried = <<>> PROVE ~chip.open
    BY <1>3 DEF FailedInv, ClosedInv, StillClosed
  <1>4. CASE TryPinned
    <2>1. pc = "choosing" /\ tried = <<>> /\ user.method \in {"PACE", "BAC"}
      BY <1>4 DEF TryPinned, WalkInv, Pinned, TypeOK
    <2>2. Try(user.method) \/ \E r : Refuse(r)
      BY <1>4 DEF TryPinned
    <2> QED
      BY <1>1, <1>2, <1>3, <2>1, <2>2, Ends
  <1>5. CASE TryNext
    <2>1. Try(Driver) /\ pc = "choosing"
      BY <1>5 DEF TryNext, Asked
    <2>2. Driver \in {"PACE", "BAC"} /\ (Driver = "PACE" => tried = <<>>)
      BY <1>5, Suitable
    <2> QED
      BY <1>1, <1>3, <2>1, <2>2
  <1>6. CASE Skip \/ Exhausted \/ Cancel
    <2>1. (pc = "choosing" /\ pc' = pc) \/ \E r : Refuse(r)
      BY <1>6 DEF Skip, Exhausted, Cancel, Asked
    <2> QED
      BY <1>2, <2>1, Ends
  <1>7. CASE Stop
    BY <1>7, SameRun DEF Stop, reader, wire
  <1> QED
    BY <1>4, <1>5, <1>6, <1>7 DEF Walk

(***************************************************************************)
(* What a driver that fails over such an exchange says of the document.    *)
(***************************************************************************)
Running == IF step \in PaceSteps THEN "PACE" ELSE "BAC"
Says(e, d) ==
    /\ e \notin LinkGone /\ (e \in KeyVerdicts => ~Fits(d))
    /\ ~doc.lenient => Hopeless(d) /\ (d = "PACE" => ~chip.open)

LEMMA Verdict ==
    ASSUME TypeOK, WalkInv, SessionInv, RunInv, FailedInv, ~slipped',
           \/ AnswerRefused \/ AnswerOfAnotherStep \/ ExchangeFails
           \/ PaceTokenDiffers \/ BacEchoDiffers \/ ReselectFails
    PROVE  /\ pc = "waiting" /\ step \in PaceSteps \cup BacSteps
           /\ \E e : DriverFails(e) /\ Says(e, Running)
  <1>1. ASSUME NEW a, Arrives(a) PROVE newest = <<a>> /\ pc = "waiting"
    BY <1>1, Slips DEF waiting
  <1>2. \A a, b : <<a>> = <<b>> => a = b
    OBVIOUS
  <1>3. /\ \A v : \A k : Kind(Answer(k, v)) = k /\ Value(Answer(k, v)) = v
        /\ \A r : Kind(Refusal(r)) = r
        /\ Kind(Ok) = "9000"
    BY DEF Kind, Value, Answer, Refusal, Ok
  <1>4. /\ "9000" \notin Refusals /\ "nonce" \notin Refusals /\ "map" \notin Refusals
        /\ "agree" \notin Refusals /\ "token" \notin Refusals /\ "challenge" \notin Refusals
        /\ "external" \notin Refusals
        /\ "6300" \in Refusals /\ "6985" \in Refusals /\ "6987" \in Refusals
    BY DEF Refusals
  <1>5. \A s \in PaceSteps : s \notin BacSteps
    BY DEF PaceSteps, BacSteps
  <1>6. /\ "token" \in PaceSteps /\ "external" \in BacSteps /\ "challenge" \in BacSteps
        /\ {"nonce", "map", "agree"} \subseteq PaceSteps
    BY DEF PaceSteps, BacSteps
  <1>7. /\ "Apdu" \notin LinkGone \cup KeyVerdicts /\ "SecureMessaging" \notin LinkGone \cup KeyVerdicts
        /\ "WrongKey" \notin LinkGone /\ "PaceFailed" \notin LinkGone
    BY DEF LinkGone, KeyVerdicts
  <1>8. CASE AnswerRefused
    <2>1. PICK a \in answers : Arrives(a) /\ ~Succeeds(a) /\ DriverFails(Status(a))
      BY <1>8 DEF AnswerRefused, Refused
    <2>2. newest = <<a>> /\ pc = "waiting" /\ Kind(a) \in Refusals
      BY <1>1, <2>1 DEF Succeeds
    <2>3. step \in (PaceSteps \cup BacSteps) \ {"reselect"}
      BY <1>8 DEF AnswerRefused, InDriver, TypeOK
    <2>4. CASE step = "set AT"
      <3>1. AtSetAt
        BY <2>2, <2>4 DEF RunInv
      <3>2. ~chip.open /\ ~Offers("PACE") /\ a = Refusal("6985")
        BY <1>2, <1>3, <1>4, <2>2, <3>1 DEF AtSetAt
      <3>3. Status(a) = "Apdu"
        BY <1>3, <3>2 DEF Status
      <3>4. step \in PaceSteps
        BY <2>4, Zenon DEF PaceSteps
      <3>5. Says("Apdu", "PACE") /\ Running = "PACE"
        BY <1>7, <3>2, <3>4 DEF Says, Running, Hopeless
      <3> QED
        BY <2>1, <2>2, <3>3, <3>4, <3>5
    <2>5. CASE step \in {"nonce", "map", "agree"}
      <3>1. (step = "nonce" /\ AtNonce) \/ (step = "map" /\ AtMap) \/ (step = "agree" /\ AtAgree)
        BY <2>2, <2>5 DEF RunInv
      <3>2. Kind(a) \in {"nonce", "map", "agree"}
        BY <1>2, <1>3, <2>2, <3>1 DEF AtNonce, AtMap, AtAgree, NonceAnswer
      <3> QED
        BY <1>4, <2>2, <3>2
    <2>6. CASE step = "token"
      <3>1. AtToken
        BY <2>2, <2>6 DEF RunInv
      <3>2. ~chip.open /\ ~Fits("PACE") /\ a = Refusal("6300")
        BY <1>2, <1>3, <1>4, <2>2, <3>1 DEF AtToken
      <3>3. Status(a) = "WrongKey"
        BY <1>3, <3>2 DEF Status
      <3>4. Says("WrongKey", "PACE") /\ Running = "PACE"
        BY <1>6, <1>7, <2>6, <3>2 DEF Says, Running, Hopeless
      <3> QED
        BY <2>1, <2>2, <2>3, <3>3, <3>4
    <2>7. CASE step = "challenge"
      <3>1. AtChallenge /\ step \in BacSteps /\ Running = "BAC"
        BY <1>5, <1>6, <2>2, <2>7 DEF RunInv, Running
      <3>2. \/ ~Offers("BAC") /\ a = Refusal("6985")
            \/ chip.open /\ a = Refusal("6987")
        BY <1>2, <1>3, <1>4, <2>2, <3>1 DEF AtChallenge
      <3>3. CASE ~Offers("BAC") /\ a = Refusal("6985")
        <4>1. Status(a) = "Apdu"
          BY <1>3, <3>3 DEF Status
        <4>2. Says("Apdu", "BAC")
          BY <1>7, <3>3 DEF Says, Hopeless
        <4> QED
          BY <2>1, <2>2, <3>1, <4>1, <4>2
      <3>4. CASE chip.open /\ a = Refusal("6987")
        <4>1. Status(a) = "SecureMessaging"
          BY <1>3, <3>4 DEF Status
        <4>2. doc.lenient
          <5>1. ~doc.lenient => StillClosed
            BY <2>2, <2>7 DEF StillClosed
          <5> QED
            BY <3>4, <5>1 DEF FailedInv, ClosedInv
        <4>3. Says("SecureMessaging", "BAC")
          BY <1>7, <4>2 DEF Says
        <4> QED
          BY <2>1, <2>2, <3>1, <4>1, <4>3
      <3> QED
        BY <3>2, <3>3, <3>4
    <2>8. CASE step = "external"
      <3>1. AtExternal /\ step \in BacSteps /\ Running = "BAC"
        BY <1>5, <1>6, <2>2, <2>8 DEF RunInv, Running
      <3>2. ~Fits("BAC") /\ a = Refusal("6300")
        BY <1>2, <1>3, <1>4, <2>2, <3>1 DEF AtExternal
      <3>3. Status(a) = "WrongKey"
        BY <1>3, <3>2 DEF Status
      <3>4. Says("WrongKey", "BAC")
        BY <1>7, <3>2 DEF Says, Hopeless
      <3> QED
        BY <2>1, <2>2, <3>1, <3>3, <3>4
    <2> QED
      BY <2>3, <2>4, <2>5, <2>6, <2>7, <2>8, Zenon DEF PaceSteps, BacSteps
  <1>9. CASE AnswerOfAnotherStep
    <2>1. PICK a \in answers : Arrives(a) /\ Succeeds(a) /\ Kind(a) # step
      BY <1>9 DEF AnswerOfAnotherStep
    <2>2. newest = <<a>> /\ pc = "waiting" /\ Kind(a) \notin Refusals /\ step \in Bringing
      BY <1>1, <1>9, <2>1 DEF Succeeds, AnswerOfAnotherStep
    <2>3. \/ step = "challenge" /\ AtChallenge
          \/ step = "external" /\ AtExternal
          \/ step = "nonce" /\ AtNonce
          \/ step = "map" /\ AtMap
          \/ step = "agree" /\ AtAgree
          \/ step = "token" /\ AtToken
      BY <2>2 DEF RunInv, Bringing
    <2>4. Kind(a) = step \/ Kind(a) \in Refusals
      <3>1. CASE (step = "challenge" /\ AtChallenge) \/ (step = "external" /\ AtExternal)
        BY <1>2, <1>3, <1>4, <2>2, <3>1 DEF AtChallenge, AtExternal
      <3>2. CASE (step = "nonce" /\ AtNonce) \/ (step = "map" /\ AtMap)
                 \/ (step = "agree" /\ AtAgree)
        BY <1>2, <1>3, <2>2, <3>2 DEF AtNonce, AtMap, AtAgree, NonceAnswer
      <3>3. CASE step = "token" /\ AtToken
        BY <1>2, <1>3, <1>4, <2>2, <3>3 DEF AtToken
      <3> QED
        BY <2>3, <3>1, <3>2, <3>3
    <2> QED
      BY <2>1, <2>2, <2>4
  <1>10. CASE ExchangeFails
    BY <1>10 DEF ExchangeFails
  <1>11. CASE PaceTokenDiffers
    <2>1. PICK a \in answers : Arrives(a) /\ Kind(a) = "token" /\ ~TokenMatches(a)
      BY <1>11 DEF PaceTokenDiffers
    <2>2. newest = <<a>> /\ pc = "waiting" /\ step = "token" /\ DriverFails("PaceFailed")
      BY <1>1, <1>11, <2>1 DEF PaceTokenDiffers
    <2>3. AtToken
      BY <2>2 DEF RunInv
    <2>4. Value(a) = Mac(chip.ks, chip.ifd) /\ (Fits("PACE") \/ doc.lenient)
      BY <1>2, <1>3, <2>1, <2>2, <2>3 DEF AtToken
    <2>5. chip.ifd = AgreeIfd /\ chip.ks = Shared("a_ic", AgreeIfd)
          /\ held.ic = Point("a_ic", chip.gen) /\ (held.gen = chip.gen <=> Fits("PACE"))
      BY <2>3 DEF AtToken, Agreed, Same
    <2>6. ReaderKs # chip.ks
      BY <2>1, <2>4, <2>5 DEF TokenMatches
    <2>7. ~Fits("PACE")
      BY <2>5, <2>6, Generators DEF ReaderKs, AgreeIfd
    <2>8. Says("PaceFailed", "PACE") /\ Running = "PACE"
      BY <1>6, <1>7, <2>2, <2>4, <2>7 DEF Says, Running
    <2> QED
      BY <1>6, <2>2, <2>8
  <1>12. CASE BacEchoDiffers
    <2>1. PICK a \in answers : Arrives(a) /\ Kind(a) = "external" /\ ~EchoMatches(a)
      BY <1>12 DEF BacEchoDiffers
    <2>2. newest = <<a>> /\ pc = "waiting" /\ step = "external" /\ DriverFails("WrongKey")
      BY <1>1, <1>12, <2>1 DEF BacEchoDiffers
    <2>3. AtExternal
      BY <2>2 DEF RunInv
    <2>4. Value(a) = Proof /\ (Fits("BAC") \/ doc.lenient) /\ held.challenge = chip.challenges
      BY <1>2, <1>3, <2>1, <2>2, <2>3 DEF AtExternal
    <2>5. Proof.key = Mrz("right") /\ Proof.rnd_ic = chip.challenges /\ Proof.rnd_ifd = "r_ifd"
      BY DEF Proof
    <2>6. ~Fits("BAC")
      BY <2>1, <2>4, <2>5 DEF EchoMatches, Fits
    <2>7. Says("WrongKey", "BAC") /\ Running = "BAC"
      BY <1>5, <1>6, <1>7, <2>2, <2>4, <2>6 DEF Says, Running
    <2> QED
      BY <1>6, <2>2, <2>7
  <1>13. CASE ReselectFails
    <2>1. PICK a \in answers : Arrives(a) /\ ~Verifies(a)
      BY <1>13 DEF ReselectFails
    <2>2. newest = <<a>> /\ pc = "waiting" /\ step = "reselect"
      BY <1>1, <1>13, <2>1 DEF ReselectFails
    <2>3. AtReselect /\ sm = Session(1)
      BY <2>2 DEF RunInv, SessionInv
    <2>4. a = Answer("sealed", <<chip.ks, chip.base, 2>>)
      BY <1>2, <2>2, <2>3 DEF AtReselect
    <2>5. Verifies(a)
      BY <1>3, <2>3, <2>4 DEF Verifies, Session
    <2> QED
      BY <2>1, <2>5
  <1> QED
    BY <1>8, <1>9, <1>10, <1>11, <1>12, <1>13

\* The cases of a step over such an exchange, for what is said of the failures.
LEMMA CleanMoves ==
    ASSUME TypeOK, WalkInv, SessionInv, RunInv, FailedInv, ~slipped', ReaderNext
    PROVE  \/ /\ pc = "waiting" /\ step \in PaceSteps \cup BacSteps
              /\ \E e : DriverFails(e) /\ Says(e, Running)
           \/ Learning \/ PaceOpened \/ Reselected \/ BacOpened \/ Selected
  <1>1. CASE \/ AnswerRefused \/ AnswerOfAnotherStep \/ ExchangeFails
             \/ PaceTokenDiffers \/ BacEchoDiffers \/ ReselectFails
    BY <1>1, Verdict
  <1>2. CASE PaceOpened \/ Reselected \/ BacOpened \/ Selected
    BY <1>2
  <1>3. CASE PaceSelected \/ PaceNonce \/ PaceMapped \/ PaceAgreed \/ BacChallenged
    BY <1>3, Learned
  <1> QED
    BY <1>1, <1>2, <1>3 DEF ReaderNext

LEMMA FailedStep ==
    ASSUME TypeOK, ShapeInv, WalkInv, SessionInv, RunInv, FailedInv, ~slipped', Next
    PROVE  FailedInv'
  <1> DEFINE D == {"PACE", "BAC"}
  <1>1. UNCHANGED setup
    BY TypeStep
  <1>2. \A d : (Fits(d)' <=> Fits(d)) /\ (Hopeless(d)' <=> Hopeless(d))
    BY <1>1, SetupKept DEF Hopeless
  <1>3. doc' = doc
    BY <1>1 DEF setup
  <1>4. /\ "select" \notin PaceSteps /\ "select" \notin BacSteps
        /\ \A s \in BacSteps : s \notin PaceSteps
        /\ "token" \in PaceSteps /\ "reselect" \in PaceSteps
        /\ "challenge" \in BacSteps /\ "external" \in BacSteps
    BY DEF PaceSteps, BacSteps
  <1>5. /\ <<"PACE">> # <<"BAC">> /\ <<"PACE">> # <<"PACE", "BAC">>
        /\ <<"BAC">> # <<"PACE", "BAC">>
        /\ <<"PACE">> # <<>> /\ <<"BAC">> # <<>> /\ <<"PACE", "BAC">> # <<>>
        /\ <<"PACE">>[1] = "PACE" /\ <<"PACE", "BAC">>[1] = "PACE" /\ <<"BAC">>[1] = "BAC"
    OBVIOUS
  <1>6. ASSUME best' = best \/ best' \notin KeyVerdicts, tried' = tried PROVE BestInv'
    <2>1. CASE best' \notin KeyVerdicts
      BY <2>1 DEF BestInv, KeyVerdicts
    <2>2. CASE best' = best
      BY <1>2, <1>6, <2>2 DEF FailedInv, BestInv, KeyVerdicts
    <2> QED
      BY <1>6, <2>1, <2>2
  <1>7. ASSUME \A d \in D : Failed(d)' => Failed(d) PROVE HopelessInv'
    BY <1>2, <1>3, <1>7 DEF FailedInv, HopelessInv
  <1>8. ASSUME StillClosed' => StillClosed, chip' = chip PROVE ClosedInv'
    BY <1>8 DEF FailedInv, ClosedInv
  \* a walk or a session that has come to its end
  <1>9. ASSUME pc' = "done", best' = best, tried' = tried PROVE FailedInv'
    <2>1. ~Failed("PACE")' /\ ~Failed("BAC")' /\ ~StillClosed'
      BY <1>9 DEF Failed, StillClosed
    <2>2. HopelessInv' /\ ClosedInv'
      BY <2>1 DEF HopelessInv, ClosedInv
    <2> QED
      BY <1>6, <1>9, <2>2 DEF FailedInv
  <1>10. CASE TryPinned \/ TryNext
    <2>1. pc = "choosing"
      BY <1>10 DEF TryPinned, TryNext, Asked
    <2>2. CASE \E r : Refuse(r)
      BY <1>9, <2>2, Ends
    <2>3. ASSUME NEW d \in D, Try(d), \/ d = "PACE" /\ tried = <<>>
                                      \/ d = "BAC" /\ tried \in {<<>>, <<"PACE">>}
          PROVE  FailedInv'
      <3>1. /\ pc' = "waiting" /\ tried' = Append(tried, d) /\ best' = best /\ chip' = chip
            /\ d = "PACE" => step' \in PaceSteps /\ step' \notin BacSteps
            /\ d = "BAC" => step' = "challenge"
        <4>1. d = "PACE" => step' = "set AT"
          BY <2>3, Starts, Zenon
        <4>2. "set AT" \in PaceSteps /\ "set AT" \notin BacSteps
          BY Zenon DEF PaceSteps, BacSteps
        <4> QED
          BY <2>3, <4>1, <4>2, Starts
      <3>2. CASE d = "PACE"
        <4>1. tried = <<>> /\ tried' = <<"PACE">>
          BY <1>5, <2>3, <3>1, <3>2, Appends
        <4>2. best' \notin KeyVerdicts
          BY <3>1, <4>1 DEF FailedInv, BestInv
        <4>3. ~Failed("PACE")' /\ ~Failed("BAC")'
          BY <1>5, <3>1, <3>2, <4>1 DEF Failed
        <4>4. ~StillClosed'
          BY <1>4, <3>1, <3>2 DEF StillClosed
        <4>5. BestInv'
          BY <4>2 DEF BestInv, KeyVerdicts
        <4>6. HopelessInv' /\ ClosedInv'
          BY <4>3, <4>4 DEF HopelessInv, ClosedInv
        <4> QED
          BY <4>5, <4>6 DEF FailedInv
      <3>3. CASE d = "BAC" /\ tried = <<>>
        <4>1. tried' = <<"BAC">> /\ step' = "challenge"
          BY <3>1, <3>3, Appends
        <4>2. best' \notin KeyVerdicts
          BY <3>1, <3>3 DEF FailedInv, BestInv
        <4>3. ~Failed("PACE")' /\ ~Failed("BAC")'
          BY <1>5, <3>1, <4>1 DEF Failed
        <4>4. ~chip.open
          BY <2>1, <3>3 DEF FailedInv, ClosedInv, StillClosed
        <4>5. BestInv'
          BY <4>2 DEF BestInv, KeyVerdicts
        <4>6. HopelessInv' /\ ClosedInv'
          BY <3>1, <4>3, <4>4 DEF HopelessInv, ClosedInv
        <4> QED
          BY <4>5, <4>6 DEF FailedInv
      <3>4. CASE d = "BAC" /\ tried = <<"PACE">>
        <4>1. tried' = <<"PACE", "BAC">> /\ step' = "challenge"
          BY <3>1, <3>4, Appends
        <4>2. BestInv'
          BY <1>2, <1>5, <3>1, <3>4, <4>1 DEF FailedInv, BestInv, KeyVerdicts
        <4>3. Failed("PACE") /\ ~Failed("BAC")'
          BY <1>5, <2>1, <3>1, <3>4, <4>1 DEF Failed
        <4>4. \A c \in D : Failed(c)' => Failed(c)
          BY <4>3
        <4>5. HopelessInv'
          BY <1>7, <4>4
        <4>6. StillClosed' => ~doc.lenient
          BY <1>3, <1>5, <4>1 DEF StillClosed
        <4>7. ~doc.lenient => ~chip.open
          BY <2>1, <3>4 DEF FailedInv, ClosedInv, StillClosed
        <4>8. ClosedInv'
          BY <3>1, <4>6, <4>7 DEF ClosedInv
        <4> QED
          BY <4>2, <4>5, <4>8 DEF FailedInv
      <3> QED
        BY <1>5, <2>3, <3>2, <3>3, <3>4
    <2>4. CASE TryPinned
      <3>1. tried = <<>> /\ user.method \in {"PACE", "BAC"}
        BY <2>1, <2>4 DEF TryPinned, WalkInv, Pinned, TypeOK
      <3> QED
        BY <2>2, <2>3, <2>4, <3>1 DEF TryPinned
    <2>5. CASE TryNext
      <3>1. \/ Driver = "PACE" /\ tried = <<>>
            \/ Driver = "BAC" /\ tried \in {<<>>, <<"PACE">>}
        BY <2>5, Suitable
      <3> QED
        BY <2>3, <2>5, <3>1 DEF TryNext
    <2> QED
      BY <1>10, <2>4, <2>5
  <1>11. CASE Skip
    <2>1. Probe(Driver).reason \notin KeyVerdicts
      <3>1. "none" \notin KeyVerdicts
        BY DEF KeyVerdicts
      <3> QED
        BY <3>1, Probes
    <2>2. /\ best' = best \/ best' \notin KeyVerdicts
          /\ UNCHANGED <<pc, step, tried, chip, doc>>
      BY <1>3, <1>11, <2>1 DEF Skip, wire
    <2>3. (\A d \in D : Failed(d)' => Failed(d)) /\ (StillClosed' => StillClosed)
      BY <2>2 DEF Failed, StillClosed, PaceSteps
    <2> QED
      BY <1>6, <1>7, <1>8, <2>2, <2>3 DEF FailedInv
  <1>12. CASE Exhausted \/ Cancel
    <2>1. \E r : Refuse(r)
      BY <1>12 DEF Exhausted, Cancel
    <2> QED
      BY <1>9, <2>1, Ends
  <1>13. CASE Stop \/ ChipNext
    <2>1. UNCHANGED <<pc, step, tried, best>>
      BY <1>13, Received DEF Stop, reader, progress
    <2>2. (\A d \in D : Failed(d)' => Failed(d)) /\ (StillClosed' => StillClosed)
      BY <1>3, <2>1 DEF Failed, StillClosed, PaceSteps
    <2>3. StillClosed => chip'.open = chip.open
      <3>1. CASE Stop
        BY <3>1 DEF Stop, wire
      <3>2. ASSUME ChipNext, StillClosed PROVE chip'.open = chip.open
        <4>1. step = "select" \/ step = "challenge"
          BY <3>2, Received DEF StillClosed, waiting
        <4>2. ChipSelects \/ ChipChallenges \/ ChipRefuses \/ ChipInSession
          BY <3>2, <4>1
             DEF ChipNext, ChipAuthenticates, ChipSetsAt, ChipSendsNonce, ChipMaps, ChipAgrees,
                 ChipChecksToken, ChipReselects, General, Plain
        <4>3. CASE ChipChallenges
          BY <4>3 DEF ChipChallenges, ShapeInv
        <4> QED
          BY <4>2, <4>3 DEF ChipSelects, ChipRefuses, ChipInSession
      <3> QED
        BY <1>13, <3>1, <3>2
    <2>4. ClosedInv'
      BY <2>2, <2>3 DEF FailedInv, ClosedInv
    <2> QED
      BY <1>6, <1>7, <2>1, <2>2, <2>4 DEF FailedInv
  <1>14. ASSUME NEW e, DriverFails(e), Says(e, Running), pc = "waiting",
                step \in PaceSteps \cup BacSteps
         PROVE  FailedInv'
    <2>1. tried' = tried /\ chip' = chip
      BY <1>14, Failure
    <2>2. \/ Running = "PACE" /\ step \in PaceSteps /\ tried = <<"PACE">>
          \/ /\ Running = "BAC" /\ step \in BacSteps /\ step \notin PaceSteps
             /\ tried \in {<<"BAC">>, <<"PACE", "BAC">>}
      BY <1>4, <1>14 DEF Running, WalkInv
    <2>3. Running = "PACE" => ~Failed("BAC")' /\ tried = <<"PACE">>
      BY <1>5, <2>1, <2>2 DEF Failed
    <2>4. Running = "BAC" => (Failed("PACE")' => Failed("PACE"))
      BY <1>14, <2>1, <2>2 DEF Failed
    <2>5. HopelessInv'
      <3>1. ASSUME ~doc.lenient, NEW d \in D, Failed(d)' PROVE Hopeless(d)
        <4>1. CASE d = Running
          BY <1>14, <3>1, <4>1 DEF Says
        <4>2. CASE d # Running
          <5>1. d = "PACE" /\ Running = "BAC"
            BY <2>2, <2>3, <3>1, <4>2
          <5> QED
            BY <2>4, <3>1, <5>1 DEF FailedInv, HopelessInv
        <4> QED
          BY <4>1, <4>2
      <3> QED
        BY <1>2, <1>3, <3>1 DEF HopelessInv
    <2>6. ClosedInv'
      <3>1. ASSUME StillClosed' PROVE ~chip.open
        <4>1. pc' # "waiting" \/ step' = "select"
          BY <1>14, Failure
        <4>2. tried = <<"PACE">> /\ ~doc.lenient
          BY <1>3, <1>5, <2>1, <2>2, <3>1, <4>1 DEF StillClosed
        <4>3. Running = "PACE"
          BY <1>5, <2>2, <4>2
        <4> QED
          BY <1>14, <4>2, <4>3 DEF Says
      <3> QED
        BY <2>1, <3>1 DEF ClosedInv
    <2>7. BestInv'
      <3>1. best' = best \/ best' = Diagnosis(e)
        BY <1>14, Failure
      <3>2. CASE best' = best \/ best' \notin KeyVerdicts
        BY <1>6, <2>1, <3>2
      <3>3. CASE best' # best /\ best' \in KeyVerdicts
        <4>1. Len(tried) = 1 /\ best' = e
          BY <3>1, <3>3 DEF Diagnosis
        <4>2. e \in KeyVerdicts /\ ~Fits(Running)
          BY <1>14, <3>3, <4>1 DEF Says, KeyVerdicts
        <4>3. Len(<<"PACE", "BAC">>) = 2
          OBVIOUS
        <4>4. tried # <<>> /\ tried[1] = Running
          BY <1>5, <2>2, <4>1, <4>3
        <4> QED
          BY <1>2, <2>1, <4>2, <4>4 DEF BestInv
      <3> QED
        BY <3>2, <3>3
    <2> QED
      BY <2>5, <2>6, <2>7 DEF FailedInv
  <1>15. CASE Learning
    <2>1. /\ pc = "waiting" /\ pc' = "waiting" /\ UNCHANGED <<tried, best, chip>>
          /\ Follows(step, step')
      BY <1>15 DEF Learning, waiting, progress
    <2>2. /\ step' # "select" /\ step' # "challenge"
          /\ step \in PaceSteps \/ step' \notin PaceSteps
          /\ step' \in PaceSteps \/ step \notin PaceSteps
      BY <2>1 DEF Follows, PaceSteps
    <2>3. (\A d \in D : Failed(d)' => Failed(d)) /\ ~StillClosed'
      BY <2>1, <2>2 DEF Failed, StillClosed
    <2> QED
      BY <1>6, <1>7, <1>8, <2>1, <2>3 DEF FailedInv
  <1>16. CASE PaceOpened
    <2>1. pc' = "waiting" /\ step' = "reselect" /\ UNCHANGED <<tried, best, chip>>
      BY <1>16 DEF PaceOpened, Send, progress
    <2>2. ~Failed("PACE")' /\ ~Failed("BAC")' /\ ~StillClosed'
      BY <1>4, <2>1 DEF Failed, StillClosed
    <2> QED
      BY <1>6, <1>7, <1>8, <2>1, <2>2 DEF FailedInv
  <1>17. CASE Reselected \/ BacOpened
    <2>1. pc' = "done" /\ UNCHANGED <<tried, best>>
      BY <1>17 DEF Reselected, BacOpened, Publish, Done
    <2> QED
      BY <1>9, <2>1
  <1>18. CASE Selected
    <2>1. pc = "waiting" /\ step = "select" /\ pc' = "choosing" /\ UNCHANGED <<step, tried, best, chip>>
      BY <1>18 DEF Selected, waiting
    <2>2. (\A d \in D : Failed(d)' => Failed(d)) /\ (StillClosed' => StillClosed)
      BY <1>3, <1>4, <2>1 DEF Failed, StillClosed
    <2> QED
      BY <1>6, <1>7, <1>8, <2>1, <2>2 DEF FailedInv
  <1> QED
    BY <1>10, <1>11, <1>12, <1>13, <1>14, <1>15, <1>16, <1>17, <1>18, CleanMoves DEF Next, Walk

(***************************************************************************)
(* The end of the walk.                                                    *)
(***************************************************************************)
\* How a walk over an exchange that did nothing wrong comes to its end.
LEMMA EndOfTheWalk ==
    ASSUME TypeOK, ShapeInv, WalkInv, SessionInv, RunInv, FailedInv, ~slipped', Next,
           pc' = "done"
    PROVE  /\ UNCHANGED <<setup, tried, stop>>
           /\ \/ /\ Pinned /\ Probe(user.method).score = "Unsupported"
                 /\ result' \in (Errors \ KeyVerdicts) \cup {"none"}
              \/ ~Pinned /\ stop /\ result' = "Cancelled"
              \/ /\ ~Pinned /\ pc = "choosing" /\ tried = RanBefore(5) /\ result' = best
              \/ /\ Pinned /\ tried = <<user.method>> /\ Says(result', user.method)
              \/ result' = "none" /\ published' # "none"
  <1>1. pc # "done"
    <2>1. CASE Walk
      BY <2>1 DEF Walk, TryPinned, TryNext, Skip, Exhausted, Cancel, Stop, Asked
    <2>2. CASE ReaderNext
      BY <2>2, ReaderMoves DEF Failing, Learning, GivingUp, PaceOpened, Reselected, BacOpened,
                               Selected, Arrives, waiting
    <2>3. CASE ChipNext
      BY <2>3, Received DEF waiting
    <2> QED
      BY <2>1, <2>2, <2>3 DEF Next
  <1>2. CASE TryPinned
    <2>1. Pinned
      BY <1>2 DEF TryPinned
    <2>2. Refuse(Probe(user.method).reason) /\ Probe(user.method).score = "Unsupported"
      <3>1. ~Try(user.method)
        BY Starts
      <3> QED
        BY <1>2, <3>1 DEF TryPinned
    <2> QED
      BY <2>1, <2>2, Ends, Probes
  <1>3. CASE TryNext
    BY <1>3, Starts DEF TryNext
  <1>4. CASE Skip \/ Stop
    BY <1>1, <1>4 DEF Skip, Stop, reader
  <1>5. CASE Exhausted
    <2>1. pc = "choosing" /\ ~Pinned /\ turn > 4 /\ Refuse(best)
      BY <1>5, TurnsAre DEF Exhausted
    <2>2. turn = 5
      BY <2>1, TurnsAre DEF TypeOK
    <2> QED
      BY <2>1, <2>2, Ends DEF WalkInv
  <1>6. CASE Cancel
    <2>1. ~Pinned /\ stop /\ Refuse("Cancelled")
      BY <1>6 DEF Cancel
    <2> QED
      BY <2>1, Ends
  <1>7. CASE ChipNext
    BY <1>1, <1>7, Received DEF reader
  <1>8. ASSUME NEW e, DriverFails(e), Says(e, Running), pc = "waiting",
               step \in PaceSteps \cup BacSteps
        PROVE  Pinned /\ tried = <<user.method>> /\ Says(e, user.method)
               /\ result' = e /\ UNCHANGED <<setup, tried, stop>>
    <2>1. Pinned /\ result' = e /\ UNCHANGED <<setup, tried, stop>>
      BY <1>8, Failure DEF Says
    <2>2. tried = <<user.method>>
      BY <1>8, <2>1 DEF WalkInv
    <2>3. user.method = Running
      <3>1. CASE step \in PaceSteps
        BY <1>8, <2>2, <3>1 DEF WalkInv, Running
      <3>2. CASE step \notin PaceSteps
        <4>1. tried \in {<<"BAC">>, <<"PACE", "BAC">>}
          BY <1>8, <3>2 DEF WalkInv
        <4>2. user.method = "BAC"
          BY <2>2, <4>1
        <4> QED
          BY <3>2, <4>2 DEF Running
      <3> QED
        BY <3>1, <3>2
    <2> QED
      BY <1>8, <2>1, <2>2, <2>3
  <1>9. CASE Reselected \/ BacOpened
    <2>1. Publish("PACE") \/ Publish("BAC")
      BY <1>9 DEF Reselected, BacOpened
    <2> QED
      BY <2>1 DEF Publish, Done
  <1>10. CASE Learning \/ PaceOpened \/ Selected
    BY <1>10 DEF Learning, PaceOpened, Selected, Send
  <1> QED
    BY <1>2, <1>3, <1>4, <1>5, <1>6, <1>7, <1>8, <1>9, <1>10, CleanMoves DEF Next, Walk

LEMMA BlameStep ==
    ASSUME IInv, Next
    PROVE  BlamesTheWrongKey'
  <1> SUFFICES ASSUME pc' = "done", result' \in KeyVerdicts, ~slipped'
               PROVE  ~Fits(tried[1])'
    BY DEF BlamesTheWrongKey, KeyVerdicts
  <1>1. ~slipped
    BY TypeStep DEF IInv
  <1>2. TypeOK /\ ShapeInv /\ WalkInv /\ SessionInv /\ RunInv /\ FailedInv
    BY <1>1 DEF IInv
  <1>3. /\ UNCHANGED <<setup, tried>>
        /\ \/ pc = "choosing" /\ tried = RanBefore(5) /\ result' = best
           \/ Pinned /\ tried = <<user.method>> /\ Says(result', user.method)
    <2>1. "none" \notin KeyVerdicts /\ "Cancelled" \notin KeyVerdicts
      BY DEF KeyVerdicts
    <2> QED
      BY <1>2, <2>1, EndOfTheWalk
  <1>4. \A d : Fits(d)' <=> Fits(d)
    BY <1>3, SetupKept
  <1>5. tried # <<>> /\ ~Fits(tried[1])
    <2>1. CASE result' = best
      <3>1. tried # <<>> /\ \A d \in {"PACE", "BAC"} : tried[1] = d => ~Fits(d)
        BY <1>2, <2>1 DEF FailedInv, BestInv
      <3>2. tried[1] \in {"PACE", "BAC"}
        BY <1>2, <3>1 DEF TypeOK
      <3> QED
        BY <3>1, <3>2
    <2>2. CASE tried = <<user.method>> /\ Says(result', user.method)
      <3>1. tried[1] = user.method /\ tried # <<>>
        BY <2>2
      <3>2. ~Fits(user.method)
        BY <2>2 DEF Says
      <3> QED
        BY <3>1, <3>2
    <2> QED
      BY <1>3, <2>1, <2>2
  <1>6. tried[1]' = tried[1]
    BY <1>3
  <1> QED
    BY <1>4, <1>5, <1>6

LEMMA OpensStep ==
    ASSUME IInv, Next
    PROVE  RightKeyOpens'
  <1> SUFFICES ASSUME pc' = "done", ~slipped', ~stop', ~doc'.lenient,
                      NEW d \in {"PACE", "BAC"}, MayTry(d)', Offers(d)', Fits(d)'
               PROVE  published' # "none"
    BY DEF RightKeyOpens
  <1>1. ~slipped
    BY TypeStep DEF IInv
  <1>2. TypeOK /\ ShapeInv /\ WalkInv /\ SessionInv /\ RunInv /\ FailedInv
    BY <1>1 DEF IInv
  <1>3. UNCHANGED <<setup, tried, stop>>
    BY <1>2, EndOfTheWalk
  <1>4. doc' = doc /\ user' = user
    BY <1>3 DEF setup
  <1>5. Offers(d) /\ Fits(d) /\ user.method \in {"Auto", d} /\ Probe(d).score # "Unsupported"
    <2>1. Probe(d)' = Probe(d) /\ (Offers(d)' <=> Offers(d)) /\ (Fits(d)' <=> Fits(d))
      BY <1>3, SetupKept
    <2> QED
      BY <1>4, <2>1 DEF MayTry
  <1>6. Pinned => user.method = d
    BY <1>5 DEF Pinned
  <1>7. ~Says(result', d)
    BY <1>4, <1>5 DEF Says, Hopeless
  <1>8. ASSUME pc = "choosing", tried = RanBefore(5) PROVE FALSE
    <2>1. (d = "PACE" => PaceRuns) /\ (d = "BAC" => BacRuns)
      BY <1>5, Probes DEF PaceRuns, BacRuns
    <2>2. /\ d = "PACE" => tried \in {<<"PACE">>, <<"PACE", "BAC">>}
          /\ d = "BAC" => tried \in {<<"BAC">>, <<"PACE", "BAC">>}
      BY <1>8, <2>1 DEF RanBefore
    <2>3. Failed(d)
      BY <1>8, <2>2 DEF Failed
    <2>4. Hopeless(d)
      BY <1>2, <1>4, <2>3 DEF FailedInv, HopelessInv
    <2> QED
      BY <1>5, <2>4 DEF Hopeless
  <1>9. ~stop
    BY <1>3
  <1> QED
    BY <1>2, <1>5, <1>6, <1>7, <1>8, <1>9, EndOfTheWalk

(***************************************************************************)
(* The theorems.                                                           *)
(***************************************************************************)
LEMMA InvInit == Init => IInv
  <1> SUFFICES ASSUME Init PROVE IInv
    OBVIOUS
  <1>1. Copies \in Nat
    BY CopiesAssumption DEF CopiesAssumption
  <1>2. /\ pc = "choosing" /\ turn = 1 /\ tried = <<>> /\ step = "select" /\ held = Nothing
        /\ sm = NoSession /\ keys = NoSession /\ published = "none" /\ ~chip.open
        /\ copies = 0 /\ newest = <<>> /\ answers = {Ok} /\ slipped = FALSE
        /\ best = "NoAccessMethod" /\ result = "none" /\ stop = FALSE
    BY DEF Init
  <1>3. /\ chip = [open |-> FALSE, ks |-> <<>>, base |-> <<>>, n |-> 0,
                   paceSelected |-> FALSE, gen |-> <<>>, ifd |-> <<>>,
                   challenges |-> 0, hasChallenge |-> FALSE]
    BY DEF Init
  <1>4. TypeOK
    <2>1. copies \in 0..Copies /\ turn \in 1..(Len(Turns) + 1)
      BY <1>1, <1>2, TurnsAre
    <2>2. /\ chip.n \in Nat /\ chip.challenges \in Nat /\ chip.open \in BOOLEAN
          /\ chip.paceSelected \in BOOLEAN /\ chip.hasChallenge \in BOOLEAN
      BY <1>3
    <2>3. stop \in BOOLEAN /\ slipped \in BOOLEAN
      BY <1>2
    <2>4. best \in Errors /\ result \in Errors \cup {"none", "Cancelled"}
      BY <1>2 DEF Errors
    <2> QED
      BY <1>2, <2>1, <2>2, <2>3, <2>4 DEF Init, TypeOK
  <1>5. ShapeInv
    BY <1>2, <1>3 DEF ShapeInv, Nothing
  <1>6. WalkInv
    BY <1>2 DEF WalkInv, RanBefore
  <1>7. AnswersInv
    BY <1>2 DEF AnswersInv, Said, Ok, Kind
  <1>8. SessionInv
    BY <1>2 DEF SessionInv
  <1>9. BlamesTheWrongKey /\ RightKeyOpens
    BY <1>2 DEF BlamesTheWrongKey, RightKeyOpens
  <1>10. RunInv
    BY <1>2 DEF RunInv
  <1>11. FailedInv
    <2>1. best \notin KeyVerdicts
      BY <1>2 DEF KeyVerdicts
    <2>2. ~Failed("PACE") /\ ~Failed("BAC")
      BY <1>2 DEF Failed
    <2> QED
      BY <1>2, <2>1, <2>2 DEF FailedInv, BestInv, HopelessInv, ClosedInv
  <1> QED
    BY <1>4, <1>5, <1>6, <1>7, <1>8, <1>9, <1>10, <1>11 DEF IInv

LEMMA InvStep == IInv /\ [Next]_vars => IInv'
  <1> SUFFICES ASSUME IInv, [Next]_vars PROVE IInv'
    OBVIOUS
  <1>1. CASE Next
    <2>1. TypeOK /\ ShapeInv /\ WalkInv /\ AnswersInv /\ SessionInv
      BY DEF IInv
    <2>2. TypeOK' /\ ShapeInv' /\ WalkInv' /\ AnswersInv'
      BY <1>1, <2>1, TypeStep, WalkStep, AnswersStep
    <2>3. SessionInv'
      <3>1. ~slipped => RunInv
        BY DEF IInv
      <3> QED
        BY <1>1, <2>1, <3>1, SessionStep
    <2>4. BlamesTheWrongKey' /\ RightKeyOpens'
      BY <1>1, BlameStep, OpensStep
    <2>5. ASSUME ~slipped' PROVE RunInv' /\ FailedInv'
      <3>1. RunInv /\ FailedInv
        BY <1>1, <2>1, <2>5, TypeStep DEF IInv
      <3>2. RunInv'
        BY <1>1, <2>1, <2>5, <3>1, WalkRun, ReaderRun, ChipRun DEF Next
      <3>3. FailedInv'
        BY <1>1, <2>1, <2>5, <3>1, FailedStep
      <3> QED
        BY <3>2, <3>3
    <2> QED
      BY <2>2, <2>3, <2>4, <2>5 DEF IInv
  <1>2. CASE UNCHANGED vars
    <2>1. UNCHANGED <<user, doc, pc, turn, best, result, tried, step, held, sm, keys, published,
                      stop, chip, copies, answers, newest, slipped>>
      BY <1>2 DEF vars, setup, reader, progress, sessions, wire
    <2>2. UNCHANGED setup
      BY <2>1 DEF setup
    <2>3. /\ (Pinned' <=> Pinned) /\ (PaceRuns' <=> PaceRuns) /\ (BacRuns' <=> BacRuns)
          /\ ChipPassword' = ChipPassword
          /\ \A d : (Fits(d)' <=> Fits(d)) /\ (Offers(d)' <=> Offers(d)) /\ Probe(d)' = Probe(d)
      BY <2>2, SetupKept
    <2>4. TypeOK' /\ ShapeInv'
      <3>1. TypeOK /\ ShapeInv
        BY DEF IInv
      <3> QED
        BY <2>1, <3>1 DEF TypeOK, ShapeInv, Turns
    <2>5. WalkInv'
      <3>1. ProbePace' = ProbePace /\ ProbeBac' = ProbeBac
        BY <2>1 DEF ProbePace, ProbeBac
      <3>2. Probe(user.method)' = Probe(user.method)
        BY <2>1, <3>1 DEF Probe
      <3> QED
        BY <2>1, <2>3, <3>2 DEF IInv, WalkInv, RanBefore
    <2>6. AnswersInv'
      BY <2>1 DEF IInv, AnswersInv, Said
    <2>7. SessionInv'
      <3>1. (\A n : Session(n)' = Session(n)) /\ NoSession' = NoSession
        BY <2>1 DEF Session, NoSession
      <3>2. SessionInv
        BY DEF IInv
      <3> QED
        BY <2>1, <3>1, <3>2 DEF SessionInv, Session
    <2>8. BlamesTheWrongKey'
      <3>1. Fits(tried[1])' <=> Fits(tried[1])
        BY <2>1 DEF Fits, PacePassword, ChipPassword, Can, Mrz
      <3> QED
        BY <2>1, <3>1 DEF IInv, BlamesTheWrongKey, KeyVerdicts
    <2>9. RightKeyOpens'
      <3>1. \A d : MayTry(d)' <=> MayTry(d)
        BY <2>1, <2>3 DEF MayTry
      <3> QED
        BY <2>1, <2>3, <3>1 DEF IInv, RightKeyOpens
    <2>10. ASSUME RunInv PROVE RunInv'
      BY <2>1, <2>2, <2>10, SameRun
    <2>11. ASSUME FailedInv PROVE FailedInv'
      <3>1. \A d : (Hopeless(d)' <=> Hopeless(d)) /\ (Failed(d)' <=> Failed(d))
        BY <2>1, <2>3 DEF Hopeless, Failed, PaceSteps
      <3>2. StillClosed' <=> StillClosed
        BY <2>1 DEF StillClosed
      <3>3. BestInv'
        BY <2>1, <2>3, <2>11 DEF FailedInv, BestInv, KeyVerdicts
      <3> QED
        BY <2>1, <2>11, <3>1, <3>2, <3>3 DEF FailedInv, HopelessInv, ClosedInv
    <2> QED
      BY <2>1, <2>4, <2>5, <2>6, <2>7, <2>8, <2>9, <2>10, <2>11 DEF IInv
  <1> QED
    BY <1>1, <1>2

THEOREM Invariance == Spec => []IInv
  BY InvInit, InvStep, PTL DEF Spec

\* The types of what the reader and the chip keep, in every read and over any
\* exchange (emrtd_worker.c, emrtd_sim.c).
THEOREM AccessTypeCorrect == Spec => []TypeOK
  <1>1. IInv => TypeOK
    BY DEF IInv
  <1> QED
    BY <1>1, Invariance, PTL

\* A reader with a session is never alone with it: the chip holds the same keys, from
\* the same start, and is not behind (emrtd_pace.c:606-628, emrtd_worker.c:1498-1521),
\* whatever the exchange lost, repeated or brought late.
THEOREM SessionsAgree == Spec => []Agreement
  <1>1. IInv => Agreement
    <2> SUFFICES ASSUME IInv, sm # NoSession
                 PROVE  /\ chip.open /\ chip.ks = sm.ks /\ chip.base = sm.base
                        /\ keys = [sm EXCEPT !.n = 0]
                        /\ published # "none" => sm.n <= chip.n /\ (slipped \/ sm.n = chip.n)
      BY DEF Agreement
    <2>1. SessionInv /\ chip.n \in Nat
      BY DEF IInv, TypeOK
    <2>2. chip.open /\ keys = Session(0) /\ \E n : sm = Session(n)
      BY <2>1 DEF SessionInv
    <2>3. chip.ks = sm.ks /\ chip.base = sm.base /\ keys = [sm EXCEPT !.n = 0]
      BY <2>2 DEF Session
    <2>4. ASSUME published # "none" PROVE sm.n <= chip.n /\ (slipped \/ sm.n = chip.n)
      <3>1. PICK n \in 0..chip.n : sm = Session(n) /\ (slipped \/ n = chip.n)
        BY <2>1, <2>4 DEF SessionInv
      <3>2. sm.n = n
        BY <3>1 DEF Session
      <3>3. n <= chip.n
        BY <2>1
      <3> QED
        BY <3>1, <3>2, <3>3
    <2> QED
      BY <2>2, <2>3, <2>4
  <1> QED
    BY <1>1, Invariance, PTL

\* A verdict on the key is true of the key of the first driver that ran, for every
\* document and every pair of a CAN and an MRZ, over an exchange that did nothing wrong
\* (emrtd_worker.c:1620-1640).
THEOREM VerdictIsTrue == Spec => []BlamesTheWrongKey
  <1>1. IInv => BlamesTheWrongKey
    BY DEF IInv
  <1> QED
    BY <1>1, Invariance, PTL

\* A document that one of the drivers could open is opened, whatever failed before it
\* (emrtd_worker.c:1556-1563).
THEOREM RightKeyIsUsed == Spec => []RightKeyOpens
  <1>1. IInv => RightKeyOpens
    BY DEF IInv
  <1> QED
    BY <1>1, Invariance, PTL

\* A session that did not come to be leaves no key in the record and none in the worker
\* (emrtd_worker.c:1490-1547).
THEOREM NothingIsLeft == Spec => []NothingOfAFailure
  <1>1. IInv => NothingOfAFailure
    <2> SUFFICES ASSUME IInv, pc # "waiting", published = "none"
                 PROVE  sm = NoSession /\ keys = NoSession
      BY DEF NothingOfAFailure
    <2> QED
      BY DEF IInv, SessionInv
  <1> QED
    BY <1>1, Invariance, PTL
=============================================================================
