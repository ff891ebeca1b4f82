---------------------------- MODULE AccessControl -----------------------------
(***************************************************************************)
(* Opening the chip: emrtd_worker_authenticate walking the registry of     *)
(* drivers, PACE with the generic mapping (emrtd_pace_run) and BAC on the  *)
(* reader's side, the simulated chip of sim/emrtd_sim.c on the other.      *)
(*                                                                         *)
(* Cryptography is symbolic.  A point is a scalar and the generator it     *)
(* multiplies, a shared secret is the two scalars and that generator, a    *)
(* checksum is the key and what it covers; decrypting under another key    *)
(* gives "garbage".  Each protocol runs at most once in a read, so its     *)
(* random values are constants; the challenges of the chip are numbered.   *)
(* An answer is what it is and what it carries.                            *)
(*                                                                         *)
(* The exchange below is the weak one of SecureSession: it may fail before *)
(* or after the chip has run the command, hand it a second copy, or bring  *)
(* back an earlier answer.  The selection of the application and the read  *)
(* of EF.CardAccess are over when this begins, and the chip never refuses  *)
(* to select the application, as the simulated one does not.               *)
(***************************************************************************)
EXTENDS Naturals, Sequences

CONSTANT Copies         \* how often the chip may receive one command

ASSUME CopiesAssumption == Copies \in Nat

Drivers == <<"PACE", "BAC">>
\* The order of the turns: the best score first, and the registry within it.
Turns == <<<<"Announced", "PACE">>, <<"Announced", "BAC">>,
           <<"Possible", "PACE">>, <<"Possible", "BAC">>>>

VARIABLES
    user,       \* worker->config: the method, the CAN and the MRZ input
    doc,        \* the document: what it announces, offers and is opened with
    \* the reader
    pc,         \* "choosing", "waiting" for an answer, or "done"
    turn,       \* the turn of the walk
    step,       \* the command being exchanged
    held,       \* what the run in progress has learned from the chip
    sm,         \* worker->sm, NoSession when sm_active is false
    keys,       \* result->keys: the session as it started, NoSession when wiped
    published,  \* the driver of result->access, "none" until authenticated
    best,       \* best_error
    result,     \* what emrtd_worker_authenticate returned
    stop,       \* stop_requested
    tried,      \* the drivers that have run
    \* the chip and the exchange
    chip,       \* the state of EmrtdSim
    copies,     \* copies of the command it has received
    answers,    \* every answer it has sent
    newest,     \* its answer to the command being exchanged, <<>> before
    slipped     \* history: an exchange failed, or its answer was not the one

progress == <<turn, best, result, tried>>
sessions == <<sm, keys, published>>
reader   == <<pc, progress, step, held, sessions>>
wire     == <<chip, copies, answers, newest, slipped>>
setup    == <<user, doc>>
vars     == <<setup, reader, stop, wire>>

NoSession == [ks |-> <<>>, base |-> <<>>, n |-> 0]
Nothing   == [challenge |-> 0, nonce |-> "none", gen |-> <<>>, ic |-> <<>>]

(***************************************************************************)
(* Symbolic cryptography.                                                  *)
(***************************************************************************)
G == <<"G">>
Point(x, g) == <<x, g>>
Shared(x, p) == <<{x, p[1]}, p[2]>>             \* x times p
Mapped(nonce, h) == <<nonce, h>>                \* nonce * G + h
Mac(ks, covered) == <<ks, covered>>

Can(v) == <<"CAN", v>>
Mrz(v) == <<"MRZ", v>>

\* emrtd_pace_uses_can, on either side: the CAN when there is one.
PacePassword == IF user.can # "none" THEN Can(user.can) ELSE Mrz(user.mrz)
ChipPassword == IF doc.hasCan THEN Can("right") ELSE Mrz("right")

Decrypted(c) == IF c.key = PacePassword THEN c.value ELSE "garbage"

(***************************************************************************)
(* The answers of the chip: a refusal by its status word, a success by     *)
(* what the step brings.                                                   *)
(***************************************************************************)
Refusals == {"6300", "6985", "6987", "6988"}
Ok == <<"9000", "none">>
Answer(kind, value) == <<kind, value>>
Refusal(sw) == <<sw, "none">>
Kind(a) == a[1]
Value(a) == a[2]
Succeeds(a) == Kind(a) \notin Refusals

(***************************************************************************)
(* The drivers' own verdict on the document and the credentials.           *)
(***************************************************************************)
ProbePace ==
    IF doc.announces = "nothing" THEN [score |-> "Unsupported", reason |-> "NoAccessMethod"]
    ELSE IF doc.announces = "unusable" THEN [score |-> "Unsupported", reason |-> "Unusable"]
    ELSE IF user.can = "none" /\ user.mrz = "none"
         THEN [score |-> "Unsupported", reason |-> "InvalidInput"]
    ELSE [score |-> "Announced", reason |-> "none"]

ProbeBac ==
    IF user.mrz = "none" THEN [score |-> "Unsupported", reason |-> "InvalidInput"]
    ELSE [score |-> "Possible", reason |-> "none"]

Probe(d) == IF d = "PACE" THEN ProbePace ELSE ProbeBac

(***************************************************************************)
(* The walk.                                                               *)
(***************************************************************************)
KeyVerdicts == {"WrongKey", "PaceFailed"}
LinkGone    == {"CardLost", "Transport"}
LinkErrors  == LinkGone \cup {"Protocol", "BufferTooSmall"}

Pinned == user.method # "Auto"

Send(s) ==
    /\ pc' = "waiting" /\ step' = s
    /\ copies' = 0 /\ newest' = <<>>
    /\ UNCHANGED <<chip, answers>>

Done(r) ==
    /\ pc' = "done" /\ result' = r
    /\ UNCHANGED <<step, chip, copies, answers, newest>>

\* emrtd_worker_try_driver
Try(d) ==
    /\ tried' = Append(tried, d) /\ held' = Nothing
    /\ Send(IF d = "PACE" THEN "set AT" ELSE "challenge")
    /\ UNCHANGED <<setup, turn, best, result, sessions, stop, slipped>>

Refuse(r) ==
    /\ Done(r)
    /\ UNCHANGED <<setup, turn, best, tried, held, sessions, stop, slipped>>

TryPinned ==
    /\ pc = "choosing" /\ Pinned
    /\ \/ Probe(user.method).score # "Unsupported" /\ Try(user.method)
       \/ Probe(user.method).score = "Unsupported" /\ Refuse(Probe(user.method).reason)

Driver == Turns[turn][2]
Asked  == pc = "choosing" /\ ~Pinned /\ turn <= Len(Turns) /\ ~stop
Suits  == Probe(Driver).score = Turns[turn][1]

TryNext == Asked /\ Suits /\ Try(Driver)

Skip ==
    /\ Asked /\ ~Suits /\ turn' = turn + 1
    /\ LET reason == Probe(Driver).reason IN
       best' = IF reason # "none" /\ best = "NoAccessMethod" THEN reason ELSE best
    /\ UNCHANGED <<setup, pc, step, held, sessions, result, tried, stop, wire>>

Exhausted == pc = "choosing" /\ ~Pinned /\ turn > Len(Turns) /\ Refuse(best)

Cancel == pc = "choosing" /\ ~Pinned /\ turn <= Len(Turns) /\ stop /\ Refuse("Cancelled")

Stop == ~stop /\ pc # "done" /\ stop' = TRUE /\ UNCHANGED <<setup, reader, wire>>

\* The first driver to run has said what is wrong; nothing a later one says
\* replaces it.  A probe's reason yields to a verdict on the key.
DiagnosisAnyVerdict(e) ==
    IF best = "NoAccessMethod" \/ e \in KeyVerdicts THEN e ELSE best
Diagnosis(e) ==
    IF Len(tried) = 1 /\ (best = "NoAccessMethod" \/ e \in KeyVerdicts) THEN e ELSE best

\* After a failure: what was held is wiped, and unless the document has gone the
\* application is selected again, in the clear, for the next driver.
Carry(e) ==
    /\ held' = Nothing /\ published' = published
    /\ IF Pinned
       THEN Done(e) /\ UNCHANGED best
       ELSE /\ best' = Diagnosis(e)
            /\ IF e \in LinkGone THEN Done(best') ELSE Send("select") /\ UNCHANGED result
    /\ UNCHANGED <<setup, turn, tried, stop>>

DriverFailsKeepsKeys(e) == sm' = NoSession /\ keys' = keys /\ Carry(e)
DriverFails(e) == sm' = NoSession /\ keys' = NoSession /\ Carry(e)

(***************************************************************************)
(* The answers.                                                            *)
(***************************************************************************)
waiting == pc = "waiting"

\* An answer arrives: the chip's own to this command, or an earlier one.
Arrives(a) ==
    /\ waiting
    /\ \/ newest = <<a>> /\ UNCHANGED slipped
       \/ a \in answers /\ newest # <<a>> /\ slipped' = TRUE

Status(a) ==
    IF Kind(a) = "6300" THEN "WrongKey"
    ELSE IF Kind(a) = "6987" THEN "SecureMessaging"
    ELSE "Apdu"

\* The PACE steps before the last do not read 63xx as a verdict on the key, but
\* emrtd_error_from_sw does; the simulated chip sends it at the last step alone.
Refused(a) == Arrives(a) /\ ~Succeeds(a) /\ DriverFails(Status(a))

InDriver == step \notin {"select", "reselect"}
AnswerRefused == InDriver /\ \E a \in answers : Refused(a)

\* Success, without what the step has to bring: a challenge of another length, a
\* payload of another length, or no DO 7C with the object asked for.
Bringing == {"challenge", "external", "nonce", "map", "agree", "token"}
AnswerOfAnotherStep ==
    /\ step \in Bringing
    /\ \E a \in answers :
          /\ Arrives(a) /\ Succeeds(a) /\ Kind(a) # step
          /\ DriverFails(IF step \in {"challenge", "external"} THEN "Protocol" ELSE "Parse")

\* The exchange below gave up.
ExchangeFails ==
    /\ waiting /\ slipped' = TRUE
    /\ \E e \in LinkErrors :
          \/ step # "select" /\ DriverFails(e)
          \/ /\ step = "select" /\ Done(best)
             /\ UNCHANGED <<setup, turn, best, tried, held, sessions, stop>>

\* Any answer at all to the selection between two drivers will do.
Selected ==
    /\ waiting /\ step = "select" /\ \E a \in answers : Arrives(a)
    /\ pc' = "choosing" /\ turn' = turn + 1
    /\ UNCHANGED <<setup, step, held, sessions, best, result, tried, stop, chip, copies,
                   answers, newest>>

\* A step that succeeded leaves something behind and sends the next command.
Learns(a, s, next) ==
    /\ step = s
    /\ Arrives(a) /\ IF s \in Bringing THEN Kind(a) = s ELSE Succeeds(a)
    /\ Send(next)
    /\ UNCHANGED <<setup, progress, sessions, stop>>

(***************************************************************************)
(* emrtd_pace_run.                                                         *)
(***************************************************************************)
PaceSelected ==
    \E a \in answers : Learns(a, "set AT", "nonce") /\ UNCHANGED held

PaceNonce ==
    \E a \in answers :
        /\ Learns(a, "nonce", "map")
        /\ held' = [held EXCEPT !.nonce = Decrypted(Value(a))]

MapIfd == Point("m_ifd", G)
PaceMapped ==
    \E a \in answers :
        /\ Learns(a, "map", "agree")
        /\ held' = [held EXCEPT !.gen = Mapped(held.nonce, Shared("m_ifd", Value(a)))]

AgreeIfd == Point("a_ifd", held.gen)
PaceAgreed ==
    \E a \in answers :
        /\ Learns(a, "agree", "token")
        /\ held' = [held EXCEPT !.ic = Value(a)]

\* Each token is taken over the other side's point.
ReaderKs == Shared("a_ifd", held.ic)
TokenIfdOverOwnPoint == Mac(ReaderKs, AgreeIfd)
TokenIfd == Mac(ReaderKs, held.ic)
TokenMatchesAlways(a) == TRUE
TokenMatches(a) == Value(a) = Mac(ReaderKs, AgreeIfd)

\* The session is open, the keys are copied at the count it starts from, and the
\* application is selected again inside it.
PaceOpened ==
    /\ step = "token"
    /\ \E a \in answers : Arrives(a) /\ Kind(a) = "token" /\ TokenMatches(a)
    /\ keys' = [ks |-> ReaderKs, base |-> <<>>, n |-> 0] /\ sm' = [keys' EXCEPT !.n = 1]
    /\ held' = Nothing /\ Send("reselect")
    /\ UNCHANGED <<setup, progress, published, stop>>

PaceTokenDiffers ==
    /\ step = "token"
    /\ \E a \in answers : Arrives(a) /\ Kind(a) = "token" /\ ~TokenMatches(a)
    /\ DriverFails("PaceFailed")

Publish(d) ==
    /\ published' = d /\ held' = Nothing /\ Done("none")
    /\ UNCHANGED <<setup, turn, best, tried, stop>>

\* emrtd_worker_transmit inside the new session.
Verifies(a) == Kind(a) = "sealed" /\ Value(a) = <<sm.ks, sm.base, sm.n + 1>>

Reselected ==
    /\ step = "reselect" /\ \E a \in answers : Arrives(a) /\ Verifies(a)
    /\ sm' = [sm EXCEPT !.n = @ + 1] /\ UNCHANGED keys
    /\ Publish("PACE")

\* A bare status word is the end of the session; an answer with data in it that
\* is not sealed, or not under this count, is not believed either.
ReselectFails ==
    /\ step = "reselect"
    /\ \E a \in answers : Arrives(a) /\ ~Verifies(a)
    /\ DriverFails("SecureMessaging")

(***************************************************************************)
(* emrtd_access_bac_authenticate.                                          *)
(***************************************************************************)
BacChallenged ==
    \E a \in answers :
        /\ Learns(a, "challenge", "external")
        /\ held' = [held EXCEPT !.challenge = Value(a)]

\* The checksum under the key of the MRZ, and both random values back.
EchoMatches(a) ==
    /\ Value(a).key = Mrz(user.mrz)
    /\ Value(a).rnd_ic = held.challenge /\ Value(a).rnd_ifd = "r_ifd"

BacOpened ==
    /\ step = "external"
    /\ \E a \in answers :
          /\ Arrives(a) /\ Kind(a) = "external" /\ EchoMatches(a)
          /\ sm' = [ks |-> <<{"k_ifd", Value(a).k_ic}, G>>,
                    base |-> <<held.challenge, "r_ifd">>, n |-> 0]
    /\ keys' = sm' /\ Publish("BAC")

BacEchoDiffers ==
    /\ step = "external"
    /\ \E a \in answers : Arrives(a) /\ Kind(a) = "external" /\ ~EchoMatches(a)
    /\ DriverFails("WrongKey")

(***************************************************************************)
(* The chip: sim_transceive.  One that is lenient answers without having   *)
(* checked the reader's proof.                                             *)
(***************************************************************************)
ChipReceives ==
    /\ waiting /\ copies < Copies /\ copies' = copies + 1
    /\ slipped' = (slipped \/ copies > 0)
    /\ UNCHANGED <<setup, reader, stop>>

Answers(a) == answers' = answers \cup {a} /\ newest' = <<a>>

Plain(s) == ChipReceives /\ ~chip.open /\ step = s
Offers(p) == doc.offers \in {p, "both"}

ChipSelects == Plain("select") /\ Answers(Ok) /\ UNCHANGED chip

ChipChallenges ==
    /\ Plain("challenge") /\ Offers("BAC")
    /\ chip' = [chip EXCEPT !.challenges = @ + 1, !.hasChallenge = TRUE]
    /\ Answers(Answer("challenge", chip.challenges + 1))

\* The cryptogram is checked under the chip's own key, then the challenge in it.
ProvesMrz == user.mrz = "right" /\ held.challenge = chip.challenges
ChipAuthenticates ==
    /\ Plain("external") /\ Offers("BAC") /\ chip.hasChallenge
    /\ IF ProvesMrz \/ doc.lenient
       THEN /\ Answers(Answer("external",
                               [key |-> Mrz("right"), rnd_ic |-> chip.challenges,
                                rnd_ifd |-> "r_ifd", k_ic |-> "k_ic"]))
            /\ chip' = [chip EXCEPT
                            !.open = TRUE, !.ks = <<{"k_ifd", "k_ic"}, G>>, !.n = 0,
                            !.base = <<chip.challenges, "r_ifd">>, !.hasChallenge = FALSE]
       ELSE Answers(Refusal("6300")) /\ UNCHANGED chip

ChipSetsAt ==
    /\ Plain("set AT") /\ Offers("PACE") /\ Answers(Ok)
    /\ chip' = [chip EXCEPT !.paceSelected = TRUE]

General(s) == Plain(s) /\ Offers("PACE") /\ chip.paceSelected

ChipSendsNonce ==
    /\ General("nonce") /\ UNCHANGED chip
    /\ Answers(Answer("nonce", [key |-> ChipPassword, value |-> "nonce"]))

ChipMaps ==
    /\ General("map") /\ Answers(Answer("map", Point("m_ic", G)))
    /\ chip' = [chip EXCEPT !.gen = Mapped("nonce", Shared("m_ic", MapIfd))]

ChipAgrees ==
    /\ General("agree") /\ Answers(Answer("agree", Point("a_ic", chip.gen)))
    /\ chip' = [chip EXCEPT !.ks = Shared("a_ic", AgreeIfd), !.ifd = AgreeIfd]

ChipChecksToken ==
    /\ General("token")
    /\ IF TokenIfd = Mac(chip.ks, Point("a_ic", chip.gen)) \/ doc.lenient
       THEN /\ Answers(Answer("token", Mac(chip.ks, chip.ifd)))
            /\ chip' = [chip EXCEPT !.open = TRUE, !.base = <<>>, !.n = 0]
       ELSE Answers(Refusal("6300")) /\ UNCHANGED chip

\* What this document does not offer, or not yet.
ChipRefuses ==
    /\ ChipReceives /\ ~chip.open /\ UNCHANGED chip
    /\ \/ step \in {"challenge", "external"} /\ ~Offers("BAC")
       \/ step = "external" /\ Offers("BAC") /\ ~chip.hasChallenge
       \/ step = "set AT" /\ ~Offers("PACE")
       \/ step \in {"nonce", "map", "agree", "token"} /\ ~(Offers("PACE") /\ chip.paceSelected)
    /\ Answers(Refusal("6985"))

\* In the clear inside a session.
ChipInSession ==
    /\ ChipReceives /\ chip.open /\ step # "reselect" /\ UNCHANGED chip
    /\ Answers(Refusal("6987"))

\* sim_handle_protected: the count moves, and moves again with a sealed answer.
ChipReselects ==
    /\ ChipReceives /\ step = "reselect" /\ chip.open
    /\ IF <<sm.ks, sm.base, sm.n>> = <<chip.ks, chip.base, chip.n + 1>>
       THEN /\ Answers(Answer("sealed", <<chip.ks, chip.base, chip.n + 2>>))
            /\ chip' = [chip EXCEPT !.n = @ + 2]
       ELSE /\ Answers(Refusal("6988")) /\ chip' = [chip EXCEPT !.n = @ + 1]

(***************************************************************************)
(* The chip starts with the application selected, and has said so.         *)
(***************************************************************************)
Credential == {"none", "right", "wrong"}

Init ==
    /\ user \in [method : {"Auto", "PACE", "BAC"}, can : Credential, mrz : Credential]
    /\ doc \in [announces : {"nothing", "unusable", "PACE"},
                offers : {"PACE", "BAC", "both"}, hasCan : BOOLEAN, lenient : BOOLEAN]
    /\ pc = "choosing" /\ turn = 1 /\ step = "select" /\ held = Nothing
    /\ sm = NoSession /\ keys = NoSession /\ published = "none"
    /\ best = "NoAccessMethod" /\ result = "none" /\ stop = FALSE /\ tried = <<>>
    /\ chip = [open |-> FALSE, ks |-> <<>>, base |-> <<>>, n |-> 0,
               paceSelected |-> FALSE, gen |-> <<>>, ifd |-> <<>>,
               challenges |-> 0, hasChallenge |-> FALSE]
    /\ copies = 0 /\ answers = {Ok} /\ newest = <<>> /\ slipped = FALSE

Walk == TryPinned \/ TryNext \/ Skip \/ Exhausted \/ Cancel \/ Stop
ReaderNext ==
    \/ AnswerRefused \/ AnswerOfAnotherStep \/ ExchangeFails \/ Selected
    \/ PaceSelected \/ PaceNonce \/ PaceMapped \/ PaceAgreed \/ PaceOpened
    \/ PaceTokenDiffers \/ Reselected \/ ReselectFails
    \/ BacChallenged \/ BacOpened \/ BacEchoDiffers
ChipNext ==
    \/ ChipSelects \/ ChipChallenges \/ ChipAuthenticates \/ ChipSetsAt \/ ChipSendsNonce
    \/ ChipMaps \/ ChipAgrees \/ ChipChecksToken \/ ChipRefuses \/ ChipInSession
    \/ ChipReselects

Next == Walk \/ ReaderNext \/ ChipNext

Spec == Init /\ [][Next]_vars

(***************************************************************************)
(* Properties.                                                             *)
(***************************************************************************)
PaceSteps == {"set AT", "nonce", "map", "agree", "token", "reselect"}
BacSteps  == {"challenge", "external"}
Errors    == KeyVerdicts \cup LinkErrors \cup
             {"NoAccessMethod", "Unusable", "InvalidInput", "Apdu", "SecureMessaging", "Parse"}

TypeOK ==
    /\ user \in [method : {"Auto", "PACE", "BAC"}, can : Credential, mrz : Credential]
    /\ doc \in [announces : {"nothing", "unusable", "PACE"},
                offers : {"PACE", "BAC", "both"}, hasCan : BOOLEAN, lenient : BOOLEAN]
    /\ pc \in {"choosing", "waiting", "done"} /\ turn \in 1..(Len(Turns) + 1)
    /\ step \in PaceSteps \cup BacSteps \cup {"select"}
    /\ tried \in {<<>>, <<"PACE">>, <<"BAC">>, <<"PACE", "BAC">>}
    /\ best \in Errors /\ result \in Errors \cup {"none", "Cancelled"}
    /\ published \in {"none", "PACE", "BAC"} /\ stop \in BOOLEAN /\ slipped \in BOOLEAN
    /\ copies \in 0..Copies /\ chip.n \in Nat /\ chip.challenges \in Nat
    /\ chip.open \in BOOLEAN /\ chip.paceSelected \in BOOLEAN
    /\ chip.hasChallenge \in BOOLEAN

\* Whenever the reader holds a session, the chip holds one with the same keys,
\* from the same start, and is not behind; a session published over an exchange that
\* did nothing wrong has the two counts equal; and the record shows the count the
\* session started from (emrtd_pace.c:606-628, emrtd_worker.c:1498-1521).
Agreement ==
    sm # NoSession =>
        /\ chip.open /\ chip.ks = sm.ks /\ chip.base = sm.base
        /\ keys = [sm EXCEPT !.n = 0]
        /\ published # "none" => sm.n <= chip.n /\ (slipped \/ sm.n = chip.n)

\* The password a driver offers, and the one the document takes.
Fits(d) == IF d = "PACE" THEN PacePassword = ChipPassword ELSE user.mrz = "right"

\* A verdict on the key is about the key of the first driver that ran, and is true
\* of it: a CAN that has just opened the chip is never blamed for the MRZ that BAC
\* tried after it, nor the other way round (emrtd_worker.c:1620-1640).
BlamesTheWrongKey ==
    pc = "done" /\ result \in KeyVerdicts /\ ~slipped => ~Fits(tried[1])

\* A driver that could open the document is not kept from it by one that failed
\* before it, nor by an answer that was misread (emrtd_worker.c:1556-1563).
MayTry(d) == user.method \in {"Auto", d} /\ Probe(d).score # "Unsupported"
RightKeyOpens ==
    (pc = "done" /\ ~slipped /\ ~stop /\ ~doc.lenient) =>
        ((\E d \in {"PACE", "BAC"} : MayTry(d) /\ Offers(d) /\ Fits(d)) =>
            published # "none")

\* Nothing is left of a session that did not come to be: no key in the record, no
\* session in the worker, nothing published (emrtd_worker.c:1490-1547).
NothingOfAFailure ==
    pc # "waiting" /\ published = "none" => sm = NoSession /\ keys = NoSession
=============================================================================
