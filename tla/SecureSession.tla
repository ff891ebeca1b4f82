--------------------------- MODULE SecureSession ----------------------------
(***************************************************************************)
(* Secure Messaging between the reader and the chip: emrtd_worker_transmit *)
(* with emrtd_sm_protect and emrtd_sm_unprotect on one side, the chip of   *)
(* sim/emrtd_sim.c on the other, from the first command in the clear to    *)
(* the end of the read.                                                    *)
(*                                                                         *)
(* Each side counts the commands and the answers of the session.  A        *)
(* checksum is valid under exactly one count, so a checksum is that count. *)
(* The exchange below may fail, hand the chip a second copy of a command,  *)
(* or bring back an answer that belongs to an earlier one (IsoDep after a  *)
(* tolerated failure); and anything in the field may answer.  The content  *)
(* of commands and answers, the ciphers and the keys are not here, nor are *)
(* commands emrtd_sm_protect refuses for their size, which the read never  *)
(* sends.  The chip keeps its session once it has one, as the simulated    *)
(* one does, so a read has at most one.                                    *)
(***************************************************************************)
EXTENDS Naturals

CONSTANTS
    NCommands,   \* commands sent in one read
    Copies       \* how often the chip may receive one of them

ASSUME SessionAssumption == NCommands \in Nat /\ Copies \in Nat

Cmds == 1..NCommands

VARIABLES
    \* the reader
    phase,      \* "ready", "waiting", "over" or "closed"
    active,     \* worker->sm_active
    trusted,    \* result->authenticated: the session is known to work
    ssc,        \* worker->sm.ssc
    cmd,        \* the command being exchanged, or the last one
    under,      \* the count each command was sealed under, 0 in the clear
    result,     \* what emrtd_worker_transmit last returned
    answered,   \* the command whose sealed answer was last believed
    \* the chip
    copies,     \* copies of the command it has received
    cOpen,      \* sim->sm_active
    cSsc,       \* sim->ssc
    runs,       \* executions of each command
    answers,    \* every sealed answer it has sent
    \* history
    slipped,    \* in this session an exchange failed, or a copy came twice
    base        \* the last command before the session was trusted

session == <<active, trusted, ssc, base>>
calls   == <<cmd, under, result, answered>>
chip    == <<copies, cOpen, cSsc, runs, answers>>
vars    == <<phase, session, calls, chip, slipped>>

LinkErrors == {"CardLost", "Transport", "Protocol", "BufferTooSmall"}

\* What ends a read once it is authenticated (emrtd_worker_read and
\* emrtd_worker_read_data_groups); after any other failure the next file is
\* tried.  Before that, only the first two keep the next driver from its turn.
LinkGone == {"CardLost", "Transport"}
FatalLinkGone == LinkGone
Fatal == LinkGone \cup {"SecureMessaging"}

(***************************************************************************)
(* The reader.                                                             *)
(***************************************************************************)

\* emrtd_worker_try_driver: both sides count from the same start.  After BAC the
\* session is trusted at once, after PACE only when the application could be
\* selected again inside it.
Open ==
    /\ phase = "ready" /\ ~active /\ ~cOpen
    /\ active' = TRUE /\ ssc' = 0 /\ cOpen' = TRUE /\ cSsc' = 0
    /\ trusted' \in BOOLEAN /\ base' = cmd
    /\ slipped' = FALSE /\ result' = "none"
    /\ UNCHANGED <<phase, cmd, under, answered, copies, runs, answers>>

\* The last answer of the access protocol is lost: only the chip has a session.
ChipOpensAlone ==
    /\ phase = "ready" /\ ~active /\ ~cOpen
    /\ cOpen' = TRUE /\ cSsc' = 0
    /\ UNCHANGED <<phase, session, calls, copies, runs, answers, slipped>>

Send(count) ==
    /\ phase = "ready" /\ cmd < NCommands
    /\ phase' = "waiting" /\ cmd' = cmd + 1 /\ result' = "pending"
    /\ under' = [under EXCEPT ![cmd + 1] = count]
    /\ copies' = 0
    /\ UNCHANGED <<active, trusted, base, answered, cOpen, cSsc, runs, answers,
                   slipped>>

Protect == active /\ ssc' = ssc + 1 /\ Send(ssc + 1)

\* Without a session emrtd_worker_transmit encodes the command as it is.
SendPlain == ~active /\ UNCHANGED ssc /\ Send(0)

\* A session that is not trusted yet does not survive a failure.
Session(kept, count) ==
    /\ active' = (trusted /\ kept)
    /\ ssc' = IF trusted /\ kept THEN count ELSE 0
    /\ UNCHANGED <<trusted, base>>

\* A failure in the clear may be one the read carries on from or not.
Fails(r) ==
    /\ phase = "waiting" /\ result' = r /\ slipped' = TRUE
    /\ \/ ~active /\ phase' \in {"ready", "over"}
       \/ active /\ phase' = IF r \in (IF trusted THEN Fatal ELSE LinkGone)
                             THEN "over" ELSE "ready"
    /\ UNCHANGED <<cmd, under, answered, chip>>

ExchangeFailsCountsBack ==
    Session(active, IF ssc > 0 THEN ssc - 1 ELSE 0) /\ \E e \in LinkErrors : Fails(e)
ExchangeFails == Session(active, ssc) /\ \E e \in LinkErrors : Fails(e)

\* A bare status word: nothing vouches for it, and the session is over.
ReceiveBare == active /\ Session(FALSE, 0) /\ Fails("SecureMessaging")

\* No checksum, an envelope that is not well formed, or one whose plaintext
\* would not fit: the counter stays.
ReceiveUnsealed ==
    /\ active /\ Session(TRUE, ssc)
    /\ \E e \in {"Refused", "SecureMessaging", "BufferTooSmall"} : Fails(e)

\* A checksum that does not verify: the counter has moved by then.
ReceiveWrongSeal == active /\ Session(TRUE, ssc + 1) /\ Fails("SecureMessaging")

VerifiesAnyCount(a) == TRUE
Verifies(a) == a.count = ssc + 1

Believe ==
    /\ phase = "waiting" /\ active
    /\ \E a \in answers : Verifies(a) /\ answered' = a.cmd
    /\ phase' = "ready" /\ result' = "ok"
    /\ UNCHANGED <<cmd, under, chip, slipped>>

\* The first answer is the one that makes a session of PACE trusted.
ReceiveSealedNoCount ==
    /\ Believe
    /\ active' = TRUE /\ ssc' = ssc /\ trusted' = TRUE
    /\ base' = IF trusted THEN base ELSE cmd
ReceiveSealed ==
    /\ Believe
    /\ active' = TRUE /\ ssc' = ssc + 1 /\ trusted' = TRUE
    /\ base' = IF trusted THEN base ELSE cmd

\* The application could not be selected again: the session is torn down.
ReselectRefused == ~trusted /\ Believe /\ Session(FALSE, 0)

\* With no session whatever arrives is the answer.
ReceivePlain ==
    /\ phase = "waiting" /\ ~active
    /\ phase' = "ready" /\ result' = "ok"
    /\ UNCHANGED <<session, cmd, under, answered, chip, slipped>>

Close ==
    /\ phase = "ready" /\ phase' = "closed"
    /\ UNCHANGED <<session, calls, chip, slipped>>

(***************************************************************************)
(* The chip: sim_transceive and sim_handle_protected.                      *)
(***************************************************************************)
ChipReceives ==
    /\ phase = "waiting" /\ copies < Copies
    /\ copies' = copies + 1
    /\ slipped' = (slipped \/ copies > 0)
    /\ UNCHANGED <<phase, session, calls, cOpen>>

Runs == runs' = [runs EXCEPT ![cmd] = @ + 1]

ChipRunsPlain ==
    /\ ChipReceives /\ ~cOpen
    /\ Runs /\ UNCHANGED <<cSsc, answers>>

ChipRuns ==
    /\ ChipReceives /\ cOpen /\ under[cmd] = cSsc + 1
    /\ cSsc' = cSsc + 2 /\ Runs
    /\ answers' = answers \cup {[cmd |-> cmd, count |-> cSsc + 2]}

\* In the clear inside a session: 6987.  Sealed under another count: 6988, and
\* the chip has counted it.
ChipRefuses ==
    /\ ChipReceives /\ cOpen /\ under[cmd] # cSsc + 1
    /\ cSsc' = IF under[cmd] = 0 THEN cSsc ELSE cSsc + 1
    /\ UNCHANGED <<runs, answers>>

Init ==
    /\ phase = "ready" /\ active = FALSE /\ trusted = FALSE /\ ssc = 0
    /\ cmd = 0 /\ under = [c \in Cmds |-> 0] /\ result = "none"
    /\ answered = 0 /\ copies = 0 /\ cOpen = FALSE /\ cSsc = 0
    /\ runs = [c \in Cmds |-> 0] /\ answers = {} /\ slipped = FALSE /\ base = 0

ReaderNext ==
    \/ Open \/ Protect \/ SendPlain
    \/ ExchangeFails \/ ReceiveBare \/ ReceiveUnsealed \/ ReceiveWrongSeal
    \/ ReceiveSealed \/ ReselectRefused \/ ReceivePlain \/ Close

ChipNext == ChipOpensAlone \/ ChipRunsPlain \/ ChipRuns \/ ChipRefuses

Next == ReaderNext \/ ChipNext

Spec == Init /\ [][Next]_vars

(***************************************************************************)
(* Properties.                                                             *)
(***************************************************************************)
Flags ==
    /\ phase \in {"ready", "waiting", "over", "closed"}
    /\ active \in BOOLEAN /\ trusted \in BOOLEAN /\ slipped \in BOOLEAN
    /\ cOpen \in BOOLEAN
    /\ result \in LinkErrors \cup {"none", "pending", "ok", "SecureMessaging", "Refused"}

Numbers ==
    /\ cmd \in 0..NCommands /\ answered \in 0..NCommands /\ base \in 0..cmd
    /\ ssc \in 0..(2 * cmd) /\ under \in [Cmds -> Nat]
    /\ copies \in 0..Copies /\ cSsc \in Nat
    /\ runs \in [Cmds -> Nat]
    /\ answers \subseteq [cmd : Cmds, count : Nat]

TypeOK == Flags /\ Numbers

\* Once the session is open, an answer that is believed is the chip's answer to
\* this very command, which the chip has executed: never an earlier answer, and
\* never one in the clear (emrtd_worker.c:550-563).
OwnAnswer ==
    trusted /\ result = "ok" => answered = cmd /\ runs[cmd] = 1

\* A second copy of a sealed command is never executed (emrtd_isodep.h:112-114).
SealedRunsOnce == \A c \in 1..cmd : under[c] # 0 => runs[c] <= 1

\* The two sides stay in step between exchanges for as long as none has failed
\* (docs/protocol.md:169-170).
LockStep == phase = "ready" /\ trusted /\ ~slipped => active /\ ssc = cSsc

\* No two commands of a session are sealed under the same count.
CountsDiffer ==
    \A c, d \in 1..cmd : c # d /\ under[c] # 0 => under[c] # under[d]

\* Losing the session never makes the reader fall back to the clear: transmit
\* drops sm_active on a bare answer and would encode the next command as it is.
NeverBackToClear == [][trusted /\ cmd' > cmd => under'[cmd'] # 0]_vars

PortState ==
    IF ~trusted THEN IF phase \in {"over", "closed"} THEN "closed" ELSE "down"
    ELSE IF phase = "waiting" THEN "busy" ELSE phase

\* The calls of the port are the commands sent since the session was trusted.
Port == INSTANCE ApduPort WITH
    state <- PortState,
    call <- IF trusted THEN cmd - base ELSE 0,
    executed <- [c \in Cmds |-> IF trusted /\ base + c \in Cmds THEN runs[base + c] ELSE 0],
    result <- IF trusted /\ cmd > base THEN result ELSE "none"

\* Whatever the exchange below loses, repeats or brings back late, an open
\* session offers the port again: at most one execution, success only with it.
ImplementsPort == Port!Spec
=============================================================================
