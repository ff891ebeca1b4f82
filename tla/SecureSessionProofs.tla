------------------------ MODULE SecureSessionProofs -------------------------
(***************************************************************************)
(* The protected session keeps its invariant, and what follows from it.    *)
(* Each conjunct of the invariant is carried through the actions that can  *)
(* disturb it; the theorems at the end say what the invariant is for.      *)
(***************************************************************************)
EXTENDS SecureSessionInvariant, TLAPS

LEMMA InvInit == Init => IInv
  <1> SUFFICES ASSUME Init PROVE IInv
    OBVIOUS
  <1>1. Flags
    BY DEF Init, Flags
  <1>2. Numbers
    BY SessionAssumption DEF Init, Numbers, Cmds
  <1>3. Sessions /\ Counts /\ Executions /\ Believed /\ InStep
    BY DEF Init, Sessions, Counts, Executions, Believed, InStep
  <1> QED
    BY <1>1, <1>2, <1>3 DEF IInv, TypeOK

\* The failures of an exchange, whichever way it failed.
Failure == ExchangeFails \/ ReceiveBare \/ ReceiveUnsealed \/ ReceiveWrongSeal

LEMMA FailureShape ==
    ASSUME IInv, Failure
    PROVE  /\ phase = "waiting" /\ phase' \in {"ready", "over"}
           /\ slipped' = TRUE /\ result' \in LinkErrors \cup {"Refused", "SecureMessaging"}
           /\ trusted /\ phase' = "ready" => active'
           /\ active' => active
           /\ active' \in BOOLEAN
           /\ ~active' => ssc' = 0
           /\ active' => ssc' \in {ssc, ssc + 1}
           /\ UNCHANGED <<trusted, base, cmd, under, answered, chip>>
  <1>1. CASE ExchangeFails
    <2>1. PICK e \in LinkErrors : Fails(e)
      BY <1>1 DEF ExchangeFails
    <2> QED
      BY <1>1, <2>1 DEF ExchangeFails, Session, Fails, IInv, TypeOK, Flags, Sessions
  <1>2. CASE ReceiveBare
    BY <1>2 DEF ReceiveBare, Session, Fails, Fatal, IInv, TypeOK, Flags, Sessions
  <1>3. CASE ReceiveUnsealed
    <2>1. PICK e \in {"Refused", "SecureMessaging", "BufferTooSmall"} : Fails(e)
      BY <1>3 DEF ReceiveUnsealed
    <2> QED
      BY <1>3, <2>1 DEF ReceiveUnsealed, Session, Fails, LinkErrors, IInv, TypeOK, Flags, Sessions
  <1>4. CASE ReceiveWrongSeal
    BY <1>4 DEF ReceiveWrongSeal, Session, Fails, IInv, TypeOK, Flags, Sessions
  <1> QED
    BY <1>1, <1>2, <1>3, <1>4 DEF Failure

LEMMA FailureStep == IInv /\ Failure => IInv'
  <1> SUFFICES ASSUME IInv, Failure PROVE IInv'
    OBVIOUS
  <1>6. /\ phase = "waiting" /\ phase' \in {"ready", "over"}
        /\ slipped' = TRUE /\ result' \in LinkErrors \cup {"Refused", "SecureMessaging"}
        /\ trusted /\ phase' = "ready" => active'
        /\ active' => active
        /\ active' \in BOOLEAN
        /\ ~active' => ssc' = 0
        /\ active' => ssc' \in {ssc, ssc + 1}
        /\ UNCHANGED <<trusted, base, cmd, under, answered, chip>>
    BY FailureShape
  <1> USE <1>6 DEF chip
  <1>0. Flags'
    BY DEF IInv, TypeOK, Flags
  <1>1. Numbers'
    BY SMTT(30), SessionAssumption DEF IInv, TypeOK, Numbers, Counts, Sessions, Cmds
  <1>2. Sessions'
    BY DEF IInv, TypeOK, Flags, Sessions
  <1>5. Counts'
    BY SessionAssumption DEF IInv, TypeOK, Numbers, Sessions, Counts, Cmds
  <1>3. Executions'
    BY DEF IInv, Executions
  <1>4. Believed' /\ InStep'
    BY DEF Believed, InStep, LinkErrors
  <1> QED
    BY <1>0, <1>1, <1>2, <1>3, <1>4, <1>5 DEF IInv, TypeOK

LEMMA OpenStep == IInv /\ Open => IInv'
  <1> SUFFICES ASSUME IInv, Open PROVE IInv'
    OBVIOUS
  <1> USE SessionAssumption DEF IInv, TypeOK, Numbers, Cmds
  <1>0. Flags'
    BY DEF Open, Flags
  <1>1. Numbers'
    BY DEF Open
  <1>2. Sessions' /\ Counts'
    BY DEF Open, Sessions, Counts
  <1>3. Executions' /\ Believed' /\ InStep'
    BY DEF Open, Executions, Believed, InStep, Sessions
  <1> QED
    BY <1>0, <1>1, <1>2, <1>3

\* A command goes out, sealed under the count after the reader's or in the clear.
LEMMA SendStep ==
    ASSUME IInv, NEW count \in Nat, Send(count), ssc' = count,
           active => count = ssc + 1,
           ~active => count = 0
    PROVE  IInv'
  <1>0. Flags'
    BY DEF IInv, TypeOK, Flags, Send
  <1> USE SessionAssumption DEF IInv, TypeOK, Numbers, Cmds, Send
  <1>1. Numbers'
    BY DEF Sessions
  <1>2. Sessions'
    BY DEF Sessions
  <1>3. Counts'
    BY SMTT(30) DEF Counts, Sessions
  <1>4. Executions'
    BY DEF Executions, Counts, Sessions
  <1>5. Believed' /\ InStep'
    BY DEF Believed, InStep, Executions
  <1> QED
    BY <1>0, <1>1, <1>2, <1>3, <1>4, <1>5

\* The one argument of the module: a checksum that verifies under the next count
\* is on the answer to the pending command.
LEMMA VerifiesOwn ==
    ASSUME IInv, phase = "waiting", active, NEW a \in answers, Verifies(a)
    PROVE  a.cmd = cmd /\ runs[cmd] = 1 /\ cmd \in Cmds
  <1>1. a.cmd \in Cmds /\ a.cmd <= cmd /\ under[a.cmd] = ssc /\ runs[a.cmd] = 1
        /\ under[a.cmd] # 0
    BY DEF IInv, TypeOK, Numbers, Executions, Verifies
  <1>2. cmd \in Cmds /\ under[cmd] = ssc
    BY DEF IInv, Counts
  <1>3. ~(a.cmd < cmd)
    BY <1>1, <1>2 DEF IInv, TypeOK, Numbers, Counts, Cmds
  <1> QED
    BY <1>1, <1>2, <1>3, SessionAssumption DEF Cmds

LEMMA SealedStep == IInv /\ (ReceiveSealed \/ ReselectRefused) => IInv'
  <1> SUFFICES ASSUME IInv, ReceiveSealed \/ ReselectRefused PROVE IInv'
    OBVIOUS
  <1>1. PICK a \in answers : Verifies(a) /\ answered' = a.cmd
    BY DEF ReceiveSealed, ReselectRefused, Believe
  <1>2. /\ phase = "waiting" /\ phase' = "ready" /\ active /\ result' = "ok"
        /\ UNCHANGED <<cmd, under, copies, cOpen, cSsc, runs, answers, slipped>>
    BY DEF ReceiveSealed, ReselectRefused, Believe, chip
  <1>3. answered' = cmd /\ runs[cmd] = 1 /\ cmd \in Cmds
    BY <1>1, <1>2, VerifiesOwn
  <1>4. \/ active' = TRUE /\ ssc' = ssc + 1 /\ trusted' = TRUE
           /\ base' = (IF trusted THEN base ELSE cmd)
        \/ active' = FALSE /\ ssc' = 0 /\ trusted = FALSE /\ trusted' = FALSE /\ base' = base
    BY DEF ReceiveSealed, ReselectRefused, Session, IInv, TypeOK, Flags
  <1>0. Flags'
    BY <1>2, <1>4 DEF IInv, TypeOK, Flags
  <1> USE <1>2, <1>3, <1>4, SessionAssumption DEF IInv, TypeOK, Numbers, Cmds
  <1>9. ssc < 2 * cmd /\ 0 \in 0..cmd /\ cmd \in 0..cmd
    BY DEF Counts
  <1>5. Numbers'
    <2>1. answered' \in 0..NCommands /\ base' \in 0..cmd
      BY <1>9
    <2>2. ssc' \in 0..(2 * cmd)
      BY SMTT(30), <1>9
    <2> QED
      BY <2>1, <2>2
  <1>6. Sessions' /\ Counts'
    BY SMTT(30) DEF Sessions, Counts
  <1>7. Executions'
    BY DEF Executions
  <1>8. Believed' /\ InStep'
    BY DEF Believed, InStep
  <1> QED
    BY <1>0, <1>5, <1>6, <1>7, <1>8

LEMMA QuietStep == IInv /\ (ReceivePlain \/ Close \/ ChipOpensAlone) => IInv'
  <1> SUFFICES ASSUME IInv, ReceivePlain \/ Close \/ ChipOpensAlone PROVE IInv'
    OBVIOUS
  <1> USE DEF IInv, TypeOK, ReceivePlain, Close, ChipOpensAlone, session, calls, chip
  <1>0. Flags'
    BY DEF Flags
  <1>1. Numbers'
    BY DEF Numbers
  <1>2. Sessions' /\ Counts'
    BY DEF Sessions, Counts
  <1>3. Executions'
    BY DEF Executions, Sessions
  <1>4. Believed' /\ InStep'
    BY DEF Believed, InStep, Sessions
  <1> QED
    BY <1>0, <1>1, <1>2, <1>3, <1>4

LEMMA ChipStep == IInv /\ (ChipRunsPlain \/ ChipRuns \/ ChipRefuses) => IInv'
  <1> SUFFICES ASSUME IInv, ChipRunsPlain \/ ChipRuns \/ ChipRefuses PROVE IInv'
    OBVIOUS
  <1> USE SessionAssumption DEF IInv, ChipReceives, session, calls, Runs
  <1>0. cmd \in Cmds /\ phase = "waiting"
    BY DEF ChipRunsPlain, ChipRuns, ChipRefuses, Counts
  <1>5. Flags'
    BY <1>0 DEF TypeOK, Flags, ChipRunsPlain, ChipRuns, ChipRefuses
  <1>1. Numbers'
    BY <1>0 DEF TypeOK, Numbers, ChipRunsPlain, ChipRuns, ChipRefuses
  <1>2. Sessions' /\ Counts'
    BY <1>0 DEF Sessions, Counts, ChipRunsPlain, ChipRuns, ChipRefuses
  <1>3. Executions'
    <2>1. CASE ChipRunsPlain
      BY <1>0, <2>1 DEF ChipRunsPlain, Executions, Sessions, TypeOK, Numbers, Cmds
    <2>2. CASE ChipRuns
      BY <1>0, <2>2 DEF ChipRuns, Executions, TypeOK, Numbers, Cmds
    <2>3. CASE ChipRefuses
      BY <1>0, <2>3 DEF ChipRefuses, Executions, TypeOK, Numbers, Cmds
    <2> QED
      BY <2>1, <2>2, <2>3
  <1>6. Believed'
    BY <1>0 DEF Believed, ChipRunsPlain, ChipRuns, ChipRefuses
  <1>7. ASSUME ~slipped', active' PROVE copies = 0 /\ ~slipped /\ active /\ under[cmd] = ssc
    <2>1. ~slipped /\ ~(copies > 0) /\ active
      BY <1>7 DEF ChipRunsPlain, ChipRuns, ChipRefuses
    <2> QED
      BY <2>1, <1>0 DEF TypeOK, Numbers, Counts
  <1>8. InStep'
    BY <1>0, <1>7 DEF InStep, Sessions, TypeOK, Flags, Numbers, ChipRunsPlain, ChipRuns,
       ChipRefuses
  <1>4. Believed' /\ InStep'
    BY <1>6, <1>8
  <1> QED
    BY <1>1, <1>2, <1>3, <1>4, <1>5 DEF TypeOK

LEMMA InvStep == IInv /\ [Next]_vars => IInv'
  <1> SUFFICES ASSUME IInv, [Next]_vars PROVE IInv'
    OBVIOUS
  <1>1. CASE Open
    BY <1>1, OpenStep
  <1>2. CASE Protect
    BY <1>2, SendStep DEF Protect, IInv, TypeOK, Numbers
  <1>3. CASE SendPlain
    BY <1>3, SendStep DEF SendPlain, IInv, Sessions
  <1>4. CASE ExchangeFails \/ ReceiveBare \/ ReceiveUnsealed \/ ReceiveWrongSeal
    BY <1>4, FailureStep DEF Failure
  <1>5. CASE ReceiveSealed \/ ReselectRefused
    BY <1>5, SealedStep
  <1>6. CASE ReceivePlain \/ Close \/ ChipOpensAlone
    BY <1>6, QuietStep
  <1>7. CASE ChipRunsPlain \/ ChipRuns \/ ChipRefuses
    BY <1>7, ChipStep
  <1>8. CASE UNCHANGED vars
    BY <1>8 DEF vars, session, calls, chip, IInv, TypeOK, Flags, Numbers, Sessions, Counts,
       Executions, Believed, InStep
  <1> QED
    BY <1>1, <1>2, <1>3, <1>4, <1>5, <1>6, <1>7, <1>8 DEF Next, ReaderNext, ChipNext

LEMMA Invariance == Spec => []IInv
  BY InvInit, InvStep, PTL DEF Spec

(***************************************************************************)
(* What the invariant is for.                                              *)
(***************************************************************************)

\* Type correctness, with the reader's count at most two for each command.
THEOREM TypeCorrect == Spec => []TypeOK
  <1>1. IInv => TypeOK
    BY DEF IInv
  <1> QED
    BY <1>1, Invariance, PTL

\* Whatever arrives late, twice or from elsewhere, an open session believes only
\* the chip's answer to the pending command (emrtd_worker.c:550-563).
THEOREM BelievesOwnAnswer == Spec => []OwnAnswer
  <1>1. IInv => OwnAnswer
    BY DEF IInv, Believed, OwnAnswer
  <1> QED
    BY <1>1, Invariance, PTL

\* A second copy of a sealed command is never executed (emrtd_isodep.h:112-114).
THEOREM RunsSealedOnce == Spec => []SealedRunsOnce
  <1>1. IInv => SealedRunsOnce
    BY SessionAssumption DEF IInv, TypeOK, Numbers, Executions, SealedRunsOnce, Cmds
  <1> QED
    BY <1>1, Invariance, PTL

\* Between exchanges the two counters agree while none has failed
\* (docs/protocol.md:169-170).
THEOREM StaysInLockStep == Spec => []LockStep
  <1>1. IInv => LockStep
    BY DEF IInv, Sessions, InStep, LockStep
  <1> QED
    BY <1>1, Invariance, PTL

\* Every sealed command has a count of its own.
THEOREM SealsUnderFreshCounts == Spec => []CountsDiffer
  <1>1. ASSUME IInv, NEW c \in 1..cmd, NEW d \in 1..cmd, c # d, under[c] # 0
        PROVE  under[c] # under[d]
    <2>1. c \in Cmds /\ d \in Cmds /\ under[c] \in Nat /\ under[d] \in Nat /\ cmd \in Nat
      BY <1>1, SessionAssumption DEF IInv, TypeOK, Numbers, Cmds
    <2>2. CASE c < d
      BY <1>1, <2>1, <2>2 DEF IInv, Counts
    <2>3. CASE d < c
      BY <1>1, <2>1, <2>3 DEF IInv, Counts
    <2> QED
      BY <1>1, <2>1, <2>2, <2>3 DEF Cmds
  <1>2. IInv => CountsDiffer
    BY <1>1 DEF CountsDiffer
  <1> QED
    BY <1>2, Invariance, PTL

\* A trusted session that is lost is never replaced by commands in the clear.
THEOREM StaysSealed == Spec => NeverBackToClear
  <1>1. ASSUME IInv, [Next]_vars, trusted, cmd' > cmd
        PROVE  under'[cmd'] # 0
    <2>1. (active /\ Send(ssc + 1)) \/ (~active /\ Send(0))
      <3>1. CASE Protect
        BY <3>1 DEF Protect
      <3>2. CASE SendPlain
        BY <3>2 DEF SendPlain
      <3>3. CASE ~(Protect \/ SendPlain)
        <4>1. cmd' = cmd
          BY <1>1, <3>3 DEF Next, ReaderNext, ChipNext, Open, ChipOpensAlone, ExchangeFails,
             ReceiveBare, ReceiveUnsealed, ReceiveWrongSeal, Fails, ReceiveSealed,
             ReselectRefused, Believe, ReceivePlain, Close, ChipReceives, ChipRunsPlain,
             ChipRuns, ChipRefuses, calls, vars
        <4> QED
          BY <1>1, <4>1 DEF IInv, TypeOK, Numbers
      <3> QED
        BY <3>1, <3>2, <3>3
    <2>2. phase = "ready"
      BY <2>1 DEF Send
    <2>3. active
      BY <1>1, <2>2 DEF IInv, Sessions
    <2>4. Send(ssc + 1)
      BY <2>1, <2>3
    <2>5. under' = [under EXCEPT ![cmd + 1] = ssc + 1] /\ cmd' = cmd + 1 /\ cmd + 1 \in Cmds
      BY <1>1, <2>4, SessionAssumption DEF Send, IInv, TypeOK, Numbers, Cmds
    <2> QED
      BY <1>1, <2>5 DEF IInv, TypeOK, Numbers
  <1>2. IInv /\ [Next]_vars => [trusted /\ cmd' > cmd => under'[cmd'] # 0]_vars
    BY <1>1
  <1> QED
    BY <1>2, Invariance, PTL DEF Spec, NeverBackToClear

(***************************************************************************)
(* An open session implements the port of ApduPort, whatever the exchange  *)
(* below it does.                                                          *)
(***************************************************************************)
\* The state functions the port is mapped to.
call == IF trusted THEN cmd - base ELSE 0
executed ==
    [c \in Cmds |-> IF trusted /\ base + c \in Cmds THEN runs[base + c] ELSE 0]
shown == IF trusted /\ cmd > base THEN result ELSE "none"

LEMMA PortInitial == Init => Port!Init
  BY DEF Init, Port!Init, PortState, Cmds

\* Before the session is trusted the port shows nothing but its end.
LEMMA BeforeTrust ==
    ASSUME ~trusted, ~trusted'
    PROVE  call' = call /\ executed' = executed /\ shown' = shown
  BY DEF call, executed, shown

LEMMA UntrustedImplements ==
    ASSUME ~trusted, ~trusted', phase \in {"ready", "waiting"} \/ phase' = phase
    PROVE  [Port!Next]_(Port!vars)
  <1>1. call' = call /\ executed' = executed /\ shown' = shown
    BY BeforeTrust
  <1>2. CASE PortState' = PortState
    BY <1>1, <1>2 DEF Port!vars, call, executed, shown
  <1>3. CASE PortState' # PortState
    <2>1. PortState = "down" /\ PortState' = "closed"
      BY <1>3 DEF PortState
    <2> QED
      BY <1>1, <2>1 DEF Port!Next, Port!Close, call, executed, shown
  <1> QED
    BY <1>2, <1>3

\* The session becomes trusted: the port opens, with nothing executed on it yet.
LEMMA TrustImplements ==
    ASSUME IInv, ~trusted, trusted', phase \in {"ready", "waiting"}, phase' = "ready",
           base' = cmd, UNCHANGED <<cmd, runs>>
    PROVE  [Port!Next]_(Port!vars)
  <1>1. PortState = "down" /\ PortState' = "ready"
    BY DEF PortState
  <1>2. call = 0 /\ call' = 0 /\ shown = "none" /\ shown' = "none"
    BY DEF call, shown, IInv, TypeOK, Numbers
  <1>3. executed' = executed
    <2>1. ASSUME NEW c \in Cmds, cmd + c \in Cmds PROVE runs[cmd + c] = 0
      BY <2>1 DEF IInv, TypeOK, Numbers, Executions, Cmds
    <2> QED
      BY <2>1 DEF executed
  <1> QED
    BY <1>1, <1>2, <1>3 DEF Port!Next, Port!Open, call, executed, shown

\* What a pending command of a trusted session looks like to the port.
LEMMA Pending ==
    ASSUME IInv, trusted, phase = "waiting"
    PROVE  /\ PortState = "busy" /\ call = cmd - base /\ call \in Cmds /\ base + call = cmd
           /\ cmd \in Cmds /\ base < cmd /\ base \in Nat /\ shown = result
           /\ executed \in [Cmds -> Nat] /\ executed[call] = runs[cmd]
           /\ active
  <1>1. cmd \in Cmds /\ base < cmd /\ base \in Nat /\ cmd \in Nat
    BY SessionAssumption DEF IInv, TypeOK, Numbers, Counts, Cmds
  <1>2. call = cmd - base /\ call \in Cmds /\ base + call = cmd
    BY <1>1, SessionAssumption DEF call, Cmds
  <1>3. executed \in [Cmds -> Nat] /\ executed[call] = runs[cmd]
    BY <1>1, <1>2 DEF executed, IInv, TypeOK, Numbers
  <1> QED
    BY <1>1, <1>2, <1>3 DEF PortState, shown, IInv, Sessions

LEMMA FailureImplements == IInv /\ Failure => [Port!Next]_(Port!vars)
  <1> SUFFICES ASSUME IInv, Failure PROVE [Port!Next]_(Port!vars)
    OBVIOUS
  <1>1. /\ phase = "waiting" /\ phase' \in {"ready", "over"}
        /\ result' \in LinkErrors \cup {"Refused", "SecureMessaging"}
        /\ UNCHANGED <<trusted, base, cmd, runs>>
    BY FailureShape DEF chip
  <1>2. CASE ~trusted
    BY <1>1, <1>2, UntrustedImplements
  <1>3. CASE trusted
    <2>1. PortState = "busy" /\ base < cmd
      BY <1>1, <1>3, Pending
    <2>2. PortState' \in {"ready", "over"}
      BY <1>1, <1>3 DEF PortState
    <2>3. shown' \in Port!Errors
      BY <1>1, <1>3, <2>1 DEF shown, Port!Errors, LinkErrors, IInv, TypeOK, Numbers
    <2>4. call' = call /\ executed' = executed
      BY <1>1 DEF call, executed
    <2> QED
      BY <2>1, <2>2, <2>3, <2>4 DEF Port!Next, Port!Fail, call, executed, shown
  <1> QED
    BY <1>2, <1>3

LEMMA SendImplements ==
    ASSUME IInv, NEW count, Send(count)
    PROVE  [Port!Next]_(Port!vars)
  <1>1. CASE ~trusted
    BY <1>1, UntrustedImplements DEF Send
  <1>2. CASE trusted
    <2>1. PortState = "ready" /\ PortState' = "busy"
      BY <1>2 DEF Send, PortState
    <2>2. call \in Nat /\ call < NCommands /\ call' = call + 1 /\ shown' = "pending"
      BY <1>2, SessionAssumption DEF Send, call, shown, IInv, TypeOK, Numbers
    <2>3. executed' = executed
      BY <1>2 DEF Send, executed
    <2> QED
      BY <2>1, <2>2, <2>3 DEF Port!Next, Port!Call, call, executed, shown
  <1> QED
    BY <1>1, <1>2

LEMMA BelieveImplements ==
    ASSUME IInv, ReceiveSealed \/ ReselectRefused
    PROVE  [Port!Next]_(Port!vars)
  <1>1. PICK a \in answers : Verifies(a) /\ answered' = a.cmd
    BY DEF ReceiveSealed, ReselectRefused, Believe
  <1>2. phase = "waiting" /\ phase' = "ready" /\ active /\ result' = "ok"
        /\ UNCHANGED <<cmd, runs>>
    BY DEF ReceiveSealed, ReselectRefused, Believe, chip
  <1>3. runs[cmd] = 1
    BY <1>1, <1>2, VerifiesOwn
  <1>4. CASE trusted
    <2>1. ReceiveSealed /\ trusted' /\ base' = base
      BY <1>4 DEF ReceiveSealed, ReselectRefused
    <2>2. PortState = "busy" /\ base < cmd /\ executed[call] = 1
      BY <1>2, <1>3, <1>4, Pending
    <2>3. PortState' = "ready" /\ call' = call /\ executed' = executed /\ shown' = "ok"
      BY <1>2, <1>4, <2>1, <2>2 DEF PortState, call, executed, shown, IInv, TypeOK, Numbers
    <2> QED
      BY <2>2, <2>3 DEF Port!Next, Port!Return, call, executed, shown
  <1>5. CASE ~trusted /\ trusted'
    <2>1. base' = cmd
      BY <1>5 DEF ReceiveSealed, ReselectRefused, Session
    <2> QED
      BY <1>2, <1>5, <2>1, TrustImplements
  <1>6. CASE ~trusted /\ ~trusted'
    BY <1>2, <1>6, UntrustedImplements
  <1> QED
    BY <1>4, <1>5, <1>6

LEMMA ChipImplements ==
    ASSUME IInv, ChipRunsPlain \/ ChipRuns \/ ChipRefuses
    PROVE  [Port!Next]_(Port!vars)
  <1>1. phase = "waiting" /\ UNCHANGED <<phase, trusted, base, cmd, result>>
    BY DEF ChipRunsPlain, ChipRuns, ChipRefuses, ChipReceives, session, calls
  <1>2. CASE ~trusted
    BY <1>1, <1>2, UntrustedImplements
  <1>3. CASE trusted /\ ChipRuns
    <2>1. /\ PortState = "busy" /\ call \in Cmds /\ base + call = cmd /\ cmd \in Cmds
          /\ base \in Nat /\ executed \in [Cmds -> Nat] /\ executed[call] = runs[cmd]
      BY <1>1, <1>3, Pending
    <2>2. under[cmd] # 0
      BY <1>3, <2>1 DEF ChipRuns, IInv, TypeOK, Numbers
    <2>3. runs[cmd] = 0 /\ runs' = [runs EXCEPT ![cmd] = 1]
      <3>1. under[cmd] = cSsc + 1 /\ cSsc \in Nat /\ runs' = [runs EXCEPT ![cmd] = @ + 1]
        BY <1>3 DEF ChipRuns, Runs, IInv, TypeOK, Numbers
      <3>2. runs[cmd] = 0 \/ (runs[cmd] = 1 /\ under[cmd] < cSsc)
        BY <2>1, <2>2 DEF IInv, Executions
      <3>3. runs[cmd] = 0
        BY <3>1, <3>2
      <3> QED
        BY <3>1, <3>3
    <2>4. executed' = [executed EXCEPT ![call] = 1]
      <3>1. ASSUME NEW c \in Cmds PROVE base + c = cmd <=> c = call
        BY <2>1 DEF Cmds
      <3>2. runs' \in [Cmds -> Nat]
        BY <2>3 DEF IInv, TypeOK, Numbers
      <3>3. ASSUME NEW c \in Cmds PROVE executed'[c] = [executed EXCEPT ![call] = 1][c]
        BY <1>1, <1>3, <2>1, <2>3, <3>1, <3>2 DEF executed, IInv, TypeOK, Numbers
      <3> QED
        BY <2>1, <3>3 DEF executed
    <2>5. PortState' = PortState /\ call' = call /\ shown' = shown
      BY <1>1 DEF PortState, call, shown
    <2> QED
      BY <2>1, <2>3, <2>4, <2>5 DEF Port!Next, Port!Execute, call, executed, shown
  <1>4. CASE trusted /\ ~ChipRuns
    <2>1. runs' = runs
      BY <1>1, <1>4 DEF ChipRunsPlain, ChipRefuses, IInv, Sessions
    <2> QED
      BY <1>1, <2>1 DEF Port!vars, PortState, call, executed, shown
  <1> QED
    BY <1>2, <1>3, <1>4

LEMMA StepImplements ==
    ASSUME IInv, [Next]_vars
    PROVE  [Port!Next]_(Port!vars)
  <1>1. CASE Open
    <2>1. ~trusted /\ phase = "ready" /\ phase' = "ready" /\ base' = cmd
          /\ UNCHANGED <<cmd, runs>> /\ trusted' \in BOOLEAN
      BY <1>1 DEF Open, IInv, Sessions
    <2> QED
      BY <2>1, TrustImplements, UntrustedImplements
  <1>2. CASE Protect \/ SendPlain
    BY <1>2, SendImplements DEF Protect, SendPlain
  <1>3. CASE ExchangeFails \/ ReceiveBare \/ ReceiveUnsealed \/ ReceiveWrongSeal
    BY <1>3, FailureImplements DEF Failure
  <1>4. CASE ReceiveSealed \/ ReselectRefused
    BY <1>4, BelieveImplements
  <1>5. CASE ReceivePlain
    BY <1>5, UntrustedImplements DEF ReceivePlain, session, IInv, Sessions
  <1>6. CASE Close
    <2>1. CASE ~trusted
      BY <1>6, <2>1, UntrustedImplements DEF Close, session
    <2>2. CASE trusted
      BY <1>6, <2>2 DEF Close, session, calls, chip, Port!Next, Port!Close, PortState
    <2> QED
      BY <2>1, <2>2
  <1>7. CASE ChipOpensAlone
    BY <1>7 DEF ChipOpensAlone, session, calls, Port!vars, PortState
  <1>8. CASE ChipRunsPlain \/ ChipRuns \/ ChipRefuses
    BY <1>8, ChipImplements
  <1>9. CASE UNCHANGED vars
    BY <1>9 DEF vars, session, calls, chip, Port!vars, PortState
  <1> QED
    BY <1>1, <1>2, <1>3, <1>4, <1>5, <1>6, <1>7, <1>8, <1>9 DEF Next, ReaderNext, ChipNext

\* Over an exchange that loses, repeats and delays, an open session still gives
\* the layers above at most one execution of a command, and success only with it.
THEOREM ImplementsApduPort == Spec => ImplementsPort
  BY PortInitial, StepImplements, Invariance, PTL DEF Spec, ImplementsPort, Port!Spec
=============================================================================
