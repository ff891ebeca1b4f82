------------------------------- MODULE IsoDep -------------------------------
(***************************************************************************)
(* The ISO/IEC 14443-4 block protocol the reader runs on a type A card:    *)
(* transport/emrtd_isodep.c, bound to the radio by emrtd_iso14443_4.c.     *)
(*                                                                         *)
(* Two parties share a half-duplex air.  The reader sends one frame and    *)
(* waits for one answer or one error; the card answers or stays silent;    *)
(* the radio may lose or damage either frame.  The card side is the Chip   *)
(* of tests/host/test_isodep.c, which states the rules of the standard the *)
(* reader is written against.                                              *)
(*                                                                         *)
(* Data: a command is its index, a chunk of it is its position, a block of *)
(* an answer is its position and its size.  Frame sizes, waiting times and *)
(* the ATS are not here.                                                   *)
(***************************************************************************)
EXTENDS Naturals, Sequences

CONSTANTS
    CmdBlocks,      \* CmdBlocks[c]: how many I-blocks command c is cut into
    Answers,        \* the answers a card may give: sequences of block sizes
    Tolerated,      \* commands whose failed exchange the caller carries on from
    Retries,        \* EMRTD_ISODEP_RETRIES
    WtxMax,         \* EMRTD_ISODEP_WTX_ROUNDS_MAX
    ChainMax,       \* EMRTD_ISODEP_CHAIN_BLOCKS_MAX
    RxCap,          \* room in the caller's response buffer
    ActivationMax   \* EMRTD_WORKER_ACTIVATION_RETRIES

Cmds == 1..Len(CmdBlocks)

ASSUME CommandsAssumption == CmdBlocks \in Seq(Nat \ {0})
ASSUME AnswersAssumption  == Answers \subseteq Seq(Nat) \ {<<>>} /\ Answers # {}
ASSUME ToleratedAssumption == Tolerated \subseteq Cmds
ASSUME LimitsAssumption ==
    /\ Retries \in Nat /\ WtxMax \in Nat /\ ChainMax \in Nat \ {0}
    /\ RxCap \in Nat /\ ActivationMax \in Nat \ {0}

VARIABLES
    \* the reader
    pc,           \* where the reader's one thread is
    blockNumber,  \* instance->block_number
    cmd,          \* the command being exchanged, 0 before the first
    sent,         \* position of the chunk being sent
    collecting,   \* FALSE in emrtd_isodep_transceive, TRUE in ..._receive
    cur,          \* the frame emrtd_isodep_send_block was given
    round,        \* recovery rounds spent on it
    wtx,          \* extensions granted in this exchange
    got, total,   \* the response so far, and its length in bytes
    outcome,      \* what the last transceive returned
    failures,     \* worker->activation_failures
    slipped,      \* history: a tolerated exchange failed in this activation
    \* the air: the frame on its way to the card, what came back for the reader
    toCard, toReader,
    \* the card
    cOn, cBn,     \* in the protocol state; its block number
    cLast,        \* the block rule 11 sends again
    cIn,          \* chunks received of the command being chained
    cCmd, cResp, cSent,  \* command answered, its answer, blocks of it sent
    \* history of the card
    runs, torn    \* executions of each command; one of them was not whole

reader == <<pc, blockNumber, cmd, sent, collecting, cur, round, wtx, got,
            total, outcome, failures, slipped>>
card   == <<cOn, cBn, cLast, cIn, cCmd, cResp, cSent, runs, torn>>
vars   == <<reader, toCard, toReader, card>>

(***************************************************************************)
(* Frames.                                                                 *)
(***************************************************************************)
Lost   == {"CardLost", "Transport"}
Errors == Lost \cup {"Protocol"}

Frame(t, n) ==
    [type |-> t, bn |-> n, more |-> FALSE, cmd |-> 0, idx |-> 0, size |-> 0]
Silence == Frame("none", 0)

\* Chunk i of command c, in an I-block that carries the block number n.
CmdBlock(c, i, n) ==
    [type |-> "I", bn |-> n, more |-> i < CmdBlocks[c],
     cmd |-> c, idx |-> i, size |-> 0]

\* Block k of the answer a to command c.
AnswerBlock(c, a, k, n) ==
    [type |-> "I", bn |-> n, more |-> k < Len(a),
     cmd |-> c, idx |-> k, size |-> a[k]]

\* The first n pieces of something that belongs to command c, in order.
Part(c, n) == [i \in 1..n |-> <<c, i>>]

(***************************************************************************)
(* The reader.                                                             *)
(***************************************************************************)
Waiting == {"first", "ask", "again"}

SendRaw(f) == toCard' = f /\ toReader' = Silence

\* emrtd_isodep_send_block: the first copy of a frame.
SendBlock(f) == SendRaw(f) /\ cur' = f /\ round' = 0 /\ pc' = "first"

\* emrtd_isodep_exchange: a frame with its own budget of extensions.
Exchange(f) == SendBlock(f) /\ wtx' = 0

\* What asks for a lost answer again: R(NAK) while sending (rule 4), the same
\* R(ACK) while the card is chaining its answer (rule 5).
RecoveryBlindResend ==
    IF cur.type = "I" THEN cur ELSE Frame(IF collecting THEN "ACK" ELSE "NAK", blockNumber)
Recovery == Frame(IF collecting THEN "ACK" ELSE "NAK", blockNumber)

Activate ==
    /\ pc = "down"
    /\ pc' = "rats" /\ blockNumber' = 0
    /\ SendRaw(Frame("RATS", 0))
    /\ UNCHANGED <<cmd, sent, collecting, cur, round, wtx, got, total, outcome,
                   failures, slipped, card>>

Activated ==
    /\ pc = "rats" /\ toReader.type = "ATS"
    /\ pc' = "idle" /\ failures' = 0 /\ toReader' = Silence
    /\ UNCHANGED <<blockNumber, cmd, sent, collecting, cur, round, wtx, got,
                   total, outcome, slipped, toCard, card>>

\* One RATS only; a card that may have taken it is put back by dropping the
\* field (NfcCommandReset), and after ActivationMax attempts the read is over.
ActivationFailedNoReset ==
    /\ pc = "rats" /\ toReader.type \in Errors
    /\ failures' = failures + 1 /\ toReader' = Silence
    /\ pc' = IF failures' < ActivationMax THEN "down" ELSE "closed"
    /\ UNCHANGED <<blockNumber, cmd, sent, collecting, cur, round, wtx, got,
                   total, outcome, slipped, toCard, card>>
ActivationFailed ==
    /\ pc = "rats" /\ toReader.type \in Errors
    /\ failures' = failures + 1 /\ toReader' = Silence
    /\ pc' = IF failures' < ActivationMax THEN "down" ELSE "closed"
    /\ cOn' = FALSE
    /\ UNCHANGED <<blockNumber, cmd, sent, collecting, cur, round, wtx, got,
                   total, outcome, slipped, toCard, cBn, cLast, cIn, cCmd,
                   cResp, cSent, runs, torn>>

\* A transceive of the next command, up to its first frame.
Transceive ==
    /\ pc = "idle" /\ cmd < Len(CmdBlocks)
    /\ cmd' = cmd + 1 /\ sent' = 1 /\ collecting' = FALSE
    /\ got' = <<>> /\ total' = 0 /\ outcome' = "pending"
    /\ Exchange(CmdBlock(cmd + 1, 1, blockNumber))
    /\ UNCHANGED <<blockNumber, failures, slipped, card>>

\* emrtd_isodep_transceive returns an error.
Return(e) ==
    /\ outcome' = e /\ toReader' = Silence
    /\ pc' = IF cmd \in Tolerated THEN "idle" ELSE "over"
    /\ slipped' = (slipped \/ cmd \in Tolerated)
    /\ UNCHANGED <<blockNumber, cmd, sent, collecting, cur, round, wtx, got,
                   total, failures, toCard, card>>

Recoverable == toReader.type \in Lost /\ round < Retries

Recover ==
    /\ pc \in Waiting /\ Recoverable
    /\ SendRaw(Recovery) /\ pc' = "ask" /\ round' = round + 1
    /\ UNCHANGED <<blockNumber, cmd, sent, collecting, cur, wtx, got, total,
                   outcome, failures, slipped, card>>

GiveUp ==
    /\ pc \in Waiting /\ toReader.type \in Errors /\ ~Recoverable
    /\ Return(toReader.type)

\* The card has said it never had the block: an R(ACK) with the other number.
NeverHadItAnyAck == pc = "ask" /\ cur.type = "I" /\ toReader.type = "ACK"
NeverHadIt ==
    /\ pc = "ask" /\ cur.type = "I"
    /\ toReader.type = "ACK" /\ toReader.bn # blockNumber

Resend ==
    /\ NeverHadIt
    /\ SendRaw(cur) /\ pc' = "again"
    /\ UNCHANGED <<blockNumber, cmd, sent, collecting, cur, round, wtx, got,
                   total, outcome, failures, slipped, card>>

\* emrtd_isodep_send_block hands an answer to emrtd_isodep_exchange.
Answered ==
    pc \in Waiting /\ toReader.type \notin Errors \cup {"none"} /\ ~NeverHadIt

GrantWtxForever ==
    /\ Answered /\ toReader.type = "WTX"
    /\ SendBlock(Frame("WTX", 0)) /\ wtx' = wtx
    /\ UNCHANGED <<blockNumber, cmd, sent, collecting, got, total, outcome,
                   failures, slipped, card>>
GrantWtx ==
    /\ Answered /\ toReader.type = "WTX" /\ wtx < WtxMax
    /\ SendBlock(Frame("WTX", 0)) /\ wtx' = wtx + 1
    /\ UNCHANGED <<blockNumber, cmd, sent, collecting, got, total, outcome,
                   failures, slipped, card>>

RefuseWtx ==
    /\ Answered /\ toReader.type = "WTX" /\ wtx >= WtxMax
    /\ Return("Protocol")

\* What emrtd_isodep_exchange returns: the answer that is not an extension.
Delivered  == Answered /\ toReader.type # "WTX"
MoreToSend == ~collecting /\ sent < CmdBlocks[cmd]

AckInStep == toReader.type = "ACK" /\ toReader.bn = blockNumber

SendNextChunk ==
    /\ Delivered /\ MoreToSend /\ AckInStep
    /\ blockNumber' = 1 - blockNumber /\ sent' = sent + 1
    /\ Exchange(CmdBlock(cmd, sent + 1, 1 - blockNumber))
    /\ UNCHANGED <<cmd, collecting, got, total, outcome, failures, slipped, card>>

RejectChunkAnswer ==
    /\ Delivered /\ MoreToSend /\ ~AckInStep
    /\ Return("Protocol")

\* emrtd_isodep_receive: one more block of the response, while there may be one.
Acceptable == toReader.type = "I" /\ Len(got) < ChainMax
\* Wrong: each block is looked at alone.
FitsEachAlone == toReader.size <= RxCap
Fits       == toReader.size <= RxCap - total

Collect ==
    /\ Delivered /\ ~MoreToSend /\ Acceptable /\ Fits
    /\ got' = Append(got, <<toReader.cmd, toReader.idx>>)
    /\ total' = total + toReader.size
    /\ blockNumber' = 1 - blockNumber

CollectAndAck ==
    /\ Collect /\ toReader.more
    /\ collecting' = TRUE /\ Exchange(Frame("ACK", 1 - blockNumber))
    /\ UNCHANGED <<cmd, sent, outcome, failures, slipped, card>>

CollectLast ==
    /\ Collect /\ ~toReader.more
    /\ outcome' = "ok" /\ pc' = "idle" /\ toReader' = Silence
    /\ UNCHANGED <<cmd, sent, collecting, cur, round, wtx, failures, slipped,
                   toCard, card>>

RejectAnswer ==
    /\ Delivered /\ ~MoreToSend
    /\ \/ ~Acceptable /\ Return("Protocol")
       \/ Acceptable /\ ~Fits /\ Return("BufferTooSmall")

\* emrtd_iso14443_4_unbind: S(DESELECT) once, whatever comes of it, and a reset.
Deselect ==
    /\ pc \in {"idle", "over"}
    /\ pc' = "deselect" /\ SendRaw(Frame("DESELECT", 0))
    /\ UNCHANGED <<blockNumber, cmd, sent, collecting, cur, round, wtx, got,
                   total, outcome, failures, slipped, card>>

Deselected ==
    /\ pc = "deselect" /\ toReader # Silence
    /\ pc' = "closed" /\ toReader' = Silence /\ blockNumber' = 0
    /\ UNCHANGED <<cmd, sent, collecting, cur, round, wtx, got, total, outcome,
                   failures, slipped, toCard, card>>

ReaderNext ==
    \/ Activate \/ Activated \/ ActivationFailed
    \/ Transceive \/ Recover \/ GiveUp \/ Resend \/ GrantWtx \/ RefuseWtx
    \/ SendNextChunk \/ RejectChunkAnswer
    \/ CollectAndAck \/ CollectLast \/ RejectAnswer
    \/ Deselect \/ Deselected

(***************************************************************************)
(* The radio: a frame, or its answer, that does not make it.  A damaged    *)
(* answer is Transport, one with a partial byte or no bytes is Protocol,   *)
(* anything else is CardLost.                                              *)
(***************************************************************************)
NothingBack(e) == toCard' = Silence /\ toReader' = Frame(e, 0)

\* It also stands for a card that ignores a frame (a second RATS, an R(ACK)
\* outside a chain, anything before RATS): the reader hears nothing either way.
LoseFrame ==
    /\ toCard # Silence
    /\ NothingBack("CardLost") /\ UNCHANGED <<reader, card>>

LoseAnswer ==
    /\ toReader.type \notin Errors \cup {"none"}
    /\ \E e \in Errors : NothingBack(e)
    /\ UNCHANGED <<reader, card>>

(***************************************************************************)
(* The card.                                                               *)
(***************************************************************************)
CardSends(f) == toCard' = Silence /\ toReader' = f /\ cLast' = f

CardRats ==
    /\ toCard.type = "RATS" /\ ~cOn
    /\ cOn' = TRUE /\ cBn' = 1 /\ cIn' = <<>> /\ cResp' = <<>>
    /\ cSent' = 0
    /\ toCard' = Silence /\ toReader' = Frame("ATS", 0) /\ cLast' = Silence
    /\ UNCHANGED <<reader, cCmd, runs, torn>>

\* Block k of the answer a to command c, or a request for more time before it.
AnswerOrWtx(c, a, k, n) ==
    \/ CardSends(Frame("WTX", 0)) /\ cSent' = k - 1
    \/ CardSends(AnswerBlock(c, a, k, n)) /\ cSent' = k

\* Rule D: the card toggles its number on every I-block, whatever it carries.
CardTakesChunk ==
    /\ cOn /\ toCard.type = "I" /\ toCard.more
    /\ cBn' = 1 - cBn /\ cIn' = Append(cIn, <<toCard.cmd, toCard.idx>>)
    /\ CardSends(Frame("ACK", 1 - cBn))
    /\ UNCHANGED <<reader, cOn, cCmd, cResp, cSent, runs, torn>>

CardRuns ==
    /\ cOn /\ toCard.type = "I" /\ ~toCard.more
    /\ LET c == toCard.cmd IN
          /\ cBn' = 1 - cBn /\ cIn' = <<>> /\ cCmd' = c
          /\ runs' = [runs EXCEPT ![c] = @ + 1]
          /\ torn' = (torn \/ Append(cIn, <<c, toCard.idx>>) # Part(c, CmdBlocks[c]))
          /\ \E a \in Answers : cResp' = a /\ AnswerOrWtx(c, a, 1, 1 - cBn)
    /\ UNCHANGED <<reader, cOn>>

CardIsChaining == 0 < cSent /\ cSent < Len(cResp)

CardTakesWtx ==
    /\ cOn /\ toCard.type = "WTX"
    /\ AnswerOrWtx(cCmd, cResp, cSent + 1, cBn)
    /\ UNCHANGED <<reader, cOn, cBn, cIn, cCmd, cResp, runs, torn>>

\* Rule 11: the reader lost what the card last sent.
CardRepeats ==
    /\ cOn /\ toCard.type \in {"ACK", "NAK"} /\ toCard.bn = cBn
    /\ CardSends(cLast)
    /\ UNCHANGED <<reader, cOn, cBn, cIn, cCmd, cResp, cSent, runs, torn>>

\* Rule 12: the card never had the block the reader asks about.
CardNeverHad ==
    /\ cOn /\ toCard.type = "NAK" /\ toCard.bn # cBn
    /\ CardSends(Frame("ACK", cBn))
    /\ UNCHANGED <<reader, cOn, cBn, cIn, cCmd, cResp, cSent, runs, torn>>

\* Rules E and 13: the next block of a chained answer.
CardChains ==
    /\ cOn /\ toCard.type = "ACK" /\ toCard.bn # cBn /\ CardIsChaining
    /\ cBn' = 1 - cBn
    /\ AnswerOrWtx(cCmd, cResp, cSent + 1, 1 - cBn)
    /\ UNCHANGED <<reader, cOn, cIn, cCmd, cResp, runs, torn>>

CardDeselects ==
    /\ cOn /\ toCard.type = "DESELECT"
    /\ cOn' = FALSE /\ toCard' = Silence /\ toReader' = Frame("DESELECT", 0)
    /\ UNCHANGED <<reader, cBn, cLast, cIn, cCmd, cResp, cSent, runs, torn>>

CardNext ==
    \/ CardRats \/ CardTakesChunk \/ CardRuns \/ CardTakesWtx \/ CardRepeats
    \/ CardNeverHad \/ CardChains \/ CardDeselects

Init ==
    /\ pc = "down" /\ blockNumber = 0 /\ cmd = 0 /\ sent = 0
    /\ collecting = FALSE /\ cur = Silence /\ round = 0 /\ wtx = 0
    /\ got = <<>> /\ total = 0 /\ outcome = "none" /\ failures = 0
    /\ slipped = FALSE /\ toCard = Silence /\ toReader = Silence
    /\ cOn = FALSE /\ cBn = 0 /\ cLast = Silence /\ cIn = <<>> /\ cCmd = 0
    /\ cResp = <<>> /\ cSent = 0
    /\ runs = [c \in Cmds |-> 0] /\ torn = FALSE

AirNext == CardNext \/ LoseFrame \/ LoseAnswer
Next == ReaderNext \/ AirNext

\* The reader's thread is never starved, and every frame it sends comes back
\* within its waiting time as an answer or as an error.
Spec == Init /\ [][Next]_vars /\ WF_vars(ReaderNext) /\ WF_vars(CardNext \/ LoseFrame)

(***************************************************************************)
(* Properties.                                                             *)
(***************************************************************************)
Frames ==
    [type : {"none", "RATS", "ATS", "I", "ACK", "NAK", "WTX", "DESELECT"} \cup Errors,
     bn : {0, 1}, more : BOOLEAN, cmd : Nat, idx : Nat, size : Nat]

ReaderTypeOK ==
    /\ pc \in {"down", "rats", "idle", "deselect", "over", "closed"} \cup Waiting
    /\ blockNumber \in {0, 1}
    /\ cmd \in 0..Len(CmdBlocks) /\ sent \in Nat
    /\ collecting \in BOOLEAN /\ slipped \in BOOLEAN
    /\ cur \in Frames /\ round \in 0..Retries /\ wtx \in 0..WtxMax
    /\ got \in Seq(Nat \X Nat) /\ total \in Nat
    /\ outcome \in {"none", "pending", "ok", "BufferTooSmall"} \cup Errors
    /\ failures \in 0..ActivationMax

CardTypeOK ==
    /\ cOn \in BOOLEAN /\ torn \in BOOLEAN /\ cBn \in {0, 1}
    /\ cLast \in Frames /\ cIn \in Seq(Nat \X Nat) /\ cCmd \in Nat
    /\ cResp \in Seq(Nat) /\ cSent \in Nat
    /\ runs \in [Cmds -> Nat]

TypeOK ==
    ReaderTypeOK /\ CardTypeOK /\ toCard \in Frames /\ toReader \in Frames

\* A command is executed at most once, however its frames and answers are lost
\* (emrtd_isodep.h:105-122), as long as no failed exchange was carried on from.
AtMostOnce == slipped \/ \A c \in Cmds : runs[c] <= 1

\* The same without the exception: what emrtd_isodep.h:117-121 says of every
\* command.  It fails once an exchange has failed and the caller went on.
AlwaysAtMostOnce == \A c \in Cmds : runs[c] <= 1

\* What the card executes is the whole command in order: no chunk of a chained
\* command is missing, sent twice or left over from an earlier one.
CommandWhole == torn => slipped

\* Between two exchanges the reader's next I-block carries the number the card
\* does not have, which is what makes its R(NAK) unambiguous.
InStep == pc = "idle" /\ ~slipped => cOn /\ cBn # blockNumber

\* A transceive that succeeds returns every block of the answer to this very
\* command, in order and once, and the card has executed it.
ResponseWhole ==
    outcome = "ok" /\ ~slipped =>
        /\ runs[cmd] = 1
        /\ got = Part(cmd, Len(cResp))

\* A chained response never runs past the caller's buffer.
FitsBuffer == total <= RxCap

\* RATS is only ever sent to a card that still listens for one: after a failed
\* activation the field was dropped first.
RatsMeetsFreshCard == toCard.type = "RATS" => ~cOn

\* Every read ends with the port closed: no loss, no chain and no card that
\* keeps asking for time holds the reader's thread for ever.
ReadEnds == <>(pc = "closed")

PortState ==
    CASE pc \in Waiting -> "busy"
      [] pc = "idle" -> "ready"
      [] pc = "over" -> "over"
      [] pc \in {"deselect", "closed"} -> "closed"
      [] OTHER -> "down"

Port == INSTANCE ApduPort WITH
    NCommands <- Len(CmdBlocks), state <- PortState, call <- cmd,
    executed <- runs, result <- outcome

\* The block protocol implements the port the layers above are written
\* against (emrtd_transceiver.h, emrtd_isodep.h:105-122): a call is executed at
\* most once, between its start and its return, and succeeds only if it was.  So
\* it is until a failed exchange has been carried on from, that failure included.
ImplementsPort == Port!Init /\ [][slipped \/ Port!Next]_(Port!vars)
=============================================================================
