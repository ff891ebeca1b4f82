-------------------------- MODULE IsoDepInvariant ---------------------------
(***************************************************************************)
(* The inductive invariant of the block protocol.                          *)
(*                                                                         *)
(* TypeInv is type correctness with the two facts it rests on.  StepInv    *)
(* says where the two parties stand relative to each other: while a frame  *)
(* is outstanding the card either does not have the chunk the reader is    *)
(* sending (Unsent), has it and acknowledged it (ChunkHeld), has executed  *)
(* the command and holds the block the reader waits for (Answering), or    *)
(* has not yet been asked for that block (Awaited).  The block numbers     *)
(* differ exactly in the first and the last, so R(NAK) and R(ACK) tell     *)
(* them apart.                                                             *)
(***************************************************************************)
EXTENDS IsoDep

\* An extension is granted only to a card with a block left to send.
WtxInv ==
    "WTX" \in {toCard.type, toReader.type, cLast.type} =>
        cLast.type = "WTX" /\ cSent < Len(cResp)

ActivationInv == pc \in {"down", "rats"} => failures < ActivationMax

TypeInv == TypeOK /\ WtxInv /\ ActivationInv

Failures == {Frame(e, 0) : e \in Errors}

Opening ==
    /\ cmd = 0 /\ blockNumber = 0 /\ cIn = <<>> /\ outcome = "none"
    /\ toCard \in {Silence, Frame("RATS", 0)}
    /\ toReader \in {Silence, Frame("ATS", 0)} \cup Failures
    /\ pc = "down" => toCard = Silence /\ toReader = Silence /\ ~cOn
    /\ toCard # Silence => ~cOn
    /\ toReader.type = "ATS" => cOn /\ cBn = 1

Idle ==
    /\ cOn /\ cBn # blockNumber /\ cIn = <<>>
    /\ toCard = Silence /\ toReader = Silence

Sending ==
    /\ ~collecting /\ got = <<>> /\ runs[cmd] = 0
    /\ cur = CmdBlock(cmd, sent, blockNumber)

Unsent ==
    /\ Sending /\ cBn # blockNumber
    /\ sent \in 1..CmdBlocks[cmd] /\ cIn = Part(cmd, sent - 1)
    /\ toCard \in {Silence, cur, Frame("NAK", blockNumber)}
    /\ toReader \in {Silence, Frame("ACK", 1 - blockNumber)} \cup Failures
    /\ toCard.type = "NAK" \/ toReader.type = "ACK" => pc = "ask"

ChunkHeld ==
    /\ Sending /\ cBn = blockNumber
    /\ sent \in 1..CmdBlocks[cmd] /\ sent # CmdBlocks[cmd]
    /\ cIn = Part(cmd, sent) /\ cLast = Frame("ACK", blockNumber)
    /\ toCard \in {Silence, Frame("NAK", blockNumber)}
    /\ toReader \in {Silence, cLast} \cup Failures

\* The command ran, and n blocks of its answer have been collected.
Executed(n) ==
    /\ runs[cmd] = 1 /\ cIn = <<>> /\ cCmd = cmd /\ cResp \in Answers
    /\ sent = CmdBlocks[cmd]
    /\ got = Part(cmd, n) /\ n < Len(cResp)

Answering ==
    /\ Executed(Len(got)) /\ cBn = blockNumber
    /\ collecting <=> got # <<>>
    /\ \/ cLast = Frame("WTX", 0) /\ cSent = Len(got)
       \/ /\ cLast = AnswerBlock(cmd, cResp, Len(got) + 1, blockNumber)
          /\ cSent = Len(got) + 1
    /\ toCard \in {Silence, Recovery, Frame("WTX", 0)}
    /\ toReader \in {Silence, cLast} \cup Failures

Awaited ==
    /\ Executed(Len(got)) /\ cBn # blockNumber
    /\ collecting /\ got # <<>> /\ cSent = Len(got)
    /\ toCard \in {Silence, Frame("ACK", blockNumber)}
    /\ toReader \in {Silence} \cup Failures

Busy ==
    /\ cOn /\ cmd \in Cmds /\ outcome = "pending"
    /\ Unsent \/ ChunkHeld \/ Answering \/ Awaited

Ending == toCard \in {Silence, Frame("DESELECT", 0)}

HalfDuplex == toCard = Silence \/ toReader = Silence

History ==
    /\ ~torn
    /\ \A c \in Cmds : runs[c] <= 1 /\ (cmd < c => runs[c] = 0)
    /\ outcome = "ok" => cmd \in Cmds /\ runs[cmd] = 1 /\ got = Part(cmd, Len(cResp))

StepInv ==
    /\ HalfDuplex /\ History
    /\ pc \in {"down", "rats"} => Opening
    /\ pc = "idle" => Idle
    /\ pc \in Waiting => Busy
    /\ pc \in {"over", "deselect", "closed"} => Ending

\* After a tolerated failure nothing of this is left but the types.
IInv == TypeInv /\ (slipped \/ StepInv)

\* What does hold through such a failure: the one frame, and the card whose field
\* was dropped before the reader starts over.
FreshInv ==
    /\ HalfDuplex
    /\ pc = "down" => ~cOn /\ toCard = Silence
    /\ toCard.type = "RATS" => pc = "rats" /\ ~cOn
=============================================================================
