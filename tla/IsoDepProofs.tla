---------------------------- MODULE IsoDepProofs ----------------------------
(***************************************************************************)
(* Proofs about the block protocol, for every number of commands, every    *)
(* way of cutting them and their answers into blocks, and every limit.     *)
(***************************************************************************)
EXTENDS IsoDepInvariant, TLAPS

(***************************************************************************)
(* Frames.                                                                 *)
(***************************************************************************)
LEMMA FrameFields ==
    ASSUME NEW t, NEW n
    PROVE  Frame(t, n).type = t /\ Frame(t, n).bn = n
  BY DEF Frame

LEMMA FrameType ==
    /\ \A n \in {0, 1} :
          /\ Frame("RATS", n) \in Frames /\ Frame("ATS", n) \in Frames
          /\ Frame("ACK", n) \in Frames /\ Frame("NAK", n) \in Frames
          /\ Frame("WTX", n) \in Frames /\ Frame("DESELECT", n) \in Frames
          /\ Frame("none", n) \in Frames
    /\ \A e \in Errors : Frame(e, 0) \in Frames
  BY DEF Frame, Frames

LEMMA SilenceType == Silence \in Frames /\ Silence.type = "none"
  BY FrameType, FrameFields DEF Silence

LEMMA CmdBlockType ==
    ASSUME NEW c \in Cmds, NEW i \in Nat, NEW n \in {0, 1}
    PROVE  /\ CmdBlock(c, i, n) \in Frames
           /\ CmdBlock(c, i, n).type = "I" /\ CmdBlock(c, i, n).cmd = c
           /\ CmdBlock(c, i, n).idx = i /\ CmdBlock(c, i, n).bn = n
           /\ CmdBlock(c, i, n).more = (i < CmdBlocks[c])
  BY CommandsAssumption DEF CmdBlock, Frames, Cmds

LEMMA AnswerBlockType ==
    ASSUME NEW c \in Nat, NEW a \in Seq(Nat), NEW k \in 1..Len(a), NEW n \in {0, 1}
    PROVE  /\ AnswerBlock(c, a, k, n) \in Frames
           /\ AnswerBlock(c, a, k, n).type = "I" /\ AnswerBlock(c, a, k, n).cmd = c
           /\ AnswerBlock(c, a, k, n).idx = k
           /\ AnswerBlock(c, a, k, n).more = (k < Len(a))
  BY DEF AnswerBlock, Frames

(***************************************************************************)
(* Type correctness.                                                       *)
(***************************************************************************)
LEMMA TypeInit == Init => TypeInv
  <1> SUFFICES ASSUME Init PROVE TypeInv
    OBVIOUS
  <1> USE DEF Init
  <1>1. <<>> \in Seq(Nat \X Nat) /\ <<>> \in Seq(Nat) /\ Len(CmdBlocks) \in Nat
    BY CommandsAssumption
  <1>2. ReaderTypeOK
    <2>1. got \in Seq(Nat \X Nat) /\ cmd \in 0..Len(CmdBlocks)
      BY <1>1
    <2>2. round \in 0..Retries /\ wtx \in 0..WtxMax /\ failures \in 0..ActivationMax
      BY LimitsAssumption
    <2> QED
      BY <2>1, <2>2, SilenceType DEF ReaderTypeOK
  <1>3. CardTypeOK
    BY <1>1, SilenceType DEF CardTypeOK
  <1>4. WtxInv /\ ActivationInv
    BY SilenceType, LimitsAssumption DEF WtxInv, ActivationInv
  <1> QED
    BY <1>2, <1>3, <1>4, SilenceType DEF TypeInv, TypeOK

LEMMA ReaderKept ==
    ASSUME TypeInv, UNCHANGED reader
    PROVE  ReaderTypeOK' /\ ActivationInv'
  BY DEF TypeInv, TypeOK, ReaderTypeOK, ActivationInv, reader, Waiting

LEMMA CardKept ==
    ASSUME TypeInv, UNCHANGED card
    PROVE  CardTypeOK' /\ cLast' = cLast /\ cSent' = cSent /\ cResp' = cResp
  BY DEF TypeInv, TypeOK, CardTypeOK, card

LEMMA CollectType ==
    ASSUME TypeOK, Collect
    PROVE  got' \in Seq(Nat \X Nat) /\ total' \in Nat /\ blockNumber' \in {0, 1}
  <1>1. toReader.cmd \in Nat /\ toReader.idx \in Nat /\ toReader.size \in Nat
    BY DEF TypeOK, Frames
  <1>2. <<toReader.cmd, toReader.idx>> \in Nat \X Nat
    BY <1>1
  <1> QED
    BY SMTT(30), <1>1, <1>2 DEF TypeOK, ReaderTypeOK, Collect

LEMMA ReaderTypeStep == TypeInv /\ ReaderNext => TypeInv'
  <1> SUFFICES ASSUME TypeInv, ReaderNext PROVE TypeInv'
    OBVIOUS
  <1> USE SilenceType, LimitsAssumption
      DEF TypeInv, TypeOK, SendRaw, SendBlock, Exchange, Waiting
  <1>1. CASE Activate
    <2>1. CardTypeOK' /\ UNCHANGED <<cLast, cSent, cResp>>
      BY <1>1, CardKept DEF Activate
    <2>2. ReaderTypeOK' /\ ActivationInv'
      BY <1>1 DEF Activate, ReaderTypeOK, ActivationInv
    <2>3. WtxInv' /\ toCard' \in Frames /\ toReader' \in Frames
      BY <1>1, <2>1, FrameType, FrameFields DEF Activate, WtxInv
    <2> QED
      BY <2>1, <2>2, <2>3
  <1>2. CASE Activated
    <2>1. CardTypeOK' /\ UNCHANGED <<cLast, cSent, cResp>>
      BY <1>2, CardKept DEF Activated
    <2>2. ReaderTypeOK' /\ ActivationInv'
      BY <1>2 DEF Activated, ReaderTypeOK, ActivationInv
    <2>3. WtxInv' /\ toCard' \in Frames /\ toReader' \in Frames
      BY <1>2, <2>1 DEF Activated, WtxInv
    <2> QED
      BY <2>1, <2>2, <2>3
  <1>3. CASE ActivationFailed
    <2>1. CardTypeOK' /\ UNCHANGED <<cLast, cSent, cResp>>
      BY <1>3 DEF ActivationFailed, CardTypeOK
    <2>2. failures' \in 0..ActivationMax /\ pc' \in {"down", "closed"}
      BY <1>3 DEF ActivationFailed, ReaderTypeOK, ActivationInv
    <2>3. ReaderTypeOK' /\ ActivationInv'
      BY <1>3, <2>2 DEF ActivationFailed, ReaderTypeOK, ActivationInv
    <2>4. WtxInv' /\ toCard' \in Frames /\ toReader' \in Frames
      BY <1>3, <2>1 DEF ActivationFailed, WtxInv
    <2> QED
      BY <2>1, <2>3, <2>4
  <1>4. CASE Transceive
    <2>1. cmd + 1 \in Cmds /\ cmd + 1 \in 0..Len(CmdBlocks) /\ <<>> \in Seq(Nat \X Nat)
      BY <1>4, CommandsAssumption DEF Transceive, ReaderTypeOK, Cmds
    <2>2. /\ CmdBlock(cmd + 1, 1, blockNumber) \in Frames
          /\ CmdBlock(cmd + 1, 1, blockNumber).type = "I"
      BY <2>1, CmdBlockType DEF ReaderTypeOK
    <2>3. CardTypeOK' /\ UNCHANGED <<cLast, cSent, cResp>>
      BY <1>4, CardKept DEF Transceive
    <2>4. ReaderTypeOK' /\ ActivationInv'
      <3>1. got' \in Seq(Nat \X Nat) /\ cmd' \in 0..Len(CmdBlocks)
        BY <1>4, <2>1 DEF Transceive
      <3>2. round' \in 0..Retries /\ wtx' \in 0..WtxMax
        BY <1>4 DEF Transceive
      <3> QED
        BY <1>4, <2>2, <3>1, <3>2 DEF Transceive, ReaderTypeOK, ActivationInv
    <2>5. WtxInv' /\ toCard' \in Frames /\ toReader' \in Frames
      BY <1>4, <2>2, <2>3 DEF Transceive, WtxInv
    <2> QED
      BY <2>3, <2>4, <2>5
  <1>5. CASE Recover
    <2>1. CardTypeOK' /\ UNCHANGED <<cLast, cSent, cResp>>
      BY <1>5, CardKept DEF Recover
    <2>2. ReaderTypeOK' /\ ActivationInv'
      BY <1>5 DEF Recover, ReaderTypeOK, ActivationInv, Recoverable
    <2>3. WtxInv' /\ toCard' \in Frames /\ toReader' \in Frames
      BY <1>5, <2>1, FrameType, FrameFields DEF Recover, WtxInv, Recovery, ReaderTypeOK
    <2> QED
      BY <2>1, <2>2, <2>3
  <1>6. CASE GiveUp
    <2>1. CardTypeOK' /\ UNCHANGED <<cLast, cSent, cResp>>
      BY <1>6, CardKept DEF GiveUp, Return
    <2>2. ReaderTypeOK' /\ ActivationInv'
      BY <1>6 DEF GiveUp, ReaderTypeOK, ActivationInv, Return
    <2>3. WtxInv' /\ toCard' \in Frames /\ toReader' \in Frames
      BY <1>6, <2>1 DEF GiveUp, WtxInv, Return
    <2> QED
      BY <2>1, <2>2, <2>3
  <1>7. CASE Resend
    <2>1. CardTypeOK' /\ UNCHANGED <<cLast, cSent, cResp>>
      BY <1>7, CardKept DEF Resend
    <2>2. ReaderTypeOK' /\ ActivationInv'
      BY <1>7 DEF Resend, ReaderTypeOK, ActivationInv, NeverHadIt
    <2>3. WtxInv' /\ toCard' \in Frames /\ toReader' \in Frames
      BY <1>7, <2>1 DEF Resend, WtxInv, NeverHadIt, ReaderTypeOK
    <2> QED
      BY <2>1, <2>2, <2>3
  <1>8. CASE GrantWtx
    <2>1. CardTypeOK' /\ UNCHANGED <<cLast, cSent, cResp>>
      BY <1>8, CardKept DEF GrantWtx
    <2>2. ReaderTypeOK' /\ ActivationInv'
      BY <1>8, FrameType, FrameFields DEF GrantWtx, ReaderTypeOK, ActivationInv, Answered
    <2>3. WtxInv' /\ toCard' \in Frames /\ toReader' \in Frames
      BY <1>8, <2>1, FrameType, FrameFields DEF GrantWtx, WtxInv, Answered
    <2> QED
      BY <2>1, <2>2, <2>3
  <1>9. CASE RefuseWtx
    <2>1. CardTypeOK' /\ UNCHANGED <<cLast, cSent, cResp>>
      BY <1>9, CardKept DEF RefuseWtx, Return
    <2>2. ReaderTypeOK' /\ ActivationInv'
      BY <1>9 DEF RefuseWtx, ReaderTypeOK, ActivationInv, Return, Answered, Errors
    <2>3. WtxInv' /\ toCard' \in Frames /\ toReader' \in Frames
      BY <1>9, <2>1 DEF RefuseWtx, WtxInv, Return
    <2> QED
      BY <2>1, <2>2, <2>3
  <1>10. CASE SendNextChunk
    <2> DEFINE f == CmdBlock(cmd, sent + 1, 1 - blockNumber)
    <2>1. sent + 1 \in Nat /\ 1 - blockNumber \in {0, 1}
      BY DEF ReaderTypeOK
    <2>2. f \in Frames /\ f.type = "I"
      BY <2>1 DEF CmdBlock, Frames, ReaderTypeOK
    <2>3. CardTypeOK' /\ UNCHANGED <<cLast, cSent, cResp>>
      BY <1>10, CardKept DEF SendNextChunk
    <2>4. ReaderTypeOK' /\ ActivationInv'
      BY <1>10, <2>1, <2>2 DEF SendNextChunk, ReaderTypeOK, ActivationInv
    <2>5. WtxInv' /\ toCard' \in Frames /\ toReader' \in Frames
      BY <1>10, <2>2, <2>3 DEF SendNextChunk, WtxInv
    <2> QED
      BY <2>3, <2>4, <2>5
  <1>11. CASE RejectChunkAnswer
    <2>1. CardTypeOK' /\ UNCHANGED <<cLast, cSent, cResp>>
      BY <1>11, CardKept DEF RejectChunkAnswer, Return
    <2>2. ReaderTypeOK' /\ ActivationInv'
      BY <1>11 DEF RejectChunkAnswer, ReaderTypeOK, ActivationInv, Return, Delivered, Answered, Errors
    <2>3. WtxInv' /\ toCard' \in Frames /\ toReader' \in Frames
      BY <1>11, <2>1 DEF RejectChunkAnswer, WtxInv, Return
    <2> QED
      BY <2>1, <2>2, <2>3
  <1>12. CASE CollectAndAck
    <2> DEFINE f == Frame("ACK", 1 - blockNumber)
    <2>1. f \in Frames /\ f.type = "ACK"
      BY FrameType, FrameFields DEF ReaderTypeOK
    <2>2. CardTypeOK' /\ UNCHANGED <<cLast, cSent, cResp>>
      BY <1>12, CardKept DEF CollectAndAck
    <2>3. ReaderTypeOK' /\ ActivationInv'
      BY <1>12, <2>1, CollectType DEF CollectAndAck, ReaderTypeOK, ActivationInv
    <2>4. WtxInv' /\ toCard' \in Frames /\ toReader' \in Frames
      BY <1>12, <2>1, <2>2 DEF CollectAndAck, WtxInv
    <2> QED
      BY <2>2, <2>3, <2>4
  <1>13. CASE CollectLast
    <2>1. CardTypeOK' /\ UNCHANGED <<cLast, cSent, cResp>>
      BY <1>13, CardKept DEF CollectLast
    <2>2. ReaderTypeOK' /\ ActivationInv'
      BY <1>13, CollectType DEF CollectLast, ReaderTypeOK, ActivationInv
    <2>3. WtxInv' /\ toCard' \in Frames /\ toReader' \in Frames
      BY <1>13, <2>1 DEF CollectLast, WtxInv
    <2> QED
      BY <2>1, <2>2, <2>3
  <1>14. CASE RejectAnswer
    <2>1. CardTypeOK' /\ UNCHANGED <<cLast, cSent, cResp>>
      BY <1>14, CardKept DEF RejectAnswer, Return
    <2>2. ReaderTypeOK' /\ ActivationInv'
      BY <1>14 DEF RejectAnswer, ReaderTypeOK, ActivationInv, Return, Delivered, Answered, Errors
    <2>3. WtxInv' /\ toCard' \in Frames /\ toReader' \in Frames
      BY <1>14, <2>1 DEF RejectAnswer, WtxInv, Return
    <2> QED
      BY <2>1, <2>2, <2>3
  <1>15. CASE Deselect
    <2>1. CardTypeOK' /\ UNCHANGED <<cLast, cSent, cResp>>
      BY <1>15, CardKept DEF Deselect
    <2>2. ReaderTypeOK' /\ ActivationInv'
      BY <1>15 DEF Deselect, ReaderTypeOK, ActivationInv
    <2>3. WtxInv' /\ toCard' \in Frames /\ toReader' \in Frames
      BY <1>15, <2>1, FrameType, FrameFields DEF Deselect, WtxInv
    <2> QED
      BY <2>1, <2>2, <2>3
  <1>16. CASE Deselected
    <2>1. CardTypeOK' /\ UNCHANGED <<cLast, cSent, cResp>>
      BY <1>16, CardKept DEF Deselected
    <2>2. ReaderTypeOK' /\ ActivationInv'
      BY <1>16 DEF Deselected, ReaderTypeOK, ActivationInv
    <2>3. WtxInv' /\ toCard' \in Frames /\ toReader' \in Frames
      BY <1>16, <2>1 DEF Deselected, WtxInv
    <2> QED
      BY <2>1, <2>2, <2>3
  <1> QED
    BY <1>1, <1>2, <1>3, <1>4, <1>5, <1>6, <1>7, <1>8, <1>9, <1>10, <1>11, <1>12,
       <1>13, <1>14, <1>15, <1>16 DEF ReaderNext

\* The card sends block k of its answer, or asks for more time first.
LEMMA AnswerType ==
    ASSUME NEW c \in Nat, NEW a \in Seq(Nat), NEW k \in 1..Len(a), NEW n \in {0, 1},
           AnswerOrWtx(c, a, k, n)
    PROVE  /\ cLast' \in Frames /\ toCard' = Silence /\ toReader' = cLast'
           /\ cSent' \in Nat
           /\ cLast'.type = "WTX" => cSent' < Len(a)
  <1>1. k - 1 \in Nat /\ k - 1 < Len(a) /\ k \in Nat
    OBVIOUS
  <1>2. Frame("WTX", 0) \in Frames
    BY FrameType
  <1>3. AnswerBlock(c, a, k, n) \in Frames /\ AnswerBlock(c, a, k, n).type = "I"
    BY AnswerBlockType
  <1> QED
    BY <1>1, <1>2, <1>3 DEF AnswerOrWtx, CardSends

LEMMA AirTypeStep == TypeInv /\ AirNext => TypeInv'
  <1> SUFFICES ASSUME TypeInv, AirNext PROVE TypeInv'
    OBVIOUS
  <1> USE SilenceType DEF TypeInv, TypeOK, CardSends, NothingBack
  <1>0. ReaderTypeOK' /\ ActivationInv'
    <2>1. UNCHANGED reader
      BY DEF AirNext, CardNext, CardRats, CardTakesChunk, CardRuns, CardTakesWtx,
             CardRepeats, CardNeverHad, CardChains, CardDeselects, LoseFrame, LoseAnswer
    <2> QED
      BY <2>1, ReaderKept
  <1>1. CASE CardRats
    <2>1. <<>> \in Seq(Nat \X Nat) /\ <<>> \in Seq(Nat)
      OBVIOUS
    <2> QED
      BY <1>0, <1>1, <2>1, FrameType, FrameFields DEF CardRats, CardTypeOK, WtxInv
  <1>2. CASE CardTakesChunk
    <2>1. <<toCard.cmd, toCard.idx>> \in Nat \X Nat
      BY DEF Frames
    <2>2. cIn' \in Seq(Nat \X Nat) /\ cBn' \in {0, 1}
      BY <1>2, <2>1 DEF CardTakesChunk, CardTypeOK
    <2>3. Frame("ACK", 1 - cBn) \in Frames /\ Frame("ACK", 1 - cBn).type = "ACK"
      BY FrameType, FrameFields DEF CardTypeOK
    <2> QED
      BY <1>0, <1>2, <2>2, <2>3 DEF CardTakesChunk, CardTypeOK, WtxInv
  <1>3. CASE CardRuns
    <2>1. PICK a \in Answers : cResp' = a /\ AnswerOrWtx(toCard.cmd, a, 1, 1 - cBn)
      BY <1>3 DEF CardRuns
    <2>2. a \in Seq(Nat) /\ 1 \in 1..Len(a)
      <3>1. a \in Seq(Nat) /\ a # <<>>
        BY AnswersAssumption
      <3>2. Len(a) \in Nat /\ Len(a) # 0
        BY <3>1
      <3> QED
        BY <3>1, <3>2
    <2>3. toCard.cmd \in Nat /\ 1 - cBn \in {0, 1}
      BY DEF Frames, CardTypeOK
    <2>4. runs' \in [Cmds -> Nat]
      <3>1. runs \in [Cmds -> Nat] /\ runs' = [runs EXCEPT ![toCard.cmd] = @ + 1]
        BY <1>3 DEF CardRuns, CardTypeOK
      <3>2. ASSUME NEW d \in Cmds PROVE runs'[d] \in Nat
        BY <3>1
      <3> QED
        BY <3>1, <3>2
    <2>5. /\ cLast' \in Frames /\ toCard' = Silence /\ toReader' = cLast'
          /\ cSent' \in Nat
          /\ cLast'.type = "WTX" => cSent' < Len(a)
      BY <2>1, <2>2, <2>3, AnswerType
    <2>6. /\ cBn' \in {0, 1} /\ cIn' \in Seq(Nat \X Nat) /\ cCmd' \in Nat
          /\ torn' \in BOOLEAN /\ cOn' \in BOOLEAN
      BY <1>3, <2>3 DEF CardRuns, CardTypeOK
    <2> QED
      BY <1>0, <2>1, <2>2, <2>4, <2>5, <2>6 DEF CardTypeOK, WtxInv
  <1>4. CASE CardTakesWtx
    <2>1. cSent + 1 \in 1..Len(cResp) /\ cBn \in {0, 1} /\ cCmd \in Nat
      BY <1>4 DEF CardTakesWtx, WtxInv, CardTypeOK
    <2>2. /\ cLast' \in Frames /\ toCard' = Silence /\ toReader' = cLast'
          /\ cSent' \in Nat
          /\ cLast'.type = "WTX" => cSent' < Len(cResp)
      BY <1>4, <2>1, AnswerType DEF CardTakesWtx, CardTypeOK
    <2> QED
      BY <1>0, <1>4, <2>1, <2>2 DEF CardTakesWtx, CardTypeOK, WtxInv
  <1>5. CASE CardRepeats
    BY <1>0, <1>5 DEF CardRepeats, CardTypeOK, WtxInv
  <1>6. CASE CardNeverHad
    <2>1. Frame("ACK", cBn) \in Frames /\ Frame("ACK", cBn).type = "ACK"
      BY FrameType, FrameFields DEF CardTypeOK
    <2> QED
      BY <1>0, <1>6, <2>1 DEF CardNeverHad, CardTypeOK, WtxInv
  <1>7. CASE CardChains
    <2>1. cSent + 1 \in 1..Len(cResp) /\ 1 - cBn \in {0, 1} /\ cCmd \in Nat
      BY <1>7 DEF CardChains, CardIsChaining, CardTypeOK
    <2>2. /\ cLast' \in Frames /\ toCard' = Silence /\ toReader' = cLast'
          /\ cSent' \in Nat
          /\ cLast'.type = "WTX" => cSent' < Len(cResp)
      BY <1>7, <2>1, AnswerType DEF CardChains, CardTypeOK
    <2> QED
      BY <1>0, <1>7, <2>1, <2>2 DEF CardChains, CardTypeOK, WtxInv
  <1>8. CASE CardDeselects
    BY <1>0, <1>8, FrameType, FrameFields DEF CardDeselects, CardTypeOK, WtxInv
  <1>9. CASE LoseFrame \/ LoseAnswer
    <2>1. CardTypeOK' /\ UNCHANGED <<cLast, cSent, cResp>>
      BY <1>9, CardKept DEF LoseFrame, LoseAnswer
    <2>2. PICK e \in Errors : toCard' = Silence /\ toReader' = Frame(e, 0)
      BY <1>9 DEF LoseFrame, LoseAnswer, Errors, Lost
    <2>3. Frame(e, 0) \in Frames /\ Frame(e, 0).type # "WTX"
      BY FrameType, FrameFields DEF Errors, Lost
    <2> QED
      BY <1>0, <2>1, <2>2, <2>3 DEF WtxInv
  <1> QED
    BY <1>1, <1>2, <1>3, <1>4, <1>5, <1>6, <1>7, <1>8, <1>9 DEF AirNext, CardNext

LEMMA TypeStep == TypeInv /\ [Next]_vars => TypeInv'
  <1>1. TypeInv /\ UNCHANGED vars => TypeInv'
    <2> SUFFICES ASSUME TypeInv, UNCHANGED vars PROVE TypeInv'
      OBVIOUS
    <2>1. UNCHANGED reader /\ UNCHANGED card /\ UNCHANGED <<toCard, toReader>>
      BY DEF vars
    <2> QED
      BY <2>1, ReaderKept, CardKept DEF TypeInv, TypeOK, WtxInv
  <1> QED
    BY <1>1, ReaderTypeStep, AirTypeStep DEF Next

\* Every variable keeps its type, for every value of the constants.
THEOREM TypeCorrect == Spec => []TypeOK
  <1>1. TypeInv => TypeOK
    BY DEF TypeInv
  <1> QED
    BY TypeInit, TypeStep, <1>1, PTL DEF Spec

(***************************************************************************)
(* The two parties in step.                                                *)
(***************************************************************************)
LEMMA FailureType == \A f \in Failures : f.type \in Errors
  BY FrameFields DEF Failures

LEMMA PartLast ==
    ASSUME NEW c, NEW n \in Nat
    PROVE  Append(Part(c, n), <<c, n + 1>>) = Part(c, n + 1) /\ Len(Part(c, n)) = n
  BY DEF Part

LEMMA PartZero == \A c : Part(c, 0) = <<>>
  BY DEF Part

LEMMA StepInit == Init => StepInv
  <1> SUFFICES ASSUME Init PROVE StepInv
    OBVIOUS
  <1> USE DEF Init
  <1>1. History /\ HalfDuplex
    BY DEF History, HalfDuplex
  <1>2. Opening
    BY SilenceType DEF Opening
  <1> QED
    BY <1>1, <1>2 DEF StepInv, Waiting

LEMMA OpeningStep ==
    ASSUME TypeInv, StepInv, Activate \/ Activated \/ ActivationFailed
    PROVE  StepInv'
  <1> USE DEF StepInv, History, HalfDuplex, Opening, SendRaw, Waiting
  <1>1. CASE Activate
    BY <1>1, FrameFields, SilenceType DEF Activate, card
  <1>2. CASE Activated
    BY <1>2, SilenceType DEF Activated, card, Idle
  <1>3. CASE ActivationFailed
    BY <1>3, SilenceType DEF ActivationFailed, Ending, Errors, Lost
  <1> QED
    BY <1>1, <1>2, <1>3

LEMMA TransceiveStep == ASSUME TypeInv, StepInv, Transceive PROVE StepInv'
  <1> USE DEF StepInv, Waiting
  <1>1. Idle /\ History /\ UNCHANGED card /\ UNCHANGED blockNumber
    BY DEF Transceive
  <1>2. cmd' = cmd + 1 /\ cmd' \in Cmds /\ cmd < cmd' /\ cmd \in Nat
    BY CommandsAssumption DEF Transceive, TypeInv, TypeOK, ReaderTypeOK, Cmds
  <1>3. History' /\ HalfDuplex'
    BY <1>1, <1>2 DEF Transceive, History, HalfDuplex, Exchange, SendBlock, SendRaw, card
  <1>4. Unsent'
    <2>1. runs'[cmd'] = 0 /\ cIn' = Part(cmd', sent' - 1)
      BY <1>1, <1>2, PartZero DEF Transceive, History, Idle, card
    <2>2. CmdBlocks[cmd'] \in Nat \ {0}
      BY <1>2, CommandsAssumption DEF Cmds
    <2>3. CmdBlock(cmd', 1, blockNumber).type = "I"
      BY DEF CmdBlock
    <2> QED
      BY <1>1, <1>2, <2>1, <2>2, <2>3, SilenceType
         DEF Transceive, Unsent, Sending, Idle, Exchange, SendBlock, SendRaw, card
  <1> QED
    BY <1>1, <1>2, <1>3, <1>4
       DEF Transceive, Busy, Idle, Exchange, SendBlock, card

LEMMA RecoverStep == ASSUME TypeInv, StepInv, Recover PROVE StepInv'
  <1> USE DEF StepInv, Waiting
  <1>1. /\ Busy /\ History /\ UNCHANGED card /\ pc' = "ask"
        /\ UNCHANGED <<blockNumber, cmd, sent, collecting, cur, got, outcome>>
        /\ toCard' = Recovery /\ toReader' = Silence
    BY DEF Recover, SendRaw
  <1>2. History' /\ HalfDuplex'
    BY <1>1 DEF History, HalfDuplex, card
  <1>3. CASE Unsent
    BY <1>1, <1>2, <1>3, SilenceType DEF Busy, Unsent, Sending, Recovery, card
  <1>4. CASE ChunkHeld
    BY <1>1, <1>2, <1>4 DEF Busy, ChunkHeld, Sending, Recovery, card
  <1>5. CASE Answering
    BY <1>1, <1>2, <1>5 DEF Busy, Answering, Executed, Recovery, card
  <1>6. CASE Awaited
    BY <1>1, <1>2, <1>6 DEF Busy, Awaited, Executed, Recovery, card
  <1> QED
    BY <1>1, <1>3, <1>4, <1>5, <1>6 DEF Busy

\* An exchange that fails ends the session, or is one the caller tolerates.
LEMMA ReturnStep ==
    ASSUME TypeInv, StepInv, NEW e, e # "ok", Return(e),
           pc \in Waiting, toReader # Silence
    PROVE  slipped' \/ StepInv'
  BY DEF StepInv, Return, HalfDuplex, History, Ending, Waiting, card

LEMMA ResendStep == ASSUME TypeInv, StepInv, Resend PROVE StepInv'
  <1> USE DEF StepInv, Waiting
  <1>1. /\ Busy /\ History /\ UNCHANGED card /\ pc' = "again"
        /\ UNCHANGED <<blockNumber, cmd, sent, collecting, cur, got, outcome>>
        /\ toCard' = cur /\ toReader' = Silence
        /\ toReader.type = "ACK" /\ toReader.bn # blockNumber /\ cur.type = "I"
    BY DEF Resend, NeverHadIt, SendRaw
  <1>2. History' /\ HalfDuplex'
    BY <1>1 DEF History, HalfDuplex, card
  <1>3. ~ChunkHeld /\ ~Answering /\ ~Awaited
    BY <1>1, FrameFields, FailureType, SilenceType
       DEF ChunkHeld, Answering, Awaited, AnswerBlock, Errors, Lost
  <1> QED
    BY <1>1, <1>2, <1>3, SilenceType DEF Busy, Unsent, Sending, card

LEMMA GrantWtxStep == ASSUME TypeInv, StepInv, GrantWtx PROVE StepInv'
  <1> USE DEF StepInv, Waiting
  <1>1. /\ Busy /\ History /\ UNCHANGED card /\ pc' = "first"
        /\ UNCHANGED <<blockNumber, cmd, sent, collecting, got, outcome>>
        /\ toCard' = Frame("WTX", 0) /\ toReader' = Silence
        /\ toReader.type = "WTX"
    BY DEF GrantWtx, Answered, SendBlock, SendRaw
  <1>2. History' /\ HalfDuplex'
    BY <1>1 DEF History, HalfDuplex, card
  <1>3. ~Unsent /\ ~ChunkHeld /\ ~Awaited
    BY <1>1, FrameFields, FailureType, SilenceType
       DEF Unsent, ChunkHeld, Awaited, Errors, Lost
  <1> QED
    BY <1>1, <1>2, <1>3 DEF Busy, Answering, Executed, Recovery, card

LEMMA NextChunkStep == ASSUME TypeInv, StepInv, SendNextChunk PROVE StepInv'
  <1> USE DEF StepInv, Waiting
  <1>1. /\ Busy /\ History /\ UNCHANGED card /\ pc' = "first"
        /\ UNCHANGED <<cmd, collecting, got, outcome>>
        /\ blockNumber' = 1 - blockNumber /\ sent' = sent + 1
        /\ cur' = CmdBlock(cmd, sent + 1, 1 - blockNumber)
        /\ toCard' = cur' /\ toReader' = Silence
        /\ toReader.type = "ACK" /\ toReader.bn = blockNumber
        /\ sent < CmdBlocks[cmd]
    BY DEF SendNextChunk, Delivered, Answered, MoreToSend, AckInStep, Exchange,
           SendBlock, SendRaw
  <1>2. History' /\ HalfDuplex'
    BY <1>1 DEF History, HalfDuplex, card
  <1>3. blockNumber \in {0, 1} /\ sent \in Nat
    BY DEF TypeInv, TypeOK, ReaderTypeOK
  <1>4. ~Unsent /\ ~Answering /\ ~Awaited
    BY <1>1, <1>3, FrameFields, FailureType, SilenceType
       DEF Unsent, Answering, Awaited, Executed, AnswerBlock, Errors, Lost
  <1>5. ChunkHeld
    BY <1>1, <1>4 DEF Busy
  <1>6. cur'.type = "I"
    BY <1>1 DEF CmdBlock
  <1>7. CmdBlocks[cmd] \in Nat
    BY <1>1, CommandsAssumption DEF Busy, Cmds
  <1>8. Unsent'
    <2>1. sent' \in 1..CmdBlocks[cmd] /\ sent' - 1 = sent /\ cBn # blockNumber'
      BY <1>1, <1>3, <1>5, <1>7 DEF ChunkHeld
    <2>2. Sending'
      BY <1>1, <1>5 DEF ChunkHeld, Sending, card
    <2> QED
      BY <1>1, <1>5, <1>6, <2>1, <2>2, SilenceType DEF Unsent, ChunkHeld, card
  <1> QED
    BY <1>1, <1>2, <1>8 DEF Busy, card

\* What a block the reader takes must be: the next block of the answer.
LEMMA CollectFacts ==
    ASSUME TypeInv, StepInv, Collect
    PROVE  /\ Busy /\ Answering
           /\ got' = Part(cmd, Len(got) + 1) /\ Len(got') = Len(got) + 1
           /\ Len(got) \in Nat /\ Len(cResp) \in Nat
           /\ toReader.more = (Len(got) + 1 < Len(cResp))
           /\ cSent = Len(got) + 1
           /\ cBn # blockNumber' /\ toCard = Silence
  <1>1. /\ Busy /\ toReader.type = "I" /\ toReader # Silence
        /\ got' = Append(got, <<toReader.cmd, toReader.idx>>)
        /\ blockNumber' = 1 - blockNumber
    BY SilenceType DEF Collect, Delivered, Answered, Acceptable, StepInv
  <1>2. ~Unsent /\ ~ChunkHeld /\ ~Awaited
    BY <1>1, FrameFields, FailureType, SilenceType
       DEF Unsent, ChunkHeld, Awaited, Errors, Lost
  <1>3. Answering
    BY <1>1, <1>2 DEF Busy
  <1>4. Len(got) \in Nat /\ Len(cResp) \in Nat /\ blockNumber \in {0, 1}
    BY DEF TypeInv, TypeOK, ReaderTypeOK, CardTypeOK
  <1>5. /\ toReader = AnswerBlock(cmd, cResp, Len(got) + 1, blockNumber)
        /\ cSent = Len(got) + 1
    BY <1>1, <1>3, FrameFields, FailureType, SilenceType DEF Answering, Errors, Lost
  <1>6. /\ toReader.cmd = cmd /\ toReader.idx = Len(got) + 1
        /\ toReader.more = (Len(got) + 1 < Len(cResp))
    BY <1>5 DEF AnswerBlock
  <1>7. got' = Part(cmd, Len(got) + 1)
    BY <1>1, <1>3, <1>4, <1>6, PartLast DEF Answering, Executed
  <1>8. Len(got') = Len(got) + 1
    BY <1>4, <1>7, PartLast
  <1> QED
    BY <1>1, <1>3, <1>4, <1>5, <1>6, <1>7, <1>8 DEF Answering, StepInv, HalfDuplex

LEMMA CollectAndAckStep == ASSUME TypeInv, StepInv, CollectAndAck PROVE StepInv'
  <1> USE DEF StepInv, Waiting
  <1>1. /\ Collect /\ toReader.more /\ UNCHANGED card /\ pc' = "first"
        /\ UNCHANGED <<cmd, sent, outcome>> /\ collecting'
        /\ toCard' = Frame("ACK", 1 - blockNumber) /\ toReader' = Silence
        /\ blockNumber' = 1 - blockNumber
    BY DEF CollectAndAck, Collect, Exchange, SendBlock, SendRaw
  <1>2. History' /\ HalfDuplex'
    BY <1>1, CollectFacts DEF History, HalfDuplex, card, Busy
  <1>3. got' # <<>>
    <2>1. Len(got') = Len(got) + 1 /\ Len(got) \in Nat
      BY <1>1, CollectFacts
    <2>2. Len(got') # 0
      BY <2>1
    <2> QED
      BY <2>2
  <1>4. Awaited'
    BY <1>1, <1>3, CollectFacts DEF Awaited, Answering, Executed, card
  <1> QED
    BY <1>1, <1>2, <1>4, CollectFacts DEF Busy, card

LEMMA CollectLastStep == ASSUME TypeInv, StepInv, CollectLast PROVE StepInv'
  <1> USE DEF StepInv, Waiting
  <1>1. /\ Collect /\ ~toReader.more /\ UNCHANGED card /\ pc' = "idle"
        /\ UNCHANGED <<cmd, sent, toCard>> /\ toReader' = Silence
    BY DEF CollectLast
  <1>2. Len(got) + 1 = Len(cResp)
    <2>1. Len(got) < Len(cResp)
      BY <1>1, CollectFacts DEF Answering, Executed
    <2>2. ~(Len(got) + 1 < Len(cResp)) /\ Len(got) \in Nat /\ Len(cResp) \in Nat
      BY <1>1, CollectFacts
    <2> QED
      BY <2>1, <2>2
  <1>3. got' = Part(cmd, Len(cResp)) /\ runs[cmd] = 1 /\ cmd \in Cmds
    BY <1>1, <1>2, CollectFacts DEF Answering, Executed, Busy
  <1>4. History' /\ HalfDuplex'
    BY <1>1, <1>3 DEF History, HalfDuplex, card
  <1>5. Idle'
    BY <1>1, CollectFacts DEF Idle, Answering, Executed, Busy, card
  <1> QED
    BY <1>1, <1>4, <1>5

LEMMA ReaderStep == ASSUME TypeInv, StepInv, ReaderNext PROVE slipped' \/ StepInv'
  <1>1. CASE GiveUp
    <2>1. toReader.type \in Errors /\ toReader.type # "ok" /\ toReader # Silence
      BY <1>1, SilenceType DEF GiveUp, Errors, Lost
    <2> QED
      BY <1>1, <2>1, ReturnStep DEF GiveUp
  <1>2. CASE RefuseWtx \/ RejectChunkAnswer \/ RejectAnswer
    <2>1. pc \in Waiting /\ toReader # Silence
      BY <1>2, SilenceType DEF RefuseWtx, RejectChunkAnswer, RejectAnswer, Delivered, Answered
    <2>2. Return("Protocol") \/ Return("BufferTooSmall")
      BY <1>2 DEF RefuseWtx, RejectChunkAnswer, RejectAnswer
    <2> QED
      BY <2>1, <2>2, ReturnStep
  <1>3. CASE Deselect \/ Deselected
    BY <1>3, SilenceType
       DEF Deselect, Deselected, StepInv, History, HalfDuplex, Ending, SendRaw, Waiting, card
  <1> QED
    BY <1>1, <1>2, <1>3, OpeningStep, TransceiveStep, RecoverStep, ResendStep,
       GrantWtxStep, NextChunkStep, CollectAndAckStep, CollectLastStep DEF ReaderNext

LEMMA CardRatsStep == ASSUME TypeInv, StepInv, CardRats PROVE StepInv'
  <1> USE DEF StepInv, Waiting
  <1>1. /\ UNCHANGED reader /\ UNCHANGED runs /\ UNCHANGED torn /\ toCard.type = "RATS"
        /\ cOn' /\ cBn' = 1 /\ cIn' = <<>>
        /\ toCard' = Silence /\ toReader' = Frame("ATS", 0)
    BY DEF CardRats
  <1>2. pc \in {"down", "rats"}
    <2>1. ~Busy
      BY <1>1, FrameFields, SilenceType
         DEF Busy, Unsent, Sending, ChunkHeld, Answering, Awaited, Recovery, CmdBlock
    <2>2. ~Idle /\ ~Ending
      BY <1>1, FrameFields, SilenceType DEF Idle, Ending
    <2> QED
      BY <2>1, <2>2 DEF TypeInv, TypeOK, ReaderTypeOK
  <1>3. Opening'
    BY <1>1, <1>2, SilenceType DEF Opening, reader
  <1>4. History' /\ HalfDuplex'
    BY <1>1, <1>2 DEF History, HalfDuplex, Opening, reader
  <1> QED
    BY <1>1, <1>2, <1>3, <1>4 DEF reader

\* An I-block on its way to the card is the chunk the card does not have.
LEMMA ChunkFacts ==
    ASSUME TypeInv, StepInv, toCard.type = "I"
    PROVE  /\ pc \in Waiting /\ Busy /\ Unsent
           /\ toCard = cur /\ toCard.cmd = cmd /\ toCard.idx = sent
           /\ toCard.more = (sent < CmdBlocks[cmd])
           /\ Append(cIn, <<cmd, sent>>) = Part(cmd, sent)
           /\ 1 - cBn = blockNumber /\ sent \in 1..CmdBlocks[cmd]
           /\ CmdBlocks[cmd] \in Nat
  <1> USE DEF StepInv
  <1>1. ~Opening /\ ~Idle /\ ~Ending
    BY FrameFields, SilenceType DEF Opening, Idle, Ending
  <1>2. pc \in Waiting /\ Busy
    BY <1>1 DEF TypeInv, TypeOK, ReaderTypeOK
  <1>3. ~ChunkHeld /\ ~Answering /\ ~Awaited
    BY FrameFields, SilenceType DEF ChunkHeld, Answering, Awaited, Recovery
  <1>4. Unsent
    BY <1>2, <1>3 DEF Busy
  <1>5. toCard = cur /\ cur = CmdBlock(cmd, sent, blockNumber)
    BY <1>4, FrameFields, SilenceType DEF Unsent, Sending
  <1>6. CmdBlocks[cmd] \in Nat /\ sent \in 1..CmdBlocks[cmd]
    BY <1>2, <1>4, CommandsAssumption DEF Busy, Unsent, Cmds
  <1>7. Append(cIn, <<cmd, sent>>) = Part(cmd, sent)
    <2>1. sent - 1 \in Nat /\ sent - 1 + 1 = sent
      BY <1>6
    <2> QED
      BY <1>4, <2>1, PartLast DEF Unsent
  <1>8. 1 - cBn = blockNumber
    BY <1>4 DEF Unsent, TypeInv, TypeOK, ReaderTypeOK, CardTypeOK
  <1> QED
    BY <1>2, <1>4, <1>5, <1>6, <1>7, <1>8 DEF CmdBlock

LEMMA CardTakesChunkStep == ASSUME TypeInv, StepInv, CardTakesChunk PROVE StepInv'
  <1> USE DEF StepInv, Waiting
  <1>1. /\ UNCHANGED reader /\ UNCHANGED <<cOn, cResp, runs, torn>>
        /\ toCard.type = "I" /\ toCard.more
        /\ cBn' = 1 - cBn /\ cIn' = Append(cIn, <<toCard.cmd, toCard.idx>>)
        /\ toCard' = Silence /\ toReader' = cLast' /\ cLast' = Frame("ACK", 1 - cBn)
    BY DEF CardTakesChunk, CardSends
  <1>2. History' /\ HalfDuplex'
    BY <1>1 DEF History, HalfDuplex, reader
  <1>3. ChunkHeld'
    <2>1. sent \in 1..CmdBlocks[cmd] /\ sent # CmdBlocks[cmd]
      <3>1. sent < CmdBlocks[cmd] /\ sent \in 1..CmdBlocks[cmd] /\ CmdBlocks[cmd] \in Nat
        BY <1>1, ChunkFacts
      <3> QED
        BY <3>1
    <2>2. cIn' = Part(cmd, sent) /\ cBn' = blockNumber /\ Unsent
      BY <1>1, ChunkFacts
    <2> QED
      BY <1>1, <2>1, <2>2 DEF ChunkHeld, Unsent, Sending, reader
  <1> QED
    BY <1>1, <1>2, <1>3, ChunkFacts DEF Busy, reader

\* The card sends the next block of its answer, or asks for more time first.
LEMMA AnsweringStep ==
    ASSUME TypeInv, UNCHANGED reader,
           cBn' = blockNumber, Executed(Len(got))', collecting <=> got # <<>>,
           AnswerOrWtx(cmd, cResp', Len(got) + 1, blockNumber)
    PROVE  Answering' /\ toCard' = Silence
  <1>1. Len(got) \in Nat /\ Len(got) + 1 - 1 = Len(got)
    BY DEF TypeInv, TypeOK, ReaderTypeOK
  <1>2. toCard' = Silence /\ toReader' = cLast'
    BY DEF AnswerOrWtx, CardSends
  <1>3. \/ cLast' = Frame("WTX", 0) /\ cSent' = Len(got)
        \/ /\ cLast' = AnswerBlock(cmd, cResp', Len(got) + 1, blockNumber)
           /\ cSent' = Len(got) + 1
    BY <1>1 DEF AnswerOrWtx, CardSends
  <1> QED
    BY <1>2, <1>3 DEF Answering, reader

LEMMA CardRunsStep == ASSUME TypeInv, StepInv, CardRuns PROVE StepInv'
  <1> USE DEF StepInv, Waiting
  <1>1. /\ UNCHANGED reader /\ UNCHANGED cOn
        /\ toCard.type = "I" /\ ~toCard.more
        /\ cBn' = 1 - cBn /\ cIn' = <<>> /\ cCmd' = toCard.cmd
        /\ runs' = [runs EXCEPT ![toCard.cmd] = @ + 1]
        /\ torn' = (torn \/ Append(cIn, <<toCard.cmd, toCard.idx>>)
                              # Part(toCard.cmd, CmdBlocks[toCard.cmd]))
    BY DEF CardRuns
  <1>2. PICK a \in Answers : cResp' = a /\ AnswerOrWtx(toCard.cmd, a, 1, 1 - cBn)
    BY DEF CardRuns
  <1>3. sent = CmdBlocks[cmd] /\ ~torn'
    <2>1. ~(sent < CmdBlocks[cmd]) /\ sent \in 1..CmdBlocks[cmd] /\ CmdBlocks[cmd] \in Nat
      BY <1>1, ChunkFacts
    <2>2. sent = CmdBlocks[cmd]
      BY <2>1
    <2>3. Append(cIn, <<toCard.cmd, toCard.idx>>) = Part(toCard.cmd, CmdBlocks[toCard.cmd])
      BY <1>1, <2>2, ChunkFacts
    <2> QED
      BY <1>1, <2>2, <2>3 DEF History
  <1>4. runs[cmd] = 0 /\ runs \in [Cmds -> Nat] /\ cmd \in Cmds /\ got = <<>> /\ ~collecting
    BY <1>1, ChunkFacts DEF Unsent, Sending, Busy, TypeInv, TypeOK, CardTypeOK
  <1>5. runs'[cmd] = 1 /\ \A c \in Cmds : c # cmd => runs'[c] = runs[c]
    BY <1>1, <1>4, ChunkFacts
  <1>6. History'
    <2>1. UNCHANGED reader /\ ~torn' /\ History /\ outcome # "ok"
      BY <1>1, <1>3, ChunkFacts DEF Busy
    <2>2. ASSUME NEW c \in Cmds PROVE runs'[c] <= 1 /\ (cmd < c => runs'[c] = 0)
      BY <1>4, <1>5, <2>1 DEF History, Cmds
    <2>3. cmd' = cmd /\ outcome' # "ok"
      BY <2>1 DEF reader
    <2> QED
      BY <2>1, <2>2, <2>3 DEF History
  <1>7. Len(a) \in Nat /\ 0 < Len(a)
    <2>1. a \in Seq(Nat) /\ a # <<>>
      BY AnswersAssumption
    <2>2. Len(a) \in Nat /\ Len(a) # 0
      BY <2>1
    <2> QED
      BY <2>2
  <1>8. Len(got) = 0 /\ got = Part(cmd, 0)
    BY <1>4, PartZero
  <1>9. Executed(Len(got))'
    BY <1>1, <1>2, <1>3, <1>5, <1>7, <1>8, ChunkFacts DEF Executed, reader
  <1>10. Answering' /\ toCard' = Silence
    BY <1>1, <1>2, <1>4, <1>8, <1>9, ChunkFacts, AnsweringStep
  <1> QED
    BY <1>1, <1>6, <1>10, ChunkFacts DEF Busy, HalfDuplex, reader

LEMMA CardTakesWtxStep == ASSUME TypeInv, StepInv, CardTakesWtx PROVE StepInv'
  <1> USE DEF StepInv, Waiting
  <1>1. /\ UNCHANGED reader /\ UNCHANGED <<cOn, cBn, cIn, cCmd, cResp, runs, torn>>
        /\ toCard.type = "WTX" /\ AnswerOrWtx(cCmd, cResp, cSent + 1, cBn)
    BY DEF CardTakesWtx
  <1>2. ~Opening /\ ~Idle /\ ~Ending
    BY <1>1, FrameFields, SilenceType DEF Opening, Idle, Ending
  <1>3. pc \in Waiting /\ Busy
    BY <1>2 DEF TypeInv, TypeOK, ReaderTypeOK
  <1>4. ~Unsent /\ ~ChunkHeld /\ ~Awaited
    BY <1>1, FrameFields, SilenceType DEF Unsent, Sending, ChunkHeld, Awaited, CmdBlock
  <1>5. Answering
    BY <1>3, <1>4 DEF Busy
  <1>6. cSent = Len(got)
    BY <1>1, <1>5 DEF Answering, AnswerBlock, TypeInv, WtxInv
  <1>7. Executed(Len(got))'
    BY <1>1, <1>5 DEF Answering, Executed, reader
  <1>8. Answering' /\ toCard' = Silence
    BY <1>1, <1>5, <1>6, <1>7, AnsweringStep DEF Answering, Executed
  <1>9. History' /\ HalfDuplex'
    BY <1>1, <1>8 DEF History, HalfDuplex, reader
  <1> QED
    BY <1>1, <1>3, <1>8, <1>9 DEF Busy, reader

LEMMA CardRepeatsStep == ASSUME TypeInv, StepInv, CardRepeats PROVE StepInv'
  <1> USE DEF StepInv, Waiting
  <1>1. /\ UNCHANGED reader /\ UNCHANGED <<cOn, cBn, cLast, cIn, cCmd, cResp, cSent, runs, torn>>
        /\ toCard.type \in {"ACK", "NAK"} /\ toCard.bn = cBn
        /\ toCard' = Silence /\ toReader' = cLast
    BY DEF CardRepeats, CardSends
  <1>2. ~Opening /\ ~Idle /\ ~Ending
    BY <1>1, FrameFields, SilenceType DEF Opening, Idle, Ending
  <1>3. pc \in Waiting /\ Busy
    BY <1>2 DEF TypeInv, TypeOK, ReaderTypeOK
  <1>4. History' /\ HalfDuplex'
    BY <1>1 DEF History, HalfDuplex, reader
  <1>5. ~Unsent /\ ~Awaited
    BY <1>1, FrameFields, SilenceType DEF Unsent, Sending, Awaited, CmdBlock
  <1>6. ChunkHeld' \/ Answering'
    BY <1>1, <1>3, <1>5
       DEF Busy, ChunkHeld, Answering, Sending, Executed, Recovery, reader
  <1> QED
    BY <1>1, <1>3, <1>4, <1>6 DEF Busy, reader

LEMMA CardNeverHadStep == ASSUME TypeInv, StepInv, CardNeverHad PROVE StepInv'
  <1> USE DEF StepInv, Waiting
  <1>1. /\ UNCHANGED reader /\ UNCHANGED <<cOn, cBn, cIn, cCmd, cResp, cSent, runs, torn>>
        /\ toCard.type = "NAK" /\ toCard.bn # cBn
        /\ toCard' = Silence /\ toReader' = Frame("ACK", cBn)
    BY DEF CardNeverHad, CardSends
  <1>2. ~Opening /\ ~Idle /\ ~Ending
    BY <1>1, FrameFields, SilenceType DEF Opening, Idle, Ending
  <1>3. pc \in Waiting /\ Busy
    BY <1>2 DEF TypeInv, TypeOK, ReaderTypeOK
  <1>4. History' /\ HalfDuplex'
    BY <1>1 DEF History, HalfDuplex, reader
  <1>5. ~ChunkHeld /\ ~Answering /\ ~Awaited
    BY <1>1, FrameFields, SilenceType DEF ChunkHeld, Answering, Awaited, Recovery
  <1>6. Unsent /\ cBn = 1 - blockNumber
    BY <1>3, <1>5 DEF Busy, Unsent, TypeInv, TypeOK, ReaderTypeOK, CardTypeOK
  <1>7. Unsent'
    BY <1>1, <1>6, SilenceType DEF Unsent, Sending, reader
  <1> QED
    BY <1>1, <1>3, <1>4, <1>7 DEF Busy, reader

LEMMA CardChainsStep == ASSUME TypeInv, StepInv, CardChains PROVE StepInv'
  <1> USE DEF StepInv, Waiting
  <1>1. /\ UNCHANGED reader /\ UNCHANGED <<cOn, cIn, cCmd, cResp, runs, torn>>
        /\ toCard.type = "ACK" /\ toCard.bn # cBn /\ cBn' = 1 - cBn
        /\ AnswerOrWtx(cCmd, cResp, cSent + 1, 1 - cBn)
    BY DEF CardChains
  <1>2. ~Opening /\ ~Idle /\ ~Ending
    BY <1>1, FrameFields, SilenceType DEF Opening, Idle, Ending
  <1>3. pc \in Waiting /\ Busy
    BY <1>2 DEF TypeInv, TypeOK, ReaderTypeOK
  <1>4. ~Unsent /\ ~ChunkHeld /\ ~Answering
    BY <1>1, FrameFields, SilenceType
       DEF Unsent, Sending, ChunkHeld, Answering, CmdBlock, Recovery
  <1>5. Awaited /\ 1 - cBn = blockNumber
    BY <1>3, <1>4 DEF Busy, Awaited, TypeInv, TypeOK, ReaderTypeOK, CardTypeOK
  <1>6. Executed(Len(got))'
    BY <1>1, <1>5 DEF Awaited, Executed, reader
  <1>7. Answering' /\ toCard' = Silence
    BY <1>1, <1>5, <1>6, AnsweringStep DEF Awaited, Executed
  <1>8. History' /\ HalfDuplex'
    BY <1>1, <1>7 DEF History, HalfDuplex, reader
  <1> QED
    BY <1>1, <1>3, <1>7, <1>8 DEF Busy, reader

LEMMA CardDeselectsStep == ASSUME TypeInv, StepInv, CardDeselects PROVE StepInv'
  <1> USE DEF StepInv, Waiting
  <1>1. /\ UNCHANGED reader /\ UNCHANGED <<cResp, runs, torn>> /\ toCard.type = "DESELECT"
        /\ toCard' = Silence
    BY DEF CardDeselects
  <1>2. ~Opening /\ ~Idle
    BY <1>1, FrameFields, SilenceType DEF Opening, Idle
  <1>3. ~Busy
    BY <1>1, FrameFields, SilenceType
       DEF Busy, Unsent, Sending, ChunkHeld, Answering, Awaited, Recovery, CmdBlock
  <1> QED
    BY <1>1, <1>2, <1>3 DEF History, HalfDuplex, Ending, reader, TypeInv, TypeOK, ReaderTypeOK

LEMMA LoseStep == ASSUME TypeInv, StepInv, LoseFrame \/ LoseAnswer PROVE StepInv'
  <1> USE DEF StepInv, Waiting
  <1>1. /\ UNCHANGED reader /\ UNCHANGED card /\ toCard' = Silence
        /\ toReader' \in Failures /\ toReader'.type \in Errors
        /\ toCard # Silence \/ toReader # Silence
    BY FailureType, SilenceType
       DEF LoseFrame, LoseAnswer, NothingBack, Failures, Errors, Lost
  <1>2. History' /\ HalfDuplex'
    BY <1>1 DEF History, HalfDuplex, reader, card
  <1>3. Opening /\ pc # "down" => Opening'
    BY <1>1 DEF Opening, reader, card, Errors, Lost
  <1>4. ~Idle /\ (Opening => pc # "down")
    BY <1>1 DEF Idle, Opening
  <1>5. Busy => Busy'
    <2>1. Unsent => Unsent'
      BY <1>1, SilenceType DEF Unsent, Sending, reader, card, Errors, Lost
    <2>2. ChunkHeld => ChunkHeld'
      BY <1>1 DEF ChunkHeld, Sending, reader, card
    <2>3. Answering => Answering'
      BY <1>1 DEF Answering, Executed, Recovery, reader, card
    <2>4. Awaited => Awaited'
      BY <1>1 DEF Awaited, Executed, reader, card
    <2> QED
      BY <1>1, <2>1, <2>2, <2>3, <2>4 DEF Busy, reader, card
  <1> QED
    BY <1>1, <1>2, <1>3, <1>4, <1>5 DEF Ending, reader

LEMMA AirStep == ASSUME TypeInv, StepInv, AirNext PROVE StepInv'
  BY CardRatsStep, CardTakesChunkStep, CardRunsStep, CardTakesWtxStep, CardRepeatsStep,
     CardNeverHadStep, CardChainsStep, CardDeselectsStep, LoseStep DEF AirNext, CardNext

LEMMA InvStep == IInv /\ [Next]_vars => IInv'
  <1> SUFFICES ASSUME IInv, [Next]_vars PROVE IInv'
    OBVIOUS
  <1>1. TypeInv'
    BY TypeStep DEF IInv
  <1>2. slipped => slipped'
    BY DEF Next, ReaderNext, AirNext, CardNext, Activate, Activated, ActivationFailed,
           Transceive, Recover, GiveUp, Resend, GrantWtx, RefuseWtx, SendNextChunk,
           RejectChunkAnswer, CollectAndAck, CollectLast, RejectAnswer, Return,
           Deselect, Deselected, CardRats, CardTakesChunk, CardRuns, CardTakesWtx,
           CardRepeats, CardNeverHad, CardChains, CardDeselects, LoseFrame, LoseAnswer,
           reader, vars
  <1>3. CASE slipped
    BY <1>1, <1>2, <1>3 DEF IInv
  <1>4. CASE StepInv /\ Next
    BY <1>1, <1>4, ReaderStep, AirStep DEF IInv, Next
  <1>5. CASE StepInv /\ UNCHANGED vars
    <2>1. StepInv'
      BY <1>5 DEF StepInv, History, HalfDuplex, Opening, Idle, Busy, Unsent, ChunkHeld,
         Answering, Awaited, Executed, Sending, Recovery, Ending, Waiting, vars, reader, card
    <2> QED
      BY <1>1, <2>1 DEF IInv
  <1> QED
    BY <1>3, <1>4, <1>5 DEF IInv

LEMMA Invariance == Spec => []IInv
  <1>1. Init => IInv
    BY TypeInit, StepInit DEF IInv
  <1> QED
    BY <1>1, InvStep, PTL DEF Spec

\* A command is executed at most once, for every number and size of commands
\* and every pattern of losses, while no failed exchange has been carried on
\* from.
THEOREM RunsAtMostOnce == Spec => []AtMostOnce
  <1>1. IInv => AtMostOnce
    BY DEF IInv, StepInv, History, AtMostOnce
  <1> QED
    BY Invariance, <1>1, PTL

\* What the card executes is the whole command.
THEOREM RunsWholeCommands == Spec => []CommandWhole
  <1>1. IInv => CommandWhole
    BY DEF IInv, StepInv, History, CommandWhole
  <1> QED
    BY Invariance, <1>1, PTL

\* Between exchanges the block numbers are in step.
THEOREM StaysInStep == Spec => []InStep
  <1>1. IInv => InStep
    BY DEF IInv, StepInv, Idle, InStep
  <1> QED
    BY Invariance, <1>1, PTL

\* A successful transceive returned the whole answer to its own command.
THEOREM ReturnsWholeResponse == Spec => []ResponseWhole
  <1>1. IInv => ResponseWhole
    BY DEF IInv, StepInv, History, ResponseWhole
  <1> QED
    BY Invariance, <1>1, PTL

\* A chained response never runs past the caller's buffer.
THEOREM ResponseFits == Spec => []FitsBuffer
  <1>1. Init => FitsBuffer
    BY LimitsAssumption DEF Init, FitsBuffer
  <1>2. TypeInv /\ FitsBuffer /\ [Next]_vars => FitsBuffer'
    <2> SUFFICES ASSUME TypeInv, FitsBuffer, [Next]_vars PROVE FitsBuffer'
      OBVIOUS
    <2>1. CASE Collect
      <3>1. toReader.size \in Nat /\ total \in Nat /\ RxCap \in Nat
        BY LimitsAssumption DEF TypeInv, TypeOK, ReaderTypeOK, Frames
      <3>2. toReader.size <= RxCap - total /\ total' = total + toReader.size
        BY <2>1 DEF Collect, Fits
      <3> QED
        BY <3>1, <3>2 DEF FitsBuffer
    <2>2. CASE Transceive
      BY <2>2, LimitsAssumption DEF Transceive, FitsBuffer
    <2>3. Collect \/ Transceive \/ UNCHANGED total
      BY DEF Next, ReaderNext, AirNext, CardNext, Activate, Activated, ActivationFailed,
         Recover, GiveUp, Resend, GrantWtx, RefuseWtx, SendNextChunk, RejectChunkAnswer,
         CollectAndAck, CollectLast, RejectAnswer, Return, Deselect, Deselected,
         CardRats, CardTakesChunk, CardRuns, CardTakesWtx, CardRepeats, CardNeverHad,
         CardChains, CardDeselects, LoseFrame, LoseAnswer, reader, vars
    <2> QED
      BY <2>1, <2>2, <2>3 DEF FitsBuffer
  <1> QED
    BY TypeInit, TypeStep, <1>1, <1>2, PTL DEF Spec

(***************************************************************************)
(* The field is dropped before the reader starts over.                     *)
(***************************************************************************)
LEMMA FreshInit == Init => FreshInv
  BY SilenceType DEF Init, FreshInv, HalfDuplex

LEMMA FreshReader ==
    ASSUME FreshInv, ReaderNext
    PROVE  FreshInv'
  <1> USE SilenceType DEF FreshInv, HalfDuplex, card
  <1>1. CASE Activate
    BY <1>1, FrameFields DEF Activate, SendRaw
  <1>2. CASE Activated \/ ActivationFailed
    <2>1. toReader # Silence
      BY <1>2 DEF Activated, ActivationFailed, Errors, Lost
    <2> QED
      BY <1>2, <2>1 DEF Activated, ActivationFailed
  <1>3. CASE Transceive \/ Recover \/ Resend \/ GrantWtx \/ SendNextChunk \/ CollectAndAck
    <2>1. /\ toReader' = Silence /\ pc' \in Waiting
          /\ toCard'.type # "RATS"
      <3>1. \A c, i, n : CmdBlock(c, i, n).type = "I"
        BY DEF CmdBlock
      <3>2. CASE Transceive
        BY <3>1, <3>2 DEF Transceive, Exchange, SendBlock, SendRaw, Waiting
      <3>3. CASE Recover
        BY <3>3, FrameFields DEF Recover, SendRaw, Recovery, Waiting
      <3>4. CASE Resend
        BY <3>4 DEF Resend, NeverHadIt, SendRaw, Waiting
      <3>5. CASE GrantWtx
        BY <3>5, FrameFields DEF GrantWtx, SendBlock, SendRaw, Waiting
      <3>6. CASE SendNextChunk
        BY <3>1, <3>6 DEF SendNextChunk, Exchange, SendBlock, SendRaw, Waiting
      <3>7. CASE CollectAndAck
        BY <3>7, FrameFields DEF CollectAndAck, Exchange, SendBlock, SendRaw, Waiting
      <3> QED
        BY <1>3, <3>2, <3>3, <3>4, <3>5, <3>6, <3>7
    <2> QED
      BY <2>1 DEF Waiting
  <1>4. CASE GiveUp \/ RefuseWtx \/ RejectChunkAnswer \/ CollectLast \/ RejectAnswer
    <2>1. /\ toReader' = Silence /\ toCard' = toCard /\ pc' \in {"idle", "over"}
          /\ pc \in Waiting
      BY <1>4 DEF GiveUp, RefuseWtx, RejectChunkAnswer, CollectLast, RejectAnswer, Collect,
         Delivered, Answered, Return
    <2> QED
      BY <2>1 DEF Waiting
  <1>5. CASE Deselect
    BY <1>5, FrameFields DEF Deselect, SendRaw
  <1>6. CASE Deselected
    BY <1>6 DEF Deselected
  <1> QED
    BY <1>1, <1>2, <1>3, <1>4, <1>5, <1>6 DEF ReaderNext

LEMMA FreshAir ==
    ASSUME FreshInv, AirNext
    PROVE  FreshInv'
  <1> USE SilenceType DEF FreshInv, HalfDuplex
  <1>1. pc' = pc /\ toCard' = Silence
    BY DEF AirNext, CardNext, CardRats, CardTakesChunk, CardRuns, CardTakesWtx, CardRepeats,
       CardNeverHad, CardChains, CardDeselects, CardSends, AnswerOrWtx, LoseFrame,
       LoseAnswer, NothingBack, reader
  <1>2. CASE CardRats
    BY <1>1, <1>2 DEF CardRats
  <1>3. ~CardRats => cOn' = cOn \/ cOn' = FALSE
    BY DEF AirNext, CardNext, CardTakesChunk, CardRuns, CardTakesWtx, CardRepeats,
       CardNeverHad, CardChains, CardDeselects, LoseFrame, LoseAnswer, card
  <1> QED
    BY <1>1, <1>2, <1>3

\* RATS meets only a card that still listens for one, also on a card that a failed
\* exchange was carried on with.
THEOREM ActivatesFreshCard == Spec => []RatsMeetsFreshCard
  <1>1. FreshInv /\ [Next]_vars => FreshInv'
    BY FreshReader, FreshAir DEF Next, vars, reader, card, FreshInv, HalfDuplex
  <1>2. FreshInv => RatsMeetsFreshCard
    BY DEF FreshInv, RatsMeetsFreshCard
  <1> QED
    BY FreshInit, <1>1, <1>2, PTL DEF Spec
-----------------------------------------------------------------------------
(***************************************************************************)
(* The block protocol implements the port of ApduPort for as long as the   *)
(* caller has not gone on from an exchange that failed.                    *)
(***************************************************************************)
\* The invariant without its exception.
PortInv == IInv /\ ~slipped

LEMMA PortInitial == Init => Port!Init
  BY DEF Init, Port!Init, PortState, Waiting, Cmds

\* A step that moves neither the reader's place nor what the port shows of it.
LEMMA Stutter ==
    ASSUME PortState' = PortState, UNCHANGED <<cmd, runs, outcome>>
    PROVE  [Port!Next]_(Port!vars)
  BY DEF Port!vars

LEMMA Waits ==
    /\ pc \in Waiting => PortState = "busy"
    /\ pc' \in Waiting => PortState' = "busy"
  BY DEF PortState, Waiting

LEMMA FailImplements ==
    ASSUME NEW e \in {"CardLost", "Transport", "Protocol", "BufferTooSmall"},
           pc \in Waiting, Return(e)
    PROVE  Port!Fail
  BY DEF Return, Port!Fail, Port!Errors, PortState, Waiting, card

LEMMA ReaderImplements ==
    ASSUME PortInv, ReaderNext
    PROVE  [Port!Next]_(Port!vars)
  <1>1. CASE Activate
    BY <1>1, Stutter DEF Activate, PortState, Waiting, card
  <1>2. CASE Activated
    BY <1>2 DEF Activated, Port!Next, Port!Open, PortState, Waiting, card
  <1>3. CASE ActivationFailed
    <2>1. pc = "rats" /\ pc' \in {"down", "closed"} /\ UNCHANGED <<cmd, runs, outcome>>
      BY <1>3 DEF ActivationFailed
    <2>2. CASE pc' = "down"
      BY <2>1, <2>2, Stutter DEF PortState, Waiting
    <2>3. CASE pc' = "closed"
      BY <2>1, <2>3 DEF Port!Next, Port!Close, PortState, Waiting
    <2> QED
      BY <2>1, <2>2, <2>3
  <1>4. CASE Transceive
    BY <1>4 DEF Transceive, Exchange, SendBlock, Port!Next, Port!Call, PortState, Waiting, card
  <1>5. CASE Recover \/ Resend \/ GrantWtx \/ SendNextChunk \/ CollectAndAck
    <2>1. pc \in Waiting /\ pc' \in Waiting
      BY <1>5 DEF Recover, Resend, NeverHadIt, GrantWtx, Answered, SendNextChunk,
         CollectAndAck, Collect, Delivered, Exchange, SendBlock, Waiting
    <2>2. UNCHANGED <<cmd, runs, outcome>>
      BY <1>5 DEF Recover, Resend, GrantWtx, SendNextChunk, CollectAndAck, card
    <2> QED
      BY <2>1, <2>2, Stutter, Waits
  <1>6. CASE GiveUp
    <2>1. toReader.type \in {"CardLost", "Transport", "Protocol", "BufferTooSmall"}
      BY <1>6 DEF GiveUp, Errors, Lost
    <2> QED
      BY <1>6, <2>1, FailImplements DEF GiveUp, Port!Next
  <1>7. CASE RefuseWtx \/ RejectChunkAnswer \/ RejectAnswer
    <2>1. pc \in Waiting
      BY <1>7 DEF RefuseWtx, RejectChunkAnswer, RejectAnswer, Delivered, Answered
    <2>2. Return("Protocol") \/ Return("BufferTooSmall")
      BY <1>7 DEF RefuseWtx, RejectChunkAnswer, RejectAnswer
    <2> QED
      BY <2>1, <2>2, FailImplements DEF Port!Next
  <1>8. CASE CollectLast
    <2>1. Answering /\ pc \in Waiting
      BY <1>8, CollectFacts
         DEF CollectLast, Collect, Delivered, Answered, PortInv, IInv
    <2>2. runs[cmd] = 1 /\ pc' = "idle" /\ outcome' = "ok" /\ UNCHANGED <<cmd, runs>>
      BY <1>8, <2>1 DEF CollectLast, Answering, Executed, card
    <2> QED
      BY <2>1, <2>2 DEF Port!Next, Port!Return, PortState, Waiting
  <1>9. CASE Deselect
    BY <1>9 DEF Deselect, Port!Next, Port!Close, PortState, Waiting, card
  <1>10. CASE Deselected
    BY <1>10, Stutter DEF Deselected, PortState, Waiting, card
  <1> QED
    BY <1>1, <1>2, <1>3, <1>4, <1>5, <1>6, <1>7, <1>8, <1>9, <1>10 DEF ReaderNext

LEMMA AirImplements ==
    ASSUME PortInv, AirNext
    PROVE  [Port!Next]_(Port!vars)
  <1>1. UNCHANGED <<pc, cmd, outcome>>
    BY DEF AirNext, CardNext, CardRats, CardTakesChunk, CardRuns, CardTakesWtx,
           CardRepeats, CardNeverHad, CardChains, CardDeselects, LoseFrame, LoseAnswer, reader
  <1>2. PortState' = PortState
    BY <1>1 DEF PortState
  <1>3. CASE UNCHANGED runs
    BY <1>1, <1>2, <1>3, Stutter
  <1>4. CASE CardRuns
    <2>1. toCard.type = "I" /\ runs' = [runs EXCEPT ![toCard.cmd] = @ + 1]
      BY <1>4 DEF CardRuns
    <2>2. pc \in Waiting /\ Unsent /\ toCard.cmd = cmd
      BY <2>1, ChunkFacts DEF PortInv, IInv
    <2>3. runs[cmd] = 0 /\ runs' = [runs EXCEPT ![cmd] = 1]
      <3>1. runs[cmd] = 0 /\ runs' = [runs EXCEPT ![cmd] = runs[cmd] + 1]
        BY <2>1, <2>2 DEF Unsent, Sending
      <3>2. runs[cmd] + 1 = 1
        BY <3>1
      <3> QED
        BY <3>1, <3>2
    <2> QED
      BY <1>1, <1>2, <2>2, <2>3, Waits DEF Port!Next, Port!Execute
  <1> QED
    BY <1>3, <1>4
       DEF AirNext, CardNext, CardRats, CardTakesChunk, CardTakesWtx,
           CardRepeats, CardNeverHad, CardChains, CardDeselects, LoseFrame, LoseAnswer, card

\* Whatever failures the caller goes on from, the block protocol is an
\* implementation of the port up to the first of them, that failure included: every
\* call is executed at most once between its start and its return, and returns
\* success only if it was executed (emrtd_isodep.h:105-122).
THEOREM ImplementsApduPort == Spec => ImplementsPort
  <1>1. IInv /\ [Next]_vars => [slipped \/ Port!Next]_(Port!vars)
    <2> SUFFICES ASSUME IInv, [Next]_vars, ~slipped PROVE [Port!Next]_(Port!vars)
      OBVIOUS
    <2>1. PortInv
      BY DEF PortInv
    <2>2. CASE UNCHANGED vars
      BY <2>2, Stutter DEF vars, reader, card, PortState
    <2> QED
      BY <2>1, <2>2, ReaderImplements, AirImplements DEF Next
  <1>2. IInv /\ [Next]_vars => IInv'
    BY InvStep
  <1>3. Init => IInv
    BY TypeInit, StepInit DEF Init, IInv
  <1> QED
    BY PortInitial, <1>1, <1>2, <1>3, PTL DEF Spec, ImplementsPort

\* A caller that gives up after a failed exchange, as the read does inside a
\* session, has the port for good.
THEOREM ImplementsApduPortForGood ==
    ASSUME Tolerated = {}
    PROVE  Spec => Port!Spec
  <1>1. ~slipped /\ [Next]_vars => ~slipped'
    BY DEF Next, ReaderNext, AirNext, CardNext, Activate, Activated, ActivationFailed,
           Transceive, Recover, GiveUp, Resend, GrantWtx, RefuseWtx, SendNextChunk,
           RejectChunkAnswer, CollectAndAck, CollectLast, RejectAnswer, Return,
           Deselect, Deselected, CardRats, CardTakesChunk, CardRuns, CardTakesWtx,
           CardRepeats, CardNeverHad, CardChains, CardDeselects, LoseFrame, LoseAnswer,
           reader, vars
  <1>2. Init => ~slipped
    BY DEF Init
  <1>3. ~slipped /\ [slipped \/ Port!Next]_(Port!vars) => [Port!Next]_(Port!vars)
    OBVIOUS
  <1> QED
    BY ImplementsApduPort, <1>1, <1>2, <1>3, PTL DEF Spec, ImplementsPort, Port!Spec
=============================================================================
