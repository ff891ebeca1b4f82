-------------------------------- MODULE Frame --------------------------------
(***************************************************************************)
(* How much of a file the reader asks for in one command:                  *)
(* emrtd_worker_chunk_size, over the frame the transceiver announced and   *)
(* the block of the session's cipher, 0 before there is a session.  What   *)
(* comes back has to fit the frame and the buffers of the firmware, which  *)
(* stops the application when one of them overflows.                       *)
(***************************************************************************)
EXTENDS Integers

MaxInf == 253                   \* EMRTD_ISO14443_4_MAX_INF
LeMax == 256                    \* EMRTD_LE_MAX
FrameOverhead == 4              \* EMRTD_FRAME_OVERHEAD
FrameDefault == 32              \* EMRTD_FRAME_DEFAULT
PlainOverhead == 2              \* the status word
SmOverhead == 20                \* EMRTD_SM_RESPONSE_OVERHEAD: DO'87' to DO'8E', SW

Least(a, b) == IF a < b THEN a ELSE b

\* emrtd_frame_payload
FramePayload(size) ==
    LET announced == IF size = 0 THEN FrameDefault ELSE size
    IN IF announced <= FrameOverhead THEN 0 ELSE announced - FrameOverhead

\* A bug for the check to find: the block that the padding may add is forgotten.
MaxLeUnpadded(fsd, block) ==
    LET budget == FramePayload(fsd)
        sealed == budget - SmOverhead
    IN IF block = 0
       THEN IF budget <= PlainOverhead THEN 0 ELSE Least(budget - PlainOverhead, LeMax)
       ELSE IF sealed <= block THEN 0
       ELSE Least((sealed \div block) * block, LeMax)

\* emrtd_transceiver_max_le: most bytes of plaintext in an answer of one frame.
MaxLe(fsd, block) ==
    LET budget == FramePayload(fsd)
        sealed == budget - SmOverhead
    IN IF block = 0
       THEN IF budget <= PlainOverhead THEN 0 ELSE Least(budget - PlainOverhead, LeMax)
       ELSE IF sealed <= block THEN 0
       ELSE Least(((sealed - block) \div block) * block, LeMax)

\* emrtd_worker_frame_limit: most bytes of plaintext whose answer fits the
\* buffers of the pollers.
FrameLimit(block) ==
    LET cipher == MaxInf - SmOverhead
    IN IF block = 0 THEN MaxInf - 2
       ELSE IF MaxInf <= SmOverhead + block THEN 0
       ELSE cipher - (cipher % block) - 1

\* emrtd_worker_chunk_size
ChunkSize(fsd, block) ==
    LET le == MaxLe(fsd, block)
        limit == FrameLimit(block)
        bounded == IF limit > 0 /\ (le = 0 \/ le > limit) THEN limit ELSE le
    IN IF bounded = 0 THEN 16 ELSE bounded

\* emrtd_worker_read_binary: a card that answers 6CXX is asked again for the
\* length it named, 0 standing for 256, or for what fits if that is less.
AskedAgain(fsd, block, sw2) ==
    Least(IF sw2 = 0 THEN LeMax ELSE sw2, ChunkSize(fsd, block))
=============================================================================
