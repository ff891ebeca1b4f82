------------------------ MODULE WorkerThreadsProofs -------------------------
(***************************************************************************)
(* Proofs about the three threads of a read, for a queue of any length and *)
(* any number of reads, files and keys.                                    *)
(*                                                                         *)
(* ThreadInv says where each thread may be while another is somewhere, and *)
(* holds whatever the user does.  The rest holds until a stale refusal has *)
(* cut a read short.  QueueInv orders the queue: while a read is alive the *)
(* keys that start a read are ahead of its events, and once it is over     *)
(* they are behind them, so that the next read begins with none of them    *)
(* left.  StageInv follows the record through the steps of the NFC thread, *)
(* AccessInv the event that makes the screen name the access method, and   *)
(* EndInv the event the read ends with.                                    *)
(***************************************************************************)
EXTENDS WorkerThreads, SequenceTheorems, TLAPS

ThreadInv ==
    /\ alive <=> ctl # "none"
    /\ nfc # "none" <=> ctl = "poll"
    /\ exportOpen => ctl \in {"poll", "closing"}
    /\ posting # "none" => ctl \in {"detect", "poll", "ended"} /\ nfc # "returned"
    /\ alive => scene = "read" /\ (stop <=> gui = "joining")
    /\ gui = "joining" => alive
    /\ gui = "closed" => ~alive
    /\ ctl = "greet" => step = 1
    /\ nfc = "callback" => step = 1 /\ failures < ActivationMax
    /\ nfc = "exchange" => Plan[step] # "Verifying"
    /\ ctl \in {"greet", "detect"} => step = 1 /\ failures = 0

QueueInv ==
    /\ alive => \A i \in 1..Len(queue) : queue[i].type \in ReadEvents => queue[i].read = reads
    /\ alive => \A i, j \in 1..Len(queue) :
          i < j /\ queue[i].type \in ReadEvents => queue[j].type # "Read"
    /\ gui = "joining" /\ after # "closed" => \A j \in 1..Len(queue) : queue[j].type # "Read"
    /\ ~alive /\ gui # "closed" => \A i, j \in 1..Len(queue) :
          i < j /\ queue[i].type = "Read" => queue[j].type \notin ReadEvents
    /\ ~alive /\ gui # "closed" /\ scene = "read" =>
          \A i \in 1..Len(queue) : queue[i].type \notin ReadEvents

\* Before the files are done.
Underway(s) == Rank("Waiting") <= Rank(s) /\ Rank(s) <= Rank("Files")
Untouched == error = "None" /\ errorStage = "Idle" /\ ~complete
Failed == error \in {"CardLost", "Activation"} \/ (error = "Cancelled" /\ stop)

StageInv ==
    /\ ctl \in {"greet", "detect"} => Untouched /\ ~authenticated
    /\ ctl = "detect" => stage = "Waiting"
    /\ nfc = "callback" => Untouched /\ ~authenticated /\ stage = "Waiting"
    /\ nfc \in {"reading", "exchange"} =>
          Untouched /\ Underway(stage) /\ (authenticated <=> step > 3)
    /\ nfc \in {"export", "finish"} =>
          /\ errorStage = "Idle" \/ (Failed /\ Underway(errorStage))
          /\ \/ error = "None" /\ complete /\ authenticated
             \/ Failed /\ ~complete /\ (errorStage = "Idle" => Underway(stage))
    /\ nfc = "returned" \/ ctl \in {"closing", "announce", "ended"} =>
          \/ error = "None" /\ complete /\ authenticated
          \/ Failed /\ ~complete /\ (Underway(errorStage) \/ error = "Cancelled")

AccessInv ==
    alive /\ ~stop =>
        /\ progress \in {"Done", "Error"} => ctl = "ended"
        /\ ctl \in {"greet", "detect"} \/ nfc = "callback" => Rank(progress) <= Rank("Authenticating")
        /\ nfc \in {"reading", "exchange"} /\ step <= 4 => Rank(progress) <= Rank("Authenticating")
        /\ nfc \in {"reading", "exchange"} => Rank(progress) <= Rank("Files")
        /\ complete => Rank(progress) >= Rank("Verifying")
        /\ authenticated /\ Rank(progress) > Rank("Authenticating") /\ progress # "Error" =>
              \/ shown \/ posting = "Authenticated"
              \/ \E i \in 1..Len(queue) : queue[i].type = "Authenticated"

EndInv ==
    /\ posting \in Ending =>
          ctl = "ended" /\ (posting = "Success" <=> error = "None" /\ complete)
    /\ posting = "Success" => progress = "Done"
    /\ \A i \in 1..Len(queue) :
          queue[i].type \in Ending /\ queue[i].read = reads =>
              /\ ctl \in {"ended", "none"} /\ posting = "none"
              /\ queue[i].type = "Success" <=> error = "None" /\ complete
              /\ queue[i].type = "Success" => progress = "Done"
              /\ \A j \in 1..Len(queue) : i < j => queue[j].type \notin WorkerEvents

IInv ==
    /\ TypeOK /\ ThreadInv
    /\ \A i \in 1..Len(queue) : queue[i].read <= reads
    /\ ~cutShort => QueueInv /\ StageInv /\ AccessInv /\ EndInv

(***************************************************************************)
(* The stages, and the queue.                                              *)
(***************************************************************************)
LEMMA Ranks ==
    /\ Rank("Idle") = 1 /\ Rank("Waiting") = 2 /\ Rank("Selecting") = 3
    /\ Rank("CardAccess") = 4 /\ Rank("Authenticating") = 5 /\ Rank("Files") = 6
    /\ Rank("Verifying") = 7 /\ Rank("Exporting") = 8 /\ Rank("Done") = 9 /\ Rank("Error") = 10
    /\ ToSet(Stages) = {"Idle", "Waiting", "Selecting", "CardAccess", "Authenticating", "Files",
                        "Verifying", "Exporting", "Done", "Error"}
  <1>1. /\ Len(Stages) = 10 /\ DOMAIN Stages = 1..10
        /\ Stages[1] = "Idle" /\ Stages[2] = "Waiting" /\ Stages[3] = "Selecting"
        /\ Stages[4] = "CardAccess" /\ Stages[5] = "Authenticating" /\ Stages[6] = "Files"
        /\ Stages[7] = "Verifying" /\ Stages[8] = "Exporting" /\ Stages[9] = "Done"
        /\ Stages[10] = "Error"
    BY DEF Stages
  <1>2. \A i, j \in 1..10 : Stages[i] = Stages[j] => i = j
    BY <1>1
  <1>3. \A i \in 1..10 : Rank(Stages[i]) = i
    BY <1>1, <1>2 DEF Rank
  <1>4. 1..10 = {1, 2, 3, 4, 5, 6, 7, 8, 9, 10}
    OBVIOUS
  <1>5. ToSet(Stages) = {"Idle", "Waiting", "Selecting", "CardAccess", "Authenticating", "Files",
                         "Verifying", "Exporting", "Done", "Error"}
    BY <1>1, <1>4 DEF ToSet
  <1>6. Rank(Stages[1]) = 1 /\ Rank(Stages[2]) = 2 /\ Rank(Stages[3]) = 3 /\ Rank(Stages[4]) = 4
        /\ Rank(Stages[5]) = 5 /\ Rank(Stages[6]) = 6 /\ Rank(Stages[7]) = 7
        /\ Rank(Stages[8]) = 8 /\ Rank(Stages[9]) = 9 /\ Rank(Stages[10]) = 10
    BY <1>3
  <1> QED
    BY <1>1, <1>5, <1>6

LEMMA Plans ==
    /\ Len(Plan) = 6
    /\ Plan[1] = "Selecting" /\ Plan[2] = "CardAccess" /\ Plan[3] = "Authenticating"
    /\ Plan[4] = "Authenticating" /\ Plan[5] = "Files" /\ Plan[6] = "Verifying"
  BY DEF Plan

Queued == [type : Events, read : 0..MaxReads]

LEMMA Length ==
    ASSUME TypeOK
    PROVE  queue \in Seq(Queued) /\ Len(queue) \in Nat /\ DOMAIN queue = 1..Len(queue)
  BY LenProperties DEF TypeOK, Queued

\* An event is put at the end of what may be a shorter queue.
LEMMA Appended ==
    ASSUME NEW q \in Seq(Queued), NEW t \in Events, NEW r \in 0..MaxReads,
           NEW p, p = Append(q, [type |-> t, read |-> r])
    PROVE  /\ p \in Seq(Queued) /\ Len(p) = Len(q) + 1 /\ Len(q) \in Nat
           /\ \A i \in 1..Len(q) : p[i] = q[i]
           /\ p[Len(q) + 1].type = t /\ p[Len(q) + 1].read = r
  <1> DEFINE e == [type |-> t, read |-> r]
  <1>1. e \in Queued /\ e.type = t /\ e.read = r
    BY DEF Queued
  <1> HIDE DEF e
  <1>2. p = Append(q, e)
    BY DEF e
  <1> QED
    BY <1>1, <1>2, AppendProperties, LenProperties

LEMMA Taken ==
    ASSUME TypeOK, queue # <<>>, NEW p, p = Tail(queue)
    PROVE  /\ p \in Seq(Queued) /\ Len(p) = Len(queue) - 1 /\ Len(p) \in Nat
           /\ 1 \in 1..Len(queue) /\ Head(queue) = queue[1]
           /\ \A i \in 1..Len(p) : p[i] = queue[i + 1] /\ i + 1 \in 1..Len(queue)
  <1>1. queue \in Seq(Queued) /\ Len(queue) \in Nat
    BY Length
  <1>2. /\ Head(queue) \in Queued /\ Tail(queue) \in Seq(Queued)
        /\ Len(Tail(queue)) = Len(queue) - 1
        /\ \A i \in 1..Len(Tail(queue)) : Tail(queue)[i] = queue[i + 1]
    BY <1>1, HeadTailProperties
  <1>3. Len(queue) # 0
    BY <1>1, EmptySeq
  <1>4. Head(queue) = queue[1]
    BY <1>1
  <1>5. 1 \in 1..Len(queue) /\ Len(p) = Len(queue) - 1 /\ Len(p) \in Nat
    BY <1>1, <1>2, <1>3
  <1>6. \A i \in 1..Len(p) : p[i] = queue[i + 1] /\ i + 1 \in 1..Len(queue)
    BY <1>1, <1>2, <1>5
  <1> QED
    BY <1>2, <1>4, <1>5, <1>6

(***************************************************************************)
(* Types.                                                                  *)
(***************************************************************************)
LEMMA InvInit == Init => IInv
  <1> SUFFICES ASSUME Init PROVE IInv
    OBVIOUS
  <1>1. queue = <<>> /\ Len(queue) = 0 /\ queue \in Seq([type : Events, read : 0..MaxReads])
    BY EmptySeq DEF Init
  <1>2. TypeOK
    <2>1. /\ progress \in ToSet(Stages) /\ stage \in ToSet(Stages) /\ errorStage \in ToSet(Stages)
      BY Ranks DEF Init
    <2>2. step \in 1..Len(Plan) /\ reads \in 0..MaxReads /\ reports \in 0..MaxFileReports
      BY Plans, ThreadsAssumption DEF Init, ThreadsAssumption
    <2>3. failures \in 0..ActivationMax /\ Len(queue) <= QueueLen
      BY <1>1, ThreadsAssumption DEF Init, ThreadsAssumption
    <2>4. queue \in Seq([type : Events, read : 0..MaxReads])
      BY <1>1
    <2> QED
      BY <2>1, <2>2, <2>3, <2>4 DEF Init, TypeOK
  <1>3. ThreadInv
    BY DEF Init, ThreadInv
  <1>4. \A i \in 1..Len(queue) : FALSE
    BY <1>1
  <1>5. QueueInv /\ StageInv /\ AccessInv /\ EndInv
    BY <1>4 DEF Init, QueueInv, StageInv, AccessInv, EndInv, Untouched, Ending
  <1> QED
    BY <1>2, <1>3, <1>4, <1>5 DEF IInv

\* What a report leaves.
LEMMA Reported ==
    ASSUME TypeOK, NEW s \in ToSet(Stages), Report(s)
    PROVE  /\ stage' \in ToSet(Stages) /\ progress' \in ToSet(Stages)
           /\ posting' \in WorkerEvents \cup {"none"}
           /\ stop => posting' = "none" /\ progress' = progress
           /\ ~stop => posting' = EventOf(s) /\ progress' = s
  BY DEF TypeOK, Report, EventOf, WorkerEvents

\* What each thread changes of what the others look at.
TypesOfReader ==
    /\ finished' \in BOOLEAN /\ exportOpen' \in BOOLEAN
    /\ posting' \in WorkerEvents \cup {"none"}
    /\ progress' \in ToSet(Stages) /\ stage' \in ToSet(Stages) /\ errorStage' \in ToSet(Stages)
    /\ error' \in {"None", "Cancelled", "CardLost", "Activation", "OutOfMemory", "Internal"}
    /\ authenticated' \in BOOLEAN /\ complete' \in BOOLEAN
    /\ ctl' \in {"none", "greet", "detect", "poll", "closing", "announce", "ended"}
    /\ nfc' \in {"none", "callback", "reading", "exchange", "export", "finish", "returned"}
    /\ step' \in 1..Len(Plan) /\ reports' \in 0..MaxFileReports /\ failures' \in 0..ActivationMax

LEMMA ReaderTypes ==
    ASSUME TypeOK, ThreadInv, CtlWork \/ Detect \/ NfcWork
    PROVE  /\ TypesOfReader
           /\ UNCHANGED <<guiVars, queue, alive, reads, stop, exporting, cutShort>>
  <1>1. UNCHANGED <<guiVars, queue, alive, reads, stop, exporting, cutShort>>
    BY DEF CtlWork, Greet, StopDetecting, StopPoller, CloseExport, Announce, Detect, NfcWork,
           CallbackStopped, CallbackReads, ActivationFails, BeginStep, BeginVerifying, StepDone,
           MoreOfFiles, StepStopped, StepFails, ExportResult, Finish, ctlOnly, nfcOnly
  <1>2. /\ ActivationMax \in Nat /\ MaxFileReports \in Nat /\ step \in 1..6 /\ Len(Plan) = 6
        /\ reports \in 0..MaxFileReports /\ failures \in 0..ActivationMax
    BY Plans, ThreadsAssumption DEF ThreadsAssumption, TypeOK
  <1>3. /\ "Waiting" \in ToSet(Stages) /\ "Done" \in ToSet(Stages) /\ "Error" \in ToSet(Stages)
        /\ "Exporting" \in ToSet(Stages) /\ "Verifying" \in ToSet(Stages)
        /\ Plan[step] \in ToSet(Stages)
    BY <1>2, Ranks, Plans
  <1>4. \A s \in ToSet(Stages) : Report(s) =>
           /\ stage' \in ToSet(Stages) /\ progress' \in ToSet(Stages)
           /\ posting' \in WorkerEvents \cup {"none"}
    BY Reported
  <1> DEFINE Kept == /\ finished \in BOOLEAN /\ exportOpen \in BOOLEAN /\ exporting \in BOOLEAN
                     /\ posting \in WorkerEvents \cup {"none"}
                     /\ progress \in ToSet(Stages) /\ stage \in ToSet(Stages)
                     /\ errorStage \in ToSet(Stages)
                     /\ error \in {"None", "Cancelled", "CardLost", "Activation",
                                   "OutOfMemory", "Internal"}
                     /\ authenticated \in BOOLEAN /\ complete \in BOOLEAN
                     /\ ctl \in {"none", "greet", "detect", "poll", "closing", "announce",
                                 "ended"}
                     /\ nfc \in {"none", "callback", "reading", "exchange", "export",
                                 "finish", "returned"}
  <1>5. Kept
    BY DEF TypeOK
  <1>6. ASSUME CtlWork \/ Detect PROVE TypesOfReader
    <2>1. CASE Greet \/ Announce
      BY <1>2, <1>3, <1>4, <1>5, <2>1 DEF Greet, Announce, ctlOnly, reader, record, TypesOfReader
    <2>2. CASE StopDetecting
      BY <1>2, <1>3, <1>4, <1>5, <2>2 DEF StopDetecting, ctlOnly, reader, TypesOfReader
    <2>3. CASE StopPoller \/ CloseExport
      BY <1>2, <1>5, <2>3 DEF StopPoller, CloseExport, ctlOnly, reader, record, TypesOfReader
    <2>4. CASE Detect
      BY <1>2, <1>5, <2>4 DEF Detect, ctlOnly, reader, record, TypesOfReader, TypeOK
    <2> QED
      BY <1>6, <2>1, <2>2, <2>3, <2>4 DEF CtlWork
  <1>7. ASSUME CallbackStopped \/ CallbackReads PROVE TypesOfReader
    BY <1>2, <1>5, <1>7 DEF CallbackStopped, CallbackReads, nfcOnly, reader, record, TypesOfReader
  <1>8. ASSUME ActivationFails PROVE TypesOfReader
    <2>1. failures < ActivationMax
      BY <1>8 DEF ActivationFails, ThreadInv
    <2> QED
      BY <1>2, <1>3, <1>4, <1>5, <1>8, <2>1 DEF ActivationFails, nfcOnly, TypesOfReader
  <1>9. ASSUME BeginStep \/ BeginVerifying PROVE TypesOfReader
    BY ZenonT(60), <1>2, <1>3, <1>4, <1>5, <1>9
       DEF BeginStep, BeginVerifying, nfcOnly, reader, TypesOfReader
  <1>10. ASSUME StepDone PROVE TypesOfReader
    <2>1. step # 6
      BY <1>10, Plans DEF StepDone, Exchanging, ThreadInv
    <2> QED
      BY <1>2, <1>5, <1>10, <2>1 DEF StepDone, nfcOnly, TypesOfReader
  <1>11. ASSUME MoreOfFiles PROVE TypesOfReader
    BY <1>2, <1>5, <1>11 DEF MoreOfFiles, nfcOnly, record, TypesOfReader
  <1>12. ASSUME StepStopped \/ StepFails PROVE TypesOfReader
    BY <1>2, <1>5, <1>12 DEF StepStopped, StepFails, nfcOnly, reader, TypesOfReader
  <1>13. ASSUME ExportResult \/ Finish PROVE TypesOfReader
    BY ZenonT(60), <1>2, <1>3, <1>4, <1>5, <1>13
       DEF ExportResult, Finish, MarkStop, nfcOnly, reader, TypesOfReader
  <1> QED
    BY <1>1, <1>6, <1>7, <1>8, <1>9, <1>10, <1>11, <1>12, <1>13 DEF CtlWork, NfcWork

\* What the GUI thread does to the queue, and where it goes.
LEMMA QueueTypes ==
    ASSUME TypeOK, FinishPost \/ Dispatch \/ Joined \/ User
    PROVE  /\ queue' \in Seq(Queued) /\ Len(queue') <= QueueLen
           /\ reads' \in 0..MaxReads
           /\ (\A i \in 1..Len(queue) : queue[i].read <= reads) =>
                 \A i \in 1..Len(queue') : queue'[i].read <= reads'
  <1>1. queue \in Seq(Queued) /\ Len(queue) \in Nat /\ Len(queue) <= QueueLen /\ QueueLen \in Nat
        /\ reads \in 0..MaxReads /\ MaxReads \in Nat
    BY Length, ThreadsAssumption DEF ThreadsAssumption, TypeOK
  <1>2. \A i \in 1..Len(queue) : queue[i] \in Queued
    BY <1>1, ElementOfSeq
  <1> DEFINE Goal == /\ queue' \in Seq(Queued) /\ Len(queue') <= QueueLen
                     /\ reads' \in 0..MaxReads
                     /\ (\A i \in 1..Len(queue) : queue[i].read <= reads) =>
                           \A i \in 1..Len(queue') : queue'[i].read <= reads'
  <1>3. ASSUME UNCHANGED <<queue, reads>> PROVE Goal
    BY <1>1, <1>3
  <1>4. ASSUME NEW t \in Events, Post(t), Room, UNCHANGED reads PROVE Goal
    <2>1. /\ queue' \in Seq(Queued) /\ Len(queue') = Len(queue) + 1
          /\ \A i \in 1..Len(queue) : queue'[i] = queue[i]
          /\ queue'[Len(queue) + 1].read = reads
      BY <1>1, <1>4, Appended DEF Post
    <2>2. \A i \in 1..Len(queue') : i \in 1..Len(queue) \/ i = Len(queue) + 1
      BY <1>1, <2>1
    <2> QED
      BY <1>1, <1>4, <2>1, <2>2 DEF Room
  <1>5. ASSUME queue # <<>>, queue' = Tail(queue), UNCHANGED reads \/ (reads' = reads + 1 /\ reads < MaxReads)
        PROVE Goal
    <2>1. /\ queue' \in Seq(Queued) /\ Len(queue') = Len(queue) - 1
          /\ \A i \in 1..Len(queue') : queue'[i] = queue[i + 1] /\ i + 1 \in 1..Len(queue)
      BY <1>5, Taken
    <2>2. \A i \in 1..Len(queue) : queue[i].read \in Nat
      BY <1>1, <1>2 DEF Queued
    <2>3. reads' \in 0..MaxReads /\ reads <= reads'
      BY <1>1, <1>5
    <2>4. ASSUME \A i \in 1..Len(queue) : queue[i].read <= reads, NEW i \in 1..Len(queue')
          PROVE  queue'[i].read <= reads'
      <3>1. queue'[i].read = queue[i + 1].read /\ i + 1 \in 1..Len(queue)
        BY <2>1, <2>4
      <3>2. queue[i + 1].read \in Nat /\ queue[i + 1].read <= reads
        BY <2>2, <2>4, <3>1
      <3> QED
        BY <1>1, <2>3, <3>1, <3>2
    <2> QED
      BY <1>1, <2>1, <2>3, <2>4
  <1>6. CASE FinishPost
    BY <1>4, <1>6 DEF FinishPost, TypeOK, Events, WorkerEvents
  <1>7. CASE Joined
    BY <1>3, <1>7 DEF Joined
  <1>8. CASE User
    <2>1. ASSUME NEW k \in Keys, Press(k), UNCHANGED reads PROVE Goal
      BY <1>3, <1>4, <2>1 DEF Press, Events
    <2> QED
      BY <1>3, <1>8, <2>1 DEF User, PressRead, PressExit, PressBack, Quit, worker, Keys
  <1>9. CASE StartRead
    BY <1>5, <1>9 DEF StartRead, Take
  <1>10. CASE RefuseRead
    <2> DEFINE q == Tail(queue)
    <2>1. /\ q \in Seq(Queued) /\ Len(q) = Len(queue) - 1
          /\ \A i \in 1..Len(q) : q[i] = queue[i + 1] /\ i + 1 \in 1..Len(queue)
      BY <1>10, Taken DEF RefuseRead
    <2> HIDE DEF q
    <2>2. reads + 1 \in 0..MaxReads /\ reads' = reads + 1 /\ "Refused" \in Events
      BY <1>1, <1>10 DEF RefuseRead, Events
    <2>3. queue' = Append(q, [type |-> "Refused", read |-> reads + 1])
      BY <1>10 DEF RefuseRead, q
    <2>4. /\ queue' \in Seq(Queued) /\ Len(queue') = Len(q) + 1
          /\ \A i \in 1..Len(q) : queue'[i] = q[i]
          /\ queue'[Len(q) + 1].read = reads + 1
      BY <2>1, <2>2, <2>3, Appended
    <2>5. ASSUME \A i \in 1..Len(queue) : queue[i].read <= reads, NEW i \in 1..Len(queue')
          PROVE  queue'[i].read <= reads'
      <3>1. CASE i = Len(q) + 1
        BY <1>1, <2>2, <2>4, <3>1
      <3>2. CASE i # Len(q) + 1
        <4>1. i \in 1..Len(q)
          BY <1>1, <2>1, <2>4, <3>2
        <4>2. queue'[i].read = queue[i + 1].read /\ i + 1 \in 1..Len(queue)
          BY <2>1, <2>4, <4>1
        <4>3. queue[i + 1].read \in Nat /\ queue[i + 1].read <= reads
          BY <1>1, <1>2, <2>5, <4>2 DEF Queued
        <4> QED
          BY <1>1, <2>2, <4>2, <4>3
      <3> QED
        BY <3>1, <3>2
    <2> QED
      BY <1>1, <2>1, <2>2, <2>4, <2>5
  <1>11. ASSUME Dispatch, ~StartRead, ~RefuseRead PROVE Goal
    BY <1>5, <1>11
       DEF Dispatch, TakeRefused, TakeAuthenticated, TakeExit, TakeSuccess, TakeFailure, Ignore,
           Take, worker
  <1> QED
    BY <1>6, <1>7, <1>8, <1>9, <1>10, <1>11

LEMMA TypeStep ==
    ASSUME TypeOK, ThreadInv, Next
    PROVE  TypeOK'
  <1>1. CASE CtlWork \/ Detect \/ NfcWork
    <2>1. TypesOfReader /\ UNCHANGED <<guiVars, queue, alive, reads, stop, exporting, cutShort>>
      BY <1>1, ReaderTypes
    <2> QED
      BY <2>1 DEF TypeOK, TypesOfReader, guiVars
  <1>2. CASE FinishPost \/ Dispatch \/ Joined \/ User
    <2>1. queue' \in Seq([type : Events, read : 0..MaxReads]) /\ Len(queue') <= QueueLen
          /\ reads' \in 0..MaxReads
      BY <1>2, QueueTypes DEF Queued
    <2>2. CASE FinishPost
      BY <2>1, <2>2 DEF FinishPost, guiVars, record, reader, TypeOK
    <2>3. CASE Joined
      <3>1. /\ gui' \in {"loop", "closed"} /\ scene' \in {"start", "read", "success", "error"}
            /\ alive' \in BOOLEAN /\ ctl' = "none"
        BY <2>3 DEF Joined, TypeOK
      <3>2. UNCHANGED <<guiOnly, after, shown, stop, progress, record, stage, reader, exporting,
                        cutShort>>
        BY <2>3 DEF Joined
      <3> QED
        BY <2>1, <3>1, <3>2 DEF guiOnly, record, reader, TypeOK
    <2>4. ASSUME NEW s \in {"start", "success", "error", "closed"}, Leave(s)
          PROVE  /\ gui' \in {"loop", "joining", "blocked", "closed"}
                 /\ scene' \in {"start", "read", "success", "error"}
                 /\ after' \in {"start", "success", "error", "closed"}
                 /\ stop' \in BOOLEAN /\ alive' \in BOOLEAN
      BY <2>4 DEF Leave, TypeOK
    <2>5. CASE PressRead \/ PressExit \/ PressBack
      BY <2>1, <2>5
         DEF PressRead, PressExit, PressBack, Press, guiOnly, worker, record, reader, TypeOK
    <2>6. CASE Quit
      BY <2>1, <2>4, <2>6 DEF Quit, guiOnly, record, reader, TypeOK
    <2>7. CASE StartRead
      <3>1. /\ 1 \in 1..Len(Plan) /\ 0 \in 0..MaxFileReports /\ 0 \in 0..ActivationMax
            /\ "Waiting" \in ToSet(Stages) /\ "Idle" \in ToSet(Stages)
        BY Plans, Ranks, ThreadsAssumption DEF ThreadsAssumption
      <3>2. exporting' \in BOOLEAN
        BY <2>7, ThreadsAssumption DEF StartRead, ThreadsAssumption
      <3> QED
        BY ZenonT(60), <2>1, <2>7, <3>1, <3>2 DEF StartRead, TypeOK
    <2>8. CASE RefuseRead
      <3>1. "Waiting" \in ToSet(Stages) /\ "Idle" \in ToSet(Stages)
        BY Ranks
      <3>2. /\ scene' = "read" /\ progress' = "Waiting" /\ error' = "OutOfMemory"
            /\ errorStage' = "Idle" /\ authenticated' \in BOOLEAN /\ complete' \in BOOLEAN
            /\ UNCHANGED <<guiOnly, gui, after, shown, alive, stop, ctl, stage, reader, exporting,
                           cutShort>>
        BY <2>8 DEF RefuseRead
      <3> QED
        BY <2>1, <3>1, <3>2 DEF guiOnly, reader, TypeOK
    <2>9. CASE TakeRefused \/ TakeExit \/ TakeSuccess
      BY <2>1, <2>4, <2>9
         DEF TakeRefused, TakeExit, TakeSuccess, guiOnly, record, reader, TypeOK
    <2>10. CASE TakeFailure
      BY <2>1, <2>4, <2>10 DEF TakeFailure, guiOnly, reader, TypeOK
    <2>11. CASE TakeAuthenticated \/ Ignore
      BY <2>1, <2>11 DEF TakeAuthenticated, Ignore, guiOnly, worker, record, reader, TypeOK
    <2> QED
      BY <1>2, <2>2, <2>3, <2>5, <2>6, <2>7, <2>8, <2>9, <2>10, <2>11 DEF Dispatch, User
  <1> QED
    BY <1>1, <1>2 DEF Next

(***************************************************************************)
(* Where each thread may be.                                               *)
(***************************************************************************)
LEMMA ThreadStep ==
    ASSUME TypeOK, ThreadInv, Next
    PROVE  ThreadInv'
  <1>1. ActivationMax \in Nat \ {0} /\ failures \in Nat /\ step \in 1..6
    BY Plans, ThreadsAssumption DEF ThreadsAssumption, TypeOK
  <1>2. ASSUME CtlWork \/ Detect \/ NfcWork PROVE ThreadInv'
    <2>1. UNCHANGED <<gui, scene, alive, stop>>
      BY <1>2, ReaderTypes DEF guiVars
    <2>2. CASE Greet \/ StopDetecting
      BY <2>1, <2>2 DEF Greet, StopDetecting, ctlOnly, reader, ThreadInv
    <2>3. CASE StopPoller \/ CloseExport \/ Announce
      BY <2>1, <2>3 DEF StopPoller, CloseExport, Announce, ctlOnly, reader, ThreadInv
    <2>4. CASE Detect
      BY <1>1, <2>1, <2>4 DEF Detect, ctlOnly, reader, ThreadInv
    <2>5. CASE CallbackStopped \/ CallbackReads
      BY <2>1, <2>5 DEF CallbackStopped, CallbackReads, nfcOnly, ThreadInv
    <2>6. CASE ActivationFails
      BY <1>1, <2>1, <2>6 DEF ActivationFails, nfcOnly, ThreadInv
    <2>7. CASE BeginStep \/ BeginVerifying
      BY <2>1, <2>7 DEF BeginStep, BeginVerifying, Reporting, nfcOnly, reader, ThreadInv
    <2>8. CASE StepDone \/ MoreOfFiles
      BY <2>1, <2>8 DEF StepDone, MoreOfFiles, Exchanging, nfcOnly, ThreadInv
    <2>9. CASE StepStopped \/ StepFails
      BY <2>1, <2>9 DEF StepStopped, StepFails, Exchanging, nfcOnly, reader, ThreadInv
    <2>10. CASE ExportResult \/ Finish
      BY <2>1, <2>10 DEF ExportResult, Finish, nfcOnly, reader, ThreadInv
    <2> QED
      BY <1>2, <2>2, <2>3, <2>4, <2>5, <2>6, <2>7, <2>8, <2>9, <2>10 DEF CtlWork, NfcWork
  <1>3. CASE FinishPost
    BY <1>3 DEF FinishPost, guiVars, reader, ThreadInv
  <1>4. CASE Joined
    BY <1>4 DEF Joined, guiOnly, reader, ThreadInv, TypeOK
  <1>5. CASE PressRead \/ PressExit \/ PressBack
    BY <1>5 DEF PressRead, PressExit, PressBack, Press, Looping, guiOnly, worker, reader, ThreadInv
  <1>6. ASSUME NEW s, Leave(s), scene = "read" \/ ~alive,
               UNCHANGED <<guiOnly, ctl, stage, reader>>
        PROVE  ThreadInv'
    BY <1>6 DEF Leave, guiOnly, reader, ThreadInv
  <1>7. CASE Quit
    BY <1>6, <1>7 DEF Quit, ThreadInv
  <1>8. CASE StartRead
    BY <1>1, <1>8 DEF StartRead, Take, Looping, ThreadInv
  <1>9. CASE RefuseRead
    BY <1>9 DEF RefuseRead, guiOnly, reader, ThreadInv
  <1>10. CASE TakeRefused \/ TakeExit \/ TakeSuccess \/ TakeFailure
    BY <1>6, <1>10 DEF TakeRefused, TakeExit, TakeSuccess, TakeFailure
  <1>11. CASE TakeAuthenticated \/ Ignore
    BY <1>11 DEF TakeAuthenticated, Ignore, guiOnly, worker, reader, ThreadInv
  <1> QED
    BY <1>2, <1>3, <1>4, <1>5, <1>7, <1>8, <1>9, <1>10, <1>11 DEF Next, Dispatch, User

(***************************************************************************)
(* The order of the queue.                                                 *)
(***************************************************************************)
\* One more event behind the others.
LEMMA QueueGrows ==
    ASSUME TypeOK, ThreadInv, QueueInv, NEW t \in Events, Post(t),
           UNCHANGED <<alive, reads, after, scene>>,
           gui' = gui, t \in ReadEvents => alive, t = "Read" => ~alive
    PROVE  QueueInv'
  <1>1. queue \in Seq(Queued) /\ reads \in 0..MaxReads /\ Len(queue) \in Nat
    BY Length DEF TypeOK
  <1>2. /\ Len(queue') = Len(queue) + 1
        /\ \A i \in 1..Len(queue) : queue'[i] = queue[i]
        /\ queue'[Len(queue) + 1].type = t /\ queue'[Len(queue) + 1].read = reads
    BY <1>1, Appended DEF Post
  <1>3. /\ \A i \in 1..Len(queue') : i \in 1..Len(queue) \/ i = Len(queue) + 1
        /\ \A i, j \in 1..Len(queue') : i < j => i \in 1..Len(queue)
    BY <1>1, <1>2
  <1>4. gui = "joining" => alive
    BY DEF ThreadInv
  <1> QED
    BY <1>2, <1>3, <1>4 DEF QueueInv

\* The first event is taken and the read goes on, or its absence does.
LEMMA QueueShrinks ==
    ASSUME TypeOK, QueueInv, queue # <<>>, queue' = Tail(queue),
           UNCHANGED <<alive, reads, after, scene, gui>>
    PROVE  QueueInv'
  <1>1. /\ Len(queue) \in Nat /\ Len(queue') = Len(queue) - 1
        /\ \A i \in 1..Len(queue') : queue'[i] = queue[i + 1] /\ i + 1 \in 1..Len(queue)
    BY Length, Taken
  <1>2. \A i, j \in 1..Len(queue') : i < j => i + 1 < j + 1
    BY <1>1
  <1> QED
    BY <1>1, <1>2 DEF QueueInv

LEMMA QueueStep ==
    ASSUME TypeOK, ThreadInv, QueueInv, Next, ~cutShort'
    PROVE  QueueInv'
  <1>1. ASSUME UNCHANGED <<alive, reads, after, scene, gui, queue>> PROVE QueueInv'
    BY <1>1 DEF QueueInv
  <1>2. CASE CtlWork \/ Detect \/ NfcWork
    BY <1>1, <1>2, ReaderTypes DEF guiVars
  <1>3. CASE FinishPost
    <2>1. posting \in Events /\ posting # "Read" /\ alive
      BY <1>3 DEF FinishPost, TypeOK, ThreadInv, Events, WorkerEvents
    <2> QED
      BY <1>3, <2>1, QueueGrows DEF FinishPost, guiVars
  <1>4. CASE Joined
    <2>1. alive /\ gui = "joining" /\ ~alive' /\ UNCHANGED <<queue, reads, after>>
          /\ (gui' # "closed" => after # "closed" /\ gui' = "loop" /\ scene' = after)
      BY <1>4 DEF Joined, ThreadInv, guiOnly
    <2>2. after # "read"
      BY DEF TypeOK
    <2> QED
      BY <2>1, <2>2 DEF QueueInv
  <1>5. ASSUME NEW k \in Keys, Press(k), UNCHANGED <<alive, reads, after, scene>>, Looping,
               IF k = "Read" THEN ~alive ELSE alive
        PROVE  QueueInv'
    <2>1. CASE Post(k) /\ UNCHANGED gui
      BY <1>5, <2>1, QueueGrows DEF Keys, Events, ReadEvents, WorkerEvents
    <2>2. CASE gui' = "blocked" /\ UNCHANGED queue
      BY <1>5, <2>2 DEF QueueInv, Looping
    <2> QED
      BY <1>5, <2>1, <2>2 DEF Press
  <1>6. CASE PressRead
    <2>1. ~alive
      BY <1>6 DEF PressRead, ThreadInv
    <2> QED
      BY <1>5, <1>6, <2>1 DEF PressRead, worker, Keys
  <1>7. CASE PressExit
    BY <1>5, <1>7 DEF PressExit, worker, Keys
  <1>8. CASE PressBack
    BY <1>8 DEF PressBack, worker, QueueInv
  <1>9. CASE Quit
    <2>1. Leave("closed") /\ UNCHANGED <<queue, reads>>
      BY <1>9 DEF Quit
    <2> QED
      BY <2>1 DEF Leave, QueueInv
  <1>10. CASE StartRead
    <2>1. /\ ~alive /\ gui = "loop" /\ queue # <<>> /\ Head(queue).type = "Read"
          /\ queue' = Tail(queue) /\ alive' /\ gui' = "loop"
      BY <1>10 DEF StartRead, Take, Looping, ThreadInv
    <2>2. /\ Len(queue) \in Nat /\ Len(queue') = Len(queue) - 1 /\ 1 \in 1..Len(queue)
          /\ Head(queue) = queue[1]
          /\ \A i \in 1..Len(queue') : queue'[i] = queue[i + 1] /\ i + 1 \in 1..Len(queue)
      BY <2>1, Length, Taken
    <2>3. \A i \in 1..Len(queue') : 1 < i + 1
      BY <2>2
    <2>4. \A i \in 1..Len(queue') : queue'[i].type \notin ReadEvents
      BY <2>1, <2>2, <2>3 DEF QueueInv
    <2> QED
      BY <2>1, <2>4 DEF QueueInv
  <1>11. CASE RefuseRead
    <2>1. /\ ~alive /\ gui = "loop" /\ queue # <<>> /\ Head(queue).type = "Read"
          /\ queue' = Append(Tail(queue), [type |-> "Refused", read |-> reads + 1])
          /\ ~alive' /\ gui' = "loop" /\ reads + 1 \in 0..MaxReads
      BY <1>11, ThreadsAssumption
         DEF RefuseRead, Looping, ThreadInv, guiOnly, TypeOK, ThreadsAssumption
    <2> DEFINE q == Tail(queue)
    <2>2. /\ q \in Seq(Queued) /\ Len(queue) \in Nat /\ Len(q) = Len(queue) - 1
          /\ 1 \in 1..Len(queue) /\ Head(queue) = queue[1]
          /\ \A i \in 1..Len(q) : q[i] = queue[i + 1] /\ i + 1 \in 1..Len(queue)
      BY <2>1, Length, Taken
    <2>3. \A i \in 1..Len(q) : 1 < i + 1
      BY <2>2
    <2>4. \A i \in 1..Len(q) : q[i].type \notin ReadEvents
      BY <2>1, <2>2, <2>3 DEF QueueInv
    <2>5. "Refused" \in Events /\ "Refused" \notin ReadEvents
      BY DEF Events, ReadEvents, WorkerEvents
    <2> HIDE DEF q
    <2>6. /\ Len(queue') = Len(q) + 1 /\ Len(q) \in Nat
          /\ \A i \in 1..Len(q) : queue'[i] = q[i]
          /\ queue'[Len(q) + 1].type = "Refused"
      <3>1. queue' = Append(q, [type |-> "Refused", read |-> reads + 1])
        BY <2>1 DEF q
      <3> QED
        BY <2>1, <2>2, <2>5, <3>1, Appended
    <2>7. \A i \in 1..Len(queue') : i \in 1..Len(q) \/ i = Len(q) + 1
      BY <2>6
    <2>8. \A i \in 1..Len(queue') : queue'[i].type \notin ReadEvents
      BY <2>4, <2>5, <2>6, <2>7
    <2> QED
      BY <2>1, <2>8 DEF QueueInv
  <1>12. CASE TakeRefused
    <2>1. ~alive /\ queue # <<>> /\ queue' = Tail(queue) /\ gui = "loop"
      BY <1>12 DEF TakeRefused, Take, Looping
    <2>2. gui' = "loop" /\ scene' = "error" /\ ~alive' /\ UNCHANGED after
      BY <1>12, <2>1 DEF TakeRefused, Leave
    <2>3. /\ Len(queue) \in Nat /\ Len(queue') = Len(queue) - 1
          /\ \A i \in 1..Len(queue') : queue'[i] = queue[i + 1] /\ i + 1 \in 1..Len(queue)
      BY <2>1, Length, Taken
    <2>4. \A i, j \in 1..Len(queue') : i < j => i + 1 < j + 1
      BY <2>3
    <2> QED
      BY <2>1, <2>2, <2>3, <2>4 DEF QueueInv
  <1>13. ASSUME NEW s, Take(ReadEvents), scene = "read", Leave(s), UNCHANGED reads
         PROVE  QueueInv'
    <2>1. /\ gui = "loop" /\ queue # <<>> /\ queue' = Tail(queue)
          /\ Head(queue).type \in ReadEvents
      BY <1>13 DEF Take, Looping
    <2>2. /\ Len(queue) \in Nat /\ Len(queue') = Len(queue) - 1 /\ 1 \in 1..Len(queue)
          /\ Head(queue) = queue[1]
          /\ \A i \in 1..Len(queue') : queue'[i] = queue[i + 1] /\ i + 1 \in 1..Len(queue)
      BY <2>1, Length, Taken
    <2>3. alive
      BY <1>13, <2>1, <2>2 DEF QueueInv
    <2>4. gui' = "joining" /\ alive'
      BY <1>13, <2>3 DEF Leave
    <2>5. \A i, j \in 1..Len(queue') : 1 < i + 1 /\ (i < j => i + 1 < j + 1)
      BY <2>2
    <2>6. \A i \in 1..Len(queue') : queue'[i].type # "Read"
      BY <2>1, <2>2, <2>3, <2>5 DEF QueueInv
    <2> QED
      BY <1>13, <2>2, <2>3, <2>4, <2>5, <2>6 DEF QueueInv
  <1>14. CASE TakeExit \/ TakeSuccess \/ TakeFailure
    <2>1. Take(ReadEvents) /\ scene = "read" /\ UNCHANGED reads
      BY <1>14 DEF TakeExit, TakeSuccess, TakeFailure, Take, ReadEvents, WorkerEvents
    <2> QED
      BY <1>13, <1>14, <2>1 DEF TakeExit, TakeSuccess, TakeFailure
  <1>15. CASE TakeAuthenticated \/ Ignore
    BY <1>15, QueueShrinks DEF TakeAuthenticated, Ignore, Take, worker
  <1> QED
    BY <1>2, <1>3, <1>4, <1>6, <1>7, <1>8, <1>9, <1>10, <1>11, <1>12, <1>14, <1>15
       DEF Next, Dispatch, User

(***************************************************************************)
(* The record, step by step.                                               *)
(***************************************************************************)
LEMMA UnderwayStages ==
    /\ \A s : Underway(s) => s # "Idle"
    /\ Underway("Waiting")
    /\ \A i \in 1..6 : Plan[i] # "Verifying" => Underway(Plan[i]) /\ Rank(Plan[i]) < Rank("Done")
  <1>1. Rank("Idle") < Rank("Waiting")
    BY Ranks
  <1>2. \A s : Underway(s) => s # "Idle"
    BY <1>1, Ranks DEF Underway
  <1>3. Underway("Waiting")
    BY Ranks DEF Underway
  <1>4. ASSUME NEW i \in 1..6, Plan[i] # "Verifying"
        PROVE  Underway(Plan[i]) /\ Rank(Plan[i]) < Rank("Done")
    <2>1. Plan[i] \in {"Selecting", "CardAccess", "Authenticating", "Files"}
      BY <1>4, Plans
    <2> QED
      BY <2>1, Ranks DEF Underway
  <1> QED
    BY <1>2, <1>3, <1>4

\* The record of an error that has no description is not the one of this read.
LEMMA FailureIsDescribed ==
    ASSUME TypeOK, ThreadInv, QueueInv, StageInv, EndInv, TakeFailure
    PROVE  error # "None" /\ error' = error
  <1>1. /\ queue # <<>> /\ queue[1].type = "Failure" /\ 1 \in 1..Len(queue) /\ gui = "loop"
        /\ scene = "read"
    BY Taken DEF TakeFailure, Take, Looping
  <1>2. alive /\ queue[1].read = reads
    BY <1>1 DEF QueueInv, ReadEvents, WorkerEvents
  <1>3. ctl = "ended" /\ ~(error = "None" /\ complete)
    BY <1>1, <1>2 DEF EndInv, Ending, ThreadInv
  <1>4. error # "None"
    BY <1>3 DEF StageInv, Failed
  <1> QED
    BY <1>4 DEF TakeFailure

LEMMA StageStep ==
    ASSUME TypeOK, ThreadInv, QueueInv, StageInv, EndInv, Next, ~cutShort'
    PROVE  StageInv'
  <1>1. ASSUME UNCHANGED <<ctl, nfc, error, errorStage, complete, authenticated, stage, step>>,
               stop => stop'
        PROVE  StageInv'
    BY <1>1 DEF StageInv, Untouched, Failed, Underway, Rank
  <1>2. step \in 1..6 /\ \A s : Underway(s)' <=> Underway(s)
    BY Plans DEF TypeOK, Underway, Rank
  <1>3. ASSUME CtlWork \/ Detect \/ NfcWork PROVE StageInv'
    <2>1. UNCHANGED stop
      BY <1>3, ReaderTypes
    <2>2. CASE Greet
      <3>1. stage' = "Waiting" /\ ctl = "greet" /\ ctl' = "detect" /\ nfc = "none" /\ nfc' = "none"
            /\ UNCHANGED record
        BY <2>2, Ranks DEF Greet, Report, ThreadInv
      <3> QED
        BY <3>1 DEF StageInv, Untouched, record
    <2>3. CASE Detect
      <3>1. ctl = "detect" /\ ctl' = "poll" /\ nfc' = "callback" /\ UNCHANGED <<record, stage>>
        BY <2>3 DEF Detect
      <3> QED
        BY <3>1 DEF StageInv, Untouched, record
    <2>4. CASE StopDetecting
      <3>1. ctl = "detect" /\ ctl' = "ended" /\ nfc = "none" /\ nfc' = "none" /\ stop
            /\ error' = "Cancelled" /\ UNCHANGED <<errorStage, authenticated, complete>>
        BY <2>4 DEF StopDetecting, ThreadInv
      <3> QED
        BY <2>1, <3>1 DEF StageInv, Untouched, Failed
    <2>5. CASE StopPoller
      <3>1. ctl' = "closing" /\ nfc = "returned" /\ nfc' = "none" /\ UNCHANGED <<record, stage>>
        BY <2>5 DEF StopPoller
      <3> QED
        BY <1>2, <2>1, <3>1 DEF StageInv, Untouched, record, Failed
    <2>6. CASE CloseExport \/ Announce
      <3>1. /\ ctl \in {"closing", "announce"} /\ ctl' \in {"announce", "ended"} /\ nfc = "none"
            /\ nfc' = "none" /\ UNCHANGED record
        BY <2>6 DEF CloseExport, Announce, ThreadInv
      <3> QED
        BY <1>2, <2>1, <3>1 DEF StageInv, Untouched, record, Failed
    <2>7. ASSUME nfc # "none", UNCHANGED ctl
          PROVE  ctl = "poll" /\ ctl' = "poll"
      BY <2>7 DEF ThreadInv
    <2>8. CASE CallbackStopped
      <3>1. /\ nfc = "callback" /\ nfc' = "finish" /\ stop /\ error' = "Cancelled"
            /\ UNCHANGED <<ctl, errorStage, authenticated, complete, stage>>
        BY <2>8 DEF CallbackStopped, nfcOnly
      <3> QED
        BY <1>2, <2>1, <2>7, <3>1, UnderwayStages DEF StageInv, Untouched, Failed
    <2>9. CASE CallbackReads
      <3>1. /\ nfc = "callback" /\ nfc' = "reading" /\ UNCHANGED <<ctl, record, stage, step>>
            /\ step = 1
        BY <2>9 DEF CallbackReads, nfcOnly, ThreadInv
      <3> QED
        BY <1>2, <2>1, <2>7, <3>1, UnderwayStages DEF StageInv, Untouched, record
    <2>10. CASE ActivationFails
      <3>1. /\ nfc = "callback" /\ UNCHANGED <<ctl, errorStage, authenticated, complete>>
            /\ \/ nfc' = "finish" /\ error' \in {"Activation", "CardLost"} /\ UNCHANGED stage
               \/ nfc' = "callback" /\ UNCHANGED error /\ (stage' = "Waiting" \/ UNCHANGED stage)
        BY <2>10, Ranks DEF ActivationFails, nfcOnly, Report
      <3> QED
        BY <1>2, <2>1, <2>7, <3>1, UnderwayStages DEF StageInv, Untouched, Failed
    <2>11. CASE BeginStep
      <3>1. /\ nfc = "reading" /\ stage' = Plan[step]
            /\ UNCHANGED <<ctl, errorStage, authenticated, complete, step>>
            /\ \/ stop /\ nfc' = "export" /\ error' = "Cancelled"
               \/ nfc' = "exchange" /\ UNCHANGED error
        BY <1>2, <2>11, UnderwayStages DEF BeginStep, Reporting, nfcOnly, reader, Report
      <3>2. Underway(Plan[step])
        BY <1>2, <2>11, UnderwayStages DEF BeginStep
      <3> QED
        BY <1>2, <2>1, <2>7, <3>1, <3>2 DEF StageInv, Untouched, Failed
    <2>12. CASE BeginVerifying
      <3>1. /\ nfc = "reading" /\ nfc' = "export" /\ complete' /\ step = 6
            /\ UNCHANGED <<ctl, error, errorStage, authenticated>>
        BY <1>2, <2>12, Plans DEF BeginVerifying, Reporting, nfcOnly
      <3> QED
        BY <2>1, <2>7, <3>1 DEF StageInv, Untouched
    <2>13. CASE StepDone
      <3>1. /\ nfc = "exchange" /\ nfc' = "reading" /\ step' = step + 1
            /\ authenticated' = (authenticated \/ step = 3)
            /\ UNCHANGED <<ctl, error, errorStage, complete, stage>>
        BY <2>13 DEF StepDone, Exchanging, nfcOnly
      <3>2. step + 1 > 3 <=> step > 3 \/ step = 3
        BY <1>2
      <3> QED
        BY <1>2, <2>1, <2>7, <3>1, <3>2 DEF StageInv, Untouched
    <2>14. CASE MoreOfFiles
      <3>1. nfc = "exchange" /\ nfc' = "reading" /\ UNCHANGED <<ctl, record, stage, step>>
        BY <2>14 DEF MoreOfFiles, Exchanging, nfcOnly
      <3> QED
        BY <1>2, <2>1, <2>7, <3>1 DEF StageInv, Untouched, record
    <2>15. CASE StepStopped \/ StepFails
      <3>1. /\ nfc = "exchange" /\ nfc' = "export"
            /\ error' = "CardLost" \/ (error' = "Cancelled" /\ stop)
            /\ UNCHANGED <<ctl, errorStage, authenticated, complete, stage>>
        BY <2>15 DEF StepStopped, StepFails, Exchanging, nfcOnly
      <3> QED
        BY <1>2, <2>1, <2>7, <3>1 DEF StageInv, Untouched, Failed
    <2>16. CASE ExportResult
      <3>1. /\ nfc = "export" /\ nfc' = "finish" /\ MarkStop
            /\ UNCHANGED <<ctl, error, authenticated, complete>>
        BY <2>16 DEF ExportResult, nfcOnly
      <3> QED
        BY <1>2, <2>1, <2>7, <3>1, UnderwayStages DEF StageInv, Untouched, Failed, MarkStop
    <2>17. CASE Finish
      <3>1. /\ nfc = "finish" /\ nfc' = "returned" /\ MarkStop
            /\ UNCHANGED <<ctl, error, authenticated, complete>>
        BY <2>17 DEF Finish, nfcOnly
      <3> QED
        BY <1>2, <2>1, <2>7, <3>1, UnderwayStages DEF StageInv, Untouched, Failed, MarkStop
    <2> QED
      BY <1>3, <2>2, <2>3, <2>4, <2>5, <2>6, <2>8, <2>9, <2>10, <2>11, <2>12, <2>13, <2>14, <2>15,
         <2>16, <2>17 DEF CtlWork, NfcWork
  <1>4. CASE FinishPost
    BY <1>1, <1>4 DEF FinishPost, record, reader
  <1>5. CASE Joined
    <2>1. ctl' = "none" /\ nfc' = "none"
      BY <1>5 DEF Joined, ThreadInv, guiOnly
    <2> QED
      BY <2>1 DEF StageInv
  <1>6. CASE PressRead \/ PressExit \/ PressBack \/ TakeAuthenticated \/ Ignore
    BY <1>1, <1>6
       DEF PressRead, PressExit, PressBack, TakeAuthenticated, Ignore, guiOnly, worker, record, reader
  <1>7. CASE Quit \/ TakeRefused \/ TakeExit \/ TakeSuccess
    BY <1>1, <1>7
       DEF Quit, TakeRefused, TakeExit, TakeSuccess, Leave, guiOnly, record, reader, TypeOK
  <1>8. CASE StartRead
    <2>1. /\ ctl' = "greet" /\ nfc' = "none" /\ error' = "None" /\ errorStage' = "Idle"
          /\ ~authenticated' /\ ~complete'
      BY <1>8 DEF StartRead, Take, Looping, ThreadInv
    <2> QED
      BY <2>1 DEF StageInv, Untouched
  <1>9. CASE RefuseRead
    <2>1. ctl' = "none" /\ nfc' = "none"
      BY <1>9 DEF RefuseRead, ThreadInv, guiOnly
    <2> QED
      BY <2>1 DEF StageInv
  <1>10. CASE TakeFailure
    <2>1. UNCHANGED <<ctl, nfc, error, errorStage, complete, authenticated, stage, step>>
      BY <1>10, FailureIsDescribed DEF TakeFailure, guiOnly, reader
    <2>2. stop => stop'
      BY <1>10 DEF TakeFailure, Leave
    <2> QED
      BY <1>1, <2>1, <2>2
  <1> QED
    BY <1>3, <1>4, <1>5, <1>6, <1>7, <1>8, <1>9, <1>10 DEF Next, Dispatch, User

(***************************************************************************)
(* The event a read ends with.                                             *)
(***************************************************************************)
LEMMA EventKinds ==
    ASSUME NEW s
    PROVE  /\ EventOf(s) = "Success" <=> s = "Done"
           /\ EventOf(s) = "Failure" <=> s = "Error"
           /\ EventOf(s) = "Authenticated" <=>
                 /\ s \notin {"Done", "Error"}
                 /\ Rank(progress) <= Rank("Authenticating") /\ Rank(s) > Rank("Authenticating")
           /\ EventOf(s) # "none"
  BY DEF EventOf

LEMMA EndShrinks ==
    ASSUME TypeOK, EndInv, queue # <<>>, queue' = Tail(queue),
           UNCHANGED <<reads, ctl, posting, error, complete, progress>>
    PROVE  EndInv'
  <1>1. /\ Len(queue) \in Nat /\ Len(queue') = Len(queue) - 1
        /\ \A i \in 1..Len(queue') : queue'[i] = queue[i + 1] /\ i + 1 \in 1..Len(queue)
    BY Length, Taken
  <1>2. \A i, j \in 1..Len(queue') : i < j => i + 1 < j + 1
    BY <1>1
  <1> QED
    BY <1>1, <1>2 DEF EndInv

LEMMA EndStep ==
    ASSUME TypeOK, ThreadInv, QueueInv, StageInv, EndInv, Next, ~cutShort',
           \A i \in 1..Len(queue) : queue[i].read <= reads
    PROVE  EndInv'
  <1>1. ASSUME UNCHANGED <<queue, reads, ctl, posting, error, complete, progress>> PROVE EndInv'
    BY <1>1 DEF EndInv
  <1>2. CASE CtlWork \/ Detect \/ NfcWork
    <2>1. UNCHANGED <<queue, reads>> /\ ctl \notin {"none", "ended"}
      BY <1>2, ReaderTypes
         DEF CtlWork, Greet, StopDetecting, StopPoller, CloseExport, Announce, Detect, NfcWork,
             CallbackStopped, CallbackReads, ActivationFails, BeginStep, BeginVerifying,
             Reporting, StepDone, MoreOfFiles, Exchanging, StepStopped, StepFails, ExportResult,
             Finish, ThreadInv
    <2>2. posting \notin Ending
      BY <2>1 DEF EndInv
    <2>3. \A i \in 1..Len(queue) : ~(queue[i].type \in Ending /\ queue[i].read = reads)
      BY <2>1 DEF EndInv
    <2>4. SUFFICES /\ posting' \in Ending =>
                         ctl' = "ended" /\ (posting' = "Success" <=> error' = "None" /\ complete')
                   /\ posting' = "Success" => progress' = "Done"
      BY <2>1, <2>3 DEF EndInv
    <2>5. CASE Announce
      <3>1. /\ Report(IF error = "None" THEN "Done" ELSE "Error") /\ ctl = "announce"
            /\ ctl' = "ended" /\ UNCHANGED <<error, complete>>
        BY <2>5 DEF Announce, record
      <3>2. error = "None" => complete
        BY <3>1 DEF StageInv, Failed
      <3> QED
        BY <3>1, <3>2, EventKinds DEF Report, Ending
    <2>6. CASE StopDetecting
      BY <2>6 DEF StopDetecting, Report, Ending
    <2>7. ASSUME NEW s, Report(s), s \notin {"Done", "Error"}
          PROVE  posting' \notin Ending
      BY <2>7, EventKinds DEF Report, Ending
    <2>8. ASSUME ~Announce, ~StopDetecting PROVE posting' \notin Ending
      <3>1. CASE Greet
        BY <2>7, <3>1 DEF Greet
      <3>2. CASE ActivationFails
        BY <2>2, <2>7, <3>2 DEF ActivationFails
      <3>3. CASE BeginStep
        <4>1. Plan[step] \notin {"Done", "Error"}
          BY Plans DEF TypeOK
        <4> QED
          BY <2>7, <3>3, <4>1 DEF BeginStep
      <3>4. CASE BeginVerifying
        BY <2>7, <3>4 DEF BeginVerifying
      <3>5. CASE ExportResult
        BY <2>2, <2>7, <3>5 DEF ExportResult
      <3>6. CASE StopPoller \/ CloseExport \/ Detect \/ CallbackStopped \/ CallbackReads \/ Finish
        BY <2>2, <3>6 DEF StopPoller, CloseExport, Detect, CallbackStopped, CallbackReads, Finish
      <3>7. CASE StepDone \/ MoreOfFiles \/ StepStopped \/ StepFails
        BY <2>2, <3>7 DEF StepDone, MoreOfFiles, StepStopped, StepFails
      <3> QED
        BY <1>2, <2>8, <3>1, <3>2, <3>3, <3>4, <3>5, <3>6, <3>7 DEF CtlWork, NfcWork
    <2> QED
      BY <2>5, <2>6, <2>8 DEF Ending
  <1>3. queue \in Seq(Queued) /\ reads \in 0..MaxReads /\ MaxReads \in Nat /\ Len(queue) \in Nat
    BY Length, ThreadsAssumption DEF TypeOK, ThreadsAssumption
  <1>4. ASSUME NEW t \in Events, Post(t), UNCHANGED <<reads, ctl, error, complete, progress>>,
               \/ t = posting /\ posting' = "none"
               \/ t \in Keys /\ UNCHANGED posting
        PROVE  EndInv'
    <2>1. /\ Len(queue') = Len(queue) + 1
          /\ \A i \in 1..Len(queue) : queue'[i] = queue[i]
          /\ queue'[Len(queue) + 1].type = t /\ queue'[Len(queue) + 1].read = reads
      BY <1>3, <1>4, Appended DEF Post
    <2>2. /\ \A i \in 1..Len(queue') : i \in 1..Len(queue) \/ i = Len(queue) + 1
          /\ \A i, j \in 1..Len(queue') : i < j => i \in 1..Len(queue)
      BY <1>3, <2>1
    <2>3. CASE t \in Keys /\ UNCHANGED posting
      <3>1. t \notin Ending /\ t \notin WorkerEvents
        BY <2>3 DEF Keys, Ending, WorkerEvents
      <3> QED
        BY <1>4, <2>1, <2>2, <2>3, <3>1 DEF EndInv
    <2>4. CASE t = posting /\ posting' = "none"
      <3>1. posting # "none" /\ "none" \notin Ending
        BY <2>4 DEF Events, Keys, WorkerEvents, Ending
      <3>2. \A i \in 1..Len(queue) : ~(queue[i].type \in Ending /\ queue[i].read = reads)
        BY <3>1 DEF EndInv
      <3> QED
        BY <1>4, <2>1, <2>2, <2>4, <3>1, <3>2 DEF EndInv
    <2> QED
      BY <1>4, <2>3, <2>4
  <1>5. CASE FinishPost
    <2>1. posting \in Events
      BY <1>5 DEF FinishPost, TypeOK, Events
    <2> QED
      BY <1>4, <1>5, <2>1 DEF FinishPost, record
  <1>6. CASE Joined
    <2>1. /\ UNCHANGED <<queue, reads, posting, error, complete, progress>>
          /\ ctl' = "none" /\ posting = "none"
      BY <1>6 DEF Joined, guiOnly, record
    <2> QED
      BY <2>1 DEF EndInv, Ending
  <1>7. CASE PressRead \/ PressExit \/ PressBack
    <2>1. UNCHANGED <<reads, ctl, posting, error, complete, progress>>
      BY <1>7 DEF PressRead, PressExit, PressBack, guiOnly, worker, record
    <2>2. UNCHANGED queue \/ \E k \in Keys : Post(k)
      BY <1>7 DEF PressRead, PressExit, PressBack, Press, Keys
    <2> QED
      BY <1>1, <1>4, <2>1, <2>2 DEF Events
  <1>8. CASE Quit
    BY <1>1, <1>8 DEF Quit, guiOnly, record
  <1>9. CASE TakeFailure
    BY <1>9, FailureIsDescribed, EndShrinks DEF TakeFailure, Take, guiOnly
  <1>10. CASE TakeRefused \/ TakeExit \/ TakeSuccess
    BY <1>10, EndShrinks DEF TakeRefused, TakeExit, TakeSuccess, Take, guiOnly, record
  <1>11. CASE TakeAuthenticated \/ Ignore
    BY <1>11, EndShrinks DEF TakeAuthenticated, Ignore, Take, guiOnly, worker, record
  <1>12. ASSUME posting = "none", reads' = reads + 1, UNCHANGED posting,
                \A i \in 1..Len(queue') :
                   queue'[i].type \in Ending => queue'[i].read <= reads /\ queue'[i].read \in Nat
         PROVE  EndInv'
    <2>1. \A i \in 1..Len(queue') : ~(queue'[i].type \in Ending /\ queue'[i].read = reads')
      BY <1>3, <1>12
    <2> QED
      BY <1>12, <2>1 DEF EndInv, Ending
  <1>13. \A i \in 1..Len(queue) : queue[i].read \in Nat
    <2>1. \A i \in 1..Len(queue) : queue[i] \in Queued
      BY <1>3, ElementOfSeq
    <2> QED
      BY <1>3, <2>1 DEF Queued
  <1>14. CASE StartRead
    <2>1. posting = "none" /\ reads' = reads + 1 /\ UNCHANGED posting /\ queue # <<>>
          /\ queue' = Tail(queue)
      BY <1>14 DEF StartRead, Take, ThreadInv
    <2>2. \A i \in 1..Len(queue') : queue'[i] = queue[i + 1] /\ i + 1 \in 1..Len(queue)
      BY <2>1, Taken
    <2> QED
      BY <1>12, <1>13, <2>1, <2>2
  <1>15. CASE RefuseRead
    <2>1. posting = "none" /\ reads' = reads + 1 /\ UNCHANGED posting /\ queue # <<>>
          /\ queue' = Append(Tail(queue), [type |-> "Refused", read |-> reads + 1])
          /\ reads + 1 \in 0..MaxReads
      BY <1>3, <1>15 DEF RefuseRead, ThreadInv, guiOnly
    <2> DEFINE q == Tail(queue)
    <2>2. /\ q \in Seq(Queued) /\ Len(q) \in Nat
          /\ \A i \in 1..Len(q) : q[i] = queue[i + 1] /\ i + 1 \in 1..Len(queue)
      BY <2>1, Taken
    <2>3. "Refused" \in Events /\ "Refused" \notin Ending
      BY DEF Events, Ending
    <2> HIDE DEF q
    <2>4. /\ Len(queue') = Len(q) + 1
          /\ \A i \in 1..Len(q) : queue'[i] = q[i]
          /\ queue'[Len(q) + 1].type = "Refused"
      <3>1. queue' = Append(q, [type |-> "Refused", read |-> reads + 1])
        BY <2>1 DEF q
      <3> QED
        BY <2>1, <2>2, <2>3, <3>1, Appended
    <2>5. \A i \in 1..Len(queue') : i \in 1..Len(q) \/ i = Len(q) + 1
      BY <2>2, <2>4
    <2> QED
      BY <1>12, <1>13, <2>1, <2>2, <2>3, <2>4, <2>5
  <1> QED
    BY <1>2, <1>5, <1>6, <1>7, <1>8, <1>9, <1>10, <1>11, <1>14, <1>15 DEF Next, Dispatch, User

(***************************************************************************)
(* The name of the access method.                                          *)
(***************************************************************************)
Named == \/ shown \/ posting = "Authenticated"
         \/ \E i \in 1..Len(queue) : queue[i].type = "Authenticated"

\* A report of the read keeps the promise, whatever came before it.
LEMMA ReportNames ==
    ASSUME TypeOK, AccessInv, alive, ~stop, posting = "none", progress \notin {"Done", "Error"},
           UNCHANGED <<queue, shown>>, authenticated' => authenticated,
           NEW s \in ToSet(Stages), Report(s), s = "Done" => Rank(progress) > Rank("Authenticating")
    PROVE  /\ progress' = s
           /\ authenticated' /\ Rank(progress') > Rank("Authenticating") /\ progress' # "Error"
                 => Named'
  <1>1. progress' = s /\ posting' = EventOf(s)
    BY DEF Report
  <1>2. Rank(s) \in 1..10 /\ Rank(progress) \in 1..10 /\ Rank("Authenticating") = 5
    BY Ranks DEF TypeOK
  <1>3. ASSUME authenticated', Rank(s) > 5, s # "Error" PROVE Named'
    <2>1. CASE Rank(progress) <= 5
      <3>1. posting' = "Authenticated"
        BY <1>1, <1>2, <1>3, <2>1, EventKinds
      <3> QED
        BY <3>1 DEF Named
    <2>2. CASE Rank(progress) > 5
      BY <1>2, <1>3, <2>2 DEF AccessInv, Named
    <2> QED
      BY <1>2, <2>1, <2>2
  <1>4. Rank(progress') = Rank(s)
    BY <1>1 DEF Rank
  <1> QED
    BY <1>1, <1>2, <1>3, <1>4

LEMMA AccessStep ==
    ASSUME TypeOK, ThreadInv, QueueInv, StageInv, AccessInv, EndInv, Next, ~cutShort'
    PROVE  AccessInv'
  <1> DEFINE quiet == <<alive, stop, ctl, nfc, step, complete, authenticated, progress>>
  <1>1. Rank(progress)' = Rank(progress')
    BY DEF Rank
  <1>2. /\ Rank("Waiting") = 2 /\ Rank("Authenticating") = 5 /\ Rank("Files") = 6
        /\ Rank("Verifying") = 7 /\ Rank("Exporting") = 8 /\ Rank("Done") = 9
        /\ Rank("Error") = 10 /\ step \in 1..6 /\ Rank(progress) \in 1..10
    BY Ranks, Plans DEF TypeOK
  <1>3. /\ Rank("Waiting")' = 2 /\ Rank("Authenticating")' = 5 /\ Rank("Files")' = 6
        /\ Rank("Verifying")' = 7
    BY <1>2 DEF Rank
  <1>4. ASSUME UNCHANGED quiet, alive /\ ~stop /\ authenticated /\ Named => Named' PROVE AccessInv'
    BY <1>4 DEF AccessInv, Named, Rank
  <1>5. ASSUME ~alive' \/ stop' PROVE AccessInv'
    BY <1>5 DEF AccessInv
  <1>6. ASSUME CtlWork \/ Detect \/ NfcWork, alive, ~stop PROVE AccessInv'
    <2>1. alive' /\ ~stop' /\ UNCHANGED <<alive, stop, queue, shown>>
      <3>1. UNCHANGED <<alive, stop, queue, shown>>
        BY <1>6, ReaderTypes DEF guiVars
      <3> QED
        BY <1>6, <3>1
    <2>2. ctl \notin {"none", "ended"} /\ progress \notin {"Done", "Error"}
      BY <1>6
         DEF CtlWork, Greet, StopDetecting, StopPoller, CloseExport, Announce, Detect, NfcWork,
             CallbackStopped, CallbackReads, ActivationFails, BeginStep, BeginVerifying,
             Reporting, StepDone, MoreOfFiles, Exchanging, StepStopped, StepFails, ExportResult,
             Finish, ThreadInv, AccessInv
    <2>3. ASSUME UNCHANGED <<progress, posting, complete, authenticated>>,
                 ctl' \in {"greet", "detect"} \/ nfc' = "callback" =>
                     ctl \in {"greet", "detect"} \/ nfc = "callback",
                 nfc' \in {"reading", "exchange"} =>
                     nfc = "callback" \/ (nfc \in {"reading", "exchange"} /\ (step' <= 4 => step <= 4))
          PROVE  AccessInv'
      <3>1. /\ Rank(progress)' = Rank(progress) /\ progress' \notin {"Done", "Error"}
            /\ Named => Named'
        BY <2>1, <2>2, <2>3 DEF Rank, Named
      <3>2. /\ nfc \in {"reading", "exchange"} => Rank(progress) <= 6
            /\ complete => Rank(progress) >= 7
            /\ authenticated /\ Rank(progress) > 5 => Named
        BY <1>2, <1>6, <2>2 DEF AccessInv, Named
      <3>3. ctl \in {"greet", "detect"} \/ nfc = "callback" => Rank(progress) <= 5
        BY <1>2, <1>6 DEF AccessInv
      <3>4. ASSUME nfc' \in {"reading", "exchange"}
            PROVE  Rank(progress) <= 6 /\ (step' <= 4 => Rank(progress) <= 5)
        <4>1. CASE nfc = "callback"
          BY <1>2, <3>3, <4>1
        <4>2. CASE nfc \in {"reading", "exchange"} /\ (step' <= 4 => step <= 4)
          BY <1>2, <1>6, <3>2, <4>2 DEF AccessInv
        <4> QED
          BY <2>3, <3>4, <4>1, <4>2
      <3> QED
        BY <1>3, <2>3, <3>1, <3>2, <3>3, <3>4 DEF AccessInv, Named
    <2>4. ASSUME NEW s \in ToSet(Stages), Report(s), posting = "none",
                 s = "Done" => Rank(progress) > 5,
                 UNCHANGED authenticated,
                 s \in {"Done", "Error"} => ctl' = "ended",
                 ctl' \in {"greet", "detect"} \/ nfc' = "callback" => Rank(s) <= 5,
                 nfc' \in {"reading", "exchange"} => Rank(s) <= 6 /\ (step' <= 4 => Rank(s) <= 5),
                 complete' => Rank(s) >= 7
          PROVE  AccessInv'
      <3>1. /\ progress' = s
            /\ authenticated' /\ Rank(progress') > 5 /\ progress' # "Error" => Named'
        BY <1>2, <1>6, <2>1, <2>2, <2>4, ReportNames
      <3> QED
        BY <1>1, <1>3, <2>4, <3>1 DEF AccessInv, Named
    <2>5. CASE Greet
      <3>1. posting = "none" /\ ctl' = "detect" /\ nfc' = "none" /\ Report("Waiting")
            /\ UNCHANGED <<authenticated, complete>> /\ ~complete
        BY <2>5 DEF Greet, ThreadInv, StageInv, Untouched, record
      <3> QED
        BY <1>2, <2>4, <3>1, Ranks
    <2>6. CASE Detect
      <3>1. ctl = "detect" /\ ctl' = "poll" /\ nfc' = "callback"
            /\ UNCHANGED <<progress, posting, complete, authenticated>>
        BY <2>6 DEF Detect, record
      <3> QED
        BY <2>3, <3>1
    <2>7. CASE StopDetecting \/ CallbackStopped \/ StepStopped
      BY <1>6, <2>7 DEF StopDetecting, CallbackStopped, StepStopped
    <2>8. CASE StopPoller \/ CloseExport
      <3>1. ctl' \in {"closing", "announce"} /\ nfc' = "none"
            /\ UNCHANGED <<progress, posting, complete, authenticated>>
        BY <2>8 DEF StopPoller, CloseExport, record, ThreadInv
      <3> QED
        BY <2>3, <3>1
    <2>9. CASE Announce
      <3>1. /\ posting = "none" /\ ctl' = "ended" /\ nfc' = "none" /\ ctl = "announce"
            /\ Report(IF error = "None" THEN "Done" ELSE "Error")
            /\ UNCHANGED <<authenticated, complete>>
        BY <2>9 DEF Announce, ThreadInv, record
      <3>2. error = "None" => Rank(progress) >= 7
        BY <1>2, <1>6, <3>1 DEF StageInv, Failed, AccessInv
      <3>3. Rank(progress) >= 7 => Rank(progress) > 5
        BY <1>2
      <3>4. CASE error = "None"
        BY <1>2, <2>4, <3>1, <3>2, <3>3, <3>4, Ranks
      <3>5. CASE error # "None"
        BY <1>2, <2>4, <3>1, <3>5, Ranks
      <3> QED
        BY <3>4, <3>5
    <2>10. CASE CallbackReads \/ MoreOfFiles
      <3>1. nfc \in {"callback", "exchange"} /\ nfc' = "reading" /\ UNCHANGED <<ctl, step>>
            /\ UNCHANGED <<progress, posting, complete, authenticated>>
        BY <2>10 DEF CallbackReads, MoreOfFiles, Exchanging, nfcOnly, record
      <3>2. ctl = "poll"
        BY <3>1 DEF ThreadInv
      <3> QED
        BY <2>3, <3>1, <3>2
    <2>11. CASE ActivationFails
      <3>1. /\ nfc = "callback" /\ ctl = "poll" /\ ctl' = "poll" /\ posting = "none"
            /\ nfc' \in {"callback", "finish"} /\ ~complete
            /\ UNCHANGED <<authenticated, complete>>
        BY <2>11 DEF ActivationFails, nfcOnly, ThreadInv, StageInv, Untouched
      <3>2. Report("Waiting") \/ UNCHANGED <<posting, progress>>
        BY <2>11 DEF ActivationFails
      <3>3. CASE Report("Waiting")
        BY <1>2, <2>4, <3>1, <3>3, Ranks
      <3>4. CASE UNCHANGED <<posting, progress>>
        BY <2>3, <3>1, <3>4
      <3> QED
        BY <3>2, <3>3, <3>4
    <2>12. CASE BeginStep
      <3>1. /\ nfc = "reading" /\ posting = "none" /\ Report(Plan[step]) /\ ctl = "poll"
            /\ ctl' = "poll" /\ nfc' = "exchange" /\ ~complete
            /\ UNCHANGED <<authenticated, complete, step>> /\ Plan[step] # "Verifying"
        BY <1>6, <2>12 DEF BeginStep, Reporting, nfcOnly, reader, ThreadInv, StageInv, Untouched
      <3>2. /\ Rank(Plan[step]) <= 6 /\ (step <= 4 => Rank(Plan[step]) <= 5)
            /\ Plan[step] \in ToSet(Stages) /\ Plan[step] \notin {"Done", "Error"}
        BY <1>2, <3>1, Plans, Ranks
      <3> QED
        BY <2>4, <3>1, <3>2
    <2>13. CASE BeginVerifying
      <3>1. /\ nfc = "reading" /\ posting = "none" /\ Report("Verifying") /\ ctl = "poll"
            /\ ctl' = "poll" /\ nfc' = "export" /\ UNCHANGED authenticated
        BY <2>13 DEF BeginVerifying, Reporting, nfcOnly, ThreadInv
      <3> QED
        BY <1>2, <2>4, <3>1, Ranks
    <2>14. CASE StepDone
      <3>1. /\ nfc = "exchange" /\ ctl = "poll" /\ ctl' = "poll" /\ nfc' = "reading"
            /\ step' = step + 1 /\ UNCHANGED <<progress, posting, complete>>
            /\ authenticated' = (authenticated \/ step = 3)
        BY <2>14 DEF StepDone, Exchanging, nfcOnly, ThreadInv
      <3>2. step' <= 4 => step <= 4
        BY <1>2, <3>1
      <3>3. step = 3 => Rank(progress) <= 5
        BY <1>2, <1>6, <3>1 DEF AccessInv
      <3>4. CASE step = 3
        <4>1. Rank(progress)' = Rank(progress)
          BY <3>1 DEF Rank
        <4>2. /\ Rank(progress)' <= 5 /\ Rank(progress)' \in 1..10
              /\ progress' \notin {"Done", "Error"} /\ ~complete'
          BY <1>2, <1>6, <2>2, <3>1, <3>3, <3>4, <4>1 DEF StageInv, Untouched
        <4> QED
          BY <1>3, <3>1, <4>2 DEF AccessInv
      <3>5. CASE step # 3
        <4>1. UNCHANGED authenticated
          BY <3>1, <3>5 DEF TypeOK
        <4> QED
          BY <2>3, <3>1, <3>2, <4>1
      <3> QED
        BY <3>4, <3>5
    <2>15. CASE StepFails \/ Finish
      <3>1. nfc' \in {"export", "returned"} /\ ctl = "poll" /\ ctl' = "poll"
            /\ UNCHANGED <<progress, posting, complete, authenticated>>
        BY <2>15 DEF StepFails, Finish, Exchanging, nfcOnly, ThreadInv
      <3> QED
        BY <2>3, <3>1
    <2>16. CASE ExportResult
      <3>1. /\ nfc' = "finish" /\ ctl = "poll" /\ ctl' = "poll" /\ posting = "none"
            /\ UNCHANGED <<complete, authenticated>>
            /\ Report("Exporting") \/ UNCHANGED <<posting, progress>>
        BY <2>16 DEF ExportResult, nfcOnly, ThreadInv
      <3> QED
        BY <1>2, <2>3, <2>4, <3>1, Ranks
    <2> QED
      BY <1>6, <2>5, <2>6, <2>7, <2>8, <2>9, <2>10, <2>11, <2>12, <2>13, <2>14, <2>15, <2>16
         DEF CtlWork, NfcWork
  <1>7. CASE CtlWork \/ Detect \/ NfcWork
    <2>1. UNCHANGED <<alive, stop>>
      BY <1>7, ReaderTypes
    <2> QED
      BY <1>5, <1>6, <1>7, <2>1
  <1>8. queue \in Seq(Queued) /\ reads \in 0..MaxReads /\ Len(queue) \in Nat
    BY Length DEF TypeOK
  <1>9. ASSUME NEW t \in Events, Post(t), UNCHANGED <<quiet, shown>>,
               posting = "Authenticated" => posting' = posting \/ t = posting
        PROVE  AccessInv'
    <2>1. /\ Len(queue') = Len(queue) + 1
          /\ \A i \in 1..Len(queue) : queue'[i] = queue[i]
          /\ queue'[Len(queue) + 1].type = t
      BY <1>8, <1>9, Appended DEF Post
    <2>2. /\ Len(queue) + 1 \in 1..Len(queue')
          /\ \A i \in 1..Len(queue) : i \in 1..Len(queue')
      BY <1>8, <2>1
    <2>3. Named => Named'
      BY <1>9, <2>1, <2>2 DEF Named
    <2> QED
      BY <1>4, <1>9, <2>3
  <1>10. CASE FinishPost
    <2>1. posting \in Events
      BY <1>10 DEF FinishPost, TypeOK, Events
    <2> QED
      BY <1>9, <1>10, <2>1 DEF FinishPost, record, reader, guiVars
  <1>11. CASE Joined
    BY <1>5, <1>11 DEF Joined
  <1>12. CASE PressRead \/ PressExit \/ PressBack
    <2>1. UNCHANGED <<quiet, shown, posting>>
      BY <1>12 DEF PressRead, PressExit, PressBack, guiOnly, worker, record, reader
    <2>2. UNCHANGED queue \/ \E k \in Keys : Post(k)
      BY <1>12 DEF PressRead, PressExit, PressBack, Press, Keys
    <2>3. CASE UNCHANGED queue
      BY <1>4, <2>1, <2>3 DEF Named
    <2> QED
      BY <1>9, <2>1, <2>2, <2>3 DEF Events
  <1>13. CASE Quit \/ TakeRefused \/ TakeExit \/ TakeSuccess \/ TakeFailure
    <2>1. PICK s : Leave(s)
      BY <1>13 DEF Quit, TakeRefused, TakeExit, TakeSuccess, TakeFailure
    <2> QED
      BY <1>5, <2>1 DEF Leave
  <1>14. CASE StartRead
    <2>1. ctl' = "greet" /\ nfc' = "none" /\ ~complete' /\ ~authenticated' /\ progress' = "Waiting"
      BY <1>14 DEF StartRead, Take, Looping, ThreadInv
    <2> QED
      BY <1>1, <1>2, <1>3, <2>1 DEF AccessInv
  <1>15. CASE RefuseRead
    BY <1>5, <1>15 DEF RefuseRead, ThreadInv
  <1>16. CASE TakeAuthenticated \/ Ignore
    <2>1. queue # <<>> /\ queue' = Tail(queue) /\ UNCHANGED <<quiet, posting>>
      BY <1>16 DEF TakeAuthenticated, Ignore, Take, guiOnly, worker, record, reader
    <2>2. /\ Len(queue) \in Nat /\ Len(queue') = Len(queue) - 1 /\ Head(queue) = queue[1]
          /\ \A i \in 1..Len(queue') : queue'[i] = queue[i + 1]
      BY <2>1, Length, Taken
    <2>3. ASSUME alive, authenticated, Named, ~shown, posting # "Authenticated" PROVE Named'
      <3>1. PICK i \in 1..Len(queue) : queue[i].type = "Authenticated"
        BY <2>3 DEF Named
      <3>2. CASE i = 1
        <4>1. ~Ignore
          BY <2>2, <2>3, <3>1, <3>2 DEF Ignore, ThreadInv
        <4>2. shown'
          BY <1>16, <2>3, <4>1 DEF TakeAuthenticated
        <4> QED
          BY <4>2 DEF Named
      <3>3. CASE i # 1
        <4>1. i - 1 \in 1..Len(queue') /\ (i - 1) + 1 = i
          BY <2>2, <3>3
        <4>2. queue'[i - 1].type = "Authenticated"
          BY <2>2, <3>1, <4>1
        <4> QED
          BY <4>1, <4>2 DEF Named
      <3> QED
        BY <3>2, <3>3
    <2>4. shown => shown'
      BY <1>16 DEF TakeAuthenticated, Ignore, worker
    <2> QED
      BY <1>4, <2>1, <2>3, <2>4 DEF Named
  <1> QED
    BY <1>7, <1>10, <1>11, <1>12, <1>13, <1>14, <1>15, <1>16 DEF Next, Dispatch, User

(***************************************************************************)
(* The invariant.                                                          *)
(***************************************************************************)
LEMMA CutShortStays ==
    ASSUME TypeOK, ThreadInv, Next, ~cutShort'
    PROVE  ~cutShort
  <1>1. CASE CtlWork \/ Detect \/ NfcWork
    BY <1>1, ReaderTypes
  <1>2. CASE FinishPost \/ Joined \/ User
    BY <1>2 DEF FinishPost, Joined, User, PressRead, PressExit, PressBack, Quit, worker
  <1>3. CASE Dispatch
    BY <1>3 DEF Dispatch, StartRead, RefuseRead, TakeRefused, TakeAuthenticated, TakeExit,
                TakeSuccess, TakeFailure, Ignore, worker
  <1> QED
    BY <1>1, <1>2, <1>3 DEF Next

\* No event is of a read that has not begun.
LEMMA ReadsStep ==
    ASSUME TypeOK, ThreadInv, Next, \A i \in 1..Len(queue) : queue[i].read <= reads
    PROVE  (\A i \in 1..Len(queue) : queue[i].read <= reads)'
  <1>1. CASE CtlWork \/ Detect \/ NfcWork
    BY <1>1, ReaderTypes
  <1>2. CASE FinishPost \/ Dispatch \/ Joined \/ User
    BY <1>2, QueueTypes
  <1> QED
    BY <1>1, <1>2 DEF Next

LEMMA InvStep == IInv /\ [Next]_vars => IInv'
  <1> SUFFICES ASSUME IInv, [Next]_vars PROVE IInv'
    OBVIOUS
  <1>1. CASE UNCHANGED vars
    <2>1. UNCHANGED <<gui, scene, after, shown, queue, alive, reads, stop, finished, posting,
                      progress, exportOpen, error, errorStage, authenticated, complete, ctl,
                      nfc, stage, step, reports, failures, exporting, cutShort>>
      BY <1>1 DEF vars, guiVars, record, reader
    <2>2. TypeOK' /\ ThreadInv' /\ (QueueInv => QueueInv') /\ (EndInv => EndInv')
      BY <2>1 DEF IInv, TypeOK, ThreadInv, QueueInv, EndInv
    <2>3. (StageInv => StageInv') /\ (AccessInv => AccessInv')
      BY <2>1 DEF StageInv, AccessInv, Untouched, Underway, Failed, Rank
    <2> QED
      BY <2>1, <2>2, <2>3 DEF IInv
  <1>2. CASE Next
    <2>1. TypeOK' /\ ThreadInv' /\ (\A i \in 1..Len(queue) : queue[i].read <= reads)'
      BY <1>2, TypeStep, ThreadStep, ReadsStep DEF IInv
    <2>2. ASSUME ~cutShort' PROVE QueueInv' /\ StageInv' /\ AccessInv' /\ EndInv'
      <3>1. QueueInv /\ StageInv /\ AccessInv /\ EndInv
        BY <1>2, <2>2, CutShortStays DEF IInv
      <3> QED
        BY <1>2, <2>2, <3>1, QueueStep, StageStep, AccessStep, EndStep DEF IInv
    <2> QED
      BY <2>1, <2>2 DEF IInv
  <1> QED
    BY <1>1, <1>2

THEOREM Invariance == Spec => []IInv
  <1>1. IInv /\ [Next]_vars => IInv'
    BY InvStep
  <1> QED
    BY InvInit, <1>1, PTL DEF Spec

(***************************************************************************)
(* What follows from it.                                                   *)
(***************************************************************************)
\* The threads' shared state stays in its range: the queue never overflows, and no
\* counter passes its limit.
THEOREM ThreadsTypeCorrect == Spec => []TypeOK
  <1>1. IInv => TypeOK
    BY DEF IInv
  <1> QED
    BY Invariance, <1>1, PTL

\* Whatever the user presses and whenever the application is ended, the worker is
\* freed only when both of its threads have returned, their last event has been
\* posted and the export is closed (emrtd_scene_read.c:237-250).
THEOREM TheWorkerIsFreedLast == Spec => []NothingOutlivesTheWorker
  <1>1. IInv => NothingOutlivesTheWorker
    BY DEF IInv, ThreadInv, NothingOutlivesTheWorker
  <1> QED
    BY Invariance, <1>1, PTL

\* The event that ends a read is posted after the poller is down and the export is
\* closed, and says of the record what the record says (emrtd_worker.c:2100-2103).
THEOREM TheEndIsTheLastThing == Spec => []RecordIsFinished
  <1>1. ASSUME IInv PROVE RecordIsFinished
    <2>1. ctl \in {"ended", "none"} => nfc = "none" /\ ~exportOpen
      BY <1>1 DEF IInv, ThreadInv
    <2> QED
      BY <1>1, <2>1 DEF IInv, EndInv, RecordIsFinished
  <1> QED
    BY Invariance, <1>1, PTL

\* However many keys are queued, a read is told only what its own worker posted, and
\* only the key that leaves it leaves it.
THEOREM EventsReachTheirOwnRead == Spec => []EventsOfThisRead
  <1>1. IInv => EventsOfThisRead
    BY DEF IInv, QueueInv, EventsOfThisRead
  <1> QED
    BY Invariance, <1>1, PTL

\* Success is shown of a complete read whose access method was on the screen, and the
\* error screen is never led to by the user's own stop: it has a cause and a stage.
THEOREM TheScreensTellTheTruth == Spec => []ScreensTellTheTruth
  <1>1. ASSUME IInv, gui = "loop", scene = "read", queue # <<>>, ~cutShort,
               Head(queue).type \in Ending
        PROVE  /\ Head(queue).type = "Success" => error = "None" /\ complete /\ shown
               /\ Head(queue).type = "Failure" =>
                     /\ error \in {"CardLost", "Activation"}
                     /\ Rank("Waiting") <= Rank(errorStage) /\ Rank(errorStage) <= Rank("Files")
    <2>1. TypeOK /\ ThreadInv /\ QueueInv /\ StageInv /\ AccessInv /\ EndInv
      BY <1>1 DEF IInv
    <2>2. Len(queue) \in Nat /\ 1 \in 1..Len(queue) /\ Head(queue) = queue[1]
      BY <1>1, <2>1, Taken, Length
    <2>3. alive /\ ~stop /\ queue[1].read = reads
      BY <1>1, <2>1, <2>2 DEF QueueInv, ThreadInv, ReadEvents, WorkerEvents, Ending
    <2>4. /\ ctl = "ended" /\ posting = "none"
          /\ queue[1].type = "Success" <=> error = "None" /\ complete
          /\ queue[1].type = "Success" => progress = "Done"
          /\ \A j \in 1..Len(queue) : 1 < j => queue[j].type \notin WorkerEvents
      BY <1>1, <2>1, <2>2, <2>3 DEF EndInv, ThreadInv
    <2>5. CASE queue[1].type = "Success"
      <3>1. authenticated /\ error = "None" /\ complete /\ progress = "Done"
        BY <2>1, <2>4, <2>5 DEF StageInv, Failed
      <3>2. shown \/ \E i \in 1..Len(queue) : queue[i].type = "Authenticated"
        BY <2>1, <2>3, <2>4, <3>1, Ranks DEF AccessInv
      <3>3. \A i \in 1..Len(queue) : i = 1 \/ 1 < i
        BY <2>2
      <3>4. shown
        BY <2>4, <2>5, <3>2, <3>3 DEF WorkerEvents
      <3> QED
        BY <2>2, <2>5, <3>1, <3>4
    <2>6. CASE queue[1].type = "Failure"
      BY <2>1, <2>2, <2>3, <2>4, <2>6 DEF StageInv, Failed, Underway
    <2> QED
      BY <1>1, <2>2, <2>5, <2>6 DEF Ending
  <1>2. IInv => ScreensTellTheTruth
    BY <1>1 DEF ScreensTellTheTruth, Ending
  <1> QED
    BY Invariance, <1>2, PTL

(***************************************************************************)
(* The plan of a read.                                                     *)
(***************************************************************************)
OnTheWay == nfc \in {"reading", "exchange"}
Behind == nfc \in {"export", "finish", "returned"} \/ ctl \in {"closing", "announce", "ended"}

LEMMA PlanPhases ==
    /\ OnTheWay /\ step = 1 => PlanPhase = "selecting"
    /\ OnTheWay /\ step = 2 => PlanPhase = "cardAccess"
    /\ OnTheWay /\ step = 3 => PlanPhase = "authenticating"
    /\ OnTheWay /\ step \notin {1, 2, 3} => PlanPhase = "files"
    /\ ~OnTheWay /\ Behind => PlanPhase = "over"
    /\ ~OnTheWay /\ ~Behind => PlanPhase = "idle"
  BY DEF PlanPhase, OnTheWay, Behind

LEMMA PlanPhasesNext ==
    /\ OnTheWay' /\ step' = 1 => PlanPhase' = "selecting"
    /\ OnTheWay' /\ step' = 2 => PlanPhase' = "cardAccess"
    /\ OnTheWay' /\ step' = 3 => PlanPhase' = "authenticating"
    /\ OnTheWay' /\ step' \notin {1, 2, 3} => PlanPhase' = "files"
    /\ ~OnTheWay' /\ Behind' => PlanPhase' = "over"
    /\ ~OnTheWay' /\ ~Behind' => PlanPhase' = "idle"
  BY DEF PlanPhase, OnTheWay, Behind

Same == PlanPhase' = PlanPhase /\ UNCHANGED <<authenticated, error>>

\* A step that no one outside the thread that takes it can tell from none.
LEMMA PlanStutters ==
    ASSUME Same, stop' = stop \/ stop'
    PROVE  [ReadOfThisWorker!Next]_(ReadOfThisWorker!vars)
  <1>1. UNCHANGED <<PlanPhase, authenticated, VerdictOf(error)>>
    BY DEF Same, VerdictOf
  <1>2. CASE stop' = stop
    BY <1>1, <1>2 DEF ReadOfThisWorker!vars
  <1>3. CASE stop' = TRUE
    BY <1>1, <1>3 DEF ReadOfThisWorker!Next, ReadOfThisWorker!Ask
  <1> QED
    BY <1>2, <1>3

LEMMA ControlIsPlanned ==
    ASSUME IInv, ~cutShort, CtlWork \/ Detect
    PROVE  [ReadOfThisWorker!Next]_(ReadOfThisWorker!vars)
  <1>. TypeOK /\ ThreadInv /\ StageInv
    BY DEF IInv
  <1>1. UNCHANGED <<stop, authenticated>>
    BY DEF CtlWork, Detect, Greet, StopDetecting, StopPoller, CloseExport, Announce, ctlOnly, record
  <1>2. CASE Greet \/ Detect \/ StopPoller \/ CloseExport \/ Announce
    <2>1. UNCHANGED error
      BY <1>2 DEF Greet, Detect, StopPoller, CloseExport, Announce, record
    <2>2. ~OnTheWay /\ ~OnTheWay' /\ (Behind <=> Behind')
      BY <1>2 DEF Greet, Detect, StopPoller, CloseExport, Announce, ThreadInv, OnTheWay, Behind
    <2>3. PlanPhase' = PlanPhase
      BY <2>2, PlanPhases, PlanPhasesNext
    <2> QED
      BY <1>1, <2>1, <2>3, PlanStutters DEF Same
  <1>3. CASE StopDetecting
    <2>1. stop /\ error' = "Cancelled" /\ ~OnTheWay /\ ~Behind /\ ~OnTheWay' /\ Behind'
      BY <1>3 DEF StopDetecting, ThreadInv, OnTheWay, Behind
    <2>2. PlanPhase = "idle" /\ PlanPhase' = "over" /\ VerdictOf(error)' = "stopped"
      BY <2>1, PlanPhases, PlanPhasesNext DEF VerdictOf
    <2> QED
      BY <1>1, <2>1, <2>2 DEF ReadOfThisWorker!Next, ReadOfThisWorker!Stop
  <1> QED
    BY <1>2, <1>3 DEF CtlWork

LEMMA ReaderIsPlanned ==
    ASSUME IInv, ~cutShort, NfcWork
    PROVE  [ReadOfThisWorker!Next]_(ReadOfThisWorker!vars)
  <1>. TypeOK /\ ThreadInv /\ StageInv /\ step \in 1 .. 6 /\ authenticated \in BOOLEAN
    BY Plans DEF IInv, TypeOK
  <1>1. UNCHANGED <<stop, ctl>> /\ nfc # "none" /\ ctl = "poll"
    BY DEF NfcWork, CallbackStopped, CallbackReads, ActivationFails, BeginStep, BeginVerifying,
           StepDone, MoreOfFiles, StepStopped, StepFails, ExportResult, Finish, nfcOnly,
           Reporting, Exchanging, ThreadInv
  <1>2. Behind <=> nfc \in {"export", "finish", "returned"}
    BY <1>1 DEF Behind
  <1>3. Behind' <=> nfc' \in {"export", "finish", "returned"}
    BY <1>1 DEF Behind
  <1>4. CASE CallbackStopped
    <2>1. /\ stop /\ error' = "Cancelled" /\ UNCHANGED authenticated
          /\ ~OnTheWay /\ ~Behind /\ ~OnTheWay' /\ Behind'
      BY <1>2, <1>3, <1>4 DEF CallbackStopped, OnTheWay
    <2>2. PlanPhase = "idle" /\ PlanPhase' = "over" /\ VerdictOf(error)' = "stopped"
      BY <2>1, PlanPhases, PlanPhasesNext DEF VerdictOf
    <2> QED
      BY <1>1, <2>1, <2>2 DEF ReadOfThisWorker!Next, ReadOfThisWorker!Stop
  <1>5. CASE CallbackReads
    <2>1. /\ ~stop /\ error = "None" /\ ~authenticated /\ UNCHANGED <<error, authenticated>>
          /\ ~OnTheWay /\ ~Behind /\ OnTheWay' /\ step' = 1
      BY <1>2, <1>5 DEF CallbackReads, OnTheWay, record, ThreadInv, StageInv, Untouched
    <2>2. PlanPhase = "idle" /\ PlanPhase' = "selecting" /\ VerdictOf(error) = "none"
      BY <2>1, PlanPhases, PlanPhasesNext DEF VerdictOf
    <2>3. VerdictOf(error)' = VerdictOf(error)
      BY <2>1 DEF VerdictOf
    <2> QED
      BY <1>1, <2>1, <2>2, <2>3 DEF ReadOfThisWorker!Next, ReadOfThisWorker!Begin
  <1>6. CASE ActivationFails
    <2>1. UNCHANGED authenticated /\ ~OnTheWay /\ ~Behind /\ ~OnTheWay'
          /\ PlanPhase = "idle"
      <3>1. ~OnTheWay /\ ~Behind /\ ~OnTheWay' /\ UNCHANGED authenticated
        BY <1>2, <1>6 DEF ActivationFails, OnTheWay
      <3> QED
        BY <3>1, PlanPhases
    <2>2. CASE nfc' = "finish" /\ error' \in {"Activation", "CardLost"}
      <3>1. PlanPhase' = "over" /\ VerdictOf(error)' = "failed"
        BY <1>3, <2>1, <2>2, PlanPhasesNext DEF VerdictOf
      <3> QED
        BY <1>1, <2>1, <3>1 DEF ReadOfThisWorker!Next, ReadOfThisWorker!Fail
    <2>3. CASE UNCHANGED <<nfc, error>>
      <3>1. PlanPhase' = "idle"
        BY <1>2, <1>3, <2>1, <2>3, PlanPhasesNext
      <3> QED
        BY <1>1, <2>1, <2>3, <3>1, PlanStutters DEF Same
    <2> QED
      BY <1>6, <2>2, <2>3 DEF ActivationFails
  <1>7. CASE BeginStep \/ StepStopped
    <2>1. /\ OnTheWay /\ UNCHANGED <<authenticated, step>>
          /\ \/ stop /\ nfc' = "export" /\ error' = "Cancelled"
             \/ nfc' = "exchange" /\ UNCHANGED error
      BY <1>7 DEF BeginStep, StepStopped, Reporting, Exchanging, OnTheWay, reader
    <2>2. CASE stop /\ nfc' = "export" /\ error' = "Cancelled"
      <3>1. PlanPhase # "over"
        BY <2>1, PlanPhases
      <3>2. PlanPhase' = "over" /\ VerdictOf(error)' = "stopped"
        BY <1>3, <2>2, PlanPhasesNext DEF OnTheWay, VerdictOf
      <3> QED
        BY <1>1, <2>1, <2>2, <3>1, <3>2 DEF ReadOfThisWorker!Next, ReadOfThisWorker!Stop
    <2>3. CASE nfc' = "exchange" /\ UNCHANGED error
      <3>1. OnTheWay'
        BY <2>3 DEF OnTheWay
      <3>2. PlanPhase' = PlanPhase
        BY <2>1, <3>1, PlanPhases, PlanPhasesNext
      <3> QED
        BY <1>1, <2>1, <2>3, <3>2, PlanStutters DEF Same
    <2> QED
      BY <2>1, <2>2, <2>3
  <1>8. CASE BeginVerifying
    <2>1. /\ OnTheWay /\ step \notin {1, 2, 3} /\ nfc' = "export" /\ error = "None"
          /\ UNCHANGED <<error, authenticated>>
      BY <1>8, Plans DEF BeginVerifying, Reporting, OnTheWay, StageInv, Untouched
    <2>2. PlanPhase = "files" /\ PlanPhase' = "over" /\ VerdictOf(error)' = VerdictOf(error)
      BY <1>3, <2>1, PlanPhases, PlanPhasesNext DEF OnTheWay, VerdictOf
    <2> QED
      BY <1>1, <2>1, <2>2 DEF ReadOfThisWorker!Next, ReadOfThisWorker!Complete
  <1>9. CASE StepDone
    <2>1. OnTheWay /\ OnTheWay' /\ UNCHANGED error /\ step' = step + 1
          /\ authenticated' = (authenticated \/ step = 3)
      BY <1>9 DEF StepDone, Exchanging, OnTheWay
    <2>2. authenticated <=> step > 3
      BY <2>1 DEF StageInv, OnTheWay
    <2>3. VerdictOf(error)' = VerdictOf(error)
      BY <2>1 DEF VerdictOf
    <2>4. CASE step \in {1, 2}
      <3>1. authenticated' = authenticated
        <4>1. step # 3
          BY <2>4
        <4> QED
          BY <2>1, <4>1, Zenon
      <3>2. \/ PlanPhase = "selecting" /\ PlanPhase' = "cardAccess"
            \/ PlanPhase = "cardAccess" /\ PlanPhase' = "authenticating"
        BY <2>1, <2>4, PlanPhases, PlanPhasesNext
      <3> QED
        BY <1>1, <2>3, <3>1, <3>2 DEF ReadOfThisWorker!Next, ReadOfThisWorker!Advance
    <2>5. CASE step = 3
      <3>1. authenticated' = TRUE
        BY <2>1, <2>5, Zenon
      <3>2. PlanPhase = "authenticating" /\ PlanPhase' = "files"
        BY <2>1, <2>5, PlanPhases, PlanPhasesNext
      <3> QED
        BY <1>1, <2>3, <3>1, <3>2 DEF ReadOfThisWorker!Next, ReadOfThisWorker!Authenticate
    <2>6. CASE step > 3
      <3>1. step # 3 /\ step \notin {1, 2, 3} /\ step' \notin {1, 2, 3}
        BY <2>1, <2>6
      <3>2. PlanPhase' = PlanPhase /\ authenticated' = authenticated
        BY <2>1, <3>1, PlanPhases, PlanPhasesNext DEF TypeOK
      <3> QED
        BY <1>1, <2>1, <3>2, PlanStutters DEF Same
    <2>7. step \in {1, 2} \/ step = 3 \/ step > 3
      OBVIOUS
    <2> QED
      BY <2>4, <2>5, <2>6, <2>7
  <1>10. CASE MoreOfFiles
    <2>1. OnTheWay /\ OnTheWay' /\ UNCHANGED <<error, authenticated, step>>
      BY <1>10 DEF MoreOfFiles, Exchanging, OnTheWay, record
    <2>2. PlanPhase' = PlanPhase
      BY <2>1, PlanPhases, PlanPhasesNext
    <2> QED
      BY <1>1, <2>1, <2>2, PlanStutters DEF Same
  <1>11. CASE StepFails
    <2>1. OnTheWay /\ step # 2 /\ nfc' = "export" /\ error' = "CardLost" /\ UNCHANGED authenticated
      BY <1>11, Plans DEF StepFails, Exchanging, OnTheWay
    <2>2. PlanPhase \in {"selecting", "authenticating", "files"}
      BY <2>1, PlanPhases
    <2>3. PlanPhase' = "over" /\ VerdictOf(error)' = "failed"
      BY <1>3, <2>1, PlanPhasesNext DEF OnTheWay, VerdictOf
    <2> QED
      BY <1>1, <2>1, <2>2, <2>3 DEF ReadOfThisWorker!Next, ReadOfThisWorker!Fail
  <1>12. CASE ExportResult \/ Finish
    <2>1. ~OnTheWay /\ Behind /\ ~OnTheWay' /\ Behind' /\ UNCHANGED <<error, authenticated>>
      BY <1>2, <1>3, <1>12 DEF ExportResult, Finish, OnTheWay
    <2>2. PlanPhase' = PlanPhase
      BY <2>1, PlanPhases, PlanPhasesNext
    <2> QED
      BY <1>1, <2>1, <2>2, PlanStutters DEF Same
  <1> QED
    BY <1>4, <1>5, <1>6, <1>7, <1>8, <1>9, <1>10, <1>11, <1>12 DEF NfcWork

\* The screens leave a read alone, but for the request to stop and the next one.
LEMMA ScreensArePlanned ==
    ASSUME IInv, ~cutShort', FinishPost \/ Dispatch \/ Joined \/ User
    PROVE  [ReadOfThisWorker!Next]_(ReadOfThisWorker!vars)
  <1>. TypeOK /\ ThreadInv
    BY DEF IInv
  <1>1. CASE StartRead
    <2>1. ~alive /\ ~OnTheWay /\ ~Behind /\ ~OnTheWay' /\ ~Behind'
      BY <1>1 DEF StartRead, ThreadInv, OnTheWay, Behind
    <2>2. PlanPhase = "idle" /\ PlanPhase' = "idle" /\ VerdictOf(error)' = "none"
      BY <1>1, <2>1, PlanPhases, PlanPhasesNext DEF StartRead, VerdictOf
    <2> QED
      BY <1>1, <2>2 DEF StartRead, ReadOfThisWorker!Next, ReadOfThisWorker!Prepare
  <1>2. CASE RefuseRead
    <2>1. ~alive /\ ~OnTheWay /\ ~Behind /\ UNCHANGED <<nfc, ctl, step, stop>>
      BY <1>2 DEF RefuseRead, ThreadInv, OnTheWay, Behind, guiOnly, reader
    <2>2. ~OnTheWay' /\ ~Behind'
      BY <2>1 DEF OnTheWay, Behind
    <2>3. PlanPhase = "idle" /\ PlanPhase' = "idle" /\ VerdictOf(error)' = "failed"
      BY <1>2, <2>1, <2>2, PlanPhases, PlanPhasesNext DEF RefuseRead, VerdictOf
    <2> QED
      BY <1>2, <2>1, <2>3 DEF RefuseRead, ReadOfThisWorker!Next, ReadOfThisWorker!Refuse
  <1>3. ASSUME UNCHANGED <<nfc, ctl, step, error, authenticated>>, stop' = stop \/ stop'
        PROVE  [ReadOfThisWorker!Next]_(ReadOfThisWorker!vars)
    <2>1. PlanPhase' = PlanPhase
      BY <1>3 DEF PlanPhase
    <2> QED
      BY <1>3, <2>1, PlanStutters DEF Same
  <1>4. \A s : Leave(s) => stop' = stop \/ stop'
    BY DEF Leave
  <1>5. CASE TakeFailure
    <2>1. error # "None"
      <3>1. ~cutShort /\ QueueInv /\ EndInv /\ StageInv
        BY <1>5 DEF TakeFailure, IInv
      <3>2. 1 \in 1 .. Len(queue) /\ queue[1].type = "Failure" /\ scene = "read" /\ gui = "loop"
        BY <1>5, Length DEF TakeFailure, Take, Looping
      <3>3. alive /\ queue[1].read = reads
        BY <3>1, <3>2 DEF QueueInv, ReadEvents, WorkerEvents
      <3>4. ctl = "ended" /\ ~(error = "None" /\ complete)
        BY <3>1, <3>2, <3>3 DEF EndInv, Ending, ThreadInv
      <3> QED
        BY <3>1, <3>4 DEF StageInv, Failed
    <2>2. UNCHANGED <<nfc, ctl, step, error, authenticated>>
      BY <1>5, <2>1 DEF TakeFailure, guiOnly, reader
    <2> QED
      BY <1>3, <1>4, <1>5, <2>2 DEF TakeFailure
  <1>6. CASE TakeRefused \/ TakeExit \/ TakeSuccess
    BY <1>3, <1>4, <1>6 DEF TakeRefused, TakeExit, TakeSuccess, guiOnly, record, reader
  <1>7. CASE FinishPost \/ TakeAuthenticated \/ Ignore
    BY <1>3, <1>7 DEF FinishPost, TakeAuthenticated, Ignore, guiOnly, worker, record, reader
  <1>8. CASE User
    BY <1>3, <1>4, <1>8 DEF User, PressRead, PressExit, PressBack, Quit, guiOnly, worker, record, reader
  <1>9. CASE Joined
    <2>1. /\ ~OnTheWay /\ Behind /\ UNCHANGED <<stop, authenticated, error>>
          /\ ~OnTheWay' /\ ~Behind'
      BY <1>9 DEF Joined, ThreadInv, OnTheWay, Behind, guiOnly, record
    <2>2. PlanPhase = "over" /\ PlanPhase' = "idle" /\ VerdictOf(error)' = VerdictOf(error)
      BY <2>1, PlanPhases, PlanPhasesNext DEF VerdictOf
    <2> QED
      BY <2>1, <2>2 DEF ReadOfThisWorker!Next, ReadOfThisWorker!Leave
  <1> QED
    BY <1>1, <1>2, <1>5, <1>6, <1>7, <1>8, <1>9 DEF Dispatch

\* The three threads, the screens and the user make of every read what the plan of
\* emrtd_worker_read says, however many reads there are and whatever the queue holds,
\* until a stale refusal has cut a read short (emrtd_worker.c:1744-1747).
THEOREM EveryReadFollowsThePlan == Spec => ImplementsPlan
  <1>1. Init => ReadOfThisWorker!Init
    <2> SUFFICES ASSUME Init PROVE ReadOfThisWorker!Init
      OBVIOUS
    <2>1. PlanPhase = "idle" /\ VerdictOf(error) = "none"
      BY PlanPhases DEF Init, VerdictOf, OnTheWay, Behind
    <2> QED
      BY <2>1 DEF Init, ReadOfThisWorker!Init
  <1>2. IInv /\ [Next]_vars =>
            [cutShort' \/ ReadOfThisWorker!Next]_(ReadOfThisWorker!vars)
    <2> SUFFICES ASSUME IInv, [Next]_vars, ~cutShort'
                 PROVE  [ReadOfThisWorker!Next]_(ReadOfThisWorker!vars)
      OBVIOUS
    <2>1. CASE UNCHANGED vars
      <3>1. UNCHANGED <<nfc, ctl, step, stop, error, authenticated>>
        BY <2>1 DEF vars, guiVars, record, reader
      <3>2. PlanPhase' = PlanPhase
        BY <3>1 DEF PlanPhase
      <3> QED
        BY <3>1, <3>2, PlanStutters DEF Same
    <2>2. CASE Next
      <3>1. ~cutShort
        BY <2>2, CutShortStays DEF IInv
      <3> QED
        BY <2>2, <3>1, ControlIsPlanned, ReaderIsPlanned, ScreensArePlanned DEF Next
    <2> QED
      BY <2>1, <2>2
  <1> QED
    BY <1>1, <1>2, Invariance, PTL DEF Spec, ImplementsPlan
=============================================================================
