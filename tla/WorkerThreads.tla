--------------------------- MODULE WorkerThreads ----------------------------
(***************************************************************************)
(* The three threads of a read: the GUI thread with its scenes, the        *)
(* control thread of emrtd_worker.c, and the NFC thread that calls         *)
(* emrtd_worker_poller_callback and runs the whole read inside it.  They   *)
(* share the stop flag, the FINISHED event flag, the record of the read    *)
(* (app->result), the last progress (app->progress), the export, and the   *)
(* queue of custom events, which the GUI thread alone empties.             *)
(*                                                                         *)
(* A post to a full queue waits for room.  Of the scenes only those around *)
(* a read are here: the menu (with its credentials set), the read, and the *)
(* two screens a read ends on.  What the files hold is in other modules.   *)
(***************************************************************************)
EXTENDS Naturals, Sequences, SequencesExt

CONSTANTS
    QueueLen,        \* custom events the dispatcher's queue holds
    ActivationMax,   \* EMRTD_WORKER_ACTIVATION_RETRIES
    Export,          \* settings of config.export_to_sd to try
    HeapAllows,      \* what emrtd_scene_read_have_memory may say
    MaxFileReports,  \* bound: reports of the files of one read
    MaxReads,        \* bound: reads started
    MaxKeys          \* bound: key events waiting in the queue

ASSUME ThreadsAssumption ==
    /\ QueueLen \in Nat /\ ActivationMax \in Nat \ {0} /\ Export \subseteq BOOLEAN
    /\ HeapAllows \subseteq BOOLEAN
    /\ MaxFileReports \in Nat /\ MaxReads \in Nat /\ MaxKeys \in Nat

VARIABLES
    \* the GUI thread
    gui,            \* "loop", "joining", "blocked" or "closed"
    scene,          \* "start", "read", "success", "error"
    after,          \* the scene the join leads to
    queue,          \* custom events, each with the read it was posted in
    shown,          \* the read screen names the access method
    \* shared
    alive,          \* app->worker is there
    reads,          \* reads started
    stop,           \* worker->stop_requested
    finished,       \* EMRTD_WORKER_FLAG_FINISHED
    posting,        \* the event a worker thread is in the middle of posting
    progress,       \* app->progress.stage
    exportOpen,     \* worker->export_ctx
    \* the record
    error, errorStage, authenticated, complete,
    \* the worker's threads
    ctl, nfc, stage, step, reports, failures, exporting,
    cutShort         \* history: the refusal of one read has ended another

guiVars  == <<gui, scene, after, shown>>
record   == <<error, errorStage, authenticated, complete>>
reader   == <<step, reports, failures>>
vars     == <<guiVars, queue, alive, reads, stop, finished, posting, progress,
              exportOpen, record, ctl, nfc, stage, reader, exporting, cutShort>>

Stages == <<"Idle", "Waiting", "Selecting", "CardAccess", "Authenticating",
            "Files", "Verifying", "Exporting", "Done", "Error">>
Rank(s) == CHOOSE i \in 1..Len(Stages) : Stages[i] = s

\* The reports of emrtd_worker_read in order; Authenticating comes once more
\* when a driver has succeeded.
Plan == <<"Selecting", "CardAccess", "Authenticating", "Authenticating",
          "Files", "Verifying">>

Keys == {"Read", "Exit"}
WorkerEvents == {"Progress", "Authenticated", "Success", "Failure"}
ReadEvents == WorkerEvents \cup {"Exit"}
Events == Keys \cup WorkerEvents \cup {"Refused"}

Post(type) == queue' = Append(queue, [type |-> type, read |-> reads])
Room == Len(queue) < QueueLen

(***************************************************************************)
(* emrtd_worker_report and the callback of the read scene.                 *)
(***************************************************************************)
EventOfStrict(s) ==
    IF s = "Done" THEN "Success"
    ELSE IF s = "Error" THEN "Failure"
    ELSE IF Rank(progress) < Rank("Authenticating") /\ Rank(s) > Rank("Authenticating")
         THEN "Authenticated" ELSE "Progress"
EventOf(s) ==
    IF s = "Done" THEN "Success"
    ELSE IF s = "Error" THEN "Failure"
    ELSE IF Rank(progress) <= Rank("Authenticating") /\ Rank(s) > Rank("Authenticating")
         THEN "Authenticated" ELSE "Progress"

\* Up to the post, which may have to wait for room: the stop flag has been
\* looked at by then.
Report(s) ==
    /\ stage' = IF Rank(s) < Rank("Done") THEN s ELSE stage
    /\ progress' = IF stop THEN progress ELSE s
    /\ posting' = IF stop THEN "none" ELSE EventOf(s)

FinishPost ==
    /\ posting # "none" /\ Room
    /\ Post(posting) /\ posting' = "none"
    /\ UNCHANGED <<guiVars, alive, reads, stop, finished, progress, exportOpen,
                   record, ctl, nfc, stage, reader, exporting, cutShort>>

(***************************************************************************)
(* The control thread: emrtd_worker_thread.                                *)
(***************************************************************************)
ctlOnly == <<guiVars, queue, alive, reads, stop, reader, exporting, cutShort>>

Greet ==
    /\ ctl = "greet" /\ ctl' = "detect" /\ Report("Waiting")
    /\ UNCHANGED <<ctlOnly, finished, exportOpen, record, nfc>>

\* The stop flag is read between two detections: one that is under way may
\* still find a card.
Detect ==
    /\ ctl = "detect" /\ posting = "none"
    /\ ctl' = "poll" /\ nfc' = "callback" /\ exportOpen' = exporting
    /\ UNCHANGED <<ctlOnly, finished, posting, progress, record, stage>>

StopDetecting ==
    /\ ctl = "detect" /\ posting = "none" /\ stop
    /\ ctl' = "ended" /\ error' = "Cancelled" /\ Report("Error")
    /\ UNCHANGED <<ctlOnly, finished, exportOpen, errorStage, authenticated,
                   complete, nfc>>

\* nfc_poller_stop waits for the callback to have returned.
StopPollerAndAnnounce ==
    /\ ctl = "poll" /\ finished /\ ctl' = "ended"
    /\ Report(IF error = "None" THEN "Done" ELSE "Error")
    /\ UNCHANGED <<ctlOnly, finished, exportOpen, record, nfc>>
StopPoller ==
    /\ ctl = "poll" /\ finished /\ nfc = "returned"
    /\ ctl' = "closing" /\ nfc' = "none"
    /\ UNCHANGED <<ctlOnly, finished, posting, progress, exportOpen, record, stage>>

CloseExport ==
    /\ ctl = "closing" /\ ctl' = "announce" /\ exportOpen' = FALSE
    /\ UNCHANGED <<ctlOnly, finished, posting, progress, record, nfc, stage>>

Announce ==
    /\ ctl = "announce" /\ ctl' = "ended"
    /\ Report(IF error = "None" THEN "Done" ELSE "Error")
    /\ UNCHANGED <<ctlOnly, finished, exportOpen, record, nfc>>

(***************************************************************************)
(* The NFC thread: emrtd_worker_poller_callback, emrtd_worker_read and     *)
(* emrtd_worker_finish.                                                    *)
(***************************************************************************)
nfcOnly == <<guiVars, queue, alive, reads, stop, exportOpen, ctl, exporting, cutShort>>

\* The result of the read so far is an error: emrtd_worker_mark_stop.
MarkStop ==
    errorStage' = IF error # "None" /\ errorStage = "Idle" THEN stage ELSE errorStage

CallbackStoppedQuietly ==
    /\ nfc = "callback" /\ posting = "none" /\ stop
    /\ nfc' = "returned" /\ error' = "Cancelled"
    /\ UNCHANGED <<nfcOnly, finished, posting, progress, errorStage,
                   authenticated, complete, stage, reader>>
CallbackStopped ==
    /\ nfc = "callback" /\ posting = "none" /\ stop
    /\ nfc' = "finish" /\ error' = "Cancelled"
    /\ UNCHANGED <<nfcOnly, finished, posting, progress, errorStage,
                   authenticated, complete, stage, reader>>

\* A bug for the check to find: the read begins though it has been stopped.
CallbackReadsStopped ==
    /\ nfc = "callback" /\ posting = "none"
    /\ nfc' = "reading" /\ failures' = 0
    /\ UNCHANGED <<nfcOnly, finished, posting, progress, record, stage, step, reports>>

CallbackReads ==
    /\ nfc = "callback" /\ posting = "none" /\ ~stop
    /\ nfc' = "reading" /\ failures' = 0
    /\ UNCHANGED <<nfcOnly, finished, posting, progress, record, stage, step, reports>>

\* The card does not open: the field is dropped and the callback comes again,
\* until it has failed often enough.  The screen is told of the first failure.
ActivationFails ==
    /\ nfc = "callback" /\ posting = "none" /\ ~stop
    /\ failures' = failures + 1
    /\ \/ /\ failures' >= ActivationMax
          /\ nfc' = "finish" /\ error' \in {"Activation", "CardLost"}
          /\ UNCHANGED <<posting, progress, stage>>
       \/ /\ failures' < ActivationMax /\ UNCHANGED <<nfc, error>>
          /\ IF failures' = 1 THEN Report("Waiting")
             ELSE UNCHANGED <<posting, progress, stage>>
    /\ UNCHANGED <<nfcOnly, finished, errorStage, authenticated, complete, step, reports>>

Reporting == nfc = "reading" /\ posting = "none"

BeginStep ==
    /\ Reporting /\ Plan[step] # "Verifying"
    /\ Report(Plan[step])
    /\ IF stop THEN nfc' = "export" /\ error' = "Cancelled"
       ELSE nfc' = "exchange" /\ UNCHANGED error
    /\ UNCHANGED <<nfcOnly, finished, errorStage, authenticated, complete, reader>>

\* Nothing is left to read; what this report returns no longer matters.
BeginVerifying ==
    /\ Reporting /\ Plan[step] = "Verifying"
    /\ Report("Verifying") /\ nfc' = "export" /\ complete' = TRUE
    /\ UNCHANGED <<nfcOnly, finished, error, errorStage, authenticated, reader>>

Exchanging == nfc = "exchange" /\ posting = "none"

\* The exchanges of the step went well, and the next step begins; the last stop
\* that counts is one raised before the files are done.
StepDone ==
    /\ Exchanging /\ (Plan[step] = "Files" => ~stop)
    /\ nfc' = "reading" /\ step' = step + 1
    /\ authenticated' = (authenticated \/ step = 3)
    /\ UNCHANGED <<nfcOnly, finished, posting, progress, error, errorStage,
                   complete, stage, reports, failures>>

\* One more file, or one more block of it, is reported.
MoreOfFiles ==
    /\ Exchanging /\ ~stop
    /\ Plan[step] = "Files" /\ reports < MaxFileReports
    /\ nfc' = "reading" /\ reports' = reports + 1
    /\ UNCHANGED <<nfcOnly, finished, posting, progress, record, stage, step, failures>>

StepStopped ==
    /\ Exchanging /\ stop
    /\ nfc' = "export" /\ error' = "Cancelled"
    /\ UNCHANGED <<nfcOnly, finished, posting, progress, errorStage,
                   authenticated, complete, stage, reader>>

\* After the last report of authentication there is nothing to fail, and
\* without EF.CardAccess the read goes on.
StepFails ==
    /\ Exchanging /\ Plan[step] # "CardAccess" /\ step # 4
    /\ nfc' = "export" /\ error' = "CardLost"
    /\ UNCHANGED <<nfcOnly, finished, posting, progress, errorStage,
                   authenticated, complete, stage, reader>>

ExportResult ==
    /\ nfc = "export" /\ posting = "none"
    /\ nfc' = "finish" /\ MarkStop
    /\ IF exportOpen THEN Report("Exporting") ELSE UNCHANGED <<posting, progress, stage>>
    /\ UNCHANGED <<nfcOnly, finished, error, authenticated, complete, reader>>

Finish ==
    /\ nfc = "finish" /\ posting = "none"
    /\ nfc' = "returned" /\ MarkStop /\ finished' = TRUE
    /\ UNCHANGED <<nfcOnly, posting, progress, error, authenticated, complete,
                   stage, reader>>

(***************************************************************************)
(* The GUI thread: the dispatcher and the scenes.                          *)
(***************************************************************************)
guiOnly == <<finished, posting, exportOpen, nfc>>
worker  == <<alive, reads, stop, progress, record, ctl, stage, reader, exporting, shown,
             cutShort>>

Looping == gui = "loop"

\* on_exit of the read scene: the stop flag, then the join.
LeaveNoJoin(s) ==
    /\ gui' = IF s = "closed" THEN "closed" ELSE "loop"
    /\ scene' = (IF s = "closed" THEN scene ELSE s) /\ after' = s
    /\ stop' = (alive \/ stop) /\ alive' = FALSE
Leave(s) ==
    IF alive THEN
        gui' = "joining" /\ after' = s /\ stop' = TRUE /\ UNCHANGED <<scene, alive>>
    ELSE
        /\ gui' = IF s = "closed" THEN "closed" ELSE "loop"
        /\ scene' = (IF s = "closed" THEN scene ELSE s)
        /\ UNCHANGED <<after, stop, alive>>

Joined ==
    /\ gui = "joining" /\ ctl = "ended" /\ posting = "none"
    /\ gui' = IF after = "closed" THEN "closed" ELSE "loop"
    /\ scene' = (IF after = "closed" THEN scene ELSE after)
    /\ alive' = FALSE /\ ctl' = "none"
    /\ UNCHANGED <<guiOnly, after, shown, queue, reads, stop, progress, record,
                   stage, reader, exporting, cutShort>>

\* A key press is posted to the thread's own queue.
Press(key) ==
    IF Room THEN Post(key) /\ UNCHANGED gui
    ELSE gui' = "blocked" /\ UNCHANGED queue

PendingKeys == Len(SelectSeq(queue, LAMBDA e : e.type \in Keys))

\* Read in the menu and Retry on the error screen are the same number.  A read
\* that was refused has not left the screen it was started from.
PressRead ==
    /\ Looping /\ PendingKeys < MaxKeys
    /\ scene \in {"start", "error"} \/ (scene = "read" /\ ~alive)
    /\ Press("Read")
    /\ UNCHANGED <<guiOnly, worker, scene, after>>

PressExit ==
    /\ Looping /\ PendingKeys < MaxKeys /\ scene = "read" /\ alive
    /\ Press("Exit")
    /\ UNCHANGED <<guiOnly, worker, scene, after>>

\* Back outside the read view is not posted; from the menu it ends the
\* application, as a signal from outside does in any scene.
PressBack ==
    /\ Looping /\ ~alive /\ scene # "start"
    /\ scene' = "start"
    /\ UNCHANGED <<guiOnly, worker, gui, after, queue>>

Quit ==
    /\ Looping /\ Leave("closed")
    /\ UNCHANGED <<guiOnly, queue, reads, progress, record, ctl, stage, reader,
                   exporting, shown, cutShort>>

Take(types) ==
    /\ Looping /\ queue # <<>> /\ Head(queue).type \in types
    /\ queue' = Tail(queue)

\* on_enter of the read scene, when the heap can hold a read.
StartRead ==
    /\ TRUE \in HeapAllows
    /\ Take({"Read"}) /\ scene \in {"start", "error"} /\ reads < MaxReads
    /\ scene' = "read" /\ alive' = TRUE /\ reads' = reads + 1
    /\ stop' = FALSE /\ finished' = FALSE /\ shown' = FALSE
    /\ progress' = "Waiting" /\ stage' = "Idle"
    /\ error' = "None" /\ errorStage' = "Idle" /\ authenticated' = FALSE
    /\ complete' = FALSE
    /\ ctl' = "greet" /\ step' = 1 /\ reports' = 0 /\ failures' = 0
    /\ exporting' \in Export
    /\ UNCHANGED <<gui, after, posting, exportOpen, nfc, cutShort>>

RefuseRead ==
    /\ FALSE \in HeapAllows
    /\ Looping /\ queue # <<>> /\ Head(queue).type = "Read"
    /\ scene \in {"start", "error"} /\ reads < MaxReads
    /\ scene' = "read" /\ reads' = reads + 1
    /\ queue' = Append(Tail(queue), [type |-> "Refused", read |-> reads + 1])
    /\ progress' = "Waiting" /\ error' = "OutOfMemory" /\ errorStage' = "Idle"
    /\ authenticated' = FALSE /\ complete' = FALSE
    /\ UNCHANGED <<guiOnly, gui, after, shown, alive, stop, ctl, stage, reader,
                   exporting, cutShort>>

\* The refusal may be one of an earlier read than the one under way.
TakeRefused ==
    /\ Take({"Refused"}) /\ scene = "read" /\ Leave("error")
    /\ cutShort' = (cutShort \/ alive)
    /\ UNCHANGED <<guiOnly, reads, progress, record, ctl, stage, reader, exporting, shown>>

TakeAuthenticated ==
    /\ Take({"Authenticated"}) /\ scene = "read"
    /\ shown' = (shown \/ authenticated)
    /\ UNCHANGED <<guiOnly, gui, scene, after, alive, reads, stop, progress,
                   record, ctl, stage, reader, exporting, cutShort>>

TakeExit ==
    /\ Take({"Exit"}) /\ scene = "read" /\ Leave("start")
    /\ UNCHANGED <<guiOnly, reads, progress, record, ctl, stage, reader, exporting, shown,
                   cutShort>>

TakeSuccess ==
    /\ Take({"Success"}) /\ scene = "read" /\ Leave("success")
    /\ UNCHANGED <<guiOnly, reads, progress, record, ctl, stage, reader, exporting, shown,
                   cutShort>>

TakeFailure ==
    /\ Take({"Failure"}) /\ scene = "read"
    /\ error' = IF error = "None" THEN "Internal" ELSE error
    /\ Leave(IF error' = "Cancelled" THEN "start" ELSE "error")
    /\ UNCHANGED <<guiOnly, reads, progress, errorStage, authenticated, complete,
                   ctl, stage, reader, exporting, shown, cutShort>>

\* Progress is drawn, and what a scene does not know it drops.
Ignore ==
    /\ Take(Events)
    /\ LET t == Head(queue).type IN
          \/ t = "Progress"
          \/ t = "Read" /\ scene \in {"read", "success"}
          \/ t \in Events \ {"Read"} /\ scene # "read"
    /\ UNCHANGED <<guiOnly, worker, gui, scene, after>>

(***************************************************************************)
(* The system.                                                             *)
(***************************************************************************)
Init ==
    /\ gui = "loop" /\ scene = "start" /\ after = "start" /\ queue = <<>>
    /\ shown = FALSE /\ alive = FALSE /\ reads = 0 /\ stop = FALSE
    /\ finished = FALSE /\ posting = "none" /\ progress = "Idle"
    /\ exportOpen = FALSE /\ error = "None" /\ errorStage = "Idle"
    /\ authenticated = FALSE /\ complete = FALSE /\ ctl = "none"
    /\ nfc = "none" /\ stage = "Idle" /\ step = 1 /\ reports = 0
    /\ failures = 0 /\ exporting = FALSE /\ cutShort = FALSE

CtlWork == Greet \/ StopDetecting \/ StopPoller \/ CloseExport \/ Announce
NfcWork ==
    \/ CallbackStopped \/ CallbackReads \/ ActivationFails
    \/ BeginStep \/ BeginVerifying
    \/ StepDone \/ MoreOfFiles \/ StepStopped \/ StepFails
    \/ ExportResult \/ Finish
Dispatch ==
    \/ StartRead \/ RefuseRead \/ TakeRefused \/ TakeAuthenticated
    \/ TakeExit \/ TakeSuccess \/ TakeFailure \/ Ignore
User == PressRead \/ PressExit \/ PressBack \/ Quit

Next == CtlWork \/ Detect \/ NfcWork \/ FinishPost \/ Dispatch \/ Joined \/ User

\* Each thread goes on running, and every exchange comes back (IsoDep).  No one
\* promises a card or a user.
Spec ==
    /\ Init /\ [][Next]_vars
    /\ WF_vars(CtlWork) /\ WF_vars(NfcWork) /\ WF_vars(FinishPost)
    /\ WF_vars(Dispatch) /\ WF_vars(Joined)

(***************************************************************************)
(* Properties.                                                             *)
(***************************************************************************)
TypeOK ==
    /\ gui \in {"loop", "joining", "blocked", "closed"}
    /\ scene \in {"start", "read", "success", "error"}
    /\ after \in {"start", "success", "error", "closed"}
    /\ queue \in Seq([type : Events, read : 0..MaxReads]) /\ Len(queue) <= QueueLen
    /\ shown \in BOOLEAN /\ alive \in BOOLEAN /\ stop \in BOOLEAN
    /\ finished \in BOOLEAN /\ exportOpen \in BOOLEAN /\ exporting \in BOOLEAN
    /\ cutShort \in BOOLEAN
    /\ posting \in WorkerEvents \cup {"none"}
    /\ progress \in ToSet(Stages) /\ stage \in ToSet(Stages)
    /\ errorStage \in ToSet(Stages)
    /\ error \in {"None", "Cancelled", "CardLost", "Activation", "OutOfMemory", "Internal"}
    /\ authenticated \in BOOLEAN /\ complete \in BOOLEAN
    /\ ctl \in {"none", "greet", "detect", "poll", "closing", "announce", "ended"}
    /\ nfc \in {"none", "callback", "reading", "exchange", "export", "finish", "returned"}
    /\ step \in 1..Len(Plan) /\ reads \in 0..MaxReads
    /\ reports \in 0..MaxFileReports /\ failures \in 0..ActivationMax

\* The worker is freed, and nfc_free called, only when no thread of the read can
\* touch either any more (emrtd_scene_read.c:237-250).
NothingOutlivesTheWorker ==
    ~alive => /\ ctl = "none" /\ nfc = "none" /\ posting = "none" /\ ~exportOpen

\* A refusal that is still in the queue when another read has begun ends that read
\* too, whatever it is in the middle of, and its events are left to a third: the
\* comment "on_enter allocated nothing" (emrtd_scene_read.c:164) is of the read
\* that was refused.  What follows holds until that happens, however many reads
\* there are.

\* When the event that ends a read is in the queue, the poller is down, the
\* export is closed and the record is the finished one (emrtd_worker.c:2100-2103).
Ending == {"Success", "Failure"}
RecordIsFinished ==
    ~cutShort => \A i \in 1..Len(queue) :
        queue[i].type \in Ending /\ queue[i].read = reads =>
            /\ nfc = "none" /\ ~exportOpen
            /\ queue[i].type = "Success" <=> error = "None" /\ complete

\* A read never sees an event of the read before it, nor the key that left it:
\* leaving one waits for it, and the key that starts the next is queued behind all
\* it posted.
EventsOfThisRead ==
    alive /\ ~cutShort => \A i \in 1..Len(queue) :
                queue[i].type \in ReadEvents => queue[i].read = reads

\* The screen a read leads to by an event of its own: success only for a read
\* that is complete, whose access method was shown; an error is never the user's
\* own stop, and says at which stage of the read it happened.
ScreensTellTheTruth ==
    gui = "loop" /\ scene = "read" /\ queue # <<>> /\ ~cutShort =>
        /\ Head(queue).type = "Success" => error = "None" /\ complete /\ shown
        /\ Head(queue).type = "Failure" =>
              /\ error \in {"CardLost", "Activation"}
              /\ Rank("Waiting") <= Rank(errorStage) /\ Rank(errorStage) <= Rank("Files")

\* What the plan of a read looks at: a read is over when nothing is left of it but
\* the export and the way home.
PlanPhase ==
    IF nfc \in {"reading", "exchange"}
    THEN CASE step = 1 -> "selecting"
           [] step = 2 -> "cardAccess"
           [] step = 3 -> "authenticating"
           [] OTHER -> "files"
    ELSE IF nfc \in {"export", "finish", "returned"} \/ ctl \in {"closing", "announce", "ended"}
    THEN "over"
    ELSE "idle"

\* What a record's error is to those who do not ask for the cause.
VerdictOf(e) == IF e = "None" THEN "none" ELSE IF e = "Cancelled" THEN "stopped" ELSE "failed"

ReadOfThisWorker == INSTANCE ReadPlan WITH
    phase <- PlanPhase, asked <- stop, authenticated <- authenticated,
    verdict <- VerdictOf(error)

\* The threads, the screens and the user around it make of every read what the
\* plan says, one read after the other: each begins with an empty record and not
\* when it has been stopped, and its verdict stands until the next (emrtd_worker.c:
\* 1744-1747, 1993-1997).  So it is until a stale refusal has cut a read short.
ImplementsPlan ==
    /\ ReadOfThisWorker!Init
    /\ [][cutShort' \/ ReadOfThisWorker!Next]_(ReadOfThisWorker!vars)

\* The thread that waits for the read to end is not waited for by the read: what
\* emrtd_worker_report looks at the stop flag for (emrtd_worker.c:239-242).
NeverWaitForEachOther == gui = "joining" /\ posting # "none" => Room

\* Leaving the read ends, whatever the read is in the middle of.
LeavingEnds == gui = "joining" ~> gui # "joining"

=============================================================================
