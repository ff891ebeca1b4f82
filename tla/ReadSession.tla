---------------------------- MODULE ReadSession -----------------------------
(***************************************************************************)
(* The read of one document, emrtd_worker_read: the application and        *)
(* EF.CardAccess in the clear, the access drivers until one opens a        *)
(* session, then EF.COM, EF.SOD and the data groups.  The card and the     *)
(* link answer as they like; the user may stop the read at any moment.     *)
(*                                                                         *)
(* What an exchange may bring is what SecureSession leaves open: an answer *)
(* with a status word, or a failure, after which the two counters of the   *)
(* session may have slipped apart, and then no later answer verifies.      *)
(* What a file holds, and its hash, are not here.                          *)
(***************************************************************************)
EXTENDS Naturals, Sequences, FiniteSets, SequencesExt, FiniteSetsExt

CONSTANTS
    Groups,     \* data groups of the catalogue, in order
    Eac,        \* those that are eac_protected; no setting asks for them
    Selections, \* settings of config.files to try
    Pins        \* settings of config.method to try: "Auto" or a driver

\* The registry, in order, and the drivers with reselect_application.
Drivers == <<"PACE", "BAC">>
Reselects == {"PACE"}

ASSUME ReadAssumption ==
    /\ Groups \in Seq(STRING) /\ IsInjective(Groups) /\ Eac \subseteq ToSet(Groups)
    /\ ToSet(Groups) \cap {"COM", "SOD"} = {}
    /\ Selections \subseteq SUBSET (ToSet(Groups) \ Eac)
    /\ Pins \subseteq ToSet(Drivers) \cup {"Auto"}

Files == <<"COM", "SOD">> \o Groups
DefaultMask == ToSet(Groups) \ Eac

\* EmrtdAccessScore.
Unsupported == 0
Possible    == 1
Announced   == 2

\* "Refused" is any status word that is neither a verdict on the key nor, as 6987
\* and 6988 are, about the session ("SecureMessaging"), "PaceCurve" any reason for
\* which the PACE a chip offers cannot be run.
LinkErrors == {"CardLost", "Transport", "Protocol", "BufferTooSmall"}
SessionErrors == LinkErrors \cup {"SecureMessaging", "Refused"}
KeyVerdicts == {"WrongKey", "PaceFailed"}
DriverErrors == SessionErrors \cup KeyVerdicts \cup {"Parse"}
Reasons == {"NoAccessMethod", "PaceCurve", "InvalidInput"}
Gone == {"CardLost", "Transport"}

\* The link or the session is gone; nothing further can be read.
FatalWithoutSession == Gone
Fatal == Gone \cup {"SecureMessaging"}

VARIABLES
    pc,
    stop,           \* worker->stop_requested
    wanted,         \* config.files
    pin,            \* config.method
    hasCan, hasMrz, \* what config.credentials hold
    paceInfo,       \* the PACE of EF.CardAccess: "none", "unusable", "usable"
    \* emrtd_worker_authenticate
    level, next, best, attempted,
    said,           \* what each driver that ran failed with
    \* the record
    error, errorFile, authenticated,
    state,          \* result->files[].state
    fileError,      \* result->files[].error
    refused,        \* files whose SELECT was answered, and not with 9000: a
                    \* history, of which the code keeps no more than the error
    hasCom, present,
    slipped,        \* the counters of the session are apart
    \* the file being read, and what the progress bar is made of
    file, filesDone, filesTotal

input   == <<wanted, pin, hasCan, hasMrz>>
search  == <<level, next, best, attempted, said>>
entries == <<state, fileError>>
found   == <<hasCom, present>>
bar     == <<filesDone, filesTotal>>
vars    == <<pc, stop, input, paceInfo, search, error, errorFile, authenticated,
             entries, refused, found, slipped, file, bar>>

Stop ==
    /\ pc # "ended" /\ ~stop /\ stop' = TRUE
    /\ UNCHANGED <<pc, input, paceInfo, search, error, errorFile, authenticated,
                   entries, refused, found, slipped, file, bar>>

(***************************************************************************)
(* Before the session.                                                     *)
(***************************************************************************)
early == <<stop, input, errorFile, authenticated, entries, refused, found, slipped,
           file, bar>>

End(e) == pc' = "ended" /\ error' = e

SelectApplication ==
    /\ pc = "select"
    /\ \/ stop /\ End("Cancelled")
       \/ ~stop /\ pc' = "cardAccess" /\ UNCHANGED error
       \/ ~stop /\ \E e \in SessionErrors \cup {"NotEmrtd"} : End(e)
    /\ UNCHANGED <<early, paceInfo, search>>

\* A bug for the check to find: a failure of the optional file ends the read.
ReadCardAccessOrFail ==
    /\ pc = "cardAccess"
    /\ paceInfo' \in {"none", "unusable", "usable"}
    /\ \/ IF stop THEN End("Cancelled") ELSE pc' = "auth" /\ UNCHANGED error
       \/ \E e \in LinkErrors : End(e)
    /\ UNCHANGED <<early, search>>

\* EF.CardAccess is read if it is there; if it was, the application is selected
\* again, whatever comes of that.
ReadCardAccess ==
    /\ pc = "cardAccess"
    /\ paceInfo' \in {"none", "unusable", "usable"}
    /\ IF stop THEN End("Cancelled") ELSE pc' = "auth" /\ UNCHANGED error
    /\ UNCHANGED <<early, search>>

\* What a driver makes of EF.CardAccess and the credentials.
Score(d) ==
    IF d = "PACE"
    THEN IF paceInfo = "usable" /\ (hasCan \/ hasMrz) THEN Announced ELSE Unsupported
    ELSE IF hasMrz THEN Possible ELSE Unsupported
Unsuitable(d) == Score(d) = Unsupported
Reason(d) ==
    IF d = "PACE" /\ paceInfo = "none" THEN "NoAccessMethod"
    ELSE IF d = "PACE" /\ paceInfo = "unusable" THEN "PaceCurve" ELSE "InvalidInput"

\* A method the user pinned is the only one attempted.
TryPinned ==
    /\ pc = "auth" /\ pin # "Auto"
    /\ IF Unsuitable(pin) THEN End(Reason(pin)) ELSE pc' = "driver" /\ UNCHANGED error
    /\ UNCHANGED <<early, paceInfo, search>>

Asking == pc = "auth" /\ pin = "Auto"
Driver == IF pin = "Auto" THEN Drivers[next] ELSE pin

\* The next driver in the registry, or the first one at the next lower score.
Advance ==
    IF next < Len(Drivers) THEN next' = next + 1 /\ UNCHANGED level
    ELSE next' = 1 /\ level' = level - 1

SkipDriver ==
    /\ Asking /\ level >= Possible /\ ~stop
    /\ Score(Driver) # level
    /\ best' = IF Unsuitable(Driver) /\ best = "NoAccessMethod" THEN Reason(Driver) ELSE best
    /\ Advance
    /\ UNCHANGED <<early, paceInfo, pc, error, attempted, said>>

TryDriver ==
    /\ Asking /\ level >= Possible /\ ~stop
    /\ Score(Driver) = level
    /\ pc' = "driver"
    /\ UNCHANGED <<early, paceInfo, search, error>>

NoDriverLeft ==
    /\ Asking
    /\ \/ level < Possible /\ End(best)
       \/ level >= Possible /\ stop /\ End("Cancelled")
    /\ UNCHANGED <<early, paceInfo, search>>

\* What a driver that failed leaves behind: the first to run is the diagnosis,
\* and a reason that is already held gives way only to a verdict on the key.
Blame(e) ==
    IF ~attempted /\ (best = "NoAccessMethod" \/ e \in KeyVerdicts) THEN e ELSE best

DriverFails ==
    /\ pc \in {"driver", "inside"}
    /\ \E e \in IF pc = "driver" THEN DriverErrors ELSE SessionErrors :
          /\ said' = [said EXCEPT ![Driver] = e]
          /\ IF pin # "Auto" THEN End(e) /\ UNCHANGED <<best, attempted>>
             ELSE /\ best' = Blame(e) /\ attempted' = TRUE
                  /\ IF e \in Gone THEN End(best') ELSE pc' = "again" /\ UNCHANGED error
    /\ UNCHANGED <<early, paceInfo, level, next>>

\* The application is selected again in the clear before the next driver.
SelectAgainSameDriver ==
    /\ pc = "again" /\ pc' = "auth"
    /\ UNCHANGED <<early, paceInfo, search, error>>
SelectAgain ==
    /\ pc = "again"
    /\ \/ pc' = "auth" /\ Advance /\ UNCHANGED error
       \/ End(best) /\ UNCHANGED <<level, next>>
    /\ UNCHANGED <<early, paceInfo, best, attempted, said>>

ToBeRead(groups) == (groups \cap wanted) \ Eac
CountFiles(groups) == 2 + Cardinality(ToBeRead(groups))

\* Where the progress bar stands: the files take it from 25 to 90.
Percent ==
    IF filesTotal = 0 THEN 25 ELSE Min({25 + (65 * filesDone) \div filesTotal, 90})

\* A session is open and known to work; the files begin with EF.COM.
DriverOpens ==
    /\ \/ pc = "driver" /\ Driver \notin Reselects
       \/ pc = "inside"
    /\ authenticated' = TRUE
    /\ IF stop THEN End("Cancelled") /\ UNCHANGED filesTotal
       ELSE pc' = "file" /\ filesTotal' = CountFiles(DefaultMask) /\ UNCHANGED error
    /\ UNCHANGED <<stop, input, paceInfo, search, errorFile, entries, refused, found,
                   slipped, file, filesDone>>

\* The application is selected inside the session first.
SelectInside ==
    /\ pc = "driver" /\ Driver \in Reselects
    /\ pc' = "inside"
    /\ UNCHANGED <<early, paceInfo, search, error>>

(***************************************************************************)
(* The files.                                                              *)
(***************************************************************************)
kept    == <<stop, input, paceInfo, search, authenticated>>
reading == <<kept, refused>>
Name == Files[file]

\* Once the counters are apart nothing verifies; a failed exchange leaves them so.
Succeeds == ~slipped /\ UNCHANGED slipped
Fails == slipped' = TRUE

Enter(f, s, e) ==
    state' = [state EXCEPT ![f] = s] /\ fileError' = [fileError EXCEPT ![f] = e]

\* What the caller of emrtd_worker_read_file does with its error.
ProceedWithoutFile(e) ==
    /\ IF e \in Fatal THEN End(e) ELSE pc' = "next" /\ UNCHANGED error
    /\ UNCHANGED <<file, errorFile>>
Proceed(e) ==
    IF e \in Fatal \/ (e = "Cancelled" /\ Name = "COM") THEN
        /\ End(e) /\ errorFile' = Name /\ UNCHANGED file
    ELSE IF e = "Cancelled" THEN End(e) /\ UNCHANGED <<file, errorFile>>
    ELSE /\ pc' = "next" /\ UNCHANGED <<error, errorFile, file>>

BeginFile ==
    /\ pc = "file"
    /\ IF stop THEN Enter(Name, "Failed", "Cancelled") /\ Proceed("Cancelled")
       ELSE Enter(Name, "Reading", "None") /\ pc' = "selecting"
            /\ UNCHANGED <<error, errorFile, file>>
    /\ UNCHANGED <<reading, found, slipped, bar>>

SelectFile ==
    /\ pc = "selecting" /\ Succeeds
    /\ pc' = "blocks"
    /\ UNCHANGED <<reading, error, errorFile, entries, found, file, bar>>

Counted == filesDone' = filesDone + 1 /\ UNCHANGED filesTotal

\* A file that is not there, or is refused, is no reason to stop, not even if
\* the status word is one that stands for a broken session (6987, 6988).
FileRefused ==
    /\ pc = "selecting" /\ Succeeds
    /\ \/ Enter(Name, "Absent", "Refused")
       \/ \E e \in {"Refused", "SecureMessaging"} : Enter(Name, "Failed", e)
    /\ refused' = refused \cup {Name}
    /\ pc' = "next" /\ Counted
    /\ UNCHANGED <<kept, error, errorFile, found, file>>

SelectFails ==
    /\ pc = "selecting" /\ Fails
    /\ \E e \in SessionErrors : Enter(Name, "Failed", e) /\ Proceed(e)
    /\ UNCHANGED <<reading, found, bar>>

(* The blocks of a file are one step: wherever the stop, a status word or a  *)
(* failure comes in, the record is the same.                                 *)

\* The file is complete.  It may be empty, too large to decode, or not decode;
\* what EF.COM announces is known only if it does.
FileRead ==
    /\ pc = "blocks" /\ Succeeds
    /\ \/ Enter(Name, "Read", "None")
          /\ \/ Name = "COM" /\ hasCom' = TRUE /\ present' \in SUBSET ToSet(Groups)
             \/ UNCHANGED found
       \/ Enter(Name, "Read", "Parse") /\ UNCHANGED found
       \/ Enter(Name, "Failed", "BufferTooSmall") /\ UNCHANGED found
    /\ Counted /\ pc' = "next"
    /\ UNCHANGED <<reading, error, errorFile, file>>

\* A status word in the middle of the file, an odd form that is not understood:
\* the command was answered, and the session goes on unless the status word
\* itself says that it does not.
FileBreaksOff ==
    /\ pc = "blocks" /\ Succeeds
    /\ \E e \in {"Refused", "Unsupported", "Parse", "SecureMessaging"} :
          Enter(Name, "Failed", e) /\ Proceed(e)
    /\ Counted
    /\ UNCHANGED <<reading, found>>

ExchangeFails ==
    /\ pc = "blocks" /\ Fails
    /\ \E e \in SessionErrors : Enter(Name, "Failed", e) /\ Proceed(e)
    /\ Counted
    /\ UNCHANGED <<reading, found>>

FileStopped ==
    /\ pc = "blocks" /\ stop
    /\ Enter(Name, "Failed", "Cancelled") /\ Proceed("Cancelled") /\ Counted
    /\ UNCHANGED <<reading, found, slipped>>

(***************************************************************************)
(* From one file to the next.                                              *)
(***************************************************************************)
Announce == IF hasCom THEN present ELSE DefaultMask

NextIsSod ==
    /\ pc = "next" /\ Name = "COM"
    /\ filesTotal' = CountFiles(Announce) /\ present' = Announce
    /\ IF stop THEN End("Cancelled") /\ UNCHANGED file
       ELSE pc' = "file" /\ file' = 2 /\ UNCHANGED error
    /\ UNCHANGED <<reading, errorFile, entries, hasCom, slipped, filesDone>>

\* Groups that are not announced, need a certificate or were switched off are
\* passed over with a word in the record.
Passed(g) == g \notin present \/ g \in Eac \/ g \notin wanted
Verdict(g) == IF g \notin present THEN "Absent" ELSE "Skipped"

PassGroupsTogether ==
    /\ pc = "next" /\ Name # "COM" /\ ~stop /\ file < Len(Files)
    /\ Passed(Files[file + 1])
    /\ file' = file + 1 /\ UNCHANGED entries
    /\ UNCHANGED <<pc, reading, error, errorFile, found, slipped, bar>>
PassGroup ==
    /\ pc = "next" /\ Name # "COM" /\ ~stop /\ file < Len(Files)
    /\ LET g == Files[file + 1] IN
          /\ Passed(g)
          /\ Enter(g, Verdict(g), IF g \in present \cap Eac THEN "Unsupported" ELSE fileError[g])
    /\ file' = file + 1
    /\ UNCHANGED <<pc, reading, error, errorFile, found, slipped, bar>>

NextGroup ==
    /\ pc = "next" /\ Name # "COM" /\ ~stop /\ file < Len(Files)
    /\ ~Passed(Files[file + 1])
    /\ pc' = "file" /\ file' = file + 1
    /\ UNCHANGED <<reading, error, errorFile, entries, found, slipped, bar>>

ReadOver ==
    /\ pc = "next" /\ Name # "COM"
    /\ \/ stop /\ End("Cancelled")
       \/ ~stop /\ file = Len(Files) /\ End("None")
    /\ UNCHANGED <<reading, errorFile, entries, found, slipped, file, bar>>

Init ==
    /\ pc = "select" /\ stop = FALSE
    /\ wanted \in Selections /\ pin \in Pins
    /\ hasCan \in BOOLEAN /\ hasMrz \in BOOLEAN /\ (hasCan \/ hasMrz) /\ paceInfo = "none"
    /\ level = Announced /\ next = 1 /\ best = "NoAccessMethod" /\ attempted = FALSE
    /\ said = [d \in ToSet(Drivers) |-> "None"]
    /\ error = "None" /\ errorFile = "COM" /\ authenticated = FALSE
    /\ state = [f \in ToSet(Files) |-> "Absent"]
    /\ fileError = [f \in ToSet(Files) |-> "None"] /\ refused = {}
    /\ hasCom = FALSE /\ present = {} /\ slipped = FALSE
    /\ file = 1 /\ filesDone = 0 /\ filesTotal = 0

Opening ==
    \/ SelectApplication \/ ReadCardAccess \/ TryPinned \/ SkipDriver \/ TryDriver
    \/ NoDriverLeft \/ DriverFails \/ SelectAgain \/ DriverOpens \/ SelectInside
Reading ==
    \/ BeginFile \/ SelectFile \/ FileRefused \/ SelectFails \/ FileRead
    \/ FileBreaksOff \/ ExchangeFails \/ FileStopped
    \/ NextIsSod \/ PassGroup \/ NextGroup \/ ReadOver

Next == Stop \/ Opening \/ Reading

\* The NFC thread goes on, and every exchange comes back (IsoDep).
Spec == Init /\ [][Next]_vars /\ WF_vars(Opening \/ Reading)

(***************************************************************************)
(* Properties.                                                             *)
(***************************************************************************)
TypeOK ==
    /\ pc \in {"select", "cardAccess", "auth", "driver", "again", "inside", "file",
               "selecting", "blocks", "next", "ended"}
    /\ stop \in BOOLEAN /\ authenticated \in BOOLEAN /\ slipped \in BOOLEAN
    /\ paceInfo \in {"none", "unusable", "usable"}
    /\ level \in Unsupported .. Announced /\ next \in DOMAIN Drivers
    /\ best \in DriverErrors \cup Reasons /\ attempted \in BOOLEAN
    /\ said \in [ToSet(Drivers) -> DriverErrors \cup {"None"}]
    /\ error \in DriverErrors \cup Reasons \cup {"None", "NotEmrtd", "Cancelled"}
    /\ errorFile \in ToSet(Files)
    /\ state \in [ToSet(Files) -> {"Absent", "Reading", "Read", "Skipped", "Failed"}]
    /\ fileError \in [ToSet(Files) -> SessionErrors \cup
                      {"None", "Parse", "Unsupported", "Cancelled"}]
    /\ refused \subseteq ToSet(Files)
    /\ hasCom \in BOOLEAN /\ present \subseteq ToSet(Groups)
    /\ file \in DOMAIN Files
    /\ filesTotal \in 0 .. Len(Files) /\ filesDone \in 0 .. filesTotal

\* A session that dies under a file is what the read ends with, it ends there,
\* and the file named is the one it died under; and no read ends with such an
\* error otherwise.  docs/architecture.md:243-248 calls the contrary, a dead
\* session shown as a completed read, the worst defect the worker has had.
\* Except for a file that was refused: an answer 6987 or 6988 to its SELECT is
\* entered as SecureMessaging, but it was an answer, which verified, and the read
\* goes on (emrtd_worker.c:1252-1266).
Deaths == {"CardLost", "Transport", "SecureMessaging"}
DeathIsTheVerdict ==
    /\ \A f \in ToSet(Files) \ refused : state[f] = "Failed" /\ fileError[f] \in Deaths =>
          pc = "ended" /\ error = fileError[f] /\ errorFile = f
    /\ authenticated /\ error \in Deaths =>
          /\ state[errorFile] = "Failed" /\ fileError[errorFile] = error
          /\ errorFile \notin refused
          /\ \A i \in DOMAIN Files : i > file => state[Files[i]] = "Absent"

\* What the error screen says, "It stopped on", is never of a file that failed
\* for another reason (emrtd_scene_read_error.c:94-99).
BlamedFileFailedForIt ==
    pc = "ended" /\ error \notin {"None", "Cancelled"} /\ state[errorFile] = "Failed" =>
        fileError[errorFile] = error

\* A driver is run once in a read, for a chip counts failed attempts; one that
\* promises more has been run before it; a pinned method is the only one
\* (emrtd_worker.c:1556-1563).
EachDriverOnceBestFirst ==
    [][pc # "driver" /\ pc' = "driver" =>
          /\ said[Driver] = "None"
          /\ pin = "Auto" => \A d \in ToSet(Drivers) :
                                Score(d) > Score(Driver) => said[d] # "None"
          /\ pin # "Auto" => Driver = pin]_vars

\* The bar never goes back, though the number of files is an estimate until
\* EF.COM has been read (emrtd_worker.c:1853-1867), and never runs past its end.
BarNeverGoesBack == [][Percent <= Percent' /\ filesDone' <= filesTotal']_vars

\* A read that ends without an error has an entry for every group: read or failed
\* if it was announced and asked for, passed over with its reason otherwise.
Accounted(g) ==
    IF g \notin present THEN state[g] = "Absent" /\ fileError[g] = "None"
    ELSE IF g \in Eac THEN state[g] = "Skipped" /\ fileError[g] = "Unsupported"
    ELSE IF g \notin wanted THEN state[g] = "Skipped"
    ELSE state[g] \in {"Read", "Failed"} \/ fileError[g] = "Refused"
RecordIsComplete ==
    pc = "ended" /\ error = "None" =>
        /\ \A f \in ToSet(Files) : state[f] # "Reading"
        /\ \A g \in ToSet(Groups) : Accounted(g)

\* What the plan of a read looks at.
PlanPhase ==
    CASE pc = "select" -> "selecting"
      [] pc = "cardAccess" -> "cardAccess"
      [] pc \in {"auth", "driver", "again", "inside"} -> "authenticating"
      [] pc = "ended" -> "over"
      [] OTHER -> "files"

\* What a record's error is to those who do not ask for the cause.
VerdictOf(e) == IF e = "None" THEN "none" ELSE IF e = "Cancelled" THEN "stopped" ELSE "failed"

Plan == INSTANCE ReadPlan WITH
    phase <- PlanPhase, asked <- stop, authenticated <- authenticated,
    verdict <- VerdictOf(error)

\* Whatever the drivers and the files do, the read is the one its threads and
\* screens take it for: stage by stage, with a session before the first file,
\* ended once, "Cancelled" only when it was asked to stop (emrtd_worker.c:1744-1747).
ImplementsPlan == Plan!Spec

\* docs/protocol.md:169-170: "There is no way to resynchronise a counter that has
\* slipped: the session is dead and the read starts again."  Refuted: the read
\* goes on to the next file after Protocol, BufferTooSmall and a refusal.
DeadSessionIsNotUsed == slipped => pc \notin {"selecting", "blocks"}
=============================================================================
