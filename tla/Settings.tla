------------------------------- MODULE Settings -------------------------------
(***************************************************************************)
(* What the reader remembers: the credentials and the options in memory,   *)
(* the settings file on the card, and the screens that change either       *)
(* (emrtd_settings.c and the scenes Start, Document, its three inputs,     *)
(* ForgetConfirm, Options and DataGroups).                                 *)
(*                                                                         *)
(* The file is truncated and written again key by key.  A save is the      *)
(* sequence of its writes: any of them may fail, which ends the save, and  *)
(* the power may go between two of them.  The GUI thread does nothing else *)
(* meanwhile.  The card may be taken out and put back at any moment.  A    *)
(* value is a token: what its field accepts is in Values, what only a hand *)
(* edited file can hold is "malformed".                                    *)
(***************************************************************************)
EXTENDS Integers, SequencesExt

CONSTANTS
    Values,       \* values a user may type into a credential
    Methods,      \* access methods to choose from
    Rows,         \* rows of the options screen the user changes
    Switchable    \* data groups the user may switch

ASSUME SettingsAssumption ==
    /\ "none" \notin Values /\ "malformed" \notin Values
    /\ Methods \subseteq {"Auto", "Pace", "Bac"}
    /\ "Auto" \in Methods /\ Rows \subseteq {"Remember", "Method", "Export", "Trace"}
    /\ Switchable \cap {"Com", "Sod", "Dg3"} = {}

MrzFields == {"Number", "Birth", "Expiry"}
Fields    == MrzFields \cup {"Can"}
Stored    == Values \cup {"none"}

\* emrtd_file_default_mask: everything but the groups behind EAC, of which Dg3
\* stands for both.  The first two are not optional.
Always      == {"Com", "Sod"}
DefaultMask == Always \cup Switchable
Masks       == SUBSET (DefaultMask \cup {"Dg3"})

Defaults == [Remember |-> TRUE, Method |-> "Auto", Files |-> DefaultMask,
             Export |-> TRUE, Trace |-> FALSE]
Nothing  == [f \in Fields |-> "none"]

VARIABLES
    scene,     \* the scene on top, DateInput with its date_field, or "off"
    mem,       \* app->config.credentials
    opts,      \* remember_credentials and the rest of app->config
    left,      \* writes the save under way has still to make
    told,      \* what the screen after Forget says
    cardIn,    \* the card is there
    header,    \* the settings file: its header,
    entries,   \* and a value for each key that is in it
    \* history
    gone,      \* credentials forgotten with the card in, and not typed since
    kept,      \* what the last save that ended had to keep, {} after one that failed
    fresh      \* the file has been loaded, and nothing done since

config  == <<mem, opts>>
file    == <<header, entries>>
history == <<gone, kept, fresh>>
vars    == <<scene, config, left, told, cardIn, file, history>>

(***************************************************************************)
(* The file.                                                               *)
(***************************************************************************)
OptionKeys == DOMAIN Defaults
NoEntries  == [k \in {} |-> "none"]
Holds(f)   == f \in DOMAIN entries
Removed    == header' = "no file" /\ entries' = NoEntries
NamesNobody == \A f \in Fields : ~Holds(f)

\* The writes of emrtd_settings_save in order, the opening of the file first.  Only
\* credentials that exist are written, and only if they are to be remembered.
InOrder ==
    <<"Open", "Header", "Number", "Birth", "Expiry", "Can", "Remember", "Method",
      "Files", "Export", "Trace">>
WritesAlways(m, o) == {k \in ToSet(InOrder) : k \in Fields => m[k] # "none"}
Writes(m, o) == {k \in ToSet(InOrder) : k \in Fields => o.Remember /\ m[k] # "none"}

With(keys, k) ==
    [x \in DOMAIN keys \cup {k} |->
        IF x # k THEN keys[x] ELSE IF k \in Fields THEN mem[k] ELSE opts[k]]

\* emrtd_settings_load, once the header is found to be of this version: each key
\* on its own, a credential that is not of the expected shape dropped, the mask
\* cut down to what the reader is willing to ask for.
LoadedCredentials(keys) ==
    [f \in Fields |->
        IF f \in DOMAIN keys /\ keys[f] \in Values THEN keys[f] ELSE "none"]

LoadedMask(mask) == (mask \cap DefaultMask) \cup Always

LoadedOptionsOnByDefault(keys) ==
    [k \in OptionKeys |->
        IF k \notin DOMAIN keys \/ k = "Remember" THEN Defaults[k]
        ELSE IF k = "Files" THEN LoadedMask(keys[k])
        ELSE keys[k]]
LoadedOptions(keys) ==
    [k \in OptionKeys |->
        IF k \notin DOMAIN keys THEN Defaults[k]
        ELSE IF k = "Files" THEN LoadedMask(keys[k])
        ELSE keys[k]]

(***************************************************************************)
(* Starting and stopping.                                                  *)
(***************************************************************************)
Readable == cardIn /\ header = "this version"

\* emrtd_alloc and the first scene.  A file of another version is removed, if the
\* card lets it.
Launch ==
    /\ scene = "off" /\ scene' = "start"
    /\ mem' = IF Readable THEN LoadedCredentials(entries) ELSE Nothing
    /\ opts' = IF Readable THEN LoadedOptions(entries) ELSE Defaults
    /\ fresh' = cardIn
    /\ \/ UNCHANGED file
       \/ cardIn /\ header = "other version" /\ Removed
    /\ UNCHANGED <<left, told, cardIn, gone, kept>>

Off ==
    /\ scene' = "off" /\ mem' = Nothing /\ opts' = Defaults /\ left' = {}
    /\ told' = "nothing"

Busy == left # {}
At(s) == scene = s /\ ~Busy

\* Back out of the start screen.
Exit ==
    /\ At("start") /\ Off
    /\ UNCHANGED <<cardIn, file, gone, kept>> /\ fresh' = FALSE

\* Power lost: what has been written stays.
PowerLost ==
    /\ scene # "off" /\ Off
    /\ kept' = (IF Busy THEN {} ELSE kept) /\ fresh' = FALSE
    /\ UNCHANGED <<cardIn, file, gone>>

TakeCardOut ==
    /\ cardIn /\ cardIn' = FALSE
    /\ UNCHANGED <<scene, config, left, told, file, history>>

PutCardBack ==
    /\ ~cardIn /\ cardIn' = TRUE
    /\ UNCHANGED <<scene, config, left, told, file, history>>

(***************************************************************************)
(* emrtd_settings_save.                                                    *)
(***************************************************************************)
Save(m, o) == left' = Writes(m, o)

\* The next of the writes that are left.
First(k) ==
    \E i \in DOMAIN InOrder :
        InOrder[i] = k /\ k \in left /\ \A j \in 1 .. i - 1 : InOrder[j] \notin left

\* What a complete save leaves to the next run.
ToKeep == [mem |-> IF opts.Remember THEN mem ELSE Nothing, opts |-> opts]

saving == <<scene, config, told, cardIn, gone>>

\* The last write is that of the reader's version, which nobody reads.
SaveWrite ==
    /\ Busy /\ cardIn
    /\ \E k \in left :
          /\ First(k) /\ left' = left \ {k}
          /\ IF k = "Open" THEN header' = "none" /\ entries' = NoEntries
             ELSE IF k = "Header" THEN header' = "this version" /\ UNCHANGED entries
             ELSE entries' = With(entries, k) /\ UNCHANGED header
    /\ kept' = IF left' = {} THEN {ToKeep} ELSE {}
    /\ UNCHANGED <<saving, fresh>>

SaveFails ==
    /\ Busy /\ left' = {} /\ kept' = {}
    /\ UNCHANGED <<saving, file, fresh>>

\* A signal from outside stops the dispatcher: the scene on top still exits, and
\* two of them save on the way out.  The wipe and the end of the process follow
\* the save, with no scene left to act in between.
Quit ==
    /\ scene \notin {"off", "stopping"} /\ ~Busy /\ fresh' = FALSE
    /\ IF scene \in {"options", "groups"}
       THEN /\ scene' = "stopping" /\ Save(mem, opts)
            /\ UNCHANGED <<config, told>>
       ELSE Off
    /\ UNCHANGED <<cardIn, file, gone, kept>>

Stopped ==
    /\ At("stopping") /\ Off
    /\ UNCHANGED <<cardIn, file, history>>

(***************************************************************************)
(* The screens.  Each handler that changes a value saves before it leaves. *)
(***************************************************************************)
\* A press that only moves between screens.
Go(from, to) ==
    /\ At(from) /\ scene' = to /\ told' = "nothing" /\ fresh' = FALSE
    /\ UNCHANGED <<config, left, cardIn, file, gone, kept>>

\* emrtd_scene_start_credentials_ready
CanReady == opts.Method # "Bac" /\ mem.Can # "none"
ReadyAnyMethod == mem.Can # "none" \/ \A f \in MrzFields : mem[f] # "none"
Ready == CanReady \/ \A f \in MrzFields : mem[f] # "none"

PressRead == Go("start", IF Ready THEN "read" ELSE "document")

OpenInput ==
    \E to \in {"number", "birth", "expiry", "can", "confirm"} : Go("document", to)

Navigate ==
    \/ Go("start", "document") \/ Go("document", "start") \/ Go("read", "start")
    \/ \E from \in {"number", "birth", "expiry", "can", "confirm", "told"} :
          Go(from, "document")
    \/ Go("start", "options")

Edit(f, v) ==
    /\ mem' = [mem EXCEPT ![f] = v] /\ Save([mem EXCEPT ![f] = v], opts)
    /\ gone' = gone \ {<<f, v>>} /\ fresh' = FALSE
    /\ UNCHANGED <<opts, told, cardIn, file, kept>>

\* The input screens: what they accept goes to the field, and the file is saved.
Enter(input, f) == At(input) /\ scene' = "document" /\ \E v \in Values : Edit(f, v)
EnterNumber == Enter("number", "Number")
EnterDate   == Enter("birth", "Birth") \/ Enter("expiry", "Expiry")
EnterCan    == Enter("can", "Can")
ClearCan    == At("document") /\ mem.Can # "none" /\ UNCHANGED scene /\ Edit("Can", "none")

\* emrtd_settings_delete and the save after it.  A file that is not seen counts
\* as removed.
Forgets(wiped) ==
    /\ At("confirm") /\ scene' = "told"
    /\ mem' = wiped /\ Save(wiped, opts) /\ fresh' = FALSE
    /\ \/ /\ IF cardIn THEN Removed /\ gone' = Fields \X Values
             ELSE UNCHANGED <<file, gone>>
          /\ told' = "forgotten"
       \/ /\ cardIn /\ header # "no file"
          /\ told' = "not deleted" /\ UNCHANGED <<file, gone>>
    /\ kept' = {} /\ UNCHANGED <<opts, cardIn>>
ForgetFileOnly == Forgets(mem)
Forget == Forgets(Nothing)

\* The options change in memory as their rows do; leaving the screen saves.
SetOption(k, v) ==
    /\ opts' = [opts EXCEPT ![k] = v] /\ fresh' = FALSE
    /\ UNCHANGED <<scene, mem, left, told, cardIn, file, gone, kept>>

ChangeRow ==
    /\ At("options")
    /\ \/ \E k \in Rows \ {"Method"} : SetOption(k, ~opts[k])
       \/ "Method" \in Rows /\ \E m \in Methods \ {opts.Method} : SetOption("Method", m)

SetGroup(g, selected) ==
    SetOption("Files", IF selected THEN opts.Files \cup {g} ELSE opts.Files \ {g})

\* Left, right and the centre key all turn the row they are on.
ToggleGroup ==
    /\ At("groups")
    /\ \E g \in Switchable : SetGroup(g, g \notin opts.Files)

LeaveList ==
    /\ \/ At("options") /\ scene' \in {"start", "groups"}
       \/ At("groups") /\ scene' = "options"
    /\ Save(mem, opts) /\ fresh' = FALSE
    /\ UNCHANGED <<config, told, cardIn, file, gone, kept>>

(***************************************************************************)
(* No file, one of another version that names a holder, and one of this    *)
(* version edited by hand.                                                 *)
(***************************************************************************)
OtherVersion == [f \in Fields |-> CHOOSE v \in Values : TRUE]
HandEdited ==
    [k \in Fields \cup {"Files"} |->
        IF k = "Files" THEN {"Dg3"}
        ELSE IF k \in {"Number", "Can"} THEN "malformed"
        ELSE CHOOSE v \in Values : TRUE]

Init ==
    /\ scene = "off" /\ mem = Nothing /\ opts = Defaults
    /\ left = {} /\ told = "nothing" /\ cardIn = TRUE
    /\ \/ header = "no file" /\ entries = NoEntries
       \/ header = "other version" /\ entries = OtherVersion
       \/ header = "this version" /\ entries = HandEdited
    /\ gone = {} /\ kept = {} /\ fresh = FALSE

User ==
    \/ PressRead \/ OpenInput \/ Navigate
    \/ EnterNumber \/ EnterDate \/ EnterCan \/ ClearCan \/ Forget
    \/ ChangeRow \/ ToggleGroup \/ LeaveList

Next ==
    \/ Launch \/ Exit \/ Quit \/ Stopped \/ PowerLost
    \/ TakeCardOut \/ PutCardBack \/ SaveWrite \/ SaveFails \/ User

Spec == Init /\ [][Next]_vars

(***************************************************************************)
(* Properties.                                                             *)
(***************************************************************************)
Scenes == {"off", "stopping", "start", "document", "number", "birth", "expiry", "can",
           "confirm", "told", "options", "groups", "read"}

OptionsType ==
    [Remember : BOOLEAN, Method : Methods, Files : Masks, Export : BOOLEAN, Trace : BOOLEAN]

TypeOK ==
    /\ scene \in Scenes /\ mem \in [Fields -> Stored] /\ opts \in OptionsType
    /\ left \subseteq ToSet(InOrder)
    /\ told \in {"nothing", "forgotten", "not deleted"} /\ cardIn \in BOOLEAN
    /\ header \in {"no file", "none", "this version", "other version"}
    /\ gone \subseteq Fields \X Values /\ fresh \in BOOLEAN

\* What was forgotten with the card in is, once the screen has said so, neither in
\* memory nor in the file, then or ever after, until it is typed again
\* (emrtd_settings.c:312-328).
ForgottenStaysGone ==
    \A f \in Fields, v \in Values :
        <<f, v>> \in gone => mem[f] # v /\ (Holds(f) => entries[f] # v)

\* 'a failure there has to be said plainly rather than dressed up as success'
\* (emrtd_scene_forget_confirm.c:84-86): the screen says the details are off the
\* card only when they are.
ForgottenIsTrue ==
    told = "forgotten" /\ scene = "told" => NamesNobody

\* After a save that ended, and whatever happened since, the next run starts with
\* exactly what that save was to keep (emrtd_settings.c:109-215).
NextRunStartsFromTheLastSave ==
    fresh => \A k \in kept : mem = k.mem /\ opts = k.opts

\* Once a save has ended with the switch off, the file names nobody
\* (docs/security.md:39-40).
OffNamesNobody ==
    \A k \in kept : ~k.opts.Remember => NamesNobody

\* Whatever the file said, a read is started only with a key that the method
\* chosen can use (emrtd_scene_start.c:23-34).
ReadHasAKey ==
    scene = "read" =>
        \/ \A f \in MrzFields : mem[f] \in Values
        \/ opts.Method # "Bac" /\ mem.Can \in Values

\* Whatever the file said, the reader asks for no group behind EAC and always for
\* the two files it needs (emrtd_settings.c:183-194).
MaskWithinReach == Always \subseteq opts.Files /\ opts.Files \subseteq DefaultMask
=============================================================================
