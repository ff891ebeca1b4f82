--------------------------- MODULE SettingsProofs ---------------------------
(***************************************************************************)
(* Proofs about what the reader remembers.                                 *)
(*                                                                         *)
(* The settings file is rewritten key by key, so between two writes it is  *)
(* neither the old file nor the new one.  SaveInv says what it is then:    *)
(* the keys written so far, with the values of the memory, which nothing   *)
(* changes before the save has ended.  From it, once the last write is     *)
(* done, KeptInv: what a load would make of the file is what the save was  *)
(* to keep, and the file names nobody if it was to name nobody.            *)
(***************************************************************************)
EXTENDS Settings, TLAPS

FileInv ==
    /\ DOMAIN entries \subseteq Fields \cup OptionKeys
    /\ \A k \in {"Remember", "Export", "Trace"} : Holds(k) => entries[k] \in BOOLEAN
    /\ Holds("Method") => entries["Method"] \in Methods

\* What the key k is to hold.
Current(k) == IF k \in Fields THEN mem[k] ELSE opts[k]

SaveInv ==
    /\ scene = "stopping" => ~fresh
    /\ Busy =>
          /\ left \subseteq Writes(mem, opts) /\ ~fresh /\ scene # "off"
          /\ "Open" \in left => left = Writes(mem, opts)
          /\ "Open" \notin left =>
                /\ kept = {}
                /\ DOMAIN entries = (Writes(mem, opts) \ left) \ {"Open", "Header"}
                /\ \A k \in DOMAIN entries : entries[k] = Current(k)
                /\ "Header" \notin left => header = "this version"

\* What a load makes of the file is what the last save was to keep.
KeptInv ==
    \A k \in kept :
        /\ header = "this version"
        /\ LoadedCredentials(entries) = k.mem /\ LoadedOptions(entries) = k.opts
        /\ ~k.opts.Remember => NamesNobody

IInv ==
    /\ TypeOK /\ FileInv /\ SaveInv /\ KeptInv
    /\ ForgottenStaysGone /\ NextRunStartsFromTheLastSave /\ ReadHasAKey /\ MaskWithinReach

(***************************************************************************)
(* Operators.                                                              *)
(***************************************************************************)
LEMMA Order ==
    /\ ToSet(InOrder) = {"Open", "Header"} \cup Fields \cup OptionKeys
    /\ OptionKeys = {"Remember", "Method", "Files", "Export", "Trace"}
    /\ \A k : First(k) /\ "Open" \in left => k = "Open"
  <1>1. OptionKeys = {"Remember", "Method", "Files", "Export", "Trace"}
    BY DEF OptionKeys, Defaults
  <1>2. ToSet(InOrder) = {"Open", "Header"} \cup Fields \cup OptionKeys
    BY <1>1 DEF InOrder, ToSet, Fields, MrzFields
  <1>3. ASSUME NEW k, First(k), "Open" \in left
        PROVE  k = "Open"
    <2>1. PICK i \in DOMAIN InOrder :
             InOrder[i] = k /\ \A j \in 1 .. i - 1 : InOrder[j] \notin left
      BY <1>3 DEF First
    <2>2. InOrder[1] = "Open" /\ i \in 1 .. 11
      BY DEF InOrder
    <2>3. ~(1 \in 1 .. i - 1)
      BY <1>3, <2>1, <2>2
    <2>4. i = 1
      BY <2>2, <2>3
    <2> QED
      BY <2>1, <2>2, <2>4
  <1> QED
    BY <1>1, <1>2, <1>3

\* What the file and the memory may hold for the options.
LEMMA OptionsStay ==
    ASSUME SettingsAssumption, opts \in OptionsType, NEW k \in OptionKeys, NEW v,
           k \in {"Remember", "Export", "Trace"} => v \in BOOLEAN,
           k = "Method" => v \in Methods, k = "Files" => v \in Masks
    PROVE  [opts EXCEPT ![k] = v] \in OptionsType
  BY Order DEF OptionsType

LEMMA DefaultsFit == SettingsAssumption => Defaults \in OptionsType /\ Nothing \in [Fields -> Stored]
  BY DEF SettingsAssumption, Defaults, OptionsType, Masks, DefaultMask, Always, Nothing, Stored

LEMMA LoadedFit ==
    ASSUME SettingsAssumption, FileInv
    PROVE  /\ LoadedCredentials(entries) \in [Fields -> Stored]
           /\ LoadedOptions(entries) \in OptionsType
           /\ Always \subseteq LoadedOptions(entries).Files
           /\ LoadedOptions(entries).Files \subseteq DefaultMask
  <1>1. LoadedCredentials(entries) \in [Fields -> Stored]
    BY DEF LoadedCredentials, Stored
  <1>2. ASSUME NEW mask PROVE Always \subseteq LoadedMask(mask) /\ LoadedMask(mask) \subseteq DefaultMask
    BY DEF LoadedMask, DefaultMask
  <1>3. LoadedOptions(entries) \in OptionsType
    BY <1>2, Order, DefaultsFit DEF LoadedOptions, OptionsType, FileInv, Holds, Defaults, Masks
  <1>4. /\ Always \subseteq LoadedOptions(entries).Files
        /\ LoadedOptions(entries).Files \subseteq DefaultMask
    BY <1>2, Order DEF LoadedOptions, Defaults, DefaultMask
  <1> QED
    BY <1>1, <1>3, <1>4

(***************************************************************************)
(* The initial states.                                                     *)
(***************************************************************************)
LEMMA InvInit == SettingsAssumption /\ Init => IInv
  <1> SUFFICES ASSUME SettingsAssumption, Init PROVE IInv
    OBVIOUS
  <1>1. MaskWithinReach /\ TypeOK
    BY DefaultsFit, Order DEF Init, TypeOK, Scenes, MaskWithinReach, Defaults, DefaultMask
  <1>2. FileInv
    BY Order DEF FileInv, Holds, Init, NoEntries, OtherVersion, HandEdited, Fields, MrzFields
  <1> QED
    BY <1>1, <1>2
       DEF IInv, Init, SaveInv, Busy, KeptInv, ForgottenStaysGone,
           NextRunStartsFromTheLastSave, ReadHasAKey

(***************************************************************************)
(* The types.                                                              *)
(***************************************************************************)
LEMMA TypeStep ==
    ASSUME SettingsAssumption, TypeOK, FileInv, MaskWithinReach, Next
    PROVE  TypeOK'
  <1> USE DEF TypeOK
  <1>1. CASE Launch
    BY <1>1, LoadedFit, DefaultsFit DEF Launch, Scenes, Removed, file
  <1>2. CASE Exit \/ PowerLost \/ Stopped
    BY <1>2, DefaultsFit DEF Exit, PowerLost, Stopped, Off, Scenes, history, file
  <1>3. CASE Quit
    BY <1>3, DefaultsFit DEF Quit, Off, Save, Writes, Scenes, config, file
  <1>4. CASE TakeCardOut \/ PutCardBack
    BY <1>4 DEF TakeCardOut, PutCardBack, config, history, file
  <1>5. CASE SaveWrite
    BY <1>5 DEF SaveWrite, saving, config
  <1>6. CASE SaveFails
    BY <1>6 DEF SaveFails, saving, config, file
  <1>7. CASE PressRead \/ OpenInput \/ Navigate
    BY <1>7 DEF PressRead, OpenInput, Navigate, Go, Scenes, config, file
  <1>8. ASSUME NEW f \in Fields, NEW v \in Stored, Edit(f, v), scene' \in Scenes
        PROVE  TypeOK'
    BY <1>8 DEF Edit, Save, Writes, file
  <1>9. CASE EnterNumber \/ EnterDate \/ EnterCan \/ ClearCan
    BY <1>8, <1>9
       DEF EnterNumber, EnterDate, EnterCan, ClearCan, Enter, Scenes, Stored, Fields, MrzFields
  <1>10. CASE Forget
    BY <1>10, DefaultsFit DEF Forget, Forgets, Save, Writes, Scenes, Removed, file
  <1>11. ASSUME NEW k \in OptionKeys, NEW v, SetOption(k, v),
                k \in {"Remember", "Export", "Trace"} => v \in BOOLEAN,
                k = "Method" => v \in Methods, k = "Files" => v \in Masks
         PROVE  TypeOK'
    BY <1>11, OptionsStay DEF SetOption, file
  <1>12. CASE ChangeRow
    BY <1>11, <1>12, Order DEF ChangeRow, SettingsAssumption, OptionsType
  <1>13. CASE ToggleGroup
    <2>1. PICK g \in Switchable : SetGroup(g, g \notin opts.Files)
      BY <1>13 DEF ToggleGroup
    <2>2. opts.Files \cup {g} \in Masks /\ opts.Files \ {g} \in Masks
      BY <2>1 DEF Masks, DefaultMask, OptionsType
    <2> QED
      BY <1>11, <2>1, <2>2, Order DEF SetGroup
  <1>14. CASE LeaveList
    BY <1>14 DEF LeaveList, Save, Writes, Scenes, config, file
  <1> QED
    BY <1>1, <1>2, <1>3, <1>4, <1>5, <1>6, <1>7, <1>9, <1>10, <1>12, <1>13, <1>14
       DEF Next, User

LEMMA MaskStep ==
    ASSUME SettingsAssumption, TypeOK, FileInv, MaskWithinReach, Next
    PROVE  MaskWithinReach'
  <1> USE DEF MaskWithinReach
  <1>1. CASE Launch
    <2>1. Always \subseteq Defaults.Files /\ Defaults.Files \subseteq DefaultMask
      BY DEF Defaults, DefaultMask
    <2> QED
      BY <1>1, <2>1, LoadedFit DEF Launch
  <1>2. CASE Off
    BY <1>2 DEF Off, Defaults, DefaultMask
  <1>3. CASE ChangeRow
    <2>1. PICK k \in Rows : \E v : SetOption(k, v)
      BY <1>3 DEF ChangeRow
    <2>2. k # "Files" /\ opts'.Files = opts.Files
      BY <2>1, Order DEF SetOption, TypeOK, OptionsType, SettingsAssumption
    <2> QED
      BY <2>2
  <1>4. CASE ToggleGroup
    <2>1. PICK g \in Switchable :
             \E files \in {opts.Files \cup {g}, opts.Files \ {g}} : SetOption("Files", files)
      BY <1>4 DEF ToggleGroup, SetGroup
    <2>2. opts'.Files \in {opts.Files \cup {g}, opts.Files \ {g}}
      BY <2>1 DEF SetOption, TypeOK, OptionsType
    <2>3. g \in DefaultMask /\ g \notin Always
      BY DEF DefaultMask, Always, SettingsAssumption
    <2> QED
      BY <2>2, <2>3
  <1>5. CASE UNCHANGED opts
    BY <1>5
  <1>6. Launch \/ Off \/ ChangeRow \/ ToggleGroup \/ UNCHANGED opts
    BY DEF Next, User, Exit, Quit, Stopped, PowerLost, TakeCardOut, PutCardBack,
           SaveWrite, SaveFails, saving, config, PressRead, OpenInput, Navigate, Go,
           EnterNumber, EnterDate, EnterCan, ClearCan, Enter, Edit, Forget, Forgets,
           LeaveList
  <1> QED
    BY <1>1, <1>2, <1>3, <1>4, <1>5, <1>6

LEMMA ReadStep ==
    ASSUME SettingsAssumption, TypeOK, FileInv, ReadHasAKey, Next
    PROVE  ReadHasAKey'
  <1>1. CASE PressRead
    BY <1>1 DEF PressRead, Go, Ready, CanReady, TypeOK, Stored, Fields, MrzFields, config, ReadHasAKey
  <1>2. CASE UNCHANGED <<scene, mem, opts>>
    BY <1>2 DEF ReadHasAKey
  <1>3. CASE scene' # "read"
    BY <1>3 DEF ReadHasAKey
  <1>4. PressRead \/ UNCHANGED <<scene, mem, opts>> \/ scene' # "read"
    BY DEF Next, User, Launch, Off, Exit, Quit, Stopped, PowerLost, TakeCardOut, PutCardBack,
           SaveWrite, SaveFails, saving, config, OpenInput, Navigate, Go, At,
           EnterNumber, EnterDate, EnterCan, ClearCan, Enter, Edit, Forget, Forgets,
           ChangeRow, ToggleGroup, SetGroup, SetOption, LeaveList
  <1> QED
    BY <1>1, <1>2, <1>3, <1>4

(***************************************************************************)
(* The file, and the save that rewrites it.                                *)
(***************************************************************************)
LEMMA FileStep ==
    ASSUME SettingsAssumption, TypeOK, FileInv, Next
    PROVE  FileInv'
  <1>1. CASE UNCHANGED entries
    BY <1>1 DEF FileInv, Holds
  <1>2. CASE entries' = NoEntries
    BY <1>2 DEF FileInv, Holds, NoEntries
  <1>3. ASSUME NEW k \in Fields \cup OptionKeys, entries' = With(entries, k)
        PROVE  FileInv'
    <2>0. /\ DOMAIN entries' = DOMAIN entries \cup {k}
          /\ \A x \in DOMAIN entries' : entries'[x] = IF x = k THEN Current(k) ELSE entries[x]
      BY <1>3 DEF With, Current
    <2>1. DOMAIN entries' \subseteq Fields \cup OptionKeys
      BY <2>0 DEF FileInv
    <2>2. ASSUME NEW x \in {"Remember", "Export", "Trace"}, Holds(x)'
          PROVE  entries'[x] \in BOOLEAN
      <3>1. CASE x = k
        BY <3>1, <2>2, <2>0, Order
           DEF Holds, Current, Fields, MrzFields, TypeOK, OptionsType
      <3>2. CASE x # k
        BY <3>2, <2>2, <2>0 DEF Holds, FileInv
      <3> QED
        BY <3>1, <3>2
    <2>3. ASSUME Holds("Method")' PROVE entries'["Method"] \in Methods
      <3>1. CASE "Method" = k
        BY <3>1, <2>3, <2>0, Order
           DEF Holds, Current, Fields, MrzFields, TypeOK, OptionsType
      <3>2. CASE "Method" # k
        BY <3>2, <2>3, <2>0 DEF Holds, FileInv
      <3> QED
        BY <3>1, <3>2
    <2> QED
      BY <2>1, <2>2, <2>3 DEF FileInv
  <1>4. CASE SaveWrite
    <2>1. PICK k \in left :
             \/ entries' = NoEntries \/ UNCHANGED entries
             \/ k \notin {"Open", "Header"} /\ entries' = With(entries, k)
      BY <1>4 DEF SaveWrite
    <2>2. k \in {"Open", "Header"} \cup Fields \cup OptionKeys
      BY Order DEF TypeOK
    <2> QED
      BY <1>1, <1>2, <1>3, <2>1, <2>2
  <1>5. UNCHANGED entries \/ entries' = NoEntries \/ SaveWrite
    BY DEF Next, User, Launch, Off, Exit, Quit, Stopped, PowerLost, TakeCardOut, PutCardBack,
           SaveFails, PressRead, OpenInput, Navigate, Go, file, Removed,
           EnterNumber, EnterDate, EnterCan, ClearCan, Enter, Edit, Forget, Forgets,
           ChangeRow, ToggleGroup, SetGroup, SetOption, LeaveList
  <1> QED
    BY <1>1, <1>2, <1>4, <1>5

LEMMA WritesAllOf ==
    ASSUME NEW m, NEW o
    PROVE  {"Open", "Header"} \cup OptionKeys \subseteq Writes(m, o)
  BY Order DEF Writes, Fields, MrzFields

LEMMA SaveStep ==
    ASSUME SettingsAssumption, TypeOK, SaveInv, Next
    PROVE  SaveInv'
  <1>1. ASSUME left' = Writes(mem', opts'), fresh' = FALSE, scene' # "off"
        PROVE  SaveInv'
    <2>1. "Open" \in left'
      BY <1>1, WritesAllOf
    <2> QED
      BY <1>1, <2>1 DEF SaveInv
  <1>2. CASE left' = {} /\ (scene' = "stopping" => ~fresh')
    BY <1>2 DEF SaveInv, Busy
  <1>3. ASSUME left' = left,
               Busy \/ scene' = "stopping" =>
                  UNCHANGED <<scene, mem, opts, entries, header, kept, fresh>>
        PROVE  SaveInv'
    <2>1. CASE Busy \/ scene' = "stopping"
      <3>1. /\ UNCHANGED <<scene, mem, opts, left, entries, header, kept, fresh>>
            /\ Writes(mem, opts)' = Writes(mem, opts)
            /\ \A k : Current(k)' = Current(k)
        BY <1>3, <2>1 DEF Writes, Current
      <3> QED
        BY <3>1 DEF SaveInv, Busy
    <2>2. CASE ~Busy /\ scene' # "stopping"
      BY <1>3, <2>2 DEF SaveInv, Busy
    <2> QED
      BY <2>1, <2>2
  <1>4. CASE SaveWrite
    <2>1. PICK k \in left :
             /\ First(k) /\ left' = left \ {k}
             /\ IF k = "Open" THEN header' = "none" /\ entries' = NoEntries
                ELSE IF k = "Header" THEN header' = "this version" /\ UNCHANGED entries
                ELSE entries' = With(entries, k) /\ UNCHANGED header
      BY <1>4 DEF SaveWrite
    <2>2. UNCHANGED <<scene, mem, opts, fresh>> /\ Busy
      BY <1>4 DEF SaveWrite, saving, config
    <2>3. Writes(mem, opts)' = Writes(mem, opts)
      BY <2>2 DEF Writes
    <2>4. "Open" \notin left'
      BY <2>1, Order
    <2>5. left' \subseteq Writes(mem, opts) /\ ~fresh /\ scene \notin {"off"}
      BY <2>1, <2>2 DEF SaveInv
    <2>6. kept' = {} \/ left' = {}
      BY <1>4 DEF SaveWrite
    <2>7. CASE "Open" \in left
      <3>1. k = "Open" /\ left = Writes(mem, opts)
        BY <2>1, <2>2, <2>7, Order DEF SaveInv
      <3>2. (Writes(mem, opts) \ left') \ {"Open", "Header"} = {}
        BY <2>1, <3>1
      <3>3. entries' = NoEntries /\ DOMAIN entries' = {}
        BY <2>1, <3>1 DEF NoEntries
      <3>4. "Header" \in left'
        BY <2>1, <3>1, WritesAllOf
      <3> QED
        BY <2>2, <2>3, <2>4, <2>5, <2>6, <3>2, <3>3, <3>4 DEF SaveInv
    <2>8. CASE "Open" \notin left
      <3>1. /\ DOMAIN entries = (Writes(mem, opts) \ left) \ {"Open", "Header"}
            /\ \A x \in DOMAIN entries : entries[x] = Current(x)
            /\ "Header" \notin left => header = "this version"
        BY <2>2, <2>8 DEF SaveInv
      <3>2. /\ DOMAIN entries' = (Writes(mem, opts) \ left') \ {"Open", "Header"}
            /\ \A x \in DOMAIN entries' : entries'[x] = Current(x)
            /\ "Header" \notin left' => header' = "this version"
        <4>1. CASE k = "Header"
          BY <2>1, <3>1, <4>1
        <4>2. CASE k # "Header"
          <5>1. k # "Open" /\ k \in Writes(mem, opts)
            BY <2>1, <2>2, <2>8 DEF SaveInv
          <5>2. /\ DOMAIN entries' = DOMAIN entries \cup {k}
                /\ \A x \in DOMAIN entries' :
                      entries'[x] = IF x = k THEN Current(k) ELSE entries[x]
            BY <2>1, <4>2, <5>1 DEF With, Current
          <5> QED
            BY <2>1, <3>1, <4>2, <5>1, <5>2
        <4> QED
          BY <4>1, <4>2
      <3>3. \A x \in DOMAIN entries' : entries'[x] = Current(x)'
        BY <3>2, <2>2 DEF Current
      <3> QED
        BY <2>2, <2>3, <2>4, <2>5, <2>6, <3>2, <3>3 DEF SaveInv, Busy
    <2> QED
      BY <2>7, <2>8
  <1>5. \/ left' = Writes(mem', opts') /\ fresh' = FALSE /\ scene' # "off"
        \/ left' = {} /\ (scene' = "stopping" => ~fresh')
        \/ /\ left' = left
           /\ Busy \/ scene' = "stopping" =>
                 UNCHANGED <<scene, mem, opts, entries, header, kept, fresh>>
        \/ SaveWrite
    <2>1. CASE TakeCardOut \/ PutCardBack
      BY <2>1 DEF TakeCardOut, PutCardBack, file, config, history
    <2>2. CASE Launch \/ Exit \/ Stopped \/ PowerLost \/ SaveFails
      BY <2>2 DEF Launch, Exit, Stopped, PowerLost, SaveFails, Off, saving, config, SaveInv
    <2>3. CASE Quit
      BY <2>3 DEF Quit, Off, Save, config
    <2>4. CASE PressRead \/ OpenInput \/ Navigate
      BY <2>4 DEF PressRead, OpenInput, Navigate, Go, At
    <2>5. CASE EnterNumber \/ EnterDate \/ EnterCan \/ ClearCan
      BY <2>5 DEF EnterNumber, EnterDate, EnterCan, ClearCan, Enter, Edit, Save, At
    <2>6. CASE Forget
      BY <2>6 DEF Forget, Forgets, Save
    <2>7. CASE ChangeRow \/ ToggleGroup
      BY <2>7 DEF ChangeRow, ToggleGroup, SetGroup, SetOption, At
    <2>8. CASE LeaveList
      BY <2>8 DEF LeaveList, Save, config
    <2> QED
      BY <2>1, <2>2, <2>3, <2>4, <2>5, <2>6, <2>7, <2>8 DEF Next, User
  <1> QED
    BY <1>1, <1>2, <1>3, <1>4, <1>5

\* What a load makes of a file that a save has written to the end.
LEMMA WholeSave ==
    ASSUME SettingsAssumption, TypeOK, MaskWithinReach, NEW e,
           DOMAIN e = Writes(mem, opts) \ {"Open", "Header"},
           \A k \in DOMAIN e : e[k] = Current(k)
    PROVE  /\ LoadedCredentials(e) = ToKeep.mem /\ LoadedOptions(e) = ToKeep.opts
           /\ ~ToKeep.opts.Remember => \A f \in Fields : f \notin DOMAIN e
  <1>1. \A f \in Fields : f \in DOMAIN e <=> opts.Remember /\ mem[f] # "none"
    BY Order DEF Writes, Fields, MrzFields
  <1>2. \A k \in OptionKeys : k \in DOMAIN e /\ k \notin Fields
    BY Order DEF Writes, Fields, MrzFields
  <1>3. ToKeep.mem = (IF opts.Remember THEN mem ELSE Nothing) /\ ToKeep.opts = opts
    BY DEF ToKeep
  <1>4. LoadedCredentials(e) = ToKeep.mem
    <2>1. CASE opts.Remember
      <3>1. mem = [f \in Fields |-> mem[f]]
        BY DEF TypeOK
      <3>2. ASSUME NEW f \in Fields
            PROVE  mem[f] = IF f \in DOMAIN e /\ e[f] \in Values THEN e[f] ELSE "none"
        BY <1>1, <2>1 DEF TypeOK, Stored, Current, SettingsAssumption
      <3> QED
        BY <1>3, <2>1, <3>1, <3>2 DEF LoadedCredentials
    <2>2. CASE ~opts.Remember
      BY <1>1, <1>3, <2>2 DEF LoadedCredentials, Nothing
    <2> QED
      BY <2>1, <2>2
  <1>5. LoadedOptions(e) = ToKeep.opts
    <2>1. opts = [k \in OptionKeys |-> opts[k]]
      BY Order DEF TypeOK, OptionsType
    <2>2. LoadedMask(opts.Files) = opts.Files
      BY DEF LoadedMask, MaskWithinReach
    <2>3. ASSUME NEW k \in OptionKeys
          PROVE  opts[k] = IF k \notin DOMAIN e THEN Defaults[k]
                           ELSE IF k = "Files" THEN LoadedMask(e[k]) ELSE e[k]
      BY <1>2, <2>2 DEF Current
    <2> QED
      BY <1>3, <2>1, <2>3 DEF LoadedOptions
  <1> QED
    BY <1>1, <1>3, <1>4, <1>5

LEMMA KeptStep ==
    ASSUME SettingsAssumption, TypeOK, MaskWithinReach, SaveInv, SaveInv', KeptInv, Next
    PROVE  KeptInv'
  <1>1. CASE kept' = {}
    BY <1>1 DEF KeptInv
  <1>2. CASE kept' = kept /\ UNCHANGED file
    BY <1>2 DEF KeptInv, NamesNobody, Holds, file
  <1>3. CASE Launch
    BY <1>2, <1>3 DEF Launch, KeptInv
  <1>4. CASE SaveWrite /\ left' = {}
    <2>1. PICK k \in left :
             /\ First(k) /\ left' = left \ {k}
             /\ IF k = "Open" THEN header' = "none" /\ entries' = NoEntries
                ELSE IF k = "Header" THEN header' = "this version" /\ UNCHANGED entries
                ELSE entries' = With(entries, k) /\ UNCHANGED header
      BY <1>4 DEF SaveWrite
    <2>2. UNCHANGED <<mem, opts>> /\ Busy /\ kept' = {ToKeep}
      BY <1>4 DEF SaveWrite, saving, config
    <2>3. left = {k}
      BY <1>4, <2>1
    <2>4. "Open" \notin left
      BY <2>2, <2>3, WritesAllOf DEF SaveInv
    <2>5. k # "Open" /\ k \in Writes(mem, opts)
      BY <2>2, <2>3, <2>4 DEF SaveInv
    <2>6. /\ DOMAIN entries = (Writes(mem, opts) \ left) \ {"Open", "Header"}
          /\ \A x \in DOMAIN entries : entries[x] = Current(x)
          /\ "Header" \notin left => header = "this version"
      BY <2>2, <2>4 DEF SaveInv
    <2>7. /\ DOMAIN entries' = Writes(mem, opts) \ {"Open", "Header"}
          /\ \A x \in DOMAIN entries' : entries'[x] = Current(x)
          /\ header' = "this version"
      <3>1. CASE k = "Header"
        BY <2>1, <2>3, <2>6, <3>1
      <3>2. CASE k # "Header"
        <4>1. /\ DOMAIN entries' = DOMAIN entries \cup {k}
              /\ \A x \in DOMAIN entries' :
                    entries'[x] = IF x = k THEN Current(k) ELSE entries[x]
          BY <2>1, <2>5, <3>2 DEF With, Current
        <4> QED
          BY <2>1, <2>3, <2>5, <2>6, <3>2, <4>1
      <3> QED
        BY <3>1, <3>2
    <2>8. /\ LoadedCredentials(entries') = ToKeep.mem /\ LoadedOptions(entries') = ToKeep.opts
          /\ ~ToKeep.opts.Remember => \A f \in Fields : f \notin DOMAIN entries'
      BY <2>7, WholeSave
    <2>9. /\ LoadedCredentials(entries)' = LoadedCredentials(entries')
          /\ LoadedOptions(entries)' = LoadedOptions(entries')
      OBVIOUS
    <2> QED
      BY <2>2, <2>7, <2>8, <2>9 DEF KeptInv, NamesNobody, Holds
  <1>5. \/ kept' = {} \/ Launch
        \/ kept' = kept /\ UNCHANGED file
        \/ SaveWrite /\ left' = {}
    <2>1. CASE TakeCardOut \/ PutCardBack
      BY <2>1 DEF TakeCardOut, PutCardBack, history
    <2>2. CASE Exit \/ Stopped \/ PowerLost \/ SaveFails
      BY <2>2 DEF Exit, Stopped, PowerLost, SaveFails, history
    <2>3. CASE Quit
      BY <2>3 DEF Quit
    <2>4. CASE PressRead \/ OpenInput \/ Navigate
      BY <2>4 DEF PressRead, OpenInput, Navigate, Go
    <2>5. CASE EnterNumber \/ EnterDate \/ EnterCan \/ ClearCan
      BY <2>5 DEF EnterNumber, EnterDate, EnterCan, ClearCan, Enter, Edit
    <2>6. CASE Forget
      BY <2>6 DEF Forget, Forgets
    <2>7. CASE ChangeRow \/ ToggleGroup
      BY <2>7 DEF ChangeRow, ToggleGroup, SetGroup, SetOption
    <2>8. CASE LeaveList
      BY <2>8 DEF LeaveList
    <2>9. CASE SaveWrite
      BY <2>9 DEF SaveWrite
    <2> QED
      BY <2>1, <2>2, <2>3, <2>4, <2>5, <2>6, <2>7, <2>8, <2>9 DEF Next, User
  <1> QED
    BY <1>1, <1>2, <1>3, <1>4, <1>5

LEMMA NextRunStep ==
    ASSUME SaveInv, KeptInv, NextRunStartsFromTheLastSave, Next
    PROVE  NextRunStartsFromTheLastSave'
  <1> USE DEF NextRunStartsFromTheLastSave
  <1>1. CASE ~fresh'
    BY <1>1
  <1>2. CASE UNCHANGED <<mem, opts, kept, fresh>>
    BY <1>2
  <1>3. CASE Launch
    <2>1. ASSUME fresh', NEW k \in kept
          PROVE  mem' = k.mem /\ opts' = k.opts
      BY <1>3, <2>1 DEF Launch, Readable, KeptInv
    <2> QED
      BY <1>3, <2>1 DEF Launch
  <1>4. ~fresh' \/ UNCHANGED <<mem, opts, kept, fresh>> \/ Launch
    <2>1. CASE TakeCardOut \/ PutCardBack
      BY <2>1 DEF TakeCardOut, PutCardBack, config, history
    <2>2. CASE Exit \/ Stopped \/ PowerLost \/ Quit
      BY <2>2 DEF Exit, Stopped, PowerLost, Quit, At, history, SaveInv
    <2>3. CASE SaveWrite \/ SaveFails
      BY <2>3 DEF SaveWrite, SaveFails, SaveInv
    <2>4. CASE PressRead \/ OpenInput \/ Navigate
      BY <2>4 DEF PressRead, OpenInput, Navigate, Go
    <2>5. CASE EnterNumber \/ EnterDate \/ EnterCan \/ ClearCan
      BY <2>5 DEF EnterNumber, EnterDate, EnterCan, ClearCan, Enter, Edit
    <2>6. CASE Forget
      BY <2>6 DEF Forget, Forgets
    <2>7. CASE ChangeRow \/ ToggleGroup
      BY <2>7 DEF ChangeRow, ToggleGroup, SetGroup, SetOption
    <2>8. CASE LeaveList
      BY <2>8 DEF LeaveList
    <2> QED
      BY <2>1, <2>2, <2>3, <2>4, <2>5, <2>6, <2>7, <2>8 DEF Next, User
  <1> QED
    BY <1>1, <1>2, <1>3, <1>4

(***************************************************************************)
(* What was forgotten.                                                     *)
(***************************************************************************)
LEMMA ForgottenStep ==
    ASSUME SettingsAssumption, TypeOK, ForgottenStaysGone, Next
    PROVE  ForgottenStaysGone'
  <1> USE DEF ForgottenStaysGone
  <1>1. CASE UNCHANGED <<mem, entries, gone>>
    BY <1>1 DEF Holds
  <1>2. CASE mem' = Nothing /\ UNCHANGED <<entries, gone>>
    BY <1>2 DEF Nothing, Holds, SettingsAssumption
  <1>3. CASE mem' = Nothing /\ entries' = NoEntries
    BY <1>3 DEF Nothing, NoEntries, Holds, SettingsAssumption
  <1>4. CASE Launch
    <2>1. ASSUME NEW f \in Fields, NEW v \in Values, <<f, v>> \in gone
          PROVE  mem'[f] # v
      BY <1>4, <2>1 DEF Launch, LoadedCredentials, Nothing, Holds, SettingsAssumption
    <2>2. UNCHANGED gone /\ (UNCHANGED entries \/ entries' = NoEntries)
      BY <1>4 DEF Launch, Removed, file
    <2> QED
      BY <2>1, <2>2 DEF NoEntries, Holds
  <1>5. ASSUME NEW f \in Fields, NEW v \in Stored, Edit(f, v)
        PROVE  ForgottenStaysGone'
    BY <1>5 DEF Edit, TypeOK, Holds, file
  <1>6. CASE SaveWrite
    <2>1. UNCHANGED <<mem, opts, gone>>
      BY <1>6 DEF SaveWrite, saving, config
    <2>2. PICK k \in left :
             \/ entries' = NoEntries \/ UNCHANGED entries \/ entries' = With(entries, k)
      BY <1>6 DEF SaveWrite
    <2>3. CASE entries' = With(entries, k)
      BY <2>1, <2>3 DEF With, Holds
    <2> QED
      BY <2>1, <2>2, <2>3 DEF NoEntries, Holds
  <1>7. \/ UNCHANGED <<mem, entries, gone>>
        \/ mem' = Nothing /\ UNCHANGED <<entries, gone>>
        \/ mem' = Nothing /\ entries' = NoEntries
        \/ Launch \/ SaveWrite
        \/ \E f \in Fields, v \in Stored : Edit(f, v)
    <2>1. CASE TakeCardOut \/ PutCardBack \/ SaveFails
      BY <2>1 DEF TakeCardOut, PutCardBack, SaveFails, saving, config, file, history
    <2>2. CASE Exit \/ Stopped \/ PowerLost \/ Quit
      BY <2>2 DEF Exit, Stopped, PowerLost, Quit, Off, config, file, history
    <2>3. CASE PressRead \/ OpenInput \/ Navigate
      BY <2>3 DEF PressRead, OpenInput, Navigate, Go, config, file
    <2>4. CASE EnterNumber \/ EnterDate \/ EnterCan \/ ClearCan
      BY <2>4 DEF EnterNumber, EnterDate, EnterCan, ClearCan, Enter, Stored, Fields, MrzFields
    <2>5. CASE Forget
      BY <2>5 DEF Forget, Forgets, Removed, file
    <2>6. CASE ChangeRow \/ ToggleGroup
      BY <2>6 DEF ChangeRow, ToggleGroup, SetGroup, SetOption, file
    <2>7. CASE LeaveList
      BY <2>7 DEF LeaveList, config, file
    <2> QED
      BY <2>1, <2>2, <2>3, <2>4, <2>5, <2>6, <2>7 DEF Next, User
  <1> QED
    BY <1>1, <1>2, <1>3, <1>4, <1>5, <1>6, <1>7

(***************************************************************************)
(* The theorems.                                                           *)
(***************************************************************************)
LEMMA InvStep == SettingsAssumption /\ IInv /\ [Next]_vars => IInv'
  <1> SUFFICES ASSUME SettingsAssumption, IInv, [Next]_vars PROVE IInv'
    OBVIOUS
  <1>1. CASE Next
    BY <1>1, TypeStep, FileStep, SaveStep, KeptStep, ForgottenStep, NextRunStep, ReadStep,
       MaskStep
       DEF IInv
  <1>2. CASE UNCHANGED vars
    BY ZenonT(60), <1>2
       DEF vars, config, file, history, IInv, TypeOK, FileInv, SaveInv, Busy, Current, Writes,
           KeptInv, NamesNobody, Holds, ForgottenStaysGone, NextRunStartsFromTheLastSave,
           ReadHasAKey, MaskWithinReach
  <1> QED
    BY <1>1, <1>2

LEMMA Invariance == Spec => []IInv
  BY SettingsAssumption, InvInit, InvStep, PTL DEF Spec

\* The variables of the settings have the values their comments say, whatever the
\* file held and wherever a save broke off.
THEOREM SettingsTypeCorrect == Spec => []TypeOK
  <1>1. IInv => TypeOK
    BY DEF IInv
  <1> QED
    BY Invariance, <1>1, PTL

\* What the screen says is forgotten is in neither place until it is typed again,
\* for any values, methods, rows and groups (emrtd_settings.c:312-328).
THEOREM ForgettingIsForGood == Spec => []ForgottenStaysGone
  <1>1. IInv => ForgottenStaysGone
    BY DEF IInv
  <1> QED
    BY Invariance, <1>1, PTL

\* The next run starts with exactly what the last save that ended was to keep.
THEOREM SaveIsWhatIsLoaded == Spec => []NextRunStartsFromTheLastSave
  <1>1. IInv => NextRunStartsFromTheLastSave
    BY DEF IInv
  <1> QED
    BY Invariance, <1>1, PTL

\* A save that ended with the switch off leaves no credential in the file.
THEOREM SwitchedOffNamesNobody == Spec => []OffNamesNobody
  <1>1. IInv => OffNamesNobody
    BY DEF IInv, KeptInv, OffNamesNobody
  <1> QED
    BY Invariance, <1>1, PTL

\* No read is started without a key that the chosen method can use.
THEOREM ReadStartsWithAKey == Spec => []ReadHasAKey
  <1>1. IInv => ReadHasAKey
    BY DEF IInv
  <1> QED
    BY Invariance, <1>1, PTL

\* No file, however edited, widens or narrows the mask beyond what is allowed.
THEOREM MaskStaysWithinReach == Spec => []MaskWithinReach
  <1>1. IInv => MaskWithinReach
    BY DEF IInv
  <1> QED
    BY Invariance, <1>1, PTL
=============================================================================
