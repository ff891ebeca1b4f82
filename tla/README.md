# Specifications of the eMRTD reader

TLA+ models of the eMRTD reader for the Flipper Zero: a program that opens an
electronic passport over NFC, reads its files through Secure Messaging, checks
their hashes and copies them to an SD card. Each module is written from the C
source; `PROJECT.json` maps every definition to the lines it stands for.

## 1. The system

```
 scenes and views  (GUI thread)         scenes/ views/ emrtd.c emrtd_settings.c
        |  start, stop, join      ^ custom events through the dispatcher's queue
 worker            (control thread and NFC thread)      worker/emrtd_worker.c
        |                         \---- export to the SD card  worker/emrtd_export.c
 access drivers    PACE, BAC                                   access/
        |
 Secure Messaging, BAC, PACE, KDF ...   crypto/      parsers   protocol/
        |
 transceiver port: one command APDU, one response APDU         transport/emrtd_transceiver.h
 ISO 14443-4 blocks  ---  pollers of type A and B              transport/
        |  frames
 the chip                               (sim/ and tests/host/ hold two of them)
```

| Part | State it keeps | Operations | Talks to | What is hard | What makes it correct |
|---|---|---|---|---|---|
| ISO 14443-4 block layer (`transport/emrtd_isodep.c`) | the block number, the ATS and its limits | activate (RATS), transceive, deselect | the radio below by frames, the port above by APDUs | lost and damaged frames, repetitions, chaining both ways, waiting time extensions, failed activations | each command runs at most once, whole, and its answer comes back whole; every exchange ends |
| Pollers and port (`transport/emrtd_iso14443_4.c`, `emrtd_transceiver.c`) | buffers, the frame waiting time, what failed last | bind, exchange, unbind | firmware callbacks on the NFC thread | timing arithmetic, a frame longer than the buffer | an error of the radio becomes the error it is |
| Secure Messaging (`crypto/emrtd_sm.c`, `emrtd_worker_transmit`) | keys, send sequence counter, whether a session is active and proven | protect, unprotect, clear | the port below, the read above | late, repeated and foreign answers; counters that slip apart; a session lost in the middle | only the chip's answer to this command is believed; no count is used twice; nothing falls back to the clear |
| Access drivers (`access/`, `crypto/emrtd_bac.c`, `emrtd_pace.c`) | none between reads; during one the challenge, nonce and points, then a session | probe, authenticate | EF.CardAccess, the credentials, the port | failing half way, what to blame, locked chips, lost and repeated steps | the best driver first and once; both sides hold the same session or none; the blame is on the key that is wrong |
| Worker threads (`worker/emrtd_worker.c`) | stop flag, FINISHED flag, progress, the record of the read | start, stop (join), report, finish | GUI thread by a callback that posts; NFC thread by the poller | three threads, stop at any moment, a full queue, teardown while a callback runs | nothing is used after it is freed, what a screen shows is finished and of this read, leaving ends |
| The read (`emrtd_worker_read` and below) | the record: error, blamed file, state and hash of each file; progress | select, EF.CardAccess, authenticate, EF.COM, EF.SOD, groups, verify | drivers, Secure Messaging, export, parsers | a failure or a stop at every step, a plan that changes when EF.COM is read | a dead session is never a success; the record names the right file and is complete |
| Export (`worker/emrtd_export.c`) | open raw file, image window, trace, failed flag | alloc, begin, write, arm image, end, report, free | SD card | write failures in the middle, look-ahead of DG2, the image window | what is on the card is what came off the chip |
| Settings and application (`emrtd.c`, `emrtd_settings.c`, the scenes around them) | credentials, options, settings file, queue | load, save, forget, switch scene | SD card, dispatcher | power loss or a failing write during a save, a card taken out, a file edited by hand, forgetting after remembering | what was forgotten stays forgotten, a run starts from the last whole save, a read has a key its method can use |
| Parsers (`protocol/`) | none | TLV, APDU, MRZ, LDS, SecurityInfo | bytes in, records out | lengths and offsets taken from the data | never past the end, agree with their definition |
| Date field (`views/emrtd_date_input.c`) | three numbers, the one the arrows change | keys, open, hand back | the screens of the credentials | a date that does not exist for a moment, two rules for the century | a date handed back exists |
| Primitives (`crypto/` else) | none | MAC, KDF, EC, RNG | a crypto library | none that depends on order | known answers (host tests) |

## 2. Modules

| Module | What it is |
|---|---|
| `ApduPort` | Abstract specification: what the transceiver port promises. A command runs at most once, between its call and its return; success means that it ran. |
| `IsoDep` | The block protocol on both ends of an air that loses and damages frames. Implements `ApduPort`. |
| `IsoDepInvariant`, `IsoDepProofs` | Its inductive invariant, and the proofs, the refinement's among them. |
| `SecureSession` | Secure Messaging over an exchange that fails, repeats and delays. Implements `ApduPort` again, over a layer below that may not. |
| `SecureSessionInvariant`, `SecureSessionProofs` | Its inductive invariant, and the proofs, the refinement's among them. |
| `WorkerThreads` | The GUI, control and NFC threads around a read. |
| `ReadSession` | The read itself: drivers, files, verdicts, record, progress bar. |
| `AccessControl` | PACE, BAC and the walk of the worker through the two, against the chip of `sim/emrtd_sim.c`; cryptography is symbolic. |
| `ReadPlan` | What a read is to the screens and threads around it: stages, a session, one verdict. |
| `Export` | What a read leaves on the SD card, and how the card may fail it: operations as sets of outcomes. |
| `StreamFile` | The bytes of the files on their way from the chip to the hash, the decoder and the export. Uses `Export`. |
| `Settings` | What the reader remembers: memory, the settings file, every screen that changes either, power, a card that comes and goes. |
| `Tlv`, `SecurityInfo`, `Lds`, `Mrz`, `Frame` | Algorithms, as operators: the TLV reader and writer, the choice of a PACE protocol, EF.SOD and the verdict on a hash, the machine readable zone, the length to ask for. |
| `DateInput` | The date field. |
| `MCInputs` | The inputs those modules are checked over, and what each has to do, stated apart from how it does it. |
| `WorkerThreadsProofs`, `ReadSessionProofs`, `AccessControlProofs`, `StreamFileProofs`, `SettingsProofs` | The inductive invariant of each of these, and its proofs. |
| `InputsInvariant`, `InputsProofs` | What the proofs about `Tlv`, `SecurityInfo`, `Lds`, `Mrz`, `Frame` and `DateInput` are stated with, and the proofs. |
| `MC...` with their `.cfg` | Instances for TLC. |

The modules compose through what they promise each other. `ApduPort` is
the boundary between transport and session: `IsoDep` refines it as long as no
failed exchange is carried on from, `SecureSession` assumes less than it (an
exchange that may run a command twice or answer late) and restores it.
`ReadSession` takes an exchange to do what `SecureSession` leaves open: answer,
or fail and leave the counters apart. `AccessControl` is the middle of that read
from close by, over the same weak exchange; `ReadSession` keeps of it which driver
ran and how it ended. What `Lds` says of a file's hash is one of the verdicts
of `ReadSession`, what `SecurityInfo` chooses is what `AccessControl` calls announced
or unusable, and a credential of `Settings` is what `DateInput` and the other input screens
hand back. `ReadPlan` is the boundary between the read and what is around it: `ReadSession` refines
it, drivers and files and all, and so do the threads, screens and queue of `WorkerThreads`, read
after read. That its steps each end is shown of `IsoDep` and `StreamFile`.

### IsoDep

State: the reader's position in its one thread (`pc`), `block_number`, the
chunk being sent, the response so far, the frame it would send again and how often it
has been recovered, the extensions granted; one frame in each direction on the
air; the card's block number, what it has received of a chained command, the
block it would repeat. Each action is one frame: the reader takes what came back
and does everything up to the next frame it sends (`emrtd_isodep_send_block`
and its two callers); the card handles a frame; the air loses it or damages it.
The card is the `Chip` of `tests/host/test_isodep.c`, which states the rules of
ISO 14443-4 the reader is written against; the test's command buffer, which is
never reset, is reset here when a command is complete.

`LoseFrame` also stands for a card that ignores a frame. A frame longer than the
radio's buffer behaves like a damaged one that is not recovered and is folded
into it. A card may ask for extensions for ever; the reader's bound ends it.
`Tolerated` holds the exchanges the caller carries on from after a failure:
those of EF.CardAccess (`emrtd_worker.c:1363-1393`, `1803-1811`). `slipped`
remembers that one of them failed.

### SecureSession

State: phase of the exchange, whether a session is active and trusted (`authenticated`),
the reader's counter and the chip's, the count each command was sealed under,
the sealed answers in existence. Actions: `emrtd_worker_transmit` with a session
and without, every verdict of `emrtd_sm_unprotect` in the order the code reaches
it (a bare status word, an envelope that is not well formed, a wrong checksum,
the right one), the chip receiving a copy. A checksum is valid under exactly one
count, so it is that count.

### WorkerThreads

State: the scene and what the GUI thread waits for, the dispatcher's queue, the stop flag,
the FINISHED flag, `app->progress`, the export, the record, and where the
control and the NFC thread are. All custom events (the menu's Read and Retry,
the view's Exit, the worker's reports, the refusal for want of memory) go
through one first-in first-out queue that only the GUI thread empties; posting to
a full queue waits, which is what the comment at `emrtd_worker.c:239-242` says
of it. Back is a navigation event of the dispatcher and not in that queue. The
queue's length on the device, 16, belongs to the firmware. The read is its plan
of reports, any of which may be the last. The credentials are taken to be set in
the start scene; the scenes that browse a result are not here.

`cutShort` is history: a refusal that is still queued when the next Read has been taken ends
that read too (`emrtd_scene_read.c:162-168` does not ask whether a worker was
allocated), and a third Read behind it meets the events of the read it cut short. Nothing is freed too early
then, but what the screens show may be of another read, so `RecordIsFinished`, `EventsOfThisRead` and
`ScreensTellTheTruth` say what holds until it happens. It takes three reads and a
refusal for want of memory, one more than the run's two reads; the proof did not go
through without it.

### ReadSession

State: `config` (groups asked for, method, which credentials there are), what
EF.CardAccess offers, the search for a driver, the record, whether the counters
are apart, progress. Each action is one step of `emrtd_worker_read`: selecting,
EF.CardAccess with its re-selection, each turn of the loops of
`emrtd_worker_authenticate`, SELECT of a file, its blocks, and the move to
the next. The blocks of one file are one step, because wherever a failure, a
status word or a stop comes in the record is the same. "Refused" stands for every status word that
is neither a verdict on the key nor 6987 or 6988, which the code enters as "SecureMessaging". In the middle
of a file these end the read; in answer to a SELECT the file is entered as failed with that error and
the read goes on, the session having just carried an answer. `refused`, a history of the files
whose SELECT was refused, tells the two apart in `DeathIsTheVerdict`, which excepts the second.

### Export and StreamFile

State of `Export`: one record `ex` with the fields of `struct EmrtdExport` and the card
(`disk`: for each minute's directory and name, the read that made the file and its
bytes). An operation is the set of records it may leave, because the worker makes
several in one go: a file may not open, and a write may take some of the bytes.
State of `StreamFile`: the locals of `emrtd_worker_stream_file` (`offset`, `total`,
`sized`, `error`), the look-ahead (`head`, `looking`), the bytes hashed so far, the parse buffer, the
result's entries, face and counts. A byte is its file and its place in it, so
that a gap, a repetition, an exchange of two pieces or a byte of another file shows.
`Ask` is the top of the loop, one action follows for each class of answer
(6CXX, a failure, a refusal, no data, data), and `Data` is everything up to the next
turn. `FileRead` and `FileFails` are what comes after the loop
(what is held back, the hash's verdict, the decoder, the end of the export's
file), `ExportResult` the texts. The length asked for is abstracted: an answer may
have any length that fits a frame. The offset is not: the chip reads at `Named`, what of the
offset the form chosen has room for, so that the wrong form reads the wrong bytes. Equal hashes are equal bytes. The files of `Plan` are read in
turn; which ones, and every way a read ends, is `ReadSession`'s. No raw file has the name of a file the
export makes of its own (the names of `emrtd_files.c` against `face`, `mrz.txt` and
`report.txt`), which `StreamAssumption` says of `Names`.

### AccessControl

State: the credentials and the document (constant in a run); the reader's place in the
walk (`turn`) and in the protocol (`step`), what it has learned (`held`), its session (`sm`), the
record (`keys`, `published`, `best`, `result`); the chip's state, the copies of the
command it has received and the answers it has sent. A term stands for each secret: a
point is a scalar and its base, a shared secret the two scalars and the base they
share, a checksum its key and what it covers, an answer its kind and its value; what was decrypted under another key is
garbage. Each action is a step of `emrtd_pace_run`, of
`emrtd_access_bac_authenticate` or of `emrtd_worker_authenticate`, up to the next command, or a
command of `sim_transceive`. The exchange may fail before or after the chip has acted,
hand the chip the command again, or bring an earlier answer. A chip is told to be
lenient when it answers without having checked the reader's proof: then the reader's own check is
all there is. The selection of the application and EF.CardAccess are over when
this begins, and a cipher is not chosen here (`SecurityInfo`).

### Settings

State: the scene on top, `app->config`, the writes of the save under way (`left`), whether the card is there, the
file as its header and the value of each key it holds, what the Forget screen said. A
save is the set of its writes, taken in the order of `emrtd_settings_save` (`InOrder`): each may fail, and
the power may go before any of them. Loading is what `emrtd_settings_load` does
key by key: a credential of the wrong shape is dropped, the mask is
cut to what may be asked for. `Quit` is the loader's signal, on which the scenes on the stack
still run their `on_exit`. `gone`, `kept` and `fresh` are history. The files it starts
from are none, one of another version, and one edited by hand. The two dialog buttons of
`ForgetConfirm` are its `Forget` and its way back.

### The algorithms

A buffer is a sequence of bytes, a cursor the number of bytes before it. `Tlv` is one
operator per function of `emrtd_tlv.c`; the tag is its bytes rather than a packed
number, and a length of 2^24 and more is the one number `Huge`, as no buffer is so long
and only the sum in `emrtd_tlv_total_length` could wrap, which is looked at byte by byte.
`SecurityInfo`, `Lds` and `Mrz` follow their files in the same way. A character of the
zone is a number, a zone the record of its weighed fields. `Frame` has the sums of
`emrtd_transceiver_max_le` and `emrtd_worker_chunk_size`. `DateInput` has an action for each
kind of key and one for the scene that opens it with what is stored.

The reference definitions are in `MCInputs` and at the end of `Tlv`: the grammar of
X.690 stated without a cursor, the offer of a document before it was encoded,
the hashes before they were listed, the layout of ICAO 9303 by positions.

## 3. What TLC checks

`INVARIANT`s and `PROPERTY`s are stated and commented in the modules.

| Run | Shows |
|---|---|
| `isodep_link` | Every pattern of lost and damaged frames over three commands, the first of which may fail without ending the read: at most once (`AtMostOnce`), whole (`CommandWhole`), an answer within the buffer (`FitsBuffer`), RATS only to a card that is fresh (`RatsMeetsFreshCard`), the end of the read (`ReadEnds`) and the refinement (`ImplementsPort`). |
| `isodep_slip_twice` | *Violation*: a command runs twice after a failure that was carried on from. |
| `secure_session` | Counters agree and differ as they should (`LockStep`, `CountsDiffer`), nothing goes back to the clear (`NeverBackToClear`), and a trusted session is a port that executes once and answers with its own answer (`ImplementsPort`). |
| `worker_threads` | Two reads, either of which may be refused for want of memory, every interleaving: nothing outlives the worker, a record is shown only when it is finished, screens tell the truth of their own read, unless a stale refusal cut a read short (`cutShort`); leaving ends (`LeavingEnds`), and every read is one of the plan (`ImplementsPlan`). |
| `worker_queue_full` | *Violation*, see section 5. |
| `read_session` | The end of a read is the right one whatever happens: a session that dies under a file is the verdict (`DeathIsTheVerdict`; a status word in answer to a SELECT is no death), the file named failed for it (`BlamedFileFailedForIt`), no driver is run twice and the best goes first, the record is complete (`RecordIsComplete`), and the read is one of the plan (`ImplementsPlan`). |
| `read_after_slip` | *Violation*: the read goes on in a dead session. |
| `access` | Every document, credential, loss and repetition: a session of the reader is the chip's (`Agreement`), the key that is blamed is wrong (`BlamesTheWrongKey`), a key that fits opens the chip in spite of what failed before (`RightKeyOpens`), a run that failed leaves nothing (`NothingOfAFailure`). |
| `stream_dg2` | From any file, any answers, a card that fails at any write and a user who stops: the hash, the decoder and the export get the same bytes (`SinksAgree`), all of them and in order even on a card that fails (`NothingLost`); the image is the rest of DG2 (`ImageIsTheTail`); what is said to be exported is (`ExportedIsComplete`); a file is out of reach only where the chip refuses the odd instruction, never by the reader's own bounds (`OutOfReachOnlyIfRefused`); the read ends (`ReadEnds`). |
| `settings` | Any sequence of screens, failing writes, power cuts and card changes: what was forgotten stays so (`ForgottenStaysGone`), a run starts from the last save that ended (`NextRunStartsFromTheLastSave`), the switch off means nobody is named (`OffNamesNobody`), a read has a key (`ReadHasAKey`). |
| `settings_card_out` | *Violation*: the screen says "forgotten" of a file it could not see. |
| `inputs` | Each algorithm against its reference: `TlvReadsWhatIsThere`, `BestOfTheOffer`, `HashVerdict`, `KeyIsThePrintedOne`, `AnswerFitsTheFrame`, and the date field under every sequence of keys (`HandsBackRealDates`). |

Every property of a passing run has a mutant in `PROJECT.json`: a small wrong
variant of one definition (kept beside it in the module) that breaks it.

### Bounds, and why they are enough

* `IsoDep`: three commands, the first two in two chunks each, so that a chain
  meets a command before it and one after it, in step and out of step; answers of one to four
  blocks, empty ones among them, one longer than the buffer and one longer than
  `ChainMax`. `Retries` 2 is the code's. `WtxMax` 2 stands for 60, `ChainMax` 3 for
  64, `ActivationMax` 2 for the code's limit: they are counted the same at any value,
  and the proofs are for all of them. Out of step, the second chained command can meet an
  acknowledgement that is not its own (`RejectChunkAnswer`).
* `SecureSession`: five commands, so that two failures may be followed by
  exchanges that are answered; two copies, what the block layer may send.
* `WorkerThreads`: two reads, so that what the first leaves meets the second (a third, which a
  stale refusal needs, was looked at with smaller constants: one activation, no export, no
  reports between files; the proofs are for any number); two keys in the queue; one report per group of files (two with a short queue, to
  fill it). The queue is the device's 16 except in `worker_queue_full`, where 3 stands for a queue
  that a GUI thread busy elsewhere has let fill.
* `ReadSession`: two groups that can be read with one behind Extended Access
  Control between them; both or one asked for; the method automatic or PACE.
* `StreamFile`: answers of up to three bytes, a header and an image signature of
  two, a look-ahead of four, so that the image may lie within the first answer, across
  two, or nowhere, and the look-ahead may end with an answer or within one. Files of two to
  nine bytes, shorter and longer than their header says, or with none; `ShortMax` 3,
  `LongMax` 7 and `FileMax` 8 keep the code's order, the last one more than the one
  before, with a file of just that length and one that is longer. One DG2 and one group that fits its parse buffer or does not; one read.
* `AccessControl`: every kind of document and of credentials, none, right or wrong. The
  chip may receive a command twice, the least that tells once from more often; each
  protocol runs at most once, so its random values are constants.
* `Settings`: one value for each credential (a second would only be typed over the first), two rows
  of the options, the one that decides what is written and the one that decides what a read needs, and
  one group to switch. Any number of saves, power cuts and card changes.
* `MCInputs`: every buffer of up to five bytes from nine that begin something, and
  the same behind the first two bytes of a tag with a four byte length; up to two protocols out of
  86 in five wrappings; up to two hashes out of eleven under four algorithms; the three
  formats of the zone with numbers from one character to the longest a field holds, and each of them with one weighed
  character misread; frames of 0 and 16 to 300 bytes under the three blocks
  of the ciphers; every date the field can reach from four stored ones. The deep nesting that `MaxDepth`
  cuts off, and buffers longer than these, are not reached.

### Fairness

* `IsoDep`: the reader goes on, and the air or the card does something with a
  frame: `emrtd_iso14443_4.c` waits for a frame no longer than the waiting time,
  so silence is an event.
* `WorkerThreads`: each thread goes on when it can (a preemptive scheduler of
  equal threads), the dispatcher takes what is in its queue, a thread that waits
  for room or for a join gets it when it is there. The user is not fair: no key has to be pressed.
* `ReadSession`: the NFC thread goes on. Its properties are safety; that a read
  ends is shown of its parts, `isodep_link` and `stream_dg2`.
* `StreamFile`: the worker goes on, and an exchange ends (`IsoDep`). Neither the user nor the card
  is fair: a chip may answer one byte at a time.
* `SecureSession`, `AccessControl`, `Settings`, `DateInput` and `ApduPort` state safety
  only: what ends an exchange is below them, and a user need press nothing.

Where a system may stop (the read is over, the application closed) the
configuration says `CHECK_DEADLOCK FALSE`; that it does not stop sooner is what
the liveness properties of the same runs say. `secure_session`, `read_session` and `access` have
none: they stop only when the exchange or the walk is over. `settings` and `inputs` never stop.

## 4. What is proved

For every value of the constants that the named assumptions allow, with TLAPS: every safety property a
passing run checks, and the four refinements.

| Module | Theorems about | Inductive invariant |
|---|---|---|
| `IsoDepProofs` | `TypeOK`, `AtMostOnce`, `CommandWhole`, `InStep`, `ResponseWhole`, `FitsBuffer`, `RatsMeetsFreshCard`; `ImplementsPort` (and the whole `ApduPort` when nothing is tolerated) | `IInv` of `IsoDepInvariant`; `FreshInv` |
| `SecureSessionProofs` | `TypeOK`, `OwnAnswer`, `SealedRunsOnce`, `LockStep`, `CountsDiffer`, `NeverBackToClear`; `ImplementsPort` | `IInv` of `SecureSessionInvariant` |
| `WorkerThreadsProofs` | `TypeOK`, `NothingOutlivesTheWorker`, `RecordIsFinished`, `EventsOfThisRead`, `ScreensTellTheTruth`; `ImplementsPlan` | `ThreadInv`, `QueueInv`, `StageInv`, `AccessInv`, `EndInv` |
| `ReadSessionProofs` | `TypeOK`, `DeathIsTheVerdict`, `BlamedFileFailedForIt`, `RecordIsComplete`, and of the steps `EachDriverOnceBestFirst`, `BarNeverGoesBack`; `ImplementsPlan` | `PhaseInv`, `AheadInv`, `ReadingInv`, `RefusedInv`, `BehindInv`, `SearchInv`, `BarInv`, `RecordInv` |
| `AccessControlProofs` | `TypeOK`, `Agreement`, `BlamesTheWrongKey`, `RightKeyOpens`, `NothingOfAFailure` | `WalkInv`, `AnswersInv`, `SessionInv`, `RunInv`, `FailedInv` |
| `StreamFileProofs` | `TypeOK`, `SinksAgree`, `NothingLost`, `ImageIsTheTail`, `ExportedIsComplete`, `OutOfReachOnlyIfRefused` | `CardInv`, `SinkInv`, `FileInv`, `DoneInv`, `ResultInv`; `ReachInv` |
| `SettingsProofs` | `TypeOK`, `ForgottenStaysGone`, `NextRunStartsFromTheLastSave`, `OffNamesNobody`, `ReadHasAKey`, `MaskWithinReach` | `FileInv`, `SaveInv`, `KeptInv` |
| `InputsProofs` | `TlvReadsWhatIsThere`, `BestOfTheOffer`, `HashVerdict`, `KeyIsThePrintedOne`, `AnswerFitsTheFrame`, `HandsBackRealDates` | `DateInv`, `SampleInv`, `ZoneInv` of `InputsInvariant` |

TLC checked each of these invariants on the instance of the corresponding run before it was
proved; the runs do not repeat it. `SampleInv` and `ZoneInv` are the exception: they say that an input is one
of those a theorem is about, by quantifiers over all of them, which TLC cannot go through.

**IsoDep.** `AtMostOnce` alone is not inductive: that a repeated frame does no harm depends
on the card's block number being the right one, which depends on what has been
received. `StepInv` therefore says where the parties stand relative to each
other while a frame is outstanding: the card does not have the chunk being sent (`Unsent`), or has
it and acknowledged it (`ChunkHeld`), or ran the command and holds the block the
reader waits for (`Answering`), or has not been asked for that block
(`Awaited`); the numbers differ exactly in the first and the last. Each action moves
from one of the four to another, and the proof has a lemma for each. After a
tolerated failure only the types are left, hence the invariant's `slipped \/`; what
`RatsMeetsFreshCard` needs survives it and has a small invariant of its own,
`FreshInv`. `IsoDep` implements `ApduPort` up to the first failure that is carried on
from, whatever is tolerated, and for good when nothing is. `InStep`, `ResponseWhole`,
`OwnAnswer` and `SealedRunsOnce` of the next, `EventsOfThisRead` of the worker's threads,
`BarNeverGoesBack` of the read and `MaskWithinReach` of the settings are proved and no run
lists them.

**SecureSession.** A count belongs to one command (`Counts`: the counts of
later commands are larger), what the chip ran under a seal it ran once and has
counted past (`Executions`), the answer carries the count that follows the
command's. An answer that verifies under the pending count is then the answer to
the pending command, and a trusted session implements `ApduPort`.

**WorkerThreads.** `ThreadInv` says where each thread may be while another is somewhere, and is
enough for `NothingOutlivesTheWorker`. The screens need the queue: while a read is alive, the
keys that start a read stand ahead of its events, and once it is over behind them
(`QueueInv`), so the next read begins with none of them left. `StageInv` follows the record through the
NFC thread, `AccessInv` the event that makes the screen name the access method, `EndInv` the
event a read ends with. None but the first is true after a stale refusal has cut a read short;
the attempt to prove them without `cutShort` is how that history was found. The plan's phase is where
the NFC thread is, or the control thread behind it; that a read begins with an empty record is `StageInv`, that the
scene does not put a verdict in place of none is `EndInv` with `QueueInv`.

**ReadSession.** Nothing is entered in the record ahead of the file under way (`AheadInv`), only that one is
"Reading", none from it on has been refused (`RefusedInv`), what lies behind is accounted for (`BehindInv`), and nothing is blamed before the read has ended
(`PhaseInv`). `SearchInv` says which drivers the walk over the scores has tried: those
above the level and those at it that come before the next one. `BarInv` relates the bar to
the cardinality of the files done and to be done, which is why a longer EF.COM cannot move it back.
A step of the read is one of the plan or none, stage by stage; the plan needs of the invariant only that
a reason held for the search is a failure and that no error is recorded before the end.

**AccessControl.** `AnswersInv` says that what the chip has sent of a session is still true of it, because a
session once open stays as it is; an answer that is late is therefore believed only if it is
right, and `SessionInv` is the reader's side of that. Both hold over any exchange and for any number
of copies. `RunInv` follows the two sides from step to step and `FailedInv` draws from it what a
driver that failed says of the document; they hold as long as the exchange has done nothing wrong
(`~slipped`), as do the two properties that rest on them.

**StreamFile.** What a sink holds is a slice of the chip's file, said by two offsets. `Standing` says of an
export that has not failed which slice of the open file and of the image is on the card, `Kept` what is
left when a write is torn: beginnings only. The lemmas about `Write` and `ArmImage` carry both from one
offset to the next, whatever the answer was cut to and wherever in it the image begins or the look-ahead
ends. `SinkInv` relates the look-ahead, the hash and the parse buffer to the
offset; `DoneInv` the files that are done to the sizes in their entries; `ResultInv` the two
counts to the cardinality of the entries they count. While a command is under way its form carries the
whole offset (`NamedIsOffset`); that the reader itself never runs out of offsets is `ReachInv`, which says that a length in
use is one it can read to the end of, or has been read already. `NothingLost` alone is not inductive because of the look-ahead:
between the first byte of DG2 and the image the card has less than was read.

**Settings.** The file is rewritten key by key, so between two writes it is neither the old nor the new one. `SaveInv`
says that it then holds the keys written so far with the values of the memory, which nothing
changes before the save has ended; `KeptInv`, from it, that what a load makes of the finished file
is what the save was to keep.

**Inputs.** Of every buffer of bytes below 2^24, with nodes of any depth and tags of any of the lengths the
reader takes, `ReadsWhatIsThere` holds, and every length below 2^24 is read back as it was written. The searches
and the iteration are recursive functions over the number of bytes, so each needs two inductions: that the
function of the definition exists, and what it returns. They are carried out with `SetInduction`, a lemma
about one set of naturals, which follows from the pigeonhole principle on a finite interval and needs no operator as a
parameter. One node is taken apart first (`HasNode`, `IsNodeIs`), then its
header for every prefix that may have arrived, then the row of nodes that an iteration makes.

The choice of a PACE is proved twice. `ActsOnTheBest` takes the file as it comes, well formed or not: the summary
that `SecurityInfos` folds together says of the nodes it went through which is the first of the best (`IsBest`,
`Folded`, one step at a time). `BestOfAnyOffers` takes what was announced: up to 255 offers, any
components, parameters of up to two bytes, each of the wrappings. It needs the reader to undo the writer: a
node is read as it was written (`WrapIs`), an INTEGER too (`IntegerIs`), two parts one behind the other are read one
behind the other (`ReadsBoth`), so the entries of a file, put together by a fold, are read as the offers in their order
(`EntriesRead`). The bound of 255 keeps the file below 2^24 bytes.

So is the verdict on a file. `HashesOfAnyList` takes the list of EF.SOD as it comes: what `lds_read_hashes` keeps fits
its slots, and says of every group what the first entry says that lists it, unless the slots were full before (`Slotted`, one
entry at a time). `VerdictOfAnySod` takes what was signed: up to 16 entries, with numbers of up to two bytes
whether they are groups or not, any content, hashes or none, one of the four algorithms, wrapped in the template or not, with
a certificate or without. Seven layers stand around the list; `Chain` says of each that it is a buffer of so many nodes and
at most so many bytes, and `FoundIn` and `PlacesIn` what is found in one. With 17 entries the verdict may differ: the one that
lists the group may not have got a slot (`EMRTD_SOD_HASH_MAX`), and the file is then said not to be listed, never to match.

The machine readable zone is proved in both directions. `AnyDocumentIsRead` takes what was printed: in each format a number of
any length there is room for (9 characters in TD3, 15 in TD2 and 16 in TD1, since a longer one, though it may be printed there, does not fit
`EMRTD_MRZ_INFO_MAX` and gives no key: see section 5), any
dates, and any personal data that the issuer's fields hold. The number comes out as it went in, also where it goes on in the
optional data, and with the dates it leads to the characters the chip derives its keys from, typed small or in capitals. That each
composite digit covers the right stretches is `WeighedAsPrinted`: the positions of ICAO 9303 in the printed lines are the fields the code
puts together. `MisreadIsRefused` takes any zone with a right composite digit: one character of any field that
it covers, wherever in it, taken for another of another weight, is refused. The weights 7, 3 and 1 have no factor in common with 10, so
the difference is not lost in the sum (`ChangeWeighs`), and `Drift` follows it through the stretches that are put
together. A character taken for one of the same weight (0, A, K and U, or a filler) is not noticed, and nothing could: the digit is the
same. No invariant relates the actions of the run but `ZoneInv`, that a zone is either one printed for its number or one that is refused.

For every frame size, block and length a card names, `ChunkSize` is at least one and the sealed
answer, length field and padding included, fits. For every clock of this century the two
rules for it agree on 29 February, since of the years in which they differ only 1900 and 2000 are
of different length and neither rule takes 00 for 1900.

The assumptions are those named in the modules, and TLC evaluates them in every run. Lengths, limits and
the number of reads and copies are natural numbers; the files of a read are in its plan once each, and no
group of the catalogue has the name of EF.COM or EF.SOD (`emrtd_files.c`); a typed value is not the model's word for
none or malformed; a raw file is not named like one that the export makes of its own; the clock is in this
century.

Only model-checked: liveness (`ReadEnds` of `IsoDep` and of `StreamFile`, `LeavingEnds`), which rests on
fairness.

## 5. Where the code and its text disagree

* `isodep_slip_twice`: after a failed exchange of EF.CardAccess the read goes on
  in the same activation with block numbers that may be apart, and the next lost
  answer makes the reader send a command the card runs twice. Under Secure
  Messaging the second copy is refused (`SealedRunsOnce`); in the clear, in BAC or
  PACE, it is not.
* `worker_queue_full`: `emrtd_worker_report` tests the stop flag before it
  posts, not together with it, so a thread that waits for room in a full queue may meet
  `emrtd_worker_stop`, which waits for that thread.
* `read_after_slip`: after Protocol, BufferTooSmall or a refusal that is not sealed the
  session's counters cannot agree again, yet the next file is tried in it and
  is the one that is blamed; after the last file the read is a success.
* `settings_card_out`: `emrtd_settings_delete` takes a file it cannot see for one that is
  gone, so with the card out the screen says the details are off the card, and the
  next start with the card in loads them again.

Smaller things that were seen while modelling and have no run:

* A failed authentication with the export on posts "authenticated" when it
  reports the export (`emrtd_scene_read.c:36-42`, `emrtd_worker.c:1920`).
* The event of a read refused for want of memory goes through the queue, and a Read queued before
  it is taken first: the event then ends that read, although it has a worker
  (`emrtd_scene_read.c:162-168`, whose comment says "on_enter allocated nothing, so there
  is nothing to unwind"). The worker is stopped and joined all the same; the error
  shown is that of the read that was cut short.
* The directory of an export has the minute and not the second, and a retry within it writes over
  the report and the files of the read before (`emrtd_export.c:164`; `docs/usage.md:188-189`
  says otherwise).
* A sealed 6987 or 6988 in answer to a SELECT leaves the file failed with "Secure channel broke" and
  the read goes on, to end as a success; the same status word in the middle of a file ends the read
  (`emrtd_worker.c:1252-1266` against `emrtd_worker.c:1016` and `1731-1736`).
* A first answer shorter than the file's header is taken for the whole file
  (`emrtd_worker.c:1033`); the image's file may fail to open without failing the
  export, and the photo screen names it all the same (`emrtd_export.c:377`); a DG2
  that breaks off behind the start of the image leaves `face_size` at zero with
  bytes in the image's file (`emrtd_worker.c:1147`).
* A save that is torn before the Remember key loses it, and it is on by default; a
  "hand edited or truncated file" (`emrtd_settings.c:13-14`) is not treated as no file but
  key by key; an application started with the card out has no credentials, and its
  first save after the card is back in writes over those that were stored.
* After a repeated step of BAC the chip may refuse a right key, which the screen then calls
  wrong; `BlamesTheWrongKey` therefore has its `~slipped`.
* Document numbers of 17 to 20 characters are accepted by the input screen and by
  `emrtd_access.h:24` but do not fit `EMRTD_MRZ_INFO_MAX` (`emrtd_mrz.c:293-296`), so no key is
  derived from them; `docs/usage.md:14` knows no such limit. On a printed TD1 zone numbers of
  21 to 23 characters are cut at 20.
* The date field decides the century by the clock when it validates and by a pivot
  when it shows the date (`emrtd_date_input.c:7-11`). The two may be a century apart; they
  still agree on which years have a 29 February, since both take 00 for 2000.
* A SHA-224 EF.SOD is named as supported and its files are never hashed
  (`emrtd_worker.c:783-860`); a constructed OCTET STRING cannot reach the branch of
  `emrtd_lds.c` that would call it unsupported.
* `emrtd_transceiver_max_lc`, and with it the card's own frame size, is used by nothing.

## 6. Not modelled, and the plan

Done: the block layer, Secure Messaging, the threads, the read, PACE and BAC, the
streaming of files and their export, the settings, the TLV reader, SecurityInfos, EF.SOD and
its verdict, the machine readable zone, frame sizes, the date field.

Left, in this order:

1. `StreamFile`: EF.CardAccess, which has a loop of its own (`emrtd_worker_read_card_access`),
   and the odd instruction behind 32767, whose answers carry a header that counts into the
   length asked for.
2. The frame waiting time and its rounding in `emrtd_iso14443_4.c`.
3. EF.COM, and the texts of DG11, DG12 and DG15, once a property depends on them.

Not modelled for a reason: the ciphers, the elliptic curves and the random
numbers (nothing in them depends on an order of events, and a model checker says nothing of
their strength; the host tests hold known answers); the encoding of an APDU (bytes put in
place); the trace (its writes change nothing else); the result screens, about, donate and the
list of saved reads (they show a record nothing changes any more); the simulated chip's
files and envelope (it is linked into the host tests only); `app->progress` copied by one thread
while another copies it out, a torn record that a model of whole values
cannot show; wording, layout and logging.
