----------------------------- MODULE StreamFile -----------------------------
(***************************************************************************)
(* The files of one read as their bytes pass: emrtd_worker_stream_file     *)
(* takes each answer of the chip, cuts it to the length the file's header  *)
(* gave, folds it into the running hash, keeps it for the decoder if the   *)
(* file is a small one, and writes it to the export, DG2 only after its    *)
(* head has been searched for the facial image.                            *)
(*                                                                         *)
(* The chip answers as it likes, the SD card fails when it likes, the user *)
(* may stop the read at any moment, and may read again, within the same    *)
(* minute or later.  Which files are read, and what ends a read, is        *)
(* ReadSession; here every file of the plan is selected in turn.           *)
(***************************************************************************)
EXTENDS Export, FiniteSets, SequencesExt, FiniteSetsExt

CONSTANTS
    Plan,       \* the files of the read, in order
    Documents,  \* what the chips hold, and what their EF.SOD lists
    Capacity,   \* emrtd_worker_parse_cap of each file, 0 for one never held
    Chunk,      \* most bytes an answer may carry
    HeaderLen,  \* bytes of a file needed to know its length
    MagicLen,   \* bytes of an image signature
    LookAhead,  \* EMRTD_WORKER_DG2_LOOKAHEAD
    ShortMax, LongMax, FileMax, \* EMRTD_WORKER_{SHORT,LONG}_OFFSET_MAX, _FILE_SIZE_MAX
    MaxReads

Groups == Names \ {"COM", "SOD"}
Image == "DG2"

Digests == {"none", "unsupported", "supported"} \* what EF.SOD gives, if it was read
Listings == {"genuine", "other", "otherLength", "notListed"}
ChipFiles == [length: Nat, declared: Nat, image: Nat]

ASSUME StreamAssumption ==
    /\ Plan \in Seq(Names) \ {<<>>} /\ IsInjective(Plan)
    /\ Minutes \subseteq Nat /\ Minutes # {}
    /\ IsFiniteSet(Names) /\ Image \in Names /\ NoName \notin Names
    \* No raw file is named like one that the export makes itself.
    /\ Names \cap {Face, "mrz.txt", "report.txt"} = {}
    /\ \A d \in Documents : /\ d.chip \in [Names -> ChipFiles]
                            /\ d.sod \in Digests
                            /\ d.listed \in [Names -> Listings]
    /\ Capacity \in [Names -> Nat]
    /\ {Chunk, HeaderLen, MagicLen, LookAhead} \subseteq Nat \ {0}
    /\ {ShortMax, LongMax, FileMax, MaxReads} \subseteq Nat
    /\ FileMax <= LongMax + 1

VARIABLES
    pc, stop,
    doc,        \* the document in the field
    minute, reads,
    at,         \* index in Plan of the file being read
    offset, total, sized, error,    \* the locals of the streaming loop
    head, looking,                  \* worker->lookahead, and whether it is in use
    digest,     \* worker->digest: the bytes folded in
    parse,      \* the parse buffer
    ex,         \* the export
    entries,    \* result->files
    face,       \* result->has_face, face.offset, face_size
    hasMrz, checked, matched, exported

loop   == <<offset, total, sized>>
sinks  == <<head, looking, digest, parse>>
result == <<entries, face, hasMrz, checked, matched>>
still  == <<doc, minute, reads, exported>>
vars   == <<pc, stop, still, at, loop, error, sinks, ex, result>>

File == Plan[at]
\* A byte is the file it belongs to and its place there.
Bytes(f) == [i \in 1 .. doc.chip[f].length |-> <<f, i>>]
\* What the length in a header makes of the whole file; 0 if it gives none.
Declared(f, len) == IF len < HeaderLen THEN 0 ELSE doc.chip[f].declared
\* Past ShortMax the odd instruction is used.  The offset the chip is given is what
\* the command has room for: fifteen bits of P1-P2, or the two bytes of a '54' object.
Long == offset > ShortMax
Named == offset % (1 + IF Long THEN LongMax ELSE ShortMax)
FromChip(len) == SubSeq(Bytes(File), Named + 1, Named + len)
Left == IF Named < doc.chip[File].length THEN doc.chip[File].length - Named ELSE 0
\* An answer may be shorter than was asked, or longer as far as a frame allows.
AnswerLengths == 1 .. (IF Left < Chunk THEN Left ELSE Chunk)

NoDigest == [active |-> FALSE, bytes |-> <<>>]
NoParse == [on |-> FALSE, bytes |-> <<>>, overflowed |-> FALSE]
Pending == [state |-> "Pending", size |-> 0, hash |-> "Unknown", error |-> "None"]

Init ==
    /\ pc = "idle" /\ stop = FALSE /\ doc \in Documents
    /\ minute \in Minutes /\ reads = 0 /\ at = 1
    /\ offset = 0 /\ total = 0 /\ sized = FALSE /\ error = "None"
    /\ head = <<>> /\ looking = FALSE /\ digest = NoDigest /\ parse = NoParse
    /\ ex = NoExport(EmptyCard)
    /\ entries = [f \in Names |-> Pending]
    /\ face = [has |-> FALSE, offset |-> 0, size |-> 0]
    /\ hasMrz = FALSE /\ checked = 0 /\ matched = 0 /\ exported = FALSE

\* A read begins with a clean result, and with an export if the option is on.
Start ==
    /\ pc = "idle" /\ reads < MaxReads
    /\ pc' = "select" /\ stop' = FALSE /\ at' = 1 /\ reads' = reads + 1
    /\ minute' \in {m \in Minutes : m >= minute}
    /\ ex' \in {Free(ex)} \cup Alloc(ex, reads', minute')
    /\ entries' = [f \in Names |-> Pending]
    /\ face' = [has |-> FALSE, offset |-> 0, size |-> 0]
    /\ hasMrz' = FALSE /\ checked' = 0 /\ matched' = 0 /\ exported' = FALSE
    /\ UNCHANGED <<doc, loop, error, sinks>>

Stop ==
    /\ pc # "idle" /\ ~stop /\ stop' = TRUE
    /\ UNCHANGED <<pc, still, at, loop, error, sinks, ex, result>>

\* emrtd_worker_read: a lost card ends the read, and so does the user.
Gone(e) == e \in {"CardLost", "Cancelled"}
NextFile(e) ==
    IF Gone(e) \/ stop \/ at = Len(Plan)
    THEN pc' = "export" /\ UNCHANGED at
    ELSE pc' = "select" /\ at' = at + 1

\* emrtd_worker_read_file up to the first READ BINARY.
SelectFile ==
    /\ pc = "select" /\ ~stop
    /\ ex' \in ExportBegin(ex, File)
    /\ pc' = "ask" /\ error' = "None"
    /\ offset' = 0 /\ total' = 0 /\ sized' = FALSE
    /\ head' = <<>> /\ looking' = (File = Image)
    /\ digest' = [active |-> doc.sod = "supported", bytes |-> <<>>]
    \* The heap may have no room for the buffer; the file is read without it.
    /\ parse' \in {[NoParse EXCEPT !.on = b] : b \in {FALSE, Capacity[File] > 0}}
    /\ entries' = [entries EXCEPT ![File].state = "Reading"]
    /\ UNCHANGED <<stop, still, at, face, hasMrz, checked, matched>>

SelectEnds(state, e) ==
    /\ entries' = [entries EXCEPT ![File] = [Pending EXCEPT !.state = state, !.error = e]]
    /\ NextFile(e)
    /\ UNCHANGED <<stop, still, loop, error, sinks, ex, face, hasMrz, checked, matched>>

SelectFails ==
    /\ pc = "select"
    /\ IF stop THEN SelectEnds("Failed", "Cancelled")
       ELSE \/ SelectEnds("Absent", "FileNotFound")
            \/ SelectEnds("Failed", "Refused")
            \/ SelectEnds("Failed", "CardLost")

(***************************************************************************)
(* The loop: one READ BINARY, in the short form or, past ShortMax, in the  *)
(* odd one, and what its answer does.                                      *)
(***************************************************************************)
asking == <<stop, still, at, loop, sinks, ex, result>>

Leave(e) == pc' = "finish" /\ error' = e
Over == sized /\ offset >= total

Ask ==
    /\ pc = "ask"
    /\ IF stop THEN Leave("Cancelled")
       ELSE IF Over THEN Leave("None")
       ELSE IF offset > LongMax THEN Leave("Unsupported")
       ELSE pc' = "answer" /\ UNCHANGED error
    /\ UNCHANGED asking

Waiting == pc \in {"answer", "again"}

\* 6CXX in the short form: asked once more, with the length the chip names.
WrongLength ==
    /\ pc = "answer" /\ ~Long
    /\ pc' = "again"
    /\ UNCHANGED <<error, asking>>

ExchangeFails ==
    /\ Waiting
    /\ \/ Leave("CardLost")
       \/ Long /\ Leave("Parse")   \* the answer is no '53' object
    /\ UNCHANGED asking

\* 6B00 after something was read is the end of the file; past ShortMax any
\* status word says that the chip does not know the odd instruction.
Refused ==
    /\ Waiting
    /\ \/ Leave(IF Long THEN "Unsupported" ELSE "Refused")
       \/ ~Long /\ offset > 0 /\ Leave("None")
    /\ UNCHANGED asking

NoDataYet ==
    /\ Waiting
    /\ pc' = "ask"
    /\ UNCHANGED <<error, asking>>

NoData ==
    /\ Waiting
    /\ Leave("None")
    /\ UNCHANGED asking

(***************************************************************************)
(* An answer with bytes.                                                   *)
(***************************************************************************)
TotalAsDeclared(len) ==
    LET t == Declared(File, len)
    IN  IF sized THEN total
        ELSE IF t # 0 THEN t ELSE len
\* The length from the header, or the first answer if it gives none or too large a one.
Total(len) ==
    LET t == Declared(File, len)
    IN  IF sized THEN total
        ELSE IF t \in 1 .. FileMax THEN t ELSE len

\* What belongs to the file.
Cut(len) == IF offset + len > Total(len) THEN Total(len) - offset ELSE len

Folded(data) == [digest EXCEPT !.bytes = @ \o data]
\* mbedtls may refuse; the file is then not checked.
DigestUpdate(data) ==
    IF ~digest.active THEN digest' = digest
    ELSE digest' \in {Folded(data), NoDigest}

ParseAppendWhatFits(data) ==
    parse' = IF ~parse.on \/ Len(parse.bytes) + Len(data) > Capacity[File] THEN parse
             ELSE [parse EXCEPT !.bytes = @ \o data]
ParseAppend(data) ==
    parse' = IF ~parse.on \/ parse.overflowed THEN parse
             ELSE IF Len(parse.bytes) + Len(data) > Capacity[File]
                  THEN [parse EXCEPT !.overflowed = TRUE]
                  ELSE [parse EXCEPT !.bytes = @ \o data]

\* emrtd_lds_dg2_find_image: where in the bytes the first signature is.
ImagesIn(bytes) ==
    {i \in 0 .. Len(bytes) - MagicLen :
        \A j \in 1 .. MagicLen : bytes[i + j] = <<Image, doc.chip[Image].image + j>>}

\* How much of an answer the look-ahead takes.
Room(data) == IF LookAhead - Len(head) < Len(data) THEN LookAhead - Len(head) ELSE Len(data)

\* The look-ahead is written, then what of the answer it did not take.
WriteHeld(x, seen, rest) == UNION {ExportWrite(y, rest) : y \in ExportWrite(x, seen)}

\* The head of DG2 is held back until the image is found, the buffer is full or
\* the file is over.
HoldBack(data) ==
    LET seen  == head \o SubSeq(data, 1, Room(data))
        rest  == SubSeq(data, Room(data) + 1, Len(data))
        found == ImagesIn(seen) # {}
        where == Min(ImagesIn(seen))
        armed == IF found THEN ExportArm(ex, where) ELSE {ex}
    IN  /\ face' = IF found THEN [face EXCEPT !.has = TRUE, !.offset = where] ELSE face
        /\ IF found \/ Len(seen) = LookAhead \/ offset' >= total'
           THEN /\ looking' = FALSE /\ head' = <<>>
                /\ ex' \in UNION {WriteHeld(x, seen, rest) : x \in armed}
           ELSE head' = seen /\ UNCHANGED <<looking, ex>>

Data ==
    /\ Waiting
    /\ \E len \in AnswerLengths, eof \in BOOLEAN :  \* eof: 6282
        LET data == SubSeq(FromChip(len), 1, Cut(len)) IN
        /\ total' = Total(len) /\ sized' = TRUE
        /\ offset' = offset + Len(data)
        /\ DigestUpdate(data)
        /\ ParseAppend(data)
        /\ IF looking THEN HoldBack(data)
           ELSE ex' \in ExportWrite(ex, data) /\ UNCHANGED <<head, looking, face>>
        /\ IF stop THEN Leave("Cancelled")
           ELSE IF eof THEN Leave("None")
           ELSE pc' = "ask" /\ UNCHANGED error
    /\ UNCHANGED <<stop, still, at, entries, hasMrz, checked, matched>>

(***************************************************************************)
(* The end of a file.                                                      *)
(***************************************************************************)
\* emrtd_worker_check_hash.
Verdict ==
    IF File \notin Groups \/ doc.sod = "none" THEN "Unknown"
    ELSE IF doc.sod = "unsupported" \/ ~digest.active THEN "UnsupportedDigest"
    ELSE IF doc.listed[File] = "notListed" THEN "NotListed"
    ELSE IF doc.listed[File] = "otherLength" THEN "UnsupportedDigest"
    ELSE IF doc.listed[File] = "genuine" /\ digest.bytes = Bytes(File) THEN "Match"
    ELSE "Mismatch"

Count(b) == IF b THEN 1 ELSE 0

\* What is still held back is written, whatever ended the file.
FlushNothing == {ex}
Flush == IF head = <<>> THEN {ex} ELSE ExportWrite(ex, head)

FileFails ==
    /\ pc = "finish"
    /\ error # "None"
    /\ ex' \in {ExportEnd(x) : x \in Flush}
    /\ entries' = [entries EXCEPT ![File].state = "Failed", ![File].size = offset,
                                  ![File].error = error]
    /\ NextFile(error)
    /\ head' = <<>> /\ looking' = FALSE /\ digest' = NoDigest /\ parse' = NoParse
    /\ UNCHANGED <<stop, still, loop, error, face, hasMrz, checked, matched>>

FileRead ==
    /\ pc = "finish"
    /\ error = "None"
    /\ ex' \in {ExportEnd(x) : x \in Flush}
    /\ face' = IF face.has /\ File = Image /\ offset > face.offset
               THEN [face EXCEPT !.size = offset - face.offset] ELSE face
    /\ checked' = checked + Count(Verdict \in {"Match", "Mismatch"})
    /\ matched' = matched + Count(Verdict = "Match")
    /\ \E e \in {"None", "Parse"} :  \* what the decoder says
        LET decodes == parse.on /\ ~parse.overflowed /\ parse.bytes # <<>> IN
        /\ decodes \/ e = "None"
        /\ entries' = [entries EXCEPT
                ![File] = [state |-> IF parse.overflowed THEN "Failed" ELSE "Read",
                           size |-> offset, hash |-> Verdict,
                           error |-> IF parse.overflowed THEN "BufferTooSmall" ELSE e]]
        /\ hasMrz' = (hasMrz \/ (File = "DG1" /\ decodes /\ e = "None"))
    /\ NextFile("None")
    /\ head' = <<>> /\ looking' = FALSE /\ digest' = NoDigest /\ parse' = NoParse
    /\ UNCHANGED <<stop, still, loop, error>>

\* emrtd_worker_export_result, then the control thread closes the export.
ExportResult ==
    /\ pc = "export"
    /\ pc' = "idle"
    /\ \E x \in (IF ex.open /\ hasMrz THEN WriteText(ex, "mrz.txt") ELSE {ex}) :
       \E y \in (IF ex.open THEN WriteText(x, "report.txt") ELSE {x}) :
            exported' = (y.open /\ ~y.failed) /\ ex' = [y EXCEPT !.open = FALSE]
    /\ UNCHANGED <<stop, doc, minute, reads, at, loop, error, sinks, result>>

Worker ==
    \/ SelectFile \/ SelectFails \/ Ask \/ WrongLength \/ ExchangeFails \/ Refused
    \/ NoData \/ Data \/ FileFails \/ FileRead \/ ExportResult

Next == Start \/ Stop \/ Worker

Spec == Init /\ [][Next]_vars /\ WF_vars(Worker)

(***************************************************************************)
(* Properties.                                                             *)
(***************************************************************************)
Streaming == pc \in {"ask", "answer", "again", "finish"}
Exporting == ex.by # 0 /\ ~ex.failed
Made(n) == ex.by # 0 /\ ex.disk[ex.dir][n].by = ex.by
\* What this read has put into a file of its directory.
Saved(n) == IF Made(n) THEN ex.disk[ex.dir][n].bytes ELSE <<>>
First(f, n) == SubSeq(Bytes(f), 1, n)
From(f, n) == SubSeq(Bytes(f), n + 1, Len(Bytes(f)))

EntryType == [state: {"Pending", "Reading", "Read", "Failed", "Absent"}, size: Nat,
              hash: {"Unknown", "Match", "Mismatch", "NotListed", "UnsupportedDigest"},
              error: {"None", "Cancelled", "FileNotFound", "CardLost", "Unsupported",
                      "Parse", "Refused", "BufferTooSmall"}]

\* The types, and the two buffers of fixed size: the look-ahead of DG2 and the
\* parse buffer are never filled past their end.
TypeOK ==
    /\ pc \in {"idle", "select", "ask", "answer", "again", "finish", "export"}
    /\ doc \in Documents /\ minute \in Minutes /\ reads \in 0 .. MaxReads
    /\ at \in 1 .. Len(Plan) /\ {offset, total, checked, matched} \subseteq Nat
    /\ {stop, sized, looking, hasMrz, exported} \subseteq BOOLEAN
    /\ error \in {"None", "Cancelled", "CardLost", "Unsupported", "Parse", "Refused"}
    /\ head \in Seq(Names \X Nat) /\ Len(head) <= LookAhead
    /\ digest \in [active: BOOLEAN, bytes: Seq(Names \X Nat)]
    /\ parse \in [on: BOOLEAN, bytes: Seq(Names \X Nat), overflowed: BOOLEAN]
    /\ Len(parse.bytes) <= Capacity[File]
    /\ ex \in ExportType
    /\ entries \in [Names -> EntryType]
    /\ face \in [has: BOOLEAN, offset: Nat, size: Nat]

\* Wherever a file stands, the hash, the decoder's buffer and the export (with
\* what is still held back of DG2) have had the same bytes: the first ones of the
\* chip's file, each once and in order (emrtd_worker_stream_file).
SinksAgree ==
    Streaming =>
        /\ digest.active => digest.bytes = First(File, offset)
        /\ parse.on /\ ~parse.overflowed => parse.bytes = First(File, offset)
        /\ Exporting => Saved(File) \o head = First(File, offset)

\* A file that is done is on the card to the length the result gives for it,
\* also one that broke off, as long as the card took everything; a card that
\* fails at any write leaves a beginning of the file, never a file with a gap, and
\* so of the image a beginning of what DG2 holds from it on.
NothingLost ==
    /\ Exporting => \A f \in Names :
          (~Streaming \/ f # File) => Saved(f) = First(f, entries[f].size)
    /\ \A f \in Names : IsPrefix(Saved(f), Bytes(f))
    /\ IsPrefix(Saved(Face), From(Image, face.offset))

\* The image file is the rest of the exported DG2 from the image on, to the byte,
\* and no byte of another file (emrtd_export_write, the window).
ImageIsTheTail ==
    Exporting /\ Made(Face) =>
        /\ face.has
        /\ Saved(Face) = SubSeq(Saved(Image), face.offset + 1, Len(Saved(Image)))

\* A read that says it is exported has a report of this read, with counts that are
\* those of its entries, the MRZ if one was decoded, and every file it lists; a file
\* that is said to match EF.SOD is there whole, to be verified again (docs/usage.md).
ExportedIsComplete ==
    exported =>
        /\ Saved("report.txt") = Text
        /\ matched = Cardinality({f \in Names : entries[f].hash = "Match"})
        /\ checked = Cardinality({f \in Names : entries[f].hash \in {"Match", "Mismatch"}})
        /\ hasMrz => Saved("mrz.txt") = Text
        /\ \A f \in Names : /\ entries[f].state = "Read" => Made(f)
                            /\ entries[f].hash = "Match" => Saved(f) = Bytes(f)

\* A file is said to be out of reach only if the chip refused the odd instruction:
\* where that was needed, and never because the reader itself had run out of offsets,
\* whatever length the file gives; and a file said to be refused was so before that
\* (emrtd_worker.c:986-991).
OutOfReachOnlyIfRefused ==
    \A f \in Names :
        /\ entries[f].error = "Unsupported" => entries[f].size \in ShortMax + 1 .. LongMax
        /\ entries[f].error = "Refused" => entries[f].size <= ShortMax

\* Whatever the chip answers, the read of its files comes to an end.
ReadEnds == pc = "select" ~> pc = "idle"
=============================================================================
