------------------------------- MODULE Export -------------------------------
(***************************************************************************)
(* emrtd_export: the directory one read leaves on the SD card.  The card   *)
(* may refuse any file and may take fewer bytes than it is given; the      *)
(* first such failure makes the export do nothing from then on.            *)
(*                                                                         *)
(* The export is one record, the card included, and an operation is the    *)
(* set of records it may leave behind, so that what the worker does in one *)
(* go is one step.  The trace is not here: its writes change nothing else. *)
(***************************************************************************)
EXTENDS Naturals, Sequences

CONSTANTS Names,    \* the raw files
          Minutes   \* the directory is named after the document and the minute

Face == "face"
AllNames == Names \cup {Face, "mrz.txt", "report.txt"}
NoName == "none"

\* What is on the card under a path: the read that made it, and its bytes.
NotThere == [by |-> 0, bytes |-> <<>>]
EmptyCard == [m \in Minutes |-> [n \in AllNames |-> NotThere]]
Text == <<<<"line", 1>>>>

\* No export is open: export_ctx is NULL.
NoExport(disk) ==
    [open |-> FALSE, failed |-> FALSE, by |-> 0, dir |-> CHOOSE m \in Minutes : TRUE,
     file |-> NoName, image |-> NoName, armed |-> FALSE, imageOffset |-> 0,
     offset |-> 0, disk |-> disk]

\* FSAM_WRITE, FSOM_CREATE_ALWAYS: what was there is gone.
Created(x, n) == [x EXCEPT !.disk[x.dir][n] = [by |-> x.by, bytes |-> <<>>]]
Appended(x, n, data) == [x EXCEPT !.disk[x.dir][n].bytes = @ \o data]
Failed(x) == [x EXCEPT !.failed = TRUE]

\* A card that runs full takes some of the bytes.
TornWrites(x, n, data) ==
    {Failed(Appended(x, n, SubSeq(data, 1, k))) : k \in 0 .. Len(data) - 1}

\* emrtd_export_alloc.  A directory that is there already will do.
Alloc(x, read, minute) ==
    LET y == [NoExport(x.disk) EXCEPT !.open = TRUE, !.by = read, !.dir = minute]
    IN  {y, Failed(y)}

EndFile(x) ==
    [x EXCEPT !.file = NoName, !.image = NoName, !.armed = FALSE,
              !.imageOffset = 0, !.offset = 0]

BeginFile(x, n) ==
    LET y == EndFile(x)
    IN  IF y.failed THEN {y} ELSE {[Created(y, n) EXCEPT !.file = n], Failed(y)}

\* The image is a window onto the bytes of the open file.
InWindowFromAnswer(x, data) ==
    IF x.image = NoName \/ x.offset + Len(data) <= x.imageOffset THEN <<>> ELSE data
InWindow(x, data) ==
    IF x.image = NoName \/ x.offset + Len(data) <= x.imageOffset THEN <<>>
    ELSE LET skip == IF x.offset < x.imageOffset THEN x.imageOffset - x.offset ELSE 0
         IN  SubSeq(data, skip + 1, Len(data))

Write(x, data) ==
    LET counted == [x EXCEPT !.offset = @ + Len(data)]
        image   == InWindow(x, data)
        y       == Appended(x, x.file, data)
    IN  IF x.failed \/ x.file = NoName \/ data = <<>> THEN {counted}
        ELSE TornWrites(x, x.file, data)
             \cup IF image = <<>> THEN {Appended(counted, x.file, data)}
                  ELSE TornWrites(y, Face, image)
                       \cup {Appended(Appended(counted, x.file, data), Face, image)}

\* An image file that cannot be made does not fail the export.
ArmImage(x, at) ==
    IF x.failed \/ x.armed THEN {x}
    ELSE LET y == [x EXCEPT !.armed = TRUE, !.imageOffset = at]
         IN  {y, [Created(y, Face) EXCEPT !.image = Face]}

\* mrz.txt and report.txt: opened, written line by line, closed.
WriteTextQuietly(x, n) ==
    IF x.failed THEN {x}
    ELSE {Failed(x), Created(x, n), Appended(Created(x, n), n, Text)}
WriteText(x, n) ==
    IF x.failed THEN {x}
    ELSE {Failed(x), Failed(Created(x, n)), Appended(Created(x, n), n, Text)}

Free(x) == NoExport(x.disk)

(***************************************************************************)
(* The worker's wrappers: with no export open each of them does nothing.   *)
(***************************************************************************)
ExportBegin(x, n) == IF x.open THEN BeginFile(x, n) ELSE {x}
ExportWrite(x, data) == IF x.open THEN Write(x, data) ELSE {x}
ExportEnd(x) == IF x.open THEN EndFile(x) ELSE x
ExportArm(x, at) == IF x.open THEN ArmImage(x, at) ELSE {x}

ExportType ==
    [open: BOOLEAN, failed: BOOLEAN, by: Nat, dir: Minutes,
     file: Names \cup {NoName}, image: {NoName, Face}, armed: BOOLEAN,
     imageOffset: Nat, offset: Nat,
     disk: [Minutes -> [AllNames -> [by: Nat, bytes: Seq((Names \cup {"line"}) \X Nat)]]]]
=============================================================================
