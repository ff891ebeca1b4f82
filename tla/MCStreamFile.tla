---------------------------- MODULE MCStreamFile ----------------------------
(***************************************************************************)
(* Files of a few bytes: a header of two, answers of up to three, a        *)
(* look-ahead of four; past offset 3 the odd instruction is needed, and    *)
(* eight bytes are the longest file.                                       *)
(***************************************************************************)
EXTENDS StreamFile, TLC

NoImage == 20
Chip(length, declared, image) == [length |-> length, declared |-> declared, image |-> image]

\* The image near the head, behind the look-ahead's first answer, and nowhere; a file
\* shorter than it says, one longer, one whose header gives no length, one of the
\* length that is the longest, and one longer still.
Pictures == {Chip(6, 6, 1), Chip(8, 8, 3), Chip(6, 7, NoImage), Chip(8, 7, 2), Chip(5, 0, 1),
             Chip(9, 9, NoImage)}
\* A DG1 that fits the parse buffer, and one that does not.
SmallGroups == {Chip(3, 3, NoImage), Chip(4, 4, NoImage)}

ReadNames == {"DG2", "DG1"}
ReadPlan == <<"DG2", "DG1">>
ReadCapacity == [f \in ReadNames |-> IF f = "DG1" THEN 3 ELSE 0]
Listed(l) == [f \in ReadNames |-> l]
ReadDocuments ==
    {[chip |-> ("DG2" :> p @@ "DG1" :> g), sod |-> "supported", listed |-> Listed("genuine")] :
        p \in Pictures, g \in SmallGroups}
    \cup {[chip |-> ("DG2" :> Chip(2, 2, NoImage) @@ "DG1" :> Chip(2, 2, NoImage)),
           sod |-> s, listed |-> Listed(l)] : s \in Digests, l \in Listings}

=============================================================================
