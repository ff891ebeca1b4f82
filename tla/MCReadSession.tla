--------------------------- MODULE MCReadSession ----------------------------
(***************************************************************************)
(* Two groups that can be read and one behind Extended Access Control      *)
(* between them, with both or one of the two asked for, and the method     *)
(* automatic or pinned to the one that may turn out not to be there.       *)
(***************************************************************************)
EXTENDS ReadSession

MCGroups == <<"DG1", "DG3", "DG14">>
MCEac == {"DG3"}
MCSelections == {{"DG1", "DG14"}, {"DG14"}}
MCPins == {"Auto", "PACE"}
=============================================================================
