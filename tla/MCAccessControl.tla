--------------------------- MODULE MCAccessControl ----------------------------
(* AccessControl on every kind of document and credentials. *)
EXTENDS AccessControl
=============================================================================
