----------------------------- MODULE MCSettings ------------------------------
(* Settings on a small instance. *)
EXTENDS Settings
=============================================================================
