-------------------------- MODULE MCSecureSession ---------------------------
(***************************************************************************)
(* Five commands, so that two failures can be followed by exchanges that   *)
(* are answered; two copies, the number a slipped block layer sends.       *)
(***************************************************************************)
EXTENDS SecureSessionInvariant
=============================================================================
