-------------------------- MODULE MCWorkerThreads ---------------------------
(***************************************************************************)
(* Two reads one after the other, so that what the first leaves behind     *)
(* meets the second; the dispatcher's queue is as long as on the device.   *)
(***************************************************************************)
EXTENDS WorkerThreads
=============================================================================
