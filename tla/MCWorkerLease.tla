---------------------------- MODULE MCWorkerLease ----------------------------
(* Constants for model checking WorkerLease. *)
EXTENDS WorkerLease
=============================================================================
