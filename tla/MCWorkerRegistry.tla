-------------------------- MODULE MCWorkerRegistry --------------------------
(* Instance of WorkerRegistry for TLC. *)
EXTENDS WorkerRegistry
=============================================================================
