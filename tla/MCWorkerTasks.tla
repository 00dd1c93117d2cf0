--------------------------- MODULE MCWorkerTasks ---------------------------
(* Instance of WorkerTasks for TLC. *)
EXTENDS WorkerTasks
============================================================================
