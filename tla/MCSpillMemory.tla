---------------------------- MODULE MCSpillMemory ----------------------------
(* Instances of SpillMemory for TLC. *)
EXTENDS SpillMemory
=============================================================================
