--------------------------- MODULE MCInProcessRuns ---------------------------
(* A join of two inputs, up to three runs in each part.                      *)
EXTENDS InProcessRuns
==============================================================================
