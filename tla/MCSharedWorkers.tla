--------------------------- MODULE MCSharedWorkers ---------------------------
(* Queries of one shape on shared Workers. *)
EXTENDS SharedWorkers

\* Leases that come and go at any time, and leases that are kept.
AnyLeases == SUBSET Workers
SteadyLeases == {Workers}
=============================================================================
