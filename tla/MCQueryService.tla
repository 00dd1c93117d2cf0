--------------------------- MODULE MCQueryService ---------------------------
(* Instance of QueryService for TLC.                                        *)
EXTENDS QueryService
============================================================================
