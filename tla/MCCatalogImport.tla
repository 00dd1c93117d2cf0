--------------------------- MODULE MCCatalogImport ---------------------------
(* Instances of CatalogImport for TLC. *)
EXTENDS CatalogImport, TLC

(* Tables, locations, import ids and readers are opaque: no action tells two of a kind *)
(* apart.                                                                              *)
Symmetry ==
  Permutations(Tables) \cup Permutations(Locations)
  \cup Permutations(Imports) \cup Permutations(Readers)
=============================================================================
