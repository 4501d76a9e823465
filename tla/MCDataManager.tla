--------------------------- MODULE MCDataManager ---------------------------
(* Symmetries for the runs of DataManager. *)
EXTENDS DataManager

Symmetry == Permutations(Indices) \cup Permutations(Providers)
=============================================================================
