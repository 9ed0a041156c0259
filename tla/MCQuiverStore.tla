--------------------------- MODULE MCQuiverStore ---------------------------
(* Model-checking instances of QuiverStore.                                *)
EXTENDS StoreRefinement, TLC

Symmetry == Permutations(Names) \cup Permutations(Ids) \cup Permutations(Vals)
=============================================================================
