------------------------- MODULE MCAccountLifecycle --------------------------
(* Symmetry for TLC: requests are interchangeable (safety runs only). *)
EXTENDS AccountLifecycle, TLC

MCSymmetry == Permutations(Page)
==============================================================================
