---------------------------- MODULE MCFolderSync -----------------------------
(* Symmetry for TLC: messages are interchangeable. *)
EXTENDS FolderSync, TLC

MCSymmetry == Permutations(Content)
==============================================================================
