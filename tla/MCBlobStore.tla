----------------------------- MODULE MCBlobStore -----------------------------
(* Symmetry for TLC: inodes and writers are interchangeable. *)
EXTENDS BlobStore, TLC

MCSymmetry == Permutations(Inode) \cup Permutations(Writer)
==============================================================================
