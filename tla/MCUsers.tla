------------------------------ MODULE MCUsers ------------------------------
\* Users for TLC: tokens, requests and addresses are interchangeable.
EXTENDS Users, TLC

Symmetry == Permutations(User) \cup Permutations(Request) \cup Permutations(Address)
=============================================================================
