----------------------------- MODULE MCProfile -----------------------------
(* Profile for TLC: names and passwords are interchangeable.               *)
EXTENDS Profile, TLC

Symmetry == Permutations(Names) \cup Permutations(Passwords)

=============================================================================
