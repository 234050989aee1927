--------------------------- MODULE MCLoginStyle ---------------------------
(* LoginStyle for TLC: files and requests of a kind are interchangeable.   *)
EXTENDS LoginStyle, TLC

Symmetry == Permutations(Files) \cup Permutations(Writers) \cup Permutations(Readers)

=============================================================================
