---------------------------- MODULE MCSessions ----------------------------
(* Sessions for TLC: keys and commands are interchangeable.                *)
EXTENDS Sessions, TLC

Symmetry == Permutations(KeyPairs) \cup Permutations(Commands)

=============================================================================
