-------------------------- MODULE MCRegistration --------------------------
(* Registration for TLC: requests, keys and names are interchangeable.     *)
EXTENDS Registration, TLC

Symmetry == Permutations(Requests) \cup Permutations(Keys) \cup Permutations(Names)

=============================================================================
