---------------------------- MODULE MCTwoFactor ----------------------------
(* Instances of TwoFactor for TLC. *)
EXTENDS TwoFactor, TLC

Symmetry == Permutations(Requests) \cup Permutations(Secrets) \cup Permutations(Batches)
                \cup Permutations(Passwords)

=============================================================================
