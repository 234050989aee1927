---------------------------- MODULE MCLimiter ----------------------------
(* Limiter for TLC.  Liveness is checked, so no symmetry is declared.     *)
EXTENDS Limiter

=============================================================================
