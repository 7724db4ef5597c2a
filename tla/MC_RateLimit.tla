---------------------------- MODULE MC_RateLimit ----------------------------
(* Small instances of RateLimit for TLC.                                   *)
EXTENDS RateLimit, TLC

Symmetry == Permutations(Reqs)

=============================================================================
