------------------------------- MODULE MC_Mfa -------------------------------
(* Small instances of Mfa for TLC.                                         *)
EXTENDS Mfa, TLC

Symmetry == Permutations(Devices) \cup Permutations(Keys) \cup Permutations(Reqs)

=============================================================================
