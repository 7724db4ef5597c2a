-------------------------- MODULE MC_PasswordReset --------------------------
(* Small instances of PasswordReset for TLC.                               *)
EXTENDS PasswordReset, TLC

Symmetry == Permutations(Users) \cup Permutations(Creators) \cup Permutations(Reqs)

=============================================================================
