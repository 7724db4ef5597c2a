------------------------ MODULE MC_EmailVerification ------------------------
(* Small instances of EmailVerification for TLC.                           *)
EXTENDS EmailVerification, TLC

Symmetry == Permutations(Users) \cup Permutations(Fingerprints) \cup Permutations(Reqs)

=============================================================================
