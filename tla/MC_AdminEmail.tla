--------------------------- MODULE MC_AdminEmail ---------------------------
(* Small instances of AdminEmail for TLC.                                  *)
EXTENDS AdminEmail, TLC

Symmetry == Permutations(Reqs) \cup Permutations(Keys)

=============================================================================
