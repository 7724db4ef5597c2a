---------------------------- MODULE MC_AuthSystem ----------------------------
(* Small instances of AuthSystem for TLC: clients of the queued endpoint.  *)
EXTENDS AuthSystem, TLC

TaskRoutes == {"login", "token/refresh"}

Symmetry == Permutations(Users) \cup Permutations(Agents) \cup Permutations(Tokens)
              \cup Permutations(Reqs) \cup Permutations(Tasks)

=============================================================================
