-------------------------- MODULE MC_SessionSweep --------------------------
(* HTTP handlers and a sweep: the digest of k1, whoever gets it, holds the *)
(* id of every user.                                                       *)
EXTENDS SessionSweep, TLC

CONSTANTS k1, k2, k3

HttpRoutes == {"login", "refresh", "logout"}
MCTokens == {k1, k2, k3}
MCMatches == [u \in Users |-> {k1}]

Symmetry == Permutations(Agents) \cup Permutations({k2, k3}) \cup Permutations(Reqs)

=============================================================================
