-------------------------- MODULE SessionLifecycle --------------------------
(***************************************************************************)
(* What the authentication endpoints promise about login sessions, without *)
(* Redis, requests, tasks or locks. A token is unused, then live, then     *)
(* over, and never live again. It becomes live for a user and agent that   *)
(* authenticated, or in exchange for a token that is over already, for the *)
(* same user and agent. AuthSystem implements this specification.          *)
(***************************************************************************)
CONSTANTS
    Users, Agents, Tokens,
    None             \* no owner, no predecessor

VARIABLES
    status,          \* per token: "unused", "live" or "over"
    owner,           \* per token: the user and agent it was made for
    parent,          \* per token: the token it was exchanged for
    authenticated    \* the users and agents that proved who they are

vars == <<status, owner, parent, authenticated>>

Init ==
    /\ status = [p \in Tokens |-> "unused"]
    /\ owner = [p \in Tokens |-> None]
    /\ parent = [p \in Tokens |-> None]
    /\ authenticated = {}

Authenticate(u, a) ==
    /\ authenticated' = authenticated \cup {[user |-> u, agent |-> a]}
    /\ UNCHANGED <<status, owner, parent>>

(* A fresh token for someone who authenticated.                            *)
Open(q) ==
    /\ status[q] = "unused"
    /\ status' = [status EXCEPT ![q] = "live"]
    /\ \E s \in authenticated : owner' = [owner EXCEPT ![q] = s]
    /\ UNCHANGED <<parent, authenticated>>

(* A fresh token for the owner of one that is over.                        *)
Exchange(p, q) ==
    /\ status[p] = "over" /\ status[q] = "unused"
    /\ status' = [status EXCEPT ![q] = "live"]
    /\ owner' = [owner EXCEPT ![q] = owner[p]]
    /\ parent' = [parent EXCEPT ![q] = p]
    /\ UNCHANGED authenticated

End(p) ==
    /\ status[p] = "live"
    /\ status' = [status EXCEPT ![p] = "over"]
    /\ UNCHANGED <<owner, parent, authenticated>>

Next ==
    \/ \E u \in Users, a \in Agents : Authenticate(u, a)
    \/ \E q \in Tokens : Open(q)
    \/ \E p, q \in Tokens : Exchange(p, q)
    \/ \E p \in Tokens : End(p)

Spec == Init /\ [][Next]_vars

=============================================================================
