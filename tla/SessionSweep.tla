---------------------------- MODULE SessionSweep ----------------------------
(***************************************************************************)
(* invalidate_old_tokens, which a right MFA code starts, on the session    *)
(* store with everyone who writes it. delete_pattern lists the keys that   *)
(* match "rt:*<user id>*" and deletes them one by one, while handlers and  *)
(* tasks go on. The key is a digest of the token: which keys hold the      *)
(* digits of a user's id has nothing to do with whose they are, so a sweep *)
(* may take other users' sessions and leave the user's own. The other two  *)
(* patterns and the fingerprint it blacklists are keys that nothing in the *)
(* program writes or reads. One sweep of a user runs at a time here.       *)
(***************************************************************************)
EXTENDS AuthSystem

CONSTANT Matches   \* per user: the tokens whose digest holds the user's id

ASSUME SweepAssumption == Matches \in [Users -> SUBSET Tokens]

VARIABLES
    found,      \* per user: keys listed by the user's sweep and not yet deleted
    swept       \* history: tokens deleted by a sweep

sweepVars == <<found, swept>>

(* Every variable keeps its type: a sweep has only keys that match.        *)
SweepTypeOK ==
    /\ TypeOK
    /\ found \in [Users -> SUBSET issued]
    /\ \A u \in Users : found[u] \subseteq Matches[u]
    /\ swept \subseteq issued

Live == {p \in Tokens : rt[p] # None}

SweepInit == Init /\ found = [u \in Users |-> {}] /\ swept = {}

(* Mutant: the pattern is "rt:*".                                          *)
ListAll(u) ==
    /\ found[u] = {}
    /\ found' = [found EXCEPT ![u] = Live]
    /\ UNCHANGED <<vars, swept>>

(* The keys that match are listed.                                         *)
List(u) ==
    /\ found[u] = {}
    /\ found' = [found EXCEPT ![u] = Matches[u] \cap Live]
    /\ UNCHANGED <<vars, swept>>

Delete(u, p) ==
    /\ p \in found[u]
    /\ Drop(p)
    /\ found' = [found EXCEPT ![u] = @ \ {p}]
    /\ swept' = swept \cup {p}
    /\ UNCHANGED <<authVars, taskVars>>

(* An exception ends the sweep before its last key.                        *)
Stop(u) ==
    /\ found[u] # {}
    /\ found' = [found EXCEPT ![u] = {}]
    /\ UNCHANGED <<vars, swept>>

SweepNext ==
    \/ Next /\ UNCHANGED sweepVars
    \/ \E u \in Users : List(u) \/ Stop(u) \/ \E p \in Tokens : Delete(u, p)

SweepSpec == SweepInit /\ [][SweepNext]_<<vars, sweepVars>>

-----------------------------------------------------------------------------
(* What a sweep has deleted stays deleted, although handlers and tasks     *)
(* that read a record before the sweep go on with what they read: their    *)
(* successors are other tokens (mfa_service.py:59-78,                      *)
(* auth_service.py:116-150).                                               *)
SweptStaysDead == \A p \in swept : rt[p] = None

=============================================================================
