---------------------------- MODULE SessionStore ----------------------------
(***************************************************************************)
(* The Redis keys that hold a login session, shared by the HTTP handlers   *)
(* (AuthService) and by the Celery task (RefreshTask).                     *)
(*                                                                         *)
(* A token stands for the pair minted together: the refresh token, whose   *)
(* hash is the key of the session record, and the access token sent along. *)
(* The key "rt:<hash>" holds "<user id>:<hash of the user agent>".         *)
(***************************************************************************)
EXTENDS FiniteSets, Naturals

CONSTANTS
    Users,    \* accounts
    Agents,   \* user agents
    Tokens,   \* token pairs: each is minted at most once (its jti is a uuid4)
    None      \* an absent key

Session == [user : Users, agent : Agents]

ASSUME NoneAssumption == None \notin Session /\ None \notin Tokens

VARIABLES
    rt,       \* key "rt:<hash>": a Session, or None when absent
    blrt,     \* tokens whose "bl:rt:<hash>" was ever set
    blat,     \* tokens whose "bl:at:<hash>" was ever set
    issued,   \* history: tokens minted so far
    parent,   \* history: the token a token was rotated from, None after a login
    owner,    \* history: the Session a token was minted for
    logins    \* history: the (user, agent) pairs that authenticated

storeVars == <<rt, blrt, blat, issued, parent, owner, logins>>

StoreTypeOK ==
    /\ rt \in [Tokens -> Session \cup {None}]
    /\ blrt \subseteq Tokens
    /\ blat \subseteq Tokens
    /\ issued \subseteq Tokens
    /\ parent \in [Tokens -> Tokens \cup {None}]
    /\ owner \in [Tokens -> Session \cup {None}]
    /\ logins \subseteq Session

StoreInit ==
    /\ rt = [p \in Tokens |-> None]
    /\ blrt = {}
    /\ blat = {}
    /\ issued = {}
    /\ parent = [p \in Tokens |-> None]
    /\ owner = [p \in Tokens |-> None]
    /\ logins = {}

(* Mint a fresh pair q, rotated from p (None: after a login), and SET its  *)
(* record. Creating the pair touches nothing shared, so it is one step     *)
(* with the SET that publishes it.                                         *)
Mint(q, user, agent, p) ==
    /\ q \notin issued
    /\ issued' = issued \cup {q}
    /\ parent' = [parent EXCEPT ![q] = p]
    /\ rt' = [rt EXCEPT ![q] = [user |-> user, agent |-> agent]]
    /\ owner' = [owner EXCEPT ![q] = [user |-> user, agent |-> agent]]
    /\ UNCHANGED <<blrt, blat, logins>>

(* DELETE rt:<hash>. The number of keys deleted is not looked at.          *)
Drop(p) ==
    /\ rt' = [rt EXCEPT ![p] = None]
    /\ UNCHANGED <<blrt, blat, issued, parent, owner, logins>>

(* SET bl:rt:<hash> and SET bl:at:<hash>. Nothing in the program reads     *)
(* these keys, so their expiry is not modelled.                            *)
BlacklistRefresh(p) ==
    /\ blrt' = blrt \cup {p}
    /\ UNCHANGED <<rt, blat, issued, parent, owner, logins>>

BlacklistAccess(p) ==
    /\ blat' = blat \cup {p}
    /\ UNCHANGED <<rt, blrt, issued, parent, owner, logins>>

(* The record's TTL runs out, between any two steps of anyone.             *)
ExpireSession(p) ==
    /\ rt[p] # None
    /\ Drop(p)

=============================================================================
