--------------------------- MODULE ResetLifecycle ---------------------------
(***************************************************************************)
(* What the password reset endpoints promise, without transactions, locks, *)
(* tasks or retries. A token is issued to a user. It sets one password, or *)
(* it ends when a newer one is issued to the same user: a request ends at  *)
(* least those that could be used when it began. A client is told that its *)
(* password is set only when it is. The thirty minutes a token lasts are   *)
(* no part of this: they only take possibilities away. PasswordReset       *)
(* implements this specification.                                          *)
(***************************************************************************)
CONSTANTS
    Users, Tokens,
    Creators,        \* those who may request tokens at the same time
    Reqs,            \* clients with a token and a new password
    None             \* no user, no token

VARIABLES
    owner,           \* per token: the user it was issued to
    usable,          \* the tokens that can still set a password
    want,            \* per creator: the user it requests a token for
    old,             \* per creator: the usable tokens its request will end
    asked,           \* per client: its token
    changed,         \* the clients whose password was set
    answer           \* per client: "idle", "waiting", "ok" or "refused"

vars == <<owner, usable, want, old, asked, changed, answer>>

Init ==
    /\ owner = [i \in Tokens |-> None]
    /\ usable = {}
    /\ want = [c \in Creators |-> None]
    /\ old = [c \in Creators |-> {}]
    /\ asked = [r \in Reqs |-> None]
    /\ changed = {}
    /\ answer = [r \in Reqs |-> "idle"]

UsableOf(u) == {i \in usable : owner[i] = u}

Begin(c, u) ==
    /\ want[c] = None
    /\ want' = [want EXCEPT ![c] = u]
    /\ old' = [old EXCEPT ![c] = UsableOf(u)]
    /\ UNCHANGED <<owner, usable, asked, changed, answer>>

Cancel(c) ==
    /\ want[c] # None
    /\ want' = [want EXCEPT ![c] = None]
    /\ old' = [old EXCEPT ![c] = {}]
    /\ UNCHANGED <<owner, usable, asked, changed, answer>>

(* A fresh token; of the user's others all old ones end, perhaps more.     *)
Issue(c, i) ==
    /\ want[c] # None /\ owner[i] = None
    /\ owner' = [owner EXCEPT ![i] = want[c]]
    /\ want' = [want EXCEPT ![c] = None]
    /\ \E ended \in SUBSET UsableOf(want[c]) :
          /\ old[c] \subseteq ended
          /\ usable' = (usable \ ended) \cup {i}
          /\ old' = [d \in Creators |-> IF d = c THEN {} ELSE old[d] \ ended]
    /\ UNCHANGED <<asked, changed, answer>>

Ask(r, i) ==
    /\ answer[r] = "idle" /\ owner[i] # None
    /\ answer' = [answer EXCEPT ![r] = "waiting"]
    /\ asked' = [asked EXCEPT ![r] = i]
    /\ UNCHANGED <<owner, usable, want, old, changed>>

(* The password of the token's owner is set, and the token is over.        *)
Change(r) ==
    /\ asked[r] \in usable
    /\ changed' = changed \cup {r}
    /\ usable' = usable \ {asked[r]}
    /\ old' = [c \in Creators |-> old[c] \ {asked[r]}]
    /\ UNCHANGED <<owner, want, asked, answer>>

Answer(r) ==
    /\ answer[r] = "waiting"
    /\ \/ r \in changed /\ answer' = [answer EXCEPT ![r] = "ok"]
       \/ answer' = [answer EXCEPT ![r] = "refused"]
    /\ UNCHANGED <<owner, usable, want, old, asked, changed>>

Next ==
    \/ \E c \in Creators : \/ \E u \in Users : Begin(c, u)
                           \/ Cancel(c)
                           \/ \E i \in Tokens : Issue(c, i)
    \/ \E r \in Reqs : \/ \E i \in Tokens : Ask(r, i)
                       \/ Change(r) \/ Answer(r)

Spec == Init /\ [][Next]_vars

=============================================================================
