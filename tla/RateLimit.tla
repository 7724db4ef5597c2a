------------------------------ MODULE RateLimit ------------------------------
(***************************************************************************)
(* The request counters that handlers keep in Redis: INCR, then EXPIRE,    *)
(* then a comparison with the limit. The code has the idiom in two forms.  *)
(* RedisService.increment renews the expiry at every call (login, refresh, *)
(* the admin's daily limit, the attempts of an MFA device); three routes   *)
(* set it only when the counter is 1 (token refresh, reset confirmation,   *)
(* admin e-mail). INCR and EXPIRE are two commands: other requests and the *)
(* expiry of the key come between, and a request may end there. The client *)
(* sends a command once more when its answer does not come in time         *)
(* (retry_on_timeout), and INCR then counts twice.                         *)
(***************************************************************************)
EXTENDS FiniteSets, Naturals

CONSTANTS
    Renewed,   \* keys counted by RedisService.increment
    Fixed,     \* keys whose expiry is set with the first count
    Reqs,      \* requests; each counts once
    Limit,     \* requests let through: between 5 and 500 in the code
    None

Keys == Renewed \cup Fixed

ASSUME RateLimitAssumption ==
    Limit \in Nat /\ IsFiniteSet(Reqs) /\ Renewed \cap Fixed = {} /\ None \notin Keys

VARIABLES
    count,   \* value of each key; an absent key counts as 0
    ttl,     \* keys that have a time to live
    epoch,   \* history: how often each key has expired
    req      \* per request: program counter and locals

vars == <<count, ttl, epoch, req>>

Request == [pc : {"idle", "resend", "expire", "passed", "refused", "dead"},
            key : Keys \cup {None},
            resent : BOOLEAN,   \* history: INCR was sent twice
            nth : Nat,          \* value after its last INCR
            epoch : Nat]        \* history: epoch of the key at that moment
IdleReq == [pc |-> "idle", key |-> None, resent |-> FALSE, nth |-> 0, epoch |-> 0]

(* Every variable keeps its type; only an existing key has a time to live, *)
(* and no request counts more than twice.                                  *)
TypeOK ==
    /\ count \in [Keys -> 0 .. 2 * Cardinality(Reqs)]
    /\ ttl \subseteq {k \in Keys : count[k] > 0}
    /\ epoch \in [Keys -> 0 .. 2 * Cardinality(Reqs)]
    /\ req \in [Reqs -> Request]

Init ==
    /\ count = [k \in Keys |-> 0]
    /\ ttl = {}
    /\ epoch = [k \in Keys |-> 0]
    /\ req = [r \in Reqs |-> IdleReq]

-----------------------------------------------------------------------------
(* Mutant: the request that finds the limit reached is let through.        *)
VerdictLate(nth) == IF nth > Limit + 1 THEN "refused" ELSE "passed"

(* count > limit raises 429.                                               *)
Verdict(nth) == IF nth > Limit THEN "refused" ELSE "passed"

(* Mutant: the expiry is left to the first count of every key.             *)
SetsExpiryOnce(k, nth) == nth = 1

SetsExpiry(k, nth) == k \in Renewed \/ nth = 1

(* A request that has not counted yet, or whose INCR is sent again.        *)
CanCount(r, k) ==
    \/ req[r].pc = "idle"
    \/ req[r].pc = "resend" /\ req[r].key = k

(* INCR of k.                                                              *)
Counted(r, k, pc) ==
    /\ count' = [count EXCEPT ![k] = @ + 1]
    /\ req' = [req EXCEPT ![r] = [pc |-> pc, key |-> k, nth |-> count[k] + 1,
                                  resent |-> req[r].pc = "resend" \/ pc = "resend",
                                  epoch |-> epoch[k]]]
    /\ UNCHANGED <<ttl, epoch>>

(* redis.incr answers with the new value, on which all later decisions     *)
(* rest.                                                                   *)
Increment(r, k) ==
    LET nth == count[k] + 1 IN
    /\ CanCount(r, k)
    /\ Counted(r, k, IF SetsExpiry(k, nth) THEN "expire" ELSE Verdict(nth))

(* Mutant: the command is sent again and again.                            *)
LoseAnswerAlways(r, k) ==
    /\ CanCount(r, k)
    /\ Counted(r, k, "resend")

(* The answer is lost: the client will send the command again, once.       *)
LoseAnswer(r, k) ==
    /\ req[r].pc = "idle"
    /\ Counted(r, k, "resend")

(* Mutant: the expiry is left to whoever counted last.                     *)
ExpireIfUnchanged(r) ==
    LET k == req[r].key IN
    /\ req[r].pc = "expire"
    /\ ttl' = IF count[k] = req[r].nth THEN ttl \cup {k} ELSE ttl
    /\ req' = [req EXCEPT ![r].pc = Verdict(req[r].nth)]
    /\ UNCHANGED <<count, epoch>>

(* redis.expire: nothing happens to a key that is gone.                    *)
SetExpiry(r) ==
    LET k == req[r].key IN
    /\ req[r].pc = "expire"
    /\ ttl' = IF count[k] > 0 THEN ttl \cup {k} ELSE ttl
    /\ req' = [req EXCEPT ![r].pc = Verdict(req[r].nth)]
    /\ UNCHANGED <<count, epoch>>

(* A Redis error, a cancelled request or a crash before EXPIRE.            *)
Die(r) ==
    /\ req[r].pc \in {"resend", "expire"}
    /\ req' = [req EXCEPT ![r].pc = "dead"]
    /\ UNCHANGED <<count, ttl, epoch>>

(* The window ends.                                                        *)
Expire(k) ==
    /\ k \in ttl
    /\ count' = [count EXCEPT ![k] = 0]
    /\ ttl' = ttl \ {k}
    /\ epoch' = [epoch EXCEPT ![k] = @ + 1]
    /\ UNCHANGED req

Next ==
    \/ \E r \in Reqs :
        \/ \E k \in Keys : Increment(r, k) \/ LoseAnswer(r, k)
        \/ SetExpiry(r)
        \/ Die(r)
    \/ \E k \in Keys : Expire(k)

Spec == Init /\ [][Next]_vars

-----------------------------------------------------------------------------
CountedNow(r, k) == req[r].key = k /\ req[r].epoch = epoch[k]

(* In one window at most Limit requests pass, however they overlap with    *)
(* each other and with the end of the window before.                       *)
WindowCapped ==
    \A k \in Keys, e \in 0 .. 2 * Cardinality(Reqs) :
        Cardinality({r \in Reqs : req[r].pc = "passed" /\ req[r].key = k
                                  /\ req[r].epoch = e}) <= Limit

(* Whoever increment refuses may come back: the key that refused has a     *)
(* time to live, because every call renews it before it compares, also     *)
(* after a request that ended between its two commands.                    *)
RefusalEnds ==
    \A r \in Reqs, k \in Renewed :
        req[r].pc = "refused" /\ CountedNow(r, k) => k \in ttl

(* A counter that will never expire is the doing of a request that stopped *)
(* before its EXPIRE, or, of a key with a fixed window, of one whose first *)
(* answer was lost: the second INCR does not return 1.                     *)
EndlessOnlyByFault ==
    \A k \in Keys : count[k] > 0 /\ k \notin ttl =>
        \E r \in Reqs :
            /\ CountedNow(r, k)
            /\ \/ req[r].pc \in {"resend", "expire", "dead"} /\ (k \in Fixed => req[r].nth = 1)
               \/ k \in Fixed /\ req[r].resent

=============================================================================
