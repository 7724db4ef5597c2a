-------------------------- MODULE EmailVerification --------------------------
(***************************************************************************)
(* Sending a verification e-mail: a cooldown per user and per fingerprint  *)
(* (SET NX EX in Redis), a counter of active tokens (a Lua script), and    *)
(* two database transactions, one that invalidates the user's old tokens   *)
(* and one that inserts the new token with its e-mail. Requests overlap;   *)
(* each Redis command, script and commit is one step, and any of them may  *)
(* be the handler's last. The client sends a command once more when its    *)
(* answer does not come in time, and the script or the decrement runs      *)
(* twice; of SET NX the repetition is told that the key was taken, which   *)
(* ends the request like an error.                                         *)
(***************************************************************************)
EXTENDS FiniteSets, Integers

CONSTANTS
    Users, Fingerprints, Reqs,
    MaxActive,   \* MAX_ACTIVE_TOKENS: 5 in the code
    MaxIds,      \* bound: tokens ever inserted
    MaxSpans,    \* bound: cooldowns a user or a fingerprint ever starts
    None

ASSUME VerificationAssumption ==
    /\ MaxActive \in Nat \ {0} /\ MaxIds \in Nat /\ MaxSpans \in Nat \ {0}
    /\ Users \cap Fingerprints = {} /\ IsFiniteSet(Reqs) /\ None \notin Users \cup Fingerprints

Ids == 1 .. MaxIds
Subjects == Users \cup Fingerprints   \* what a cooldown key names

VARIABLES
    cooling,   \* subjects whose cooldown key exists
    spans,     \* history: how often each subject's cooldown key was created
    active,    \* verify:active_tokens:<user>; an absent key counts as 0
    ttl,       \* users whose counter key has a time to live
    token,     \* per id: user, fingerprint (history) and whether it is live
    outbox,    \* ids whose e-mail was committed to email_outbox
    req        \* per request: program counter and locals

vars == <<cooling, spans, active, ttl, token, outbox, req>>
redisVars == <<cooling, spans, active, ttl>>
dbVars == <<token, outbox>>

Token == [user : Users \cup {None}, fp : Fingerprints \cup {None}, live : BOOLEAN]
Request == [pc : {"idle", "fp", "count", "recount", "select", "invalidate", "commit",
                  "undo", "reundo", "reset"},
            user : Users \cup {None}, fp : Fingerprints \cup {None},
            waited : BOOLEAN,       \* user_cooldown: the user's key was set by this request
            old : SUBSET Ids]       \* old_tokens
IdleReq == [pc |-> "idle", user |-> None, fp |-> None, waited |-> FALSE, old |-> {}]

(* Every variable keeps its type; the counter never exceeds MaxActive and  *)
(* falls by no more than two below zero for each request let through.      *)
TypeOK ==
    /\ cooling \subseteq Subjects
    /\ spans \in [Subjects -> 0 .. MaxSpans]
    /\ active \in [Users -> (-2 * MaxSpans) .. MaxActive]
    /\ ttl \subseteq Users
    /\ token \in [Ids -> Token]
    /\ outbox \subseteq Ids
    /\ req \in [Reqs -> Request]

Init ==
    /\ cooling = {} /\ ttl = {} /\ outbox = {}
    /\ spans = [s \in Subjects |-> 0]
    /\ active = [u \in Users |-> 0]
    /\ token = [i \in Ids |-> [user |-> None, fp |-> None, live |-> FALSE]]
    /\ req = [r \in Reqs |-> IdleReq]

Inserted == {i \in Ids : token[i].user # None}
LiveOf(u) == {i \in Inserted : token[i].user = u /\ token[i].live}
Goto(r, label) == req' = [req EXCEPT ![r].pc = label]
Finish(r) == req' = [req EXCEPT ![r] = IdleReq]

(* set_key(cooldown key, nx=True): it starts a cooldown or finds one.      *)
SetNx(s) ==
    /\ s \notin cooling => spans[s] < MaxSpans
    /\ cooling' = cooling \cup {s}
    /\ spans' = [spans EXCEPT ![s] = IF s \in cooling THEN @ ELSE @ + 1]

-----------------------------------------------------------------------------
(* send_verification_email *)

CoolUser(r, u, f) ==
    /\ req[r].pc = "idle"
    /\ SetNx(u)
    /\ req' = [req EXCEPT ![r] = [pc |-> "fp", user |-> u, fp |-> f,
                                   waited |-> u \notin cooling, old |-> {}]]
    /\ UNCHANGED <<active, ttl, dbVars>>

(* Mutant: the request goes on when either key was free.                   *)
CoolFingerprintEither(r) ==
    /\ req[r].pc = "fp"
    /\ SetNx(req[r].fp)
    /\ IF req[r].waited \/ req[r].fp \notin cooling THEN Goto(r, "count") ELSE Finish(r)
    /\ UNCHANGED <<active, ttl, dbVars>>

(* Both keys must have been free. A refusal leaves the other key set.      *)
CoolFingerprint(r) ==
    /\ req[r].pc = "fp"
    /\ SetNx(req[r].fp)
    /\ IF req[r].waited /\ req[r].fp \notin cooling THEN Goto(r, "count") ELSE Finish(r)
    /\ UNCHANGED <<active, ttl, dbVars>>

(* Mutant: the script compares before it increments.                       *)
CountOffByOne(r) ==
    LET u == req[r].user IN
    /\ req[r].pc \in {"count", "recount"}
    /\ IF active[u] > MaxActive
       THEN Finish(r) /\ UNCHANGED redisVars
       ELSE /\ active' = [active EXCEPT ![u] = @ + 1]
            /\ ttl' = IF active[u] = 0 THEN ttl \cup {u} ELSE ttl
            /\ Goto(r, "select") /\ UNCHANGED <<cooling, spans>>
    /\ UNCHANGED dbVars

(* Mutant: a key that a decrement left behind gets no time to live.        *)
CountKeepsTtl(r) ==
    LET u == req[r].user IN
    /\ req[r].pc \in {"count", "recount"}
    /\ IF active[u] + 1 > MaxActive
       THEN Finish(r) /\ UNCHANGED redisVars
       ELSE /\ active' = [active EXCEPT ![u] = @ + 1]
            /\ ttl' = IF \A i \in Ids : token[i].user # u THEN ttl \cup {u} ELSE ttl
            /\ Goto(r, "select") /\ UNCHANGED <<cooling, spans>>
    /\ UNCHANGED dbVars

(* _increment_active_with_limit: one script, run by Redis without a gap.   *)
CountActive(r) ==
    LET u == req[r].user IN
    /\ req[r].pc \in {"count", "recount"}
    /\ IF active[u] + 1 > MaxActive
       THEN Finish(r) /\ UNCHANGED redisVars
       ELSE /\ active' = [active EXCEPT ![u] = @ + 1]
            /\ ttl' = IF active[u] = 0 THEN ttl \cup {u} ELSE ttl
            /\ Goto(r, "select") /\ UNCHANGED <<cooling, spans>>
    /\ UNCHANGED dbVars

(* Its answer is lost: it will run again.                                  *)
CountLost(r) ==
    LET u == req[r].user IN
    /\ req[r].pc = "count"
    /\ active[u] + 1 <= MaxActive
    /\ active' = [active EXCEPT ![u] = @ + 1]
    /\ ttl' = IF active[u] = 0 THEN ttl \cup {u} ELSE ttl
    /\ Goto(r, "recount")
    /\ UNCHANGED <<cooling, spans, dbVars>>

SelectOld(r) ==
    /\ req[r].pc = "select"
    /\ req' = [req EXCEPT ![r].pc = "invalidate", ![r].old = LiveOf(req[r].user)]
    /\ UNCHANGED <<redisVars, dbVars>>

(* The first commit writes the flags of the rows that were read.           *)
InvalidateOld(r) ==
    /\ req[r].pc = "invalidate"
    /\ token' = [i \in Ids |-> IF i \in req[r].old THEN [token[i] EXCEPT !.live = FALSE]
                                                   ELSE token[i]]
    /\ Goto(r, "commit")
    /\ UNCHANGED <<redisVars, outbox>>

(* Its failure is logged, and the request goes on.                         *)
InvalidateFails(r) ==
    /\ req[r].pc \in {"select", "invalidate"}
    /\ Goto(r, "commit")
    /\ UNCHANGED <<redisVars, dbVars>>

(* The second commit inserts the token and its e-mail. Its answer may be   *)
(* lost, which the handler takes for a failure.                            *)
CommitToken(r) ==
    \E i \in Ids :
        /\ req[r].pc = "commit"
        /\ i \notin Inserted /\ \A k \in Ids \ Inserted : i <= k
        /\ token' = [token EXCEPT ![i] = [user |-> req[r].user, fp |-> req[r].fp, live |-> TRUE]]
        /\ outbox' = outbox \cup {i}
        /\ Finish(r) \/ Goto(r, "undo")
        /\ UNCHANGED redisVars

CommitFails(r) ==
    /\ req[r].pc = "commit"
    /\ Goto(r, "undo")
    /\ UNCHANGED <<redisVars, dbVars>>

(* _safe_decrement: a decrement, then SET 0 with a TTL if it went below 0. *)
Decrement(r) ==
    LET u == req[r].user IN
    /\ req[r].pc \in {"undo", "reundo"}
    /\ active' = [active EXCEPT ![u] = @ - 1]
    /\ IF active[u] - 1 < 0 THEN Goto(r, "reset") ELSE Finish(r)
    /\ UNCHANGED <<cooling, spans, ttl, dbVars>>

DecrementLost(r) ==
    /\ req[r].pc = "undo"
    /\ active' = [active EXCEPT ![req[r].user] = @ - 1]
    /\ Goto(r, "reundo")
    /\ UNCHANGED <<cooling, spans, ttl, dbVars>>

ResetCounter(r) ==
    LET u == req[r].user IN
    /\ req[r].pc = "reset"
    /\ active' = [active EXCEPT ![u] = 0]
    /\ ttl' = ttl \cup {u}
    /\ Finish(r)
    /\ UNCHANGED <<cooling, spans, dbVars>>

(* A Redis error (503, or swallowed by _safe_decrement), a body that is    *)
(* too large, a cancelled request or a crash: what was done stays done.    *)
Abort(r) ==
    /\ req[r].pc # "idle"
    /\ Finish(r)
    /\ UNCHANGED <<redisVars, dbVars>>

-----------------------------------------------------------------------------
(* Time passes *)

LapseCooldown(s) ==
    /\ s \in cooling
    /\ cooling' = cooling \ {s}
    /\ UNCHANGED <<spans, active, ttl, dbVars, req>>

LapseCounter(u) ==
    /\ u \in ttl
    /\ active' = [active EXCEPT ![u] = 0]
    /\ ttl' = ttl \ {u}
    /\ UNCHANGED <<cooling, spans, dbVars, req>>

LapseToken(i) ==
    /\ token[i].live
    /\ token' = [token EXCEPT ![i].live = FALSE]
    /\ UNCHANGED <<redisVars, outbox, req>>

Next ==
    \/ \E r \in Reqs :
        \/ \E u \in Users, f \in Fingerprints : CoolUser(r, u, f)
        \/ CoolFingerprint(r) \/ CountActive(r) \/ CountLost(r)
        \/ SelectOld(r) \/ InvalidateOld(r) \/ InvalidateFails(r)
        \/ CommitToken(r) \/ CommitFails(r)
        \/ Decrement(r) \/ DecrementLost(r) \/ ResetCounter(r) \/ Abort(r)
    \/ \E s \in Subjects : LapseCooldown(s)
    \/ \E u \in Users : LapseCounter(u)
    \/ \E i \in Ids : LapseToken(i)

Spec == Init /\ [][Next]_vars

-----------------------------------------------------------------------------
(* Neither a user nor a fingerprint causes more e-mails than the cooldowns *)
(* it started, however requests overlap, fail and let keys lapse.          *)
MailsPaced ==
    /\ \A u \in Users : Cardinality({i \in outbox : token[i].user = u}) <= spans[u]
    /\ \A f \in Fingerprints : Cardinality({i \in outbox : token[i].fp = f}) <= spans[f]

(* A counter that can refuse a user has a time to live, so the refusal     *)
(* ends although the counter drifts: the script renews the expiry exactly  *)
(* when it passes 1, also after decrements of an absent key.               *)
LockoutEnds == \A u \in Users : active[u] > 0 => u \in ttl

=============================================================================
