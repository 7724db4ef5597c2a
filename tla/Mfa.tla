--------------------------------- MODULE Mfa ---------------------------------
(***************************************************************************)
(* Verifying a one-time code: the endpoint that claims an idempotency key, *)
(* counts the attempt of the device and posts a task, and the task that    *)
(* compares the code and keeps the failure counters. One user's keys; each *)
(* Redis command is one step, and endpoint and tasks overlap. The client   *)
(* sends a command once more when its answer does not come in time, and    *)
(* INCR then counts twice.                                                 *)
(***************************************************************************)
EXTENDS FiniteSets, Naturals

CONSTANTS
    Devices,      \* fingerprints of ip and user agent
    Keys,         \* values of X-Idempotency-Key
    Reqs,         \* requests to the endpoint, each with its task
    Threshold,    \* fail_lock_threshold: 5 in the code
    MaxDevices,   \* fingerprints allowed in mfa:fp_set: 3 in the code
    MaxAttempts,  \* MFA_FINGERPRINT_MAX_FAILS
    MaxRetries,   \* of the task: 2 in the code
    MaxEpochs,    \* bound: expiries of a counter
    None

ASSUME MfaAssumption ==
    /\ Threshold \in Nat \ {0} /\ MaxDevices \in Nat /\ MaxAttempts \in Nat
    /\ MaxRetries \in Nat /\ MaxEpochs \in Nat /\ IsFiniteSet(Reqs)
    /\ None \notin Devices \cup Keys \cup Nat \cup {"SUCCESS", "LOCKED"}

VARIABLES
    idem,      \* per key: value of mfa:idem:<user>:<key>, None when absent
    fails,     \* mfa:fail:<user>; an absent key counts as 0
    fpset,     \* mfa:fp_set:<user>
    attempts,  \* per device: mfa:fp_fail:<fingerprint>
    epoch,     \* history: how often fails (under None) and attempts were cleared
    req        \* per request: program counter and locals of endpoint and task

vars == <<idem, fails, fpset, attempts, epoch, req>>

Epochs == 0 .. (MaxEpochs + Cardinality(Reqs))
Outcome == {None, "SUCCESS", "LOCKED", "FAILURE"}
Request == [pc : {"idle", "attempt", "reattempt", "post", "refused", "queued", "incr", "reincr",
                  "device", "count", "fails", "attempts", "devices", "mark", "settled", "dead"},
            key : Keys \cup {None}, dev : Devices \cup {None},
            right : BOOLEAN,                      \* did the code verify
            nth : Nat,                            \* fail_count
            tries : 0 .. MaxRetries, out : Outcome,
            tryEpoch : Epochs, failEpoch : Epochs]   \* history: epochs it was counted in
IdleReq == [pc |-> "idle", key |-> None, dev |-> None, right |-> FALSE, nth |-> 0,
            tries |-> 0, out |-> None, tryEpoch |-> 0, failEpoch |-> 0]

(* Every variable keeps its type; a task is retried at most MaxRetries     *)
(* times, and no counter passes the number of INCRs sent.                  *)
TypeOK ==
    /\ idem \in [Keys -> {None, "processing", "verified", "locked", "failed"}]
    /\ fails \in 0 .. 2 * Cardinality(Reqs)
    /\ fpset \subseteq Devices
    /\ attempts \in [Devices -> 0 .. 2 * Cardinality(Reqs)]
    /\ epoch \in [Devices \cup {None} -> Epochs]
    /\ req \in [Reqs -> Request]

Init ==
    /\ idem = [k \in Keys |-> None]
    /\ fails = 0 /\ fpset = {}
    /\ attempts = [d \in Devices |-> 0]
    /\ epoch = [d \in Devices \cup {None} |-> 0]
    /\ req = [r \in Reqs |-> IdleReq]

Goto(r, label) == req' = [req EXCEPT ![r].pc = label]
Settle(r, out) == req' = [req EXCEPT ![r].pc = "settled", ![r].out = out]

-----------------------------------------------------------------------------
(* verify_mfa_endpoint *)

(* set_key(idem_key, "processing", nx=True); a key in use means 429, which *)
(* changes nothing.                                                        *)
Claim(r, k, d) ==
    /\ req[r].pc = "idle"
    /\ idem[k] = None
    /\ idem' = [idem EXCEPT ![k] = "processing"]
    /\ req' = [req EXCEPT ![r] = [IdleReq EXCEPT !.pc = "attempt", !.key = k, !.dev = d]]
    /\ UNCHANGED <<fails, fpset, attempts, epoch>>

(* Mutant: the attempt that reaches the limit is let through once more.    *)
CountAttemptLate(r) ==
    LET d == req[r].dev IN
    /\ req[r].pc \in {"attempt", "reattempt"}
    /\ attempts' = [attempts EXCEPT ![d] = @ + 1]
    /\ req' = [req EXCEPT ![r].pc = IF attempts[d] > MaxAttempts THEN "refused" ELSE "post",
                          ![r].tryEpoch = epoch[d]]
    /\ UNCHANGED <<idem, fails, fpset, epoch>>

(* The device's attempt is counted whatever becomes of it.                 *)
CountAttempt(r) ==
    LET d == req[r].dev IN
    /\ req[r].pc \in {"attempt", "reattempt"}
    /\ attempts' = [attempts EXCEPT ![d] = @ + 1]
    /\ req' = [req EXCEPT ![r].pc = IF attempts[d] + 1 > MaxAttempts THEN "refused" ELSE "post",
                          ![r].tryEpoch = epoch[d]]
    /\ UNCHANGED <<idem, fails, fpset, epoch>>

CountAttemptLost(r) ==
    /\ req[r].pc = "attempt"
    /\ attempts' = [attempts EXCEPT ![req[r].dev] = @ + 1]
    /\ Goto(r, "reattempt")
    /\ UNCHANGED <<idem, fails, fpset, epoch>>

(* delay() posts the task, or fails: the key then stays at "processing".   *)
Post(r) ==
    /\ req[r].pc = "post"
    /\ Goto(r, "queued") \/ Goto(r, "refused")
    /\ UNCHANGED <<idem, fails, fpset, attempts, epoch>>

-----------------------------------------------------------------------------
(* mfa_verify_task and verify_mfa *)

(* The user is loaded and the code compared with those of this moment.     *)
Verify(r) ==
    /\ req[r].pc = "queued"
    /\ \E right \in BOOLEAN :
         req' = [req EXCEPT ![r].pc = IF right THEN "fails" ELSE "incr", ![r].right = right]
    /\ UNCHANGED <<idem, fails, fpset, attempts, epoch>>

(* Mutant: one retry more than max_retries.                                *)
LoadFailsOnceMore(r) ==
    /\ req[r].pc = "queued"
    /\ idem' = [idem EXCEPT ![req[r].key] = "failed"]
    /\ IF req[r].tries <= MaxRetries THEN req' = [req EXCEPT ![r].tries = @ + 1]
                                     ELSE Settle(r, "FAILURE")
    /\ UNCHANGED <<fails, fpset, attempts, epoch>>

(* OperationalError: the key says "failed" while the task is retried.      *)
LoadFails(r) ==
    /\ req[r].pc = "queued"
    /\ idem' = [idem EXCEPT ![req[r].key] = "failed"]
    /\ IF req[r].tries < MaxRetries THEN req' = [req EXCEPT ![r].tries = @ + 1]
                                    ELSE Settle(r, "FAILURE")
    /\ UNCHANGED <<fails, fpset, attempts, epoch>>

CountWrongLost(r) ==
    /\ req[r].pc = "incr"
    /\ fails' = fails + 1
    /\ Goto(r, "reincr")
    /\ UNCHANGED <<idem, fpset, attempts, epoch>>

CountWrong(r) ==
    /\ req[r].pc \in {"incr", "reincr"}
    /\ fails' = fails + 1
    /\ req' = [req EXCEPT ![r].pc = "device", ![r].nth = fails + 1, ![r].failEpoch = epoch[None]]
    /\ UNCHANGED <<idem, fpset, attempts, epoch>>

AddDevice(r) ==
    /\ req[r].pc = "device"
    /\ fpset' = fpset \cup {req[r].dev}
    /\ Goto(r, "count")
    /\ UNCHANGED <<idem, fails, attempts, epoch>>

(* Mutant: the count that reaches the threshold passes.                    *)
JudgeWrongLate(r) ==
    /\ req[r].pc = "count" /\ Cardinality(fpset) <= MaxDevices
    /\ req' = [req EXCEPT ![r].pc = "mark",
                          ![r].out = IF req[r].nth > Threshold THEN "LOCKED" ELSE "SUCCESS"]
    /\ UNCHANGED <<idem, fails, fpset, attempts, epoch>>

(* Too many devices raise MFALockedError; else the count decides between   *)
(* LOCKED and the fall through to "verified" and SUCCESS.                  *)
JudgeWrong(r) ==
    /\ req[r].pc = "count" /\ Cardinality(fpset) <= MaxDevices
    /\ req' = [req EXCEPT ![r].pc = "mark",
                          ![r].out = IF req[r].nth >= Threshold THEN "LOCKED" ELSE "SUCCESS"]
    /\ UNCHANGED <<idem, fails, fpset, attempts, epoch>>

TooManyDevices(r) ==
    /\ req[r].pc = "count" /\ Cardinality(fpset) > MaxDevices
    /\ idem' = [idem EXCEPT ![req[r].key] = "failed"]
    /\ Settle(r, "FAILURE")
    /\ UNCHANGED <<fails, fpset, attempts, epoch>>

(* A right code deletes the three counters one after the other.            *)
ClearFails(r) ==
    /\ req[r].pc = "fails"
    /\ fails' = 0 /\ epoch' = [epoch EXCEPT ![None] = @ + 1]
    /\ Goto(r, "attempts")
    /\ UNCHANGED <<idem, fpset, attempts>>

ClearAttempts(r) ==
    LET d == req[r].dev IN
    /\ req[r].pc = "attempts"
    /\ attempts' = [attempts EXCEPT ![d] = 0] /\ epoch' = [epoch EXCEPT ![d] = @ + 1]
    /\ Goto(r, "devices")
    /\ UNCHANGED <<idem, fails, fpset>>

ClearDevices(r) ==
    /\ req[r].pc = "devices"
    /\ fpset' = {}
    /\ req' = [req EXCEPT ![r].pc = "mark", ![r].out = "SUCCESS"]
    /\ UNCHANGED <<idem, fails, attempts, epoch>>

(* Mutant: the key is always marked "verified".                            *)
MarkVerified(r) ==
    /\ req[r].pc = "mark"
    /\ idem' = [idem EXCEPT ![req[r].key] = "verified"]
    /\ Goto(r, "settled")
    /\ UNCHANGED <<fails, fpset, attempts, epoch>>

Marker(out) == IF out = "LOCKED" THEN "locked" ELSE "verified"

Mark(r) ==
    /\ req[r].pc = "mark"
    /\ idem' = [idem EXCEPT ![req[r].key] = Marker(req[r].out)]
    /\ Goto(r, "settled")
    /\ UNCHANGED <<fails, fpset, attempts, epoch>>

Working(r) == req[r].pc \in {"queued", "incr", "reincr", "device", "count", "fails",
                             "attempts", "devices", "mark"}

(* Any other exception (a Redis error, MFANotConfiguredError) marks the    *)
(* key "failed" if Redis answers, and is not retried. The command it came  *)
(* from may have been executed.                                            *)
Raise(r) ==
    /\ Working(r)
    /\ \/ idem' = idem
       \/ idem' = [idem EXCEPT ![req[r].key] = "failed"]
       \/ req[r].pc = "mark" /\ idem' = [idem EXCEPT ![req[r].key] = Marker(req[r].out)]
    /\ Settle(r, "FAILURE")
    /\ UNCHANGED <<fails, fpset, attempts, epoch>>

(* The endpoint fails, or the worker dies: nothing is redelivered.         *)
Die(r) ==
    /\ Working(r) \/ req[r].pc \in {"attempt", "reattempt", "post"}
    /\ Goto(r, "dead")
    /\ UNCHANGED <<idem, fails, fpset, attempts, epoch>>

-----------------------------------------------------------------------------
(* Time passes *)

ExpireKey(k) ==
    /\ idem[k] # None
    /\ idem' = [idem EXCEPT ![k] = None]
    /\ UNCHANGED <<fails, fpset, attempts, epoch, req>>

ExpireFails ==
    /\ fails > 0 /\ epoch[None] < MaxEpochs
    /\ fails' = 0 /\ epoch' = [epoch EXCEPT ![None] = @ + 1]
    /\ UNCHANGED <<idem, fpset, attempts, req>>

ExpireDevices ==
    /\ fpset # {} /\ fpset' = {}
    /\ UNCHANGED <<idem, fails, attempts, epoch, req>>

ExpireAttempts(d) ==
    /\ attempts[d] > 0 /\ epoch[d] < MaxEpochs
    /\ attempts' = [attempts EXCEPT ![d] = 0] /\ epoch' = [epoch EXCEPT ![d] = @ + 1]
    /\ UNCHANGED <<idem, fails, fpset, req>>

Next ==
    \/ \E r \in Reqs :
        \/ \E k \in Keys, d \in Devices : Claim(r, k, d)
        \/ CountAttempt(r) \/ CountAttemptLost(r) \/ Post(r)
        \/ Verify(r) \/ LoadFails(r)
        \/ CountWrong(r) \/ CountWrongLost(r) \/ AddDevice(r) \/ JudgeWrong(r) \/ TooManyDevices(r)
        \/ ClearFails(r) \/ ClearAttempts(r) \/ ClearDevices(r)
        \/ Mark(r) \/ Raise(r) \/ Die(r)
    \/ \E k \in Keys : ExpireKey(k)
    \/ ExpireFails \/ ExpireDevices
    \/ \E d \in Devices : ExpireAttempts(d)

Spec == Init /\ [][Next]_vars

-----------------------------------------------------------------------------
(* Between two clearings of the failure counter fewer than Threshold wrong *)
(* codes pass without LOCKED, however many tasks count at the same time.   *)
WrongCodesCapped ==
    \A e \in Epochs :
        Cardinality({r \in Reqs : req[r].out = "SUCCESS" /\ ~req[r].right
                                  /\ req[r].failEpoch = e}) < Threshold

(* Between two clearings of a device's counter at most MaxAttempts of its  *)
(* requests post a task, however they overlap with the tasks that clear it.*)
AttemptsCapped ==
    \A d \in Devices, e \in Epochs :
        Cardinality({r \in Reqs : /\ req[r].dev = d /\ req[r].tryEpoch = e
                                  /\ Working(r) \/ req[r].pc = "settled"}) <= MaxAttempts

(* The idempotency key of a task that returned shows the task's status as  *)
(* long as it exists and no other request has used it, retries included.   *)
KeyTellsOutcome ==
    \A r \in Reqs :
        (/\ req[r].pc = "settled" /\ req[r].out \in {"SUCCESS", "LOCKED"}
         /\ \A q \in Reqs \ {r} : req[q].key # req[r].key
         /\ idem[req[r].key] # None)
        => idem[req[r].key] = Marker(req[r].out)

(* A wrong code is "Invalid MFA code": no task reports SUCCESS for one.    *)
SuccessMeansRightCode ==
    \A r \in Reqs : req[r].pc = "settled" /\ req[r].out = "SUCCESS" => req[r].right

=============================================================================
