----------------------------- MODULE AuthSystem -----------------------------
(***************************************************************************)
(* The session store with everyone who writes it: the HTTP handlers of     *)
(* AuthService, the Celery tasks of RefreshTask, and the passing of time.  *)
(***************************************************************************)
EXTENDS AuthService, RefreshTask

vars == <<storeVars, authVars, taskVars>>

Init == StoreInit /\ AuthInit /\ TaskInit

Handle(r) == RequestStep(r) /\ UNCHANGED taskVars

(* A client posts a token it received to /auth/token/refresh.              *)
Submit(t) ==
    /\ "token/refresh" \in Routes
    /\ \E p \in known, a \in Agents : Enqueue(t, p, a)
    /\ UNCHANGED authVars

Work(t) == TaskStep(t) /\ UNCHANGED authVars

TimePasses ==
    \E p \in Tokens :
        \/ ExpireSession(p) /\ UNCHANGED <<authVars, taskVars>>
        \/ (ExpireLock(p) \/ ExpireIdem(p)) /\ UNCHANGED authVars

Next ==
    \/ \E r \in Reqs : Handle(r)
    \/ \E t \in Tasks : Submit(t) \/ Work(t)
    \/ TimePasses

Spec == Init /\ [][Next]_vars

(* A worker that is up keeps executing its task; the broker's queue is     *)
(* first in first out, so a message that finds a free worker again and     *)
(* again is delivered; a key with a TTL is removed. Nothing is assumed of  *)
(* the clients, and no failure is assumed to stop.                         *)
Fairness ==
    /\ \A t \in Tasks :
          /\ WF_vars(Progress(t) /\ UNCHANGED authVars)
          /\ SF_vars(Start(t) /\ UNCHANGED authVars)
    /\ \A p \in Tokens : WF_vars(ExpireLock(p) /\ UNCHANGED authVars)

FairSpec == Spec /\ Fairness

-----------------------------------------------------------------------------
(* Type invariant of the whole system.                                     *)
TypeOK == StoreTypeOK /\ AuthTypeOK /\ TaskTypeOK

(* A live session is one that somebody logged in to: its user authenticated*)
(* from the very user agent the record is bound to, however many rotations,*)
(* by handlers or tasks, lie between (auth_service.py:134, 146-150,        *)
(* refresh_token.py:66, 83-87).                                            *)
SessionsComeFromLogin == \A p \in Tokens : rt[p] # None => rt[p] \in logins

(* Rotation never leaves predecessor and successor alive together, wherever*)
(* a request is aborted, a task retried or a worker killed in between: the *)
(* old record goes before the new one is stored (auth_service.py:141-150,  *)
(* refresh_token.py:70-87).                                                *)
PredecessorIsDead ==
    \A q \in Tokens : parent[q] # None => rt[parent[q]] = None

Successors(p) == {q \in Tokens : parent[q] = p}

(* A task that reports SUCCESS or IDEMPOTENT tells the truth: the token it *)
(* was given is gone, blacklisted, and a successor was stored - also when  *)
(* an earlier attempt or another worker did it (refresh_token.py:48-53,    *)
(* 70-93).                                                                 *)
ReportedMeansRotated ==
    \A t \in Tasks : task[t].out \in {"SUCCESS", "IDEMPOTENT"} =>
        /\ rt[task[t].tok] = None
        /\ task[t].tok \in blrt
        /\ Successors(task[t].tok) # {}

(* A token is exchanged at most once by each handler and each worker that  *)
(* can hold its record at the same time: nobody reads it again once the    *)
(* first of them has deleted it. Retries after a failure at any step do not*)
(* count anew: one worker alone exchanges it once (auth_service.py:116-150,*)
(* refresh_token.py:60-87).                                                *)
Refreshers == IF "refresh" \in Routes THEN Reqs ELSE {}
SuccessorsBounded ==
    \A p \in Tokens : Cardinality(Successors(p)) <= Cardinality(Refreshers) + Workers

(* The system implements SessionLifecycle: a token is live while its record*)
(* exists and over once the record is gone. Whoever interleaves, fails or  *)
(* repeats what, no token comes back, and a token and all its successors   *)
(* belong to one user and agent that logged in (auth_service.py:76-79,     *)
(* 116-150, refresh_token.py:60-87).                                       *)
Lifecycle == INSTANCE SessionLifecycle WITH
    status <- [p \in Tokens |-> IF p \notin issued THEN "unused"
                                ELSE IF rt[p] # None THEN "live" ELSE "over"],
    authenticated <- logins

ImplementsLifecycle == Lifecycle!Spec

(* Every message is settled: it ends, or its retries run out               *)
(* (refresh_token.py:25, 125-127).                                         *)
TasksSettle == \A t \in Tasks : task[t].pc = "queued" ~> task[t].pc = "idle"

(* A lock is never held for ever, though a worker may die with it          *)
(* (refresh_token.py:18, 56).                                              *)
LocksComeFree == \A p \in Tokens : lock[p] # None ~> lock[p] = None

-----------------------------------------------------------------------------
(* Contradicted by the code: see the README's findings.                    *)

(* The lock of refresh_token.py:55-57 keeps two tasks with the same token  *)
(* out of each other's rotation.                                           *)
MutualExclusion ==
    \A s, t \in Tasks : s # t /\ InCriticalSection(s) /\ InCriticalSection(t)
        => task[s].tok # task[t].tok

=============================================================================
