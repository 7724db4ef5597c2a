----------------------------- MODULE RefreshTask -----------------------------
(***************************************************************************)
(* POST /auth/token/refresh queues refresh_primary_token_task; Celery      *)
(* workers run it. Each Redis call of the task is a step; around it the    *)
(* worker may lose Redis or the database (the task is retried), meet any   *)
(* other exception (it is not), or die (the message was acknowledged       *)
(* before the task started, so nobody runs it again). The lock and the     *)
(* idempotency marker are Redis keys with a TTL.                           *)
(***************************************************************************)
EXTENDS SessionStore

CONSTANTS
    Tasks,        \* messages in the queue or running at the same time
    Workers,      \* worker processes, one task each (prefetch is 1)
    MaxRetries,   \* retry_kwargs max_retries: 3 in the code
    LeaseLapses   \* TRUE: a task may outlive LOCK_EXPIRE (25 s)

ASSUME RefreshTaskAssumption ==
    Workers \in Nat /\ MaxRetries \in Nat /\ LeaseLapses \in BOOLEAN /\ None \notin Tasks

VARIABLES
    task,   \* per message: program counter, local variables, attempt number
    lock,   \* key "lock:refresh:<hash>": the task that set it, or None
    idem    \* tokens whose "idem:refresh:<hash>" is set

taskVars == <<task, lock, idem>>

TaskPcs == {"idle", "queued", "idem", "lock", "get", "delete", "blrt", "blat",
            "store", "mark", "commit", "finally"}

Outcomes == {"none", "IDEMPOTENT", "SUCCESS", "TRY_AGAIN_LATER", "INVALID", "RETRY", "ERROR"}

Task == [pc : TaskPcs, tok : Tokens \cup {None}, agent : Agents \cup {None},
         rec : Session \cup {None}, tries : 0 .. MaxRetries, out : Outcomes]

IdleTask == [pc |-> "idle", tok |-> None, agent |-> None, rec |-> None,
             tries |-> 0, out |-> "none"]
QueuedTask(p, a, n) == [pc |-> "queued", tok |-> p, agent |-> a, rec |-> None,
                        tries |-> n, out |-> "none"]

TaskTypeOK ==
    /\ task \in [Tasks -> Task]
    /\ lock \in [Tokens -> Tasks \cup {None}]
    /\ idem \subseteq Tokens

TaskInit ==
    /\ task = [t \in Tasks |-> IdleTask]
    /\ lock = [p \in Tokens |-> None]
    /\ idem = {}

Running(t) == task[t].pc \notin {"idle", "queued"}
Advance(t, pc) == task' = [task EXCEPT ![t].pc = pc]
Leave(t, out) == 
    task' = [task EXCEPT ![t] = [@ EXCEPT !.pc = "finally", !.out = out, !.rec = None]]

-----------------------------------------------------------------------------
(* The route checks the body and its rate limit, then task.delay: 202. Any *)
(* refusal, or a broker that is down (503), queues nothing.                *)
Enqueue(t, p, a) ==
    /\ task[t].pc = "idle"
    /\ task' = [task EXCEPT ![t] = QueuedTask(p, a, 0)]
    /\ UNCHANGED <<storeVars, lock, idem>>

Start(t) ==
    /\ task[t].pc = "queued"
    /\ Cardinality({s \in Tasks : Running(s)}) < Workers
    /\ Advance(t, "idem")
    /\ UNCHANGED <<storeVars, lock, idem>>

CheckIdem(t) ==
    /\ task[t].pc = "idem"
    /\ IF task[t].tok \in idem THEN Leave(t, "IDEMPOTENT") ELSE Advance(t, "lock")
    /\ UNCHANGED <<storeVars, lock, idem>>

(* SET lock NX EX. A busy lock raises AppBaseException(429), which is not  *)
(* among autoretry_for, and still runs the finally block.                  *)
AcquireLock(t) ==
    /\ task[t].pc = "lock"
    /\ IF lock[task[t].tok] = None
       THEN lock' = [lock EXCEPT ![task[t].tok] = t] /\ Advance(t, "get")
       ELSE Leave(t, "TRY_AGAIN_LATER") /\ UNCHANGED lock
    /\ UNCHANGED <<storeVars, idem>>

(* Mutant: the record need not match the user agent.                       *)
GetSessionAnyAgent(t) ==
    LET s == rt[task[t].tok] IN
    /\ task[t].pc = "get"
    /\ \/ s # None /\ task' = [task EXCEPT ![t] = [@ EXCEPT !.pc = "delete", !.rec = s]]
       \/ Leave(t, "INVALID")
    /\ UNCHANGED <<storeVars, lock, idem>>

(* GET rt, look up the user, compare the user agent. The record must exist *)
(* and match; the user may be missing.                                     *)
GetSession(t) ==
    LET s == rt[task[t].tok] IN
    /\ task[t].pc = "get"
    /\ \/ /\ s # None
          /\ s.agent = task[t].agent
          /\ task' = [task EXCEPT ![t] = [@ EXCEPT !.pc = "delete", !.rec = s]]
       \/ Leave(t, "INVALID")
    /\ UNCHANGED <<storeVars, lock, idem>>

(* Mutant: the old record is left in place.                                *)
NoDeleteSession(t) ==
    /\ task[t].pc = "delete"
    /\ Advance(t, "blrt")
    /\ UNCHANGED <<storeVars, lock, idem>>

DeleteSession(t) ==
    /\ task[t].pc = "delete"
    /\ Drop(task[t].tok)
    /\ Advance(t, "blrt")
    /\ UNCHANGED <<lock, idem>>

BlacklistOldRefresh(t) ==
    /\ task[t].pc = "blrt"
    /\ BlacklistRefresh(task[t].tok)
    /\ Advance(t, "blat")
    /\ UNCHANGED <<lock, idem>>

(* Mutant: the idempotency marker is set before the new session is stored. *)
MarkIdemEarly(t) ==
    /\ task[t].pc = "blat"
    /\ BlacklistAccess(task[t].tok)
    /\ idem' = idem \cup {task[t].tok}
    /\ Advance(t, "store")
    /\ UNCHANGED lock

(* old_access_token of the message, which need not be of the same pair.    *)
BlacklistOldAccess(t) ==
    /\ task[t].pc = "blat"
    /\ \E p \in issued : BlacklistAccess(p)
    /\ Advance(t, "store")
    /\ UNCHANGED <<lock, idem>>

StoreSession(t, q) ==
    /\ task[t].pc = "store"
    /\ Mint(q, task[t].rec.user, task[t].agent, task[t].tok)
    /\ Advance(t, "mark")
    /\ UNCHANGED <<lock, idem>>

MarkIdem(t) ==
    /\ task[t].pc = "mark"
    /\ idem' = idem \cup {task[t].tok}
    /\ Advance(t, "commit")
    /\ UNCHANGED <<storeVars, lock>>

(* db.commit, the audit record, return. The new tokens are in no result.   *)
Commit(t) ==
    /\ task[t].pc = "commit"
    /\ Leave(t, "SUCCESS")
    /\ UNCHANGED <<storeVars, lock, idem>>

-----------------------------------------------------------------------------
(* RedisError and OperationalError ask for a retry, anything else ends the *)
(* task; both by way of the finally block.                                 *)
Fail(t) ==
    /\ Running(t) /\ task[t].pc # "finally"
    /\ \E out \in {"RETRY", "ERROR"} : Leave(t, out)
    /\ UNCHANGED <<storeVars, lock, idem>>

(* Mutants: one retry too many; a retry that forgets its count.            *)
SettleOffByOne(t, retry) ==
    task' = [task EXCEPT ![t] =
        IF retry /\ task[t].tries <= MaxRetries
        THEN QueuedTask(task[t].tok, task[t].agent, task[t].tries + 1)
        ELSE IdleTask]

SettleForgetful(t, retry) ==
    task' = [task EXCEPT ![t] =
        IF retry /\ task[t].tries < MaxRetries
        THEN QueuedTask(task[t].tok, task[t].agent, task[t].tries)
        ELSE IdleTask]

(* What Celery does with the outcome.                                      *)
Settle(t, retry) ==
    task' = [task EXCEPT ![t] =
        IF retry /\ task[t].tries < MaxRetries
        THEN QueuedTask(task[t].tok, task[t].agent, task[t].tries + 1)
        ELSE IdleTask]

(* release_lock_sync(lock_key): a DEL without an owner, whoever holds it.  *)
Release(t) ==
    /\ task[t].pc = "finally"
    /\ lock' = [lock EXCEPT ![task[t].tok] = None]
    /\ Settle(t, task[t].out = "RETRY")
    /\ UNCHANGED <<storeVars, idem>>

(* The DEL itself raises RedisError, which replaces the result.            *)
ReleaseFails(t) ==
    /\ task[t].pc = "finally"
    /\ Settle(t, TRUE)
    /\ UNCHANGED <<storeVars, lock, idem>>

Die(t) ==
    /\ Running(t)
    /\ task' = [task EXCEPT ![t] = IdleTask]
    /\ UNCHANGED <<storeVars, lock, idem>>

-----------------------------------------------------------------------------
(* Between a successful acquire_lock_sync and the finally block.           *)
InCriticalSection(t) ==
    task[t].pc \in {"get", "delete", "blrt", "blat", "store", "mark", "commit"}

(* Mutant: the lock is SET without EX.                                     *)
ExpireLockNever(p) ==
    /\ FALSE
    /\ UNCHANGED <<storeVars, taskVars>>

(* LOCK_EXPIRE runs out; unless LeaseLapses, not under the task that set it*)
ExpireLock(p) ==
    /\ lock[p] # None
    /\ LeaseLapses \/ ~(InCriticalSection(lock[p]) /\ task[lock[p]].tok = p)
    /\ lock' = [lock EXCEPT ![p] = None]
    /\ UNCHANGED <<storeVars, task, idem>>

ExpireIdem(p) ==
    /\ idem' = idem \ {p}
    /\ idem' # idem
    /\ UNCHANGED <<storeVars, task, lock>>

(* What a task does when nothing goes wrong.                               *)
Progress(t) ==
    \/ Start(t) \/ CheckIdem(t) \/ AcquireLock(t) \/ GetSession(t) \/ DeleteSession(t)
    \/ BlacklistOldRefresh(t) \/ BlacklistOldAccess(t)
    \/ \E q \in Tokens : StoreSession(t, q)
    \/ MarkIdem(t) \/ Commit(t) \/ Release(t)

TaskStep(t) == Progress(t) \/ Fail(t) \/ ReleaseFails(t) \/ Die(t)

=============================================================================
