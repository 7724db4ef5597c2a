------------------------------ MODULE AuditTask ------------------------------
(***************************************************************************)
(* audit_log_task: login, refresh and logout post an event, and a Celery   *)
(* worker inserts its row in a transaction of its own. A fingerprint is    *)
(* unique in the table, by the index ix_audit_logs_fingerprint of the      *)
(* model and by ux_audit_fingerprint of the migration; the task skips a    *)
(* duplicate only if the error names the second. A value longer than its   *)
(* column is a DataError: fingerprint and ip hold 64 characters, request_id*)
(* 120, and the task shortens none of them. The fingerprints that          *)
(* auth_service.py builds hold a digest of 64 and more; an ip is whatever  *)
(* X-Forwarded-For says.                                                   *)
(***************************************************************************)
EXTENDS FiniteSets, Integers

CONSTANTS
    Events,       \* each is posted once
    Prints,       \* fingerprints
    fingerprint,  \* of each event: two events can share one
    Fits,         \* the events whose values all fit their columns
    MaxRetries    \* 5 in the code

ASSUME AuditTaskAssumption ==
    /\ fingerprint \in [Events -> Prints] /\ Fits \subseteq Events
    /\ MaxRetries \in Nat

VARIABLES
    rows,    \* fingerprints in audit_logs
    task,    \* per event: its message, with request.retries
    errors   \* history: per event, the runs that the database failed, up to MaxRetries + 1

vars == <<rows, task, errors>>

Task == [pc : {"unposted", "queued", "returned", "failed", "lost"}, retries : 0 .. MaxRetries]

(* Every variable keeps its type: no task is retried more than MaxRetries  *)
(* times, and no row holds what a column refuses.                          *)
TypeOK ==
    /\ rows \subseteq {fingerprint[e] : e \in Fits}
    /\ task \in [Events -> Task]
    /\ errors \in [Events -> 0 .. (MaxRetries + 1)]

Init ==
    /\ rows = {}
    /\ task = [e \in Events |-> [pc |-> "unposted", retries |-> 0]]
    /\ errors = [e \in Events |-> 0]

Goto(e, label) == task' = [task EXCEPT ![e].pc = label]

(* apply_async                                                             *)
Post(e) ==
    /\ task[e].pc = "unposted"
    /\ Goto(e, "queued")
    /\ UNCHANGED <<rows, errors>>

(* Mutant: the count of a retry is tested too early.                       *)
RetryOneLess(e) ==
    IF task[e].retries + 1 < MaxRetries THEN task' = [task EXCEPT ![e].retries = @ + 1]
                                        ELSE Goto(e, "failed")

(* Mutant: one retry too many.                                             *)
RetryOneMore(e) ==
    IF task[e].retries <= MaxRetries THEN task' = [task EXCEPT ![e].retries = @ + 1]
                                     ELSE Goto(e, "failed")

(* self.retry, whose three retries end in the exception it was given, for  *)
(* which the decorator retries the task again until there have been five.  *)
Retry(e) ==
    IF task[e].retries < MaxRetries THEN task' = [task EXCEPT ![e].retries = @ + 1]
                                    ELSE Goto(e, "failed")

Insertable(e) == e \in Fits /\ fingerprint[e] \notin rows

Insert(e) ==
    /\ task[e].pc = "queued" /\ Insertable(e)
    /\ rows' = rows \cup {fingerprint[e]}
    /\ Goto(e, "returned")
    /\ UNCHANGED errors

(* IntegrityError: skipped, or retried when it names the other index.      *)
Duplicate(e) ==
    /\ task[e].pc = "queued" /\ e \in Fits /\ fingerprint[e] \in rows
    /\ Goto(e, "returned") \/ Retry(e)
    /\ UNCHANGED <<rows, errors>>

(* Mutant: the event is posted again as a new task.                        *)
RejectAnew(e) ==
    /\ task[e].pc = "queued" /\ e \notin Fits
    /\ task' = [task EXCEPT ![e].retries = 0]
    /\ UNCHANGED <<rows, errors>>

(* DataError: a value does not fit its column.                             *)
Reject(e) ==
    /\ task[e].pc = "queued" /\ e \notin Fits
    /\ Retry(e)
    /\ UNCHANGED <<rows, errors>>

(* OperationalError: the transaction is rolled back, or its commit was not *)
(* acknowledged.                                                           *)
DatabaseFails(e) ==
    /\ task[e].pc = "queued"
    /\ \/ rows' = rows
       \/ Insertable(e) /\ rows' = rows \cup {fingerprint[e]}
    /\ errors' = [errors EXCEPT ![e] = IF @ > MaxRetries THEN @ ELSE @ + 1]
    /\ Retry(e)

(* The message is acknowledged before the task runs: a worker that dies    *)
(* loses it.                                                               *)
Die(e) ==
    /\ task[e].pc = "queued"
    /\ Goto(e, "lost")
    /\ UNCHANGED <<rows, errors>>

Run(e) == Insert(e) \/ Duplicate(e) \/ Reject(e) \/ DatabaseFails(e)

Next == \E e \in Events : Post(e) \/ Run(e) \/ Die(e)

Spec == Init /\ [][Next]_vars

(* The workers of the queue "audit" run what is posted to it.              *)
FairSpec == Spec /\ \A e \in Events : WF_vars(Run(e))

-----------------------------------------------------------------------------
(* How a task ends is true. If it returned there is a row with its         *)
(* fingerprint, of its own or an earlier run or another event. If it gave  *)
(* up, the row is there, or cannot be, or the database has failed each of  *)
(* the MaxRetries + 1 runs: no race between events of one fingerprint and  *)
(* no retry loses a row that could be stored (audit_tasks.py:75-90).       *)
OutcomesAreTrue ==
    \A e \in Events :
        /\ task[e].pc = "returned" => fingerprint[e] \in rows
        /\ task[e].pc = "failed" /\ Insertable(e) => errors[e] > MaxRetries

(* Every posted event is settled, though every error is retried            *)
(* (audit_tasks.py:28-34).                                                 *)
EventsSettle == \A e \in Events : task[e].pc = "queued" ~> task[e].pc # "queued"

=============================================================================
