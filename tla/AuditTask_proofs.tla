--------------------------- MODULE AuditTask_proofs ---------------------------
(* How an audit task ends is true for any number of events and of          *)
(* fingerprints they share.                                                *)
EXTENDS AuditTask, TLAPS

(* A task has been retried as often as the database failed it, unless its  *)
(* row is there or cannot be.                                              *)
RetriesCounted ==
    \A e \in Events :
        task[e].pc \in {"unposted", "queued"} /\ Insertable(e) => errors[e] >= task[e].retries

(* The inductive invariant.                                                *)
IInv == TypeOK /\ RetriesCounted /\ OutcomesAreTrue

USE AuditTaskAssumption

(* A retry moves the task of e alone, within its limit.                    *)
LEMMA RetryMoves ==
  ASSUME TypeOK, NEW e \in Events, Retry(e)
  PROVE  /\ task' \in [Events -> Task] /\ \A x \in Events \ {e} : task'[x] = task[x]
         /\ \/ task[e].retries < MaxRetries /\ task'[e].pc = task[e].pc
               /\ task'[e].retries = task[e].retries + 1
            \/ task[e].retries = MaxRetries /\ task'[e].pc = "failed"
<1>1. task[e] \in Task /\ task \in [Events -> Task] BY DEF TypeOK
<1>2. CASE task[e].retries < MaxRetries
  <2>1. task' = [task EXCEPT ![e].retries = @ + 1] BY <1>2 DEF Retry
  <2> QED BY <1>1, <1>2, <2>1 DEF Task
<1>3. CASE ~(task[e].retries < MaxRetries)
  <2>1. task' = [task EXCEPT ![e].pc = "failed"] BY <1>3 DEF Retry, Goto
  <2>2. task[e].retries = MaxRetries BY <1>1, <1>3 DEF Task
  <2> QED BY <1>1, <2>1, <2>2 DEF Task
<1> QED BY <1>2, <1>3

(* Any other step moves it to a label.                                     *)
LEMMA GotoMoves ==
  ASSUME TypeOK, NEW e \in Events, NEW pc \in {"queued", "returned", "lost"}, Goto(e, pc)
  PROVE  /\ task' \in [Events -> Task] /\ \A x \in Events \ {e} : task'[x] = task[x]
         /\ task'[e].pc = pc /\ task'[e].retries = task[e].retries
<1>1. task[e] \in Task /\ task \in [Events -> Task] BY DEF TypeOK
<1> QED BY <1>1 DEF Goto, Task

(* Rows only appear, so what is true of the other events stays true.       *)
LEMMA OthersKept ==
  ASSUME IInv, NEW e \in Events, task' \in [Events -> Task],
         rows \subseteq rows', rows' \subseteq {fingerprint[x] : x \in Fits},
         errors' \in [Events -> 0 .. (MaxRetries + 1)], errors'[e] >= errors[e],
         \A x \in Events \ {e} : task'[x] = task[x] /\ errors'[x] = errors[x],
         task'[e].pc \in {"unposted", "queued"} /\ Insertable(e)' => errors'[e] >= task'[e].retries,
         task'[e].pc = "returned" => fingerprint[e] \in rows',
         task'[e].pc = "failed" /\ Insertable(e)' => errors'[e] > MaxRetries
  PROVE  IInv'
<1>1. TypeOK' BY DEF TypeOK
<1>2. RetriesCounted' BY DEF IInv, RetriesCounted, Insertable
<1>3. OutcomesAreTrue' BY DEF IInv, OutcomesAreTrue, Insertable
<1> QED BY <1>1, <1>2, <1>3 DEF IInv

(* It holds initially.                                                     *)
LEMMA InitInv == Init => IInv
BY DEF Init, IInv, TypeOK, Task, RetriesCounted, OutcomesAreTrue

(* Every step keeps it.                                                    *)
LEMMA StepInv == IInv /\ [Next]_vars => IInv'
<1> SUFFICES ASSUME IInv, [Next]_vars PROVE IInv' OBVIOUS
<1>1. TypeOK /\ RetriesCounted /\ OutcomesAreTrue BY DEF IInv
<1>2. ASSUME NEW e \in Events PROVE task[e] \in Task /\ errors[e] \in 0 .. (MaxRetries + 1)
  BY <1>1 DEF TypeOK
<1>3. ASSUME NEW e \in Events, Post(e) \/ Die(e) PROVE IInv'
  <2>1. PICK pc \in {"queued", "lost"} :
          Goto(e, pc) /\ task[e].pc \in {"unposted", "queued"}
    BY <1>3 DEF Post, Die
  <2>2. UNCHANGED <<rows, errors>> BY <1>3 DEF Post, Die
  <2>3. Insertable(e) => errors[e] >= task[e].retries BY <1>1, <2>1 DEF RetriesCounted
  <2>4. rows' \subseteq {fingerprint[x] : x \in Fits} /\ errors' \in [Events -> 0 .. (MaxRetries + 1)] /\ errors'[e] >= errors[e]
    BY <1>1, <1>2, <2>2 DEF TypeOK
  <2> QED BY <1>1, <2>1, <2>2, <2>3, <2>4, GotoMoves, OthersKept DEF Insertable
<1>4. ASSUME NEW e \in Events, Insert(e) PROVE IInv'
  <2>1. Goto(e, "returned") /\ rows' = rows \cup {fingerprint[e]} /\ UNCHANGED errors
        /\ e \in Fits
    BY <1>4 DEF Insert, Insertable
  <2>2. rows' \subseteq {fingerprint[x] : x \in Fits} /\ errors' \in [Events -> 0 .. (MaxRetries + 1)] /\ errors'[e] >= errors[e]
    BY <1>1, <1>2, <2>1 DEF TypeOK
  <2> QED BY <1>1, <2>1, <2>2, GotoMoves, OthersKept
<1>5. ASSUME NEW e \in Events, Duplicate(e) \/ Reject(e) PROVE IInv'
  <2>1. /\ UNCHANGED <<rows, errors>> /\ task[e].pc = "queued" /\ ~Insertable(e)
        /\ (Goto(e, "returned") /\ fingerprint[e] \in rows) \/ Retry(e)
    BY <1>5 DEF Duplicate, Reject, Insertable
  <2>2. rows' \subseteq {fingerprint[x] : x \in Fits} /\ errors' \in [Events -> 0 .. (MaxRetries + 1)] /\ errors'[e] >= errors[e]
        /\ ~Insertable(e)'
    BY <1>1, <1>2, <2>1 DEF TypeOK, Insertable
  <2>3. CASE Goto(e, "returned") /\ fingerprint[e] \in rows
    BY <1>1, <2>1, <2>2, <2>3, GotoMoves, OthersKept
  <2>4. CASE Retry(e)
    BY <1>1, <2>1, <2>2, <2>4, RetryMoves, OthersKept
  <2> QED BY <2>1, <2>3, <2>4
<1>6. ASSUME NEW e \in Events, DatabaseFails(e) PROVE IInv'
  <2>1. /\ rows \subseteq rows' /\ rows' \subseteq {fingerprint[x] : x \in Fits}
        /\ Insertable(e)' => Insertable(e)
    BY <1>1, <1>6 DEF DatabaseFails, Insertable, TypeOK
  <2>2. /\ errors' \in [Events -> 0 .. (MaxRetries + 1)] /\ errors'[e] >= errors[e]
        /\ errors'[e] > MaxRetries \/ errors'[e] = errors[e] + 1
        /\ \A x \in Events \ {e} : errors'[x] = errors[x]
    BY <1>1, <1>2, <1>6 DEF DatabaseFails, TypeOK
  <2>3. Retry(e) /\ task[e].pc = "queued" BY <1>6 DEF DatabaseFails
  <2>4. Insertable(e) => errors[e] >= task[e].retries BY <1>1, <2>3 DEF RetriesCounted
  <2>5. task[e].retries \in 0 .. MaxRetries /\ errors[e] \in Nat /\ errors'[e] \in Nat
    BY <1>2, <2>2 DEF Task
  <2> QED BY <1>1, <2>1, <2>2, <2>3, <2>4, <2>5, RetryMoves, OthersKept
<1>7. CASE UNCHANGED vars
  BY <1>7 DEF vars, IInv, TypeOK, RetriesCounted, OutcomesAreTrue, Insertable
<1> QED BY <1>3, <1>4, <1>5, <1>6, <1>7 DEF Next, Run

(* Every variable keeps its type: no task is retried past MaxRetries.      *)
THEOREM TypeCorrect == Spec => []TypeOK
BY InitInv, StepInv, PTL DEF Spec, IInv

(* audit_log_task: a task that returned has its row, and one that gave up  *)
(* without it has been failed by the database in every one of its runs.    *)
THEOREM OutcomesTrue == Spec => []OutcomesAreTrue
BY InitInv, StepInv, PTL DEF Spec, IInv

-----------------------------------------------------------------------------
(* What an event still has to do: to be posted and its runs.               *)
Left(e) ==
    IF task[e].pc = "unposted" THEN MaxRetries + 2
    ELSE IF task[e].pc = "queued" THEN MaxRetries + 1 - task[e].retries ELSE 0

(* Each step of an event leaves it less to do, though every error asks for *)
(* a retry and self.retry and the decorator both count them                *)
(* (audit_tasks.py:28-34, 75-90).                                          *)
RunsDown == \A e \in Events : task'[e] # task[e] => Left(e)' < Left(e)

(* One event moves at a time, and it has less to do.                       *)
LEMMA StepRunsDown == TypeOK /\ [Next]_vars => RunsDown
<1> SUFFICES ASSUME TypeOK, [Next]_vars PROVE RunsDown OBVIOUS
<1>1. \A e \in Events : task[e] \in Task BY DEF TypeOK
<1>2. ASSUME NEW e \in Events, Retry(e), task[e].pc = "queued" PROVE RunsDown
  <2>1. Left(e)' < Left(e) BY <1>1, <1>2, RetryMoves DEF Left, Task
  <2> QED BY <1>2, <2>1, RetryMoves DEF RunsDown
<1>3. ASSUME NEW e \in Events, NEW pc \in {"returned", "lost"}, Goto(e, pc), task[e].pc = "queued"
      PROVE  RunsDown
  <2>1. Left(e)' < Left(e) BY <1>1, <1>3, GotoMoves DEF Left, Task
  <2> QED BY <1>3, <2>1, GotoMoves DEF RunsDown
<1>4. ASSUME NEW e \in Events, Post(e) PROVE RunsDown
  <2>1. Goto(e, "queued") /\ task[e].pc = "unposted" BY <1>4 DEF Post
  <2>2. Left(e)' < Left(e) BY <1>1, <2>1, GotoMoves DEF Left, Task
  <2> QED BY <2>1, <2>2, GotoMoves DEF RunsDown
<1>5. ASSUME NEW e \in Events, Run(e) \/ Die(e) PROVE RunsDown
  BY <1>2, <1>3, <1>5 DEF Run, Insert, Duplicate, Reject, DatabaseFails, Die
<1>6. CASE task' = task BY <1>6 DEF RunsDown
<1> QED BY <1>4, <1>5, <1>6 DEF Next, vars

(* No event is tried for ever: a posted event has at most MaxRetries + 1   *)
(* runs to go, and every run takes one away.                               *)
THEOREM EventsRunDown ==
  Spec => /\ [](\A e \in Events : Left(e) \in 0 .. (MaxRetries + 2))
          /\ [][RunsDown]_vars
<1>1. TypeOK => \A e \in Events : Left(e) \in 0 .. (MaxRetries + 2)
  BY DEF TypeOK, Task, Left
<1> QED BY <1>1, StepRunsDown, TypeCorrect, PTL DEF Spec

=============================================================================
