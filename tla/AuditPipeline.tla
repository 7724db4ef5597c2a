---------------------------- MODULE AuditPipeline ----------------------------
(***************************************************************************)
(* Audit entries on their way to the table audit_logs: a handler pushes an *)
(* entry to a Redis list, or to the list of dead letters when that fails;  *)
(* in every API process a worker pops a batch and inserts it in one        *)
(* transaction, and pushes the whole batch to the dead letters when that   *)
(* fails; another worker, which the repository starts nowhere, pops dead   *)
(* letters. The lists keep their newest entries, and a list nobody pushes  *)
(* to for thirty days expires. A push is a MULTI, so it happens as a       *)
(* whole; its answer may not come, and then nobody knows whether it        *)
(* happened. An entry is Plain when AuditService.log built it. The entries *)
(* of the admin e-mail are Bare: they lack columns that may not be null.   *)
(* The fallback to the database between the two pushes is no step:         *)
(* AuditLog, given the keys event_id and created_at_str, raises a          *)
(* TypeError.                                                              *)
(***************************************************************************)
EXTENDS FiniteSets, Functions, Integers, Sequences

CONSTANTS
    Plain, Bare,   \* entries; each is logged once
    Workers,       \* API processes, each with its AuditWorker
    BatchSize,     \* BATCH_SIZE: 100 in the code
    QueueMax,      \* MAX_QUEUE_LENGTH: 10000 by default
    DeadMax,       \* length of the dead letters: 1000 in the code
    MaxFaults,     \* bound: commands that fail, answers lost, processes that die
    None

Entries == Plain \cup Bare

ASSUME AuditAssumption ==
    /\ BatchSize \in Nat \ {0} /\ QueueMax \in Nat \ {0} /\ DeadMax \in Nat \ {0}
    /\ MaxFaults \in Nat /\ IsFiniteSet(Workers) /\ IsFiniteSet(Entries)
    /\ Plain \cap Bare = {} /\ None \notin Entries
    /\ Workers \cap {"queue", "dead", "rescuer", "stored"} = {}   \* names for Copies

VARIABLES
    queue,     \* audit:<app>:queue
    dead,      \* audit:<app>:dlq
    stored,    \* entries with a row; id and fingerprint are unique
    call,      \* per entry: its call of AuditService.log or background_audit_log
    hand,      \* per worker: items
    stage,     \* per worker: its place in _process_batch
    rescuer,   \* dlq_worker: is it in its loop, and the entry it has popped
    faults,    \* history: number of faults
    shed,      \* history: entries that fell off a full list or expired with their list
    given      \* history: entries logged with AUDIT_DLQ_STILL_FAILING

vars == <<queue, dead, stored, call, hand, stage, rescuer, faults, shed, given>>
lists == <<queue, dead, shed>>
workers == <<hand, stage>>

(* Every variable keeps its type; no list and no batch passes its limit.   *)
TypeOK ==
    /\ queue \in Seq(Entries) /\ Len(queue) <= QueueMax
    /\ dead \in Seq(Entries) /\ Len(dead) <= DeadMax
    /\ stored \subseteq Plain
    /\ call \in [Entries -> {"new", "fallback", "done"}]
    /\ hand \in [Workers -> Seq(Entries)]
    /\ \A w \in Workers : Len(hand[w]) <= BatchSize
    /\ stage \in [Workers -> {"pop", "insert", "bury"}]
    /\ rescuer \in [up : BOOLEAN, entry : Entries \cup {None}]
    /\ faults \in 0 .. MaxFaults
    /\ shed \subseteq Entries /\ given \subseteq Entries

Init ==
    /\ queue = <<>> /\ dead = <<>> /\ stored = {}
    /\ call = [e \in Entries |-> "new"]
    /\ hand = [w \in Workers |-> <<>>]
    /\ stage = [w \in Workers |-> "pop"]
    /\ rescuer \in [up : BOOLEAN, entry : {None}]
    /\ faults = 0 /\ shed = {} /\ given = {}

Fault == faults < MaxFaults /\ faults' = faults + 1

(* Mutant: LTRIM with the wrong first index.                               *)
NewestOffByOne(s, max) == IF Len(s) > max THEN SubSeq(s, Len(s) - max, Len(s)) ELSE s

(* RPUSH and LTRIM of one MULTI: the newest max items stay.                *)
Newest(s, max) == IF Len(s) > max THEN SubSeq(s, Len(s) - max + 1, Len(s)) ELSE s
Trim(s, max) == shed' = shed \cup (Range(s) \ Range(Newest(s, max)))
ToQueue(e) ==
    /\ queue' = Newest(Append(queue, e), QueueMax)
    /\ Trim(Append(queue, e), QueueMax)
    /\ UNCHANGED dead
ToDead(es) ==
    /\ dead' = Newest(dead \o es, DeadMax)
    /\ Trim(dead \o es, DeadMax)
    /\ UNCHANGED queue

(* EXPIRE of the same MULTI: a list that nobody pushed to for thirty days  *)
(* is deleted with all it holds. That time is not modelled: any list that  *)
(* holds something may expire.                                             *)
QueueLapses ==
    /\ queue # <<>>
    /\ queue' = <<>> /\ shed' = shed \cup Range(queue)
    /\ UNCHANGED <<dead, stored, call, workers, rescuer, faults, given>>

DeadLapses ==
    /\ dead # <<>>
    /\ dead' = <<>> /\ shed' = shed \cup Range(dead)
    /\ UNCHANGED <<queue, stored, call, workers, rescuer, faults, given>>

-----------------------------------------------------------------------------
(* AuditService.log and background_audit_log *)

Returns(e, label) == call' = [call EXCEPT ![e] = label]

Push(e) ==
    /\ call[e] = "new"
    /\ ToQueue(e)
    /\ Returns(e, "done")
    /\ UNCHANGED <<stored, workers, rescuer, faults, given>>

(* A timeout or an error after the push: the client or tenacity sends it   *)
(* again, or the call takes it for a failure.                              *)
PushUnanswered(e) ==
    /\ call[e] = "new" /\ Fault
    /\ ToQueue(e)
    /\ call' = call \/ Returns(e, "fallback")
    /\ UNCHANGED <<stored, workers, rescuer, given>>

(* The push did not happen. Without a connection, or when the process dies,*)
(* the dead letters are not tried either.                                  *)
PushFails(e) ==
    /\ call[e] = "new" /\ Fault
    /\ Returns(e, "fallback") \/ Returns(e, "done")
    /\ UNCHANGED <<lists, stored, workers, rescuer, given>>

PushDead(e) ==
    /\ call[e] = "fallback"
    /\ ToDead(<<e>>)
    /\ Returns(e, "done")
    /\ UNCHANGED <<stored, workers, rescuer, faults, given>>

PushDeadUnanswered(e) ==
    /\ call[e] = "fallback" /\ Fault
    /\ ToDead(<<e>>)
    /\ call' = call \/ Returns(e, "done")
    /\ UNCHANGED <<stored, workers, rescuer, given>>

(* AUDIT_TOTAL_LOSS.                                                       *)
PushDeadFails(e) ==
    /\ call[e] = "fallback" /\ Fault
    /\ Returns(e, "done")
    /\ UNCHANGED <<lists, stored, workers, rescuer, given>>

-----------------------------------------------------------------------------
(* AuditWorker *)

Turn(w, label) == stage' = [stage EXCEPT ![w] = label]

(* The batch is over: the next call of _process_batch begins.              *)
Over(w) == hand' = [hand EXCEPT ![w] = <<>>] /\ Turn(w, "pop")

(* Mutant: the item is read and not removed.                               *)
PopPeek(w) ==
    /\ stage[w] = "pop" /\ Len(hand[w]) < BatchSize /\ queue # <<>>
    /\ hand' = [hand EXCEPT ![w] = Append(@, Head(queue))]
    /\ UNCHANGED <<lists, stored, call, stage, rescuer, faults, given>>

Pop(w) ==
    /\ stage[w] = "pop" /\ Len(hand[w]) < BatchSize /\ queue # <<>>
    /\ queue' = Tail(queue)
    /\ hand' = [hand EXCEPT ![w] = Append(@, Head(queue))]
    /\ UNCHANGED <<dead, shed, stored, call, stage, rescuer, faults, given>>

(* LPOP took an item and its answer did not come: the client sends it once *)
(* more, or raises an error and the items in hand are forgotten too.       *)
PopUnanswered(w) ==
    /\ stage[w] = "pop" /\ Len(hand[w]) < BatchSize /\ queue # <<>> /\ Fault
    /\ queue' = Tail(queue)
    /\ UNCHANGED workers \/ Over(w)
    /\ UNCHANGED <<dead, shed, stored, call, rescuer, given>>

(* Mutant: the worker waits for a full batch.                              *)
GatherFull(w) ==
    /\ stage[w] = "pop" /\ Len(hand[w]) = BatchSize
    /\ Turn(w, "insert")
    /\ UNCHANGED <<lists, stored, call, hand, rescuer, faults, given>>

(* The loop ends when the batch is full or the list is empty.              *)
Gather(w) ==
    /\ stage[w] = "pop" /\ hand[w] # <<>>
    /\ Len(hand[w]) = BatchSize \/ queue = <<>>
    /\ Turn(w, "insert")
    /\ UNCHANGED <<lists, stored, call, hand, rescuer, faults, given>>

(* bulk_insert_mappings: one transaction, in which every row must have its *)
(* columns and a fingerprint of its own.                                   *)
Insertable(es) ==
    /\ Range(es) \subseteq Plain \ stored
    /\ \A i, j \in DOMAIN es : es[i] = es[j] => i = j

(* Mutant: the items of the last batch are kept.                           *)
InsertKeepsItems(w) ==
    /\ stage[w] = "insert"
    /\ IF Insertable(hand[w])
       THEN stored' = stored \cup Range(hand[w]) /\ Turn(w, "pop") /\ UNCHANGED hand
       ELSE Turn(w, "bury") /\ UNCHANGED <<stored, hand>>
    /\ UNCHANGED <<lists, call, rescuer, faults, given>>

Insert(w) ==
    /\ stage[w] = "insert"
    /\ IF Insertable(hand[w])
       THEN stored' = stored \cup Range(hand[w]) /\ Over(w)
       ELSE Turn(w, "bury") /\ UNCHANGED <<stored, hand>>
    /\ UNCHANGED <<lists, call, rescuer, faults, given>>

(* The commit fails, or it happens and its answer is lost.                 *)
InsertFails(w) ==
    /\ stage[w] = "insert" /\ Fault
    /\ \/ stored' = stored
       \/ Insertable(hand[w]) /\ stored' = stored \cup Range(hand[w])
    /\ Turn(w, "bury")
    /\ UNCHANGED <<lists, call, hand, rescuer, given>>

(* Mutant: only the first item of the batch is kept.                       *)
BuryFirst(w) ==
    /\ stage[w] = "bury"
    /\ ToDead(<<Head(hand[w])>>)
    /\ Over(w)
    /\ UNCHANGED <<stored, call, rescuer, faults, given>>

(* All items of the batch, with one MULTI.                                 *)
Bury(w) ==
    /\ stage[w] = "bury"
    /\ ToDead(hand[w])
    /\ Over(w)
    /\ UNCHANGED <<stored, call, rescuer, faults, given>>

BuryUnanswered(w) ==
    /\ stage[w] = "bury" /\ Fault
    /\ ToDead(hand[w])
    /\ UNCHANGED workers \/ Over(w)
    /\ UNCHANGED <<stored, call, rescuer, given>>

(* A RedisError, which is logged, the cancellation at shutdown or the      *)
(* death of the process: the items are gone, and a worker starts anew.     *)
Drop(w) ==
    /\ stage[w] # "pop" \/ hand[w] # <<>>
    /\ Fault
    /\ Over(w)
    /\ UNCHANGED <<lists, stored, call, rescuer, given>>

-----------------------------------------------------------------------------
(* dlq_worker *)

Rescue ==
    /\ rescuer.up /\ rescuer.entry = None /\ dead # <<>>
    /\ rescuer' = [rescuer EXCEPT !.entry = Head(dead)]
    /\ dead' = Tail(dead)
    /\ UNCHANGED <<queue, shed, stored, call, workers, faults, given>>

(* The constructor of AuditLog raises a TypeError for every entry there    *)
(* is: all have keys that are no columns.                                  *)
RescueFails ==
    /\ rescuer.entry # None
    /\ given' = given \cup {rescuer.entry}
    /\ rescuer' = [rescuer EXCEPT !.entry = None]
    /\ UNCHANGED <<lists, stored, call, workers, faults>>

(* A RedisError of lpop leaves the loop for good, an item may be lost with *)
(* it; so does the death of the process.                                   *)
RescuerStops ==
    /\ rescuer.up /\ Fault
    /\ rescuer' = [up |-> FALSE, entry |-> None]
    /\ \/ dead' = dead
       \/ rescuer.entry = None /\ dead # <<>> /\ dead' = Tail(dead)
    /\ UNCHANGED <<queue, shed, stored, call, workers, given>>

-----------------------------------------------------------------------------
Progress(w) == Pop(w) \/ Gather(w) \/ Insert(w) \/ Bury(w)

Next ==
    \/ \E e \in Entries :
        \/ Push(e) \/ PushUnanswered(e) \/ PushFails(e)
        \/ PushDead(e) \/ PushDeadUnanswered(e) \/ PushDeadFails(e)
    \/ \E w \in Workers :
        \/ Progress(w)
        \/ PopUnanswered(w) \/ InsertFails(w) \/ BuryUnanswered(w) \/ Drop(w)
    \/ Rescue \/ RescueFails \/ RescuerStops
    \/ QueueLapses \/ DeadLapses

Spec == Init /\ [][Next]_vars

(* start() loops for ever and survives every exception: a worker goes on.  *)
FairSpec == Spec /\ \A w \in Workers : WF_vars(Progress(w))

-----------------------------------------------------------------------------
(* Where an entry is, once for each copy.                                  *)
Copies(e) ==
    {<<"queue", i>> : i \in {j \in DOMAIN queue : queue[j] = e}}
      \cup {<<"dead", i>> : i \in {j \in DOMAIN dead : dead[j] = e}}
      \cup {<<p, 0>> : p \in {q \in {"rescuer", "stored"} :
                               IF q = "stored" THEN e \in stored ELSE rescuer.entry = e}}
      \cup UNION {{<<w, i>> : i \in {j \in DOMAIN hand[w] : hand[w][j] = e}} : w \in Workers}

Lost == {e \in Entries : call[e] = "done" /\ Copies(e) = {}} \ (shed \cup given)

(* A fault loses at most one batch. Not counted are entries that fell off a*)
(* full list, that expired with their list and that the dead letter worker *)
(* gave up: of those a whole list may go without any fault                 *)
(* (audit_service.py:92-132, audit_worker.py:34-71).                       *)
LossBounded == Cardinality(Lost) <= BatchSize * faults

(* A fault duplicates at most one batch; above all, without one no entry   *)
(* is ever in two places, also while workers pop side by side              *)
(* (audit_worker.py:37-55, email_policy_service.py:36-52).                 *)
MaxCopies == Len(queue) + Len(dead) + BatchSize * Cardinality(Workers) + 2
Duplicates == {d \in Entries \X (2 .. MaxCopies) : d[2] <= Cardinality(Copies(d[1]))}
DuplicatesBounded == Cardinality(Duplicates) <= BatchSize * faults

(* An entry becomes a dead letter only if something failed or an entry of  *)
(* the admin e-mail has been through, which takes the batch with it: what  *)
(* is shaped like a row goes into the table (audit_worker.py:51-64).       *)
DeadForCause ==
    dead # <<>> \/ given # {} => faults > 0 \/ \E e \in Bare : call[e] # "new"

(* What is queued does not stay: it leaves the list and the workers' hands *)
(* (audit_worker.py:25-31).                                                *)
QueueDrains ==
    \A e \in Entries : e \in Range(queue) ~>
        e \notin Range(queue) \cup UNION {Range(hand[w]) : w \in Workers}

=============================================================================
