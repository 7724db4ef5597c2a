------------------------ MODULE PasswordReset_proofs ------------------------
(* A token changes a password at most once and never after it was replaced,*)
(* success is only reported for a password that changed, and the table and *)
(* the tokens that can be used are bounded: for any number of users,       *)
(* workers, request and mail tasks, retries, confirm requests and rows.    *)
(* Tables, tasks and locks together implement the life of a token that     *)
(* ResetLifecycle describes.                                               *)
EXTENDS PasswordReset, FiniteSetTheorems, FunctionTheorems, TLAPS

Creations == [pc : {"idle", "update", "insert", "mail"}, user : Users \cup {None},
              snap : SUBSET Nat, gone : SUBSET Nat, id : Nat \cup {None}]

(* The types the argument needs: row numbers may be any numbers.           *)
Typed ==
    /\ rows \subseteq Nat /\ used \subseteq Nat
    /\ owner \in [Ids -> Users \cup {None}]
    /\ locked \in [Ids -> Creators \cup Reqs \cup {None}]
    /\ create \in [Creators -> Creations]
    /\ http \in [Reqs -> {"idle", "waiting", "ok", "refused"}]
    /\ job \in [Reqs -> Job]
    /\ applied \subseteq Reqs \X (0 .. MaxRetries)

(* What a confirm task holds is a row that is there, unused and locked.    *)
HeldIsLocked ==
    \A r \in Reqs : job[r].pc = "held" =>
        job[r].tok \in rows \ used /\ job[r].tok \in Ids /\ locked[job[r].tok] = r

(* A worker has locked the rows that its commit will mark.                 *)
MarksAreLocked ==
    \A c \in Creators : create[c].pc = "insert" =>
        \A i \in create[c].snap \cap Ids : locked[i] = c

(* An applied token is used, by one run of one task only.                  *)
AppliedIsUsed ==
    /\ \A a \in applied : job[a[1]].pc # "none" /\ job[a[1]].tok \in used
    /\ \A a, b \in applied : job[a[1]].tok = job[b[1]].tok => a = b

(* A request that is not posted has no task; a task that committed, and a  *)
(* client that was told so, have their password.                           *)
AnswersAreTrue ==
    \A r \in Reqs :
        /\ http[r] = "idle" => job[r].pc = "none"
        /\ job[r].pc \in {"committed", "SUCCESS"} => r \in Changed
        /\ http[r] = "ok" => r \in Changed

(* The inductive invariant.                                                *)
IInv == Typed /\ HeldIsLocked /\ MarksAreLocked /\ AppliedIsUsed /\ AnswersAreTrue

USE ResetAssumption

(* It holds when nothing has been requested.                               *)
LEMMA InitInv == Init => IInv
<1> SUFFICES ASSUME Init PROVE IInv OBVIOUS
<1>1. IdleCreation \in Creations /\ IdleCreation.pc = "idle" BY DEF IdleCreation, Creations
<1>2. [pc |-> "none", tok |-> None, tries |-> 0] \in Job BY DEF Job
<1>3. Typed BY <1>1, <1>2 DEF Init, Typed
<1> QED BY <1>1, <1>3 DEF Init, IInv, HeldIsLocked, MarksAreLocked, AppliedIsUsed, AnswersAreTrue

(* Rows are numbered by naturals.                                          *)
LEMMA NewIdType == NewId \in Nat
<1>1. IsFiniteSet(Ids) BY FS_Interval DEF Ids
<1>2. IsFiniteSet({i \in Ids : owner[i] # None}) BY <1>1, FS_Subset
<1> QED BY <1>2, FS_CardinalityType DEF NewId

(* Only the locks of p go when p unlocks.                                  *)
LEMMA UnlockKeeps ==
  ASSUME Typed, NEW p \in Creators \cup Reqs, Unlock(p)
  PROVE  /\ locked' \in [Ids -> Creators \cup Reqs \cup {None}]
         /\ \A i \in Ids : locked[i] # p => locked'[i] = locked[i]
BY DEF Typed, Unlock

(* Nobody's lock is broken by p locking rows that were free or its own.    *)
LEMMA LockKeeps ==
  ASSUME Typed, NEW p \in Creators \cup Reqs, NEW S, \A i \in S : locked[i] \in {None, p}, Lock(S, p)
  PROVE  /\ locked' \in [Ids -> Creators \cup Reqs \cup {None}]
         /\ \A i \in Ids : locked[i] \notin {None, p} => locked'[i] = locked[i]
         /\ \A i \in Ids : i \in S \/ locked[i] = p => locked'[i] = p
BY DEF Typed, Lock

(* A step of a worker c that leaves the confirm tasks alone.               *)
LEMMA CreatorKeeps ==
  ASSUME IInv, NEW c \in Creators, UNCHANGED confirmVars,
         NEW new \in Creations, create' = [create EXCEPT ![c] = new],
         rows' \subseteq Nat, used' \subseteq Nat, used \subseteq used',
         owner' \in [Ids -> Users \cup {None}],
         locked' \in [Ids -> Creators \cup Reqs \cup {None}],
         \A i \in Ids : locked[i] \notin {None, c} => locked'[i] = locked[i],
         \A i \in Ids : locked[i] \notin {None, c} /\ i \in rows \ used => i \in rows' \ used',
         new.pc = "insert" => \A i \in new.snap \cap Ids : locked'[i] = c
  PROVE  IInv'
<1> USE DEF IInv
<1>1. Typed' BY DEF Typed, confirmVars
<1>2. c \notin Reqs /\ None \notin Reqs /\ None \notin Creators OBVIOUS
<1>3. HeldIsLocked'
  <2> SUFFICES ASSUME NEW r \in Reqs, job[r].pc = "held"
               PROVE  /\ job[r].tok \in rows' \ used' /\ job[r].tok \in Ids
                      /\ locked'[job[r].tok] = r
    BY DEF HeldIsLocked, confirmVars
  <2>1. job[r].tok \in rows \ used /\ job[r].tok \in Ids /\ locked[job[r].tok] = r
    BY DEF HeldIsLocked
  <2> QED BY <2>1, <1>2
<1>4. MarksAreLocked'
  <2> SUFFICES ASSUME NEW d \in Creators, create'[d].pc = "insert"
               PROVE  \A i \in create'[d].snap \cap Ids : locked'[i] = d
    BY DEF MarksAreLocked
  <2>1. CASE d = c BY <2>1 DEF Typed
  <2>2. CASE d # c BY <2>2, <1>2 DEF Typed, MarksAreLocked
  <2> QED BY <2>1, <2>2
<1>5. AppliedIsUsed' /\ AnswersAreTrue'
  BY DEF AppliedIsUsed, AnswersAreTrue, Changed, confirmVars
<1> QED BY <1>1, <1>3, <1>4, <1>5

(* A step of a confirm task r that commits nothing.                        *)
LEMMA JobKeeps ==
  ASSUME IInv, NEW r \in Reqs, UNCHANGED <<tableVars, create, applied>>,
         NEW new \in Job, job' = [job EXCEPT ![r] = new], new.tok = job[r].tok,
         http' = http, job[r].pc # "none", new.pc # "none",
         new.pc = "held" => /\ new.tok \in rows \ used /\ new.tok \in Ids
                            /\ locked'[new.tok] = r,
         new.pc \in {"committed", "SUCCESS"} => r \in Changed,
         locked' \in [Ids -> Creators \cup Reqs \cup {None}],
         \A i \in Ids : locked[i] \notin {None, r} => locked'[i] = locked[i]
  PROVE  IInv'
<1> USE DEF IInv
<1>1. Typed' BY DEF Typed, tableVars
<1>2. r \notin Creators /\ None \notin Reqs /\ None \notin Creators OBVIOUS
<1>3. HeldIsLocked'
  <2> SUFFICES ASSUME NEW q \in Reqs, job'[q].pc = "held"
               PROVE  /\ job'[q].tok \in rows \ used /\ job'[q].tok \in Ids
                      /\ locked'[job'[q].tok] = q
    BY DEF HeldIsLocked, tableVars
  <2>1. CASE q = r BY <2>1 DEF Typed
  <2>2. CASE q # r BY <2>2, <1>2 DEF Typed, HeldIsLocked
  <2> QED BY <2>1, <2>2
<1>4. MarksAreLocked' BY <1>2 DEF MarksAreLocked
<1>5. \A q \in Reqs : job'[q].tok = job[q].tok /\ (job[q].pc # "none" => job'[q].pc # "none")
  BY DEF Typed
<1>6. AppliedIsUsed'
  <2>1. \A a \in applied : a[1] \in Reqs BY DEF Typed
  <2> QED BY <1>5, <2>1 DEF AppliedIsUsed, tableVars
<1>7. AnswersAreTrue'
  <2>1. Changed' = Changed BY DEF Changed
  <2> QED BY <2>1 DEF AnswersAreTrue, Typed
<1> QED BY <1>1, <1>3, <1>4, <1>6, <1>7

-----------------------------------------------------------------------------
(* The steps of a worker in a request or mail task *)

LEMMA CreateBeginInv ==
  ASSUME IInv, NEW c \in Creators, NEW u \in Users \cup {None}, CreateBegin(c, u)
  PROVE  IInv'
<1> DEFINE new == [IdleCreation EXCEPT !.pc = "update", !.user = u, !.snap = RowsOf(u) \ used]
<1>1. new \in Creations /\ new.pc = "update"
  BY DEF IInv, Typed, IdleCreation, Creations, RowsOf
<1>2. create' = [create EXCEPT ![c] = new] BY DEF CreateBegin
<1> HIDE DEF new
<1> QED BY <1>1, <1>2, CreatorKeeps DEF CreateBegin, IInv, Typed, tableVars

LEMMA CreateUpdateInv ==
  ASSUME IInv, NEW c \in Creators, CreateUpdate(c) PROVE IInv'
<1> DEFINE marks == (create[c].snap \cap rows) \ used
           new == [create[c] EXCEPT !.pc = "insert", !.snap = marks,
                                    !.gone = Trimmed(RowsOf(create[c].user))]
<1>1. new \in Creations /\ new.pc = "insert" /\ new.snap = marks
  <2>1. create[c] \in Creations /\ rows \subseteq Nat BY DEF IInv, Typed
  <2>2. marks \in SUBSET Nat BY <2>1 DEF Creations
  <2>3. Trimmed(RowsOf(create[c].user)) \in SUBSET Nat BY <2>1 DEF Trimmed, RowsOf
  <2> HIDE DEF marks
  <2> QED BY <2>1, <2>2, <2>3 DEF Creations
<1>2. create' = [create EXCEPT ![c] = new] BY DEF CreateUpdate
<1>3. Lock(marks, c) /\ \A i \in marks : locked[i] \in {None, c}
  BY DEF CreateUpdate, Unlocked
<1> HIDE DEF new, marks
<1>4. /\ locked' \in [Ids -> Creators \cup Reqs \cup {None}]
      /\ \A i \in Ids : locked[i] \notin {None, c} => locked'[i] = locked[i]
      /\ \A i \in marks \cap Ids : locked'[i] = c
  BY <1>3, LockKeeps DEF IInv
<1> QED BY <1>1, <1>2, <1>4, CreatorKeeps DEF CreateUpdate, IInv, Typed, tableVars

LEMMA CreateCommitInv ==
  ASSUME IInv, NEW c \in Creators, CreateCommit(c) PROVE IInv'
<1> DEFINE new == [IdleCreation EXCEPT !.pc = "mail", !.id = NewId]
<1>1. new \in Creations /\ new.pc = "mail"
  BY NewIdType DEF IdleCreation, Creations
<1>2. create' = [create EXCEPT ![c] = new] BY DEF CreateCommit
<1> HIDE DEF new
<1>3. /\ locked' \in [Ids -> Creators \cup Reqs \cup {None}]
      /\ \A i \in Ids : locked[i] # c => locked'[i] = locked[i]
  BY UnlockKeeps DEF CreateCommit, IInv
<1>4. create[c].snap \subseteq Nat BY DEF IInv, Typed, Creations
<1>5. rows' \subseteq Nat /\ used' \subseteq Nat /\ used \subseteq used'
  BY <1>4, NewIdType DEF CreateCommit, IInv, Typed
<1>6. ASSUME NEW i \in Ids, locked[i] \notin {None, c}, i \in rows \ used
      PROVE  i \in rows' \ used'
  <2>1. i \notin create[c].gone BY <1>6 DEF CreateCommit
  <2>2. i \notin create[c].snap BY <1>6 DEF CreateCommit, IInv, MarksAreLocked
  <2> QED BY <1>6, <2>1, <2>2 DEF CreateCommit
<1>7. UNCHANGED confirmVars BY DEF CreateCommit
<1>8. owner' \in [Ids -> Users \cup {None}]
  <2>1. create[c].user \in Users \cup {None} BY DEF IInv, Typed, Creations
  <2> QED BY <2>1 DEF CreateCommit, IInv, Typed
<1> QED BY <1>1, <1>2, <1>3, <1>5, <1>6, <1>7, <1>8, CreatorKeeps

(* The ends of a run: the worker is free, the table stays as it is.        *)
Ends(c) == RequestMail(c) \/ MailSend(c) \/ MailRetry(c) \/ CreateFail(c)

LEMMA EndsInv ==
  ASSUME IInv, NEW c \in Creators, Ends(c) PROVE IInv'
<1>1. IdleCreation \in Creations /\ IdleCreation.pc = "idle" BY DEF IdleCreation, Creations
<1>2. /\ create' = [create EXCEPT ![c] = IdleCreation] /\ Unlock(c)
      /\ UNCHANGED <<rows, owner, used>> /\ UNCHANGED confirmVars
  BY DEF Ends, RequestMail, MailSend, MailRetry, CreateFail, Free, tableVars
<1>3. /\ locked' \in [Ids -> Creators \cup Reqs \cup {None}]
      /\ \A i \in Ids : locked[i] # c => locked'[i] = locked[i]
  BY <1>2, UnlockKeeps DEF IInv
<1> QED BY <1>1, <1>2, <1>3, CreatorKeeps DEF IInv, Typed

-----------------------------------------------------------------------------
(* The steps of a confirm request and its task *)

LEMMA ConfirmPostInv ==
  ASSUME IInv, NEW r \in Reqs, NEW i \in Ids, ConfirmPost(r, i) PROVE IInv'
<1> USE DEF IInv
<1> DEFINE new == [pc |-> "queued", tok |-> i, tries |-> 0]
<1>1. new \in Job /\ new.pc = "queued" BY DEF Job
<1>2. /\ job' = [job EXCEPT ![r] = new] /\ http' = [http EXCEPT ![r] = "waiting"]
      /\ UNCHANGED <<rows, owner, used, locked, create, applied>>
  BY DEF ConfirmPost, tableVars
<1>3. job[r].pc = "none" BY DEF ConfirmPost, AnswersAreTrue
<1> HIDE DEF new
<1>4. \A a \in applied : a[1] \in Reqs /\ a[1] # r BY <1>3 DEF AppliedIsUsed, Typed
<1>5. Typed' BY <1>1, <1>2 DEF Typed
<1>6. \A q \in Reqs : job'[q] = IF q = r THEN new ELSE job[q] BY <1>2 DEF Typed
<1>7. HeldIsLocked' BY <1>1, <1>2, <1>6 DEF HeldIsLocked
<1>8. MarksAreLocked' BY <1>2 DEF MarksAreLocked
<1>9. AppliedIsUsed'
  <2>1. \A a \in applied : job'[a[1]] = job[a[1]] BY <1>4, <1>6
  <2> QED BY <1>2, <2>1 DEF AppliedIsUsed
<1>10. AnswersAreTrue'
  <2>1. Changed' = Changed BY <1>2 DEF Changed
  <2> QED BY <1>1, <1>2, <1>6, <2>1 DEF AnswersAreTrue, Typed
<1> QED BY <1>5, <1>7, <1>8, <1>9, <1>10

LEMMA ConfirmReplyInv ==
  ASSUME IInv, NEW r \in Reqs, ConfirmReply(r) PROVE IInv'
<1> USE DEF IInv
<1>1. UNCHANGED <<rows, owner, used, locked, create, job, applied>> BY DEF ConfirmReply, tableVars
<1>2. PICK x \in {"ok", "refused"} :
        http' = [http EXCEPT ![r] = x] /\ (x = "ok" => job[r].pc = "SUCCESS")
  BY DEF ConfirmReply
<1>3. Typed' /\ HeldIsLocked' /\ MarksAreLocked' /\ AppliedIsUsed'
  BY <1>1, <1>2 DEF Typed, HeldIsLocked, MarksAreLocked, AppliedIsUsed
<1>4. AnswersAreTrue'
  <2>1. Changed' = Changed BY <1>1 DEF Changed
  <2> QED BY <1>1, <1>2, <2>1 DEF AnswersAreTrue, Typed
<1> QED BY <1>3, <1>4

(* The program counter of a task moves.                                    *)
LEMMA JobToType ==
  ASSUME IInv, NEW r \in Reqs,
         NEW pc \in {"none", "queued", "held", "committed", "SUCCESS", "FAILURE"}, JobTo(r, pc)
  PROVE  \E new \in Job : /\ job' = [job EXCEPT ![r] = new]
                          /\ new.pc = pc /\ new.tok = job[r].tok
<1> DEFINE new == [job[r] EXCEPT !.pc = pc]
<1>1. new \in Job /\ new.pc = pc /\ new.tok = job[r].tok BY DEF IInv, Typed, Job
<1>2. job' = [job EXCEPT ![r] = new] BY DEF JobTo
<1> QED BY <1>1, <1>2

LEMMA VerifyAndConsumeInv ==
  ASSUME IInv, NEW r \in Reqs, VerifyAndConsume(r) PROVE IInv'
<1>1. /\ UNCHANGED <<tableVars, create, applied>> /\ http' = http
      /\ job[r].pc = "queued" /\ Unlocked(Valid)
  BY DEF VerifyAndConsume
<1>2. CASE job[r].tok \in Valid /\ Lock(Valid, r) /\ JobTo(r, "held")
  <2>1. PICK new \in Job : /\ job' = [job EXCEPT ![r] = new]
                           /\ new.pc = "held" /\ new.tok = job[r].tok
    BY <1>2, JobToType
  <2>2. job[r].tok \in Ids BY <1>2, <2>1 DEF IInv, Typed, Job, Valid, ResetAssumption
  <2>3. /\ locked' \in [Ids -> Creators \cup Reqs \cup {None}]
        /\ \A i \in Ids : locked[i] \notin {None, r} => locked'[i] = locked[i]
        /\ locked'[job[r].tok] = r
    BY <1>1, <1>2, <2>2, LockKeeps DEF IInv, Unlocked
  <2>4. job[r].tok \in rows \ used BY <1>2 DEF Valid
  <2> QED BY <1>1, <2>1, <2>2, <2>3, <2>4, JobKeeps
<1>3. CASE JobTo(r, "FAILURE") /\ UNCHANGED locked
  <2>1. PICK new \in Job : /\ job' = [job EXCEPT ![r] = new]
                           /\ new.pc = "FAILURE" /\ new.tok = job[r].tok
    BY <1>3, JobToType
  <2> QED BY <1>1, <1>3, <2>1, JobKeeps DEF IInv, Typed
<1> QED BY <1>2, <1>3 DEF VerifyAndConsume

(* A run that commits adds its request to those whose password was set.    *)
LEMMA RunChanges ==
  ASSUME Typed, NEW r \in Reqs, applied' = applied \cup {<<r, job[r].tries>>}
  PROVE  Changed' = Changed \cup {r}
<1>1. job[r].tries \in 0 .. MaxRetries BY DEF Typed, Job
<1> QED BY <1>1 DEF Changed

LEMMA JobCommitInv ==
  ASSUME IInv, NEW r \in Reqs, JobCommit(r) PROVE IInv'
<1> USE DEF IInv
<1> DEFINE run == <<r, job[r].tries>>
<1>1. /\ job[r].pc = "held" /\ used' = used \cup {job[r].tok} /\ applied' = applied \cup {run}
      /\ UNCHANGED <<rows, owner, create, http>> /\ JobTo(r, "committed") /\ Unlock(r)
  BY DEF JobCommit
<1>2. PICK new \in Job : /\ job' = [job EXCEPT ![r] = new]
                         /\ new.pc = "committed" /\ new.tok = job[r].tok
  BY <1>1, JobToType
<1>3. \A q \in Reqs : job'[q] = IF q = r THEN new ELSE job[q] BY <1>2 DEF Typed
<1>4. /\ locked' \in [Ids -> Creators \cup Reqs \cup {None}]
      /\ \A i \in Ids : locked[i] # r => locked'[i] = locked[i]
  BY <1>1, UnlockKeeps
<1>5. job[r].tok \in rows \ used /\ job[r].tok \in Ids /\ locked[job[r].tok] = r
  BY <1>1 DEF HeldIsLocked
<1>6. Typed'
  <2>1. run \in Reqs \X (0 .. MaxRetries) BY DEF Typed, Job
  <2> HIDE DEF run
  <2> QED BY <1>1, <1>2, <1>4, <1>5, <2>1 DEF Typed
<1>7. HeldIsLocked'
  <2> SUFFICES ASSUME NEW q \in Reqs, job'[q].pc = "held"
               PROVE  /\ job'[q].tok \in rows' \ used' /\ job'[q].tok \in Ids
                      /\ locked'[job'[q].tok] = q
    BY DEF HeldIsLocked
  <2>1. q # r /\ job'[q] = job[q] BY <1>2, <1>3
  <2>2. job[q].tok \in rows \ used /\ job[q].tok \in Ids /\ locked[job[q].tok] = q
    BY <2>1 DEF HeldIsLocked
  <2>3. job[q].tok # job[r].tok BY <1>5, <2>1, <2>2
  <2> QED BY <1>1, <1>4, <2>1, <2>2, <2>3
<1>8. MarksAreLocked'
  <2>1. \A c \in Creators : c # r OBVIOUS
  <2> QED BY <1>1, <1>4, <2>1 DEF MarksAreLocked
<1>9. AppliedIsUsed'
  <2>1. \A a \in applied : job[a[1]].tok # job[r].tok BY <1>5 DEF AppliedIsUsed
  <2>2. \A a \in applied' : a[1] \in Reqs /\ ((a = run /\ a[1] = r) \/ a \in applied)
    BY <1>1 DEF Typed
  <2> HIDE DEF run
  <2>3. \A q \in Reqs : job'[q].tok = job[q].tok /\ (job[q].pc # "none" => job'[q].pc # "none")
    BY <1>2, <1>3
  <2>4. \A a \in applied' : job'[a[1]].pc # "none" /\ job'[a[1]].tok \in used'
    BY <1>1, <2>2, <2>3 DEF AppliedIsUsed
  <2>5. \A a, b \in applied' : job'[a[1]].tok = job'[b[1]].tok => a = b
    BY <2>1, <2>2, <2>3 DEF AppliedIsUsed
  <2> QED BY <2>4, <2>5 DEF AppliedIsUsed
<1>10. AnswersAreTrue'
  <2>1. Changed' = Changed \cup {r} BY <1>1, RunChanges
  <2> QED BY <1>1, <1>2, <1>3, <2>1 DEF AnswersAreTrue
<1> QED BY <1>6, <1>7, <1>8, <1>9, <1>10

LEMMA JobReturnInv ==
  ASSUME IInv, NEW r \in Reqs, JobReturn(r) PROVE IInv'
<1>1. PICK new \in Job : /\ job' = [job EXCEPT ![r] = new]
                         /\ new.pc = "SUCCESS" /\ new.tok = job[r].tok
  BY JobToType DEF JobReturn
<1>2. job[r].pc = "committed" /\ r \in Changed BY DEF JobReturn, IInv, AnswersAreTrue
<1> QED BY <1>1, <1>2, JobKeeps DEF JobReturn, IInv, Typed

(* An attempt ends: the locks are free, the task is queued again or failed.*)
LEMMA AttemptEnds ==
  ASSUME IInv, NEW r \in Reqs, job[r].pc \in {"queued", "held", "committed"}, Unlock(r),
         UNCHANGED <<tableVars, create, http, applied>>,
         NEW new \in Job, job' = [job EXCEPT ![r] = new], new.tok = job[r].tok,
         new.pc \in {"queued", "FAILURE"}
  PROVE  IInv'
<1>1. /\ locked' \in [Ids -> Creators \cup Reqs \cup {None}]
      /\ \A i \in Ids : locked[i] # r => locked'[i] = locked[i]
  BY UnlockKeeps DEF IInv
<1> QED BY <1>1, JobKeeps

LEMMA JobRetryInv ==
  ASSUME IInv, NEW r \in Reqs, JobRetry(r) PROVE IInv'
<1>1. job[r] \in Job BY DEF IInv, Typed
<1>2. CASE job[r].tries < MaxRetries
  <2> DEFINE new == [job[r] EXCEPT !.pc = "queued", !.tries = @ + 1]
  <2>1. job[r].tries + 1 \in 0 .. MaxRetries BY <1>1, <1>2 DEF Job, ResetAssumption
  <2>2. new \in Job /\ new.tok = job[r].tok /\ new.pc = "queued" BY <1>1, <2>1 DEF Job
  <2>3. job' = [job EXCEPT ![r] = new] BY <1>2 DEF JobRetry
  <2> HIDE DEF new
  <2> QED BY <2>2, <2>3, AttemptEnds DEF JobRetry
<1>3. CASE ~(job[r].tries < MaxRetries)
  <2> DEFINE new == [job[r] EXCEPT !.pc = "FAILURE"]
  <2>1. new \in Job /\ new.tok = job[r].tok /\ new.pc = "FAILURE" BY <1>1 DEF Job
  <2>2. job' = [job EXCEPT ![r] = new] BY <1>3 DEF JobRetry, JobTo
  <2> HIDE DEF new
  <2> QED BY <2>1, <2>2, AttemptEnds DEF JobRetry
<1> QED BY <1>2, <1>3

LEMMA JobFailInv ==
  ASSUME IInv, NEW r \in Reqs, JobFail(r) PROVE IInv'
<1>1. PICK new \in Job : /\ job' = [job EXCEPT ![r] = new]
                         /\ new.pc = "FAILURE" /\ new.tok = job[r].tok
  BY JobToType DEF JobFail
<1> QED BY <1>1, AttemptEnds DEF JobFail

-----------------------------------------------------------------------------
(* Every step keeps the invariant.                                         *)
LEMMA StepInv == IInv /\ [Next]_vars => IInv'
<1> SUFFICES ASSUME IInv, [Next]_vars PROVE IInv' OBVIOUS
<1>1. ASSUME NEW i \in Ids, Expire(i) PROVE IInv'
  BY <1>1 DEF Expire, confirmVars, IInv, Typed, HeldIsLocked, MarksAreLocked,
              AppliedIsUsed, AnswersAreTrue, Changed
<1>2. CASE UNCHANGED vars
  BY <1>2 DEF vars, IInv, Typed, HeldIsLocked, MarksAreLocked, AppliedIsUsed, AnswersAreTrue, Changed
<1>3. ASSUME NEW c \in Creators,
             (\E u \in Users : RequestBegin(c, u)) \/ (\E m \in Mails : MailBegin(c, m))
      PROVE  IInv'
  <2>1. \A m \in Mails : owner[m[1]] \in Users \cup {None} BY DEF IInv, Typed, Mails
  <2> QED BY <1>3, <2>1, CreateBeginInv DEF RequestBegin, MailBegin
<1>4. ASSUME NEW c \in Creators, CreateProgress(c) \/ MailRetry(c) \/ CreateFail(c) PROVE IInv'
  BY <1>4, CreateUpdateInv, CreateCommitInv, EndsInv DEF CreateProgress, Ends
<1>5. ASSUME NEW r \in Reqs, (\E i \in Ids : ConfirmPost(r, i)) \/ ConfirmReply(r) PROVE IInv'
  BY <1>5, ConfirmPostInv, ConfirmReplyInv
<1>6. ASSUME NEW r \in Reqs, JobProgress(r) \/ JobRetry(r) \/ JobFail(r) PROVE IInv'
  BY <1>6, VerifyAndConsumeInv, JobCommitInv, JobReturnInv, JobRetryInv, JobFailInv
     DEF JobProgress
<1> QED BY <1>1, <1>2, <1>3, <1>4, <1>5, <1>6 DEF Next

(* The inductive invariant holds in every behaviour.                       *)
THEOREM Invariant == Spec => []IInv
<1> QED BY InitInv, StepInv, PTL DEF Spec

(* A token changes a password at most once, for any number of users,       *)
(* overlapping tasks, retries and lost commit answers, a task that runs    *)
(* again among them: the row is locked from the moment it is found unused  *)
(* until it is used                                                        *)
(* (password_reset.py:52-72).                                              *)
THEOREM TokensAreSingleUse == Spec => []SingleUse
<1>1. IInv => SingleUse
  <2> SUFFICES ASSUME IInv, NEW i \in Ids
               PROVE  Cardinality({a \in applied : job[a[1]].tok = i}) <= 1
    BY DEF SingleUse
  <2> DEFINE S == {a \in applied : job[a[1]].tok = i}
  <2>1. \A p, q \in S : p = q BY DEF IInv, AppliedIsUsed
  <2> HIDE DEF S
  <2>2. CASE S = {}
    <3>1. Cardinality(S) = 0 BY <2>2, FS_EmptySet
    <3> QED BY <3>1 DEF S
  <2>3. CASE S # {}
    <3>1. PICK a \in S : TRUE BY <2>3
    <3>2. S = {a} BY <2>1, <3>1
    <3>3. Cardinality(S) = 1 BY <3>2, FS_Singleton
    <3> QED BY <3>3 DEF S
  <2> QED BY <2>2, <2>3
<1> QED BY <1>1, Invariant, PTL

(* A client that reads success has its password committed, whatever the    *)
(* task went through (password_reset_tasks.py:53-86,                       *)
(* password_reset_router.py:66-73).                                        *)
THEOREM SuccessIsTrue == Spec => []SuccessMeansChanged
<1>1. IInv => SuccessMeansChanged BY DEF IInv, AnswersAreTrue, SuccessMeansChanged
<1> QED BY <1>1, Invariant, PTL

(* A token that was used, or replaced by a newer one, changes no password  *)
(* any more (password_reset.py:25-28, 60-72).                              *)
THEOREM RevokedStaysDead == Spec => RevokedIsDead
<1> DEFINE Fresh == \A a \in applied' \ applied : job[a[1]].tok \in rows \ used
<1>1. ASSUME IInv, Next PROVE Fresh
  <2>1. CASE \E r \in Reqs : JobCommit(r)
    BY <1>1, <2>1 DEF JobCommit, IInv, HeldIsLocked
  <2>2. CASE applied' = applied BY <2>2
  <2>3. applied' = applied \/ \E r \in Reqs : JobCommit(r)
    BY <1>1 DEF Next, CreateProgress, JobProgress, RequestBegin, MailBegin, CreateBegin,
                CreateUpdate, CreateCommit, RequestMail, MailSend, MailRetry, CreateFail, ConfirmPost, ConfirmReply, VerifyAndConsume, JobReturn,
                JobRetry, JobFail, Expire, confirmVars
  <2> QED BY <2>1, <2>2, <2>3
<1>2. IInv /\ [Next]_vars => [Fresh]_vars BY <1>1
<1> QED BY <1>2, Invariant, PTL DEF Spec, RevokedIsDead

-----------------------------------------------------------------------------
(* Rows and their numbers *)

Pending == {c \in Creators : create[c].pc \in {"update", "insert"}}
Owned == {i \in Ids : owner[i] # None}

(* A mail task, queued or running, is one of a request that has made its   *)
(* row; and so is what a run hands over at its end.                        *)
MailTyped ==
    /\ posted \subseteq Mails /\ mail \in [Creators -> Mails \cup {None}]
    /\ \A m \in posted : owner[m[1]] \in Users
    /\ \A c \in Creators : mail[c] # None => owner[mail[c][1]] \in Users
    /\ \A c \in Creators : create[c].pc = "mail" =>
          create[c].id \in Ids /\ owner[create[c].id] \in Users

(* All rows have ids, since a run starts only while there is one for it and*)
(* for each run that is under way.                                         *)
TableTyped ==
    /\ rows \subseteq Ids /\ used \subseteq Ids /\ expired \subseteq Ids /\ mailed \subseteq Ids
    /\ owner \in [Ids -> Users \cup {None}]
    /\ create \in [Creators -> Creation]
    /\ \A c \in Pending : create[c].user \in Users
    /\ MailTyped
    /\ Cardinality(Owned) + Cardinality(Pending) <= MaxIds

LEMMA Finite ==
  /\ IsFiniteSet(Ids) /\ IsFiniteSet(Owned) /\ IsFiniteSet(Pending)
  /\ Cardinality(Owned) \in Nat /\ Cardinality(Pending) \in Nat
<1>1. IsFiniteSet(Ids) BY FS_Interval DEF Ids
<1>2. IsFiniteSet(Owned) /\ IsFiniteSet(Pending) BY <1>1, FS_Subset DEF Owned, Pending
<1> QED BY <1>1, <1>2, FS_CardinalityType

(* A set with one more element.                                            *)
LEMMA OneMore ==
  ASSUME NEW S, IsFiniteSet(S), NEW x
  PROVE  IsFiniteSet(S \cup {x}) /\ Cardinality(S \cup {x}) <= Cardinality(S) + 1
<1>1. Cardinality(S) \in Nat BY FS_CardinalityType
<1>2. /\ IsFiniteSet(S \cup {x})
      /\ Cardinality(S \cup {x}) = IF x \in S THEN Cardinality(S) ELSE Cardinality(S) + 1
  BY FS_AddElement
<1> QED BY <1>1, <1>2

(* One more or one less.                                                   *)
LEMMA PendingMoves ==
  ASSUME TableTyped, NEW c \in Creators, NEW new, create' = [create EXCEPT ![c] = new]
  PROVE  /\ new.pc \notin {"update", "insert"} => Pending' = Pending \ {c}
         /\ new.pc \in {"update", "insert"} => Pending' = Pending \cup {c}
BY DEF Pending, TableTyped

(* A task that has begun has an id left for its row.                       *)
LEMMA NewIdFits ==
  ASSUME TableTyped, NEW c \in Pending
  PROVE  NewId \in Ids
<1>1. Cardinality(Pending) # 0 BY Finite, FS_EmptySet
<1>2. NewId = Cardinality(Owned) + 1 BY DEF NewId, Owned
<1> QED BY <1>1, <1>2, Finite DEF TableTyped, Ids

LEMMA InitTable == Init => TableTyped
<1> SUFFICES ASSUME Init PROVE TableTyped OBVIOUS
<1>1. IdleCreation \in Creation /\ IdleCreation.pc = "idle" BY DEF IdleCreation, Creation
<1>2. Pending = {} /\ Owned = {} BY <1>1 DEF Init, Pending, Owned
<1>3. Cardinality(Pending) = 0 /\ Cardinality(Owned) = 0 BY <1>2, FS_EmptySet
<1>4. MailTyped BY <1>1 DEF Init, MailTyped
<1> QED BY <1>1, <1>2, <1>3, <1>4 DEF Init, TableTyped

(* What the confirm tasks and time leave alone.                            *)
LEMMA OthersKeep ==
  ASSUME IInv, TableTyped,
         \/ \E r \in Reqs : \/ \E i \in Ids : ConfirmPost(r, i)
                            \/ ConfirmReply(r) \/ JobProgress(r) \/ JobRetry(r) \/ JobFail(r)
         \/ \E i \in Ids : Expire(i)
         \/ UNCHANGED vars
  PROVE  /\ rows' = rows /\ owner' = owner /\ create' = create /\ mailed' = mailed
         /\ posted' = posted /\ mail' = mail
         /\ used \subseteq used' /\ used' \subseteq Ids /\ expired' \subseteq Ids
<1>1. ASSUME NEW r \in Reqs, JobCommit(r)
      PROVE  used' = used \cup {job[r].tok} /\ job[r].tok \in Ids
  BY <1>1 DEF JobCommit, IInv, HeldIsLocked
<1> QED
  BY <1>1 DEF ConfirmPost, ConfirmReply, JobProgress, JobRetry, JobFail, VerifyAndConsume, JobCommit,
              JobReturn, Expire, vars, tableVars, mailVars, confirmVars, TableTyped

(* A run begins for some user.                                             *)
Begins(c) == (\E u \in Users : RequestBegin(c, u)) \/ (\E m \in Mails : MailBegin(c, m))

LEMMA BeginsForUser ==
  ASSUME TableTyped, NEW c \in Creators, Begins(c)
  PROVE  \E u \in Users : CreateBegin(c, u)
BY DEF Begins, RequestBegin, MailBegin, TableTyped, MailTyped

(* The end of a run, successful or not.                                    *)
LEMMA EndsKeep ==
  ASSUME TableTyped, NEW c \in Creators, Ends(c)
  PROVE  /\ create' = [create EXCEPT ![c] = IdleCreation]
         /\ IdleCreation \in Creation /\ IdleCreation.pc = "idle"
         /\ UNCHANGED <<rows, owner, used, expired>> /\ UNCHANGED confirmVars
         /\ \/ mailed' = mailed
            \/ create[c].pc = "mail" /\ mailed' = mailed \cup {create[c].id}
BY DEF Ends, RequestMail, MailSend, MailRetry, CreateFail, Free, tableVars, IdleCreation, Creation

(* Mail tasks are posted for rows that have an owner, retries included.    *)
LEMMA MailStep ==
  ASSUME IInv, TableTyped, [Next]_vars
  PROVE  MailTyped'
<1> USE DEF TableTyped, MailTyped
<1>1. CASE \/ \E r \in Reqs : \/ \E i \in Ids : ConfirmPost(r, i)
                              \/ ConfirmReply(r) \/ JobProgress(r) \/ JobRetry(r) \/ JobFail(r)
           \/ \E i \in Ids : Expire(i)
           \/ UNCHANGED vars
  <2>1. UNCHANGED <<owner, create, posted, mail>> BY <1>1, OthersKeep
  <2> QED BY <2>1
<1>2. ASSUME NEW c \in Creators, Begins(c) PROVE MailTyped'
  <2>0. PICK u \in Users : CreateBegin(c, u) BY <1>2, BeginsForUser
  <2>1. owner' = owner /\ create'[c].pc = "update" /\ \A d \in Creators \ {c} : create'[d] = create[d]
    BY <2>0 DEF CreateBegin, IdleCreation, tableVars
  <2>2. UNCHANGED mailVars \/ \E m \in posted : posted' = posted \ {m} /\ mail' = [mail EXCEPT ![c] = m]
    BY <1>2 DEF Begins, RequestBegin, MailBegin
  <2> QED BY <2>1, <2>2 DEF mailVars
<1>3. ASSUME NEW c \in Creators, CreateUpdate(c) PROVE MailTyped'
  <2>1. UNCHANGED <<owner, posted, mail>> /\ create'[c].pc = "insert"
        /\ \A d \in Creators \ {c} : create'[d] = create[d]
    BY <1>3 DEF CreateUpdate, tableVars, mailVars, Creation
  <2> QED BY <2>1
<1>4. ASSUME NEW c \in Creators, CreateCommit(c) PROVE MailTyped'
  <2>1. c \in Pending /\ NewId \in Ids BY <1>4, NewIdFits DEF CreateCommit, Pending
  <2>2. UNCHANGED <<posted, mail>> /\ owner' = [owner EXCEPT ![NewId] = create[c].user]
        /\ create'[c].id = NewId /\ \A d \in Creators \ {c} : create'[d] = create[d]
    BY <1>4 DEF CreateCommit, mailVars, IdleCreation
  <2>3. \A i \in Ids : owner[i] \in Users => owner'[i] \in Users BY <2>1, <2>2
  <2>4. owner'[NewId] \in Users BY <2>1, <2>2
  <2> QED BY <2>1, <2>2, <2>3, <2>4 DEF Mails
<1>5. ASSUME NEW c \in Creators, Ends(c) PROVE MailTyped'
  <2>1. UNCHANGED owner /\ create'[c].pc = "idle" /\ \A d \in Creators \ {c} : create'[d] = create[d]
    BY <1>5, EndsKeep
  <2>2. mail' = [mail EXCEPT ![c] = None]
    BY <1>5 DEF Ends, RequestMail, MailSend, MailRetry, CreateFail, Free
  <2>3. \A m \in posted' : m \in Mails /\ owner[m[1]] \in Users
    <3>1. CASE RequestMail(c)
      <4>1. <<create[c].id, 0>> \in Mails /\ owner[create[c].id] \in Users
        BY <3>1 DEF RequestMail, Mails
      <4> QED BY <3>1, <4>1 DEF RequestMail
    <3>2. CASE MailRetry(c)
      <4>1. /\ mail[c] \in Mails /\ mail[c][2] < MailRetries /\ owner[mail[c][1]] \in Users
            /\ posted' = posted \cup {<<mail[c][1], mail[c][2] + 1>>}
        BY <3>2 DEF MailRetry
      <4>2. <<mail[c][1], mail[c][2] + 1>> \in Mails BY <4>1 DEF Mails
      <4> QED BY <4>1, <4>2
    <3>3. CASE MailSend(c) \/ CreateFail(c) BY <3>3 DEF MailSend, CreateFail
    <3> QED BY <1>5, <3>1, <3>2, <3>3 DEF Ends
  <2> QED BY <2>1, <2>2, <2>3
<1> QED BY <1>1, <1>2, <1>3, <1>4, <1>5 DEF Next, CreateProgress, Ends, Begins

(* Every step keeps the table typed.                                       *)
LEMMA TableStep ==
  ASSUME IInv, TableTyped, [Next]_vars
  PROVE  TableTyped'
<1> USE DEF TableTyped
<1>0. MailTyped' BY MailStep
<1>1. CASE \/ \E r \in Reqs : \/ \E i \in Ids : ConfirmPost(r, i)
                              \/ ConfirmReply(r) \/ JobProgress(r) \/ JobRetry(r) \/ JobFail(r)
           \/ \E i \in Ids : Expire(i)
           \/ UNCHANGED vars
  BY <1>0, <1>1, OthersKeep DEF Pending, Owned
<1>2. ASSUME NEW c \in Creators, NEW u \in Users, CreateBegin(c, u) PROVE TableTyped'
  <2> DEFINE new == [IdleCreation EXCEPT !.pc = "update", !.user = u, !.snap = RowsOf(u) \ used]
  <2>1. new \in Creation /\ new.pc = "update" /\ new.user = u
    BY DEF IdleCreation, Creation, RowsOf
  <2>2. create' = [create EXCEPT ![c] = new] /\ UNCHANGED tableVars /\ create[c].pc = "idle"
    BY <1>2 DEF CreateBegin
  <2> HIDE DEF new
  <2>3. Pending' = Pending \cup {c} /\ c \notin Pending
    BY <2>1, <2>2, PendingMoves DEF Pending
  <2>4. Cardinality(Pending') = Cardinality(Pending) + 1
    BY <2>3, Finite, FS_AddElement
  <2>5. Cardinality(Owned) + 1 + Cardinality(Pending) <= MaxIds
    BY <1>2 DEF CreateBegin, NewId, Owned, Pending
  <2>6. Owned' = Owned BY <2>2 DEF Owned, tableVars
  <2> QED BY <1>0, <2>1, <2>2, <2>3, <2>4, <2>5, <2>6, Finite DEF tableVars
<1>3. ASSUME NEW c \in Creators, NEW new \in Creation, create' = [create EXCEPT ![c] = new],
             UNCHANGED <<rows, owner, used, expired>>, mailed' \subseteq Ids,
             new.pc \notin {"update", "mail"},
             new.pc = "insert" => c \in Pending /\ new.user = create[c].user
      PROVE  TableTyped'
  <2>1. Pending' \subseteq Pending BY <1>3, PendingMoves
  <2>2. Cardinality(Pending') <= Cardinality(Pending) /\ Cardinality(Pending') \in Nat
    BY <2>1, Finite, FS_Subset, FS_CardinalityType
  <2>3. Owned' = Owned BY <1>3 DEF Owned
  <2>4. /\ create' \in [Creators -> Creation]
        /\ \A d \in Creators : create'[d] = IF d = c THEN new ELSE create[d]
    BY <1>3
  <2>5. \A d \in Pending' : create'[d].user \in Users BY <1>3, <2>1, <2>4 DEF Pending
  <2>6. Cardinality(Owned') + Cardinality(Pending') <= MaxIds BY <2>2, <2>3, Finite
  <2> QED BY <1>0, <1>3, <2>4, <2>5, <2>6
<1>4. ASSUME NEW c \in Creators, CreateUpdate(c) PROVE TableTyped'
  <2> DEFINE marks == (create[c].snap \cap rows) \ used
             new == [create[c] EXCEPT !.pc = "insert", !.snap = marks,
                                      !.gone = Trimmed(RowsOf(create[c].user))]
  <2>1. new \in Creation /\ new.pc = "insert" /\ new.user = create[c].user
    <3>1. create[c] \in Creation OBVIOUS
    <3>2. marks \in SUBSET Ids OBVIOUS
    <3>3. Trimmed(RowsOf(create[c].user)) \in SUBSET Ids BY DEF Trimmed, RowsOf
    <3> HIDE DEF marks
    <3> QED BY <3>1, <3>2, <3>3 DEF Creation
  <2>2. create' = [create EXCEPT ![c] = new] BY <1>4 DEF CreateUpdate
  <2>3. c \in Pending BY <1>4 DEF CreateUpdate, Pending
  <2> HIDE DEF new, marks
  <2> QED BY <1>3, <1>4, <2>1, <2>2, <2>3 DEF CreateUpdate, tableVars
<1>5. ASSUME NEW c \in Creators, Ends(c) PROVE TableTyped'
  <2>1. mailed' \subseteq Ids BY <1>5, EndsKeep DEF MailTyped
  <2> QED BY <1>3, <1>5, <2>1, EndsKeep
<1>6. ASSUME NEW c \in Creators, CreateCommit(c) PROVE TableTyped'
  <2> DEFINE new == [IdleCreation EXCEPT !.pc = "mail", !.id = NewId]
  <2>1. c \in Pending BY <1>6 DEF CreateCommit, Pending
  <2>2. NewId \in Ids BY <2>1, NewIdFits
  <2>3. new \in Creation /\ new.pc = "mail" /\ new.id = NewId
    BY <2>2 DEF IdleCreation, Creation
  <2>4. /\ create' = [create EXCEPT ![c] = new]
        /\ rows' = (rows \ create[c].gone) \cup {NewId}
        /\ owner' = [owner EXCEPT ![NewId] = create[c].user]
        /\ used' = used \cup create[c].snap /\ UNCHANGED <<expired, mailed>>
    BY <1>6 DEF CreateCommit
  <2>5. create[c].snap \subseteq Ids BY DEF Creation
  <2> HIDE DEF new
  <2>6. Pending' = Pending \ {c} BY <2>3, <2>4, PendingMoves
  <2>7. Cardinality(Pending') = Cardinality(Pending) - 1
    BY <2>1, <2>6, Finite, FS_RemoveElement
  <2>8. Owned' \subseteq Owned \cup {NewId} BY <2>4 DEF Owned
  <2>9. Cardinality(Owned') <= Cardinality(Owned) + 1 /\ Cardinality(Owned') \in Nat
    <3>1. IsFiniteSet(Owned \cup {NewId}) /\ Cardinality(Owned \cup {NewId}) <= Cardinality(Owned) + 1
      BY Finite, OneMore
    <3>2. IsFiniteSet(Owned') /\ Cardinality(Owned') <= Cardinality(Owned \cup {NewId})
      BY <2>8, <3>1, FS_Subset
    <3>3. Cardinality(Owned') \in Nat /\ Cardinality(Owned \cup {NewId}) \in Nat
      BY <3>1, <3>2, FS_CardinalityType
    <3> QED BY <3>1, <3>2, <3>3, Finite
  <2>10. Cardinality(Owned') + Cardinality(Pending') <= MaxIds
    BY <2>7, <2>9, Finite
  <2> QED BY <1>0, <2>1, <2>2, <2>3, <2>4, <2>5, <2>6, <2>10
<1> QED
  BY <1>1, <1>2, <1>4, <1>5, <1>6, BeginsForUser DEF Next, CreateProgress, Ends, Begins

(* Both hold in every behaviour.                                           *)
THEOREM TableInvariant == Spec => [](IInv /\ TableTyped)
<1>1. IInv /\ TableTyped /\ [Next]_vars => TableTyped' BY TableStep
<1> QED BY <1>1, InitTable, Invariant, PTL DEF Spec

(* Every variable keeps its type; above all, no task is retried more often *)
(* than max_retries allows.                                                *)
THEOREM TypeCorrect == Spec => []TypeOK
<1>1. IInv /\ TableTyped => TypeOK BY DEF IInv, Typed, TableTyped, MailTyped, TypeOK
<1> QED BY <1>1, TableInvariant, PTL

-----------------------------------------------------------------------------
(* Tokens that can be used *)

(* Some assignment of rows to the workers that inserted them gives each    *)
(* worker at most one unused row of a user, which the worker, when it runs *)
(* again for that user, has in view.                                       *)
Made(maker) ==
    /\ \A i \in rows \ used : maker[i] \in Creators
    /\ \A i, j \in rows \ used : owner[i] = owner[j] /\ maker[i] = maker[j] => i = j
    /\ \A c \in Pending : \A i \in rows \ used :
          maker[i] = c /\ owner[i] = create[c].user => i \in create[c].snap

ActiveInv == \E maker \in [Ids -> Creators \cup {None}] : Made(maker)

LEMMA ActiveStep ==
  ASSUME IInv, TableTyped, ActiveInv, [Next]_vars
  PROVE  ActiveInv'
<1> PICK maker \in [Ids -> Creators \cup {None}] : Made(maker) BY DEF ActiveInv
<1> SUFFICES ASSUME TRUE PROVE \E m \in [Ids -> Creators \cup {None}] : Made(m)'
  BY DEF ActiveInv
<1>1. CASE \/ \E r \in Reqs : \/ \E i \in Ids : ConfirmPost(r, i)
                              \/ ConfirmReply(r) \/ JobProgress(r) \/ JobRetry(r) \/ JobFail(r)
           \/ \E i \in Ids : Expire(i)
           \/ UNCHANGED vars
  <2>1. rows' = rows /\ owner' = owner /\ create' = create /\ used \subseteq used'
    BY <1>1, OthersKeep
  <2> QED BY <2>1 DEF Made, Pending
<1>2. ASSUME NEW c \in Creators, NEW u \in Users, CreateBegin(c, u) PROVE Made(maker)'
  <2> DEFINE new == [IdleCreation EXCEPT !.pc = "update", !.user = u, !.snap = RowsOf(u) \ used]
  <2>1. new.pc = "update" /\ new.user = u /\ new.snap = RowsOf(u) \ used BY DEF IdleCreation
  <2>2. create' = [create EXCEPT ![c] = new] /\ UNCHANGED tableVars BY <1>2 DEF CreateBegin
  <2> HIDE DEF new
  <2>3. \A d \in Creators : create'[d] = IF d = c THEN new ELSE create[d]
    BY <2>2 DEF TableTyped
  <2>4. Pending' = Pending \cup {c} BY <2>1, <2>2, PendingMoves
  <2> QED BY <2>1, <2>2, <2>3, <2>4 DEF Made, tableVars, RowsOf, Pending
<1>3. ASSUME NEW c \in Creators, CreateUpdate(c) PROVE Made(maker)'
  <2> DEFINE marks == (create[c].snap \cap rows) \ used
             new == [create[c] EXCEPT !.pc = "insert", !.snap = marks,
                                      !.gone = Trimmed(RowsOf(create[c].user))]
  <2>1. new.pc = "insert" /\ new.user = create[c].user /\ new.snap = marks
    BY DEF TableTyped, Creation
  <2>2. create' = [create EXCEPT ![c] = new] /\ UNCHANGED tableVars /\ c \in Pending
    BY <1>3 DEF CreateUpdate, Pending
  <2> HIDE DEF new
  <2>3. \A d \in Creators : create'[d] = IF d = c THEN new ELSE create[d]
    BY <2>2 DEF TableTyped
  <2>4. Pending' = Pending BY <2>1, <2>2, <2>3 DEF Pending
  <2> QED BY <2>1, <2>2, <2>3, <2>4 DEF Made, tableVars, Pending
<1>4. ASSUME NEW c \in Creators, Ends(c) PROVE Made(maker)'
  <2>1. create' = [create EXCEPT ![c] = IdleCreation] /\ UNCHANGED <<rows, owner, used>>
    BY <1>4, EndsKeep
  <2>2. IdleCreation.pc = "idle" BY DEF IdleCreation
  <2>3. Pending' = Pending \ {c} BY <2>1, <2>2, PendingMoves
  <2>4. \A d \in Creators \ {c} : create'[d] = create[d] BY <2>1 DEF TableTyped
  <2> QED BY <2>1, <2>3, <2>4 DEF Made, Pending
<1>5. ASSUME NEW c \in Creators, CreateCommit(c)
      PROVE  \E m \in [Ids -> Creators \cup {None}] : Made(m)'
  <2> DEFINE n == NewId
             new == [IdleCreation EXCEPT !.pc = "mail", !.id = NewId]
  <2>1. c \in Pending BY <1>5 DEF CreateCommit, Pending
  <2>2. n \in Ids BY <2>1, NewIdFits
  <2>3. new.pc = "mail" BY DEF IdleCreation
  <2>4. /\ create' = [create EXCEPT ![c] = new]
        /\ rows' = (rows \ create[c].gone) \cup {n}
        /\ owner' = [owner EXCEPT ![n] = create[c].user]
        /\ used' = used \cup create[c].snap
    BY <1>5 DEF CreateCommit
  <2> HIDE DEF n, new
  <2>5. Pending' = Pending \ {c} BY <2>3, <2>4, PendingMoves
  <2>6. \A d \in Creators \ {c} : create'[d] = create[d] BY <2>4 DEF TableTyped
  <2>7. PICK m \in [Ids -> Creators \cup {None}] :
              m[n] = c /\ \A i \in Ids \ {n} : m[i] = maker[i]
    <3>1. [maker EXCEPT ![n] = c] \in [Ids -> Creators \cup {None}] OBVIOUS
    <3> QED BY <2>2, <3>1
  <2>8. owner'[n] = create[c].user /\ \A i \in Ids \ {n} : owner'[i] = owner[i]
    BY <2>2, <2>4 DEF TableTyped
  <2>9. \A i \in rows' \ used' : i \in Ids /\ (i = n \/ i \in rows \ used)
    BY <2>2, <2>4 DEF TableTyped
  <2>10. \A i \in (rows' \ used') \ {n} : ~(maker[i] = c /\ owner[i] = create[c].user)
    BY <2>1, <2>4, <2>9 DEF Made
  <2>11. \A i, j \in rows' \ used' : owner'[i] = owner'[j] /\ m[i] = m[j] => i = j
    BY <2>7, <2>8, <2>9, <2>10 DEF Made
  <2>12. \A i \in rows' \ used' : m[i] \in Creators
    BY <2>7, <2>9 DEF Made
  <2>13. ASSUME NEW d \in Pending', NEW i \in rows' \ used', m[i] = d, owner'[i] = create'[d].user
         PROVE  i \in create'[d].snap
    <3>1. d \in Pending /\ d # c /\ create'[d] = create[d] BY <2>5, <2>6 DEF Pending
    <3>2. i # n BY <2>7, <2>13, <3>1
    <3> QED BY <2>7, <2>8, <2>9, <2>13, <3>1, <3>2 DEF Made
  <2>14. Made(m)' BY <2>11, <2>12, <2>13 DEF Made
  <2> QED BY <2>14
<1> QED
  BY <1>1, <1>2, <1>3, <1>4, <1>5, BeginsForUser DEF Next, CreateProgress, Ends, Begins

(* create_token: of one user at most one usable token is left for each     *)
(* worker that is in it at a time, however the runs of request tasks, mail *)
(* tasks and their retries overlap (password_reset.py:25-48,               *)
(* email_tasks.py:9-25).                                                   *)
THEOREM ActiveAreBounded == Spec => []ActiveBounded
<1>1. Init => ActiveInv
  <2> SUFFICES ASSUME Init PROVE Made([i \in Ids |-> None])
    BY DEF ActiveInv
  <2>1. IdleCreation.pc = "idle" BY DEF IdleCreation
  <2> QED BY <2>1 DEF Init, Made, Pending
<1>2. IInv /\ TableTyped /\ ActiveInv /\ [Next]_vars => ActiveInv' BY ActiveStep
<1>3. TableTyped /\ ActiveInv => ActiveBounded
  <2> SUFFICES ASSUME TableTyped, ActiveInv, NEW u \in Users
               PROVE  Cardinality(RowsOf(u) \ used) <= Cardinality(Creators)
    BY DEF ActiveBounded
  <2> PICK maker \in [Ids -> Creators \cup {None}] : Made(maker) BY DEF ActiveInv
  <2> DEFINE S == RowsOf(u) \ used
             f == [i \in S |-> maker[i]]
  <2>1. \A i \in S : i \in rows \ used /\ owner[i] = u BY DEF RowsOf
  <2> HIDE DEF S
  <2>2. f \in Injection(S, Creators) BY <2>1, Fun_IsInj DEF Made
  <2>3. Cardinality(S) <= Cardinality(Creators) BY <2>2, FS_Injection
  <2> QED BY <2>3 DEF S
<1> QED BY <1>1, <1>2, <1>3, TableInvariant, PTL DEF Spec

-----------------------------------------------------------------------------
(* Rows in the table *)

(* One row for each of some creators.                                      *)
OneEach(maker, S) ==
    \A i \in S : maker[i] \in Creators /\ \A j \in S : maker[j] = maker[i] => j = i

(* The tasks that chose what to delete, and what each leaves of its user's *)
(* rows when it does.                                                      *)
Looking == {c \in Creators : create[c].pc = "insert"}
Left(c) == RowsOf(create[c].user) \ create[c].gone

Olds == {K \in SUBSET Ids : Cardinality(K) <= MaxActive}
Makers == [Ids -> Creators \cup {None}]

(* The rows of a user are at most MaxActive old ones and one of each task, *)
(* and will be when a task deletes what it chose: keep are the old ones    *)
(* then. The ranks order the tasks by when they chose; what is new then is *)
(* of no task that chose before, since that one has not inserted yet.      *)
Covered(maker, old, keep, rank, top) ==
    /\ \A u \in Users : OneEach(maker, RowsOf(u) \ old[u])
    /\ \A c \in Looking : OneEach(maker, Left(c) \ keep[c])
    /\ \A c, d \in Looking : rank[d] <= rank[c] => \A i \in Left(c) \ keep[c] : maker[i] # d
    /\ \A c, d \in Looking : rank[d] = rank[c] => d = c
    /\ \A c \in Looking : rank[c] < top

CoverInv ==
    \E maker \in Makers, old \in [Users -> Olds], keep \in [Creators -> Olds],
       rank \in [Creators -> Nat], top \in Nat : Covered(maker, old, keep, rank, top)

(* What the trim keeps: each kept row has another number of later ones,    *)
(* and fewer than MaxActive.                                               *)
LEMMA TrimKeeps ==
  ASSUME NEW S \in SUBSET Ids
  PROVE  S \ Trimmed(S) \in Olds
<1> DEFINE K == S \ Trimmed(S)
           later(i) == {k \in S : k > i}
           g == [i \in K |-> Cardinality(later(i))]
<1>0. \A i \in S : i \in Int BY DEF Ids
<1>1. \A i \in S : IsFiniteSet(later(i)) /\ Cardinality(later(i)) \in Nat
  BY Finite, FS_Subset, FS_CardinalityType
<1>2. \A i \in K : Cardinality(later(i)) \in 0 .. (MaxActive - 1)
  <2>1. MaxActive \in Nat \ {0} BY ResetAssumption DEF ResetAssumption
  <2>2. \A i \in K : i \in S /\ ~(Cardinality(later(i)) >= MaxActive) BY DEF Trimmed
  <2> HIDE DEF K, later
  <2> QED BY <1>1, <2>1, <2>2
<1>3. ASSUME NEW i \in S, NEW j \in S, i < j PROVE Cardinality(later(j)) < Cardinality(later(i))
  <2>1. j \in later(i) /\ j \notin later(j) /\ later(j) \subseteq later(i)
    <3>1. \A k \in S : k > j => k > i BY <1>0, <1>3
    <3>2. j > i /\ ~(j > j) BY <1>0, <1>3
    <3> QED BY <3>1, <3>2
  <2>2. later(j) # later(i) BY <2>1
  <2> HIDE DEF later
  <2>3. Cardinality(later(j)) <= Cardinality(later(i))
        /\ (Cardinality(later(j)) = Cardinality(later(i)) => later(j) = later(i))
    BY <1>1, <2>1, FS_Subset
  <2> QED BY <1>1, <2>2, <2>3
<1> HIDE DEF later
<1>4. K \subseteq S /\ \A i \in K : i \in S /\ i \in Int BY <1>0
<1> HIDE DEF K
<1>5. g \in Injection(K, 0 .. (MaxActive - 1))
  <2>1. \A i, j \in K : i < j \/ j < i \/ i = j BY <1>4
  <2>2. \A i, j \in K : g[i] = g[j] => i = j BY <1>1, <1>3, <1>4, <2>1
  <2> QED BY <1>2, <2>2, Fun_IsInj
<1>6. Cardinality(0 .. (MaxActive - 1)) = MaxActive /\ IsFiniteSet(0 .. (MaxActive - 1))
  BY FS_Interval
<1>7. Cardinality(K) <= MaxActive BY <1>5, <1>6, FS_Injection
<1> QED BY <1>4, <1>7 DEF Olds, K

(* The new row is the only one of its maker.                               *)
LEMMA OneMoreEach ==
  ASSUME NEW maker \in Makers, NEW m \in Makers, NEW c \in Creators, NEW n \in Ids,
         m[n] = c, \A i \in Ids \ {n} : m[i] = maker[i],
         NEW S \in SUBSET Ids, OneEach(maker, S), \A i \in S : maker[i] # c,
         NEW T \in SUBSET (S \cup {n})
  PROVE  OneEach(m, T)
BY DEF OneEach

LEMMA OneFewerEach ==
  ASSUME NEW maker \in Makers, NEW m \in Makers, NEW n \in Ids,
         \A i \in Ids \ {n} : m[i] = maker[i],
         NEW S \in SUBSET Ids, OneEach(maker, S), NEW T \in SUBSET (S \ {n})
  PROVE  OneEach(m, T)
BY DEF OneEach

LEMMA CoverStep ==
  ASSUME IInv, TableTyped, CoverInv, [Next]_vars
  PROVE  CoverInv'
<1> PICK maker \in Makers, old \in [Users -> Olds], keep \in [Creators -> Olds],
         rank \in [Creators -> Nat], top \in Nat : Covered(maker, old, keep, rank, top)
  BY DEF CoverInv
<1> USE DEF Makers
<1>1. CASE /\ rows' = rows /\ owner' = owner /\ Looking' \subseteq Looking
           /\ \A d \in Looking' : create'[d] = create[d]
  <2>1. \A u \in Users : RowsOf(u)' = RowsOf(u) BY <1>1 DEF RowsOf
  <2>2. \A d \in Looking' : Left(d)' = Left(d) BY <1>1 DEF RowsOf, Left
  <2>3. Covered(maker, old, keep, rank, top)' BY <1>1, <2>1, <2>2 DEF Covered
  <2> QED BY <2>3 DEF CoverInv
<1>2. CASE \/ \E r \in Reqs : \/ \E i \in Ids : ConfirmPost(r, i)
                              \/ ConfirmReply(r) \/ JobProgress(r) \/ JobRetry(r) \/ JobFail(r)
           \/ \E i \in Ids : Expire(i)
           \/ UNCHANGED vars
  <2>1. rows' = rows /\ owner' = owner /\ create' = create BY <1>2, OthersKeep
  <2> QED BY <1>1, <2>1 DEF Looking
<1>3. ASSUME NEW c \in Creators, (\E u \in Users : CreateBegin(c, u)) \/ Ends(c)
      PROVE  CoverInv'
  <2>1. \E new : new.pc # "insert" /\ create' = [create EXCEPT ![c] = new]
    BY <1>3, EndsKeep DEF CreateBegin, IdleCreation
  <2>2. \A d \in Looking' : d \in Looking /\ create'[d] = create[d]
    BY <2>1 DEF Looking, TableTyped
  <2>3. rows' = rows /\ owner' = owner
    BY <1>3, EndsKeep DEF CreateBegin, tableVars
  <2> QED BY <1>1, <2>2, <2>3
<1>4. ASSUME NEW c \in Creators, CreateUpdate(c) PROVE CoverInv'
  <2> DEFINE u == create[c].user
  <2>1. /\ create'[c].pc = "insert" /\ create'[c].user = u
        /\ create'[c].gone = Trimmed(RowsOf(u))
        /\ \A d \in Creators \ {c} : create'[d] = create[d]
        /\ rows' = rows /\ owner' = owner
    BY <1>4 DEF CreateUpdate, tableVars, TableTyped, Creation
  <2>2. u \in Users /\ RowsOf(u) \in SUBSET Ids
    BY <1>4 DEF CreateUpdate, TableTyped, Pending, RowsOf
  <2>3. PICK K \in Olds : K = RowsOf(u) \ Trimmed(RowsOf(u))
    BY <2>2, TrimKeeps
  <2>4. PICK keep2 \in [Creators -> Olds] :
              keep2[c] = K /\ \A d \in Creators \ {c} : keep2[d] = keep[d]
    <3>1. [keep EXCEPT ![c] = K] \in [Creators -> Olds] OBVIOUS
    <3> QED BY <3>1
  <2>5. PICK rank2 \in [Creators -> Nat] :
              rank2[c] = top /\ \A d \in Creators \ {c} : rank2[d] = rank[d]
    <3>1. [rank EXCEPT ![c] = top] \in [Creators -> Nat] OBVIOUS
    <3> QED BY <3>1
  <2>6. Looking' = Looking \cup {c} BY <2>1 DEF Looking
  <2>7. \A v \in Users : RowsOf(v)' = RowsOf(v) BY <2>1 DEF RowsOf
  <2>8. Left(c)' \ keep2[c] = {} BY <2>1, <2>3, <2>4 DEF Left, RowsOf
  <2>9. \A d \in Looking' \ {c} :
           d \in Looking /\ Left(d)' = Left(d) /\ keep2[d] = keep[d] /\ rank2[d] = rank[d]
    BY <2>1, <2>4, <2>5, <2>6 DEF Left, RowsOf, Looking
  <2>10. \A d \in Looking' : rank2[d] < top + 1 /\ (d # c => rank2[d] < top)
    BY <2>5, <2>9 DEF Covered, Looking
  <2>11. \A v \in Users : OneEach(maker, RowsOf(v)' \ old[v]) BY <2>7 DEF Covered
  <2>12. \A d \in Looking' : OneEach(maker, Left(d)' \ keep2[d])
    BY <2>8, <2>9 DEF Covered, OneEach
  <2>13. ASSUME NEW d \in Looking', NEW e \in Looking', rank2[e] <= rank2[d],
                NEW i \in Left(d)' \ keep2[d]
         PROVE  maker[i] # e
    <3>1. d # c BY <2>8
    <3>2. e # c BY <2>5, <2>10, <2>13, <3>1 DEF Looking
    <3> QED BY <2>9, <2>13, <3>1, <3>2 DEF Covered
  <2>14. \A d, e \in Looking' : rank2[e] = rank2[d] => e = d
    BY <2>5, <2>9, <2>10 DEF Covered
  <2>15. Covered(maker, old, keep2, rank2, top + 1)'
    BY <2>10, <2>11, <2>12, <2>13, <2>14 DEF Covered
  <2>16. top + 1 \in Nat OBVIOUS
  <2> QED BY <2>15, <2>16 DEF CoverInv
<1>5. ASSUME NEW c \in Creators, CreateCommit(c) PROVE CoverInv'
  <2> DEFINE n == NewId
  <2>1. c \in Pending /\ c \in Looking BY <1>5 DEF CreateCommit, Pending, Looking
  <2>2. n \in Ids BY <2>1, NewIdFits
  <2> PICK u \in Users : u = create[c].user BY <2>1 DEF TableTyped
  <2>3. /\ create'[c].pc = "mail"
        /\ \A d \in Creators \ {c} : create'[d] = create[d]
        /\ rows' = (rows \ create[c].gone) \cup {n}
        /\ owner'[n] = u /\ \A i \in Ids \ {n} : owner'[i] = owner[i]
    BY <1>5, <2>2 DEF CreateCommit, TableTyped, IdleCreation
  <2> HIDE DEF n
  <2>4. PICK m \in Makers : m[n] = c /\ \A i \in Ids \ {n} : m[i] = maker[i]
    <3>1. [maker EXCEPT ![n] = c] \in Makers OBVIOUS
    <3> QED BY <2>2, <3>1
  <2>5. PICK old2 \in [Users -> Olds] :
              old2[u] = keep[c] /\ \A v \in Users \ {u} : old2[v] = old[v]
    <3>1. [old EXCEPT ![u] = keep[c]] \in [Users -> Olds] OBVIOUS
    <3> QED BY <2>2, <3>1
  <2> DEFINE Earlier == {d \in Looking : rank[d] < rank[c] /\ create[d].user = u}
  <2>6. PICK keep2 \in [Creators -> Olds] :
              \A d \in Creators : keep2[d] = IF d \in Earlier THEN keep[c] ELSE keep[d]
    <3>1. [d \in Creators |-> IF d \in Earlier THEN keep[c] ELSE keep[d]] \in [Creators -> Olds]
      OBVIOUS
    <3> QED BY <3>1
  <2> DEFINE new == Left(c) \ keep[c]
  <2>7. /\ new \in SUBSET Ids /\ OneEach(maker, new)
        /\ \A d \in Looking : rank[d] <= rank[c] => \A i \in new : maker[i] # d
    BY <2>1 DEF Covered, Left, RowsOf, TableTyped
  <2>8. \A i \in new : maker[i] # c BY <2>1, <2>7
  <2>9. \A d \in Looking' : d \in Looking /\ d # c /\ d \in Creators /\ create'[d] = create[d]
    BY <2>3 DEF Looking
  <2>10. \A v \in Users \ {u} : RowsOf(v)' \subseteq RowsOf(v) \ {n}
    BY <2>2, <2>3 DEF RowsOf, TableTyped
  <2>11. RowsOf(u)' \subseteq Left(c) \cup {n} /\ RowsOf(u)' \subseteq RowsOf(u) \cup {n}
    BY <2>2, <2>3 DEF RowsOf, Left, TableTyped
  <2>12. \A v \in Users : RowsOf(v) \in SUBSET Ids /\ RowsOf(v)' \in SUBSET Ids
    BY <2>2, <2>3 DEF RowsOf, TableTyped
  <2>13. ASSUME NEW v \in Users PROVE OneEach(m, RowsOf(v)' \ old2[v])
    <3>1. CASE v = u
      <4>1. RowsOf(v)' \ old2[v] \in SUBSET (new \cup {n}) BY <2>5, <2>11, <3>1
      <4> QED BY <2>2, <2>4, <2>7, <2>8, <4>1, OneMoreEach
    <3>2. CASE v # u
      <4>1. RowsOf(v)' \ old2[v] \in SUBSET ((RowsOf(v) \ old[v]) \ {n}) BY <2>5, <2>10, <3>2
      <4>2. OneEach(maker, RowsOf(v) \ old[v]) /\ RowsOf(v) \ old[v] \in SUBSET Ids
        BY <2>12 DEF Covered
      <4> QED BY <2>2, <2>4, <4>1, <4>2, OneFewerEach
    <3> QED BY <3>1, <3>2
  <2> DEFINE newOf(d) == Left(d)' \ keep2[d]
  <2>14. ASSUME NEW d \in Looking'
         PROVE  \/ d \in Earlier /\ newOf(d) \subseteq new \cup {n}
                \/ d \notin Earlier /\ create[d].user = u /\ rank[c] < rank[d]
                                    /\ newOf(d) \subseteq (Left(d) \ keep[d]) \cup {n}
                \/ d \notin Earlier /\ newOf(d) \subseteq (Left(d) \ keep[d]) \ {n}
    <3>1. d \in Looking /\ d # c /\ create'[d] = create[d] /\ create[d].user \in Users
      BY <2>9 DEF Looking, Pending, TableTyped
    <3> PICK w \in Users : w = create[d].user BY <3>1
    <3>2. Left(d)' = RowsOf(w)' \ create[d].gone /\ Left(d) = RowsOf(w) \ create[d].gone
      BY <3>1 DEF Left, RowsOf
    <3>3. CASE d \in Earlier
      <4>1. keep2[d] = keep[c] /\ create[d].user = u BY <2>6, <3>1, <3>3 DEF Looking
      <4> QED BY <2>11, <3>2, <3>3, <4>1
    <3>4. CASE d \notin Earlier /\ create[d].user = u
      <4>1. keep2[d] = keep[d] BY <2>6, <3>1, <3>4 DEF Looking
      <4>2. rank[c] < rank[d]
        <5>1. rank[c] # rank[d] BY <2>1, <3>1 DEF Covered
        <5>2. rank[c] \in Nat /\ rank[d] \in Nat BY <3>1 DEF Looking
        <5> QED BY <3>1, <3>4, <5>1, <5>2
      <4>3. newOf(d) \subseteq (Left(d) \ keep[d]) \cup {n}
        BY <2>11, <3>2, <3>4, <4>1
      <4> QED BY <3>4, <4>2, <4>3
    <3>5. CASE d \notin Earlier /\ create[d].user # u
      <4>1. keep2[d] = keep[d] BY <2>6, <3>1, <3>5 DEF Looking
      <4>2. newOf(d) \subseteq (Left(d) \ keep[d]) \ {n}
        BY <2>10, <3>2, <3>5, <4>1
      <4> QED BY <3>5, <4>2
    <3> QED BY <3>3, <3>4, <3>5
  <2>15. \A d \in Looking' : newOf(d) \in SUBSET Ids /\ Left(d) \ keep[d] \in SUBSET Ids
    <3> SUFFICES ASSUME NEW d \in Looking'
                 PROVE  newOf(d) \in SUBSET Ids /\ Left(d) \ keep[d] \in SUBSET Ids
      OBVIOUS
    <3>1. d \in Looking BY <2>9
    <3>2. Left(d) \ keep[d] \in SUBSET Ids BY DEF Left, RowsOf, TableTyped
    <3> QED BY <2>2, <2>7, <2>14, <3>2
  <2> HIDE DEF Earlier, new, newOf
  <2>16. \A d, e \in Looking : rank[d] \in Nat /\ (rank[e] <= rank[d] =>
             \A i \in Left(d) \ keep[d] : maker[i] # e)
    BY DEF Covered, Looking
  <2>17. ASSUME NEW d \in Looking' PROVE OneEach(m, newOf(d))
    <3>1. d \in Looking /\ OneEach(maker, Left(d) \ keep[d]) BY <2>9 DEF Covered
    <3>2. CASE newOf(d) \subseteq new \cup {n}
      BY <2>2, <2>4, <2>7, <2>8, <3>2, OneMoreEach
    <3>3. CASE rank[c] < rank[d] /\ newOf(d) \subseteq (Left(d) \ keep[d]) \cup {n}
      <4>1. \A i \in Left(d) \ keep[d] : maker[i] # c BY <2>1, <2>16, <3>1, <3>3
      <4> QED BY <2>2, <2>4, <2>15, <3>1, <3>3, <4>1, OneMoreEach
    <3>4. CASE newOf(d) \subseteq (Left(d) \ keep[d]) \ {n}
      BY <2>2, <2>4, <2>15, <3>1, <3>4, OneFewerEach
    <3> QED BY <2>14, <3>2, <3>3, <3>4
  <2>18. ASSUME NEW d \in Looking', NEW e \in Looking', rank[e] <= rank[d], NEW i \in newOf(d)
         PROVE  m[i] # e
    <3>1. d \in Looking /\ e \in Looking /\ e # c BY <2>9
    <3>2. rank[c] \in Nat /\ rank[d] \in Nat /\ rank[e] \in Nat BY <2>1, <2>16, <3>1
    <3>3. CASE i = n BY <2>4, <3>1, <3>3
    <3>4. CASE i # n
      <4>1. m[i] = maker[i] BY <2>4, <2>15, <3>4
      <4>2. CASE d \in Earlier /\ newOf(d) \subseteq new \cup {n}
        <5>1. rank[e] <= rank[c] BY <2>18, <3>2, <4>2 DEF Earlier
        <5> QED BY <2>7, <3>1, <3>4, <4>1, <4>2, <5>1
      <4>3. CASE newOf(d) \subseteq (Left(d) \ keep[d]) \cup {n}
        BY <2>16, <2>18, <3>1, <3>4, <4>1, <4>3
      <4> QED BY <2>14, <4>2, <4>3
    <3> QED BY <3>3, <3>4
  <2>19. Covered(m, old2, keep2, rank, top)'
    <3>1. \A d, e \in Looking' : rank[e] = rank[d] => e = d BY <2>9 DEF Covered
    <3>2. \A d \in Looking' : rank[d] < top BY <2>9 DEF Covered
    <3> QED BY <2>13, <2>17, <2>18, <3>1, <3>2 DEF Covered, newOf
  <2> QED BY <2>19 DEF CoverInv
<1> QED BY <1>2, <1>3, <1>4, <1>5, BeginsForUser DEF Next, CreateProgress, Ends, Begins

(* create_token: the trim bounds what the table holds of a user, though    *)
(* runs that overlap, mail tasks among them, do not see each other's rows  *)
(* (password_reset.py:30-48, email_tasks.py:9-25).                         *)
THEOREM TableIsBounded == Spec => []TableBounded
<1>1. Init => CoverInv
  <2> SUFFICES ASSUME Init PROVE CoverInv OBVIOUS
  <2>1. Looking = {} /\ \A u \in Users : RowsOf(u) = {}
    BY DEF Init, IdleCreation, Looking, RowsOf
  <2>2. {} \in Olds BY FS_EmptySet DEF Olds
  <2>3. /\ [i \in Ids |-> None] \in Makers /\ [u \in Users |-> {}] \in [Users -> Olds]
        /\ [c \in Creators |-> {}] \in [Creators -> Olds]
        /\ [c \in Creators |-> 0] \in [Creators -> Nat] /\ 0 \in Nat
    BY <2>2 DEF Makers
  <2>4. Covered([i \in Ids |-> None], [u \in Users |-> {}], [c \in Creators |-> {}],
                [c \in Creators |-> 0], 0)
    BY <2>1 DEF Covered, OneEach
  <2> QED BY <2>3, <2>4 DEF CoverInv
<1>2. IInv /\ TableTyped /\ CoverInv /\ [Next]_vars => CoverInv' BY CoverStep
<1>3. TableTyped /\ CoverInv => TableBounded
  <2> SUFFICES ASSUME TableTyped, CoverInv, NEW u \in Users
               PROVE  Cardinality(RowsOf(u)) <= MaxActive + Cardinality(Creators)
    BY DEF TableBounded
  <2> PICK maker \in Makers, old \in [Users -> Olds], keep \in [Creators -> Olds],
           rank \in [Creators -> Nat], top \in Nat : Covered(maker, old, keep, rank, top)
    BY DEF CoverInv
  <2> DEFINE R == RowsOf(u)
             K == old[u]
             S == R \ K
             f == [i \in S |-> maker[i]]
  <2>1. R \subseteq Ids BY DEF RowsOf, TableTyped
  <2>2. OneEach(maker, S) BY DEF Covered
  <2>3. K \subseteq Ids /\ Cardinality(K) <= MaxActive BY DEF Olds
  <2> HIDE DEF R, K
  <2>4. IsFiniteSet(R) /\ IsFiniteSet(K) BY <2>1, <2>3, Finite, FS_Subset
  <2>5. R \cap K \subseteq K OBVIOUS
  <2>6. Cardinality(R \cap K) <= MaxActive /\ Cardinality(R \cap K) \in Nat
    BY <2>3, <2>4, <2>5, FS_Subset, FS_CardinalityType
  <2>7. Cardinality(S) <= Cardinality(Creators)
    <3>1. f \in Injection(S, Creators) BY <2>2, Fun_IsInj DEF OneEach
    <3> QED BY <3>1, FS_Injection
  <2>8. Cardinality(S) = Cardinality(R) - Cardinality(R \cap K)
    BY <2>4, FS_Difference
  <2>9. Cardinality(R) \in Nat /\ Cardinality(Creators) \in Nat BY <2>4, FS_CardinalityType
  <2>10. Cardinality(R) <= MaxActive + Cardinality(Creators)
    <3> HIDE DEF S
    <3> QED BY <2>6, <2>7, <2>8, <2>9
  <2> QED BY <2>10 DEF R
<1> QED BY <1>1, <1>2, <1>3, TableInvariant, PTL DEF Spec

-----------------------------------------------------------------------------
(* The life of a token *)

(* What a worker will mark or delete belongs to its user; rows, flags      *)
(* and mails are of ids that have an owner, which are the first ones, so   *)
(* that the next id is fresh; a request has a token once it is posted.     *)
SnapIsMine ==
    \A c \in Pending : \A i \in create[c].snap \cup create[c].gone : owner[i] = create[c].user
OwnedFirst ==
    /\ rows \subseteq Owned /\ used \subseteq Owned /\ mailed \subseteq Owned
    /\ \A c \in Creators : create[c].pc = "mail" => create[c].id \in Owned
    /\ Owned = 1 .. Cardinality(Owned)
PostedHasToken ==
    \A r \in Reqs : /\ job[r].pc = "none" <=> job[r].tok = None
                    /\ job[r].pc = "none" <=> http[r] = "idle"
LifeInv == SnapIsMine /\ OwnedFirst /\ PostedHasToken

LEMMA InitLife == Init => LifeInv
<1> SUFFICES ASSUME Init PROVE LifeInv OBVIOUS
<1>1. IdleCreation.pc = "idle" BY DEF IdleCreation
<1>2. Pending = {} /\ Owned = {} BY <1>1 DEF Init, Pending, Owned
<1>3. Cardinality(Owned) = 0 BY <1>2, FS_EmptySet
<1> QED BY <1>1, <1>2, <1>3 DEF Init, LifeInv, SnapIsMine, OwnedFirst, PostedHasToken

(* The next id has no owner, and then the first ids have one again.        *)
LEMMA NewIdFresh ==
  ASSUME TableTyped, LifeInv, NEW c \in Pending
  PROVE  /\ NewId \in Ids /\ owner[NewId] = None
         /\ owner' = [owner EXCEPT ![NewId] = create[c].user] =>
              Owned' = Owned \cup {NewId} /\ Owned' = 1 .. Cardinality(Owned')
<1>1. NewId \in Ids /\ NewId = Cardinality(Owned) + 1 BY NewIdFits DEF NewId, Owned
<1>2. Owned = 1 .. Cardinality(Owned) /\ Cardinality(Owned) \in Nat
  BY Finite DEF LifeInv, OwnedFirst
<1>3. NewId \notin Owned BY <1>1, <1>2
<1>4. owner[NewId] = None BY <1>1, <1>3 DEF Owned
<1>5. ASSUME owner' = [owner EXCEPT ![NewId] = create[c].user]
      PROVE  Owned' = Owned \cup {NewId} /\ Owned' = 1 .. Cardinality(Owned')
  <2>1. create[c].user \in Users /\ create[c].user # None BY DEF TableTyped
  <2>2. \A i \in Ids : owner'[i] = IF i = NewId THEN create[c].user ELSE owner[i]
    BY <1>5 DEF TableTyped
  <2>3. Owned' = Owned \cup {NewId} BY <1>1, <2>1, <2>2 DEF Owned
  <2>4. Owned' = 1 .. NewId BY <1>1, <1>2, <2>3
  <2>5. Cardinality(1 .. NewId) = NewId BY <1>1, <1>2, FS_Interval
  <2> QED BY <2>3, <2>4, <2>5
<1> QED BY <1>1, <1>4, <1>5

(* What a confirm task's step does to the rest.                            *)
LEMMA JobSteps ==
  ASSUME IInv, NEW r \in Reqs, JobProgress(r) \/ JobRetry(r) \/ JobFail(r)
  PROVE  /\ UNCHANGED <<rows, owner, create, mailed, http>>
         /\ JobCommit(r) \/ UNCHANGED <<used, applied>>
         /\ JobCommit(r) => used' = used \cup {job[r].tok} /\ Changed' = Changed \cup {r}
         /\ \A q \in Reqs : job'[q].tok = job[q].tok /\ (job'[q].pc = "none" <=> job[q].pc = "none")
<1>1. job \in [Reqs -> Job] BY DEF IInv, Typed
<1>2. /\ UNCHANGED <<rows, owner, create, mailed, http>>
      /\ JobCommit(r) \/ UNCHANGED <<used, applied>>
      /\ JobCommit(r) => used' = used \cup {job[r].tok} /\ Changed' = Changed \cup {r}
  BY RunChanges DEF JobProgress, JobRetry, JobFail, VerifyAndConsume, JobCommit, JobReturn, tableVars, IInv
<1>3. /\ job[r].pc # "none"
      /\ \/ \E pc \in {"held", "committed", "SUCCESS", "FAILURE"} : JobTo(r, pc)
         \/ job' = [job EXCEPT ![r].pc = "queued", ![r].tries = @ + 1]
  BY DEF JobProgress, JobRetry, JobFail, VerifyAndConsume, JobCommit, JobReturn
<1>4. /\ \A q \in Reqs : q # r => job'[q] = job[q]
      /\ job'[r].tok = job[r].tok /\ job'[r].pc # "none"
  <2>1. ASSUME NEW pc \in {"held", "committed", "SUCCESS", "FAILURE"}, JobTo(r, pc)
        PROVE  /\ \A q \in Reqs : q # r => job'[q] = job[q]
               /\ job'[r].tok = job[r].tok /\ job'[r].pc # "none"
    BY <1>1, <2>1 DEF JobTo, Job
  <2>2. CASE job' = [job EXCEPT ![r].pc = "queued", ![r].tries = @ + 1]
    BY <1>1, <2>2 DEF Job
  <2> QED BY <1>3, <2>1, <2>2
<1> QED BY <1>2, <1>3, <1>4

LEMMA LifeStep ==
  ASSUME IInv, TableTyped, LifeInv, [Next]_vars
  PROVE  LifeInv'
<1> USE DEF LifeInv
<1>0. /\ create \in [Creators -> Creation] /\ job \in [Reqs -> Job]
      /\ http \in [Reqs -> {"idle", "waiting", "ok", "refused"}]
  BY DEF TableTyped, IInv, Typed
<1>1. ASSUME NEW c \in Creators, NEW u \in Users, CreateBegin(c, u) PROVE LifeInv'
  <2> DEFINE new == [IdleCreation EXCEPT !.pc = "update", !.user = u, !.snap = RowsOf(u) \ used]
  <2>1. new.pc = "update" /\ new.user = u /\ new.snap = RowsOf(u) \ used /\ new.gone = {}
    BY DEF IdleCreation
  <2>2. create' = [create EXCEPT ![c] = new] /\ UNCHANGED <<tableVars, confirmVars>>
    BY <1>1 DEF CreateBegin
  <2> HIDE DEF new
  <2>3. \A d \in Creators : create'[d] = IF d = c THEN new ELSE create[d]
    BY <1>0, <2>2
  <2>4. SnapIsMine' BY <2>1, <2>2, <2>3 DEF SnapIsMine, Pending, tableVars, RowsOf
  <2>5. OwnedFirst' BY <2>1, <2>2, <2>3 DEF OwnedFirst, Owned, tableVars
  <2>6. PostedHasToken' BY <2>2 DEF PostedHasToken, confirmVars
  <2> QED BY <2>4, <2>5, <2>6
<1>2. ASSUME NEW c \in Creators, CreateUpdate(c) PROVE LifeInv'
  <2> DEFINE marks == (create[c].snap \cap rows) \ used
             new == [create[c] EXCEPT !.pc = "insert", !.snap = marks,
                                      !.gone = Trimmed(RowsOf(create[c].user))]
  <2>1. /\ new.pc = "insert" /\ new.user = create[c].user /\ new.snap = marks
        /\ new.gone = Trimmed(RowsOf(create[c].user))
    BY <1>0 DEF Creation
  <2>2. create' = [create EXCEPT ![c] = new] /\ UNCHANGED <<tableVars, confirmVars>> /\ c \in Pending
    BY <1>2 DEF CreateUpdate, Pending
  <2> HIDE DEF new
  <2>3. \A d \in Creators : create'[d] = IF d = c THEN new ELSE create[d]
    BY <1>0, <2>2
  <2>4. \A i \in new.snap \cup new.gone : owner[i] = create[c].user
    BY <2>1, <2>2 DEF SnapIsMine, Trimmed, RowsOf
  <2>5. SnapIsMine' BY <2>1, <2>2, <2>3, <2>4 DEF SnapIsMine, Pending, tableVars
  <2>6. OwnedFirst' BY <2>1, <2>2, <2>3 DEF OwnedFirst, Owned, tableVars
  <2>7. PostedHasToken' BY <2>2 DEF PostedHasToken, confirmVars
  <2> QED BY <2>5, <2>6, <2>7
<1>3. ASSUME NEW c \in Creators, CreateCommit(c) PROVE LifeInv'
  <2> DEFINE n == NewId
             new == [IdleCreation EXCEPT !.pc = "mail", !.id = n]
  <2>1. c \in Pending BY <1>3 DEF CreateCommit, Pending
  <2>2. /\ rows' = (rows \ create[c].gone) \cup {n}
        /\ owner' = [owner EXCEPT ![n] = create[c].user]
        /\ used' = used \cup create[c].snap /\ mailed' = mailed
        /\ create' = [create EXCEPT ![c] = new] /\ UNCHANGED confirmVars
    BY <1>3 DEF CreateCommit
  <2>3. new.pc = "mail" /\ new.id = n BY DEF IdleCreation
  <2>4. n \in Ids /\ owner[n] = None /\ Owned' = Owned \cup {n} /\ Owned' = 1 .. Cardinality(Owned')
    BY <2>1, <2>2, NewIdFresh
  <2> HIDE DEF n, new
  <2>5. \A d \in Creators : create'[d] = IF d = c THEN new ELSE create[d]
    BY <1>0, <2>2
  <2>6. \A i \in Ids : owner'[i] = IF i = n THEN create[c].user ELSE owner[i]
    BY <2>2 DEF TableTyped
  <2>7. \A d \in Pending : create[d].user # None /\ create[d].snap \cup create[d].gone \subseteq Ids
    BY <1>0 DEF TableTyped, Creation, Pending
  <2>8. SnapIsMine'
    <3> SUFFICES ASSUME NEW d \in Pending', NEW i \in create'[d].snap \cup create'[d].gone
                 PROVE  owner'[i] = create'[d].user
      BY DEF SnapIsMine
    <3>1. d \in Pending /\ create'[d] = create[d] BY <2>3, <2>5 DEF Pending
    <3>2. owner[i] = create[d].user /\ owner[i] # None /\ i \in Ids
      BY <2>7, <3>1 DEF SnapIsMine
    <3> QED BY <2>4, <2>6, <3>1, <3>2
  <2>9. create[c].snap \subseteq Owned BY <2>1, <2>7 DEF SnapIsMine, Owned
  <2>10. OwnedFirst' BY <2>2, <2>3, <2>4, <2>5, <2>9 DEF OwnedFirst
  <2>11. PostedHasToken' BY <2>2 DEF PostedHasToken, confirmVars
  <2> QED BY <2>8, <2>10, <2>11
<1>4. ASSUME NEW c \in Creators, Ends(c) PROVE LifeInv'
  <2>1. /\ create' = [create EXCEPT ![c] = IdleCreation]
        /\ UNCHANGED <<rows, owner, used>> /\ UNCHANGED confirmVars
        /\ mailed' = mailed \/ (create[c].pc = "mail" /\ mailed' = mailed \cup {create[c].id})
    BY <1>4, EndsKeep
  <2>2. IdleCreation.pc = "idle" BY DEF IdleCreation
  <2>3. \A d \in Creators : create'[d] = IF d = c THEN IdleCreation ELSE create[d]
    BY <1>0, <2>1
  <2>4. SnapIsMine' BY <2>1, <2>2, <2>3 DEF SnapIsMine, Pending
  <2>5. OwnedFirst' BY <2>1, <2>2, <2>3 DEF OwnedFirst, Owned
  <2>6. PostedHasToken' BY <2>1 DEF PostedHasToken, confirmVars
  <2> QED BY <2>4, <2>5, <2>6
<1>5. ASSUME UNCHANGED <<rows, owner, create, mailed>>, used' \subseteq Owned, PostedHasToken'
      PROVE  LifeInv'
  <2>1. SnapIsMine' BY <1>5 DEF SnapIsMine, Pending
  <2>2. OwnedFirst' BY <1>5 DEF OwnedFirst, Owned
  <2> QED BY <1>5, <2>1, <2>2
<1>6. ASSUME NEW r \in Reqs, NEW i \in Ids, ConfirmPost(r, i) PROVE LifeInv'
  <2>1. i # None BY ResetAssumption DEF ResetAssumption, Ids
  <2>2. \A q \in Reqs : q # r => job'[q] = job[q] /\ http'[q] = http[q]
    BY <1>0, <1>6 DEF ConfirmPost
  <2>3. job'[r].pc = "queued" /\ job'[r].tok = i /\ http'[r] = "waiting"
    BY <1>0, <1>6 DEF ConfirmPost
  <2>4. PostedHasToken' BY <2>1, <2>2, <2>3 DEF PostedHasToken
  <2> QED BY <1>5, <1>6, <2>4 DEF ConfirmPost, tableVars, OwnedFirst
<1>7. ASSUME NEW r \in Reqs, ConfirmReply(r) PROVE LifeInv'
  <2>1. PostedHasToken' BY <1>0, <1>7 DEF ConfirmReply, PostedHasToken
  <2> QED BY <1>5, <1>7, <2>1 DEF ConfirmReply, tableVars, OwnedFirst
<1>8. ASSUME NEW r \in Reqs, JobProgress(r) \/ JobRetry(r) \/ JobFail(r) PROVE LifeInv'
  <2>1. /\ UNCHANGED <<rows, owner, create, mailed, http>>
        /\ used' = used \/ (JobCommit(r) /\ used' = used \cup {job[r].tok})
        /\ \A q \in Reqs : job'[q].tok = job[q].tok /\ (job'[q].pc = "none" <=> job[q].pc = "none")
    BY <1>8, JobSteps
  <2>2. JobCommit(r) => job[r].tok \in rows BY DEF JobCommit, IInv, HeldIsLocked
  <2>3. PostedHasToken' BY <2>1 DEF PostedHasToken
  <2> QED BY <1>5, <2>1, <2>2, <2>3 DEF OwnedFirst
<1>9. ASSUME (\E i \in Ids : Expire(i)) \/ UNCHANGED vars PROVE LifeInv'
  <2>1. UNCHANGED <<rows, owner, create, mailed, used, http, job>>
    BY <1>9 DEF Expire, vars, confirmVars
  <2>2. PostedHasToken' BY <2>1 DEF PostedHasToken
  <2> QED BY <1>5, <2>1, <2>2 DEF OwnedFirst
<1> QED
  BY <1>1, <1>2, <1>3, <1>4, <1>6, <1>7, <1>8, <1>9, BeginsForUser DEF Next, CreateProgress, Ends, Begins

(* What does not show.                                                     *)
LEMMA Stutter ==
  ASSUME UNCHANGED <<owner, rows, used, Want, Old, Asked, applied, http>>
  PROVE  UNCHANGED Lifecycle!vars
BY DEF Lifecycle!vars, Changed

(* The steps of a worker in a request or mail task.                        *)
LEMMA CreatorLives ==
  ASSUME IInv, TableTyped, LifeInv, NEW c \in Creators,
         Begins(c) \/ CreateProgress(c) \/ MailRetry(c) \/ CreateFail(c)
  PROVE  [Lifecycle!Next]_(Lifecycle!vars)
<1>0. /\ create \in [Creators -> Creation] /\ owner \in [Ids -> Users \cup {None}]
      /\ rows \subseteq Ids /\ used \subseteq Ids
  BY DEF TableTyped
<1>1. ASSUME NEW u \in Users, CreateBegin(c, u) PROVE Lifecycle!Begin(c, u)
  <2> DEFINE new == [IdleCreation EXCEPT !.pc = "update", !.user = u, !.snap = RowsOf(u) \ used]
  <2>1. new.pc = "update" /\ new.user = u /\ new.snap = RowsOf(u) \ used
    BY DEF IdleCreation
  <2>2. create' = [create EXCEPT ![c] = new] /\ UNCHANGED <<tableVars, confirmVars>> /\ create[c].pc = "idle"
    BY <1>1 DEF CreateBegin
  <2> HIDE DEF new
  <2>3. \A d \in Creators : create'[d] = IF d = c THEN new ELSE create[d]
    BY <1>0, <2>2
  <2>4. UNCHANGED <<owner, rows, used, Asked, applied, http>>
    BY <2>2 DEF Asked, tableVars, confirmVars
  <2>5. Want[c] = None /\ Want' = [Want EXCEPT ![c] = u]
    <3>1. Want[c] = None BY <2>2 DEF Want
    <3>2. \A d \in Creators : (IF create'[d].pc \in {"update", "insert"} THEN create'[d].user ELSE None)
                              = IF d = c THEN u ELSE Want[d]
      BY <2>1, <2>3 DEF Want
    <3>3. Want' = [d \in Creators |-> IF d = c THEN u ELSE Want[d]] BY <3>2 DEF Want
    <3>4. Want \in [Creators -> {Want[d] : d \in Creators}] BY DEF Want
    <3> HIDE DEF Want
    <3> QED BY <3>1, <3>3, <3>4
  <2>6. Lifecycle!UsableOf(u) = RowsOf(u) \ used
    BY DEF Lifecycle!UsableOf, RowsOf
  <2>7. Old' = [Old EXCEPT ![c] = RowsOf(u) \ used]
    <3>1. new.snap \cap (rows \ used) = RowsOf(u) \ used BY <2>1 DEF RowsOf
    <3>2. rows' = rows /\ used' = used BY <2>2 DEF tableVars
    <3> QED BY <2>1, <2>3, <3>1, <3>2 DEF Old
  <2> QED BY <2>4, <2>5, <2>6, <2>7 DEF Lifecycle!Begin, Changed
<1>2. ASSUME CreateUpdate(c) PROVE UNCHANGED Lifecycle!vars
  <2> DEFINE marks == (create[c].snap \cap rows) \ used
             new == [create[c] EXCEPT !.pc = "insert", !.snap = marks,
                                      !.gone = Trimmed(RowsOf(create[c].user))]
  <2>1. new.pc = "insert" /\ new.user = create[c].user /\ new.snap = marks
    BY <1>0 DEF Creation
  <2>2. create' = [create EXCEPT ![c] = new] /\ UNCHANGED <<tableVars, confirmVars>> /\ create[c].pc = "update"
    BY <1>2 DEF CreateUpdate
  <2> HIDE DEF new
  <2>3. \A d \in Creators : create'[d] = IF d = c THEN new ELSE create[d]
    BY <1>0, <2>2
  <2>4. UNCHANGED <<owner, rows, used, Asked, applied, http>>
    BY <2>2 DEF Asked, tableVars, confirmVars
  <2>5. Want' = Want BY <2>1, <2>2, <2>3 DEF Want
  <2>6. Old' = Old
    <3>1. new.snap \cap (rows \ used) = create[c].snap \cap (rows \ used) BY <2>1
    <3>2. rows' = rows /\ used' = used BY <2>2 DEF tableVars
    <3> QED BY <2>1, <2>2, <2>3, <3>1, <3>2 DEF Old
  <2> QED BY <2>4, <2>5, <2>6, Stutter
<1>3. ASSUME Ends(c) PROVE [Lifecycle!Next]_(Lifecycle!vars)
  <2>1. /\ create' = [create EXCEPT ![c] = IdleCreation]
        /\ UNCHANGED <<rows, owner, used>> /\ UNCHANGED confirmVars
    BY <1>3, EndsKeep
  <2>2. IdleCreation.pc = "idle" BY DEF IdleCreation
  <2>3. \A d \in Creators : create'[d] = IF d = c THEN IdleCreation ELSE create[d]
    BY <1>0, <2>1
  <2>4. UNCHANGED <<owner, rows, used, Asked, applied, http>>
    BY <2>1 DEF Asked, confirmVars
  <2>5. Want' = [Want EXCEPT ![c] = None] BY <2>2, <2>3 DEF Want
  <2>6. Old' = [Old EXCEPT ![c] = {}] BY <2>1, <2>2, <2>3 DEF Old
  <2>7. CASE Want[c] # None
    <3>1. Lifecycle!Cancel(c) BY <2>4, <2>5, <2>6, <2>7 DEF Lifecycle!Cancel, Changed
    <3> QED BY <3>1 DEF Lifecycle!Next
  <2>8. CASE Want[c] = None
    <3>1. create[c].pc \notin {"update", "insert"}
      BY <2>8, ResetAssumption DEF Want, TableTyped, Pending, ResetAssumption
    <3>2. Want' = Want BY <2>5, <2>8 DEF Want
    <3>3. Old' = Old BY <2>6, <3>1 DEF Old
    <3> QED BY <2>4, <3>2, <3>3, Stutter
  <2> QED BY <2>7, <2>8
<1>4. ASSUME CreateCommit(c) PROVE \E i \in Ids : Lifecycle!Issue(c, i)
  <2> DEFINE n == NewId
             u == create[c].user
             new == [IdleCreation EXCEPT !.pc = "mail", !.id = n]
             ended == ((create[c].snap \cup create[c].gone) \cap rows) \ used
  <2>1. c \in Pending /\ create[c].pc = "insert" BY <1>4 DEF CreateCommit, Pending
  <2>2. /\ rows' = (rows \ create[c].gone) \cup {n}
        /\ owner' = [owner EXCEPT ![n] = u]
        /\ used' = used \cup create[c].snap
        /\ create' = [create EXCEPT ![c] = new] /\ UNCHANGED confirmVars
    BY <1>4 DEF CreateCommit
  <2>3. new.pc = "mail" BY DEF IdleCreation
  <2>4. n \in Ids /\ owner[n] = None BY <2>1, NewIdFresh
  <2> HIDE DEF n, new
  <2>5. \A d \in Creators : create'[d] = IF d = c THEN new ELSE create[d]
    BY <1>0, <2>2
  <2>6. \A i \in Ids : owner'[i] = IF i = n THEN u ELSE owner[i]
    BY <1>0, <2>2
  <2>7. u \in Users /\ u # None
    BY <2>1, ResetAssumption DEF TableTyped, ResetAssumption
  <2>8. /\ create[c].snap \subseteq Ids /\ create[c].gone \subseteq Ids
        /\ \A i \in create[c].snap \cup create[c].gone : owner[i] = u
    BY <1>0, <2>1 DEF Creation, LifeInv, SnapIsMine
  <2>9. n \notin rows \cup used \cup create[c].snap \cup create[c].gone
    BY <2>4, <2>7, <2>8 DEF LifeInv, OwnedFirst, Owned
  <2>10. rows' \ used' = ((rows \ used) \ ended) \cup {n} BY <2>2, <2>9
  <2>11. ended \subseteq Lifecycle!UsableOf(u)
    BY <2>8 DEF Lifecycle!UsableOf
  <2>12. Want[c] = u /\ Old[c] \subseteq ended BY <2>1 DEF Want, Old
  <2>14. Want' = [Want EXCEPT ![c] = None] BY <2>3, <2>5 DEF Want
  <2>16. Old' = [d \in Creators |-> IF d = c THEN {} ELSE Old[d] \ ended]
    <3>1. \A d \in Creators : Old'[d] = IF d = c THEN {} ELSE Old[d] \ ended
      <4> SUFFICES ASSUME NEW d \in Creators
                   PROVE  Old'[d] = IF d = c THEN {} ELSE Old[d] \ ended
        OBVIOUS
      <4>1. Old'[d] = IF create'[d].pc \in {"update", "insert"} THEN create'[d].snap \cap (rows' \ used') ELSE {}
        BY DEF Old
      <4>2. Old[d] = IF create[d].pc \in {"update", "insert"} THEN create[d].snap \cap (rows \ used) ELSE {}
        BY DEF Old
      <4>3. CASE d = c BY <2>3, <2>5, <4>1, <4>3
      <4>4. CASE d # c
        <5>1. create'[d] = create[d] BY <2>5, <4>4
        <5>2. d \in Pending => n \notin create[d].snap
          BY <2>4 DEF LifeInv, SnapIsMine, TableTyped, Pending, ResetAssumption
        <5> HIDE DEF ended
        <5> QED BY <2>10, <4>1, <4>2, <4>4, <5>1, <5>2 DEF Pending
      <4> QED BY <4>3, <4>4
    <3>2. Old' = [d \in Creators |-> Old'[d]] BY DEF Old
    <3> QED BY <3>1, <3>2
  <2>17. UNCHANGED <<Asked, applied, http>> BY <2>2 DEF Asked, confirmVars
  <2> HIDE DEF ended, u
  <2>18. owner' = [owner EXCEPT ![n] = Want[c]] BY <2>2, <2>12
  <2>19. Lifecycle!Issue(c, n)
    BY <2>4, <2>7, <2>10, <2>11, <2>12, <2>14, <2>16, <2>17, <2>18 DEF Lifecycle!Issue, Changed
  <2> QED BY <2>4, <2>19
<1> QED
  BY <1>1, <1>2, <1>3, <1>4, BeginsForUser DEF CreateProgress, Ends, Lifecycle!Next

(* The steps of clients, their tasks, and time.                            *)
LEMMA ConfirmLives ==
  ASSUME IInv, TableTyped, LifeInv,
         \/ \E r \in Reqs : \/ \E i \in Ids : ConfirmPost(r, i)
                            \/ ConfirmReply(r) \/ JobProgress(r) \/ JobRetry(r) \/ JobFail(r)
         \/ \E i \in Ids : Expire(i)
         \/ UNCHANGED vars
  PROVE  [Lifecycle!Next]_(Lifecycle!vars)
<1>0. /\ job \in [Reqs -> Job] /\ http \in [Reqs -> {"idle", "waiting", "ok", "refused"}]
      /\ owner \in [Ids -> Users \cup {None}]
  BY DEF TableTyped, IInv, Typed
<1>1. ASSUME NEW r \in Reqs, NEW i \in Ids, ConfirmPost(r, i) PROVE Lifecycle!Ask(r, i)
  <2>1. /\ http[r] = "idle" /\ i \in mailed /\ http' = [http EXCEPT ![r] = "waiting"]
        /\ job' = [job EXCEPT ![r] = [pc |-> "queued", tok |-> i, tries |-> 0]]
        /\ UNCHANGED <<rows, owner, used, create, applied>>
    BY <1>1 DEF ConfirmPost, tableVars
  <2>2. owner[i] # None BY <2>1 DEF LifeInv, OwnedFirst, Owned
  <2>3. Asked' = [Asked EXCEPT ![r] = i]
    <3>1. \A q \in Reqs : job'[q].tok = IF q = r THEN i ELSE job[q].tok BY <1>0, <2>1
    <3> QED BY <3>1 DEF Asked
  <2>4. UNCHANGED <<Want, Old>> BY <2>1 DEF Want, Old
  <2> QED BY <2>1, <2>2, <2>3, <2>4 DEF Lifecycle!Ask, Changed
<1>2. ASSUME NEW r \in Reqs, ConfirmReply(r) PROVE Lifecycle!Answer(r)
  <2>1. /\ http[r] = "waiting" /\ UNCHANGED <<rows, owner, used, create, job, applied>>
        /\ \/ job[r].pc = "SUCCESS" /\ http' = [http EXCEPT ![r] = "ok"]
           \/ http' = [http EXCEPT ![r] = "refused"]
    BY <1>2 DEF ConfirmReply, tableVars
  <2>2. job[r].pc = "SUCCESS" => r \in Changed BY DEF IInv, AnswersAreTrue
  <2>3. UNCHANGED <<Want, Old, Asked>> BY <2>1 DEF Want, Old, Asked
  <2>4. Changed' = Changed BY <2>1 DEF Changed
  <2> QED BY <2>1, <2>2, <2>3, <2>4 DEF Lifecycle!Answer
<1>3. ASSUME NEW r \in Reqs, JobCommit(r) PROVE Lifecycle!Change(r)
  <2>1. /\ UNCHANGED <<rows, owner, create, http>>
        /\ used' = used \cup {job[r].tok} /\ Changed' = Changed \cup {r}
        /\ \A q \in Reqs : job'[q].tok = job[q].tok
    BY <1>3, JobSteps DEF JobProgress
  <2>2. job[r].tok \in rows \ used /\ job[r].tok \in Ids
    BY <1>3 DEF JobCommit, IInv, HeldIsLocked
  <2>3. Asked[r] = job[r].tok BY DEF Asked
  <2>4. rows' \ used' = (rows \ used) \ {job[r].tok} BY <2>1
  <2>5. Old' = [c \in Creators |-> Old[c] \ {job[r].tok}] BY <2>1 DEF Old
  <2>6. UNCHANGED <<Want, Asked>> BY <2>1 DEF Want, Asked
  <2> QED BY <2>1, <2>2, <2>3, <2>4, <2>5, <2>6 DEF Lifecycle!Change
<1>4. ASSUME NEW r \in Reqs, JobProgress(r) \/ JobRetry(r) \/ JobFail(r), ~JobCommit(r)
      PROVE  UNCHANGED Lifecycle!vars
  <2>1. /\ UNCHANGED <<rows, owner, used, create, http, applied>>
        /\ \A q \in Reqs : job'[q].tok = job[q].tok
    BY <1>4, JobSteps
  <2>2. UNCHANGED <<Want, Old, Asked>> BY <2>1 DEF Want, Old, Asked
  <2> QED BY <2>1, <2>2, Stutter
<1>5. ASSUME (\E i \in Ids : Expire(i)) \/ UNCHANGED vars PROVE UNCHANGED Lifecycle!vars
  <2>1. UNCHANGED <<rows, owner, used, create, http, job, applied>>
    BY <1>5 DEF Expire, vars, confirmVars
  <2>2. UNCHANGED <<Want, Old, Asked>> BY <2>1 DEF Want, Old, Asked
  <2> QED BY <2>1, <2>2, Stutter
<1> QED BY <1>1, <1>2, <1>3, <1>4, <1>5 DEF Lifecycle!Next

(* Transactions, row locks, tasks and retries implement the promise: a     *)
(* token sets one password at most; a request for a newer one ends all that*)
(* its user could use when it began, and none of anyone else; "ok" means   *)
(* that the password was set (password_reset.py:18-72).                    *)
THEOREM LifecycleImplemented == Spec => ImplementsLifecycle
<1>1. Init => Lifecycle!Init
  <2> SUFFICES ASSUME Init PROVE Lifecycle!Init OBVIOUS
  <2>1. IdleCreation.pc = "idle" BY DEF IdleCreation
  <2> QED BY <2>1 DEF Init, Lifecycle!Init, Want, Old, Asked, Changed
<1>2. IInv /\ TableTyped /\ LifeInv /\ [Next]_vars => LifeInv' BY LifeStep
<1>3. IInv /\ TableTyped /\ LifeInv /\ [Next]_vars => [Lifecycle!Next]_(Lifecycle!vars)
  BY CreatorLives, ConfirmLives DEF Next, Begins
<1> QED
  BY <1>1, <1>2, <1>3, InitLife, TableInvariant, PTL DEF Spec, ImplementsLifecycle, Lifecycle!Spec


-----------------------------------------------------------------------------
(* Runs of create_token that do not overlap, those of mail tasks and of    *)
(* their retries included: a user never has two usable tokens, nor more    *)
(* than MAX_ACTIVE_TOKENS + 1 rows, however many runs a request causes.    *)
(* What the other bounds allow beyond is the price of overlaps alone       *)
(* (password_reset.py:23-38, email_tasks.py:9-25).                         *)
THEOREM OneAtATime ==
  ASSUME Cardinality(Creators) = 1
  PROVE  Spec => [](\A u \in Users : /\ Cardinality(RowsOf(u) \ used) <= 1
                                     /\ Cardinality(RowsOf(u)) <= MaxActive + 1)
<1>1. ActiveBounded /\ TableBounded =>
        \A u \in Users : /\ Cardinality(RowsOf(u) \ used) <= 1
                         /\ Cardinality(RowsOf(u)) <= MaxActive + 1
  BY DEF ActiveBounded, TableBounded
<1> QED BY <1>1, ActiveAreBounded, TableIsBounded, PTL

-----------------------------------------------------------------------------
(* What a confirm task still has to do: to be posted, its retries, and the *)
(* steps of the present run.                                               *)
StepsToEnd == [queued |-> 3, held |-> 2, committed |-> 1]
ToDo(r) ==
    IF job[r].pc = "none" THEN 4 * (MaxRetries + 1)
    ELSE IF job[r].pc \in {"SUCCESS", "FAILURE"} THEN 0
    ELSE 4 * (MaxRetries - job[r].tries) + StepsToEnd[job[r].pc]

(* Each step of a confirm task, a retry after a lost commit among them,    *)
(* leaves it less to do, and one that has ended stays as it ended          *)
(* (password_reset_tasks.py:53-57, 61-89).                                 *)
RunsDown == \A r \in Reqs : job'[r] # job[r] => ToDo(r)' < ToDo(r)

(* It is a number with a bound.                                            *)
LEMMA ToDoType ==
  ASSUME Typed, NEW r \in Reqs
  PROVE  ToDo(r) \in 0 .. (4 * (MaxRetries + 1))
<1>1. job[r].pc \in {"none", "queued", "held", "committed", "SUCCESS", "FAILURE"}
      /\ job[r].tries \in 0 .. MaxRetries
  BY DEF Typed, Job
<1> QED BY <1>1 DEF ToDo, StepsToEnd

(* A step on the way, a retry and an end take something off.               *)
LEMMA LessToDo ==
  ASSUME Typed, NEW r \in Reqs, job[r].pc \in {"queued", "held", "committed"},
         \/ /\ job'[r].tries = job[r].tries
            /\ job'[r].pc \in {"held", "committed"}
            /\ StepsToEnd[job'[r].pc] < StepsToEnd[job[r].pc]
         \/ job'[r].tries = job[r].tries + 1 /\ job'[r].pc = "queued"
         \/ job'[r].pc \in {"SUCCESS", "FAILURE"}
  PROVE  ToDo(r)' < ToDo(r)
<1>1. job[r].tries \in 0 .. MaxRetries
  BY DEF Typed, Job
<1> QED BY <1>1 DEF ToDo, StepsToEnd

(* No other step touches a confirm task.                                   *)
LEMMA StepRunsDown == IInv /\ [Next]_vars => RunsDown
<1> SUFFICES ASSUME IInv, [Next]_vars PROVE RunsDown
  OBVIOUS
<1>0. Typed /\ job \in [Reqs -> Job]
  BY DEF IInv, Typed
<1>1. ASSUME NEW r \in Reqs, NEW pc \in {"held", "committed", "SUCCESS", "FAILURE"}, JobTo(r, pc),
             job[r].pc \in {"queued", "held", "committed"},
             pc \in {"held", "committed"} => StepsToEnd[pc] < StepsToEnd[job[r].pc]
      PROVE  RunsDown
  <2>1. /\ job'[r].pc = pc /\ job'[r].tries = job[r].tries
        /\ \A q \in Reqs \ {r} : job'[q] = job[q]
    BY <1>0, <1>1 DEF JobTo, Job
  <2>2. ToDo(r)' < ToDo(r)
    BY <1>0, <1>1, <2>1, LessToDo
  <2> QED BY <2>1, <2>2 DEF RunsDown
<1>2. ASSUME NEW r \in Reqs, JobRetry(r) PROVE RunsDown
  <2>1. CASE JobTo(r, "FAILURE")
    BY <1>1, <1>2, <2>1 DEF JobRetry
  <2>2. CASE job' = [job EXCEPT ![r].pc = "queued", ![r].tries = @ + 1]
    <3>1. /\ job'[r].pc = "queued" /\ job'[r].tries = job[r].tries + 1
          /\ \A q \in Reqs \ {r} : job'[q] = job[q]
      BY <1>0, <2>2 DEF Job
    <3>2. ToDo(r)' < ToDo(r)
      BY <1>0, <1>2, <3>1, LessToDo DEF JobRetry
    <3> QED BY <3>1, <3>2 DEF RunsDown
  <2> QED BY <1>2, <2>1, <2>2 DEF JobRetry
<1>3. ASSUME NEW r \in Reqs, JobProgress(r) \/ JobFail(r) PROVE RunsDown
  BY <1>1, <1>3 DEF JobProgress, VerifyAndConsume, JobCommit, JobReturn, JobFail, StepsToEnd
<1>4. ASSUME NEW r \in Reqs, NEW i \in Ids, ConfirmPost(r, i) PROVE RunsDown
  <2>1. job[r].pc = "none"
    BY <1>4 DEF ConfirmPost, IInv, AnswersAreTrue
  <2>2. /\ job'[r].pc = "queued" /\ job'[r].tries = 0
        /\ \A q \in Reqs \ {r} : job'[q] = job[q]
    BY <1>0, <1>4 DEF ConfirmPost
  <2>3. ToDo(r)' < ToDo(r)
    BY <2>1, <2>2 DEF ToDo, StepsToEnd
  <2> QED BY <2>2, <2>3 DEF RunsDown
<1>5. CASE job' = job
  BY <1>5 DEF RunsDown
<1>6. ASSUME NEW c \in Creators,
             Begins(c) \/ CreateProgress(c) \/ MailRetry(c) \/ CreateFail(c)
      PROVE  job' = job
  BY <1>6 DEF Begins, RequestBegin, MailBegin, CreateBegin, CreateProgress, CreateUpdate,
     CreateCommit, RequestMail, MailSend, MailRetry, CreateFail, confirmVars
<1>7. ASSUME NEW r \in Reqs, ConfirmReply(r) PROVE job' = job
  BY <1>7 DEF ConfirmReply
<1>8. ASSUME NEW i \in Ids, Expire(i) PROVE job' = job
  BY <1>8 DEF Expire, confirmVars
<1> QED BY <1>2, <1>3, <1>4, <1>5, <1>6, <1>7, <1>8 DEF Next, Begins, vars, confirmVars

(* Confirmations end: a confirm task has at most 4 * (MaxRetries + 1)      *)
(* steps, counted from its request, and every step it takes is one of      *)
(* them. Without fairness they need not be taken.                          *)
THEOREM ConfirmsRunDown ==
  Spec => /\ [](\A r \in Reqs : ToDo(r) \in 0 .. (4 * (MaxRetries + 1)))
          /\ [][RunsDown]_vars
<1>1. IInv => \A r \in Reqs : ToDo(r) \in 0 .. (4 * (MaxRetries + 1))
  BY ToDoType DEF IInv
<1> QED BY <1>1, StepRunsDown, Invariant, PTL DEF Spec

=============================================================================
