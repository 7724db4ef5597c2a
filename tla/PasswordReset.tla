---------------------------- MODULE PasswordReset ----------------------------
(***************************************************************************)
(* One-time password reset tokens: the request task that creates a token   *)
(* in a database transaction and posts a mail task; the mail task, each run*)
(* of which creates another token and mails that; the confirm task that    *)
(* consumes a token, and the HTTP handler that waits ten seconds for it.   *)
(* The mail task gets its token from create_token_record, which is not in  *)
(* the repository: it is taken to be create_token, the only function that  *)
(* makes records. The token of the request task reaches nobody: the mail   *)
(* task has no parameter for it.                                           *)
(* The database is PostgreSQL at READ COMMITTED: a statement sees what was *)
(* committed when it began, a locked row makes it wait, and locks end with *)
(* the transaction. "Changing the password" is the assignment to the user's*)
(* hash in the confirm task, whatever column it is mapped to.              *)
(***************************************************************************)
EXTENDS FiniteSets, Naturals

CONSTANTS
    Users,       \* accounts
    Creators,    \* workers that run request and mail tasks, one run at a time
    Reqs,        \* confirm requests, each posted once
    MaxIds,      \* bound: rows ever inserted
    MaxLapses,   \* bound: tokens that expire unused
    MaxActive,   \* MAX_ACTIVE_TOKENS: 5 in the code
    MaxRetries,  \* of the confirm task: 2 in the code
    MailRetries, \* of the mail task: 3 in the code
    None

ASSUME ResetAssumption ==
    /\ MaxIds \in Nat /\ MaxActive \in Nat \ {0} /\ MaxRetries \in Nat
    /\ MailRetries \in Nat /\ MaxLapses \in Nat
    /\ IsFiniteSet(Creators) /\ Creators \cap Reqs = {}
    /\ None \notin Users \cup Creators \cup Reqs \cup Nat

Ids == 1 .. MaxIds
Mails == Ids \X (0 .. MailRetries)   \* a mail task: the row of its request, its retries

VARIABLES
    rows,      \* ids of the committed rows of password_reset_tokens
    owner,     \* per id: user_id, None before the row is inserted
    used,      \* ids whose used flag is committed as true
    expired,   \* ids past expires_at
    locked,    \* per id: the task whose open transaction locks the row
    mailed,    \* ids whose raw token was mailed
    posted,    \* mail tasks in the queue
    create,    \* per worker: program counter, user, rows to invalidate, row made
    mail,      \* per worker: the mail task it runs, None for a request task
    http,      \* per confirm request: what its client has been told
    job,       \* per confirm request: its task
    applied    \* history: the runs of confirm tasks that committed their new password

vars == <<rows, owner, used, expired, locked, mailed, posted, create, mail, http, job, applied>>

Creation == [pc : {"idle", "update", "insert", "mail"}, user : Users \cup {None},
             snap : SUBSET Ids, gone : SUBSET Ids, id : Ids \cup {None}]
IdleCreation == [pc |-> "idle", user |-> None, snap |-> {}, gone |-> {}, id |-> None]

Job == [pc : {"none", "queued", "held", "committed", "SUCCESS", "FAILURE"},
        tok : Ids \cup {None}, tries : 0 .. MaxRetries]

(* Every variable keeps its type; retries stay within their bounds.        *)
TypeOK ==
    /\ rows \subseteq Ids /\ used \subseteq Ids /\ expired \subseteq Ids /\ mailed \subseteq Ids
    /\ owner \in [Ids -> Users \cup {None}]
    /\ locked \in [Ids -> Creators \cup Reqs \cup {None}]
    /\ create \in [Creators -> Creation]
    /\ posted \subseteq Mails /\ mail \in [Creators -> Mails \cup {None}]
    /\ http \in [Reqs -> {"idle", "waiting", "ok", "refused"}]
    /\ job \in [Reqs -> Job]
    /\ applied \subseteq Reqs \X (0 .. MaxRetries)

Init ==
    /\ rows = {} /\ used = {} /\ expired = {} /\ mailed = {} /\ posted = {} /\ applied = {}
    /\ owner = [i \in Ids |-> None]
    /\ locked = [i \in Ids |-> None]
    /\ create = [c \in Creators |-> IdleCreation]
    /\ mail = [c \in Creators |-> None]
    /\ http = [r \in Reqs |-> "idle"]
    /\ job = [r \in Reqs |-> [pc |-> "none", tok |-> None, tries |-> 0]]

tableVars == <<rows, owner, used, expired, mailed>>
mailVars == <<posted, mail>>
confirmVars == <<http, job, applied>>

RowsOf(u) == {i \in rows : owner[i] = u}
Valid == {i \in rows : i \notin used /\ i \notin expired}
Unlocked(S) == \A i \in S : locked[i] = None
Lock(S, p) == locked' = [i \in Ids |-> IF i \in S THEN p ELSE locked[i]]
Unlock(p) == locked' = [i \in Ids |-> IF locked[i] = p THEN None ELSE locked[i]]

-----------------------------------------------------------------------------
(* create_token, in password_reset_request_task and in                     *)
(* send_password_reset_email_task                                          *)

NewId == Cardinality({i \in Ids : owner[i] # None}) + 1

(* The UPDATE that invalidates begins: it sees the rows unused by now.     *)
CreateBegin(c, u) ==
    /\ create[c].pc = "idle"
    /\ NewId + Cardinality({d \in Creators : create[d].pc \in {"update", "insert"}}) <= MaxIds
    /\ create' = [create EXCEPT ![c] =
         [IdleCreation EXCEPT !.pc = "update", !.user = u, !.snap = RowsOf(u) \ used]]
    /\ UNCHANGED <<tableVars, locked, confirmVars>>

(* A run of a request task.                                                *)
RequestBegin(c, u) == CreateBegin(c, u) /\ UNCHANGED mailVars

(* A run of a mail task, for the user of its request.                      *)
MailBegin(c, m) ==
    /\ m \in posted
    /\ CreateBegin(c, owner[m[1]])
    /\ posted' = posted \ {m} /\ mail' = [mail EXCEPT ![c] = m]

(* Mutant: the trim looks for more rows than there are.                    *)
TrimmedNever(S) == {i \in S : Cardinality({k \in S : k > i}) > Cardinality(S)}

(* tokens[:-MAX_ACTIVE_TOKENS] in id order: the rows that are deleted.     *)
Trimmed(S) == {i \in S : Cardinality({k \in S : k > i}) >= MaxActive}

(* Mutant: the UPDATE leaves locked rows out instead of waiting.           *)
CreateUpdateSkipsLocked(c) ==
    LET marks == {i \in (create[c].snap \cap rows) \ used : locked[i] = None} IN
    /\ create[c].pc = "update"
    /\ Lock(marks, c)
    /\ create' = [create EXCEPT ![c] = [@ EXCEPT !.pc = "insert", !.snap = marks,
                                                !.gone = Trimmed(RowsOf(create[c].user))]]
    /\ UNCHANGED <<tableVars, mailVars, confirmVars>>

(* It waits for locked rows, then marks those still there and unused. The  *)
(* next statement reads all rows of the user and picks those to delete.    *)
CreateUpdate(c) ==
    LET marks == (create[c].snap \cap rows) \ used IN
    /\ create[c].pc = "update"
    /\ Unlocked(marks)
    /\ Lock(marks, c)
    /\ create' = [create EXCEPT ![c] = [@ EXCEPT !.pc = "insert", !.snap = marks,
                                                !.gone = Trimmed(RowsOf(create[c].user))]]
    /\ UNCHANGED <<tableVars, mailVars, confirmVars>>

(* Mutant: the used flags of the older rows are not written.               *)
CreateCommitNoUpdate(c) ==
    /\ create[c].pc = "insert"
    /\ rows' = (rows \ create[c].gone) \cup {NewId}
    /\ owner' = [owner EXCEPT ![NewId] = create[c].user]
    /\ Unlock(c)
    /\ create' = [create EXCEPT ![c] = [IdleCreation EXCEPT !.pc = "mail", !.id = NewId]]
    /\ UNCHANGED <<used, expired, mailed, mailVars, confirmVars>>

(* Delete the oldest rows (a row another transaction holds is waited for), *)
(* insert the new one, commit. Ids are given in the order of the commits.  *)
CreateCommit(c) ==
    /\ create[c].pc = "insert"
    /\ \A i \in create[c].gone : locked[i] \in {None, c}
    /\ rows' = (rows \ create[c].gone) \cup {NewId}
    /\ owner' = [owner EXCEPT ![NewId] = create[c].user]
    /\ used' = used \cup create[c].snap
    /\ Unlock(c)
    /\ create' = [create EXCEPT ![c] = [IdleCreation EXCEPT !.pc = "mail", !.id = NewId]]
    /\ UNCHANGED <<expired, mailed, mailVars, confirmVars>>

(* The worker is free again, its transaction over.                         *)
Free(c) ==
    /\ create' = [create EXCEPT ![c] = IdleCreation]
    /\ mail' = [mail EXCEPT ![c] = None]
    /\ Unlock(c)

(* send_password_reset_email_task.delay, then the audit record.            *)
RequestMail(c) ==
    /\ create[c].pc = "mail" /\ mail[c] = None
    /\ posted' = posted \cup {<<create[c].id, 0>>}
    /\ Free(c)
    /\ UNCHANGED <<tableVars, confirmVars>>

(* The link with the token of this run is mailed.                          *)
MailSend(c) ==
    /\ create[c].pc = "mail" /\ mail[c] # None
    /\ mailed' = mailed \cup {create[c].id}
    /\ Free(c)
    /\ UNCHANGED <<rows, owner, used, expired, posted, confirmVars>>

(* An exception in any step, also one of the server that has taken the     *)
(* mail: the task is retried, which makes another token.                   *)
MailRetry(c) ==
    /\ mail[c] # None /\ mail[c][2] < MailRetries
    /\ posted' = posted \cup {<<mail[c][1], mail[c][2] + 1>>}
    /\ \/ mailed' = mailed
       \/ create[c].pc = "mail" /\ mailed' = mailed \cup {create[c].id}
    /\ Free(c)
    /\ UNCHANGED <<rows, owner, used, expired, confirmVars>>

(* An exception in any step of a request task, among them that of delay    *)
(* when it refuses the arguments, an error in the last run of a mail task, *)
(* or a worker that dies: the transaction rolls back, a committed row      *)
(* stays. The retry of a request task is like a new request.               *)
CreateFail(c) ==
    /\ create[c].pc # "idle"
    /\ Free(c)
    /\ \/ mailed' = mailed
       \/ create[c].pc = "mail" /\ mail[c] # None /\ mailed' = mailed \cup {create[c].id}
    /\ UNCHANGED <<rows, owner, used, expired, posted, confirmVars>>

-----------------------------------------------------------------------------
(* POST /reset/confirm *)

(* Format checks and the attempts limit passed; the task is queued.        *)
ConfirmPost(r, i) ==
    /\ http[r] = "idle"
    /\ i \in mailed
    /\ http' = [http EXCEPT ![r] = "waiting"]
    /\ job' = [job EXCEPT ![r] = [pc |-> "queued", tok |-> i, tries |-> 0]]
    /\ UNCHANGED <<tableVars, locked, create, mailVars, applied>>

(* job.get: the result arrives, or ten seconds pass, or the task failed.   *)
ConfirmReply(r) ==
    /\ http[r] = "waiting"
    /\ \/ job[r].pc = "SUCCESS" /\ http' = [http EXCEPT ![r] = "ok"]
       \/ job[r].pc # "SUCCESS" /\ http' = [http EXCEPT ![r] = "refused"]
    /\ UNCHANGED <<tableVars, locked, create, mailVars, job, applied>>

-----------------------------------------------------------------------------
(* password_reset_confirm_task *)

JobTo(r, pc) == job' = [job EXCEPT ![r].pc = pc]

(* Mutant: the query has no FOR UPDATE.                                    *)
VerifyUnlocked(r) ==
    /\ job[r].pc = "queued"
    /\ IF job[r].tok \in Valid THEN JobTo(r, "held") ELSE JobTo(r, "FAILURE")
    /\ UNCHANGED <<tableVars, locked, create, mailVars, http, applied>>

(* SELECT ... FOR UPDATE of every valid row of every user: wait until all  *)
(* are unlocked, lock them, find the one that matches. None matches: the   *)
(* task fails, its transaction with it. The user may be gone (ValueError). *)
VerifyAndConsume(r) ==
    /\ job[r].pc = "queued"
    /\ Unlocked(Valid)
    /\ \/ job[r].tok \in Valid /\ Lock(Valid, r) /\ JobTo(r, "held")
       \/ JobTo(r, "FAILURE") /\ UNCHANGED locked
    /\ UNCHANGED <<tableVars, create, mailVars, http, applied>>

(* Mutant: the commit is missing.                                          *)
CommitNothing(r) ==
    /\ job[r].pc = "held"
    /\ JobTo(r, "committed")
    /\ Unlock(r)
    /\ UNCHANGED <<tableVars, create, mailVars, http, applied>>

(* db.commit: the used flag and the new hash together.                     *)
JobCommit(r) ==
    /\ job[r].pc = "held"
    /\ used' = used \cup {job[r].tok}
    /\ applied' = applied \cup {<<r, job[r].tries>>}
    /\ Unlock(r)
    /\ JobTo(r, "committed")
    /\ UNCHANGED <<rows, owner, expired, mailed, create, mailVars, http>>

JobReturn(r) ==
    /\ job[r].pc = "committed"
    /\ JobTo(r, "SUCCESS")
    /\ UNCHANGED <<tableVars, locked, create, mailVars, http, applied>>

(* Mutant: one retry too many.                                             *)
JobRetryOffByOne(r) ==
    /\ job[r].pc \in {"queued", "held", "committed"}
    /\ IF job[r].tries <= MaxRetries
       THEN job' = [job EXCEPT ![r].pc = "queued", ![r].tries = @ + 1]
       ELSE JobTo(r, "FAILURE")
    /\ Unlock(r)
    /\ UNCHANGED <<tableVars, create, mailVars, http, applied>>

(* OperationalError is retried: a statement timed out or was chosen to end *)
(* a deadlock, the connection broke, or the answer to the commit was lost. *)
JobRetry(r) ==
    /\ job[r].pc \in {"queued", "held", "committed"}
    /\ IF job[r].tries < MaxRetries
       THEN job' = [job EXCEPT ![r].pc = "queued", ![r].tries = @ + 1]
       ELSE JobTo(r, "FAILURE")
    /\ Unlock(r)
    /\ UNCHANGED <<tableVars, create, mailVars, http, applied>>

(* Any other exception, also of the audit calls after the commit, ends the *)
(* task. So does the death of its worker: to the client that waits for the *)
(* result it is the same.                                                  *)
JobFail(r) ==
    /\ job[r].pc \in {"queued", "held", "committed"}
    /\ JobTo(r, "FAILURE")
    /\ Unlock(r)
    /\ UNCHANGED <<tableVars, create, mailVars, http, applied>>

(* Thirty minutes pass; of a used row it makes no difference.              *)
Expire(i) ==
    /\ i \in Valid /\ Cardinality(expired) < MaxLapses
    /\ expired' = expired \cup {i}
    /\ UNCHANGED <<rows, owner, used, locked, mailed, create, mailVars, confirmVars>>

-----------------------------------------------------------------------------
CreateProgress(c) == CreateUpdate(c) \/ CreateCommit(c) \/ RequestMail(c) \/ MailSend(c)
JobProgress(r) == VerifyAndConsume(r) \/ JobCommit(r) \/ JobReturn(r)

Next ==
    \/ \E c \in Creators :
          \/ \E u \in Users : RequestBegin(c, u)
          \/ \E m \in Mails : MailBegin(c, m)
          \/ CreateProgress(c)
          \/ MailRetry(c) \/ CreateFail(c)
    \/ \E r \in Reqs :
          \/ \E i \in Ids : ConfirmPost(r, i)
          \/ ConfirmReply(r)
          \/ JobProgress(r)
          \/ JobRetry(r)
          \/ JobFail(r)
    \/ \E i \in Ids : Expire(i)

Spec == Init /\ [][Next]_vars

-----------------------------------------------------------------------------
(* A token changes a password at most once, though requests with the same  *)
(* token race and a task whose commit was not acknowledged runs again      *)
(* (password_reset.py:52-72, password_reset_tasks.py:53-68).               *)
SingleUse == \A i \in Ids : Cardinality({a \in applied : job[a[1]].tok = i}) <= 1

(* A token that a newer one replaced changes nothing: whoever commits a    *)
(* password holds a token that nobody has used or invalidated meanwhile    *)
(* (password_reset.py:25-28, 56-69).                                       *)
RevokedIsDead ==
    [][\A a \in applied' \ applied : job[a[1]].tok \in rows \ used]_vars

(* The confirm requests whose password was set.                            *)
Changed == {r \in Reqs : \E n \in 0 .. MaxRetries : <<r, n>> \in applied}

(* The client reads "Password reset successful" only if its own password   *)
(* was committed (password_reset_router.py:67-75).                         *)
SuccessMeansChanged == \A r \in Reqs : http[r] = "ok" => r \in Changed

(* Tokens of one user that could still be used: no more than there are     *)
(* workers in create_token at once, although every run of a mail task makes*)
(* one more and its retries do again (password_reset.py:25-48,             *)
(* email_tasks.py:9-25).                                                   *)
ActiveBounded ==
    \A u \in Users : Cardinality(RowsOf(u) \ used) <= Cardinality(Creators)

(* The table does not grow: the trim leaves MAX_ACTIVE_TOKENS old rows     *)
(* besides those inserted since it looked (password_reset.py:30-38), mail  *)
(* tasks and their retries included.                                       *)
TableBounded ==
    \A u \in Users : Cardinality(RowsOf(u)) <= MaxActive + Cardinality(Creators)

(* The tasks implement ResetLifecycle: a token can be used while its row is*)
(* there and unmarked; what a request task will end are the rows of its    *)
(* snapshot that can still be used. So a request ends no token of another  *)
(* user and all that its own user had, however the transactions overlap    *)
(* (password_reset.py:18-50, password_reset_tasks.py:59-70).               *)
Want == [c \in Creators |-> IF create[c].pc \in {"update", "insert"}
                            THEN create[c].user ELSE None]
Old == [c \in Creators |-> IF create[c].pc \in {"update", "insert"}
                           THEN create[c].snap \cap (rows \ used) ELSE {}]
Asked == [r \in Reqs |-> job[r].tok]

Lifecycle == INSTANCE ResetLifecycle WITH
    Tokens <- Ids, usable <- rows \ used, want <- Want, old <- Old, asked <- Asked,
    changed <- Changed, answer <- http

ImplementsLifecycle == Lifecycle!Spec

=============================================================================
