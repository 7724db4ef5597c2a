----------------------------- MODULE AdminEmail -----------------------------
(***************************************************************************)
(* An administrator's e-mail: the endpoint claims an idempotency key,      *)
(* counts and validates the request and answers 202; a background job      *)
(* passes the message to the mailer, a Celery task that tries SMTP three   *)
(* times. Keys are global, so requests of any administrators meet in them. *)
(* The Redis client sends SET NX once more when its answer does not come,  *)
(* and is then told that the key was taken. A broken connection does not   *)
(* tell whether the server has taken the message.                          *)
(***************************************************************************)
EXTENDS FiniteSets, Naturals

CONSTANTS
    Keys,         \* values of X-Idempotency-Key
    Reqs,         \* requests; each has its task_id
    MaxAttempts,  \* SMTP_MAX_RETRIES: 3 by default
    MaxClaims,    \* bound: how often a key is ever set
    None

ASSUME AdminEmailAssumption ==
    /\ MaxAttempts \in Nat \ {0} /\ MaxClaims \in Nat /\ IsFiniteSet(Reqs)
    /\ None \notin Keys \cup Reqs

VARIABLES
    idem,    \* per key: the request whose task_id idempotency:<key> holds
    claims,  \* history: how often each key was set
    req,     \* per request: program counter and locals of endpoint, job and mailer
    mails    \* per request: how often the server has taken its message

vars == <<idem, claims, req, mails>>

Request == [pc : {"idle", "lookup", "duplicate", "unavailable", "claimed", "refused",
                  "accepted", "sending", "sent", "failed", "lost"},
            key : Keys \cup {None},
            attempt : 1 .. MaxAttempts,
            unsure : 0 .. MaxAttempts]     \* history: attempts that broke off
IdleReq == [pc |-> "idle", key |-> None, attempt |-> 1, unsure |-> 0]

(* Every variable keeps its type; the mailer stops at MaxAttempts.         *)
TypeOK ==
    /\ idem \in [Keys -> Reqs \cup {None}]
    /\ claims \in [Keys -> 0 .. MaxClaims]
    /\ req \in [Reqs -> Request]
    /\ mails \in [Reqs -> 0 .. MaxAttempts]

Init ==
    /\ idem = [k \in Keys |-> None]
    /\ claims = [k \in Keys |-> 0]
    /\ req = [r \in Reqs |-> IdleReq]
    /\ mails = [r \in Reqs |-> 0]

Goto(r, label) == req' = [req EXCEPT ![r].pc = label]

-----------------------------------------------------------------------------
(* send_email_endpoint *)

SetKey(r, k) ==
    /\ claims[k] < MaxClaims
    /\ idem' = [idem EXCEPT ![k] = r]
    /\ claims' = [claims EXCEPT ![k] = @ + 1]

Enter(r, k, label) == req' = [req EXCEPT ![r] = [IdleReq EXCEPT !.pc = label, !.key = k]]

(* Mutant: SET without NX.                                                 *)
ClaimAlways(r, k) ==
    /\ req[r].pc = "idle"
    /\ IF idem[k] = None THEN SetKey(r, k)
                         ELSE idem' = [idem EXCEPT ![k] = r] /\ UNCHANGED claims
    /\ Enter(r, k, "claimed")
    /\ UNCHANGED mails

(* set_key(idem_key, ..., nx=True)                                         *)
Claim(r, k) ==
    /\ req[r].pc = "idle"
    /\ IF idem[k] = None
       THEN SetKey(r, k) /\ Enter(r, k, "claimed")
       ELSE Enter(r, k, "lookup") /\ UNCHANGED <<idem, claims>>
    /\ UNCHANGED mails

(* Its answer is lost: the second SET NX finds the key that the first set, *)
(* or the request ends with an error.                                      *)
ClaimUnanswered(r, k) ==
    /\ req[r].pc = "idle" /\ idem[k] = None
    /\ SetKey(r, k)
    /\ Enter(r, k, "lookup") \/ Enter(r, k, "refused")
    /\ UNCHANGED mails

(* 429 with the task_id that the key holds, or 503 when it has expired.    *)
Lookup(r) ==
    /\ req[r].pc = "lookup"
    /\ Goto(r, IF idem[req[r].key] = None THEN "unavailable" ELSE "duplicate")
    /\ UNCHANGED <<idem, claims, mails>>

(* The daily limit, the size or the content of the message, a Redis error  *)
(* or a crash: the key stays.                                              *)
Refuse(r) ==
    /\ req[r].pc \in {"lookup", "claimed"}
    /\ Goto(r, "refused")
    /\ UNCHANGED <<idem, claims, mails>>

(* 202, and the job runs after the answer.                                 *)
Accept(r) ==
    /\ req[r].pc = "claimed"
    /\ Goto(r, "accepted")
    /\ UNCHANGED <<idem, claims, mails>>

(* send_admin_email_background hands the message to the mailer.            *)
Job(r) ==
    /\ req[r].pc = "accepted"
    /\ Goto(r, "sending")
    /\ UNCHANGED <<idem, claims, mails>>

-----------------------------------------------------------------------------
(* send_email_task *)

(* An invalid address or a message that is too large ends the task before  *)
(* its first attempt.                                                      *)
Invalid(r) ==
    /\ req[r].pc = "sending" /\ req[r].attempt = 1
    /\ Goto(r, "failed")
    /\ UNCHANGED <<idem, claims, mails>>

Taken(r) == mails' = [mails EXCEPT ![r] = @ + 1]

(* Mutant: the loop goes on after a success.                               *)
SendOn(r) ==
    /\ req[r].pc = "sending"
    /\ Taken(r)
    /\ IF req[r].attempt = MaxAttempts THEN Goto(r, "sent")
                                       ELSE req' = [req EXCEPT ![r].attempt = @ + 1]
    /\ UNCHANGED <<idem, claims>>

Send(r) ==
    /\ req[r].pc = "sending"
    /\ Taken(r)
    /\ Goto(r, "sent")
    /\ UNCHANGED <<idem, claims>>

(* Mutant: the attempt after the last is made.                             *)
AgainLate(r) == req[r].attempt <= MaxAttempts

Again(r) == req[r].attempt < MaxAttempts

(* SMTPException, a broken connection or a timeout, also of the QUIT after *)
(* the message was taken: tried again, and after the last attempt a 503.   *)
Break(r) ==
    /\ req[r].pc = "sending"
    /\ mails' = mails \/ Taken(r)
    /\ IF Again(r) THEN req' = [req EXCEPT ![r].attempt = @ + 1, ![r].unsure = @ + 1]
                   ELSE req' = [req EXCEPT ![r].pc = "failed", ![r].unsure = @ + 1]
    /\ UNCHANGED <<idem, claims>>

(* Any other exception ends the task, and so does the soft time limit.     *)
GiveUp(r) ==
    /\ req[r].pc = "sending"
    /\ mails' = mails \/ Taken(r)
    /\ req' = [req EXCEPT ![r].pc = "failed", ![r].unsure = @ + 1]
    /\ UNCHANGED <<idem, claims>>

(* The process with the job dies, or the worker, whose message has been    *)
(* acknowledged.                                                           *)
Die(r) ==
    /\ req[r].pc \in {"accepted", "sending"}
    /\ \/ mails' = mails /\ Goto(r, "lost")
       \/ /\ req[r].pc = "sending" /\ Taken(r)
          /\ req' = [req EXCEPT ![r].pc = "lost", ![r].unsure = @ + 1]
    /\ UNCHANGED <<idem, claims>>

-----------------------------------------------------------------------------
(* IDEMPOTENCY_TTL: a day passes.                                          *)
Expire(k) ==
    /\ idem[k] # None
    /\ idem' = [idem EXCEPT ![k] = None]
    /\ UNCHANGED <<claims, req, mails>>

Next ==
    \/ \E r \in Reqs :
        \/ \E k \in Keys : Claim(r, k) \/ ClaimUnanswered(r, k)
        \/ Lookup(r) \/ Refuse(r) \/ Accept(r) \/ Job(r)
        \/ Invalid(r) \/ Send(r) \/ Break(r) \/ GiveUp(r) \/ Die(r)
    \/ \E k \in Keys : Expire(k)

Spec == Init /\ [][Next]_vars

-----------------------------------------------------------------------------
HasJob(r) == req[r].pc \in {"accepted", "sending", "sent", "failed", "lost"}
JobsOf(k) == {r \in Reqs : req[r].key = k /\ HasJob(r)}

(* A key lets through at most one request for each time it was set: not    *)
(* two that overlap, not one whose claim was sent twice, and not one whose *)
(* predecessor was refused (email_service.py:68-93).                       *)
JobsPaced == \A k \in Keys : Cardinality(JobsOf(k)) <= claims[k]

(* The recipients get the message once, and once more only for an attempt  *)
(* that broke off; a request without a job sends nothing                   *)
(* (mailer.py:107-175).                                                    *)
MailsForCause ==
    \A r \in Reqs :
        /\ mails[r] <= req[r].unsure + (IF req[r].pc = "sent" THEN 1 ELSE 0)
        /\ req[r].pc = "sent" => mails[r] > 0
        /\ ~HasJob(r) => mails[r] = 0

=============================================================================
