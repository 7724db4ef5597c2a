-------------------------- MODULE AdminEmail_proofs --------------------------
(* How many jobs a key starts and how many messages a job sends, for any   *)
(* number of keys, requests, attempts and expiries.                        *)
EXTENDS AdminEmail, FiniteSetTheorems, TLAPS

(* The attempts that broke off are those before the present one.           *)
AttemptsAddUp(r) ==
    /\ req[r].pc \notin {"sent", "failed", "lost"} => req[r].unsure = req[r].attempt - 1
    /\ req[r].pc \in {"sent", "lost"} => req[r].unsure <= req[r].attempt
    /\ req[r].pc = "sent" => req[r].unsure < req[r].attempt
    /\ mails[r] <= req[r].unsure + (IF req[r].pc = "sent" THEN 1 ELSE 0)
    /\ req[r].pc = "sent" => mails[r] > 0
    /\ ~HasJob(r) => mails[r] = 0
Attempts == \A r \in Reqs : AttemptsAddUp(r)

(* The requests that set the key and went on.                              *)
Passed(k) == {r \in Reqs : req[r].key = k /\ (HasJob(r) \/ req[r].pc = "claimed")}
ClaimsCounted == \A k \in Keys : Cardinality(Passed(k)) <= claims[k]

(* The inductive invariant.                                                *)
IInv == TypeOK /\ Attempts /\ ClaimsCounted

USE AdminEmailAssumption

LEMMA PassedFinite == ASSUME NEW k PROVE IsFiniteSet(Passed(k))
BY FS_Subset DEF Passed

(* It holds initially.                                                     *)
LEMMA InitInv == Init => IInv
<1> SUFFICES ASSUME Init PROVE IInv OBVIOUS
<1>1. IdleReq \in Request /\ IdleReq.pc = "idle" /\ IdleReq.attempt = 1 /\ IdleReq.unsure = 0
  BY DEF IdleReq, Request
<1>2. TypeOK BY <1>1 DEF Init, TypeOK
<1>3. Attempts BY <1>1 DEF Init, Attempts, AttemptsAddUp, HasJob
<1>4. \A k : Passed(k) = {} BY <1>1 DEF Init, Passed, HasJob
<1>5. ClaimsCounted BY <1>4, FS_EmptySet DEF Init, ClaimsCounted
<1> QED BY <1>2, <1>3, <1>5 DEF IInv

-----------------------------------------------------------------------------
(* One request moves and no other does.                                    *)
Alone(r) == req' \in [Reqs -> Request] /\ \A q \in Reqs \ {r} : req'[q] = req[q]

LEMMA GotoMoves ==
  ASSUME TypeOK, NEW r \in Reqs, NEW pc, Goto(r, pc),
         pc \in {"idle", "lookup", "duplicate", "unavailable", "claimed", "refused",
                 "accepted", "sending", "sent", "failed", "lost"}
  PROVE  /\ Alone(r) /\ req'[r].pc = pc /\ req'[r].key = req[r].key
         /\ req'[r].attempt = req[r].attempt /\ req'[r].unsure = req[r].unsure
<1>1. req[r] \in Request /\ req \in [Reqs -> Request] BY DEF TypeOK
<1> QED BY <1>1 DEF Goto, Request, Alone

LEMMA EnterMoves ==
  ASSUME TypeOK, NEW r \in Reqs, NEW k \in Keys, NEW pc, Enter(r, k, pc),
         pc \in {"lookup", "claimed", "refused"}
  PROVE  /\ Alone(r) /\ req'[r].pc = pc /\ req'[r].key = k
         /\ req'[r].attempt = 1 /\ req'[r].unsure = 0
<1> DEFINE new == [[IdleReq EXCEPT !.pc = pc] EXCEPT !.key = k]
<1>0. IdleReq \in Request /\ IdleReq.attempt = 1 /\ IdleReq.unsure = 0
  BY DEF IdleReq, Request
<1>1. new \in Request /\ new.pc = pc /\ new.key = k /\ new.attempt = 1 /\ new.unsure = 0
  BY <1>0 DEF Request
<1>2. req' = [req EXCEPT ![r] = new] BY DEF Enter
<1> HIDE DEF new
<1>3. req \in [Reqs -> Request] BY DEF TypeOK
<1> QED BY <1>1, <1>2, <1>3 DEF Alone

(* An attempt breaks off: the next one begins, or the task ends.           *)
LEMMA BreakMoves ==
  ASSUME TypeOK, NEW r \in Reqs, Break(r), req[r].unsure = req[r].attempt - 1
  PROVE  /\ Alone(r) /\ req'[r].key = req[r].key /\ req'[r].unsure = req[r].unsure + 1
         /\ \/ req'[r].pc = "sending" /\ req'[r].attempt = req[r].attempt + 1
            \/ req'[r].pc = "failed"
<1>1. req[r] \in Request /\ req \in [Reqs -> Request] /\ req[r].pc = "sending"
  BY DEF TypeOK, Break
<1>2. req[r].attempt \in 1 .. MaxAttempts /\ req[r].unsure + 1 \in 0 .. MaxAttempts
  BY <1>1 DEF Request
<1>3. CASE Again(r)
  <2> DEFINE mid == [req[r] EXCEPT !.attempt = req[r].attempt + 1]
             new == [mid EXCEPT !.unsure = req[r].unsure + 1]
  <2>1. req[r].attempt + 1 \in 1 .. MaxAttempts BY <1>2, <1>3 DEF Again
  <2>2. /\ mid \in Request /\ mid.pc = "sending" /\ mid.key = req[r].key
        /\ mid.attempt = req[r].attempt + 1
    BY <1>1, <2>1 DEF Request
  <2>3. req' = [req EXCEPT ![r].attempt = @ + 1, ![r].unsure = @ + 1]
    BY <1>3 DEF Break
  <2>4. req'[r] = new /\ \A q \in Reqs \ {r} : req'[q] = req[q] BY <1>1, <2>3 DEF Request
  <2>5. DOMAIN req' = Reqs /\ req' = [q \in Reqs |-> req'[q]] BY <1>1, <2>3
  <2> HIDE DEF mid
  <2>6. /\ new \in Request /\ new.pc = "sending" /\ new.key = req[r].key
        /\ new.attempt = req[r].attempt + 1 /\ new.unsure = req[r].unsure + 1
    BY <1>2, <2>2 DEF Request
  <2> HIDE DEF new
  <2> QED BY <1>1, <2>4, <2>5, <2>6 DEF Alone
<1>4. CASE ~Again(r)
  <2>1. req' = [req EXCEPT ![r].pc = "failed", ![r].unsure = @ + 1] BY <1>4 DEF Break
  <2> DEFINE new == [[req[r] EXCEPT !.pc = "failed"] EXCEPT !.unsure = req[r].unsure + 1]
  <2>2. req'[r] = new /\ \A q \in Reqs \ {r} : req'[q] = req[q] BY <1>1, <2>1 DEF Request
  <2>3. DOMAIN req' = Reqs /\ req' = [q \in Reqs |-> req'[q]] BY <1>1, <2>1
  <2>4. /\ new \in Request /\ new.pc = "failed" /\ new.key = req[r].key
        /\ new.unsure = req[r].unsure + 1
    BY <1>1, <1>2 DEF Request
  <2> HIDE DEF new
  <2> QED BY <1>1, <2>2, <2>3, <2>4 DEF Alone
<1> QED BY <1>3, <1>4

(* A task ends in the middle of an attempt.                                *)
LEMMA EndMoves ==
  ASSUME TypeOK, NEW r \in Reqs, NEW pc \in {"failed", "lost"},
         req' = [req EXCEPT ![r].pc = pc, ![r].unsure = @ + 1],
         req[r].unsure = req[r].attempt - 1
  PROVE  /\ Alone(r) /\ req'[r].pc = pc /\ req'[r].key = req[r].key
         /\ req'[r].attempt = req[r].attempt /\ req'[r].unsure = req[r].unsure + 1
<1>1. req[r] \in Request /\ req \in [Reqs -> Request] BY DEF TypeOK
<1>2. req[r].unsure + 1 \in 0 .. MaxAttempts BY <1>1 DEF Request
<1> DEFINE new == [[req[r] EXCEPT !.pc = pc] EXCEPT !.unsure = req[r].unsure + 1]
<1>3. req'[r] = new /\ \A q \in Reqs \ {r} : req'[q] = req[q] BY <1>1 DEF Request
<1>4. DOMAIN req' = Reqs /\ req' = [q \in Reqs |-> req'[q]] BY <1>1
<1>5. /\ new \in Request /\ new.pc = pc /\ new.key = req[r].key
      /\ new.attempt = req[r].attempt /\ new.unsure = req[r].unsure + 1
  BY <1>1, <1>2 DEF Request
<1> HIDE DEF new
<1> QED BY <1>1, <1>3, <1>4, <1>5 DEF Alone

-----------------------------------------------------------------------------
(* A step of r alone keeps the invariant if r's own numbers add up and r   *)
(* passes only by setting its key.                                         *)
LEMMA AloneKeeps ==
  ASSUME IInv, NEW r \in Reqs, Alone(r),
         idem' \in [Keys -> Reqs \cup {None}], claims' \in [Keys -> 0 .. MaxClaims],
         mails' \in [Reqs -> Nat], \A q \in Reqs \ {r} : mails'[q] = mails[q],
         AttemptsAddUp(r)',
         \A k \in Keys : claims'[k] >= claims[k],
         \/ req'[r].pc \notin {"claimed", "accepted", "sending", "sent", "failed", "lost"}
         \/ /\ req[r].pc \in {"claimed", "accepted", "sending", "sent", "failed", "lost"}
            /\ req'[r].key = req[r].key
         \/ /\ req[r].pc = "idle" /\ req'[r].key \in Keys
            /\ claims'[req'[r].key] = claims[req'[r].key] + 1
  PROVE  IInv'
<1>1. TypeOK /\ Attempts /\ ClaimsCounted BY DEF IInv
<1>2. \A q \in Reqs \ {r} : req'[q] = req[q] BY DEF Alone
<1>3. Attempts'
  <2> SUFFICES ASSUME NEW q \in Reqs PROVE AttemptsAddUp(q)' BY DEF Attempts
  <2>1. CASE q = r BY <2>1
  <2>2. CASE q # r BY <1>1, <1>2, <2>2 DEF Attempts, AttemptsAddUp, HasJob
  <2> QED BY <2>1, <2>2
<1>4. TypeOK'
  <2>1. req' \in [Reqs -> Request] BY DEF Alone
  <2>2. \A q \in Reqs : mails'[q] <= MaxAttempts
    <3> SUFFICES ASSUME NEW q \in Reqs PROVE mails'[q] <= MaxAttempts OBVIOUS
    <3>1. /\ req'[q].unsure \in 0 .. MaxAttempts /\ req'[q].attempt \in 1 .. MaxAttempts
          /\ mails'[q] \in Nat
      BY <2>1 DEF Request
    <3> QED BY <1>3, <3>1 DEF Attempts, AttemptsAddUp
  <2>3. mails' \in [Reqs -> 0 .. MaxAttempts] BY <2>2
  <2> QED BY <2>1, <2>3 DEF TypeOK
<1>5. ClaimsCounted'
  <2> SUFFICES ASSUME NEW k \in Keys PROVE Cardinality(Passed(k)') <= claims'[k]
    BY DEF ClaimsCounted
  <2>1. Cardinality(Passed(k)) <= claims[k] /\ claims[k] \in Nat /\ claims'[k] \in Nat
    BY <1>1 DEF ClaimsCounted, TypeOK
  <2>2. Passed(k)' \subseteq Passed(k) \cup {r} BY <1>2 DEF Passed, HasJob
  <2>3. IsFiniteSet(Passed(k)) /\ Cardinality(Passed(k)) \in Nat
    BY PassedFinite, FS_CardinalityType
  <2>4. CASE r \notin Passed(k)' \/ r \in Passed(k)
    <3>1. Passed(k)' \subseteq Passed(k) BY <2>2, <2>4
    <3>2. Cardinality(Passed(k)') <= Cardinality(Passed(k)) /\ Cardinality(Passed(k)') \in Nat
      BY <2>3, <3>1, FS_Subset, FS_CardinalityType
    <3> HIDE DEF Passed
    <3> QED BY <2>1, <2>3, <3>2
  <2>5. CASE r \in Passed(k)' /\ r \notin Passed(k)
    <3>1. claims'[k] = claims[k] + 1 BY <2>5 DEF Passed, HasJob
    <3>2. /\ IsFiniteSet(Passed(k) \cup {r})
          /\ Cardinality(Passed(k) \cup {r}) = Cardinality(Passed(k)) + 1
      BY <2>3, <2>5, FS_AddElement
    <3>3. Cardinality(Passed(k)') <= Cardinality(Passed(k)) + 1 /\ Cardinality(Passed(k)') \in Nat
      BY <2>2, <3>2, FS_Subset, FS_CardinalityType
    <3> QED BY <2>1, <2>3, <3>1, <3>3
  <2> QED BY <2>4, <2>5
<1> QED BY <1>3, <1>4, <1>5 DEF IInv

(* The endpoint.                                                           *)
LEMMA EndpointInv ==
  ASSUME IInv, NEW r \in Reqs,
         \/ \E k \in Keys : Claim(r, k) \/ ClaimUnanswered(r, k)
         \/ Lookup(r) \/ Refuse(r) \/ Accept(r) \/ Job(r)
  PROVE  IInv'
<1>1. TypeOK /\ AttemptsAddUp(r) BY DEF IInv, Attempts
<1>2. /\ req[r] \in Request /\ mails[r] \in Nat /\ mails \in [Reqs -> Nat]
      /\ idem \in [Keys -> Reqs \cup {None}] /\ claims \in [Keys -> 0 .. MaxClaims]
  BY <1>1 DEF TypeOK
<1>3. ASSUME NEW k \in Keys, Claim(r, k) \/ ClaimUnanswered(r, k) PROVE IInv'
  <2>1. /\ UNCHANGED mails /\ req[r].pc = "idle"
        /\ \/ SetKey(r, k) /\ Enter(r, k, "claimed")
           \/ SetKey(r, k) /\ Enter(r, k, "lookup")
           \/ SetKey(r, k) /\ Enter(r, k, "refused")
           \/ UNCHANGED <<idem, claims>> /\ Enter(r, k, "lookup")
    BY <1>3 DEF Claim, ClaimUnanswered
  <2>2. mails[r] = 0 BY <1>1, <2>1 DEF AttemptsAddUp, HasJob
  <2>3. ASSUME SetKey(r, k)
        PROVE  /\ idem' \in [Keys -> Reqs \cup {None}] /\ claims' \in [Keys -> 0 .. MaxClaims]
               /\ claims'[k] = claims[k] + 1 /\ \A j \in Keys : claims'[j] >= claims[j]
    BY <1>2, <2>3 DEF SetKey
  <2>4. \A pc \in {"lookup", "claimed", "refused"} : Enter(r, k, pc) => AttemptsAddUp(r)'
    BY <1>1, <2>1, <2>2, EnterMoves DEF AttemptsAddUp, HasJob
  <2>5. CASE SetKey(r, k) /\ Enter(r, k, "claimed")
    BY <1>1, <1>2, <2>1, <2>3, <2>4, <2>5, EnterMoves, AloneKeeps
  <2>6. CASE SetKey(r, k) /\ Enter(r, k, "lookup")
    BY <1>1, <1>2, <2>1, <2>3, <2>4, <2>6, EnterMoves, AloneKeeps
  <2>7. CASE SetKey(r, k) /\ Enter(r, k, "refused")
    BY <1>1, <1>2, <2>1, <2>3, <2>4, <2>7, EnterMoves, AloneKeeps
  <2>8. CASE UNCHANGED <<idem, claims>> /\ Enter(r, k, "lookup")
    <3>1. \A j \in Keys : claims'[j] >= claims[j] BY <1>2, <2>8
    <3> QED BY <1>1, <1>2, <2>1, <2>4, <2>8, <3>1, EnterMoves, AloneKeeps
  <2> QED BY <2>1, <2>5, <2>6, <2>7, <2>8
<1>4. ASSUME Lookup(r) \/ Refuse(r) \/ Accept(r) \/ Job(r) PROVE IInv'
  <2>1. /\ UNCHANGED <<idem, claims, mails>>
        /\ \/ req[r].pc \in {"lookup", "claimed"} /\ \E pc \in {"unavailable", "duplicate", "refused"} : Goto(r, pc)
           \/ req[r].pc = "claimed" /\ Goto(r, "accepted")
           \/ req[r].pc = "accepted" /\ Goto(r, "sending")
    BY <1>4 DEF Lookup, Refuse, Accept, Job
  <2>2. PICK pc \in {"unavailable", "duplicate", "refused", "accepted", "sending"} :
          /\ Goto(r, pc)
          /\ \/ req[r].pc \in {"lookup", "claimed"} /\ pc \in {"unavailable", "duplicate", "refused"}
             \/ req[r].pc \in {"claimed", "accepted"} /\ pc \in {"accepted", "sending"}
    BY <2>1
  <2>3. /\ Alone(r) /\ req'[r].pc = pc /\ req'[r].key = req[r].key
        /\ req'[r].attempt = req[r].attempt /\ req'[r].unsure = req[r].unsure
    BY <1>1, <2>2, GotoMoves
  <2>4. AttemptsAddUp(r)'
    <3>1. req[r].unsure \in Nat /\ req[r].attempt \in Nat BY <1>2 DEF Request
    <3>2. req[r].pc \in {"lookup", "claimed"} => mails[r] = 0
      BY <1>1 DEF AttemptsAddUp, HasJob
    <3> QED BY <1>1, <1>2, <2>1, <2>2, <2>3, <3>1, <3>2 DEF AttemptsAddUp, HasJob
  <2>5. \A j \in Keys : claims'[j] >= claims[j] BY <1>2, <2>1
  <2> QED BY <1>1, <1>2, <2>1, <2>2, <2>3, <2>4, <2>5, AloneKeeps
<1> QED BY <1>3, <1>4

(* The mailer.                                                             *)
LEMMA MailerInv ==
  ASSUME IInv, NEW r \in Reqs, Invalid(r) \/ Send(r) \/ Break(r) \/ GiveUp(r) \/ Die(r) PROVE IInv'
<1>1. TypeOK /\ AttemptsAddUp(r) BY DEF IInv, Attempts
<1>2. /\ req[r] \in Request /\ mails[r] \in Nat /\ mails \in [Reqs -> Nat]
      /\ idem \in [Keys -> Reqs \cup {None}] /\ claims \in [Keys -> 0 .. MaxClaims]
  BY <1>1 DEF TypeOK
<1>3. req[r].unsure \in Nat /\ req[r].attempt \in Nat BY <1>2 DEF Request
<1>4. /\ UNCHANGED <<idem, claims>> /\ req[r].pc \in {"accepted", "sending"}
      /\ mails' = mails \/ Taken(r)
  BY DEF Invalid, Send, Break, GiveUp, Die
<1>5. /\ mails' \in [Reqs -> Nat] /\ \A q \in Reqs \ {r} : mails'[q] = mails[q]
      /\ mails'[r] \in Nat /\ mails'[r] <= mails[r] + 1 /\ mails'[r] >= mails[r]
  BY <1>2, <1>4 DEF Taken
<1>6. \A j \in Keys : claims'[j] >= claims[j] BY <1>2, <1>4
<1>7. req[r].unsure = req[r].attempt - 1 /\ mails[r] <= req[r].unsure
  BY <1>1, <1>2, <1>3, <1>4 DEF AttemptsAddUp
<1>8. CASE Send(r)
  <2>1. Taken(r) /\ Goto(r, "sent") BY <1>8 DEF Send
  <2>2. mails'[r] = mails[r] + 1 BY <1>2, <2>1 DEF Taken
  <2>3. /\ Alone(r) /\ req'[r].pc = "sent" /\ req'[r].key = req[r].key
        /\ req'[r].attempt = req[r].attempt /\ req'[r].unsure = req[r].unsure
    BY <1>1, <2>1, GotoMoves
  <2>4. AttemptsAddUp(r)' BY <1>2, <1>3, <1>7, <2>2, <2>3 DEF AttemptsAddUp, HasJob
  <2> QED BY <1>2, <1>4, <1>5, <1>6, <2>3, <2>4, AloneKeeps
<1>9. CASE Break(r)
  <2>1. AttemptsAddUp(r)'
    BY <1>1, <1>2, <1>3, <1>5, <1>7, <1>9, BreakMoves DEF AttemptsAddUp, HasJob
  <2> QED BY <1>1, <1>2, <1>4, <1>5, <1>6, <1>7, <1>9, <2>1, BreakMoves, AloneKeeps
<1>10. CASE Invalid(r) \/ GiveUp(r) \/ Die(r)
  <2>1. CASE (Goto(r, "lost") \/ Goto(r, "failed")) /\ mails' = mails
    <3>1. /\ Alone(r) /\ req'[r].pc \in {"lost", "failed"} /\ req'[r].key = req[r].key
          /\ req'[r].attempt = req[r].attempt /\ req'[r].unsure = req[r].unsure
      BY <1>1, <2>1, GotoMoves
    <3>2. AttemptsAddUp(r)' BY <1>2, <1>3, <1>7, <2>1, <3>1 DEF AttemptsAddUp, HasJob
    <3> QED BY <1>2, <1>4, <1>5, <1>6, <3>1, <3>2, AloneKeeps
  <2>2. CASE \E pc \in {"failed", "lost"} : req' = [req EXCEPT ![r].pc = pc, ![r].unsure = @ + 1]
    <3>1. PICK pc \in {"failed", "lost"} : req' = [req EXCEPT ![r].pc = pc, ![r].unsure = @ + 1]
      BY <2>2
    <3>2. /\ Alone(r) /\ req'[r].pc = pc /\ req'[r].key = req[r].key
          /\ req'[r].attempt = req[r].attempt /\ req'[r].unsure = req[r].unsure + 1
      BY <1>1, <1>7, <3>1, EndMoves
    <3>3. AttemptsAddUp(r)' BY <1>2, <1>3, <1>5, <1>7, <3>1, <3>2 DEF AttemptsAddUp, HasJob
    <3> QED BY <1>2, <1>4, <1>5, <1>6, <3>1, <3>2, <3>3, AloneKeeps
  <2> QED BY <1>10, <2>1, <2>2 DEF Invalid, GiveUp, Die
<1> QED BY <1>8, <1>9, <1>10

(* Every step keeps the invariant.                                         *)
LEMMA StepInv == IInv /\ [Next]_vars => IInv'
<1> SUFFICES ASSUME IInv, [Next]_vars PROVE IInv' OBVIOUS
<1>1. CASE \E k \in Keys : Expire(k)
  <2>1. UNCHANGED <<claims, req, mails>> BY <1>1 DEF Expire
  <2>2. idem' \in [Keys -> Reqs \cup {None}] BY <1>1 DEF Expire, IInv, TypeOK
  <2>3. \A k : Passed(k)' = Passed(k) BY <2>1 DEF Passed, HasJob
  <2> QED BY <2>1, <2>2, <2>3 DEF IInv, TypeOK, Attempts, AttemptsAddUp, HasJob, ClaimsCounted
<1>2. CASE UNCHANGED vars
  <2>1. \A k : Passed(k)' = Passed(k) BY <1>2 DEF vars, Passed, HasJob
  <2> QED BY <1>2, <2>1 DEF vars, IInv, TypeOK, Attempts, AttemptsAddUp, HasJob, ClaimsCounted
<1> QED BY <1>1, <1>2, EndpointInv, MailerInv DEF Next

(* The invariant holds in every reachable state.                           *)
THEOREM Invariant == Spec => []IInv
BY InitInv, StepInv, PTL DEF Spec

-----------------------------------------------------------------------------
(* Every variable keeps its type: the mailer stops at MaxAttempts.         *)
THEOREM TypeCorrect == Spec => []TypeOK
BY Invariant, PTL DEF IInv

(* send_email_endpoint: a key lets at most one request through for each    *)
(* time it was set.                                                        *)
THEOREM JobsArePaced == Spec => []JobsPaced
<1> SUFFICES ASSUME IInv PROVE JobsPaced
  BY Invariant, PTL
<1> SUFFICES ASSUME NEW k \in Keys PROVE Cardinality(JobsOf(k)) <= claims[k]
  BY DEF JobsPaced
<1>1. JobsOf(k) \subseteq Passed(k) BY DEF JobsOf, Passed
<1>2. /\ Cardinality(JobsOf(k)) <= Cardinality(Passed(k))
      /\ Cardinality(JobsOf(k)) \in Nat /\ Cardinality(Passed(k)) \in Nat
  BY <1>1, PassedFinite, FS_Subset, FS_CardinalityType
<1>3. Cardinality(Passed(k)) <= claims[k] /\ claims[k] \in Nat
  BY DEF IInv, ClaimsCounted, TypeOK
<1> QED BY <1>2, <1>3

(* send_email_task: a message is taken more often than once only for the   *)
(* attempts that broke off, and never without a job.                       *)
THEOREM MailsHaveCause == Spec => []MailsForCause
<1>1. IInv => MailsForCause BY DEF IInv, Attempts, AttemptsAddUp, MailsForCause
<1> QED BY <1>1, Invariant, PTL

=============================================================================
