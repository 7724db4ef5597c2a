----------------------------- MODULE Mfa_proofs -----------------------------
(* The limits on wrong codes and attempts, and what the idempotency key    *)
(* shows, for any number of devices, keys, requests and expiries.          *)
EXTENDS Mfa, FiniteSetTheorems, FunctionTheorems, TLAPS

Records == [pc : {"idle", "attempt", "reattempt", "post", "refused", "queued", "incr", "reincr",
                  "device", "count", "fails", "attempts", "devices", "mark", "settled", "dead"},
            key : Keys \cup {None}, dev : Devices \cup {None}, right : BOOLEAN, nth : Nat,
            tries : Nat, out : Outcome, tryEpoch : Nat, failEpoch : Nat]

(* The counters may take any value.                                        *)
Typed ==
    /\ idem \in [Keys -> {None, "processing", "verified", "locked", "failed"}]
    /\ fails \in Nat /\ attempts \in [Devices -> Nat]
    /\ epoch \in [Devices \cup {None} -> Nat]
    /\ req \in [Reqs -> Records]
    /\ \A r \in Reqs : IF req[r].pc = "idle" THEN req[r].key = None
                       ELSE req[r].key \in Keys /\ req[r].dev \in Devices

(* A wrong code was counted between two clearings, the last one or an      *)
(* earlier; since the last, the counter is not below what it returned.     *)
CountedBefore ==
    \A r \in Reqs : req[r].nth > 0 =>
        /\ req[r].failEpoch <= epoch[None]
        /\ req[r].failEpoch = epoch[None] => req[r].nth <= fails

(* INCR is atomic: no two tasks are returned the same value.               *)
ValuesDiffer ==
    \A r, q \in Reqs :
        (r # q /\ req[r].nth > 0 /\ req[q].nth > 0 /\ req[r].failEpoch = req[q].failEpoch)
        => req[r].nth # req[q].nth

(* What a task knows where it stands, and what its result rests on.        *)
JudgedWell(r) ==
    /\ req[r].pc = "idle" => req[r].nth = 0
    /\ req[r].pc \in {"device", "count"} => req[r].nth > 0
    /\ req[r].pc \in {"fails", "attempts", "devices"} => req[r].right
    /\ req[r].pc \notin {"mark", "settled", "dead"} => req[r].out = None
    /\ req[r].out = "SUCCESS" => req[r].right \/ req[r].nth \in 1 .. (Threshold - 1)
Judged == \A r \in Reqs : JudgedWell(r)

(* The requests of d that were let through in epoch e.                     *)
Posted == {"post", "queued", "incr", "reincr", "device", "count", "fails", "attempts",
           "devices", "mark", "settled"}
Through(d, e) == {r \in Reqs : req[r].dev = d /\ req[r].tryEpoch = e /\ req[r].pc \in Posted}

(* A device's counter is never below the number of those let through since *)
(* it was cleared.                                                         *)
AttemptsCounted ==
    \A d \in Devices, e \in Nat :
        /\ Cardinality(Through(d, e)) <= MaxAttempts
        /\ e = epoch[d] => Cardinality(Through(d, e)) <= attempts[d]
        /\ e > epoch[d] => Through(d, e) = {}

(* The inductive invariant.                                                *)
IInv == Typed /\ CountedBefore /\ ValuesDiffer /\ Judged /\ AttemptsCounted /\ KeyTellsOutcome

USE MfaAssumption

(* It holds before the first request.                                      *)
LEMMA InitInv == Init => IInv
<1> SUFFICES ASSUME Init PROVE IInv OBVIOUS
<1>1. IdleReq \in Records /\ IdleReq.pc = "idle" /\ IdleReq.nth = 0 /\ IdleReq.out = None /\ IdleReq.key = None
  BY DEF IdleReq, Records, Outcome
<1>2. Typed BY <1>1 DEF Init, Typed
<1>3. \A d, e : Through(d, e) = {} BY <1>1 DEF Init, Through, Posted
<1>4. AttemptsCounted BY <1>3, FS_EmptySet DEF Init, AttemptsCounted
<1>5. CountedBefore /\ ValuesDiffer /\ KeyTellsOutcome
  BY <1>1 DEF Init, CountedBefore, ValuesDiffer, KeyTellsOutcome
<1>7. Judged BY <1>1 DEF Init, Judged, JudgedWell
<1> QED BY <1>2, <1>4, <1>5, <1>7 DEF IInv

-----------------------------------------------------------------------------
(* The steps that count nothing *)

Quiet(r) ==
    \/ CountAttemptLost(r) \/ Post(r) \/ Verify(r) \/ LoadFails(r) \/ CountWrongLost(r)
    \/ AddDevice(r) \/ JudgeWrong(r) \/ TooManyDevices(r)
    \/ ClearFails(r) \/ ClearAttempts(r) \/ ClearDevices(r)
    \/ Mark(r) \/ Raise(r) \/ Die(r)

(* They leave the locals of the counts alone, and let no request through.  *)
Locals(r) ==
    /\ req' \in [Reqs -> Records]
    /\ \A q \in Reqs \ {r} : req'[q] = req[q]
    /\ req[r].pc # "idle" /\ req'[r].pc # "idle"
    /\ req'[r].key = req[r].key /\ req'[r].dev = req[r].dev
    /\ req'[r].nth = req[r].nth /\ req'[r].failEpoch = req[r].failEpoch
    /\ req'[r].tryEpoch = req[r].tryEpoch
    /\ req'[r].pc \in Posted => req[r].pc \in Posted

(* A request moves on.                                                     *)
LEMMA MoveOn ==
  ASSUME Typed, NEW r \in Reqs, NEW pc, Goto(r, pc)
  PROVE  /\ req'[r].pc = pc /\ req'[r].out = req[r].out /\ req'[r].right = req[r].right
         /\ req'[r].nth = req[r].nth /\ req'[r].tries = req[r].tries
<1>1. req[r] \in Records BY DEF Typed
<1>2. req'[r] = [req[r] EXCEPT !.pc = pc] BY DEF Goto, Typed
<1> QED BY <1>1, <1>2 DEF Records

(* A task is tried again.                                                  *)
LEMMA TryAgain ==
  ASSUME Typed, NEW r \in Reqs, LoadFails(r), req[r].tries < MaxRetries
  PROVE  /\ req'[r].pc = "queued" /\ req'[r].out = req[r].out /\ req'[r].right = req[r].right
         /\ req'[r].nth = req[r].nth /\ req'[r].tries = req[r].tries + 1
<1>1. req[r] \in Records /\ req[r].pc = "queued" BY DEF Typed, LoadFails
<1>2. req'[r] = [req[r] EXCEPT !.tries = @ + 1] BY DEF LoadFails, Typed
<1> QED BY <1>1, <1>2 DEF Records

(* A request moves on with a result.                                       *)
LEMMA MoveOut ==
  ASSUME Typed, NEW r \in Reqs, req[r].pc \in Posted,
         NEW pc \in {"mark", "settled"}, NEW out \in Outcome,
         req' = [req EXCEPT ![r].pc = pc, ![r].out = out]
  PROVE  /\ Locals(r) /\ req'[r].pc = pc /\ req'[r].out = out /\ req'[r].right = req[r].right
         /\ req'[r].nth = req[r].nth /\ req'[r].tries = req[r].tries
<1> DEFINE new == [[req[r] EXCEPT !.pc = pc] EXCEPT !.out = out]
<1>1. req[r] \in Records BY DEF Typed
<1>2. new \in Records BY <1>1 DEF Records
<1>3. /\ new.pc = pc /\ new.key = req[r].key /\ new.dev = req[r].dev /\ new.out = out
      /\ new.nth = req[r].nth /\ new.failEpoch = req[r].failEpoch
      /\ new.tryEpoch = req[r].tryEpoch /\ new.right = req[r].right /\ new.tries = req[r].tries
  BY <1>1 DEF Records
<1>4. req'[r] = new BY <1>1 DEF Typed
<1>5. \A q \in Reqs \ {r} : req'[q] = req[q] BY DEF Typed
<1>6. DOMAIN req' = Reqs /\ req' = [q \in Reqs |-> req'[q]] BY DEF Typed
<1> HIDE DEF new
<1>7. \A q \in Reqs : req'[q] \in Records BY <1>2, <1>4, <1>5 DEF Typed
<1> QED BY <1>3, <1>4, <1>5, <1>6, <1>7 DEF Locals, Posted

(* A task has verified its code.                                           *)
LEMMA MoveRight ==
  ASSUME Typed, NEW r \in Reqs, Verify(r)
  PROVE  Locals(r) /\ req'[r].out = req[r].out /\ req'[r].pc \in {"fails", "incr"}
                   /\ (req'[r].pc = "fails" => req'[r].right) /\ req'[r].tries = req[r].tries
<1>1. PICK right \in BOOLEAN :
        req' = [req EXCEPT ![r].pc = IF right THEN "fails" ELSE "incr", ![r].right = right]
  BY DEF Verify
<1>2. PICK pc \in {"fails", "incr"} :
        /\ req' = [req EXCEPT ![r].pc = pc, ![r].right = right]
        /\ pc = "fails" => right
  <2>1. CASE right BY <1>1, <2>1
  <2>2. CASE ~right BY <1>1, <2>2
  <2> QED BY <2>1, <2>2
<1> DEFINE new == [[req[r] EXCEPT !.pc = pc] EXCEPT !.right = right]
<1>3. req[r] \in Records /\ req[r].pc = "queued" BY DEF Typed, Verify
<1>4. new \in Records BY <1>3 DEF Records
<1>5. /\ new.pc = pc /\ new.key = req[r].key /\ new.dev = req[r].dev /\ new.out = req[r].out
      /\ new.nth = req[r].nth /\ new.failEpoch = req[r].failEpoch
      /\ new.tryEpoch = req[r].tryEpoch /\ new.right = right /\ new.tries = req[r].tries
  BY <1>3 DEF Records
<1>6. req'[r] = new BY <1>2, <1>3 DEF Typed
<1>7. \A q \in Reqs \ {r} : req'[q] = req[q] BY <1>2 DEF Typed
<1>8. DOMAIN req' = Reqs /\ req' = [q \in Reqs |-> req'[q]] BY <1>2 DEF Typed
<1> HIDE DEF new
<1>9. \A q \in Reqs : req'[q] \in Records BY <1>4, <1>6, <1>7 DEF Typed
<1> QED BY <1>2, <1>3, <1>5, <1>6, <1>7, <1>8, <1>9 DEF Locals, Posted

LEMMA QuietLocals == ASSUME Typed, NEW r \in Reqs, Quiet(r) PROVE Locals(r)
<1>a. {"SUCCESS", "LOCKED", "FAILURE"} \subseteq Outcome BY DEF Outcome
<1>1. ASSUME CountAttemptLost(r) PROVE Locals(r) BY <1>1 DEF CountAttemptLost, Goto, Typed, Records, Posted, Locals
<1>2. ASSUME Post(r) PROVE Locals(r) BY <1>2 DEF Post, Goto, Typed, Records, Posted, Locals
<1>3. ASSUME CountWrongLost(r) PROVE Locals(r) BY <1>3 DEF CountWrongLost, Goto, Typed, Records, Posted, Locals
<1>4. ASSUME AddDevice(r) PROVE Locals(r) BY <1>4 DEF AddDevice, Goto, Typed, Records, Posted, Locals
<1>5. ASSUME ClearFails(r) PROVE Locals(r) BY <1>5 DEF ClearFails, Goto, Typed, Records, Posted, Locals
<1>6. ASSUME ClearAttempts(r) PROVE Locals(r) BY <1>6 DEF ClearAttempts, Goto, Typed, Records, Posted, Locals
<1>7. ASSUME Mark(r) PROVE Locals(r) BY <1>7 DEF Mark, Goto, Typed, Records, Posted, Locals
<1>8. ASSUME Die(r) PROVE Locals(r) BY <1>8 DEF Die, Working, Goto, Typed, Records, Posted, Locals
<1>9. ASSUME Verify(r) PROVE Locals(r) BY <1>9, MoveRight
<1>10. ASSUME LoadFails(r) PROVE Locals(r)
  <2>1. CASE req[r].tries < MaxRetries
    BY <1>10, <2>1 DEF LoadFails, Typed, Records, Posted, Locals
  <2>2. CASE ~(req[r].tries < MaxRetries)
    BY <1>10, <2>2, <1>a, MoveOut DEF LoadFails, Settle, Posted
  <2> QED BY <2>1, <2>2
<1>11. ASSUME JudgeWrong(r) PROVE Locals(r)
  <2>1. PICK out \in {"LOCKED", "SUCCESS"} : req' = [req EXCEPT ![r].pc = "mark", ![r].out = out]
    BY <1>11 DEF JudgeWrong
  <2>2. req[r].pc \in Posted BY <1>11 DEF JudgeWrong, Posted
  <2> QED BY <1>a, <2>1, <2>2, MoveOut
<1>12. ASSUME TooManyDevices(r) PROVE Locals(r)
  BY <1>12, <1>a, MoveOut DEF TooManyDevices, Settle, Posted
<1>13. ASSUME ClearDevices(r) PROVE Locals(r)
  BY <1>13, <1>a, MoveOut DEF ClearDevices, Posted
<1>14. ASSUME Raise(r) PROVE Locals(r)
  BY <1>14, <1>a, MoveOut DEF Raise, Working, Settle, Posted
<1> QED BY <1>1, <1>2, <1>3, <1>4, <1>5, <1>6, <1>7, <1>8, <1>9, <1>10, <1>11, <1>12, <1>13,
           <1>14 DEF Quiet

(* To the counters they do an INCR, clear one, or nothing.                 *)
LEMMA QuietCounters ==
  ASSUME Typed, NEW r \in Reqs, Quiet(r)
  PROVE  /\ fails' \in Nat /\ attempts' \in [Devices -> Nat]
         /\ epoch' \in [Devices \cup {None} -> Nat]
         /\ \/ fails' >= fails /\ epoch'[None] = epoch[None]
            \/ fails' = 0 /\ epoch'[None] = epoch[None] + 1
         /\ \A d \in Devices :
              \/ attempts'[d] >= attempts[d] /\ epoch'[d] = epoch[d]
              \/ attempts'[d] = 0 /\ epoch'[d] = epoch[d] + 1
<1> DEFINE Goal == /\ fails' \in Nat /\ attempts' \in [Devices -> Nat]
                   /\ epoch' \in [Devices \cup {None} -> Nat]
                   /\ \/ fails' >= fails /\ epoch'[None] = epoch[None]
                      \/ fails' = 0 /\ epoch'[None] = epoch[None] + 1
                   /\ \A d \in Devices :
                        \/ attempts'[d] >= attempts[d] /\ epoch'[d] = epoch[d]
                        \/ attempts'[d] = 0 /\ epoch'[d] = epoch[d] + 1
<1>1. CASE UNCHANGED <<fails, attempts, epoch>> BY <1>1 DEF Typed
<1>2. CASE CountAttemptLost(r)
  <2>1. req[r].dev \in Devices BY <1>2 DEF CountAttemptLost, Typed
  <2> QED BY <1>2, <2>1 DEF CountAttemptLost, Typed
<1>3. CASE CountWrongLost(r) BY <1>3 DEF CountWrongLost, Typed
<1>4. CASE ClearFails(r) BY <1>4 DEF ClearFails, Typed
<1>5. CASE ClearAttempts(r)
  <2>1. req[r].dev \in Devices /\ req[r].dev # None BY <1>5 DEF ClearAttempts, Typed
  <2> QED BY <1>5, <2>1 DEF ClearAttempts, Typed
<1>6. \/ UNCHANGED <<fails, attempts, epoch>>
      \/ CountAttemptLost(r) \/ CountWrongLost(r) \/ ClearFails(r) \/ ClearAttempts(r)
  BY DEF Quiet, Post, Verify, LoadFails, AddDevice, JudgeWrong, TooManyDevices, ClearDevices,
         Mark, Raise, Die
<1> QED BY <1>1, <1>2, <1>3, <1>4, <1>5, <1>6

-----------------------------------------------------------------------------
(* What a quiet step keeps *)

LEMMA QuietTyped ==
  ASSUME Typed, NEW r \in Reqs, Quiet(r) PROVE Typed'
<1>1. Locals(r) BY QuietLocals
<1>2. idem' \in [Keys -> {None, "processing", "verified", "locked", "failed"}]
  <2>1. req[r].key \in Keys BY <1>1 DEF Locals, Typed
  <2> QED BY <2>1 DEF Typed, Quiet, CountAttemptLost, Post, Verify, LoadFails, CountWrongLost,
          AddDevice, JudgeWrong, TooManyDevices, ClearFails, ClearAttempts, ClearDevices,
          Mark, Raise, Die, Marker
<1>3. \A q \in Reqs : IF req'[q].pc = "idle" THEN req'[q].key = None
                      ELSE req'[q].key \in Keys /\ req'[q].dev \in Devices
  BY <1>1 DEF Typed, Locals
<1>4. req' \in [Reqs -> Records] BY <1>1 DEF Locals
<1> QED BY <1>2, <1>3, <1>4, QuietCounters DEF Typed

LEMMA QuietCounts ==
  ASSUME IInv, NEW r \in Reqs, Quiet(r) PROVE CountedBefore' /\ ValuesDiffer'
<1>1. Typed /\ CountedBefore /\ ValuesDiffer BY DEF IInv
<1>2. \A q \in Reqs : req'[q].nth = req[q].nth /\ req'[q].failEpoch = req[q].failEpoch
  BY <1>1, QuietLocals DEF Locals
<1>3. \/ fails' >= fails /\ epoch'[None] = epoch[None]
      \/ fails' = 0 /\ epoch'[None] = epoch[None] + 1
  BY <1>1, QuietCounters
<1>4. fails \in Nat /\ fails' \in Nat /\ epoch[None] \in Nat
  BY <1>1, QuietCounters DEF Typed
<1>5. \A q \in Reqs : req[q].nth \in Nat /\ req[q].failEpoch \in Nat
  BY <1>1 DEF Typed, Records
<1>6. CountedBefore' BY <1>1, <1>2, <1>3, <1>4, <1>5 DEF CountedBefore
<1>7. ValuesDiffer' BY <1>1, <1>2 DEF ValuesDiffer
<1> QED BY <1>6, <1>7

(* The set of those let through grows by nobody.                           *)
LEMMA ThroughFinite == ASSUME NEW d, NEW e PROVE IsFiniteSet(Through(d, e))
BY FS_Subset DEF Through

(* Letting nobody through keeps the bound, whatever becomes of a counter.  *)
LEMMA AttemptsKept ==
  ASSUME Typed, AttemptsCounted, NEW d \in Devices, NEW e \in Nat,
         Through(d, e)' \subseteq Through(d, e), attempts'[d] \in Nat,
         \/ attempts'[d] >= attempts[d] /\ epoch'[d] = epoch[d]
         \/ attempts'[d] = 0 /\ epoch'[d] = epoch[d] + 1
  PROVE  /\ Cardinality(Through(d, e)') <= MaxAttempts
         /\ e = epoch'[d] => Cardinality(Through(d, e)') <= attempts'[d]
         /\ e > epoch'[d] => Through(d, e)' = {}
<1>1. /\ Cardinality(Through(d, e)') <= Cardinality(Through(d, e))
      /\ Cardinality(Through(d, e)') \in Nat /\ Cardinality(Through(d, e)) \in Nat
  BY ThroughFinite, FS_Subset, FS_CardinalityType
<1>2. /\ Cardinality(Through(d, e)) <= MaxAttempts
      /\ e = epoch[d] => Cardinality(Through(d, e)) <= attempts[d]
      /\ e > epoch[d] => Through(d, e) = {}
  BY DEF AttemptsCounted
<1>3. attempts[d] \in Nat /\ epoch[d] \in Nat BY DEF Typed
<1>4. Through(d, e) = {} => Through(d, e)' = {} /\ Cardinality(Through(d, e)') = 0
  BY FS_EmptySet
<1> HIDE DEF Through
<1> QED BY <1>1, <1>2, <1>3, <1>4

LEMMA QuietAttempts ==
  ASSUME IInv, NEW r \in Reqs, Quiet(r) PROVE AttemptsCounted'
<1>1. Typed /\ AttemptsCounted BY DEF IInv
<1>2. Locals(r) BY <1>1, QuietLocals
<1>3. \A d, e : Through(d, e)' \subseteq Through(d, e) BY <1>2 DEF Locals, Through
<1>4. ASSUME NEW d \in Devices
      PROVE  /\ attempts'[d] \in Nat
             /\ \/ attempts'[d] >= attempts[d] /\ epoch'[d] = epoch[d]
                \/ attempts'[d] = 0 /\ epoch'[d] = epoch[d] + 1
  BY <1>1, QuietCounters
<1> QED BY <1>1, <1>3, <1>4, AttemptsKept DEF AttemptsCounted

LEMMA QuietJudged ==
  ASSUME IInv, NEW r \in Reqs, Quiet(r) PROVE Judged'
<1>1. Typed /\ JudgedWell(r) /\ req[r] \in Records BY DEF IInv, Judged, Typed
<1>2. Locals(r) BY <1>1, QuietLocals
<1>a. req[r].nth \in Nat /\ Threshold \in Nat BY <1>1 DEF Records
<1>b. {"SUCCESS", "LOCKED", "FAILURE"} \subseteq Outcome BY DEF Outcome
<1> USE DEF JudgedWell
<1>3. ASSUME CountAttemptLost(r) \/ Post(r) \/ CountWrongLost(r) PROVE JudgedWell(r)'
  <2>1. PICK pc \in {"reattempt", "queued", "refused", "reincr"} : Goto(r, pc)
    BY <1>3 DEF CountAttemptLost, Post, CountWrongLost
  <2>2. req[r].pc \in {"attempt", "post", "incr"}
    BY <1>3 DEF CountAttemptLost, Post, CountWrongLost
  <2> QED BY <1>1, <2>1, <2>2, MoveOn
<1>4. ASSUME Verify(r) PROVE JudgedWell(r)'
  <2>1. req[r].pc = "queued" BY <1>4 DEF Verify
  <2> QED BY <1>1, <1>4, <2>1, MoveRight
<1>5. ASSUME LoadFails(r) PROVE JudgedWell(r)'
  <2>1. req[r].pc = "queued" BY <1>5 DEF LoadFails
  <2>2. CASE req[r].tries < MaxRetries
    BY <1>1, <1>5, <2>1, <2>2, TryAgain
  <2>3. CASE ~(req[r].tries < MaxRetries)
    <3>1. req' = [req EXCEPT ![r].pc = "settled", ![r].out = "FAILURE"]
      BY <1>5, <2>3 DEF LoadFails, Settle
    <3> QED BY <1>1, <1>b, <2>1, <3>1, MoveOut DEF Posted
  <2> QED BY <2>2, <2>3
<1>6. ASSUME AddDevice(r) \/ ClearFails(r) \/ ClearAttempts(r) PROVE JudgedWell(r)'
  <2>1. CASE AddDevice(r)
    <3>1. Goto(r, "count") /\ req[r].pc = "device" BY <2>1 DEF AddDevice
    <3> QED BY <1>1, <3>1, MoveOn
  <2>2. CASE ClearFails(r) \/ ClearAttempts(r)
    <3>1. PICK pc \in {"attempts", "devices"} : Goto(r, pc) BY <2>2 DEF ClearFails, ClearAttempts
    <3>2. req[r].pc \in {"fails", "attempts"} BY <2>2 DEF ClearFails, ClearAttempts
    <3> QED BY <1>1, <3>1, <3>2, MoveOn
  <2> QED BY <1>6, <2>1, <2>2
<1>7. ASSUME JudgeWrong(r) PROVE JudgedWell(r)'
  <2>1. PICK out \in {"LOCKED", "SUCCESS"} :
          /\ req' = [req EXCEPT ![r].pc = "mark", ![r].out = out]
          /\ out = "SUCCESS" => ~(req[r].nth >= Threshold)
    BY <1>7 DEF JudgeWrong
  <2>2. req[r].pc = "count" /\ req[r].pc \in Posted BY <1>7 DEF JudgeWrong, Posted
  <2>3. req'[r].pc = "mark" /\ req'[r].out = out /\ req'[r].nth = req[r].nth
    BY <1>1, <1>b, <2>1, <2>2, MoveOut
  <2>4. req[r].nth > 0 BY <1>1, <2>2
  <2>5. out = "SUCCESS" => req[r].nth \in 1 .. (Threshold - 1)
    <3> HIDE DEF JudgedWell
    <3> QED BY <1>a, <2>1, <2>4
  <2> QED BY <2>3, <2>5
<1>8. ASSUME TooManyDevices(r) \/ Raise(r) PROVE JudgedWell(r)'
  <2>1. req' = [req EXCEPT ![r].pc = "settled", ![r].out = "FAILURE"] /\ req[r].pc \in Posted
    BY <1>8 DEF TooManyDevices, Raise, Working, Settle, Posted
  <2> QED BY <1>1, <1>b, <2>1, MoveOut
<1>9. ASSUME ClearDevices(r) PROVE JudgedWell(r)'
  <2>1. /\ req' = [req EXCEPT ![r].pc = "mark", ![r].out = "SUCCESS"]
        /\ req[r].pc = "devices" /\ req[r].pc \in Posted
    BY <1>9 DEF ClearDevices, Posted
  <2>2. /\ req'[r].pc = "mark" /\ req'[r].out = "SUCCESS" /\ req'[r].right = req[r].right
    BY <1>1, <1>b, <2>1, MoveOut
  <2>3. req[r].right BY <1>1, <2>1
  <2> QED BY <2>2, <2>3
<1>10. ASSUME Mark(r) \/ Die(r) PROVE JudgedWell(r)'
  <2>1. PICK pc \in {"settled", "dead"} : Goto(r, pc) BY <1>10 DEF Mark, Die
  <2> QED BY <1>1, <2>1, MoveOn
<1>11. JudgedWell(r)'
  BY <1>3, <1>4, <1>5, <1>6, <1>7, <1>8, <1>9, <1>10 DEF Quiet
<1>12. \A q \in Reqs \ {r} : JudgedWell(q)'
  BY <1>2 DEF Locals, IInv, Judged
<1> QED BY <1>11, <1>12 DEF Judged

LEMMA QuietKeys ==
  ASSUME IInv, NEW r \in Reqs, Quiet(r) PROVE KeyTellsOutcome'
<1>1. Typed /\ KeyTellsOutcome BY DEF IInv
<1>2. Locals(r) BY <1>1, QuietLocals
<1>3. \A q \in Reqs : req'[q].key = req[q].key BY <1>2 DEF Locals
<1>4. \A k \in Keys \ {req[r].key} : idem'[k] = idem[k]
  BY <1>1 DEF Typed, Quiet, CountAttemptLost, Post, Verify, LoadFails, CountWrongLost, AddDevice,
          JudgeWrong, TooManyDevices, ClearFails, ClearAttempts, ClearDevices, Mark, Raise, Die
<1>5. req'[r].pc = "settled" /\ req'[r].out \in {"SUCCESS", "LOCKED"} => Mark(r)
  <2>1. ASSUME CountAttemptLost(r) \/ Post(r) \/ CountWrongLost(r) \/ AddDevice(r)
               \/ ClearFails(r) \/ ClearAttempts(r) \/ Die(r)
        PROVE  req'[r].pc # "settled"
    <3>1. PICK pc \in {"reattempt", "queued", "refused", "reincr", "count", "attempts", "devices",
                       "dead"} : Goto(r, pc)
      BY <2>1 DEF CountAttemptLost, Post, CountWrongLost, AddDevice, ClearFails, ClearAttempts, Die
    <3> QED BY <1>1, <3>1, MoveOn
  <2>2. ASSUME Verify(r) PROVE req'[r].pc # "settled" BY <1>1, <2>2, MoveRight
  <2>3. "FAILURE" \in Outcome /\ "SUCCESS" \in Outcome /\ "LOCKED" \in Outcome BY DEF Outcome
  <2>4. ASSUME LoadFails(r) PROVE req'[r].pc # "settled" \/ req'[r].out = "FAILURE"
    <3>1. CASE req[r].tries < MaxRetries BY <1>1, <2>4, <3>1, TryAgain
    <3>2. CASE ~(req[r].tries < MaxRetries)
      <4>1. /\ req' = [req EXCEPT ![r].pc = "settled", ![r].out = "FAILURE"]
            /\ req[r].pc \in Posted
        BY <2>4, <3>2 DEF LoadFails, Settle, Posted
      <4> QED BY <1>1, <2>3, <4>1, MoveOut
    <3> QED BY <3>1, <3>2
  <2>5. ASSUME JudgeWrong(r) \/ ClearDevices(r) PROVE req'[r].pc # "settled"
    <3>1. PICK out \in {"LOCKED", "SUCCESS"} : req' = [req EXCEPT ![r].pc = "mark", ![r].out = out]
      BY <2>5 DEF JudgeWrong, ClearDevices
    <3>2. req[r].pc \in Posted BY <2>5 DEF JudgeWrong, ClearDevices, Posted
    <3> QED BY <1>1, <2>3, <3>1, <3>2, MoveOut
  <2>6. ASSUME TooManyDevices(r) \/ Raise(r) PROVE req'[r].out = "FAILURE"
    <3>1. req' = [req EXCEPT ![r].pc = "settled", ![r].out = "FAILURE"] /\ req[r].pc \in Posted
      BY <2>6 DEF TooManyDevices, Raise, Working, Settle, Posted
    <3> QED BY <1>1, <2>3, <3>1, MoveOut
  <2> QED BY <2>1, <2>2, <2>4, <2>5, <2>6 DEF Quiet
<1> SUFFICES ASSUME NEW q \in Reqs, req'[q].pc = "settled", req'[q].out \in {"SUCCESS", "LOCKED"},
                    \A p \in Reqs \ {q} : req'[p].key # req'[q].key, idem'[req'[q].key] # None
             PROVE  idem'[req'[q].key] = Marker(req'[q].out)
  BY DEF KeyTellsOutcome, Marker
<1>6. CASE q = r
  <2>1. Mark(r) /\ req[r].key \in Keys BY <1>1, <1>2, <1>5, <1>6 DEF Typed, Locals
  <2>2. req'[r].out = req[r].out BY <1>1, <2>1 DEF Mark, Goto, Typed
  <2>3. idem' = [idem EXCEPT ![req[r].key] = Marker(req[r].out)] BY <2>1 DEF Mark
  <2> QED BY <1>1, <1>3, <1>6, <2>1, <2>2, <2>3 DEF Typed
<1>7. CASE q # r
  <2>1. req'[q] = req[q] BY <1>2, <1>7 DEF Locals
  <2>2. req[q].key \in Keys /\ req[r].key # req[q].key
    BY <1>1, <1>3, <1>7, <2>1 DEF Typed
  <2>3. idem'[req[q].key] = idem[req[q].key] BY <1>4, <2>2
  <2> QED BY <1>1, <1>3, <2>1, <2>3 DEF KeyTellsOutcome
<1> QED BY <1>6, <1>7

-----------------------------------------------------------------------------
(* The other steps *)

(* The key of a request that has returned is its own until somebody claims *)
(* it, so what others write is another key.                                *)
LEMMA KeysKept ==
  ASSUME Typed, KeyTellsOutcome, NEW r \in Reqs,
         \A q \in Reqs \ {r} : req'[q] = req[q],
         req[r].pc = "idle" \/ req'[r].key = req[r].key, req'[r].pc # "settled",
         \A k \in Keys : idem'[k] = idem[k] \/ idem'[k] = None \/ k = req'[r].key
  PROVE  KeyTellsOutcome'
<1> SUFFICES ASSUME NEW q \in Reqs, req'[q].pc = "settled", req'[q].out \in {"SUCCESS", "LOCKED"},
                    \A p \in Reqs \ {q} : req'[p].key # req'[q].key, idem'[req'[q].key] # None
             PROVE  idem'[req'[q].key] = Marker(req'[q].out)
  BY DEF KeyTellsOutcome, Marker
<1>1. q # r /\ req'[q] = req[q] OBVIOUS
<1>2. req[q].key \in Keys BY <1>1 DEF Typed
<1>3. req[r].key # req[q].key BY <1>1, <1>2 DEF Typed
<1>4. idem'[req[q].key] = idem[req[q].key] BY <1>1, <1>2
<1>5. \A p \in Reqs \ {q} : req[p].key # req[q].key BY <1>1, <1>3
<1> QED BY <1>1, <1>4, <1>5 DEF KeyTellsOutcome

LEMMA ClaimInv ==
  ASSUME IInv, NEW r \in Reqs, NEW k \in Keys, NEW d \in Devices, Claim(r, k, d) PROVE IInv'
<1> USE DEF IInv
<1> DEFINE new == [IdleReq EXCEPT !.pc = "attempt", !.key = k, !.dev = d]
<1>1. /\ new \in Records /\ new.pc = "attempt" /\ new.key = k /\ new.dev = d /\ new.nth = 0
      /\ new.out = None
  BY DEF IdleReq, Records, Outcome
<1>2. /\ req' = [req EXCEPT ![r] = new] /\ idem' = [idem EXCEPT ![k] = "processing"]
      /\ UNCHANGED <<fails, attempts, epoch>> /\ req[r].pc = "idle"
  BY DEF Claim
<1> HIDE DEF new
<1>3. req'[r] = new /\ \A q \in Reqs \ {r} : req'[q] = req[q] BY <1>2 DEF Typed
<1>4. Typed' BY <1>1, <1>2 DEF Typed
<1>5. CountedBefore' /\ ValuesDiffer' BY <1>1, <1>2, <1>3 DEF CountedBefore, ValuesDiffer
<1>6. JudgedWell(r)' BY <1>1, <1>3 DEF JudgedWell
<1>7. Judged' BY <1>3, <1>6 DEF Judged, JudgedWell
<1>8. \A x, e : Through(x, e)' \subseteq Through(x, e) BY <1>1, <1>3 DEF Through, Posted
<1>9. ASSUME NEW x \in Devices
      PROVE attempts'[x] \in Nat /\ attempts'[x] >= attempts[x] /\ epoch'[x] = epoch[x]
  BY <1>2 DEF Typed
<1>10. AttemptsCounted' BY <1>8, <1>9, AttemptsKept DEF AttemptsCounted
<1>11. \A j \in Keys : idem'[j] = idem[j] \/ j = req'[r].key BY <1>1, <1>2, <1>3 DEF Typed
<1>12. KeyTellsOutcome' BY <1>1, <1>2, <1>3, <1>11, KeysKept
<1> QED BY <1>4, <1>5, <1>7, <1>10, <1>12

LEMMA CountAttemptInv ==
  ASSUME IInv, NEW r \in Reqs, CountAttempt(r) PROVE IInv'
<1> USE DEF IInv
<1> DEFINE d == req[r].dev
<1>1. PICK pc \in {"refused", "post"} :
        /\ req' = [req EXCEPT ![r].pc = pc, ![r].tryEpoch = epoch[d]]
        /\ pc = "post" => ~(attempts[d] + 1 > MaxAttempts)
  BY DEF CountAttempt
<1>2. /\ req[r] \in Records /\ d \in Devices /\ req[r].pc \in {"attempt", "reattempt"}
      /\ epoch[d] \in Nat /\ attempts[d] \in Nat
  BY DEF Typed, CountAttempt
<1>3. attempts' = [attempts EXCEPT ![d] = @ + 1] /\ UNCHANGED <<idem, fails, epoch>>
  BY DEF CountAttempt
<1> DEFINE new == [[req[r] EXCEPT !.pc = pc] EXCEPT !.tryEpoch = epoch[d]]
<1>4. /\ new \in Records /\ new.pc = pc /\ new.key = req[r].key /\ new.dev = d
      /\ new.nth = req[r].nth /\ new.failEpoch = req[r].failEpoch /\ new.out = req[r].out
      /\ new.tryEpoch = epoch[d]
  BY <1>2 DEF Records
<1>5. req'[r] = new /\ \A q \in Reqs \ {r} : req'[q] = req[q] BY <1>1, <1>2 DEF Typed
<1>6. DOMAIN req' = Reqs /\ req' = [q \in Reqs |-> req'[q]] BY <1>1 DEF Typed
<1> HIDE DEF new, d
<1>7. Typed'
  <2>1. \A q \in Reqs : req'[q] \in Records BY <1>4, <1>5 DEF Typed
  <2>2. req' \in [Reqs -> Records] BY <2>1, <1>6
  <2>3. attempts' \in [Devices -> Nat] BY <1>2, <1>3 DEF Typed
  <2>4. \A q \in Reqs : IF req'[q].pc = "idle" THEN req'[q].key = None
                        ELSE req'[q].key \in Keys /\ req'[q].dev \in Devices
    BY <1>2, <1>4, <1>5 DEF Typed
  <2> QED BY <1>3, <2>2, <2>3, <2>4 DEF Typed
<1>8. \A q \in Reqs : req'[q].nth = req[q].nth /\ req'[q].failEpoch = req[q].failEpoch
  BY <1>4, <1>5
<1>9. CountedBefore' /\ ValuesDiffer' BY <1>3, <1>8 DEF CountedBefore, ValuesDiffer
<1>10. JudgedWell(r)' BY <1>2, <1>4, <1>5 DEF Judged, JudgedWell
<1>11. Judged' BY <1>5, <1>10 DEF Judged, JudgedWell
<1>12. AttemptsCounted'
  <2> SUFFICES ASSUME NEW x \in Devices, NEW e \in Nat
               PROVE  /\ Cardinality(Through(x, e)') <= MaxAttempts
                      /\ e = epoch'[x] => Cardinality(Through(x, e)') <= attempts'[x]
                      /\ e > epoch'[x] => Through(x, e)' = {}
    BY DEF AttemptsCounted
  <2>1. /\ attempts'[x] \in Nat /\ attempts'[x] >= attempts[x] /\ epoch'[x] = epoch[x]
        /\ x = d => attempts'[x] = attempts[x] + 1
    BY <1>2, <1>3 DEF Typed
  <2>2. CASE x = d /\ e = epoch[d] /\ pc = "post"
    <3>1. Through(x, e)' \subseteq Through(x, e) \cup {r} BY <1>4, <1>5 DEF Through
    <3>2. r \notin Through(x, e) BY <1>2 DEF Through, Posted
    <3>3. /\ IsFiniteSet(Through(x, e) \cup {r})
          /\ Cardinality(Through(x, e) \cup {r}) = Cardinality(Through(x, e)) + 1
      BY <3>2, ThroughFinite, FS_AddElement
    <3>4. Cardinality(Through(x, e)') <= Cardinality(Through(x, e)) + 1
      BY <3>1, <3>3, FS_Subset
    <3>5. Cardinality(Through(x, e)) <= attempts[x] BY <2>2 DEF AttemptsCounted
    <3>6. Cardinality(Through(x, e)) \in Nat /\ Cardinality(Through(x, e)') \in Nat
      BY <3>1, <3>3, ThroughFinite, FS_Subset, FS_CardinalityType
    <3> HIDE DEF Through
    <3> QED BY <1>1, <1>2, <2>1, <2>2, <3>4, <3>5, <3>6
  <2>3. CASE ~(x = d /\ e = epoch[d] /\ pc = "post")
    <3>1. r \notin Through(x, e)'
      <4>1. CASE pc = "post"
        <5>1. req'[r].dev = d /\ req'[r].tryEpoch = epoch[d] BY <1>4, <1>5
        <5> QED BY <2>3, <4>1, <5>1 DEF Through
      <4>2. CASE pc = "refused"
        <5>1. req'[r].pc \notin Posted BY <1>4, <1>5, <4>2 DEF Posted
        <5> QED BY <5>1 DEF Through
      <4> QED BY <1>1, <4>1, <4>2
    <3>2. Through(x, e)' \subseteq Through(x, e) BY <1>5, <3>1 DEF Through
    <3> QED BY <2>1, <3>2, AttemptsKept
  <2> QED BY <2>2, <2>3
<1>13. KeyTellsOutcome'
  <2>1. \A k \in Keys : idem'[k] = idem[k] BY <1>3
  <2> QED BY <1>1, <1>4, <1>5, <2>1, KeysKept
<1> QED BY <1>7, <1>9, <1>11, <1>12, <1>13

(* The INCR that counts a wrong code hands out a value of its own.         *)
LEMMA CountWrongInv ==
  ASSUME IInv, NEW r \in Reqs, CountWrong(r) PROVE IInv'
<1>1. Typed /\ CountedBefore /\ ValuesDiffer /\ Judged /\ AttemptsCounted /\ KeyTellsOutcome
  BY DEF IInv
<1>2. /\ req' = [req EXCEPT ![r].pc = "device", ![r].nth = fails + 1, ![r].failEpoch = epoch[None]]
      /\ fails' = fails + 1 /\ UNCHANGED <<idem, attempts, epoch>>
      /\ req[r].pc \in {"incr", "reincr"}
  BY DEF CountWrong
<1>3. req[r] \in Records /\ fails \in Nat /\ epoch[None] \in Nat BY <1>1 DEF Typed
<1> DEFINE moved == [req[r] EXCEPT !.pc = "device"]
           counted == [moved EXCEPT !.nth = fails + 1]
           new == [counted EXCEPT !.failEpoch = epoch[None]]
<1>a. /\ moved \in Records /\ moved.pc = "device" /\ moved.key = req[r].key
      /\ moved.dev = req[r].dev /\ moved.out = req[r].out /\ moved.tryEpoch = req[r].tryEpoch
  BY <1>3 DEF Records
<1>4. /\ new \in Records /\ new.pc = "device" /\ new.key = req[r].key /\ new.dev = req[r].dev
      /\ new.nth = fails + 1 /\ new.failEpoch = epoch[None] /\ new.out = req[r].out
      /\ new.tryEpoch = req[r].tryEpoch
  <2> HIDE DEF moved
  <2>1. fails + 1 \in Nat BY <1>3
  <2>2. /\ counted \in Records /\ counted.pc = moved.pc /\ counted.key = moved.key
        /\ counted.dev = moved.dev /\ counted.nth = fails + 1 /\ counted.out = moved.out
        /\ counted.tryEpoch = moved.tryEpoch
    BY <1>a, <2>1 DEF Records
  <2> HIDE DEF counted
  <2>3. /\ new \in Records /\ new.pc = counted.pc /\ new.key = counted.key
        /\ new.dev = counted.dev /\ new.nth = counted.nth /\ new.failEpoch = epoch[None]
        /\ new.out = counted.out /\ new.tryEpoch = counted.tryEpoch
    BY <1>3, <2>2 DEF Records
  <2> QED BY <1>a, <2>2, <2>3
<1>5. req'[r] = new /\ \A q \in Reqs \ {r} : req'[q] = req[q] BY <1>1, <1>2 DEF Typed
<1>6. DOMAIN req' = Reqs /\ req' = [q \in Reqs |-> req'[q]] BY <1>1, <1>2 DEF Typed
<1> HIDE DEF new
<1>7. Typed'
  <2>1. \A q \in Reqs : req'[q] \in Records BY <1>1, <1>4, <1>5 DEF Typed
  <2>2. req' \in [Reqs -> Records] BY <1>6, <2>1
  <2>3. \A q \in Reqs : IF req'[q].pc = "idle" THEN req'[q].key = None
                        ELSE req'[q].key \in Keys /\ req'[q].dev \in Devices
    BY <1>1, <1>2, <1>4, <1>5 DEF Typed
  <2> QED BY <1>1, <1>2, <1>3, <2>2, <2>3 DEF Typed
<1>8. \A q \in Reqs \ {r} : /\ req[q].nth > 0 /\ req[q].failEpoch = epoch[None]
                            => req[q].nth <= fails
  BY <1>1 DEF CountedBefore
<1>9. \A q \in Reqs : req[q].nth \in Nat /\ req[q].failEpoch \in Nat
  BY <1>1 DEF Typed, Records
<1>10. CountedBefore'
  <2> SUFFICES ASSUME NEW q \in Reqs, req'[q].nth > 0
               PROVE  /\ req'[q].failEpoch <= epoch'[None]
                      /\ req'[q].failEpoch = epoch'[None] => req'[q].nth <= fails'
    BY DEF CountedBefore
  <2>1. CASE q = r BY <1>2, <1>3, <1>4, <1>5, <2>1
  <2>2. CASE q # r
    <3>1. req'[q] = req[q] BY <1>5, <2>2
    <3> QED BY <1>1, <1>2, <1>3, <1>9, <3>1 DEF CountedBefore
  <2> QED BY <2>1, <2>2
<1>11. ValuesDiffer'
  <2> SUFFICES ASSUME NEW p \in Reqs, NEW q \in Reqs, p # q, req'[p].nth > 0, req'[q].nth > 0,
                      req'[p].failEpoch = req'[q].failEpoch
               PROVE  req'[p].nth # req'[q].nth
    BY DEF ValuesDiffer
  <2>1. CASE p # r /\ q # r
    <3>1. req'[p] = req[p] /\ req'[q] = req[q] BY <1>5, <2>1
    <3> QED BY <1>1, <3>1 DEF ValuesDiffer
  <2>2. CASE p = r
    <3>1. req'[q] = req[q] /\ req'[p].nth = fails + 1 /\ req'[p].failEpoch = epoch[None]
      BY <1>4, <1>5, <2>2
    <3>2. req[q].nth <= fails BY <1>8, <2>2, <3>1
    <3> QED BY <1>3, <1>9, <3>1, <3>2
  <2>3. CASE q = r
    <3>1. req'[p] = req[p] /\ req'[q].nth = fails + 1 /\ req'[q].failEpoch = epoch[None]
      BY <1>4, <1>5, <2>3
    <3>2. req[p].nth <= fails BY <1>8, <2>3, <3>1
    <3> QED BY <1>3, <1>9, <3>1, <3>2
  <2> QED BY <2>1, <2>2, <2>3
<1>12. Judged'
  <2>1. req[r].out = None BY <1>1, <1>2 DEF Judged, JudgedWell
  <2>2. JudgedWell(r)' BY <1>3, <1>4, <1>5, <2>1 DEF JudgedWell
  <2>3. \A q \in Reqs \ {r} : JudgedWell(q)' BY <1>1, <1>5 DEF Judged, JudgedWell
  <2> QED BY <2>2, <2>3 DEF Judged
<1>13. AttemptsCounted'
  <2>0. req[r].pc \in Posted BY <1>2 DEF Posted
  <2>1. \A x, e : Through(x, e)' \subseteq Through(x, e)
    BY <1>4, <1>5, <2>0 DEF Through
  <2>2. ASSUME NEW x \in Devices
        PROVE attempts'[x] \in Nat /\ attempts'[x] >= attempts[x] /\ epoch'[x] = epoch[x]
    BY <1>1, <1>2 DEF Typed
  <2> QED BY <1>1, <2>1, <2>2, AttemptsKept DEF AttemptsCounted
<1>14. KeyTellsOutcome' BY <1>1, <1>2, <1>4, <1>5, KeysKept
<1> QED BY <1>7, <1>10, <1>11, <1>12, <1>13, <1>14 DEF IInv

(* Expiries and the clearing of counters.                                  *)
LEMMA TimeInv ==
  ASSUME IInv,
         \/ \E k \in Keys : ExpireKey(k)
         \/ ExpireFails \/ ExpireDevices \/ \E d \in Devices : ExpireAttempts(d)
  PROVE  IInv'
<1>1. Typed /\ CountedBefore /\ ValuesDiffer /\ Judged /\ AttemptsCounted /\ KeyTellsOutcome
  BY DEF IInv
<1>2. req' = req BY DEF ExpireKey, ExpireFails, ExpireDevices, ExpireAttempts
<1>3. ValuesDiffer' /\ Judged' BY <1>1, <1>2 DEF ValuesDiffer, Judged, JudgedWell
<1>4. \A x, e : Through(x, e)' = Through(x, e) BY <1>2 DEF Through
<1>5. CASE \E k \in Keys : ExpireKey(k)
  <2>1. PICK k \in Keys : ExpireKey(k) BY <1>5
  <2>2. idem' = [idem EXCEPT ![k] = None] /\ UNCHANGED <<fails, attempts, epoch>>
    BY <2>1 DEF ExpireKey
  <2>3. Typed' BY <1>1, <1>2, <2>2 DEF Typed
  <2>4. CountedBefore' /\ AttemptsCounted'
    BY <1>1, <1>2, <1>4, <2>2 DEF CountedBefore, AttemptsCounted
  <2>5. \A j \in Keys : idem'[j] = idem[j] \/ idem'[j] = None BY <1>1, <2>2 DEF Typed
  <2>6. KeyTellsOutcome'
    <3> SUFFICES ASSUME NEW q \in Reqs, req[q].pc = "settled", req[q].out \in {"SUCCESS", "LOCKED"},
                        \A p \in Reqs \ {q} : req[p].key # req[q].key, idem'[req[q].key] # None
                 PROVE  idem'[req[q].key] = Marker(req[q].out)
      BY <1>2 DEF KeyTellsOutcome, Marker
    <3>1. req[q].key \in Keys BY <1>1 DEF Typed
    <3>2. idem'[req[q].key] = idem[req[q].key] BY <2>5, <3>1
    <3> QED BY <1>1, <3>2 DEF KeyTellsOutcome
  <2> QED BY <1>3, <2>3, <2>4, <2>6 DEF IInv
<1>6. CASE ExpireFails
  <2>1. fails' = 0 /\ epoch' = [epoch EXCEPT ![None] = @ + 1] /\ UNCHANGED <<idem, attempts>>
    BY <1>6 DEF ExpireFails
  <2>2. epoch'[None] = epoch[None] + 1 /\ \A x \in Devices : epoch'[x] = epoch[x]
    BY <1>1, <2>1 DEF Typed
  <2>3. Typed' BY <1>1, <1>2, <2>1 DEF Typed
  <2>4. CountedBefore'
    <3>1. \A q \in Reqs : req[q].failEpoch \in Nat BY <1>1 DEF Typed, Records
    <3>2. epoch[None] \in Nat BY <1>1 DEF Typed
    <3> QED BY <1>1, <1>2, <2>2, <3>1, <3>2 DEF CountedBefore
  <2>5. AttemptsCounted' BY <1>1, <1>4, <2>1, <2>2 DEF AttemptsCounted
  <2>6. KeyTellsOutcome' BY <1>1, <1>2, <2>1 DEF KeyTellsOutcome, Marker
  <2> QED BY <1>3, <2>3, <2>4, <2>5, <2>6 DEF IInv
<1>7. CASE ExpireDevices
  <2>1. UNCHANGED <<idem, fails, attempts, epoch>> BY <1>7 DEF ExpireDevices
  <2> QED BY <1>1, <1>2, <1>3, <1>4, <2>1
          DEF IInv, Typed, CountedBefore, AttemptsCounted, KeyTellsOutcome, Marker
<1>8. CASE \E d \in Devices : ExpireAttempts(d)
  <2>1. PICK d \in Devices : ExpireAttempts(d) BY <1>8
  <2>2. /\ attempts' = [attempts EXCEPT ![d] = 0] /\ epoch' = [epoch EXCEPT ![d] = @ + 1]
        /\ UNCHANGED <<idem, fails>>
    BY <2>1 DEF ExpireAttempts
  <2>3. Typed' BY <1>1, <1>2, <2>2 DEF Typed
  <2>4. epoch'[None] = epoch[None] BY <1>1, <2>2 DEF Typed
  <2>5. CountedBefore' /\ KeyTellsOutcome'
    BY <1>1, <1>2, <2>2, <2>4 DEF CountedBefore, KeyTellsOutcome, Marker
  <2>6. ASSUME NEW x \in Devices
        PROVE  /\ attempts'[x] \in Nat
               /\ \/ attempts'[x] >= attempts[x] /\ epoch'[x] = epoch[x]
                  \/ attempts'[x] = 0 /\ epoch'[x] = epoch[x] + 1
    BY <1>1, <2>2 DEF Typed
  <2>7. AttemptsCounted' BY <1>1, <1>4, <2>6, AttemptsKept DEF AttemptsCounted
  <2> QED BY <1>3, <2>3, <2>5, <2>7 DEF IInv
<1> QED BY <1>5, <1>6, <1>7, <1>8

(* Every step keeps the invariant.                                         *)
LEMMA StepInv == IInv /\ [Next]_vars => IInv'
<1> SUFFICES ASSUME IInv, [Next]_vars PROVE IInv' OBVIOUS
<1>1. ASSUME NEW r \in Reqs, Quiet(r) PROVE IInv'
  <2>1. Typed BY DEF IInv
  <2> QED BY <1>1, <2>1, QuietTyped, QuietCounts, QuietAttempts, QuietJudged, QuietKeys DEF IInv
<1>2. CASE UNCHANGED vars
  BY <1>2 DEF vars, IInv, Typed, CountedBefore, ValuesDiffer, Judged, JudgedWell,
              AttemptsCounted, Through, KeyTellsOutcome, Marker
<1>3. CASE Next
  BY <1>1, <1>3, ClaimInv, CountAttemptInv, CountWrongInv, TimeInv DEF Next, Quiet
<1> QED BY <1>2, <1>3

(* The invariant holds in every reachable state.                           *)
THEOREM Invariant == Spec => []IInv
BY InitInv, StepInv, PTL DEF Spec

-----------------------------------------------------------------------------
(* mfa_service.verify_mfa: however many tasks count wrong codes at the     *)
(* same time, fewer than Threshold of them pass without LOCKED between two *)
(* clearings of mfa:fail. The values INCR returned tell those apart.       *)
THEOREM WrongCodesAreCapped == Spec => []WrongCodesCapped
<1> SUFFICES ASSUME IInv PROVE WrongCodesCapped
  BY Invariant, PTL
<1> SUFFICES ASSUME NEW e \in Epochs
             PROVE  Cardinality({r \in Reqs : req[r].out = "SUCCESS" /\ ~req[r].right
                                              /\ req[r].failEpoch = e}) < Threshold
  BY DEF WrongCodesCapped
<1> DEFINE S == {r \in Reqs : req[r].out = "SUCCESS" /\ ~req[r].right /\ req[r].failEpoch = e}
           nth == [r \in S |-> req[r].nth]
<1>1. \A r \in S : req[r].nth \in 1 .. (Threshold - 1)
  BY DEF IInv, Judged, JudgedWell
<1>2. \A r, q \in S : r # q => req[r].nth # req[q].nth
  BY <1>1 DEF IInv, ValuesDiffer
<1>3. nth \in Injection(S, 1 .. (Threshold - 1))
  BY <1>1, <1>2, Fun_IsInj
<1>4. IsFiniteSet(1 .. (Threshold - 1)) /\ Cardinality(1 .. (Threshold - 1)) = Threshold - 1
  BY FS_Interval
<1>5. IsFiniteSet(S) /\ Cardinality(S) <= Threshold - 1
  BY <1>3, <1>4, FS_Injection
<1>6. Cardinality(S) \in Nat BY <1>5, FS_CardinalityType
<1> QED BY <1>5, <1>6

(* mfa_router.verify_mfa_endpoint: at most MaxAttempts requests of a device *)
(* are let through between two clearings of mfa:fp_fail.                    *)
THEOREM AttemptsAreCapped == Spec => []AttemptsCapped
<1> SUFFICES ASSUME IInv PROVE AttemptsCapped
  BY Invariant, PTL
<1> SUFFICES ASSUME NEW d \in Devices, NEW e \in Epochs
             PROVE  Cardinality({r \in Reqs : /\ req[r].dev = d /\ req[r].tryEpoch = e
                                              /\ Working(r) \/ req[r].pc = "settled"})
                    <= MaxAttempts
  BY DEF AttemptsCapped
<1> DEFINE S == {r \in Reqs : /\ req[r].dev = d /\ req[r].tryEpoch = e
                              /\ Working(r) \/ req[r].pc = "settled"}
<1>1. S \subseteq Through(d, e) BY DEF Through, Posted, Working
<1>2. e \in Nat BY FS_CardinalityType DEF Epochs
<1>3. Cardinality(Through(d, e)) <= MaxAttempts BY <1>2 DEF IInv, AttemptsCounted
<1>4. /\ Cardinality(S) <= Cardinality(Through(d, e))
      /\ Cardinality(S) \in Nat /\ Cardinality(Through(d, e)) \in Nat
  BY <1>1, ThroughFinite, FS_Subset, FS_CardinalityType
<1> HIDE DEF S
<1>5. Cardinality(S) <= MaxAttempts BY <1>3, <1>4
<1> QED BY <1>5 DEF S

(* mfa_verify_task: the key of a task that returned tells its status.      *)
THEOREM KeysTellOutcomes == Spec => []KeyTellsOutcome
BY Invariant, PTL DEF IInv

-----------------------------------------------------------------------------
(* What bounds the counters *)

(* Requests past a place of the code; the places are those before an INCR, *)
(* before it is sent again, and before a counter is deleted.               *)
Past(place) == {r \in Reqs : req[r].pc \notin place}
ToAttempt == {"idle", "attempt"}
ToReattempt == ToAttempt \cup {"reattempt"}
ToTask == ToReattempt \cup {"post", "queued"}
ToIncr == ToTask \cup {"incr"}
ToReincr == ToIncr \cup {"reincr"}
ToFails == ToTask \cup {"fails"}
ToAttempts == ToFails \cup {"attempts"}
Places == {ToAttempt, ToReattempt, ToIncr, ToReincr, ToFails, ToAttempts}
Count(place) == Cardinality(Past(place))

(* Each request sends each INCR at most twice and deletes each counter at  *)
(* most once; a task is retried only so often.                             *)
Paid ==
    /\ fails <= Count(ToIncr) + Count(ToReincr)
    /\ \A d \in Devices : attempts[d] <= Count(ToAttempt) + Count(ToReattempt)
    /\ epoch[None] <= MaxEpochs + Count(ToFails)
    /\ \A d \in Devices : epoch[d] <= MaxEpochs + Count(ToAttempts)
    /\ fpset \subseteq Devices
    /\ \A r \in Reqs : req[r].tries <= MaxRetries
    /\ \A r \in Reqs : req[r].tryEpoch <= MaxEpochs + Cardinality(Reqs)
                       /\ req[r].failEpoch <= MaxEpochs + Cardinality(Reqs)

LEMMA Sizes ==
  ASSUME NEW place PROVE /\ Count(place) \in Nat /\ Cardinality(Reqs) \in Nat
                         /\ Count(place) <= Cardinality(Reqs)
<1>1. Past(place) \subseteq Reqs BY DEF Past
<1>2. /\ Cardinality(Past(place)) \in Nat /\ Cardinality(Reqs) \in Nat
      /\ Cardinality(Past(place)) <= Cardinality(Reqs)
  BY <1>1, FS_Subset, FS_CardinalityType
<1> QED BY <1>2 DEF Count

(* Who is past a place stays so; whoever passes it is one more.            *)
LEMMA CountGrows ==
  ASSUME NEW place, Past(place) \subseteq Past(place)'
  PROVE  /\ Count(place) \in Nat /\ Count(place)' \in Nat /\ Count(place) <= Count(place)'
         /\ \A r \in Reqs : req[r].pc \in place /\ req'[r].pc \notin place
                            => Count(place) + 1 <= Count(place)'
<1>1. Past(place) \subseteq Reqs /\ Past(place)' \subseteq Reqs BY DEF Past
<1>2. IsFiniteSet(Past(place)) /\ IsFiniteSet(Past(place)') BY <1>1, FS_Subset
<1>3. /\ Cardinality(Past(place)) \in Nat /\ Cardinality(Past(place)') \in Nat
      /\ Cardinality(Past(place)) <= Cardinality(Past(place)')
  BY <1>2, FS_Subset, FS_CardinalityType
<1>4. ASSUME NEW r \in Reqs, req[r].pc \in place, req'[r].pc \notin place
      PROVE  Cardinality(Past(place)) + 1 <= Cardinality(Past(place)')
  <2>1. r \notin Past(place) /\ r \in Past(place)' BY <1>4 DEF Past
  <2>2. Cardinality(Past(place) \cup {r}) = Cardinality(Past(place)) + 1
    BY <1>2, <2>1, FS_AddElement
  <2>3. Past(place) \cup {r} \subseteq Past(place)' BY <2>1
  <2>4. Cardinality(Past(place) \cup {r}) <= Cardinality(Past(place)')
    BY <1>2, <2>3, FS_Subset
  <2> QED BY <2>2, <2>4
<1> QED BY <1>3, <1>4 DEF Count

(* No step of a request leads back over a place.                           *)
Forward(r) == \A place \in Places : req'[r].pc \in place => req[r].pc \in place

LEMMA QuietForward ==
  ASSUME Typed, NEW r \in Reqs, Quiet(r), req[r].tries <= MaxRetries
  PROVE  Forward(r) /\ req'[r].tries <= MaxRetries
<1> USE DEF Forward, Places, ToAttempt, ToReattempt, ToTask, ToIncr, ToReincr, ToFails, ToAttempts
<1>a. {"SUCCESS", "LOCKED", "FAILURE"} \subseteq Outcome BY DEF Outcome
<1>1. CASE CountAttemptLost(r)
  <2>1. req[r].pc = "attempt" /\ Goto(r, "reattempt") BY <1>1 DEF CountAttemptLost
  <2> QED BY <2>1, MoveOn
<1>2. CASE Post(r)
  <2>1. PICK pc \in {"queued", "refused"} : req[r].pc = "post" /\ Goto(r, pc) BY <1>2 DEF Post
  <2> QED BY <2>1, MoveOn
<1>3. CASE CountWrongLost(r)
  <2>1. req[r].pc = "incr" /\ Goto(r, "reincr") BY <1>3 DEF CountWrongLost
  <2> QED BY <2>1, MoveOn
<1>4. CASE AddDevice(r)
  <2>1. req[r].pc = "device" /\ Goto(r, "count") BY <1>4 DEF AddDevice
  <2> QED BY <2>1, MoveOn
<1>5. CASE ClearFails(r)
  <2>1. req[r].pc = "fails" /\ Goto(r, "attempts") BY <1>5 DEF ClearFails
  <2> QED BY <2>1, MoveOn
<1>6. CASE ClearAttempts(r)
  <2>1. req[r].pc = "attempts" /\ Goto(r, "devices") BY <1>6 DEF ClearAttempts
  <2> QED BY <2>1, MoveOn
<1>7. CASE Mark(r) \/ Die(r)
  <2>1. PICK pc \in {"settled", "dead"} : Goto(r, pc) BY <1>7 DEF Mark, Die
  <2> QED BY <2>1, MoveOn
<1>8. CASE Verify(r)
  <2>1. req[r].pc = "queued" /\ req'[r].pc \in {"fails", "incr"} /\ req'[r].tries = req[r].tries
    BY <1>8, MoveRight DEF Verify
  <2> QED BY <2>1
<1>9. CASE LoadFails(r) /\ req[r].tries < MaxRetries
  <2>1. req[r].pc = "queued" /\ req'[r].pc = "queued" /\ req'[r].tries = req[r].tries + 1
    BY <1>9, TryAgain DEF LoadFails
  <2>2. req[r].tries \in Nat BY DEF Typed, Records
  <2> QED BY <1>9, <2>1, <2>2
<1>10. CASE \/ LoadFails(r) /\ ~(req[r].tries < MaxRetries)
            \/ JudgeWrong(r) \/ TooManyDevices(r) \/ ClearDevices(r) \/ Raise(r)
  <2>1. req[r].pc \in Posted
    BY <1>10 DEF LoadFails, JudgeWrong, TooManyDevices, ClearDevices, Raise, Working, Posted
  <2>2. PICK pc \in {"mark", "settled"}, out \in Outcome :
          req' = [req EXCEPT ![r].pc = pc, ![r].out = out]
    BY <1>10, <1>a DEF LoadFails, JudgeWrong, TooManyDevices, ClearDevices, Raise, Settle
  <2>3. req'[r].pc = pc /\ req'[r].tries = req[r].tries BY <2>1, <2>2, MoveOut
  <2> QED BY <2>3
<1> QED BY <1>1, <1>2, <1>3, <1>4, <1>5, <1>6, <1>7, <1>8, <1>9, <1>10 DEF Quiet

(* The steps of a request that are not quiet.                              *)
LEMMA LoudForward ==
  ASSUME Typed, NEW r \in Reqs, req[r].tries <= MaxRetries,
         \/ \E k \in Keys, d \in Devices : Claim(r, k, d)
         \/ CountAttempt(r) \/ CountWrong(r)
  PROVE  /\ Forward(r) /\ req'[r].tries <= MaxRetries
         /\ \A q \in Reqs \ {r} : req'[q] = req[q]
         /\ CountAttempt(r) => /\ req'[r].pc \notin ToReattempt
                               /\ req'[r].tryEpoch = epoch[req[r].dev]
                               /\ req'[r].failEpoch = req[r].failEpoch
         /\ CountWrong(r) => /\ req'[r].pc \notin ToReincr
                             /\ req'[r].failEpoch = epoch[None]
                             /\ req'[r].tryEpoch = req[r].tryEpoch
         /\ (\E k \in Keys, d \in Devices : Claim(r, k, d))
              => req'[r].tryEpoch = 0 /\ req'[r].failEpoch = 0
<1> USE DEF Forward, Places, ToAttempt, ToReattempt, ToTask, ToIncr, ToReincr, ToFails, ToAttempts
<1>1. req[r] \in Records BY DEF Typed
<1>2. CASE \E k \in Keys, d \in Devices : Claim(r, k, d)
  <2>1. PICK k \in Keys, d \in Devices : Claim(r, k, d) BY <1>2
  <2>2. req' = [req EXCEPT ![r] = [IdleReq EXCEPT !.pc = "attempt", !.key = k, !.dev = d]]
        /\ req[r].pc = "idle"
    BY <2>1 DEF Claim
  <2>3. /\ req'[r].pc = "attempt" /\ req'[r].tries = 0 /\ req'[r].tryEpoch = 0
        /\ req'[r].failEpoch = 0
    BY <2>2 DEF Typed, IdleReq
  <2> QED BY <2>2, <2>3 DEF Typed, CountAttempt, CountWrong
<1>3. CASE CountAttempt(r)
  <2>1. PICK pc \in {"refused", "post"} :
          req' = [req EXCEPT ![r].pc = pc, ![r].tryEpoch = epoch[req[r].dev]]
    <3>1. CASE attempts[req[r].dev] + 1 > MaxAttempts BY <1>3, <3>1 DEF CountAttempt
    <3>2. CASE ~(attempts[req[r].dev] + 1 > MaxAttempts) BY <1>3, <3>2 DEF CountAttempt
    <3> QED BY <3>1, <3>2
  <2> DEFINE moved == [req[r] EXCEPT !.pc = pc]
             new == [moved EXCEPT !.tryEpoch = epoch[req[r].dev]]
  <2>2. req'[r] = new /\ \A q \in Reqs \ {r} : req'[q] = req[q] BY <2>1 DEF Typed
  <2>3. /\ new.pc = pc /\ new.tries = req[r].tries /\ new.tryEpoch = epoch[req[r].dev]
        /\ new.failEpoch = req[r].failEpoch
    BY <1>1 DEF Records
  <2> HIDE DEF new
  <2>4. req[r].pc \in {"attempt", "reattempt"} BY <1>3 DEF CountAttempt
  <2> QED BY <1>3, <2>2, <2>3, <2>4 DEF CountWrong, Claim
<1>4. CASE CountWrong(r)
  <2>1. /\ req' = [req EXCEPT ![r].pc = "device", ![r].nth = fails + 1, ![r].failEpoch = epoch[None]]
        /\ req[r].pc \in {"incr", "reincr"}
    BY <1>4 DEF CountWrong
  <2> DEFINE moved == [req[r] EXCEPT !.pc = "device"]
             counted == [moved EXCEPT !.nth = fails + 1]
             new == [counted EXCEPT !.failEpoch = epoch[None]]
  <2>2. req'[r] = new /\ \A q \in Reqs \ {r} : req'[q] = req[q] BY <2>1 DEF Typed
  <2>3. /\ new.pc = "device" /\ new.tries = req[r].tries /\ new.failEpoch = epoch[None]
        /\ new.tryEpoch = req[r].tryEpoch
    BY <1>1 DEF Records
  <2> HIDE DEF new
  <2> QED BY <1>4, <2>1, <2>2, <2>3 DEF CountAttempt, Claim
<1> QED BY <1>2, <1>3, <1>4

(* So no step leads back, and the counts of requests only grow.            *)
LEMMA Grow ==
  ASSUME NEW r \in Reqs, Forward(r), \A q \in Reqs \ {r} : req'[q] = req[q],
         NEW place \in Places
  PROVE  /\ Count(place) \in Nat /\ Count(place)' \in Nat /\ Count(place) <= Count(place)'
         /\ req[r].pc \in place /\ req'[r].pc \notin place => Count(place) + 1 <= Count(place)'
<1>1. Past(place) \subseteq Past(place)' BY DEF Past, Forward
<1> QED BY <1>1, CountGrows

(* What is paid for stays so while the counters do not move.               *)
LEMMA PaidKept ==
  ASSUME Typed, Paid, NEW r \in Reqs, Forward(r), \A q \in Reqs \ {r} : req'[q] = req[q],
         req'[r].tries <= MaxRetries,
         req'[r].tryEpoch <= MaxEpochs + Cardinality(Reqs),
         req'[r].failEpoch <= MaxEpochs + Cardinality(Reqs),
         fpset' \subseteq Devices,
         \/ fails' \in {0, fails}
         \/ fails' = fails + 1 /\ req[r].pc = "incr" /\ req'[r].pc = "reincr"
         \/ fails' = fails + 1 /\ req[r].pc \in {"incr", "reincr"} /\ req'[r].pc \notin ToReincr,
         \A d \in Devices :
            \/ attempts'[d] \in {0, attempts[d]}
            \/ attempts'[d] = attempts[d] + 1 /\ req[r].pc = "attempt" /\ req'[r].pc = "reattempt"
            \/ attempts'[d] = attempts[d] + 1 /\ req[r].pc \in {"attempt", "reattempt"}
                 /\ req'[r].pc \notin ToReattempt,
         \/ epoch'[None] = epoch[None]
         \/ epoch'[None] = epoch[None] + 1 /\ req[r].pc = "fails" /\ req'[r].pc = "attempts",
         \A d \in Devices :
            \/ epoch'[d] = epoch[d]
            \/ epoch'[d] = epoch[d] + 1 /\ req[r].pc = "attempts" /\ req'[r].pc = "devices"
  PROVE  Paid'
<1>1. {ToAttempt, ToReattempt, ToIncr, ToReincr, ToFails, ToAttempts} = Places BY DEF Places
<1>2. \A place \in Places :
        /\ Count(place) \in Nat /\ Count(place)' \in Nat /\ Count(place) <= Count(place)'
        /\ req[r].pc \in place /\ req'[r].pc \notin place => Count(place) + 1 <= Count(place)'
  BY Grow
<1>3. /\ fails \in Nat /\ epoch[None] \in Nat
      /\ \A d \in Devices : attempts[d] \in Nat /\ epoch[d] \in Nat
  BY DEF Typed
<1>4. fails' <= Count(ToIncr)' + Count(ToReincr)'
  <2>1. /\ Count(ToIncr) \in Nat /\ Count(ToIncr)' \in Nat /\ Count(ToIncr) <= Count(ToIncr)'
        /\ Count(ToReincr) \in Nat /\ Count(ToReincr)' \in Nat /\ Count(ToReincr) <= Count(ToReincr)'
        /\ fails <= Count(ToIncr) + Count(ToReincr)
    BY <1>1, <1>2 DEF Paid
  <2>2. CASE fails' \in {0, fails} BY <1>3, <2>1, <2>2
  <2>3. CASE fails' = fails + 1 /\ req[r].pc = "incr" /\ req'[r].pc = "reincr"
    <3>1. req[r].pc \in ToIncr /\ req'[r].pc \notin ToIncr
      BY <2>3 DEF ToIncr, ToTask, ToReattempt, ToAttempt
    <3>2. Count(ToIncr) + 1 <= Count(ToIncr)' BY <1>1, <1>2, <3>1
    <3> QED BY <1>3, <2>1, <2>3, <3>2
  <2>4. CASE fails' = fails + 1 /\ req[r].pc \in {"incr", "reincr"} /\ req'[r].pc \notin ToReincr
    <3>1. req[r].pc \in ToReincr BY <2>4 DEF ToReincr, ToIncr
    <3>2. Count(ToReincr) + 1 <= Count(ToReincr)' BY <1>1, <1>2, <2>4, <3>1
    <3> QED BY <1>3, <2>1, <2>4, <3>2
  <2> QED BY <2>2, <2>3, <2>4
<1>5. ASSUME NEW d \in Devices PROVE attempts'[d] <= Count(ToAttempt)' + Count(ToReattempt)'
  <2>1. /\ Count(ToAttempt) \in Nat /\ Count(ToAttempt)' \in Nat
        /\ Count(ToAttempt) <= Count(ToAttempt)'
        /\ Count(ToReattempt) \in Nat /\ Count(ToReattempt)' \in Nat
        /\ Count(ToReattempt) <= Count(ToReattempt)'
        /\ attempts[d] <= Count(ToAttempt) + Count(ToReattempt)
    BY <1>1, <1>2 DEF Paid
  <2>2. CASE attempts'[d] \in {0, attempts[d]} BY <1>3, <2>1, <2>2
  <2>3. CASE attempts'[d] = attempts[d] + 1 /\ req[r].pc = "attempt" /\ req'[r].pc = "reattempt"
    <3>1. req[r].pc \in ToAttempt /\ req'[r].pc \notin ToAttempt BY <2>3 DEF ToAttempt
    <3>2. Count(ToAttempt) + 1 <= Count(ToAttempt)' BY <1>1, <1>2, <3>1
    <3> QED BY <1>3, <2>1, <2>3, <3>2
  <2>4. CASE attempts'[d] = attempts[d] + 1 /\ req[r].pc \in {"attempt", "reattempt"}
               /\ req'[r].pc \notin ToReattempt
    <3>1. req[r].pc \in ToReattempt BY <2>4 DEF ToReattempt, ToAttempt
    <3>2. Count(ToReattempt) + 1 <= Count(ToReattempt)' BY <1>1, <1>2, <2>4, <3>1
    <3> QED BY <1>3, <2>1, <2>4, <3>2
  <2> QED BY <2>2, <2>3, <2>4
<1>6. epoch'[None] <= MaxEpochs + Count(ToFails)'
  <2>1. /\ Count(ToFails) \in Nat /\ Count(ToFails)' \in Nat /\ Count(ToFails) <= Count(ToFails)'
        /\ epoch[None] <= MaxEpochs + Count(ToFails)
    BY <1>1, <1>2 DEF Paid
  <2>2. CASE epoch'[None] = epoch[None] BY <1>3, <2>1, <2>2
  <2>3. CASE epoch'[None] = epoch[None] + 1 /\ req[r].pc = "fails" /\ req'[r].pc = "attempts"
    <3>1. req[r].pc \in ToFails /\ req'[r].pc \notin ToFails
      BY <2>3 DEF ToFails, ToTask, ToReattempt, ToAttempt
    <3>2. Count(ToFails) + 1 <= Count(ToFails)' BY <1>1, <1>2, <3>1
    <3> QED BY <1>3, <2>1, <2>3, <3>2
  <2> QED BY <2>2, <2>3
<1>7. ASSUME NEW d \in Devices PROVE epoch'[d] <= MaxEpochs + Count(ToAttempts)'
  <2>1. /\ Count(ToAttempts) \in Nat /\ Count(ToAttempts)' \in Nat
        /\ Count(ToAttempts) <= Count(ToAttempts)'
        /\ epoch[d] <= MaxEpochs + Count(ToAttempts)
    BY <1>1, <1>2 DEF Paid
  <2>2. CASE epoch'[d] = epoch[d] BY <1>3, <2>1, <2>2
  <2>3. CASE epoch'[d] = epoch[d] + 1 /\ req[r].pc = "attempts" /\ req'[r].pc = "devices"
    <3>1. req[r].pc \in ToAttempts /\ req'[r].pc \notin ToAttempts
      BY <2>3 DEF ToAttempts, ToFails, ToTask, ToReattempt, ToAttempt
    <3>2. Count(ToAttempts) + 1 <= Count(ToAttempts)' BY <1>1, <1>2, <3>1
    <3> QED BY <1>3, <2>1, <2>3, <3>2
  <2> QED BY <2>2, <2>3
<1>8. \A q \in Reqs : /\ req'[q].tries <= MaxRetries
                      /\ req'[q].tryEpoch <= MaxEpochs + Cardinality(Reqs)
                      /\ req'[q].failEpoch <= MaxEpochs + Cardinality(Reqs)
  <2> SUFFICES ASSUME NEW q \in Reqs, q # r
               PROVE  /\ req[q].tries <= MaxRetries
                      /\ req[q].tryEpoch <= MaxEpochs + Cardinality(Reqs)
                      /\ req[q].failEpoch <= MaxEpochs + Cardinality(Reqs)
    OBVIOUS
  <2> QED BY DEF Paid
<1> QED BY <1>4, <1>5, <1>6, <1>7, <1>8 DEF Paid

(* Every step is paid for.                                                 *)
LEMMA StepPaid == IInv /\ Paid /\ [Next]_vars => Paid'
<1> SUFFICES ASSUME IInv, Paid, [Next]_vars PROVE Paid' OBVIOUS
<1>1. Typed BY DEF IInv
<1>2. \A r \in Reqs : /\ req[r].tries <= MaxRetries
                      /\ req[r].tryEpoch <= MaxEpochs + Cardinality(Reqs)
                      /\ req[r].failEpoch <= MaxEpochs + Cardinality(Reqs)
  BY DEF Paid
<1>3. ASSUME NEW r \in Reqs, Quiet(r) PROVE Paid'
  <2>1. Forward(r) /\ req'[r].tries <= MaxRetries BY <1>1, <1>2, <1>3, QuietForward
  <2>2. /\ \A q \in Reqs \ {r} : req'[q] = req[q]
        /\ req'[r].tryEpoch = req[r].tryEpoch /\ req'[r].failEpoch = req[r].failEpoch
        /\ req[r].dev \in Devices
    BY <1>1, <1>3, QuietLocals DEF Locals, Typed
  <2>3. fpset' \subseteq Devices
    BY <1>3, <2>2 DEF Paid, Quiet, CountAttemptLost, Post, Verify, LoadFails, CountWrongLost,
       AddDevice, JudgeWrong, TooManyDevices, ClearFails, ClearAttempts, ClearDevices, Mark, Raise, Die
  <2>4. CASE CountAttemptLost(r)
    <3>1. req[r].pc = "attempt" /\ req'[r].pc = "reattempt"
      BY <1>1, <2>4, MoveOn DEF CountAttemptLost
    <3>2. /\ UNCHANGED <<fails, epoch>>
          /\ \A d \in Devices : attempts'[d] \in {attempts[d], attempts[d] + 1}
      BY <1>1, <2>4 DEF CountAttemptLost, Typed
    <3> QED BY <1>1, <1>2, <2>1, <2>2, <2>3, <3>1, <3>2, PaidKept
  <2>5. CASE CountWrongLost(r)
    <3>1. req[r].pc = "incr" /\ req'[r].pc = "reincr"
      BY <1>1, <2>5, MoveOn DEF CountWrongLost
    <3>2. fails' = fails + 1 /\ UNCHANGED <<attempts, epoch>> BY <2>5 DEF CountWrongLost
    <3> QED BY <1>1, <1>2, <2>1, <2>2, <2>3, <3>1, <3>2, PaidKept
  <2>6. CASE ClearFails(r)
    <3>1. req[r].pc = "fails" /\ req'[r].pc = "attempts" BY <1>1, <2>6, MoveOn DEF ClearFails
    <3>2. /\ fails' = 0 /\ UNCHANGED attempts /\ epoch'[None] = epoch[None] + 1
          /\ \A d \in Devices : epoch'[d] = epoch[d]
      BY <1>1, <2>6 DEF ClearFails, Typed
    <3> QED BY <1>1, <1>2, <2>1, <2>2, <2>3, <3>1, <3>2, PaidKept
  <2>7. CASE ClearAttempts(r)
    <3>1. req[r].pc = "attempts" /\ req'[r].pc = "devices" BY <1>1, <2>7, MoveOn DEF ClearAttempts
    <3>2. /\ UNCHANGED fails /\ epoch'[None] = epoch[None]
          /\ \A d \in Devices : /\ attempts'[d] \in {0, attempts[d]}
                                /\ epoch'[d] \in {epoch[d], epoch[d] + 1}
      BY <1>1, <2>2, <2>7 DEF ClearAttempts, Typed
    <3> QED BY <1>1, <1>2, <2>1, <2>2, <2>3, <3>1, <3>2, PaidKept
  <2>8. CASE UNCHANGED <<fails, attempts, epoch>>
    BY <1>1, <1>2, <2>1, <2>2, <2>3, <2>8, PaidKept
  <2> QED BY <1>3, <2>4, <2>5, <2>6, <2>7, <2>8
          DEF Quiet, Post, Verify, LoadFails, AddDevice, JudgeWrong, TooManyDevices,
              ClearDevices, Mark, Raise, Die
<1>4. /\ epoch[None] <= MaxEpochs + Cardinality(Reqs)
      /\ \A d \in Devices : epoch[d] <= MaxEpochs + Cardinality(Reqs)
  <2>1. /\ Count(ToFails) \in Nat /\ Count(ToFails) <= Cardinality(Reqs)
        /\ Count(ToAttempts) \in Nat /\ Count(ToAttempts) <= Cardinality(Reqs)
        /\ Cardinality(Reqs) \in Nat
    BY Sizes
  <2>2. /\ epoch[None] \in Nat /\ epoch[None] <= MaxEpochs + Count(ToFails)
        /\ \A d \in Devices : epoch[d] \in Nat /\ epoch[d] <= MaxEpochs + Count(ToAttempts)
    BY <1>1 DEF Typed, Paid
  <2> QED BY <2>1, <2>2
<1>5. ASSUME NEW r \in Reqs,
             \/ \E k \in Keys, d \in Devices : Claim(r, k, d)
             \/ CountAttempt(r) \/ CountWrong(r)
      PROVE  Paid'
  <2>1. /\ Forward(r) /\ req'[r].tries <= MaxRetries
        /\ \A q \in Reqs \ {r} : req'[q] = req[q]
    BY <1>1, <1>2, <1>5, LoudForward
  <2>2. UNCHANGED <<fpset, epoch>> BY <1>5 DEF Claim, CountAttempt, CountWrong
  <2>3. fpset' \subseteq Devices BY <2>2 DEF Paid
  <2>4. CASE CountAttempt(r)
    <3>1. /\ req'[r].pc \notin ToReattempt /\ req'[r].tryEpoch = epoch[req[r].dev]
          /\ req'[r].failEpoch = req[r].failEpoch
      BY <1>1, <1>2, <2>4, LoudForward
    <3>2. req[r].pc \in {"attempt", "reattempt"} /\ req[r].dev \in Devices
      BY <1>1, <2>4 DEF CountAttempt, Typed
    <3>3. UNCHANGED fails /\ \A d \in Devices : attempts'[d] \in {attempts[d], attempts[d] + 1}
      BY <1>1, <2>4 DEF CountAttempt, Typed
    <3> QED BY <1>1, <1>2, <1>4, <2>1, <2>2, <2>3, <3>1, <3>2, <3>3, PaidKept
  <2>5. CASE CountWrong(r)
    <3>1. /\ req'[r].pc \notin ToReincr /\ req'[r].failEpoch = epoch[None]
          /\ req'[r].tryEpoch = req[r].tryEpoch
      BY <1>1, <1>2, <2>5, LoudForward
    <3>2. req[r].pc \in {"incr", "reincr"} /\ fails' = fails + 1 /\ UNCHANGED attempts
      BY <2>5 DEF CountWrong
    <3> QED BY <1>1, <1>2, <1>4, <2>1, <2>2, <2>3, <3>1, <3>2, PaidKept
  <2>6. CASE \E k \in Keys, d \in Devices : Claim(r, k, d)
    <3>1. req'[r].tryEpoch = 0 /\ req'[r].failEpoch = 0 BY <1>1, <1>2, <2>6, LoudForward
    <3>2. UNCHANGED <<fails, attempts>> BY <2>6 DEF Claim
    <3>3. 0 <= MaxEpochs + Cardinality(Reqs) BY FS_CardinalityType
    <3> QED BY <1>1, <2>1, <2>2, <2>3, <3>1, <3>2, <3>3, PaidKept
  <2> QED BY <1>5, <2>4, <2>5, <2>6
<1>6. ASSUME req' = req, fpset' \subseteq Devices, fails' \in {0, fails},
             \A d \in Devices : attempts'[d] \in {0, attempts[d]},
             \/ epoch'[None] = epoch[None]
             \/ epoch'[None] = epoch[None] + 1 /\ epoch[None] < MaxEpochs,
             \A d \in Devices : \/ epoch'[d] = epoch[d]
                                \/ epoch'[d] = epoch[d] + 1 /\ epoch[d] < MaxEpochs
      PROVE  Paid'
  <2>1. \A place : Count(place)' = Count(place) BY <1>6 DEF Count, Past
  <2>2. \A place : Count(place) \in Nat BY Sizes
  <2>3. /\ fails \in Nat /\ epoch[None] \in Nat
        /\ \A d \in Devices : attempts[d] \in Nat /\ epoch[d] \in Nat
    BY <1>1 DEF Typed
  <2>4. fails' <= Count(ToIncr)' + Count(ToReincr)' BY <1>6, <2>1, <2>2, <2>3 DEF Paid
  <2>5. \A d \in Devices : attempts'[d] <= Count(ToAttempt)' + Count(ToReattempt)'
    BY <1>6, <2>1, <2>2, <2>3 DEF Paid
  <2>6. epoch'[None] <= MaxEpochs + Count(ToFails)' BY <1>6, <2>1, <2>2, <2>3 DEF Paid
  <2>7. \A d \in Devices : epoch'[d] <= MaxEpochs + Count(ToAttempts)'
    BY <1>6, <2>1, <2>2, <2>3 DEF Paid
  <2> QED BY <1>2, <1>6, <2>4, <2>5, <2>6, <2>7 DEF Paid
<1>7. CASE \E k \in Keys : ExpireKey(k)
  BY <1>6, <1>7 DEF ExpireKey, Paid
<1>8. CASE ExpireFails
  <2>1. /\ fails' = 0 /\ UNCHANGED <<fpset, attempts, req>> /\ epoch[None] < MaxEpochs
        /\ epoch'[None] = epoch[None] + 1 /\ \A d \in Devices : epoch'[d] = epoch[d]
    BY <1>1, <1>8 DEF ExpireFails, Typed
  <2> QED BY <1>6, <2>1 DEF Paid
<1>9. CASE ExpireDevices
  BY <1>6, <1>9 DEF ExpireDevices
<1>10. CASE \E d \in Devices : ExpireAttempts(d)
  <2>1. PICK d \in Devices : ExpireAttempts(d) BY <1>10
  <2>2. /\ UNCHANGED <<fails, fpset, req>> /\ epoch[d] < MaxEpochs
        /\ epoch'[None] = epoch[None]
        /\ \A x \in Devices : IF x = d THEN attempts'[x] = 0 /\ epoch'[x] = epoch[x] + 1
                              ELSE attempts'[x] = attempts[x] /\ epoch'[x] = epoch[x]
    BY <1>1, <2>1 DEF ExpireAttempts, Typed
  <2> QED BY <1>6, <2>2 DEF Paid
<1>11. CASE UNCHANGED vars
  BY <1>6, <1>11 DEF vars, Paid
<1> QED BY <1>3, <1>5, <1>7, <1>8, <1>9, <1>10, <1>11 DEF Next, Quiet

(* The counters of mfa:fail and mfa:fp_fail count at most two commands per *)
(* request, a task is retried at most MaxRetries times, and everything     *)
(* else keeps its type.                                                    *)
THEOREM TypeCorrect == Spec => []TypeOK
<1>1. Init => Paid
  <2> SUFFICES ASSUME Init PROVE Paid OBVIOUS
  <2>1. \A place : Count(place) \in Nat /\ Cardinality(Reqs) \in Nat BY Sizes
  <2> QED BY <2>1 DEF Init, Paid, IdleReq
<1>2. ASSUME IInv, Paid PROVE TypeOK
  <2>1. \A place : /\ Count(place) \in Nat /\ Cardinality(Reqs) \in Nat
                   /\ Count(place) <= Cardinality(Reqs)
    BY Sizes
  <2>2. /\ fails \in Nat /\ epoch[None] \in Nat
        /\ \A d \in Devices : attempts[d] \in Nat /\ epoch[d] \in Nat
    BY <1>2 DEF IInv, Typed
  <2>3. fails <= Cardinality(Reqs) + Cardinality(Reqs)
    <3>1. fails <= Count(ToIncr) + Count(ToReincr) BY <1>2 DEF Paid
    <3> QED BY <2>1, <2>2, <3>1
  <2>4. \A d \in Devices : attempts[d] <= Cardinality(Reqs) + Cardinality(Reqs)
    <3>1. \A d \in Devices : attempts[d] <= Count(ToAttempt) + Count(ToReattempt) BY <1>2 DEF Paid
    <3> QED BY <2>1, <2>2, <3>1
  <2>5. epoch[None] <= MaxEpochs + Cardinality(Reqs)
    <3>1. epoch[None] <= MaxEpochs + Count(ToFails) BY <1>2 DEF Paid
    <3> QED BY <2>1, <2>2, <3>1
  <2>6. \A d \in Devices : epoch[d] <= MaxEpochs + Cardinality(Reqs)
    <3>1. \A d \in Devices : epoch[d] <= MaxEpochs + Count(ToAttempts) BY <1>2 DEF Paid
    <3> QED BY <2>1, <2>2, <3>1
  <2>7. epoch \in [Devices \cup {None} -> Epochs]
    BY <1>2, <2>1, <2>2, <2>5, <2>6 DEF IInv, Typed, Epochs
  <2>8. ASSUME NEW r \in Reqs PROVE req[r] \in Request
    <3>1. req[r] \in Records BY <1>2 DEF IInv, Typed
    <3>2. /\ req[r].tries <= MaxRetries /\ req[r].tryEpoch <= MaxEpochs + Cardinality(Reqs)
          /\ req[r].failEpoch <= MaxEpochs + Cardinality(Reqs)
      BY <1>2 DEF Paid
    <3>3. /\ req[r].tries \in 0 .. MaxRetries
          /\ req[r].tryEpoch \in Epochs /\ req[r].failEpoch \in Epochs
      <4>1. req[r].tries \in Nat /\ req[r].tryEpoch \in Nat /\ req[r].failEpoch \in Nat
        BY <3>1 DEF Records
      <4> QED BY <3>2, <4>1, <2>1 DEF Epochs
    <3> QED BY <3>1, <3>3 DEF Records, Request
  <2>9. req \in [Reqs -> Request] BY <1>2, <2>8 DEF IInv, Typed
  <2>10. fails \in 0 .. 2 * Cardinality(Reqs)
         /\ attempts \in [Devices -> 0 .. 2 * Cardinality(Reqs)]
    <3>1. fails \in 0 .. 2 * Cardinality(Reqs) BY <2>1, <2>2, <2>3
    <3>2. \A d \in Devices : attempts[d] \in 0 .. 2 * Cardinality(Reqs) BY <2>1, <2>2, <2>4
    <3>3. attempts = [d \in Devices |-> attempts[d]] BY <1>2 DEF IInv, Typed
    <3> QED BY <3>1, <3>2, <3>3
  <2> QED BY <1>2, <2>7, <2>9, <2>10 DEF IInv, Typed, Paid, TypeOK
<1> QED BY <1>1, <1>2, Invariant, StepPaid, PTL DEF Spec

=============================================================================
