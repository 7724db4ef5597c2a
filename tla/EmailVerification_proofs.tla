----------------------- MODULE EmailVerification_proofs -----------------------
(* A lockout by the counter of active tokens always ends, and mails keep   *)
(* the pace of the cooldowns, for any number of users, fingerprints and    *)
(* overlapping requests.                                                   *)
EXTENDS EmailVerification, FiniteSetTheorems, TLAPS

(* A request under way has a user.                                         *)
RequestsTyped ==
    /\ req \in [Reqs -> Request]
    /\ \A r \in Reqs : req[r].pc # "idle" => req[r].user \in Users

(* The counter may be any integer: decrements of an absent key go below 0. *)
CounterTyped == active \in [Users -> Int] /\ ttl \subseteq Users

(* The inductive invariant of the theorem below.                           *)
CounterInv == RequestsTyped /\ CounterTyped /\ LockoutEnds

(* Locals that are reset keep the requests typed.                          *)
LEMMA FinishKeeps ==
  ASSUME RequestsTyped, NEW r \in Reqs, Finish(r)
  PROVE  RequestsTyped'
<1>1. IdleReq \in Request BY DEF IdleReq, Request
<1>2. IdleReq.pc = "idle" BY DEF IdleReq
<1> QED BY <1>1, <1>2 DEF RequestsTyped, Finish

(* A request that goes on keeps its user.                                  *)
LEMMA GotoKeeps ==
  ASSUME RequestsTyped, NEW r \in Reqs, req[r].pc # "idle",
         NEW label \in {"idle", "fp", "count", "recount", "select", "invalidate", "commit",
                        "undo", "reundo", "reset"},
         Goto(r, label)
  PROVE  RequestsTyped'
BY DEF RequestsTyped, Goto, Request

(* So does one that notes the tokens it read.                              *)
LEMMA NoteKeeps ==
  ASSUME RequestsTyped, NEW r \in Reqs, req[r].pc # "idle", NEW ids \in SUBSET Ids,
         req' = [req EXCEPT ![r].pc = "invalidate", ![r].old = ids]
  PROVE  RequestsTyped'
<1>1. req[r] \in Request BY DEF RequestsTyped
<1> DEFINE new == [req[r] EXCEPT !.pc = "invalidate", !.old = ids]
<1>2. new \in Request /\ new.user = req[r].user BY <1>1 DEF Request
<1>3. req' = [req EXCEPT ![r] = new] OBVIOUS
<1> HIDE DEF new
<1> QED BY <1>2, <1>3 DEF RequestsTyped

(* Nothing is under way at first, and no counter exists.                   *)
LEMMA InitCounter == Init => CounterInv
<1>1. IdleReq \in Request BY DEF IdleReq, Request
<1>2. IdleReq.pc = "idle" BY DEF IdleReq
<1> QED BY <1>1, <1>2 DEF Init, CounterInv, RequestsTyped, CounterTyped, LockoutEnds

(* Every step keeps it. Only the script raises the counter above zero, and *)
(* it sets the expiry when the counter passes 1.                           *)
LEMMA StepCounter == CounterInv /\ [Next]_vars => CounterInv'
<1> SUFFICES ASSUME CounterInv, [Next]_vars PROVE CounterInv'
  OBVIOUS
<1> USE DEF CounterInv
<1>s. CASE UNCHANGED vars
  BY <1>s DEF vars, RequestsTyped, CounterTyped, LockoutEnds
<1>f. ASSUME UNCHANGED <<active, ttl>> PROVE (CounterTyped /\ LockoutEnds)'
  BY <1>f DEF CounterTyped, LockoutEnds
<1>1. ASSUME NEW r \in Reqs, NEW u \in Users, NEW f \in Fingerprints, CoolUser(r, u, f)
      PROVE  CounterInv'
  <2>1. [pc |-> "fp", user |-> u, fp |-> f, waited |-> u \notin cooling, old |-> {}] \in Request
    BY DEF Request
  <2>2. RequestsTyped' BY <1>1, <2>1 DEF CoolUser, RequestsTyped
  <2> QED BY <1>1, <1>f, <2>2 DEF CoolUser
<1>2. ASSUME NEW r \in Reqs, CoolFingerprint(r) PROVE CounterInv'
  <2>1. RequestsTyped' BY <1>2, FinishKeeps, GotoKeeps DEF CoolFingerprint
  <2> QED BY <1>2, <1>f, <2>1 DEF CoolFingerprint
<1>3. ASSUME NEW r \in Reqs, CountActive(r) PROVE CounterInv'
  <2>1. RequestsTyped' BY <1>3, FinishKeeps, GotoKeeps DEF CountActive
  <2>2. req[r].user \in Users BY <1>3 DEF CountActive, RequestsTyped
  <2>3. CASE Finish(r) /\ UNCHANGED redisVars
    BY <2>3, <2>1, <1>f DEF redisVars
  <2>4. CASE /\ active' = [active EXCEPT ![req[r].user] = @ + 1]
             /\ ttl' = IF active[req[r].user] = 0 THEN ttl \cup {req[r].user} ELSE ttl
    BY <2>4, <2>1, <2>2 DEF CounterTyped, LockoutEnds
  <2> QED BY <1>3, <2>3, <2>4 DEF CountActive
<1>4. ASSUME NEW r \in Reqs, CountLost(r) PROVE CounterInv'
  <2>1. RequestsTyped' BY <1>4, GotoKeeps DEF CountLost
  <2>2. req[r].user \in Users BY <1>4 DEF CountLost, RequestsTyped
  <2> QED BY <1>4, <2>1, <2>2 DEF CountLost, CounterTyped, LockoutEnds
<1>5. ASSUME NEW r \in Reqs, SelectOld(r) PROVE CounterInv'
  <2>1. LiveOf(req[r].user) \subseteq Ids BY DEF LiveOf, Inserted
  <2>2. RequestsTyped' BY <1>5, <2>1, NoteKeeps DEF SelectOld
  <2> QED BY <1>5, <1>f, <2>2 DEF SelectOld, redisVars
<1>6. ASSUME NEW r \in Reqs, InvalidateOld(r) \/ InvalidateFails(r) PROVE CounterInv'
  <2>1. RequestsTyped' BY <1>6, GotoKeeps DEF InvalidateOld, InvalidateFails
  <2> QED BY <1>6, <1>f, <2>1 DEF InvalidateOld, InvalidateFails, redisVars
<1>7. ASSUME NEW r \in Reqs, CommitToken(r) \/ CommitFails(r) PROVE CounterInv'
  <2>1. RequestsTyped' BY <1>7, GotoKeeps, FinishKeeps DEF CommitToken, CommitFails
  <2> QED BY <1>7, <1>f, <2>1 DEF CommitToken, CommitFails, redisVars
<1>8. ASSUME NEW r \in Reqs, Decrement(r) PROVE CounterInv'
  <2>1. RequestsTyped' BY <1>8, GotoKeeps, FinishKeeps DEF Decrement
  <2>2. req[r].user \in Users BY <1>8 DEF Decrement, RequestsTyped
  <2> QED BY <1>8, <2>1, <2>2 DEF Decrement, CounterTyped, LockoutEnds
<1>9. ASSUME NEW r \in Reqs, DecrementLost(r) PROVE CounterInv'
  <2>1. RequestsTyped' BY <1>9, GotoKeeps DEF DecrementLost
  <2>2. req[r].user \in Users BY <1>9 DEF DecrementLost, RequestsTyped
  <2> QED BY <1>9, <2>1, <2>2 DEF DecrementLost, CounterTyped, LockoutEnds
<1>10. ASSUME NEW r \in Reqs, ResetCounter(r) PROVE CounterInv'
  <2>1. RequestsTyped' BY <1>10, FinishKeeps DEF ResetCounter
  <2>2. req[r].user \in Users BY <1>10 DEF ResetCounter, RequestsTyped
  <2> QED BY <1>10, <2>1, <2>2 DEF ResetCounter, CounterTyped, LockoutEnds
<1>11. ASSUME NEW r \in Reqs, Abort(r) PROVE CounterInv'
  BY <1>11, <1>f, FinishKeeps DEF Abort, redisVars
<1>12. ASSUME NEW s \in Subjects, LapseCooldown(s) PROVE CounterInv'
  BY <1>12, <1>f DEF LapseCooldown, RequestsTyped
<1>13. ASSUME NEW u \in Users, LapseCounter(u) PROVE CounterInv'
  BY <1>13 DEF LapseCounter, RequestsTyped, CounterTyped, LockoutEnds
<1>14. ASSUME NEW i \in Ids, LapseToken(i) PROVE CounterInv'
  BY <1>14, <1>f DEF LapseToken, redisVars, RequestsTyped
<1> QED BY <1>s, <1>1, <1>2, <1>3, <1>4, <1>5, <1>6, <1>7, <1>8,
           <1>9, <1>10, <1>11, <1>12, <1>13, <1>14
        DEF Next

(* A counter of active tokens that can refuse a user always expires.       *)
THEOREM LockoutAlwaysEnds == Spec => []LockoutEnds
<1>1. CounterInv => LockoutEnds BY DEF CounterInv
<1> QED BY InitCounter, StepCounter, <1>1, PTL DEF Spec

-----------------------------------------------------------------------------
(* Every mail, and every request that may yet send one, has a cooldown of  *)
(* its own, of its user and of its fingerprint.                            *)
Mails(s) == {i \in outbox : token[i].user = s \/ token[i].fp = s}
Counting == {"count", "recount", "select", "invalidate", "commit"}
Entitled(s) ==
    {r \in Reqs : \/ req[r].fp = s /\ req[r].pc \in Counting
                  \/ req[r].user = s /\ req[r].waited /\ req[r].pc \in Counting \cup {"fp"}}

PaceTyped ==
    /\ cooling \subseteq Subjects /\ spans \in [Subjects -> Nat]
    /\ req \in [Reqs -> Request]
    /\ \A r \in Reqs : req[r].pc # "idle" => req[r].user \in Users /\ req[r].fp \in Fingerprints
    /\ \A r \in Reqs : req[r].pc \in Counting => req[r].waited
    /\ token \in [Ids -> Token] /\ outbox \subseteq Inserted

Paced(s) == Cardinality(Mails(s)) + Cardinality(Entitled(s)) <= spans[s]
PaceInv == PaceTyped /\ \A s \in Subjects : Paced(s)

USE VerificationAssumption

LEMMA MailsFinite ==
  ASSUME PaceTyped, NEW s
  PROVE  /\ IsFiniteSet(Mails(s)) /\ Cardinality(Mails(s)) \in Nat
         /\ IsFiniteSet(Entitled(s)) /\ Cardinality(Entitled(s)) \in Nat
<1>1. IsFiniteSet(Ids) BY FS_Interval DEF Ids
<1>2. outbox \subseteq Ids BY DEF PaceTyped, Inserted
<1>3. IsFiniteSet(Mails(s)) BY <1>1, <1>2, FS_Subset DEF Mails
<1>4. IsFiniteSet(Entitled(s)) BY FS_Subset DEF Entitled
<1> QED BY <1>3, <1>4, FS_CardinalityType

(* A request that sends nothing and is entitled to nothing new, or only by *)
(* a cooldown it has just started.                                         *)
LEMMA NoMail ==
  ASSUME PaceInv, PaceTyped', NEW s \in Subjects, NEW r \in Reqs,
         Mails(s)' = Mails(s), spans'[s] >= spans[s],
         Entitled(s)' \subseteq Entitled(s) \cup {r},
         r \in Entitled(s)' => r \in Entitled(s) \/ spans'[s] = spans[s] + 1
  PROVE  Paced(s)'
<1>1. PaceTyped /\ Paced(s) BY DEF PaceInv
<1>2. /\ Cardinality(Mails(s)) \in Nat /\ IsFiniteSet(Entitled(s)) /\ Cardinality(Entitled(s)) \in Nat
      /\ spans[s] \in Nat /\ spans'[s] \in Nat
  BY <1>1, MailsFinite DEF PaceTyped
<1>3. /\ IsFiniteSet(Entitled(s) \cup {r})
      /\ r \notin Entitled(s) => Cardinality(Entitled(s) \cup {r}) = Cardinality(Entitled(s)) + 1
  BY <1>2, FS_AddElement
<1>4. CASE Entitled(s)' \subseteq Entitled(s)
  <2>1. Cardinality(Entitled(s)') <= Cardinality(Entitled(s)) /\ Cardinality(Entitled(s)') \in Nat
    BY <1>2, <1>4, FS_Subset, FS_CardinalityType
  <2> HIDE DEF Mails, Entitled
  <2> QED BY <1>1, <1>2, <2>1 DEF Paced
<1>5. CASE ~(Entitled(s)' \subseteq Entitled(s))
  <2>1. r \in Entitled(s)' /\ r \notin Entitled(s) BY <1>5
  <2>2. Cardinality(Entitled(s)') <= Cardinality(Entitled(s)) + 1 /\ Cardinality(Entitled(s)') \in Nat
    BY <1>3, <2>1, FS_Subset, FS_CardinalityType
  <2>3. spans'[s] = spans[s] + 1 BY <2>1
  <2> HIDE DEF Mails, Entitled
  <2> QED BY <1>1, <1>2, <2>2, <2>3 DEF Paced
<1> QED BY <1>4, <1>5

(* A request that sends its mail is entitled to nothing more.              *)
LEMMA OneMail ==
  ASSUME PaceInv, PaceTyped', NEW s \in Subjects, NEW r \in Reqs, NEW i \in Ids,
         Mails(s)' \subseteq Mails(s) \cup {i}, spans' = spans,
         Entitled(s)' \subseteq Entitled(s) \ {r},
         i \in Mails(s)' => r \in Entitled(s)
  PROVE  Paced(s)'
<1>1. PaceTyped /\ Paced(s) BY DEF PaceInv
<1>2. /\ IsFiniteSet(Mails(s)) /\ Cardinality(Mails(s)) \in Nat
      /\ IsFiniteSet(Entitled(s)) /\ Cardinality(Entitled(s)) \in Nat /\ spans[s] \in Nat
  BY <1>1, MailsFinite DEF PaceTyped
<1>3. /\ IsFiniteSet(Entitled(s) \ {r}) /\ Cardinality(Entitled(s) \ {r}) \in Nat
      /\ r \in Entitled(s) => Cardinality(Entitled(s) \ {r}) = Cardinality(Entitled(s)) - 1
      /\ Cardinality(Entitled(s) \ {r}) <= Cardinality(Entitled(s))
  BY <1>2, FS_RemoveElement, FS_Subset, FS_CardinalityType
<1>4. Cardinality(Entitled(s)') <= Cardinality(Entitled(s) \ {r}) /\ Cardinality(Entitled(s)') \in Nat
  BY <1>3, FS_Subset, FS_CardinalityType
<1>5. CASE r \in Entitled(s)
  <2>1. /\ IsFiniteSet(Mails(s) \cup {i}) /\ Cardinality(Mails(s) \cup {i}) <= Cardinality(Mails(s)) + 1
    <3>1. CASE i \in Mails(s)
      <4>1. Mails(s) \cup {i} = Mails(s) BY <3>1
      <4> HIDE DEF Mails
      <4> QED BY <1>2, <4>1
    <3>2. CASE i \notin Mails(s)
      <4>1. /\ IsFiniteSet(Mails(s) \cup {i})
            /\ Cardinality(Mails(s) \cup {i}) = Cardinality(Mails(s)) + 1
        BY <1>2, <3>2, FS_AddElement
      <4> HIDE DEF Mails
      <4> QED BY <1>2, <4>1
    <3> QED BY <3>1, <3>2
  <2>2. /\ Cardinality(Mails(s)') <= Cardinality(Mails(s) \cup {i})
        /\ Cardinality(Mails(s)') \in Nat /\ Cardinality(Mails(s) \cup {i}) \in Nat
    BY <2>1, FS_Subset, FS_CardinalityType
  <2> HIDE DEF Mails, Entitled
  <2> QED BY <1>1, <1>2, <1>3, <1>4, <1>5, <2>1, <2>2 DEF Paced
<1>6. CASE r \notin Entitled(s)
  <2>1. Mails(s)' \subseteq Mails(s) BY <1>6
  <2>2. Cardinality(Mails(s)') <= Cardinality(Mails(s)) /\ Cardinality(Mails(s)') \in Nat
    BY <1>2, <2>1, FS_Subset, FS_CardinalityType
  <2> HIDE DEF Mails, Entitled
  <2> QED BY <1>1, <1>2, <1>3, <1>4, <2>2 DEF Paced
<1> QED BY <1>5, <1>6

(* A cooldown key that was free starts a cooldown.                         *)
LEMMA SetNxStarts ==
  ASSUME PaceTyped, NEW s \in Subjects, SetNx(s)
  PROVE  /\ cooling' \subseteq Subjects /\ spans' \in [Subjects -> Nat]
         /\ \A x \in Subjects : spans'[x] >= spans[x]
         /\ s \notin cooling => spans'[s] = spans[s] + 1
BY DEF PaceTyped, SetNx

LEMMA InitPace == Init => PaceInv
<1> SUFFICES ASSUME Init PROVE PaceInv OBVIOUS
<1>1. IdleReq \in Request /\ IdleReq.pc = "idle" BY DEF IdleReq, Request
<1>2. PaceTyped BY <1>1 DEF Init, PaceTyped, Inserted, Token, Counting
<1>3. \A s : Mails(s) = {} /\ Entitled(s) = {}
  BY <1>1 DEF Init, Mails, Entitled, Counting
<1>4. \A s \in Subjects : Paced(s) BY <1>3, FS_EmptySet DEF Init, Paced
<1> QED BY <1>2, <1>4 DEF PaceInv

(* What becomes of a request.                                              *)
Moved(r) ==
    /\ req' \in [Reqs -> Request]
    /\ \A q \in Reqs \ {r} : req'[q] = req[q]

LEMMA FinishMoves ==
  ASSUME PaceTyped, NEW r \in Reqs, Finish(r)
  PROVE  Moved(r) /\ req'[r].pc = "idle"
<1>1. IdleReq \in Request /\ IdleReq.pc = "idle" BY DEF IdleReq, Request
<1> QED BY <1>1 DEF PaceTyped, Finish, Moved

LEMMA GotoMoves ==
  ASSUME PaceTyped, NEW r \in Reqs,
         NEW label \in {"idle", "fp", "count", "recount", "select", "invalidate", "commit",
                        "undo", "reundo", "reset"},
         Goto(r, label)
  PROVE  /\ Moved(r) /\ req'[r].pc = label /\ req'[r].user = req[r].user
         /\ req'[r].fp = req[r].fp /\ req'[r].waited = req[r].waited
<1>1. req[r] \in Request /\ req \in [Reqs -> Request] BY DEF PaceTyped
<1> QED BY <1>1 DEF Goto, Request, Moved

(* The request that has read the live tokens.                              *)
LEMMA SelectMoves ==
  ASSUME PaceTyped, NEW r \in Reqs, SelectOld(r)
  PROVE  /\ Moved(r) /\ req'[r].pc = "invalidate" /\ req'[r].user = req[r].user
         /\ req'[r].fp = req[r].fp /\ req'[r].waited = req[r].waited
<1> DEFINE mid == [req[r] EXCEPT !.pc = "invalidate"]
           new == [mid EXCEPT !.old = LiveOf(req[r].user)]
<1>1. req[r] \in Request /\ LiveOf(req[r].user) \in SUBSET Ids
  BY DEF PaceTyped, LiveOf, Inserted
<1>2. req' = [req EXCEPT ![r].pc = "invalidate", ![r].old = LiveOf(req[r].user)]
  BY DEF SelectOld
<1>3. req'[r] = new /\ \A q \in Reqs \ {r} : req'[q] = req[q] BY <1>2 DEF PaceTyped
<1>4. DOMAIN req' = Reqs /\ req' = [q \in Reqs |-> req'[q]] BY <1>2 DEF PaceTyped
<1>5. /\ mid \in Request /\ mid.pc = "invalidate" /\ mid.user = req[r].user
      /\ mid.fp = req[r].fp /\ mid.waited = req[r].waited
  BY <1>1 DEF Request
<1> HIDE DEF mid
<1>6. /\ new \in Request /\ new.pc = "invalidate" /\ new.user = req[r].user
      /\ new.fp = req[r].fp /\ new.waited = req[r].waited
  BY <1>1, <1>5 DEF Request
<1> HIDE DEF new
<1>7. \A q \in Reqs : req'[q] \in Request BY <1>3, <1>6 DEF PaceTyped
<1> QED BY <1>3, <1>4, <1>6, <1>7 DEF Moved

(* A request under way goes on, or ends, or gives its entitlement up.      *)
LEMMA Onward ==
  ASSUME PaceInv, NEW r \in Reqs, Moved(r), UNCHANGED <<cooling, spans, outbox>>,
         token' \in [Ids -> Token],
         \A i \in Ids : token'[i].user = token[i].user /\ token'[i].fp = token[i].fp,
         req[r].pc # "idle",
         \/ req'[r].pc = "idle"
         \/ /\ req'[r].user = req[r].user /\ req'[r].fp = req[r].fp
            /\ req'[r].waited = req[r].waited
            /\ req'[r].pc \in Counting => req[r].pc \in Counting
            /\ req'[r].pc # "fp"
  PROVE  PaceInv'
<1>1. PaceTyped BY DEF PaceInv
<1>2. PaceTyped' BY <1>1 DEF PaceTyped, Moved, Inserted, Counting
<1>3. ASSUME NEW s \in Subjects PROVE Paced(s)'
  <2>1. Mails(s)' = Mails(s)
    <3>1. outbox \subseteq Ids BY <1>1 DEF PaceTyped, Inserted
    <3> QED BY <3>1 DEF Mails
  <2>2. Entitled(s)' \subseteq Entitled(s) BY DEF Entitled, Moved, Counting
  <2>3. spans'[s] = spans[s] /\ spans[s] \in Nat BY <1>1 DEF PaceTyped
  <2> HIDE DEF Mails, Entitled
  <2> QED BY <1>2, <2>1, <2>2, <2>3, NoMail
<1> QED BY <1>2, <1>3 DEF PaceInv

LEMMA StepPace == PaceInv /\ [Next]_vars => PaceInv'
<1> SUFFICES ASSUME PaceInv, [Next]_vars PROVE PaceInv' OBVIOUS
<1>0. PaceTyped BY DEF PaceInv
<1>1. ASSUME NEW r \in Reqs, NEW u \in Users, NEW f \in Fingerprints, CoolUser(r, u, f)
      PROVE  PaceInv'
  <2> DEFINE new == [pc |-> "fp", user |-> u, fp |-> f, waited |-> u \notin cooling, old |-> {}]
  <2>1. /\ new \in Request /\ new.pc = "fp" /\ new.user = u /\ new.fp = f
        /\ new.waited = (u \notin cooling)
    BY DEF Request
  <2>2. /\ SetNx(u) /\ u \in Subjects /\ req' = [req EXCEPT ![r] = new]
        /\ UNCHANGED <<token, outbox>> /\ req[r].pc = "idle"
    BY <1>1 DEF CoolUser, Subjects, dbVars
  <2> HIDE DEF new
  <2>3. req'[r] = new /\ Moved(r) BY <1>0, <2>1, <2>2 DEF Moved, PaceTyped
  <2>4. PaceTyped'
    BY <1>0, <2>1, <2>2, <2>3, SetNxStarts DEF PaceTyped, Moved, Inserted, Counting
  <2>5. ASSUME NEW s \in Subjects PROVE Paced(s)'
    <3>1. Mails(s)' = Mails(s) BY <2>2 DEF Mails
    <3>2. Entitled(s)' \subseteq Entitled(s) \cup {r} BY <2>3 DEF Entitled, Moved
    <3>3. r \in Entitled(s)' => s = u /\ u \notin cooling
      BY <2>1, <2>3 DEF Entitled, Counting
    <3>4. spans'[s] >= spans[s] /\ (s = u /\ u \notin cooling => spans'[s] = spans[s] + 1)
      BY <1>0, <2>2, SetNxStarts
    <3> HIDE DEF Mails, Entitled
    <3> QED BY <2>4, <3>1, <3>2, <3>3, <3>4, NoMail
  <2> QED BY <2>4, <2>5 DEF PaceInv
<1>2. ASSUME NEW r \in Reqs, CoolFingerprint(r) PROVE PaceInv'
  <2>1. /\ SetNx(req[r].fp) /\ req[r].fp \in Subjects /\ req[r].pc = "fp"
        /\ UNCHANGED <<token, outbox>> /\ req[r].user \in Users /\ req[r].fp \in Fingerprints
        /\ \/ req[r].waited /\ req[r].fp \notin cooling /\ Goto(r, "count")
           \/ Finish(r)
    BY <1>0, <1>2 DEF CoolFingerprint, Subjects, dbVars, PaceTyped
  <2>2. /\ Moved(r)
        /\ \/ req'[r].pc = "idle"
           \/ /\ req'[r].pc = "count" /\ req'[r].user = req[r].user /\ req'[r].fp = req[r].fp
              /\ req'[r].waited /\ req[r].waited /\ req[r].fp \notin cooling
    BY <1>0, <2>1, FinishMoves, GotoMoves
  <2>3. PaceTyped' BY <1>0, <2>1, <2>2, SetNxStarts DEF PaceTyped, Moved, Inserted, Counting
  <2>4. ASSUME NEW s \in Subjects PROVE Paced(s)'
    <3>1. Mails(s)' = Mails(s) BY <2>1 DEF Mails
    <3>2. Entitled(s)' \subseteq Entitled(s) \cup {r} BY <2>2 DEF Entitled, Moved
    <3>3. r \in Entitled(s)' => r \in Entitled(s) \/ (s = req[r].fp /\ req[r].fp \notin cooling)
      BY <2>1, <2>2 DEF Entitled, Counting
    <3>4. /\ spans'[s] >= spans[s]
          /\ s = req[r].fp /\ req[r].fp \notin cooling => spans'[s] = spans[s] + 1
      BY <1>0, <2>1, SetNxStarts
    <3> HIDE DEF Mails, Entitled
    <3> QED BY <2>3, <3>1, <3>2, <3>3, <3>4, NoMail
  <2> QED BY <2>3, <2>4 DEF PaceInv
<1>3. ASSUME NEW r \in Reqs, NEW label \in {"recount", "select", "commit", "invalidate", "undo", "reundo",
                                         "reset"},
             Finish(r) \/ Goto(r, label), req[r].pc # "idle",
             label \in Counting => req[r].pc \in Counting,
             UNCHANGED <<cooling, spans, outbox>>, token' \in [Ids -> Token],
             \A i \in Ids : token'[i].user = token[i].user /\ token'[i].fp = token[i].fp
      PROVE  PaceInv'
  <2>1. CASE Finish(r) BY <1>0, <1>3, <2>1, FinishMoves, Onward
  <2>2. CASE Goto(r, label) BY <1>0, <1>3, <2>2, GotoMoves, Onward
  <2> QED BY <1>3, <2>1, <2>2
<1>4. ASSUME UNCHANGED token
      PROVE  /\ token' \in [Ids -> Token]
             /\ \A i \in Ids : token'[i].user = token[i].user /\ token'[i].fp = token[i].fp
  BY <1>0, <1>4 DEF PaceTyped
<1>5. ASSUME NEW r \in Reqs, CountActive(r) \/ CountLost(r) PROVE PaceInv'
  <2>1. /\ UNCHANGED <<cooling, spans, outbox, token>> /\ req[r].pc \in {"count", "recount"}
        /\ \E label \in {"recount", "select"} : Finish(r) \/ Goto(r, label)
    BY <1>5 DEF CountActive, CountLost, redisVars, dbVars
  <2> QED BY <1>3, <1>4, <2>1 DEF Counting
<1>6. ASSUME NEW r \in Reqs, SelectOld(r) PROVE PaceInv'
  <2>1. /\ UNCHANGED <<cooling, spans, outbox, token>> /\ req[r].pc = "select"
        /\ req[r].pc \in Counting
    BY <1>6 DEF SelectOld, redisVars, dbVars, Counting
  <2> QED BY <1>0, <1>4, <1>6, <2>1, SelectMoves, Onward
<1>7. ASSUME NEW r \in Reqs, InvalidateOld(r) \/ InvalidateFails(r) PROVE PaceInv'
  <2>1. /\ UNCHANGED <<cooling, spans, outbox>> /\ req[r].pc \in {"select", "invalidate"}
        /\ Goto(r, "commit")
    BY <1>7 DEF InvalidateOld, InvalidateFails, redisVars, dbVars
  <2>2. /\ token' \in [Ids -> Token]
        /\ \A i \in Ids : token'[i].user = token[i].user /\ token'[i].fp = token[i].fp
    <3>1. CASE InvalidateFails(r) BY <1>4, <3>1 DEF InvalidateFails, dbVars
    <3>2. CASE InvalidateOld(r)
      <4>1. \A i \in Ids : token[i] \in Token /\ [token[i] EXCEPT !.live = FALSE] \in Token
                           /\ [token[i] EXCEPT !.live = FALSE].user = token[i].user
                           /\ [token[i] EXCEPT !.live = FALSE].fp = token[i].fp
        BY <1>0 DEF PaceTyped, Token
      <4>2. token' = [i \in Ids |-> IF i \in req[r].old THEN [token[i] EXCEPT !.live = FALSE]
                                    ELSE token[i]]
        BY <3>2 DEF InvalidateOld
      <4> QED BY <4>1, <4>2
    <3> QED BY <1>7, <3>1, <3>2
  <2> QED BY <1>3, <2>1, <2>2 DEF Counting
<1>8. ASSUME NEW r \in Reqs, CommitToken(r) PROVE PaceInv'
  <2>1. PICK i \in Ids :
          /\ req[r].pc = "commit" /\ i \notin Inserted
          /\ token' = [token EXCEPT ![i] = [user |-> req[r].user, fp |-> req[r].fp, live |-> TRUE]]
          /\ outbox' = outbox \cup {i} /\ (Finish(r) \/ Goto(r, "undo"))
          /\ UNCHANGED <<cooling, spans>>
    BY <1>8 DEF CommitToken, redisVars
  <2> DEFINE row == [user |-> req[r].user, fp |-> req[r].fp, live |-> TRUE]
  <2>2. req[r].user \in Users /\ req[r].fp \in Fingerprints /\ req[r].waited
    BY <1>0, <2>1 DEF PaceTyped, Counting
  <2>3. row \in Token /\ row.user = req[r].user /\ row.fp = req[r].fp BY <2>2 DEF Token
  <2> HIDE DEF row
  <2>4. /\ token' \in [Ids -> Token] /\ token'[i] = row
        /\ \A k \in Ids \ {i} : token'[k] = token[k]
    BY <1>0, <2>1, <2>3 DEF PaceTyped, row
  <2>5. Moved(r) /\ req'[r].pc \in {"idle", "undo"}
        /\ (req'[r].pc = "undo" => req'[r].user = req[r].user /\ req'[r].fp = req[r].fp)
    BY <1>0, <2>1, FinishMoves, GotoMoves
  <2>6. i \notin outbox /\ outbox \subseteq Ids BY <1>0, <2>1 DEF PaceTyped, Inserted
  <2>7. PaceTyped'
    <3>1. outbox' \subseteq Inserted'
      BY <1>0, <2>1, <2>2, <2>3, <2>4 DEF PaceTyped, Inserted
    <3> QED BY <1>0, <2>1, <2>2, <2>4, <2>5, <3>1 DEF PaceTyped, Moved, Counting
  <2>8. ASSUME NEW s \in Subjects PROVE Paced(s)'
    <3>1. Mails(s)' \subseteq Mails(s) \cup {i} BY <2>1, <2>4, <2>6 DEF Mails
    <3>2. Entitled(s)' \subseteq Entitled(s) \ {r} BY <2>5 DEF Entitled, Moved, Counting
    <3>3. i \in Mails(s)' => r \in Entitled(s)
      BY <2>1, <2>2, <2>3, <2>4 DEF Mails, Entitled, Counting
    <3> HIDE DEF Mails, Entitled
    <3> QED BY <2>1, <2>7, <3>1, <3>2, <3>3, OneMail
  <2> QED BY <2>7, <2>8 DEF PaceInv
<1>9. ASSUME NEW r \in Reqs,
             CommitFails(r) \/ Decrement(r) \/ DecrementLost(r) \/ ResetCounter(r) \/ Abort(r)
      PROVE  PaceInv'
  <2>1. /\ UNCHANGED <<cooling, spans, outbox, token>> /\ req[r].pc # "idle"
        /\ \E label \in {"undo", "reundo", "reset"} : Finish(r) \/ Goto(r, label)
    BY <1>9 DEF CommitFails, Decrement, DecrementLost, ResetCounter, Abort, redisVars, dbVars
  <2> QED BY <1>3, <1>4, <2>1 DEF Counting
<1>10. CASE \/ \E s \in Subjects : LapseCooldown(s)
            \/ \E u \in Users : LapseCounter(u)
            \/ \E i \in Ids : LapseToken(i)
            \/ UNCHANGED vars
  <2>1. req' = req /\ spans' = spans /\ outbox' = outbox /\ cooling' \subseteq cooling
    BY <1>10 DEF LapseCooldown, LapseCounter, LapseToken, vars, redisVars, dbVars
  <2>2. /\ token' \in [Ids -> Token]
        /\ \A i \in Ids : token'[i].user = token[i].user /\ token'[i].fp = token[i].fp
    <3>1. CASE UNCHANGED token BY <1>4, <3>1
    <3>2. CASE \E i \in Ids : LapseToken(i)
      <4>1. PICK i \in Ids : token' = [token EXCEPT ![i].live = FALSE] BY <3>2 DEF LapseToken
      <4> DEFINE row == [token[i] EXCEPT !.live = FALSE]
      <4>2. row \in Token /\ row.user = token[i].user /\ row.fp = token[i].fp
        BY <1>0 DEF PaceTyped, Token
      <4>3. token' = [token EXCEPT ![i] = row] BY <1>0, <4>1 DEF PaceTyped
      <4> HIDE DEF row
      <4> QED BY <1>0, <4>2, <4>3 DEF PaceTyped
    <3> QED BY <1>10, <3>1, <3>2 DEF LapseCooldown, LapseCounter, vars, dbVars
  <2>3. PaceTyped' BY <1>0, <2>1, <2>2 DEF PaceTyped, Inserted
  <2>4. ASSUME NEW s \in Subjects PROVE Paced(s)'
    <3>1. outbox \subseteq Ids BY <1>0 DEF PaceTyped, Inserted
    <3>2. Mails(s)' = Mails(s) BY <2>1, <2>2, <3>1 DEF Mails
    <3>3. Entitled(s)' = Entitled(s) BY <2>1 DEF Entitled
    <3> HIDE DEF Mails, Entitled
    <3> QED BY <2>1, <3>2, <3>3 DEF PaceInv, Paced
  <2> QED BY <2>3, <2>4 DEF PaceInv
<1> QED BY <1>1, <1>2, <1>5, <1>6, <1>7, <1>8, <1>9, <1>10 DEF Next

(* send_verification_email: neither a user nor a fingerprint causes more   *)
(* mails than the cooldowns it started.                                    *)
THEOREM MailsArePaced == Spec => []MailsPaced
<1> SUFFICES ASSUME PaceInv PROVE MailsPaced
  BY InitPace, StepPace, PTL DEF Spec
<1>1. PaceTyped BY DEF PaceInv
<1>2. \A i \in outbox : token[i].user \in Users \cup {None} /\ token[i].fp \in Fingerprints \cup {None}
  BY <1>1 DEF PaceTyped, Inserted, Token
<1>3. ASSUME NEW s \in Subjects PROVE Cardinality(Mails(s)) <= spans[s]
  <2>1. Paced(s) /\ Cardinality(Mails(s)) \in Nat /\ Cardinality(Entitled(s)) \in Nat
        /\ spans[s] \in Nat
    BY <1>1, MailsFinite DEF PaceInv, PaceTyped
  <2> HIDE DEF Mails, Entitled
  <2> QED BY <2>1 DEF Paced
<1>4. \A u \in Users : {i \in outbox : token[i].user = u} = Mails(u) BY <1>2 DEF Mails
<1>5. \A f \in Fingerprints : {i \in outbox : token[i].fp = f} = Mails(f) BY <1>2 DEF Mails
<1> QED BY <1>3, <1>4, <1>5 DEF MailsPaced, Subjects

-----------------------------------------------------------------------------
(* How far the counter of active tokens may drift *)

(* A request that has not decremented yet, or may do so once more.         *)
BeforeUndo == {"fp", "undo"} \cup Counting
BeforeReundo == BeforeUndo \cup {"reundo"}
Waiting(u, pcs) == {r \in Reqs : req[r].user = u /\ req[r].waited /\ req[r].pc \in pcs}

(* The decrements that requests under way may still do to u's counter.     *)
Owed(u) == Cardinality(Waiting(u, BeforeUndo)) + Cardinality(Waiting(u, BeforeReundo))

(* A request decrements twice at most, and each has begun a cooldown of    *)
(* its user: done and owed decrements are within twice the cooldowns.      *)
Drift ==
    /\ \A s \in Subjects : spans[s] <= MaxSpans
    /\ \A r \in Reqs : req[r].pc \in {"undo", "reundo"} => req[r].waited
    /\ \A u \in Users : /\ active[u] <= MaxActive
                        /\ Owed(u) <= 2 * spans[u]
                        /\ Owed(u) <= 2 * spans[u] + active[u]
DriftInv == PaceInv /\ CounterInv /\ Drift

(* Sets of requests have a size, which falls with the set.                 *)
LEMMA WaitingSize ==
  ASSUME NEW u, NEW pcs
  PROVE  /\ Cardinality(Waiting(u, pcs)) \in Nat
         /\ Cardinality(Waiting(u, pcs)') \in Nat
         /\ Waiting(u, pcs)' \subseteq Waiting(u, pcs)
              => Cardinality(Waiting(u, pcs)') <= Cardinality(Waiting(u, pcs))
         /\ \A r \in Reqs :
              (Waiting(u, pcs)' \subseteq Waiting(u, pcs) /\ r \in Waiting(u, pcs)
               /\ r \notin Waiting(u, pcs)')
              => Cardinality(Waiting(u, pcs)') + 1 <= Cardinality(Waiting(u, pcs))
         /\ \A r \in Reqs :
              Waiting(u, pcs)' \subseteq Waiting(u, pcs) \cup {r}
              => Cardinality(Waiting(u, pcs)') <= Cardinality(Waiting(u, pcs)) + 1
<1> DEFINE S == Waiting(u, pcs)
<1>1. S \subseteq Reqs /\ S' \subseteq Reqs BY DEF Waiting
<1>2. IsFiniteSet(S) /\ IsFiniteSet(S') BY <1>1, FS_Subset
<1> HIDE DEF S
<1>3. Cardinality(S) \in Nat /\ Cardinality(S') \in Nat BY <1>2, FS_CardinalityType
<1>4. S' \subseteq S => Cardinality(S') <= Cardinality(S) BY <1>2, FS_Subset
<1>5. ASSUME NEW r \in Reqs PROVE IsFiniteSet(S \cup {r}) /\ Cardinality(S \cup {r}) <= Cardinality(S) + 1
  <2>1. CASE r \in S
    <3>1. S \cup {r} = S BY <2>1
    <3> QED BY <1>2, <1>3, <3>1
  <2>2. CASE r \notin S
    <3>1. IsFiniteSet(S \cup {r}) /\ Cardinality(S \cup {r}) = Cardinality(S) + 1
      BY <1>2, <2>2, FS_AddElement
    <3> QED BY <1>3, <3>1
  <2> QED BY <2>1, <2>2
<1>6. ASSUME NEW r \in Reqs, S' \subseteq S, r \in S, r \notin S'
      PROVE  Cardinality(S') + 1 <= Cardinality(S)
  <2>1. Cardinality(S \ {r}) = Cardinality(S) - 1 /\ IsFiniteSet(S \ {r})
    BY <1>2, <1>6, FS_RemoveElement
  <2>2. S' \subseteq S \ {r} BY <1>6
  <2>3. Cardinality(S') <= Cardinality(S \ {r}) BY <2>1, <2>2, FS_Subset
  <2> QED BY <1>3, <2>1, <2>3
<1>7. ASSUME NEW r \in Reqs, S' \subseteq S \cup {r} PROVE Cardinality(S') <= Cardinality(S) + 1
  <2>1. Cardinality(S') <= Cardinality(S \cup {r}) /\ Cardinality(S \cup {r}) \in Nat
    BY <1>5, <1>7, FS_Subset, FS_CardinalityType
  <2> QED BY <1>3, <1>5, <2>1
<1> QED BY <1>3, <1>4, <1>6, <1>7 DEF S

(* A request under way that goes on owes no more than before, and pays for *)
(* its decrement.                                                          *)
LEMMA DriftKept ==
  ASSUME PaceTyped, CounterTyped, Drift, NEW r \in Reqs, Moved(r), req[r].pc # "idle",
         \A u \in Users : spans'[u] = spans[u],
         \A s \in Subjects : spans'[s] <= MaxSpans,
         \/ req'[r].pc \in {"idle", "reset"}
         \/ /\ req'[r].user = req[r].user /\ req'[r].waited = req[r].waited
            /\ req'[r].pc \in BeforeUndo => req[r].pc \in BeforeUndo
            /\ req'[r].pc \in BeforeReundo => req[r].pc \in BeforeReundo
            /\ req'[r].pc \in {"undo", "reundo"} => req[r].waited,
         \A u \in Users :
            \/ active'[u] \in {active[u], 0}
            \/ active'[u] = active[u] + 1 /\ active[u] + 1 <= MaxActive
            \/ /\ active'[u] = active[u] - 1 /\ u = req[r].user
               /\ \/ req[r].pc = "undo" /\ req'[r].pc = "reundo"
                  \/ req[r].pc \in {"undo", "reundo"} /\ req'[r].pc \in {"idle", "reset"}
  PROVE  Drift'
<1> USE DEF BeforeUndo, BeforeReundo, Counting
<1>1. \A q \in Reqs : req'[q].pc \in {"undo", "reundo"} => req'[q].waited
  BY DEF Drift, Moved
<1>2. ASSUME NEW u \in Users
      PROVE  /\ active'[u] <= MaxActive
             /\ Owed(u)' <= 2 * spans'[u]
             /\ Owed(u)' <= 2 * spans'[u] + active'[u]
  <2>1. /\ Waiting(u, BeforeUndo)' \subseteq Waiting(u, BeforeUndo)
        /\ Waiting(u, BeforeReundo)' \subseteq Waiting(u, BeforeReundo)
    BY DEF Waiting, Moved
  <2>2. /\ Owed(u) \in Nat /\ Owed(u)' \in Nat /\ Owed(u)' <= Owed(u)
    <3>1. /\ Cardinality(Waiting(u, BeforeUndo)) \in Nat
          /\ Cardinality(Waiting(u, BeforeUndo)') \in Nat
          /\ Cardinality(Waiting(u, BeforeUndo)') <= Cardinality(Waiting(u, BeforeUndo))
      BY <2>1, WaitingSize
    <3>2. /\ Cardinality(Waiting(u, BeforeReundo)) \in Nat
          /\ Cardinality(Waiting(u, BeforeReundo)') \in Nat
          /\ Cardinality(Waiting(u, BeforeReundo)') <= Cardinality(Waiting(u, BeforeReundo))
      BY <2>1, WaitingSize
    <3> HIDE DEF BeforeUndo, BeforeReundo
    <3> QED BY <3>1, <3>2 DEF Owed
  <2>3. ASSUME u = req[r].user, req[r].pc \in {"undo", "reundo"},
               \/ req[r].pc = "undo" /\ req'[r].pc = "reundo"
               \/ req'[r].pc \in {"idle", "reset"}
        PROVE  Owed(u)' + 1 <= Owed(u)
    <3>1. req[r].waited BY <2>3 DEF Drift
    <3>2. /\ Cardinality(Waiting(u, BeforeUndo)) \in Nat
          /\ Cardinality(Waiting(u, BeforeUndo)') \in Nat
          /\ Cardinality(Waiting(u, BeforeUndo)') <= Cardinality(Waiting(u, BeforeUndo))
          /\ Cardinality(Waiting(u, BeforeReundo)) \in Nat
          /\ Cardinality(Waiting(u, BeforeReundo)') \in Nat
          /\ Cardinality(Waiting(u, BeforeReundo)') <= Cardinality(Waiting(u, BeforeReundo))
      BY <2>1, WaitingSize
    <3>3. CASE req[r].pc = "undo" /\ req'[r].pc = "reundo"
      <4>1. r \in Waiting(u, BeforeUndo) /\ r \notin Waiting(u, BeforeUndo)'
        BY <2>3, <3>1, <3>3 DEF Waiting
      <4>2. Cardinality(Waiting(u, BeforeUndo)') + 1 <= Cardinality(Waiting(u, BeforeUndo))
        BY <2>1, <4>1, WaitingSize
      <4> HIDE DEF BeforeUndo, BeforeReundo
      <4> QED BY <3>2, <4>2 DEF Owed
    <3>4. CASE req'[r].pc \in {"idle", "reset"}
      <4>1. r \in Waiting(u, BeforeReundo) /\ r \notin Waiting(u, BeforeReundo)'
        BY <2>3, <3>1, <3>4 DEF Waiting
      <4>2. Cardinality(Waiting(u, BeforeReundo)') + 1 <= Cardinality(Waiting(u, BeforeReundo))
        BY <2>1, <4>1, WaitingSize
      <4> HIDE DEF BeforeUndo, BeforeReundo
      <4> QED BY <3>2, <4>2 DEF Owed
    <3> QED BY <2>3, <3>3, <3>4
  <2>4. /\ active[u] \in Int /\ spans[u] \in Nat /\ spans'[u] = spans[u]
        /\ active[u] <= MaxActive /\ Owed(u) <= 2 * spans[u]
        /\ Owed(u) <= 2 * spans[u] + active[u]
    BY DEF CounterTyped, PaceTyped, Subjects, Drift
  <2> HIDE DEF Owed, BeforeUndo, BeforeReundo
  <2>5. CASE active'[u] \in {active[u], 0} BY <2>2, <2>4, <2>5
  <2>6. CASE active'[u] = active[u] + 1 /\ active[u] + 1 <= MaxActive BY <2>2, <2>4, <2>6
  <2>7. CASE /\ active'[u] = active[u] - 1 /\ u = req[r].user
             /\ \/ req[r].pc = "undo" /\ req'[r].pc = "reundo"
                \/ req[r].pc \in {"undo", "reundo"} /\ req'[r].pc \in {"idle", "reset"}
    <3>1. Owed(u)' + 1 <= Owed(u) BY <2>3, <2>7
    <3> QED BY <2>2, <2>4, <2>7, <3>1
  <2> QED BY <2>5, <2>6, <2>7
<1> QED BY <1>1, <1>2 DEF Drift

(* Every step keeps the bounds.                                            *)
LEMMA StepDrift == DriftInv /\ [Next]_vars => Drift'
<1> SUFFICES ASSUME DriftInv, [Next]_vars PROVE Drift' OBVIOUS
<1>0. PaceTyped /\ CounterTyped /\ Drift BY DEF DriftInv, PaceInv, CounterInv
<1>t. \A r \in Reqs : req[r].pc # "idle" => req[r].user \in Users /\ req[r].fp \in Fingerprints
  BY <1>0 DEF PaceTyped
<1>b. \A r \in Reqs : req[r].pc \in Counting => req[r].waited
  BY <1>0 DEF PaceTyped
<1>1. ASSUME NEW r \in Reqs, NEW u \in Users, NEW f \in Fingerprints, CoolUser(r, u, f)
      PROVE  Drift'
  <2> DEFINE new == [pc |-> "fp", user |-> u, fp |-> f, waited |-> u \notin cooling, old |-> {}]
  <2>1. new.pc = "fp" /\ new.user = u /\ new.waited = (u \notin cooling) OBVIOUS
  <2>2. SetNx(u) /\ u \in Subjects /\ req' = [req EXCEPT ![r] = new] /\ UNCHANGED active
        /\ req[r].pc = "idle"
    BY <1>1 DEF CoolUser, Subjects
  <2> HIDE DEF new
  <2>3. req'[r] = new /\ \A q \in Reqs \ {r} : req'[q] = req[q] BY <1>0, <2>2 DEF PaceTyped
  <2>4. \A q \in Reqs : req'[q].pc \in {"undo", "reundo"} => req'[q].waited
    BY <1>0, <2>1, <2>3 DEF Drift
  <2>5. \A s \in Subjects : /\ spans'[s] \in Nat /\ spans'[s] <= MaxSpans
                            /\ spans'[s] = IF s = u /\ u \notin cooling THEN spans[s] + 1 ELSE spans[s]
    BY <1>0, <2>2 DEF SetNx, PaceTyped, Drift
  <2>6. ASSUME NEW v \in Users
        PROVE  /\ Owed(v)' <= 2 * spans'[v] /\ Owed(v)' <= 2 * spans'[v] + active[v]
    <3>1. /\ active[v] \in Int /\ spans[v] \in Nat /\ v \in Subjects
          /\ Owed(v) <= 2 * spans[v] /\ Owed(v) <= 2 * spans[v] + active[v]
      BY <1>0 DEF CounterTyped, PaceTyped, Drift, Subjects
    <3>2. /\ Waiting(v, BeforeUndo)' \subseteq Waiting(v, BeforeUndo) \cup {r}
          /\ Waiting(v, BeforeReundo)' \subseteq Waiting(v, BeforeReundo) \cup {r}
      BY <2>3 DEF Waiting
    <3>3. /\ Cardinality(Waiting(v, BeforeUndo)) \in Nat
          /\ Cardinality(Waiting(v, BeforeUndo)') \in Nat
          /\ Cardinality(Waiting(v, BeforeUndo)') <= Cardinality(Waiting(v, BeforeUndo)) + 1
          /\ Cardinality(Waiting(v, BeforeReundo)) \in Nat
          /\ Cardinality(Waiting(v, BeforeReundo)') \in Nat
          /\ Cardinality(Waiting(v, BeforeReundo)') <= Cardinality(Waiting(v, BeforeReundo)) + 1
      BY <3>2, WaitingSize
    <3>4. Owed(v) \in Nat /\ Owed(v)' \in Nat /\ Owed(v)' <= Owed(v) + 2
      BY <3>3 DEF Owed
    <3>5. CASE v = u /\ u \notin cooling
      <4>1. spans'[v] = spans[v] + 1 BY <2>5, <3>1, <3>5
      <4> HIDE DEF Owed
      <4> QED BY <3>1, <3>4, <4>1
    <3>6. CASE ~(v = u /\ u \notin cooling)
      <4>1. /\ Waiting(v, BeforeUndo)' \subseteq Waiting(v, BeforeUndo)
            /\ Waiting(v, BeforeReundo)' \subseteq Waiting(v, BeforeReundo)
        BY <2>1, <2>3, <3>6 DEF Waiting
      <4>2. /\ Cardinality(Waiting(v, BeforeUndo)') <= Cardinality(Waiting(v, BeforeUndo))
            /\ Cardinality(Waiting(v, BeforeReundo)') <= Cardinality(Waiting(v, BeforeReundo))
        BY <4>1, WaitingSize
      <4>3. Owed(v)' <= Owed(v) BY <3>3, <4>2 DEF Owed
      <4>4. spans'[v] = spans[v] BY <2>5, <3>1, <3>6
      <4> HIDE DEF Owed
      <4> QED BY <3>1, <3>4, <4>3, <4>4
    <3> QED BY <3>5, <3>6
  <2> QED BY <1>0, <2>2, <2>4, <2>5, <2>6 DEF Drift
<1>2. ASSUME NEW r \in Reqs, CoolFingerprint(r) PROVE Drift'
  <2>1. /\ SetNx(req[r].fp) /\ req[r].fp \in Fingerprints /\ req[r].pc = "fp"
        /\ UNCHANGED active
        /\ Finish(r) \/ Goto(r, "count")
    BY <1>2, <1>t DEF CoolFingerprint
  <2>2. \A s \in Subjects : spans'[s] <= MaxSpans /\ (s \in Users => spans'[s] = spans[s])
    BY <1>0, <2>1 DEF SetNx, PaceTyped, Drift, Subjects
  <2>3. /\ Moved(r)
        /\ \/ req'[r].pc = "idle"
           \/ req'[r].pc = "count" /\ req'[r].user = req[r].user /\ req'[r].waited = req[r].waited
    BY <1>0, <2>1, FinishMoves, GotoMoves
  <2>4. req[r].pc \in BeforeUndo /\ req[r].pc \in BeforeReundo
    BY <2>1 DEF BeforeUndo, BeforeReundo
  <2>5. /\ \A u \in Users : spans'[u] = spans[u] /\ active'[u] = active[u]
        /\ \A s \in Subjects : spans'[s] <= MaxSpans
    BY <2>1, <2>2 DEF Subjects
  <2> QED BY <1>0, <2>1, <2>3, <2>4, <2>5, DriftKept
<1>3. ASSUME UNCHANGED spans
      PROVE  /\ \A u \in Users : spans'[u] = spans[u]
             /\ \A s \in Subjects : spans'[s] <= MaxSpans
  BY <1>0, <1>3 DEF Drift
<1>4. ASSUME NEW r \in Reqs, CountActive(r) \/ CountLost(r) PROVE Drift'
  <2>1. /\ UNCHANGED spans /\ req[r].pc \in {"count", "recount"}
        /\ Finish(r) \/ Goto(r, "recount") \/ Goto(r, "select")
    BY <1>4 DEF CountActive, CountLost, redisVars
  <2>2. \A u \in Users : \/ active'[u] = active[u]
                         \/ active'[u] = active[u] + 1 /\ active[u] + 1 <= MaxActive
    BY <1>0, <1>4 DEF CountActive, CountLost, redisVars, CounterTyped
  <2>3. /\ Moved(r)
        /\ \/ req'[r].pc = "idle"
           \/ /\ req'[r].pc \in {"recount", "select"}
              /\ req'[r].user = req[r].user /\ req'[r].waited = req[r].waited
    BY <1>0, <2>1, FinishMoves, GotoMoves
  <2> QED BY <1>0, <1>3, <2>1, <2>2, <2>3, DriftKept DEF BeforeUndo, BeforeReundo, Counting
<1>5. ASSUME NEW r \in Reqs,
             SelectOld(r) \/ InvalidateOld(r) \/ InvalidateFails(r) \/ CommitToken(r) \/ CommitFails(r)
      PROVE  Drift'
  <2>1. /\ UNCHANGED <<spans, active>> /\ req[r].pc \in {"select", "invalidate", "commit"}
    BY <1>5 DEF SelectOld, InvalidateOld, InvalidateFails, CommitToken, CommitFails, redisVars
  <2>2. /\ Moved(r)
        /\ \/ req'[r].pc = "idle"
           \/ /\ req'[r].pc \in {"invalidate", "commit", "undo"}
              /\ req'[r].user = req[r].user /\ req'[r].waited = req[r].waited
    <3>1. CASE SelectOld(r) BY <1>0, <3>1, SelectMoves
    <3>2. CASE Finish(r) \/ Goto(r, "commit") \/ Goto(r, "undo")
      BY <1>0, <3>2, FinishMoves, GotoMoves
    <3> QED BY <1>5, <3>1, <3>2 DEF InvalidateOld, InvalidateFails, CommitToken, CommitFails
  <2>3. req[r].waited BY <1>b, <2>1 DEF Counting
  <2> QED BY <1>0, <1>3, <2>1, <2>2, <2>3, DriftKept DEF BeforeUndo, BeforeReundo, Counting
<1>6. ASSUME NEW r \in Reqs, Decrement(r) \/ DecrementLost(r) PROVE Drift'
  <2>1. /\ UNCHANGED spans /\ req[r].pc \in {"undo", "reundo"}
        /\ active' = [active EXCEPT ![req[r].user] = @ - 1]
        /\ \/ Finish(r) \/ Goto(r, "reset")
           \/ Goto(r, "reundo") /\ req[r].pc = "undo"
    BY <1>6 DEF Decrement, DecrementLost
  <2>2. /\ Moved(r)
        /\ \/ req'[r].pc \in {"idle", "reset"}
           \/ /\ req[r].pc = "undo" /\ req'[r].pc = "reundo"
              /\ req'[r].user = req[r].user /\ req'[r].waited = req[r].waited
    BY <1>0, <2>1, FinishMoves, GotoMoves
  <2>3. \A u \in Users : IF u = req[r].user THEN active'[u] = active[u] - 1 ELSE active'[u] = active[u]
    BY <1>0, <2>1 DEF CounterTyped
  <2>4. req[r].waited BY <1>0, <2>1 DEF Drift
  <2> QED BY <1>0, <1>3, <2>1, <2>2, <2>3, <2>4, DriftKept DEF BeforeUndo, BeforeReundo, Counting
<1>7. ASSUME NEW r \in Reqs, ResetCounter(r) \/ Abort(r) PROVE Drift'
  <2>1. UNCHANGED spans /\ Finish(r) /\ req[r].pc # "idle"
    BY <1>7 DEF ResetCounter, Abort, redisVars
  <2>2. Moved(r) /\ req'[r].pc = "idle" BY <1>0, <2>1, FinishMoves
  <2>3. \A u \in Users : active'[u] \in {active[u], 0}
    BY <1>0, <1>7 DEF ResetCounter, Abort, redisVars, CounterTyped
  <2> QED BY <1>0, <1>3, <2>1, <2>2, <2>3, DriftKept
<1>8. CASE \/ \E s \in Subjects : LapseCooldown(s)
           \/ \E u \in Users : LapseCounter(u)
           \/ \E i \in Ids : LapseToken(i)
           \/ UNCHANGED vars
  <2>1. req' = req /\ spans' = spans
    BY <1>8 DEF LapseCooldown, LapseCounter, LapseToken, vars, redisVars
  <2>2. \A u \in Users : active'[u] \in {active[u], 0}
    BY <1>0, <1>8 DEF LapseCooldown, LapseCounter, LapseToken, vars, redisVars, CounterTyped
  <2>3. \A u \in Users : Owed(u)' = Owed(u) BY <2>1 DEF Owed, Waiting
  <2>4. ASSUME NEW u \in Users
        PROVE  /\ active'[u] <= MaxActive /\ Owed(u)' <= 2 * spans'[u]
               /\ Owed(u)' <= 2 * spans'[u] + active'[u]
    <3>1. /\ Owed(u) <= 2 * spans[u] /\ Owed(u) <= 2 * spans[u] + active[u]
          /\ active[u] <= MaxActive /\ Owed(u)' = Owed(u) /\ spans'[u] = spans[u]
          /\ active'[u] \in {active[u], 0} /\ active[u] \in Int /\ spans[u] \in Nat
      BY <1>0, <2>1, <2>2, <2>3 DEF Drift, CounterTyped, PaceTyped, Subjects
    <3>2. Owed(u) \in Nat
      <4>1. Cardinality(Waiting(u, BeforeUndo)) \in Nat /\ Cardinality(Waiting(u, BeforeReundo)) \in Nat
        BY WaitingSize
      <4> QED BY <4>1 DEF Owed
    <3> HIDE DEF Owed
    <3> QED BY <3>1, <3>2
  <2> QED BY <1>0, <2>1, <2>4 DEF Drift
<1> QED BY <1>1, <1>2, <1>4, <1>5, <1>6, <1>7, <1>8 DEF Next

LEMMA InitDrift == Init => Drift
<1> SUFFICES ASSUME Init PROVE Drift OBVIOUS
<1>1. IdleReq.pc = "idle" BY DEF IdleReq
<1>2. ASSUME NEW u \in Users PROVE Owed(u) = 0
  <2>1. Waiting(u, BeforeUndo) = {} /\ Waiting(u, BeforeReundo) = {}
    BY <1>1 DEF Init, Waiting, BeforeUndo, BeforeReundo, Counting
  <2> QED BY <2>1, FS_EmptySet DEF Owed
<1> QED BY <1>1, <1>2 DEF Init, Drift, Subjects

(* No counter of active tokens exceeds MaxActive, and one falls below zero *)
(* by at most two for each cooldown of its user; everything else keeps its *)
(* type.                                                                   *)
THEOREM TypeCorrect == Spec => []TypeOK
<1>1. Init => DriftInv BY InitPace, InitCounter, InitDrift DEF DriftInv
<1>2. DriftInv /\ [Next]_vars => DriftInv'
  BY StepPace, StepCounter, StepDrift DEF DriftInv
<1>3. ASSUME DriftInv PROVE TypeOK
  <2>1. PaceTyped /\ CounterTyped /\ Drift BY <1>3 DEF DriftInv, PaceInv, CounterInv
  <2>2. \A s \in Subjects : spans[s] \in 0 .. MaxSpans BY <2>1 DEF PaceTyped, Drift
  <2>3. ASSUME NEW u \in Users PROVE active[u] \in (-2 * MaxSpans) .. MaxActive
    <3>1. /\ Cardinality(Waiting(u, BeforeUndo)) \in Nat
          /\ Cardinality(Waiting(u, BeforeReundo)) \in Nat
      BY WaitingSize
    <3>2. Owed(u) \in Nat BY <3>1 DEF Owed
    <3>3. /\ active[u] \in Int /\ spans[u] \in 0 .. MaxSpans /\ active[u] <= MaxActive
          /\ Owed(u) <= 2 * spans[u] + active[u]
      BY <2>1, <2>2 DEF CounterTyped, Drift, Subjects
    <3> HIDE DEF Owed
    <3> QED BY <3>2, <3>3
  <2>4. active \in [Users -> (-2 * MaxSpans) .. MaxActive]
        /\ spans \in [Subjects -> 0 .. MaxSpans]
    BY <2>1, <2>2, <2>3 DEF CounterTyped, PaceTyped
  <2>5. outbox \subseteq Ids BY <2>1 DEF PaceTyped, Inserted
  <2> QED BY <2>1, <2>4, <2>5 DEF PaceTyped, CounterTyped, TypeOK
<1> QED BY <1>1, <1>2, <1>3, PTL DEF Spec

=============================================================================
