--------------------------- MODULE RateLimit_proofs ---------------------------
(* The counters keep their promises for any number of keys and requests    *)
(* and any limit.                                                          *)
EXTENDS RateLimit, FiniteSetTheorems, FunctionTheorems, TLAPS

(* The counters may take any value.                                        *)
Typed ==
    /\ count \in [Keys -> Nat] /\ epoch \in [Keys -> Nat] /\ ttl \subseteq Keys
    /\ req \in [Reqs -> Request]

(* A request counted in this epoch of its key or in an earlier one; as     *)
(* long as it is this one, the key exists and its value is not below what  *)
(* the request read.                                                       *)
CountedBefore ==
    \A r \in Reqs : IF req[r].pc = "idle" THEN req[r].key = None ELSE
        /\ req[r].key \in Keys
        /\ req[r].epoch <= epoch[req[r].key]
        /\ req[r].nth >= 1
        /\ CountedNow(r, req[r].key) => req[r].nth <= count[req[r].key]

(* INCR is atomic: no two requests of an epoch read the same value.        *)
ValuesDiffer ==
    \A r, q \in Reqs :
        (r # q /\ req[r].pc # "idle" /\ req[q].pc # "idle"
         /\ req[r].key = req[q].key /\ req[r].epoch = req[q].epoch)
        => req[r].nth # req[q].nth

PassedWithin == \A r \in Reqs : req[r].pc = "passed" => req[r].nth <= Limit

(* The inductive invariant.                                                *)
IInv == /\ Typed /\ CountedBefore /\ ValuesDiffer /\ PassedWithin
        /\ RefusalEnds /\ EndlessOnlyByFault

USE RateLimitAssumption

(* It holds before anyone has counted.                                     *)
LEMMA InitInv == Init => IInv
<1> SUFFICES ASSUME Init PROVE IInv OBVIOUS
<1>1. IdleReq \in Request /\ IdleReq.pc = "idle" /\ IdleReq.key = None BY DEF IdleReq, Request
<1>2. Typed BY <1>1 DEF Init, Typed
<1> QED BY <1>1, <1>2 DEF Init, IInv, CountedBefore, ValuesDiffer, PassedWithin, RefusalEnds,
           EndlessOnlyByFault

(* INCR keeps it, whatever the request does next, provided it was told the *)
(* truth: it passes within the limit, and it skips EXPIRE only on a key    *)
(* with a fixed window that was there before.                              *)
LEMMA CountKeeps ==
  ASSUME IInv, NEW r \in Reqs, NEW k \in Keys, CanCount(r, k),
         NEW pc \in {"resend", "expire", "passed", "refused"}, Counted(r, k, pc),
         pc = "resend" => req[r].pc = "idle",
         pc = "expire" => SetsExpiry(k, count[k] + 1),
         pc \in {"passed", "refused"} => ~SetsExpiry(k, count[k] + 1),
         pc = "passed" => count[k] + 1 <= Limit
  PROVE  IInv'
<1> USE DEF IInv, Typed
<1>1. count[k] \in Nat /\ epoch[k] \in Nat /\ ttl' = ttl /\ epoch' = epoch
  BY DEF Counted
<1>2. count' = [count EXCEPT ![k] = count[k] + 1]
  BY DEF Counted
<1>3. /\ req'[r].pc = pc /\ req'[r].key = k /\ req'[r].nth = count[k] + 1 /\ req'[r].epoch = epoch[k]
      /\ (req[r].pc = "resend" \/ pc = "resend") => req'[r].resent
  BY DEF Counted
<1>4. \A q \in Reqs : q # r => req'[q] = req[q]
  BY DEF Counted
<1>5. Typed'
  <2>1. [pc |-> pc, key |-> k, nth |-> count[k] + 1, resent |-> req[r].pc = "resend" \/ pc = "resend",
         epoch |-> epoch[k]] \in Request
    BY <1>1 DEF Request
  <2> QED BY <1>1, <1>2, <2>1 DEF Counted
<1>6. CountedBefore'
  <2> SUFFICES ASSUME NEW q \in Reqs
               PROVE  (IF req[q].pc = "idle" THEN req[q].key = None ELSE
                         /\ req[q].key \in Keys /\ req[q].epoch <= epoch[req[q].key] /\ req[q].nth >= 1
                         /\ CountedNow(q, req[q].key) => req[q].nth <= count[req[q].key])'
    BY DEF CountedBefore
  <2>1. CASE q = r BY <2>1, <1>1, <1>2, <1>3 DEF CountedNow
  <2>2. CASE q # r
    BY <2>2, <1>1, <1>2, <1>4 DEF CountedNow, CountedBefore, Request
  <2> QED BY <2>1, <2>2
<1>7. ValuesDiffer'
  <2>1. \A q \in Reqs : q # r /\ req[q].pc # "idle" /\ req[q].key = k /\ req[q].epoch = epoch[k]
                         => req[q].nth <= count[k] /\ req[q].nth \in Nat
    BY DEF CountedBefore, CountedNow, Request
  <2> QED BY <2>1, <1>1, <1>3, <1>4 DEF ValuesDiffer
<1>8. PassedWithin'
  BY <1>3, <1>4 DEF PassedWithin
<1>9. RefusalEnds'
  <2>1. pc = "refused" => k \notin Renewed BY DEF SetsExpiry
  <2> QED BY <2>1, <1>1, <1>3, <1>4 DEF RefusalEnds, CountedNow
<1>10. EndlessOnlyByFault'
  <2> DEFINE Culprit(q, j) ==
        /\ CountedNow(q, j)
        /\ \/ req[q].pc \in {"resend", "expire", "dead"} /\ (j \in Fixed => req[q].nth = 1)
           \/ j \in Fixed /\ req[q].resent
  <2> SUFFICES ASSUME NEW j \in Keys, count'[j] > 0, j \notin ttl'
               PROVE  \E q \in Reqs : Culprit(q, j)'
    BY DEF EndlessOnlyByFault
  <2>1. count[j] > 0 => \E q \in Reqs : Culprit(q, j)
    BY <1>1 DEF EndlessOnlyByFault
  <2>2. \A q \in Reqs : q # r /\ Culprit(q, j) => Culprit(q, j)'
    BY <1>1, <1>4 DEF CountedNow
  <2>3. CASE j # k
    <3>1. ~CountedNow(r, j)
      BY <2>3 DEF CountedNow, CountedBefore, CanCount, Keys
    <3> QED BY <2>1, <2>2, <2>3, <3>1, <1>2
  <2>4. CASE j = k /\ (pc = "expire" \/ req[r].pc = "resend" \/ pc = "resend")
    <3>1. CountedNow(r, k)' BY <1>1, <1>3 DEF CountedNow
    <3>2. CASE k \in Renewed
      <4>1. k \notin Fixed BY <3>2
      <4>2. pc \in {"resend", "expire"} BY <3>2 DEF SetsExpiry
      <4> QED BY <2>4, <3>1, <4>1, <4>2, <1>3
    <3>3. CASE k \in Fixed /\ pc = "expire"
      BY <2>4, <3>1, <3>3, <1>3 DEF SetsExpiry
    <3>4. CASE k \in Fixed /\ (req[r].pc = "resend" \/ pc = "resend")
      BY <2>4, <3>1, <3>4, <1>3
    <3> QED BY <2>4, <3>2, <3>3, <3>4 DEF Keys
  <2>5. CASE j = k /\ pc \in {"passed", "refused"} /\ req[r].pc = "idle"
    <3>1. count[k] > 0 BY <2>5, <1>1 DEF SetsExpiry
    <3>2. ~CountedNow(r, j) BY <2>5 DEF CountedNow, CountedBefore, Keys
    <3> QED BY <2>1, <2>2, <2>5, <3>1, <3>2
  <2> QED BY <2>3, <2>4, <2>5 DEF CanCount
<1> QED BY <1>5, <1>6, <1>7, <1>8, <1>9, <1>10

(* Every step keeps the inductive invariant.                               *)
LEMMA StepInv == IInv /\ [Next]_vars => IInv'
<1> SUFFICES ASSUME IInv, [Next]_vars PROVE IInv'
  OBVIOUS
<1> USE DEF IInv
<1>1. CASE UNCHANGED vars
  BY <1>1 DEF vars, Typed, CountedBefore, ValuesDiffer, PassedWithin, RefusalEnds,
              EndlessOnlyByFault, CountedNow
<1>2. ASSUME NEW r \in Reqs, NEW k \in Keys, Increment(r, k) PROVE IInv'
  <2> DEFINE nth == count[k] + 1
             pc == IF SetsExpiry(k, nth) THEN "expire" ELSE Verdict(nth)
  <2>1. CanCount(r, k) /\ Counted(r, k, pc) BY <1>2 DEF Increment
  <2>2. nth \in Nat BY DEF Typed
  <2>3. /\ pc \in {"expire", "passed", "refused"}
        /\ pc = "expire" => SetsExpiry(k, nth)
        /\ pc \in {"passed", "refused"} => ~SetsExpiry(k, nth)
        /\ pc = "passed" => nth <= Limit
    BY <2>2 DEF Verdict
  <2> HIDE DEF pc
  <2> QED BY <2>1, <2>3, CountKeeps
<1>3. ASSUME NEW r \in Reqs, NEW k \in Keys, LoseAnswer(r, k) PROVE IInv'
  BY <1>3, CountKeeps DEF LoseAnswer, CanCount
<1>4. ASSUME NEW r \in Reqs, SetExpiry(r) \/ Die(r) PROVE IInv'
  <2> DEFINE k == req[r].key
  <2>1. /\ count' = count /\ epoch' = epoch
        /\ req[r].pc \in {"resend", "expire"} /\ k \in Keys
        /\ \A j \in Keys : j # k => (j \in ttl' <=> j \in ttl)
        /\ ttl \subseteq ttl'
    BY <1>4 DEF SetExpiry, Die, CountedBefore, Typed
  <2>2. PICK pc \in {"passed", "refused", "dead"} :
          /\ req' = [req EXCEPT ![r].pc = pc]
          /\ pc = "passed" => req[r].nth <= Limit
          /\ pc # "dead" /\ count[k] > 0 => k \in ttl'
    <3>1. CASE Die(r) BY <3>1 DEF Die
    <3>2. CASE SetExpiry(r)
      <4>1. req[r].nth \in Nat BY DEF Typed, Request
      <4>2. Verdict(req[r].nth) = "passed" => req[r].nth <= Limit
        BY <4>1 DEF Verdict
      <4>3. Verdict(req[r].nth) \in {"passed", "refused"} BY DEF Verdict
      <4> QED BY <3>2, <4>2, <4>3 DEF SetExpiry
    <3> QED BY <1>4, <3>1, <3>2
  <2>3. Typed'
    <3>1. ttl' \subseteq Keys BY <1>4, <2>1 DEF SetExpiry, Die, Typed
    <3> QED BY <2>1, <2>2, <3>1 DEF Typed, Request
  <2>4. CountedBefore' /\ ValuesDiffer'
    BY <2>1, <2>2 DEF CountedBefore, ValuesDiffer, CountedNow, Typed
  <2>5. PassedWithin' BY <2>2 DEF PassedWithin, Typed
  <2>6. RefusalEnds'
    <3>1. CountedNow(r, k) => count[k] > 0
      BY <2>1 DEF CountedBefore, Typed, Request
    <3>2. ASSUME NEW q \in Reqs, NEW j \in Renewed, (req[q].pc = "refused" /\ CountedNow(q, j))'
          PROVE  j \in ttl'
      <4>1. CASE q = r BY <3>1, <3>2, <4>1, <2>1, <2>2 DEF CountedNow, Typed
      <4>2. CASE q # r BY <3>2, <4>2, <2>1, <2>2 DEF RefusalEnds, CountedNow, Typed
      <4> QED BY <4>1, <4>2
    <3> QED BY <3>2 DEF RefusalEnds
  <2>7. EndlessOnlyByFault'
    <3> SUFFICES ASSUME NEW j \in Keys, count[j] > 0, j \notin ttl'
                 PROVE  \E q \in Reqs :
                          /\ CountedNow(q, j)'
                          /\ \/ req'[q].pc \in {"resend", "expire", "dead"} /\ (j \in Fixed => req'[q].nth = 1)
                             \/ j \in Fixed /\ req'[q].resent
      BY <2>1 DEF EndlessOnlyByFault
    <3>1. PICK q \in Reqs :
            /\ CountedNow(q, j)
            /\ \/ req[q].pc \in {"resend", "expire", "dead"} /\ (j \in Fixed => req[q].nth = 1)
               \/ j \in Fixed /\ req[q].resent
      BY <2>1 DEF EndlessOnlyByFault
    <3>2. CountedNow(q, j)' BY <3>1, <2>1, <2>2 DEF CountedNow, Typed
    <3>3. q = r => pc = "dead" BY <3>1, <2>2 DEF CountedNow
    <3> QED BY <3>1, <3>2, <3>3, <2>2 DEF Typed
  <2> QED BY <2>3, <2>4, <2>5, <2>6, <2>7
<1>5. ASSUME NEW k \in Keys, Expire(k) PROVE IInv'
  <2>1. Typed' BY <1>5 DEF Expire, Typed
  <2>2. \A r \in Reqs : ~CountedNow(r, k)'
    BY <1>5 DEF Expire, Typed, CountedBefore, CountedNow, Request, Keys
  <2>3. \A r \in Reqs, j \in Keys : j # k => (CountedNow(r, j)' <=> CountedNow(r, j))
    BY <1>5 DEF Expire, Typed, CountedNow
  <2>4. CountedBefore'
    <3> SUFFICES ASSUME NEW r \in Reqs, req[r].pc # "idle"
                 PROVE  /\ req[r].epoch <= epoch'[req[r].key]
                        /\ CountedNow(r, req[r].key)' => req[r].nth <= count'[req[r].key]
      BY <1>5 DEF Expire, CountedBefore
    <3>1. CASE req[r].key = k BY <3>1, <1>5, <2>2 DEF Expire, Typed, CountedBefore, Request
    <3>2. CASE req[r].key # k BY <3>2, <1>5, <2>3 DEF Expire, Typed, CountedBefore
    <3> QED BY <3>1, <3>2
  <2>5. ValuesDiffer' /\ PassedWithin' BY <1>5 DEF Expire, ValuesDiffer, PassedWithin
  <2>6. RefusalEnds' BY <1>5, <2>2, <2>3 DEF Expire, RefusalEnds, Keys
  <2>7. EndlessOnlyByFault' BY <1>5, <2>2, <2>3 DEF Expire, EndlessOnlyByFault, Typed
  <2> QED BY <2>1, <2>4, <2>5, <2>6, <2>7
<1> QED BY <1>1, <1>2, <1>3, <1>4, <1>5 DEF Next

(* The inductive invariant holds always.                                   *)
THEOREM Invariance == Spec => []IInv
<1> QED BY InitInv, StepInv, PTL DEF Spec

(* A refused caller of increment may come back, for any number of requests *)
(* that overlap, fail, or are sent twice.                                  *)
THEOREM RefusalsEnd == Spec => []RefusalEnds
<1>1. IInv => RefusalEnds BY DEF IInv
<1> QED BY Invariance, <1>1, PTL

(* Only a fault leaves a counter that never expires.                       *)
THEOREM EndlessIsFault == Spec => []EndlessOnlyByFault
<1>1. IInv => EndlessOnlyByFault BY DEF IInv
<1> QED BY Invariance, <1>1, PTL

(* No window lets more than Limit requests pass: the values they read are  *)
(* different numbers between 1 and Limit.                                  *)
THEOREM WindowsAreCapped == Spec => []WindowCapped
<1>1. ASSUME IInv PROVE WindowCapped
  <2> SUFFICES ASSUME NEW k \in Keys, NEW e \in 0 .. 2 * Cardinality(Reqs)
               PROVE  Cardinality({r \in Reqs : req[r].pc = "passed" /\ req[r].key = k
                                                /\ req[r].epoch = e}) <= Limit
    BY DEF WindowCapped
  <2> DEFINE S == {r \in Reqs : req[r].pc = "passed" /\ req[r].key = k /\ req[r].epoch = e}
             f == [r \in S |-> req[r].nth]
  <2>1. f \in [S -> 1 .. Limit]
    BY <1>1 DEF IInv, Typed, CountedBefore, PassedWithin, Request
  <2>2. \A r, q \in S : f[r] = f[q] => r = q
    BY <1>1 DEF IInv, ValuesDiffer
  <2>3. f \in Injection(S, 1 .. Limit)
    BY <2>1, <2>2, Fun_IsInj
  <2>4. IsFiniteSet(1 .. Limit) /\ Cardinality(1 .. Limit) = Limit
    BY FS_Interval
  <2> HIDE DEF S, f
  <2>5. Cardinality(S) <= Limit
    BY <2>3, <2>4, FS_Injection
  <2> QED BY <2>5 DEF S
<1> QED BY Invariance, <1>1, PTL

(* The commands sent: each request counts once, and once more when the     *)
(* answer was lost.                                                        *)
SentOnce == {r \in Reqs : req[r].pc # "idle"}
SentTwice == {r \in Reqs : req[r].resent /\ req[r].pc \notin {"idle", "resend"}}

(* What a key holds and how often it began anew are paid for by these      *)
(* commands, for an expiry takes at least one count away.                  *)
Accounted ==
    /\ ttl \subseteq {k \in Keys : count[k] > 0}
    /\ \A k \in Keys : count[k] + epoch[k] <= Cardinality(SentOnce) + Cardinality(SentTwice)

(* Sets of requests have a size that grows with the set, by one for a new  *)
(* member.                                                                 *)
LEMMA Sizes ==
  ASSUME NEW S \in SUBSET Reqs, NEW T \in SUBSET Reqs, S \subseteq T
  PROVE  /\ Cardinality(S) \in Nat /\ Cardinality(T) \in Nat
         /\ Cardinality(S) <= Cardinality(T)
         /\ \A r \in T : r \notin S => Cardinality(S) + 1 <= Cardinality(T)
<1>1. IsFiniteSet(S) /\ IsFiniteSet(T) BY FS_Subset
<1>2. Cardinality(S) \in Nat /\ Cardinality(T) \in Nat /\ Cardinality(S) <= Cardinality(T)
  BY <1>1, FS_CardinalityType, FS_Subset
<1>3. ASSUME NEW r \in T, r \notin S PROVE Cardinality(S) + 1 <= Cardinality(T)
  <2>1. Cardinality(S \cup {r}) = Cardinality(S) + 1 BY <1>1, <1>3, FS_AddElement
  <2>2. Cardinality(S \cup {r}) <= Cardinality(T) BY <1>1, <1>3, FS_Subset
  <2> QED BY <2>1, <2>2
<1> QED BY <1>2, <1>3

(* Whoever counts is one more in one of the two sets.                      *)
LEMMA CountPays ==
  ASSUME Typed, NEW r \in Reqs, NEW k \in Keys, CanCount(r, k),
         NEW pc \in {"resend", "expire", "passed", "refused"}, Counted(r, k, pc),
         pc = "resend" => req[r].pc = "idle"
  PROVE  Cardinality(SentOnce)' + Cardinality(SentTwice)'
           >= Cardinality(SentOnce) + Cardinality(SentTwice) + 1
<1>1. /\ req'[r].pc = pc /\ req'[r].resent = (req[r].pc = "resend" \/ pc = "resend")
      /\ \A q \in Reqs : q # r => req'[q] = req[q]
  BY DEF Counted, Typed
<1>2. SentOnce \subseteq SentOnce' /\ SentTwice \subseteq SentTwice'
  BY <1>1 DEF SentOnce, SentTwice, CanCount
<1>3. SentOnce' \subseteq Reqs /\ SentTwice' \subseteq Reqs
      /\ SentOnce \subseteq Reqs /\ SentTwice \subseteq Reqs
  BY DEF SentOnce, SentTwice
<1>4. (r \in SentOnce' /\ r \notin SentOnce) \/ (r \in SentTwice' /\ r \notin SentTwice)
  BY <1>1 DEF SentOnce, SentTwice, CanCount
<1> HIDE DEF SentOnce, SentTwice
<1>5. /\ Cardinality(SentOnce) \in Nat /\ Cardinality(SentOnce') \in Nat
      /\ Cardinality(SentOnce) <= Cardinality(SentOnce')
      /\ r \in SentOnce' /\ r \notin SentOnce => Cardinality(SentOnce) + 1 <= Cardinality(SentOnce')
  BY <1>2, <1>3, Sizes
<1>6. /\ Cardinality(SentTwice) \in Nat /\ Cardinality(SentTwice') \in Nat
      /\ Cardinality(SentTwice) <= Cardinality(SentTwice')
      /\ r \in SentTwice' /\ r \notin SentTwice => Cardinality(SentTwice) + 1 <= Cardinality(SentTwice')
  BY <1>2, <1>3, Sizes
<1> QED BY <1>4, <1>5, <1>6

(* Every count is paid for before and after each step.                     *)
LEMMA StepAccounted == IInv /\ Accounted /\ [Next]_vars => Accounted'
<1> SUFFICES ASSUME IInv, Accounted, [Next]_vars PROVE Accounted'
  OBVIOUS
<1> DEFINE Paid == Cardinality(SentOnce) + Cardinality(SentTwice)
<1>1. Typed BY DEF IInv
<1>2. SentOnce \subseteq Reqs /\ SentTwice \subseteq Reqs
      /\ SentOnce' \subseteq Reqs /\ SentTwice' \subseteq Reqs
  BY DEF SentOnce, SentTwice
<1>3. Paid \in Nat /\ Paid' \in Nat
  <2>1. Cardinality(SentOnce) \in Nat /\ Cardinality(SentTwice) \in Nat
    BY <1>2, Sizes
  <2>2. Cardinality(SentOnce') \in Nat /\ Cardinality(SentTwice') \in Nat
    BY <1>2, Sizes
  <2> QED BY <2>1, <2>2
<1>4. ASSUME SentOnce \subseteq SentOnce', SentTwice \subseteq SentTwice'
      PROVE  Paid' >= Paid
  <2>1. Cardinality(SentOnce) \in Nat /\ Cardinality(SentOnce') \in Nat
        /\ Cardinality(SentOnce) <= Cardinality(SentOnce')
    BY <1>2, <1>4, Sizes
  <2>2. Cardinality(SentTwice) \in Nat /\ Cardinality(SentTwice') \in Nat
        /\ Cardinality(SentTwice) <= Cardinality(SentTwice')
    BY <1>2, <1>4, Sizes
  <2> QED BY <2>1, <2>2
<1>5. ASSUME NEW r \in Reqs, NEW k \in Keys, CanCount(r, k),
             NEW pc \in {"resend", "expire", "passed", "refused"}, Counted(r, k, pc),
             pc = "resend" => req[r].pc = "idle"
      PROVE  Accounted'
  <2>1. Paid' >= Paid + 1 BY <1>1, <1>5, CountPays, <1>3
  <2> HIDE DEF Paid
  <2>2. /\ \A j \in Keys : count'[j] \in Nat /\ count'[j] <= count[j] + 1 /\ count'[j] >= count[j]
        /\ epoch' = epoch /\ ttl' = ttl
    BY <1>1, <1>5 DEF Counted, Typed
  <2>3. \A j \in Keys : count[j] + epoch[j] <= Paid /\ epoch[j] \in Nat /\ count[j] \in Nat
    BY <1>1 DEF Accounted, Paid, Typed
  <2>4. \A j \in Keys : count'[j] + epoch'[j] <= Paid'
    BY <2>1, <2>2, <2>3, <1>3
  <2>5. ttl' \subseteq {j \in Keys : count'[j] > 0}
    BY <2>2, <2>3 DEF Accounted
  <2> QED BY <2>4, <2>5 DEF Accounted, Paid
<1>6. ASSUME NEW r \in Reqs, NEW k \in Keys, Increment(r, k) PROVE Accounted'
  <2>1. Verdict(count[k] + 1) \in {"passed", "refused"} BY DEF Verdict
  <2> DEFINE pc == IF SetsExpiry(k, count[k] + 1) THEN "expire" ELSE Verdict(count[k] + 1)
  <2>2. CanCount(r, k) /\ Counted(r, k, pc) /\ pc \in {"expire", "passed", "refused"}
    BY <1>6, <2>1 DEF Increment
  <2> HIDE DEF pc
  <2> QED BY <2>2, <1>5
<1>7. ASSUME NEW r \in Reqs, NEW k \in Keys, LoseAnswer(r, k) PROVE Accounted'
  BY <1>7, <1>5 DEF LoseAnswer, CanCount
<1>8. ASSUME NEW r \in Reqs, SetExpiry(r) \/ Die(r) PROVE Accounted'
  <2>1. req[r].pc \in {"resend", "expire"} /\ count' = count /\ epoch' = epoch
    BY <1>8 DEF SetExpiry, Die
  <2>2. PICK pc \in {"passed", "refused", "dead"} : req' = [req EXCEPT ![r].pc = pc]
    BY <1>8 DEF SetExpiry, Die, Verdict
  <2>3. SentOnce \subseteq SentOnce' /\ SentTwice \subseteq SentTwice'
    BY <1>1, <2>1, <2>2 DEF SentOnce, SentTwice, Typed
  <2>4. Paid' >= Paid BY <2>3, <1>4
  <2>5. ttl' \subseteq {k \in Keys : count'[k] > 0}
    BY <1>8, <2>1 DEF SetExpiry, Die, Accounted, IInv, CountedBefore
  <2> HIDE DEF Paid
  <2>6. \A j \in Keys : count[j] + epoch[j] <= Paid /\ epoch[j] \in Nat /\ count[j] \in Nat
    BY <1>1 DEF Accounted, Paid, Typed
  <2>7. \A j \in Keys : count'[j] + epoch'[j] <= Paid'
    BY <2>1, <2>4, <2>6, <1>3
  <2> QED BY <2>5, <2>7 DEF Accounted, Paid
<1>9. ASSUME NEW k \in Keys, Expire(k) PROVE Accounted'
  <2>1. SentOnce' = SentOnce /\ SentTwice' = SentTwice
    BY <1>9 DEF Expire, SentOnce, SentTwice
  <2>2. Paid' = Paid BY <2>1
  <2> HIDE DEF Paid
  <2>3. \A j \in Keys : count[j] + epoch[j] <= Paid /\ epoch[j] \in Nat /\ count[j] \in Nat
    BY <1>1 DEF Accounted, Paid, Typed
  <2>4. \A j \in Keys : IF j = k THEN count[j] > 0 /\ count'[j] = 0 /\ epoch'[j] = epoch[j] + 1
                                 ELSE count'[j] = count[j] /\ epoch'[j] = epoch[j]
    BY <1>1, <1>9 DEF Expire, Accounted, Typed
  <2>5. \A j \in Keys : count'[j] + epoch'[j] <= Paid'
    BY <2>2, <2>3, <2>4, <1>3
  <2>6. ttl' \subseteq {j \in Keys : count'[j] > 0}
    BY <1>9, <2>4 DEF Expire, Accounted
  <2> QED BY <2>5, <2>6 DEF Accounted, Paid
<1>10. CASE UNCHANGED vars
  <2>1. SentOnce' = SentOnce /\ SentTwice' = SentTwice
    BY <1>10 DEF vars, SentOnce, SentTwice
  <2> QED BY <1>10, <2>1 DEF vars, Accounted
<1> QED BY <1>6, <1>7, <1>8, <1>9, <1>10 DEF Next

(* No counter exceeds two counts per request, and no key expires more      *)
(* often; a key without a count has no time to live.                       *)
THEOREM TypeCorrect == Spec => []TypeOK
<1>1. Init => Accounted
  <2> SUFFICES ASSUME Init PROVE Accounted OBVIOUS
  <2>1. Cardinality(SentOnce) \in Nat /\ Cardinality(SentTwice) \in Nat
    <3>1. SentOnce \subseteq Reqs /\ SentTwice \subseteq Reqs BY DEF SentOnce, SentTwice
    <3> QED BY <3>1, Sizes
  <2> QED BY <2>1 DEF Init, Accounted
<1>2. ASSUME IInv, Accounted PROVE TypeOK
  <2>1. /\ SentOnce \subseteq Reqs /\ SentTwice \subseteq Reqs
    BY DEF SentOnce, SentTwice
  <2>2. /\ Cardinality(SentOnce) \in Nat /\ Cardinality(SentTwice) \in Nat
        /\ Cardinality(Reqs) \in Nat
        /\ Cardinality(SentOnce) <= Cardinality(Reqs) /\ Cardinality(SentTwice) <= Cardinality(Reqs)
    BY <2>1, Sizes
  <2>3. \A k \in Keys : count[k] \in Nat /\ epoch[k] \in Nat
    BY <1>2 DEF IInv, Typed
  <2>4. \A k \in Keys : count[k] + epoch[k] <= Cardinality(SentOnce) + Cardinality(SentTwice)
    BY <1>2 DEF Accounted
  <2>5. \A k \in Keys : /\ count[k] \in 0 .. 2 * Cardinality(Reqs)
                        /\ epoch[k] \in 0 .. 2 * Cardinality(Reqs)
    BY <2>2, <2>3, <2>4
  <2> QED BY <1>2, <2>5 DEF IInv, Typed, Accounted, TypeOK
<1> QED BY <1>1, <1>2, Invariance, StepAccounted, PTL DEF Spec

-----------------------------------------------------------------------------
(* The INCRs of one window: those of the requests whose last one fell into *)
(* it, and, for a lost answer, one more of each request that sent its own  *)
(* twice and has not left the counter before this window.                  *)
CountedIn(k, e) == {q \in Reqs : req[q].key = k /\ req[q].epoch = e}
CountedTwice(k, e) ==
    {q \in Reqs : req[q].key = k /\ req[q].epoch >= e /\ req[q].resent /\ req[q].pc # "resend"}
Charged(k, e) == Cardinality(CountedIn(k, e)) + Cardinality(CountedTwice(k, e))

(* Nobody is refused without cause: more than Limit INCRs of the same      *)
(* window have been sent, each by a request of its own but for the answers *)
(* that were lost. What a counter held before its expiry, an EXPIRE that   *)
(* came late and other keys are never held against a request               *)
(* (redis_service.py:30-37, auth_service.py:14-21).                        *)
RefusedForCause ==
    \A r \in Reqs : req[r].pc = "refused" => Charged(req[r].key, req[r].epoch) > Limit

(* Inductive: every value read, and every value held, is charged for.      *)
ValuesCharged ==
    /\ \A r \in Reqs, k \in Keys, e \in Nat :
          req[r].pc # "idle" /\ req[r].key = k /\ req[r].epoch = e => req[r].nth <= Charged(k, e)
    /\ \A k \in Keys, e \in Nat : epoch[k] = e => count[k] <= Charged(k, e)
    /\ \A r \in Reqs : req[r].pc = "refused" => req[r].nth > Limit

(* A window's charge is a number.                                          *)
LEMMA ChargedType ==
  ASSUME NEW k, NEW e
  PROVE  Charged(k, e) \in Nat /\ Charged(k, e)' \in Nat
<1>1. /\ CountedIn(k, e) \subseteq Reqs /\ CountedTwice(k, e) \subseteq Reqs
      /\ CountedIn(k, e)' \subseteq Reqs /\ CountedTwice(k, e)' \subseteq Reqs
  BY DEF CountedIn, CountedTwice
<1>2. Cardinality(CountedIn(k, e)) \in Nat /\ Cardinality(CountedTwice(k, e)) \in Nat
  BY <1>1, Sizes
<1>3. Cardinality(CountedIn(k, e)') \in Nat /\ Cardinality(CountedTwice(k, e)') \in Nat
  BY <1>1, Sizes
<1> QED BY <1>2, <1>3 DEF Charged

(* An INCR takes nothing from any window and adds to the one it falls into.*)
(* A request that counts again in a later window is charged to both.       *)
LEMMA CountCharges ==
  ASSUME IInv, NEW r \in Reqs, NEW k \in Keys, CanCount(r, k),
         NEW pc \in {"resend", "expire", "passed", "refused"}, Counted(r, k, pc),
         pc = "resend" => req[r].pc = "idle"
  PROVE  \A j \in Keys, e \in Nat :
             /\ Charged(j, e)' >= Charged(j, e)
             /\ j = k /\ e = epoch[k] => Charged(j, e)' >= Charged(j, e) + 1
<1>1. /\ req'[r].pc = pc /\ req'[r].resent = (req[r].pc = "resend" \/ pc = "resend")
      /\ req'[r].key = k /\ req'[r].epoch = epoch[k] /\ epoch[k] \in Nat
      /\ \A q \in Reqs : q # r => req'[q] = req[q]
  BY DEF Counted, IInv, Typed
<1>2. IF req[r].pc = "idle" THEN req[r].key \notin Keys
      ELSE /\ req[r].pc = "resend" /\ req[r].key = k
           /\ req[r].epoch \in Nat /\ req[r].epoch <= epoch[k]
  BY DEF CanCount, IInv, Typed, CountedBefore, Request
<1>3. ASSUME NEW j \in Keys, NEW e \in Nat
      PROVE  /\ Charged(j, e)' >= Charged(j, e)
             /\ j = k /\ e = epoch[k] => Charged(j, e)' >= Charged(j, e) + 1
  <2> DEFINE A == CountedIn(j, e)
             B == CountedTwice(j, e)
  <2>1. A \subseteq Reqs /\ A' \subseteq Reqs /\ B \subseteq Reqs /\ B' \subseteq Reqs
    BY DEF CountedIn, CountedTwice
  <2>2. B \subseteq B' /\ r \notin B
    BY <1>1, <1>2 DEF CountedTwice
  <2>3. A \ {r} \subseteq A'
    BY <1>1 DEF CountedIn
  <2>4. r \in A /\ r \notin A' => r \in B'
    <3>1. r \in A /\ r \notin A' => req[r].pc = "resend" /\ j = k /\ epoch[k] >= e
      BY <1>1, <1>2 DEF CountedIn
    <3>2. req[r].pc = "resend" /\ j = k /\ epoch[k] >= e => r \in B'
      BY <1>1 DEF CountedTwice
    <3> QED BY <3>1, <3>2
  <2>5. j = k /\ e = epoch[k] => r \in A' /\ (r \in A => r \in B')
    BY <1>1, <1>2 DEF CountedIn, CountedTwice
  <2> HIDE DEF A, B
  <2>6. /\ Cardinality(B) \in Nat /\ Cardinality(B') \in Nat /\ Cardinality(B) <= Cardinality(B')
        /\ r \in B' => Cardinality(B) + 1 <= Cardinality(B')
    BY <2>1, <2>2, Sizes
  <2>7. /\ Cardinality(A) \in Nat /\ Cardinality(A') \in Nat
        /\ Cardinality(A \ {r}) \in Nat /\ Cardinality(A \ {r}) <= Cardinality(A')
        /\ r \in A' => Cardinality(A \ {r}) + 1 <= Cardinality(A')
    BY <2>1, <2>3, Sizes
  <2>8. IF r \in A THEN Cardinality(A) = Cardinality(A \ {r}) + 1
                   ELSE Cardinality(A) = Cardinality(A \ {r})
    <3>1. Cardinality(A \ {r}) = IF r \in A THEN Cardinality(A) - 1 ELSE Cardinality(A)
      BY <2>1, FS_Subset, FS_RemoveElement
    <3> QED BY <3>1, <2>7
  <2>9. /\ Cardinality(A') + Cardinality(B') >= Cardinality(A) + Cardinality(B)
        /\ j = k /\ e = epoch[k] =>
             Cardinality(A') + Cardinality(B') >= Cardinality(A) + Cardinality(B) + 1
    BY <2>4, <2>5, <2>6, <2>7, <2>8
  <2> QED BY <2>9 DEF Charged, A, B
<1> QED BY <1>1, <1>3

(* Whoever reads a value reads one that is charged for.                    *)
LEMMA CountKeepsCharged ==
  ASSUME IInv, ValuesCharged, NEW r \in Reqs, NEW k \in Keys, CanCount(r, k),
         NEW pc \in {"resend", "expire", "passed", "refused"}, Counted(r, k, pc),
         pc = "resend" => req[r].pc = "idle",
         pc = "refused" => count[k] + 1 > Limit
  PROVE  ValuesCharged'
<1>1. \A j \in Keys, e \in Nat :
          /\ Charged(j, e)' >= Charged(j, e)
          /\ j = k /\ e = epoch[k] => Charged(j, e)' >= Charged(j, e) + 1
  BY CountCharges
<1>2. \A j \in Keys, e \in Nat : Charged(j, e) \in Nat /\ Charged(j, e)' \in Nat
  BY ChargedType
<1>3. /\ \A j \in Keys : epoch'[j] = epoch[j] /\ epoch[j] \in Nat /\ count[j] \in Nat
      /\ \A j \in Keys : count'[j] = IF j = k THEN count[k] + 1 ELSE count[j]
      /\ req'[r].pc = pc /\ req'[r].key = k /\ req'[r].nth = count[k] + 1 /\ req'[r].epoch = epoch[k]
      /\ \A q \in Reqs : q # r => req'[q] = req[q]
  BY DEF Counted, IInv, Typed
<1>4. ASSUME NEW j \in Keys, NEW e \in Nat, epoch'[j] = e PROVE count'[j] <= Charged(j, e)'
  <2>1. count[j] <= Charged(j, e)
    BY <1>3, <1>4 DEF ValuesCharged
  <2> QED BY <2>1, <1>1, <1>2, <1>3, <1>4
<1>5. ASSUME NEW q \in Reqs, NEW j \in Keys, NEW e \in Nat,
             req'[q].pc # "idle", req'[q].key = j, req'[q].epoch = e
      PROVE  req'[q].nth <= Charged(j, e)'
  <2>1. CASE q = r
    <3>1. j = k /\ epoch'[j] = e /\ count'[j] = req'[q].nth
      BY <2>1, <1>3, <1>5
    <3> QED BY <3>1, <1>4
  <2>2. CASE q # r
    <3>1. req'[q] = req[q] /\ req[q].nth \in Nat
      BY <1>3, <2>2 DEF IInv, Typed, Request
    <3>2. req[q].nth <= Charged(j, e)
      BY <3>1, <1>5 DEF ValuesCharged
    <3> QED BY <3>1, <3>2, <1>1, <1>2
  <2> QED BY <2>1, <2>2
<1>6. \A q \in Reqs : req'[q].pc = "refused" => req'[q].nth > Limit
  BY <1>3 DEF ValuesCharged
<1> QED BY <1>4, <1>5, <1>6 DEF ValuesCharged

(* Every value is charged for before and after each step.                  *)
LEMMA StepCharged == IInv /\ ValuesCharged /\ [Next]_vars => ValuesCharged'
<1> SUFFICES ASSUME IInv, ValuesCharged, [Next]_vars PROVE ValuesCharged'
  OBVIOUS
<1>0. Typed
  BY DEF IInv
<1>1. ASSUME NEW r \in Reqs, NEW k \in Keys, Increment(r, k) PROVE ValuesCharged'
  <2> DEFINE pc == IF SetsExpiry(k, count[k] + 1) THEN "expire" ELSE Verdict(count[k] + 1)
  <2>1. CanCount(r, k) /\ Counted(r, k, pc)
    BY <1>1 DEF Increment
  <2>2. pc \in {"expire", "passed", "refused"} /\ (pc = "refused" => count[k] + 1 > Limit)
    BY DEF Verdict
  <2> HIDE DEF pc
  <2> QED BY <2>1, <2>2, CountKeepsCharged
<1>2. ASSUME NEW r \in Reqs, NEW k \in Keys, LoseAnswer(r, k) PROVE ValuesCharged'
  BY <1>2, CountKeepsCharged DEF LoseAnswer, CanCount
<1>3. ASSUME NEW r \in Reqs, SetExpiry(r) \/ Die(r) PROVE ValuesCharged'
  <2>1. PICK pc \in {"passed", "refused", "dead"} :
          /\ req' = [req EXCEPT ![r].pc = pc] /\ count' = count /\ epoch' = epoch
          /\ pc = "refused" => req[r].nth > Limit
    BY <1>3 DEF SetExpiry, Die, Verdict
  <2>2. req[r].pc \in {"resend", "expire"}
    BY <1>3 DEF SetExpiry, Die
  <2>3. \A q \in Reqs : /\ req'[q].key = req[q].key /\ req'[q].epoch = req[q].epoch
                        /\ req'[q].nth = req[q].nth /\ req'[q].resent = req[q].resent
                        /\ q # r => req'[q].pc = req[q].pc
    BY <1>0, <2>1 DEF Typed
  <2>4. req'[r].pc = pc
    BY <1>0, <2>1 DEF Typed
  <2>5. ASSUME NEW j, NEW e PROVE Charged(j, e)' >= Charged(j, e)
    <3>1. /\ CountedIn(j, e)' = CountedIn(j, e) /\ CountedTwice(j, e) \subseteq CountedTwice(j, e)'
          /\ CountedTwice(j, e)' \subseteq Reqs /\ CountedTwice(j, e) \subseteq Reqs
          /\ CountedIn(j, e) \subseteq Reqs
      BY <2>3, <2>4 DEF CountedIn, CountedTwice
    <3>2. /\ Cardinality(CountedTwice(j, e)) <= Cardinality(CountedTwice(j, e)')
          /\ Cardinality(CountedTwice(j, e)) \in Nat /\ Cardinality(CountedTwice(j, e)') \in Nat
      BY <3>1, Sizes
    <3>3. Cardinality(CountedIn(j, e)) \in Nat
      BY <3>1, Sizes
    <3> QED BY <3>1, <3>2, <3>3 DEF Charged
  <2>6. \A q \in Reqs : req'[q].pc # "idle" => req[q].pc # "idle"
    BY <2>2, <2>3
  <2>7. ASSUME NEW q \in Reqs, NEW j \in Keys, NEW e \in Nat,
               req'[q].pc # "idle", req'[q].key = j, req'[q].epoch = e
        PROVE  req'[q].nth <= Charged(j, e)'
    <3>1. req[q].nth <= Charged(j, e) /\ req[q].nth \in Nat
      BY <1>0, <2>3, <2>6, <2>7 DEF ValuesCharged, Typed, Request
    <3>2. Charged(j, e) \in Nat /\ Charged(j, e)' \in Nat
      BY ChargedType
    <3> QED BY <3>1, <3>2, <2>3, <2>5
  <2>8. ASSUME NEW j \in Keys, NEW e \in Nat, epoch'[j] = e PROVE count'[j] <= Charged(j, e)'
    <3>1. count[j] <= Charged(j, e) /\ count[j] \in Nat
      BY <1>0, <2>1, <2>8 DEF ValuesCharged, Typed
    <3>2. Charged(j, e) \in Nat /\ Charged(j, e)' \in Nat
      BY ChargedType
    <3> QED BY <3>1, <3>2, <2>1, <2>5
  <2>9. \A q \in Reqs : req'[q].pc = "refused" => req'[q].nth > Limit
    BY <2>1, <2>3, <2>4 DEF ValuesCharged
  <2> QED BY <2>7, <2>8, <2>9 DEF ValuesCharged
<1>4. ASSUME NEW k \in Keys, Expire(k) PROVE ValuesCharged'
  <2>1. req' = req /\ \A j \in Keys : IF j = k THEN count'[j] = 0 /\ epoch'[j] = epoch[j] + 1
                                               ELSE count'[j] = count[j] /\ epoch'[j] = epoch[j]
    BY <1>0, <1>4 DEF Expire, Typed
  <2>2. ASSUME NEW j, NEW e PROVE Charged(j, e)' = Charged(j, e)
    BY <2>1 DEF Charged, CountedIn, CountedTwice
  <2>3. ASSUME NEW j \in Keys, NEW e \in Nat, epoch'[j] = e PROVE count'[j] <= Charged(j, e)'
    <3>1. Charged(j, e)' \in Nat
      BY ChargedType
    <3> QED BY <2>1, <2>2, <2>3, <3>1 DEF ValuesCharged
  <2> QED BY <2>1, <2>2, <2>3 DEF ValuesCharged
<1>5. CASE UNCHANGED vars
  BY <1>5 DEF vars, ValuesCharged, Charged, CountedIn, CountedTwice
<1> QED BY <1>1, <1>2, <1>3, <1>4, <1>5 DEF Next

(* Nobody is refused without cause, for any number of keys and requests    *)
(* and any limit.                                                          *)
THEOREM RefusalsHaveCause == Spec => []RefusedForCause
<1>1. Init => ValuesCharged
  <2> SUFFICES ASSUME Init PROVE ValuesCharged
    OBVIOUS
  <2>1. \A k \in Keys, e \in Nat : Charged(k, e) \in Nat
    BY ChargedType
  <2> QED BY <2>1 DEF Init, ValuesCharged, IdleReq
<1>2. ASSUME IInv, ValuesCharged PROVE RefusedForCause
  <2> SUFFICES ASSUME NEW r \in Reqs, req[r].pc = "refused"
               PROVE  Charged(req[r].key, req[r].epoch) > Limit
    BY DEF RefusedForCause
  <2>1. /\ req[r].key \in Keys /\ req[r].epoch \in Nat /\ req[r].nth \in Nat
    BY <1>2 DEF IInv, Typed, CountedBefore, Request
  <2>2. req[r].nth > Limit /\ req[r].nth <= Charged(req[r].key, req[r].epoch)
    BY <1>2, <2>1 DEF ValuesCharged
  <2>3. \A k \in Keys, e \in Nat : Charged(k, e) \in Nat
    BY ChargedType
  <2> QED BY <2>1, <2>2, <2>3
<1> QED BY <1>1, <1>2, Invariance, StepCharged, PTL DEF Spec

=============================================================================
