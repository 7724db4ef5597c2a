------------------------- MODULE AuditPipeline_proofs -------------------------
(* No list and no batch passes its limit, a fault loses at most one batch  *)
(* and doubles at most one, and dead letters have a cause, for any number  *)
(* of entries, workers and faults.                                         *)
EXTENDS AuditPipeline, FiniteSetTheorems, FunctionTheorems, SequenceTheorems, TLAPS

USE AuditAssumption

-----------------------------------------------------------------------------
(* Sequences and what they hold *)

LEMMA RangeAppend ==
  ASSUME NEW S, NEW s \in Seq(S), NEW e \in S
  PROVE  Append(s, e) \in Seq(S) /\ Range(Append(s, e)) = Range(s) \cup {e}
<1>1. Append(s, e) = s \o <<e>> /\ <<e>> \in Seq(S) BY AppendIsConcat
<1>2. Range(<<e>>) = {e} BY DEF Range
<1> DEFINE t == <<e>>
<1>3. Range(s \o t) = Range(s) \cup Range(t)
  <2>1. t \in Seq(S) BY <1>1
  <2> HIDE DEF t
  <2> QED BY <2>1, RangeConcatenation
<1>4. Append(s, e) \in Seq(S) BY AppendProperties
<1> QED BY <1>1, <1>2, <1>3, <1>4

LEMMA RangeTail ==
  ASSUME NEW S, NEW s \in Seq(S), s # <<>>
  PROVE  /\ Tail(s) \in Seq(S) /\ Head(s) \in S /\ Len(Tail(s)) = Len(s) - 1
         /\ Range(s) = Range(Tail(s)) \cup {Head(s)}
<1>1. /\ Tail(s) \in Seq(S) /\ Head(s) \in S /\ Len(Tail(s)) = Len(s) - 1
      /\ \A i \in 1 .. Len(Tail(s)) : Tail(s)[i] = s[i + 1]
  BY HeadTailProperties
<1>2. Head(s) = s[1] /\ Len(s) \in Nat /\ Len(s) >= 1 BY EmptySeq, LenProperties
<1>3. Range(s) = {s[i] : i \in 1 .. Len(s)} /\ Range(Tail(s)) = {Tail(s)[i] : i \in 1 .. Len(Tail(s))}
  BY <1>1, RangeEquality
<1>4. Range(s) \subseteq Range(Tail(s)) \cup {Head(s)}
  <2> SUFFICES ASSUME NEW i \in 1 .. Len(s) PROVE s[i] \in Range(Tail(s)) \cup {Head(s)}
    BY <1>3
  <2>1. CASE i = 1 BY <1>2, <2>1
  <2>2. CASE i # 1
    <3>1. i - 1 \in 1 .. Len(Tail(s)) /\ Tail(s)[i - 1] = s[i] BY <1>1, <1>2, <2>2
    <3> QED BY <1>3, <3>1
  <2> QED BY <2>1, <2>2
<1>5. Range(Tail(s)) \subseteq Range(s)
  <2> SUFFICES ASSUME NEW i \in 1 .. Len(Tail(s)) PROVE Tail(s)[i] \in Range(s)
    BY <1>3
  <2>1. i + 1 \in 1 .. Len(s) /\ Tail(s)[i] = s[i + 1] BY <1>1, <1>2
  <2> QED BY <1>3, <2>1
<1>6. Head(s) \in Range(s) BY <1>2, <1>3
<1> QED BY <1>1, <1>4, <1>5, <1>6

LEMMA RangeSize ==
  ASSUME NEW S, NEW s \in Seq(S)
  PROVE  IsFiniteSet(Range(s)) /\ Cardinality(Range(s)) <= Len(s) /\ Range(s) \subseteq S
<1>1. s \in [1 .. Len(s) -> S] /\ Len(s) \in Nat BY LenProperties
<1>2. s \in Surjection(1 .. Len(s), Range(s)) /\ Range(s) \subseteq S
  BY <1>1 DEF Surjection, Range
<1>3. IsFiniteSet(1 .. Len(s)) /\ Cardinality(1 .. Len(s)) = Len(s)
  <2>1. \A n \in Nat : IsFiniteSet(1 .. n) /\ Cardinality(1 .. n) = n BY FS_Interval
  <2> QED BY <1>1, <2>1
<1>4. IsFiniteSet(Range(s)) /\ Cardinality(Range(s)) <= Cardinality(1 .. Len(s))
  BY <1>2, <1>3, FS_Surjection
<1> QED BY <1>2, <1>3, <1>4

(* Trimming to the newest max items.                                       *)
LEMMA NewestIsPart ==
  ASSUME NEW S, NEW s \in Seq(S), NEW max \in Nat
  PROVE  Newest(s, max) \in Seq(S) /\ Len(Newest(s, max)) <= max /\ Range(Newest(s, max)) \subseteq Range(s)
<1>1. Len(s) \in Nat /\ s \in [1 .. Len(s) -> S] BY LenProperties
<1>2. CASE Len(s) > max
  <2> DEFINE m == Len(s) - max + 1
             t == SubSeq(s, m, Len(s))
  <2>1. m \in Int /\ Len(s) \in Int /\ m >= 1 BY <1>1, <1>2
  <2>2. \A i \in m .. Len(s) : s[i] \in S BY <1>1, <2>1
  <2> HIDE DEF m
  <2>3. /\ t \in Seq(S) /\ Len(t) = IF m <= Len(s) THEN Len(s) - m + 1 ELSE 0
        /\ \A i \in 1 .. Len(s) - m + 1 : t[i] = s[m + i - 1]
    BY <2>1, <2>2, SubSeqProperties
  <2>4. Range(t) = {t[i] : i \in 1 .. Len(t)} /\ Range(s) = {s[i] : i \in 1 .. Len(s)}
    BY <2>3, RangeEquality
  <2>5. Range(t) \subseteq Range(s)
    <3> SUFFICES ASSUME NEW i \in 1 .. Len(t) PROVE t[i] \in Range(s) BY <2>4
    <3>1. Len(t) = Len(s) - m + 1 BY <2>3, <2>1, <1>1
    <3>2. t[i] = s[m + i - 1] /\ m + i - 1 \in 1 .. Len(s) BY <1>1, <2>1, <2>3, <3>1
    <3> QED BY <2>4, <3>2
  <2>6. Len(t) <= max BY <1>1, <1>2, <2>1, <2>3 DEF m
  <2>7. Newest(s, max) = t BY <1>2 DEF Newest, m
  <2> QED BY <2>3, <2>5, <2>6, <2>7
<1>3. CASE ~(Len(s) > max) BY <1>1, <1>3 DEF Newest
<1> QED BY <1>2, <1>3

-----------------------------------------------------------------------------
(* Where an entry is *)

Placed(e) ==
    \/ e \in Range(queue) \/ e \in Range(dead) \/ e \in stored \/ rescuer.entry = e
    \/ \E w \in Workers : e \in Range(hand[w])

(* The inductive invariant.                                                *)
IInv == TypeOK /\ LossBounded

LEMMA LostIsUnplaced ==
  ASSUME NEW e PROVE Copies(e) = {} <=> ~Placed(e)
<1> DEFINE In(s) == {j \in DOMAIN s : s[j] = e}
           InHand(w) == {<<w, i>> : i \in In(hand[w])}
           Single == {q \in {"rescuer", "stored"} :
                        IF q = "stored" THEN e \in stored ELSE rescuer.entry = e}
<1>1. \A s : e \in Range(s) <=> In(s) # {} BY DEF Range
<1>2. Single = {} <=> e \notin stored /\ rescuer.entry # e
  <2>1. "stored" \in Single <=> e \in stored OBVIOUS
  <2>2. "rescuer" \in Single <=> rescuer.entry = e OBVIOUS
  <2>3. \A q \in Single : q \in {"rescuer", "stored"} OBVIOUS
  <2> HIDE DEF Single
  <2> QED BY <2>1, <2>2, <2>3
<1>3. /\ \A w : InHand(w) = {} <=> In(hand[w]) = {}
      /\ {<<"queue", i>> : i \in In(queue)} = {} <=> In(queue) = {}
      /\ {<<"dead", i>> : i \in In(dead)} = {} <=> In(dead) = {}
      /\ {<<p, 0>> : p \in Single} = {} <=> Single = {}
  <2> HIDE DEF In, Single
  <2> QED OBVIOUS
<1>4. Copies(e) = {<<"queue", i>> : i \in In(queue)} \cup {<<"dead", i>> : i \in In(dead)}
                  \cup {<<p, 0>> : p \in Single} \cup UNION {InHand(w) : w \in Workers}
  BY DEF Copies
<1> HIDE DEF In, Single, InHand
<1>5. UNION {InHand(w) : w \in Workers} = {} <=> \A w \in Workers : InHand(w) = {}
  OBVIOUS
<1> QED BY <1>1, <1>2, <1>3, <1>4, <1>5 DEF Placed

LEMMA LostSet ==
  Lost = {e \in Entries : call[e] = "done" /\ ~Placed(e)} \ (shed \cup given)
BY LostIsUnplaced DEF Lost

(* Except for X, what has a place keeps one, and what is done gets one,    *)
(* unless it fell off a full list, expired with its list or was given up.  *)
Kept(X) ==
    /\ shed \subseteq shed' /\ given \subseteq given'
    /\ \A e \in Entries \ X :
         Placed(e) \/ (call[e] # "done" /\ call'[e] = "done")
         => Placed(e)' \/ e \in shed' \cup given'

(* Then only X is lost.                                                    *)
LEMMA OnlyXLost ==
  ASSUME IInv, TypeOK', NEW X \in SUBSET Entries, IsFiniteSet(X), Kept(X),
         \/ X = {} /\ faults' = faults
         \/ Cardinality(X) <= BatchSize /\ Fault
  PROVE  IInv'
<1> DEFINE Unplaced == {e \in Entries : call[e] = "done" /\ ~Placed(e)} \ (shed \cup given)
<1>0. (Lost = Unplaced)' BY LostSet, PTL
<1>1. Lost = Unplaced /\ Lost' = Unplaced' BY <1>0, LostSet
<1>2. Lost' \subseteq Lost \cup X BY <1>1 DEF Kept
<1>3. IsFiniteSet(Lost) /\ Cardinality(Lost) \in Nat BY FS_Subset, FS_CardinalityType DEF Lost
<1>4. /\ IsFiniteSet(Lost \cup X)
      /\ Cardinality(Lost \cup X) = Cardinality(Lost) + Cardinality(X) - Cardinality(Lost \cap X)
      /\ Cardinality(X) \in Nat /\ IsFiniteSet(Lost \cap X) /\ Cardinality(Lost \cap X) \in Nat
  BY <1>3, FS_Union, FS_Intersection, FS_CardinalityType
<1>5. Cardinality(Lost') <= Cardinality(Lost) + Cardinality(X) /\ Cardinality(Lost') \in Nat
  <2>1. Cardinality(Lost') <= Cardinality(Lost \cup X) /\ IsFiniteSet(Lost')
    BY <1>2, <1>4, FS_Subset
  <2>2. Cardinality(Lost') \in Nat BY <2>1, FS_CardinalityType
  <2> HIDE DEF Lost
  <2> QED BY <1>3, <1>4, <2>1, <2>2
<1>6. Cardinality(Lost) <= BatchSize * faults /\ faults \in Nat
  BY DEF IInv, TypeOK, LossBounded
<1>7. CASE X = {} /\ faults' = faults
  <2>1. Cardinality(X) = 0 BY <1>7, FS_EmptySet
  <2> HIDE DEF Lost
  <2>2. Cardinality(Lost') <= BatchSize * faults' BY <1>3, <1>5, <1>6, <1>7, <2>1
  <2> QED BY <2>2 DEF IInv, LossBounded
<1>8. CASE Cardinality(X) <= BatchSize /\ Fault
  <2>1. faults' = faults + 1 BY <1>8 DEF Fault
  <2>2. BatchSize * faults' = BatchSize * faults + BatchSize BY <1>6, <2>1
  <2> DEFINE product == BatchSize * faults
  <2>3. product \in Nat BY <1>6
  <2> HIDE DEF Lost, product
  <2>4. Cardinality(Lost') <= product + BatchSize
    BY <1>3, <1>4, <1>5, <1>6, <1>8, <2>3 DEF product
  <2>5. Cardinality(Lost') <= BatchSize * faults' BY <2>2, <2>4 DEF product
  <2> QED BY <2>5 DEF IInv, LossBounded
<1> QED BY <1>7, <1>8

-----------------------------------------------------------------------------
(* Pushes to a list *)

LEMMA QueuePushed ==
  ASSUME TypeOK, NEW e \in Entries, ToQueue(e)
  PROVE  /\ queue' \in Seq(Entries) /\ Len(queue') <= QueueMax /\ dead' = dead
         /\ shed' \subseteq Entries /\ shed \subseteq shed'
         /\ Range(queue) \cup {e} \subseteq Range(queue') \cup shed'
<1> DEFINE s == Append(queue, e)
<1>1. s \in Seq(Entries) /\ Range(s) = Range(queue) \cup {e} BY RangeAppend DEF TypeOK
<1>2. Range(s) \subseteq Entries BY <1>1, RangeSize
<1>3. queue' = Newest(s, QueueMax) /\ shed' = shed \cup (Range(s) \ Range(Newest(s, QueueMax)))
      /\ dead' = dead
  BY DEF ToQueue, Trim
<1> HIDE DEF s
<1>4. queue' \in Seq(Entries) /\ Len(queue') <= QueueMax BY <1>1, <1>3, NewestIsPart
<1> QED BY <1>1, <1>2, <1>3, <1>4 DEF TypeOK

LEMMA DeadPushed ==
  ASSUME TypeOK, NEW es \in Seq(Entries), ToDead(es)
  PROVE  /\ dead' \in Seq(Entries) /\ Len(dead') <= DeadMax /\ queue' = queue
         /\ shed' \subseteq Entries /\ shed \subseteq shed'
         /\ Range(dead) \cup Range(es) \subseteq Range(dead') \cup shed'
<1> DEFINE s == dead \o es
<1>1. s \in Seq(Entries) /\ Range(s) = Range(dead) \cup Range(es)
  BY RangeConcatenation, ConcatProperties DEF TypeOK
<1>2. Range(s) \subseteq Entries BY <1>1, RangeSize
<1>3. dead' = Newest(s, DeadMax) /\ shed' = shed \cup (Range(s) \ Range(Newest(s, DeadMax)))
      /\ queue' = queue
  BY DEF ToDead, Trim
<1> HIDE DEF s
<1>4. dead' \in Seq(Entries) /\ Len(dead') <= DeadMax BY <1>1, <1>3, NewestIsPart
<1> QED BY <1>1, <1>2, <1>3, <1>4 DEF TypeOK

-----------------------------------------------------------------------------
(* The steps *)

(* It holds initially.                                                     *)
LEMMA InitInv == Init => IInv
<1> SUFFICES ASSUME Init PROVE IInv OBVIOUS
<1>1. TypeOK BY DEF Init, TypeOK
<1>2. Lost = {} BY DEF Init, Lost
<1>3. LossBounded BY <1>2, FS_EmptySet DEF Init, LossBounded
<1> QED BY <1>1, <1>3 DEF IInv

(* An empty exception.                                                     *)
LEMMA NothingLost ==
  ASSUME IInv, TypeOK', Kept({}), faults' = faults \/ Fault
  PROVE  IInv'
<1>1. {} \in SUBSET Entries /\ IsFiniteSet({}) /\ Cardinality({}) = 0 BY FS_EmptySet
<1> QED BY <1>1, OnlyXLost

(* AuditService.log: only a push that fails loses its entry.               *)
LEMMA LogInv ==
  ASSUME IInv, NEW e \in Entries,
         \/ Push(e) \/ PushUnanswered(e) \/ PushFails(e)
         \/ PushDead(e) \/ PushDeadUnanswered(e) \/ PushDeadFails(e)
  PROVE  IInv'
<1>1. TypeOK BY DEF IInv
<1>2. /\ call' \in [Entries -> {"new", "fallback", "done"}]
      /\ \A x \in Entries \ {e} : call'[x] = call[x]
      /\ UNCHANGED <<stored, workers, rescuer, given>>
      /\ faults' \in 0 .. MaxFaults /\ (faults' = faults \/ Fault)
  BY <1>1 DEF Push, PushUnanswered, PushFails, PushDead, PushDeadUnanswered, PushDeadFails,
              Returns, Fault, TypeOK
<1>3. CASE Push(e) \/ PushUnanswered(e)
  <2>1. ToQueue(e) BY <1>3 DEF Push, PushUnanswered
  <2>2. TypeOK' BY <1>1, <1>2, <2>1, QueuePushed DEF TypeOK, workers
  <2>3. Kept({}) BY <1>1, <1>2, <2>1, QueuePushed DEF Kept, Placed, workers
  <2> QED BY <1>2, <2>2, <2>3, NothingLost
<1>4. CASE PushDead(e) \/ PushDeadUnanswered(e)
  <2>1. ToDead(<<e>>) /\ <<e>> \in Seq(Entries) BY <1>4 DEF PushDead, PushDeadUnanswered
  <2>2. Range(<<e>>) = {e} BY DEF Range
  <2>3. TypeOK' BY <1>1, <1>2, <2>1, DeadPushed DEF TypeOK, workers
  <2>4. Kept({}) BY <1>1, <1>2, <2>1, <2>2, DeadPushed DEF Kept, Placed, workers
  <2> QED BY <1>2, <2>3, <2>4, NothingLost
<1>5. CASE PushFails(e) \/ PushDeadFails(e)
  <2>1. UNCHANGED lists /\ Fault BY <1>5 DEF PushFails, PushDeadFails
  <2>2. TypeOK' BY <1>1, <1>2, <2>1 DEF TypeOK, workers, lists
  <2>3. Kept({e}) BY <1>1, <1>2, <2>1 DEF Kept, Placed, workers, lists
  <2>4. IsFiniteSet({e}) /\ Cardinality({e}) = 1 BY FS_Singleton
  <2> QED BY <2>1, <2>2, <2>3, <2>4, OnlyXLost
<1> QED BY <1>3, <1>4, <1>5

(* What Over does.                                                         *)
LEMMA OverMoves ==
  ASSUME TypeOK, NEW w \in Workers, Over(w)
  PROVE  /\ hand' \in [Workers -> Seq(Entries)] /\ \A v \in Workers : Len(hand'[v]) <= BatchSize
         /\ stage' \in [Workers -> {"pop", "insert", "bury"}]
         /\ \A v \in Workers \ {w} : hand'[v] = hand[v]
BY DEF Over, Turn, TypeOK

LEMMA TurnMoves ==
  ASSUME TypeOK, NEW w \in Workers, NEW label \in {"pop", "insert", "bury"}, Turn(w, label)
  PROVE  stage' \in [Workers -> {"pop", "insert", "bury"}]
BY DEF Turn, TypeOK

(* A worker that pops.                                                     *)
LEMMA PopInv ==
  ASSUME IInv, NEW w \in Workers, Pop(w) \/ PopUnanswered(w)
  PROVE  IInv'
<1>1. TypeOK BY DEF IInv
<1>2. /\ hand[w] \in Seq(Entries) /\ Len(hand[w]) < BatchSize /\ queue \in Seq(Entries) /\ queue # <<>>
      /\ Len(queue) <= QueueMax /\ hand \in [Workers -> Seq(Entries)]
  BY <1>1 DEF Pop, PopUnanswered, TypeOK
<1>3. /\ queue' = Tail(queue) /\ UNCHANGED <<dead, shed, stored, call, rescuer, given>>
  BY DEF Pop, PopUnanswered
<1>4. /\ queue' \in Seq(Entries) /\ Head(queue) \in Entries /\ Len(queue') <= QueueMax
      /\ Range(queue) = Range(queue') \cup {Head(queue)}
  <2>1. Len(queue) \in Nat BY <1>2, LenProperties
  <2> QED BY <1>2, <1>3, <2>1, RangeTail
<1>5. CASE Pop(w)
  <2>1. hand' = [hand EXCEPT ![w] = Append(@, Head(queue))] /\ UNCHANGED <<stage, faults>>
    BY <1>5 DEF Pop
  <2> DEFINE new == Append(hand[w], Head(queue))
  <2>2. new \in Seq(Entries) /\ Range(new) = Range(hand[w]) \cup {Head(queue)}
    BY <1>2, <1>4, RangeAppend
  <2>3. Len(new) <= BatchSize
    <3>1. Len(new) = Len(hand[w]) + 1 /\ Len(hand[w]) \in Nat
      BY <1>2, <1>4, AppendProperties, LenProperties
    <3> QED BY <1>2, <3>1
  <2> HIDE DEF new
  <2>4. hand'[w] = new /\ (\A v \in Workers \ {w} : hand'[v] = hand[v]) /\ hand' \in [Workers -> Seq(Entries)]
    BY <1>2, <2>1, <2>2 DEF new
  <2>5. TypeOK' BY <1>1, <1>3, <1>4, <2>1, <2>3, <2>4 DEF TypeOK
  <2>6. Kept({})
    <3>1. \A e \in Entries : Placed(e) => Placed(e)'
      BY <1>3, <1>4, <2>2, <2>4 DEF Placed
    <3> QED BY <1>3, <3>1 DEF Kept
  <2> QED BY <2>1, <2>5, <2>6, NothingLost
<1>6. CASE PopUnanswered(w)
  <2>1. Fault /\ (UNCHANGED workers \/ Over(w)) BY <1>6 DEF PopUnanswered
  <2>2. /\ hand' \in [Workers -> Seq(Entries)] /\ \A v \in Workers : Len(hand'[v]) <= BatchSize
        /\ stage' \in [Workers -> {"pop", "insert", "bury"}]
        /\ \A v \in Workers \ {w} : hand'[v] = hand[v]
    <3>1. CASE UNCHANGED workers BY <1>1, <3>1 DEF workers, TypeOK
    <3>2. CASE Over(w) BY <1>1, <3>2, OverMoves
    <3> QED BY <2>1, <3>1, <3>2
  <2>3. TypeOK' BY <1>1, <1>3, <1>4, <2>1, <2>2 DEF TypeOK, Fault
  <2> DEFINE X == Range(hand[w]) \cup {Head(queue)}
  <2>4. /\ IsFiniteSet(X) /\ X \subseteq Entries /\ Cardinality(X) <= BatchSize
    <3>1. /\ IsFiniteSet(Range(hand[w])) /\ Cardinality(Range(hand[w])) <= Len(hand[w])
          /\ Range(hand[w]) \subseteq Entries /\ Len(hand[w]) \in Nat
      BY <1>2, RangeSize, LenProperties
    <3>2. /\ Cardinality(Range(hand[w])) \in Nat /\ IsFiniteSet(X)
          /\ Cardinality(X) <= Cardinality(Range(hand[w])) + 1 /\ Cardinality(X) \in Nat
      <4>1. /\ Cardinality(Range(hand[w])) \in Nat /\ IsFiniteSet(X)
            /\ \/ Cardinality(X) = Cardinality(Range(hand[w]))
               \/ Cardinality(X) = Cardinality(Range(hand[w])) + 1
        BY <3>1, FS_AddElement, FS_CardinalityType
      <4> HIDE DEF X
      <4>2. Cardinality(X) \in Nat BY <4>1, FS_CardinalityType
      <4> QED BY <4>1, <4>2
    <3> HIDE DEF X
    <3>3. Cardinality(X) <= BatchSize BY <1>2, <3>1, <3>2
    <3> QED BY <1>4, <3>1, <3>2, <3>3 DEF X
  <2>5. Kept(X)
    <3>1. \A e \in Entries \ X : Placed(e) => Placed(e)' BY <1>3, <1>4, <2>2 DEF Placed
    <3> HIDE DEF X
    <3> QED BY <1>3, <3>1 DEF Kept
  <2> HIDE DEF X
  <2> QED BY <2>1, <2>3, <2>4, <2>5, OnlyXLost
<1> QED BY <1>5, <1>6

(* A worker that inserts its batch.                                        *)
LEMMA InsertInv ==
  ASSUME IInv, NEW w \in Workers, Gather(w) \/ Insert(w) \/ InsertFails(w)
  PROVE  IInv'
<1>1. TypeOK BY DEF IInv
<1>2. UNCHANGED <<queue, dead, shed, call, rescuer, given>>
  BY DEF Gather, Insert, InsertFails, lists
<1>3. CASE Gather(w) \/ InsertFails(w) \/ (Insert(w) /\ ~Insertable(hand[w]))
  <2>1. /\ UNCHANGED hand /\ stored \subseteq stored' /\ stored' \subseteq Plain
        /\ faults' \in 0 .. MaxFaults /\ (faults' = faults \/ Fault)
    BY <1>1, <1>3 DEF Gather, Insert, InsertFails, Insertable, Fault, TypeOK
  <2>2. \E label \in {"pop", "insert", "bury"} : Turn(w, label)
    BY <1>3 DEF Gather, Insert, InsertFails
  <2>3. TypeOK' BY <1>1, <1>2, <2>1, <2>2, TurnMoves DEF TypeOK
  <2>4. \A e \in Entries : Placed(e) => Placed(e)' BY <1>2, <2>1 DEF Placed
  <2>5. Kept({}) BY <1>2, <2>4 DEF Kept
  <2> QED BY <2>1, <2>3, <2>5, NothingLost
<1>4. CASE Insert(w) /\ Insertable(hand[w])
  <2>1. /\ stored' = stored \cup Range(hand[w]) /\ Range(hand[w]) \subseteq Plain /\ Over(w)
        /\ faults' = faults
    BY <1>4 DEF Insert, Insertable
  <2>2. TypeOK' BY <1>1, <1>2, <2>1, OverMoves DEF TypeOK
  <2>3. \A e \in Entries : Placed(e) => Placed(e)'
    <3>1. \A v \in Workers \ {w} : hand'[v] = hand[v] BY <1>1, <2>1, OverMoves
    <3> QED BY <1>2, <2>1, <3>1 DEF Placed
  <2>4. Kept({}) BY <1>2, <2>3 DEF Kept
  <2> QED BY <2>1, <2>2, <2>4, NothingLost
<1> QED BY <1>3, <1>4

(* A worker that gives its batch to the dead letters, or drops it.         *)
LEMMA BuryInv ==
  ASSUME IInv, NEW w \in Workers, Bury(w) \/ BuryUnanswered(w) \/ Drop(w)
  PROVE  IInv'
<1>1. TypeOK /\ hand[w] \in Seq(Entries) /\ Len(hand[w]) <= BatchSize BY DEF IInv, TypeOK
<1>2. UNCHANGED <<stored, call, rescuer, given>> BY DEF Bury, BuryUnanswered, Drop
<1>3. /\ hand' \in [Workers -> Seq(Entries)] /\ \A v \in Workers : Len(hand'[v]) <= BatchSize
      /\ stage' \in [Workers -> {"pop", "insert", "bury"}]
      /\ \A v \in Workers \ {w} : hand'[v] = hand[v]
  <2>1. CASE UNCHANGED workers BY <1>1, <2>1 DEF workers, TypeOK
  <2>2. CASE Over(w) BY <1>1, <2>2, OverMoves
  <2> QED BY <2>1, <2>2 DEF Bury, BuryUnanswered, Drop
<1>4. faults' \in 0 .. MaxFaults /\ (faults' = faults \/ Fault)
  BY <1>1 DEF Bury, BuryUnanswered, Drop, Fault, TypeOK
<1>5. CASE Bury(w) \/ BuryUnanswered(w)
  <2>1. ToDead(hand[w]) BY <1>5 DEF Bury, BuryUnanswered
  <2>2. /\ dead' \in Seq(Entries) /\ Len(dead') <= DeadMax /\ queue' = queue
        /\ shed' \subseteq Entries /\ shed \subseteq shed'
        /\ Range(dead) \cup Range(hand[w]) \subseteq Range(dead') \cup shed'
    BY <1>1, <2>1, DeadPushed
  <2>3. TypeOK' BY <1>1, <1>2, <1>3, <1>4, <2>2 DEF TypeOK
  <2>4. \A e \in Entries : Placed(e) => Placed(e)' \/ e \in shed'
    BY <1>2, <1>3, <2>2 DEF Placed
  <2>5. Kept({}) BY <1>2, <2>2, <2>4 DEF Kept
  <2> QED BY <1>4, <2>3, <2>5, NothingLost
<1>6. CASE Drop(w)
  <2>1. Fault /\ UNCHANGED <<queue, dead, shed>> BY <1>6 DEF Drop, lists
  <2>2. TypeOK' BY <1>1, <1>2, <1>3, <1>4, <2>1 DEF TypeOK
  <2> DEFINE X == Range(hand[w])
  <2>3. IsFiniteSet(X) /\ X \subseteq Entries /\ Cardinality(X) <= BatchSize
    <3>1. /\ IsFiniteSet(X) /\ Cardinality(X) <= Len(hand[w]) /\ X \subseteq Entries
      BY <1>1, RangeSize
    <3>2. Cardinality(X) \in Nat /\ Len(hand[w]) \in Nat
      BY <1>1, <3>1, FS_CardinalityType, LenProperties
    <3> HIDE DEF X
    <3> QED BY <1>1, <3>1, <3>2
  <2>4. \A e \in Entries \ X : Placed(e) => Placed(e)' BY <1>2, <1>3, <2>1 DEF Placed
  <2> HIDE DEF X
  <2>5. Kept(X) BY <1>2, <2>1, <2>4 DEF Kept
  <2> QED BY <2>1, <2>2, <2>3, <2>5, OnlyXLost
<1> QED BY <1>5, <1>6

(* The dead letter worker.                                                 *)
LEMMA RescuerInv ==
  ASSUME IInv, Rescue \/ RescueFails \/ RescuerStops
  PROVE  IInv'
<1>1. /\ TypeOK /\ rescuer \in [up : BOOLEAN, entry : Entries \cup {None}]
      /\ dead \in Seq(Entries) /\ Len(dead) <= DeadMax
  BY DEF IInv, TypeOK
<1>2. UNCHANGED <<queue, shed, stored, call, hand, stage>>
  BY DEF Rescue, RescueFails, RescuerStops, lists, workers
<1>3. ASSUME dead # <<>>
      PROVE  /\ Tail(dead) \in Seq(Entries) /\ Head(dead) \in Entries /\ Len(Tail(dead)) <= DeadMax
             /\ Range(dead) = Range(Tail(dead)) \cup {Head(dead)}
  <2>1. Len(dead) \in Nat BY <1>1, LenProperties
  <2> QED BY <1>1, <1>3, <2>1, RangeTail
<1>4. CASE Rescue
  <2>1. /\ rescuer' = [rescuer EXCEPT !.entry = Head(dead)] /\ dead' = Tail(dead) /\ dead # <<>>
        /\ rescuer.entry = None /\ UNCHANGED <<faults, given>>
    BY <1>4 DEF Rescue
  <2>2. rescuer' \in [up : BOOLEAN, entry : Entries \cup {None}] /\ rescuer'.entry = Head(dead)
    BY <1>1, <1>3, <2>1
  <2>3. TypeOK' BY <1>1, <1>2, <1>3, <2>1, <2>2 DEF TypeOK
  <2>4. \A e \in Entries : Placed(e) => Placed(e)' BY <1>2, <1>3, <2>1, <2>2 DEF Placed
  <2>5. Kept({}) BY <1>2, <2>1, <2>4 DEF Kept
  <2> QED BY <2>1, <2>3, <2>5, NothingLost
<1>5. CASE RescueFails
  <2>1. /\ given' = given \cup {rescuer.entry} /\ rescuer' = [rescuer EXCEPT !.entry = None]
        /\ rescuer.entry # None /\ UNCHANGED <<faults, dead>>
    BY <1>5 DEF RescueFails, lists
  <2>2. rescuer' \in [up : BOOLEAN, entry : Entries \cup {None}] /\ rescuer.entry \in Entries
    BY <1>1, <2>1
  <2>3. TypeOK' BY <1>1, <1>2, <2>1, <2>2 DEF TypeOK
  <2>4. \A e \in Entries : Placed(e) => Placed(e)' \/ e \in given' BY <1>2, <2>1 DEF Placed
  <2>5. Kept({}) BY <1>2, <2>1, <2>4 DEF Kept
  <2> QED BY <2>1, <2>3, <2>5, NothingLost
<1>6. CASE RescuerStops
  <2>1. Fault /\ rescuer' = [up |-> FALSE, entry |-> None] /\ given' = given
    BY <1>6 DEF RescuerStops
  <2>2. faults' \in 0 .. MaxFaults BY <1>1, <2>1 DEF Fault, TypeOK
  <2>3. PICK x \in Entries \cup {None} :
          /\ dead' \in Seq(Entries) /\ Len(dead') <= DeadMax
          /\ \A e \in Entries \ {x} : Placed(e) => Placed(e)'
    <3>1. CASE dead' = dead
      <4>1. \A e \in Entries \ {rescuer.entry} : Placed(e) => Placed(e)'
        BY <1>2, <3>1 DEF Placed
      <4> QED BY <1>1, <3>1, <4>1
    <3>2. CASE rescuer.entry = None /\ dead # <<>> /\ dead' = Tail(dead)
      <4>1. \A e \in Entries \ {Head(dead)} : Placed(e) => Placed(e)'
        BY <1>2, <1>3, <3>2 DEF Placed
      <4> QED BY <1>3, <3>2, <4>1
    <3> QED BY <1>6, <3>1, <3>2 DEF RescuerStops
  <2>4. TypeOK' BY <1>1, <1>2, <2>1, <2>2, <2>3 DEF TypeOK
  <2>5. CASE x \in Entries
    <3>1. Kept({x}) BY <1>2, <2>1, <2>3 DEF Kept
    <3>2. IsFiniteSet({x}) /\ Cardinality({x}) = 1 BY FS_Singleton
    <3> QED BY <2>1, <2>4, <2>5, <3>1, <3>2, OnlyXLost
  <2>6. CASE x = None
    <3>1. Kept({}) BY <1>2, <2>1, <2>3, <2>6 DEF Kept
    <3> QED BY <2>1, <2>4, <3>1, NothingLost
  <2> QED BY <2>5, <2>6
<1> QED BY <1>4, <1>5, <1>6

(* A list expires: what it held counts as shed.                            *)
LEMMA LapseInv ==
  ASSUME IInv, QueueLapses \/ DeadLapses
  PROVE  IInv'
<1>1. TypeOK BY DEF IInv
<1>2. <<>> \in Seq(Entries) /\ Len(<<>>) <= QueueMax /\ Len(<<>>) <= DeadMax
  <2>1. <<>> \in Seq(Entries) /\ Len(<<>>) = 0 OBVIOUS
  <2> QED BY <2>1, AuditAssumption DEF AuditAssumption
<1>3. Range(queue) \subseteq Entries /\ Range(dead) \subseteq Entries
  BY <1>1, RangeSize DEF TypeOK
<1>4. TypeOK'
  <2>1. /\ queue' \in Seq(Entries) /\ Len(queue') <= QueueMax
        /\ dead' \in Seq(Entries) /\ Len(dead') <= DeadMax
    <3>1. /\ queue \in Seq(Entries) /\ Len(queue) <= QueueMax
          /\ dead \in Seq(Entries) /\ Len(dead) <= DeadMax
      BY <1>1 DEF TypeOK
    <3>2. (queue' = <<>> /\ dead' = dead) \/ (queue' = queue /\ dead' = <<>>)
      BY DEF QueueLapses, DeadLapses
    <3> QED BY <1>2, <3>1, <3>2
  <2>2. shed' \subseteq Entries
    BY <1>1, <1>3 DEF QueueLapses, DeadLapses, TypeOK
  <2>3. UNCHANGED <<stored, call, hand, stage, rescuer, faults, given>>
    BY DEF QueueLapses, DeadLapses, workers
  <2> QED BY <1>1, <2>1, <2>2, <2>3 DEF TypeOK
<1>5. Kept({})
  BY DEF QueueLapses, DeadLapses, Kept, Placed, workers
<1> QED BY <1>4, <1>5, NothingLost DEF QueueLapses, DeadLapses

(* Every step keeps the invariant.                                         *)
LEMMA StepInv == IInv /\ [Next]_vars => IInv'
<1> SUFFICES ASSUME IInv, [Next]_vars PROVE IInv' OBVIOUS
<1>1. CASE UNCHANGED vars
  <2>1. TypeOK' BY <1>1 DEF vars, IInv, TypeOK
  <2>2. Kept({}) /\ faults' = faults BY <1>1 DEF vars, Kept, Placed
  <2> QED BY <2>1, <2>2, NothingLost
<1> QED BY <1>1, LogInv, PopInv, InsertInv, BuryInv, RescuerInv, LapseInv DEF Next, Progress

(* Every variable keeps its type: no list and no batch passes its limit.   *)
THEOREM TypeCorrect == Spec => []TypeOK
BY InitInv, StepInv, PTL DEF Spec, IInv

(* AuditService.log and AuditWorker: apart from what fell off a full list, *)
(* expired with its list or was given up, a fault loses at most one batch  *)
(* (audit_service.py:92-132, audit_worker.py:34-71).                       *)
THEOREM LossIsBounded == Spec => []LossBounded
BY InitInv, StepInv, PTL DEF Spec, IInv

-----------------------------------------------------------------------------
(* Before the first fault and the first bare entry *)

Once(s) == \A i, j \in DOMAIN s : s[i] = s[j] => i = j

LEMMA OnceAppend ==
  ASSUME NEW S, NEW s \in Seq(S), NEW e \in S, Once(s), e \notin Range(s)
  PROVE  Once(Append(s, e))
<1>1. /\ DOMAIN s = 1 .. Len(s) /\ Len(s) \in Nat
      /\ DOMAIN Append(s, e) = 1 .. (Len(s) + 1) /\ Append(s, e)[Len(s) + 1] = e
      /\ \A i \in 1 .. Len(s) : Append(s, e)[i] = s[i]
  OBVIOUS
<1>2. \A i \in 1 .. Len(s) : s[i] # e
  BY <1>1 DEF Range
<1>3. \A i \in 1 .. (Len(s) + 1) : i \in 1 .. Len(s) \/ i = Len(s) + 1
  BY <1>1
<1> QED BY <1>1, <1>2, <1>3 DEF Once

LEMMA OnceTail ==
  ASSUME NEW S, NEW s \in Seq(S), s # <<>>, Once(s)
  PROVE  Once(Tail(s)) /\ Head(s) \notin Range(Tail(s))
<1>1. /\ DOMAIN s = 1 .. Len(s) /\ Len(s) \in Nat /\ Len(s) >= 1 /\ Head(s) = s[1]
      /\ DOMAIN Tail(s) = 1 .. (Len(s) - 1)
      /\ \A i \in 1 .. (Len(s) - 1) : Tail(s)[i] = s[i + 1]
  BY EmptySeq, LenProperties, HeadTailProperties
<1>2. \A i \in 1 .. (Len(s) - 1) : i + 1 \in 1 .. Len(s) /\ i + 1 # 1
  BY <1>1
<1>3. Once(Tail(s))
  <2> SUFFICES ASSUME NEW i \in 1 .. (Len(s) - 1), NEW j \in 1 .. (Len(s) - 1),
                      Tail(s)[i] = Tail(s)[j]
               PROVE  i = j
    BY <1>1 DEF Once
  <2>1. i + 1 = j + 1
    BY <1>1, <1>2 DEF Once
  <2> QED BY <1>1, <2>1
<1>4. \A i \in 1 .. (Len(s) - 1) : s[i + 1] # s[1]
  BY <1>1, <1>2 DEF Once
<1> QED BY <1>1, <1>3, <1>4 DEF Range

LEMMA OnceNewest ==
  ASSUME NEW S, NEW s \in Seq(S), NEW max \in Nat, Once(s)
  PROVE  Once(Newest(s, max))
<1>1. DOMAIN s = 1 .. Len(s) /\ Len(s) \in Nat
  BY LenProperties
<1>2. CASE Len(s) > max
  <2> DEFINE k == Len(s) - max
             t == SubSeq(s, k + 1, Len(s))
  <2>1. k \in Nat /\ k + max = Len(s)
    BY <1>1, <1>2
  <2>2. DOMAIN t = 1 .. max /\ \A i \in 1 .. max : t[i] = s[k + i]
    BY <1>1, <1>2, <2>1
  <2>3. \A i \in 1 .. max : k + i \in 1 .. Len(s)
    BY <1>1, <2>1
  <2>4. Newest(s, max) = t
    BY <1>2 DEF Newest
  <2> HIDE DEF t
  <2> SUFFICES ASSUME NEW i \in 1 .. max, NEW j \in 1 .. max, t[i] = t[j] PROVE i = j
    BY <2>2, <2>4 DEF Once
  <2>5. k + i = k + j
    BY <1>1, <2>2, <2>3 DEF Once
  <2> HIDE DEF k
  <2> QED BY <2>1, <2>5
<1>3. CASE ~(Len(s) > max)
  BY <1>3 DEF Newest
<1> QED BY <1>2, <1>3

Clean == faults = 0 /\ \A e \in Bare : call[e] = "new"

(* No entry is in two places, and what is in hand can be stored.           *)
Orderly ==
    /\ dead = <<>> /\ given = {} /\ rescuer.entry = None
    /\ \A w \in Workers : stage[w] # "bury"
    /\ \A e \in Entries : call[e] # "fallback"
    /\ Once(queue) /\ \A w \in Workers : Once(hand[w])
    /\ \A w \in Workers : Range(queue) \cap Range(hand[w]) = {}
    /\ \A v, w \in Workers : v # w => Range(hand[v]) \cap Range(hand[w]) = {}
    /\ \A e \in Range(queue) : e \in Plain \ stored /\ call[e] = "done"
    /\ \A w \in Workers : \A e \in Range(hand[w]) : e \in Plain \ stored /\ call[e] = "done"
    /\ \A e \in stored : call[e] = "done"

CleanInv == Clean => Orderly

(* A new entry is nowhere yet.                                             *)
LEMMA PushOrderly ==
  ASSUME TypeOK, Orderly, NEW e \in Plain, Push(e)
  PROVE  Orderly'
<1>1. /\ call[e] = "new" /\ call' = [call EXCEPT ![e] = "done"] /\ ToQueue(e)
      /\ UNCHANGED <<dead, stored, hand, stage, rescuer, given>> /\ e \in Entries
  BY DEF Push, ToQueue, Returns, workers, Entries
<1>2. queue \in Seq(Entries) /\ QueueMax \in Nat /\ call \in [Entries -> {"new", "fallback", "done"}]
  BY DEF TypeOK
<1>3. e \notin Range(queue) /\ e \notin stored /\ \A w \in Workers : e \notin Range(hand[w])
  BY <1>1 DEF Orderly
<1> DEFINE t == Append(queue, e)
<1>4. t \in Seq(Entries) /\ Range(t) = Range(queue) \cup {e} /\ Once(t)
  BY <1>1, <1>2, <1>3, RangeAppend, OnceAppend DEF Orderly
<1>5. queue' = Newest(t, QueueMax)
  BY <1>1 DEF ToQueue
<1> HIDE DEF t
<1>6. Once(queue') /\ Range(queue') \subseteq Range(queue) \cup {e}
  BY <1>2, <1>4, <1>5, OnceNewest, NewestIsPart
<1>7. \A x \in Entries : call'[x] = IF x = e THEN "done" ELSE call[x]
  BY <1>1, <1>2
<1>8. Range(queue) \subseteq Entries /\ stored \subseteq Entries
      /\ \A w \in Workers : Range(hand[w]) \subseteq Entries
  BY RangeSize DEF TypeOK, Entries
<1> QED BY <1>1, <1>3, <1>6, <1>7, <1>8 DEF Orderly

(* An item moves from the list to one hand.                                *)
LEMMA PopOrderly ==
  ASSUME TypeOK, Orderly, NEW w \in Workers, Pop(w)
  PROVE  Orderly'
<1>1. /\ queue # <<>> /\ queue' = Tail(queue)
      /\ hand' = [hand EXCEPT ![w] = Append(@, Head(queue))]
      /\ UNCHANGED <<dead, stored, call, stage, rescuer, given>>
  BY DEF Pop
<1>2. queue \in Seq(Entries) /\ hand \in [Workers -> Seq(Entries)]
  BY DEF TypeOK
<1>3. /\ Range(queue) = Range(queue') \cup {Head(queue)} /\ Head(queue) \in Entries
      /\ Once(queue') /\ Head(queue) \notin Range(queue')
  BY <1>1, <1>2, RangeTail, OnceTail DEF Orderly
<1>4. Head(queue) \notin Range(hand[w])
  BY <1>3 DEF Orderly
<1>5. hand'[w] = Append(hand[w], Head(queue)) /\ \A v \in Workers \ {w} : hand'[v] = hand[v]
  BY <1>1, <1>2
<1>6. Once(hand'[w]) /\ Range(hand'[w]) = Range(hand[w]) \cup {Head(queue)}
  BY <1>2, <1>3, <1>4, <1>5, RangeAppend, OnceAppend DEF Orderly
<1>7. \A v \in Workers : /\ Once(hand'[v]) /\ Range(queue') \cap Range(hand'[v]) = {}
                         /\ \A e \in Range(hand'[v]) : e \in Plain \ stored /\ call[e] = "done"
  <2> SUFFICES ASSUME NEW v \in Workers
               PROVE  /\ Once(hand'[v]) /\ Range(queue') \cap Range(hand'[v]) = {}
                      /\ \A e \in Range(hand'[v]) : e \in Plain \ stored /\ call[e] = "done"
    OBVIOUS
  <2>1. /\ Range(queue) \cap Range(hand[v]) = {} /\ Once(hand[v])
        /\ \A e \in Range(hand[v]) : e \in Plain \ stored /\ call[e] = "done"
        /\ \A e \in Range(queue) : e \in Plain \ stored /\ call[e] = "done"
    BY DEF Orderly
  <2>2. CASE v = w
    BY <1>3, <1>6, <2>1, <2>2
  <2>3. CASE v # w
    BY <1>3, <1>5, <2>1, <2>3
  <2> QED BY <2>2, <2>3
<1>8. \A u, v \in Workers : u # v => Range(hand'[u]) \cap Range(hand'[v]) = {}
  BY <1>3, <1>5, <1>6 DEF Orderly
<1> QED BY <1>1, <1>3, <1>7, <1>8 DEF Orderly

(* The batch can be stored, and its hand is empty afterwards.              *)
LEMMA InsertOrderly ==
  ASSUME TypeOK, Orderly, NEW w \in Workers, Insert(w)
  PROVE  Orderly'
<1>1. Insertable(hand[w])
  BY DEF Insertable, Orderly, Once
<1>2. /\ stored' = stored \cup Range(hand[w]) /\ hand' = [hand EXCEPT ![w] = <<>>]
      /\ stage' = [stage EXCEPT ![w] = "pop"]
      /\ UNCHANGED <<queue, dead, call, rescuer, given>>
  BY <1>1 DEF Insert, Over, Turn, lists
<1>3. /\ hand'[w] = <<>> /\ \A v \in Workers \ {w} : hand'[v] = hand[v]
      /\ \A v \in Workers : stage'[v] = IF v = w THEN "pop" ELSE stage[v]
  BY <1>2 DEF TypeOK
<1>4. Once(hand'[w]) /\ Range(hand'[w]) = {}
  BY <1>3 DEF Once, Range
<1>5. \A v \in Workers : /\ Once(hand'[v]) /\ Range(queue) \cap Range(hand'[v]) = {}
                         /\ \A e \in Range(hand'[v]) : e \in Plain \ stored' /\ call[e] = "done"
  BY <1>2, <1>3, <1>4 DEF Orderly
<1>6. \A u, v \in Workers : u # v => Range(hand'[u]) \cap Range(hand'[v]) = {}
  BY <1>3, <1>4 DEF Orderly
<1>7. \A e \in Range(queue) : e \in Plain \ stored' /\ call[e] = "done"
  BY <1>2 DEF Orderly
<1>8. \A v \in Workers : stage'[v] # "bury"
  BY <1>3 DEF Orderly
<1>9. \A e \in stored' : call[e] = "done"
  BY <1>2 DEF Orderly
<1> QED BY <1>2, <1>5, <1>6, <1>7, <1>8, <1>9 DEF Orderly

(* While nothing failed and no bare entry was logged, the steps left are   *)
(* those of the chain itself.                                              *)
LEMMA CleanStep ==
  ASSUME TypeOK, CleanInv, [Next]_vars
  PROVE  CleanInv'
<1> SUFFICES ASSUME Clean' PROVE Orderly'
  BY DEF CleanInv
<1>0. ~Fault /\ faults \in Nat
  BY DEF TypeOK, Clean, Fault
<1>1. ASSUME NEW e \in Entries, Push(e) PROVE Orderly'
  <2>1. call' = [call EXCEPT ![e] = "done"] /\ call \in [Entries -> {"new", "fallback", "done"}]
        /\ faults' = faults
    BY <1>1 DEF Push, Returns, TypeOK
  <2>2. call'[e] = "done" /\ \A x \in Entries : call'[x] = "new" => call[x] = "new"
    BY <2>1
  <2>3. e \in Plain /\ Clean
    BY <2>1, <2>2 DEF Clean, Entries
  <2> QED BY <1>1, <2>3, PushOrderly DEF CleanInv
<1>2. ASSUME call' = call, faults' = faults PROVE Clean /\ Orderly
  BY <1>2 DEF Clean, CleanInv
<1>3. ASSUME NEW e \in Entries, PushDead(e) PROVE Orderly'
  <2>1. call' = [call EXCEPT ![e] = "done"] /\ call \in [Entries -> {"new", "fallback", "done"}]
        /\ faults' = faults /\ call[e] = "fallback"
    BY <1>3 DEF PushDead, Returns, TypeOK
  <2>2. \A x \in Entries : call'[x] = "new" => call[x] = "new"
    BY <2>1
  <2>3. Clean
    BY <2>1, <2>2 DEF Clean, Entries
  <2> QED BY <2>1, <2>3 DEF CleanInv, Orderly
<1>4. ASSUME NEW w \in Workers, Pop(w) \/ Insert(w) PROVE Orderly'
  <2>1. Orderly
    BY <1>2, <1>4 DEF Pop, Insert
  <2> QED BY <1>4, <2>1, PopOrderly, InsertOrderly
<1>5. ASSUME NEW w \in Workers, Gather(w) PROVE Orderly'
  <2>1. Orderly
    BY <1>2, <1>5 DEF Gather
  <2>2. \A v \in Workers : stage'[v] # "bury"
    BY <1>5, <2>1 DEF Gather, Turn, TypeOK, Orderly
  <2> QED BY <1>5, <2>1, <2>2 DEF Gather, lists, Orderly
<1>6. ASSUME NEW w \in Workers, Bury(w) PROVE Orderly'
  BY <1>2, <1>6 DEF Bury, Orderly
<1>7. CASE Rescue
  BY <1>2, <1>7 DEF Rescue, Orderly
<1>8. CASE RescueFails
  BY <1>2, <1>8 DEF RescueFails, Orderly
<1>10. CASE QueueLapses
  <2>1. Orderly
    BY <1>2, <1>10 DEF QueueLapses
  <2>2. Once(<<>>) /\ Range(<<>>) = {}
    BY DEF Once, Range
  <2> QED BY <1>10, <2>1, <2>2 DEF QueueLapses, workers, Orderly
<1>11. CASE DeadLapses
  BY <1>2, <1>11 DEF DeadLapses, Orderly
<1>9. CASE UNCHANGED vars
  <2>1. Orderly
    BY <1>2, <1>9 DEF vars
  <2> QED BY <1>9, <2>1 DEF vars, Orderly
<1> QED
  BY <1>0, <1>1, <1>3, <1>4, <1>5, <1>6, <1>7, <1>8, <1>9, <1>10, <1>11
     DEF Next, Progress, PushUnanswered, PushFails, PushDeadUnanswered, PushDeadFails,
         PopUnanswered, InsertFails, BuryUnanswered, Drop, RescuerStops

(* AuditWorker._process_batch: without a fault and without an entry of the *)
(* admin e-mail every batch is stored and nothing becomes a dead letter.   *)
THEOREM DeadHaveCause == Spec => []DeadForCause
<1>1. Init => CleanInv
  <2> SUFFICES ASSUME Init PROVE Orderly
    BY DEF CleanInv
  <2>1. queue = <<>> /\ \A w \in Workers : hand[w] = <<>>
    BY DEF Init
  <2>2. Once(<<>>) /\ Range(<<>>) = {}
    BY DEF Once, Range
  <2> QED BY <2>1, <2>2 DEF Init, Orderly
<1>2. TypeOK /\ CleanInv /\ [Next]_vars => CleanInv'
  BY CleanStep
<1>3. TypeOK /\ CleanInv => DeadForCause
  BY DEF TypeOK, CleanInv, Clean, Orderly, DeadForCause
<1> QED BY <1>1, <1>2, <1>3, TypeCorrect, PTL DEF Spec

-----------------------------------------------------------------------------
(* Copies of entries *)

(* The place i of b holds e. All copies of all entries:                    *)
Boxes == {"queue", "dead", "rescuer", "stored"} \cup Workers
At(e, b, i) ==
    \/ b = "queue" /\ i \in DOMAIN queue /\ queue[i] = e
    \/ b = "dead" /\ i \in DOMAIN dead /\ dead[i] = e
    \/ b = "rescuer" /\ i = 0 /\ rescuer.entry = e
    \/ b = "stored" /\ i = 0 /\ e \in stored
    \/ b \in Workers /\ i \in DOMAIN hand[b] /\ hand[b][i] = e
All == {c \in Entries \X Boxes \X Nat : At(c[1], c[2], c[3])}

(* X holds the copies that faults have made: it pays for all but one copy  *)
(* of each entry, and for all while its call may still push another.       *)
Spread(X) ==
    /\ X \subseteq All /\ IsFiniteSet(X) /\ Cardinality(X) <= BatchSize * faults
    /\ \A c, d \in All \ X : c[1] = d[1] => c = d
    /\ \A c \in All : call[c[1]] # "done" => c \in X
DupInv == \E X \in SUBSET All : Spread(X)

(* The copies D after the step are, each by G, a copy of the same entry    *)
(* before the step, and no two the same.                                   *)
From(D, G) ==
    /\ D \subseteq All' /\ G \in [D -> All]
    /\ \A c \in D : G[c][1] = c[1]
    /\ \A c, d \in D : G[c] = G[d] => c = d

(* Copies that come from nowhere are one of an entry whose call is over    *)
(* with it, or a fault's, and then a batch at most.                        *)
LEMMA Charged ==
  ASSUME TypeOK, DupInv, NEW D, NEW G, From(D, G),
         \A e \in Entries : call[e] = "done" => call'[e] = "done",
         \/ /\ faults' = faults /\ \A c, d \in All' \ D : c = d
            /\ \A c \in All' \ D : call[c[1]] # "done" /\ call'[c[1]] = "done"
         \/ Fault /\ IsFiniteSet(All' \ D) /\ Cardinality(All' \ D) <= BatchSize
  PROVE  DupInv'
<1>1. PICK X \in SUBSET All : Spread(X) BY DEF DupInv
<1> DEFINE Old == {c \in D : G[c] \in X}
           f == [c \in Old |-> G[c]]
<1>2. f \in [Old -> X] /\ \A c, d \in Old : f[c] = f[d] => c = d BY DEF From
<1>3. f \in Injection(Old, X) BY <1>2, Fun_IsInj
<1>4. IsFiniteSet(X) BY <1>1 DEF Spread
<1> HIDE DEF f
<1>5. IsFiniteSet(Old) /\ Cardinality(Old) <= Cardinality(X) BY <1>3, <1>4, FS_Injection
<1>6. Cardinality(Old) \in Nat /\ Cardinality(X) \in Nat BY <1>4, <1>5, FS_CardinalityType
<1>7. faults \in Nat /\ Cardinality(X) <= BatchSize * faults BY <1>1 DEF TypeOK, Spread
<1>8. Old \subseteq All' /\ D \subseteq All' BY DEF From
<1>9. \A c \in All' : c[1] \in Entries BY DEF All
<1>10. \A c, d \in D : c \notin Old /\ d \notin Old /\ c[1] = d[1] => c = d
  BY <1>1 DEF From, Spread
<1>11. \A c \in D : call[c[1]] # "done" => c \in Old
  BY <1>1 DEF From, Spread
<1> DEFINE product == BatchSize * faults
<1>12. product \in Nat BY <1>7
<1> HIDE DEF Old
<1>13. CASE /\ faults' = faults /\ \A c, d \in All' \ D : c = d
            /\ \A c \in All' \ D : call[c[1]] # "done" /\ call'[c[1]] = "done"
  <2>1. Cardinality(Old) <= BatchSize * faults'
    <3> HIDE DEF product
    <3>1. Cardinality(Old) <= product BY <1>5, <1>6, <1>7, <1>12 DEF product
    <3> QED BY <1>13, <3>1 DEF product
  <2>2. \A c, d \in All' \ Old : c[1] = d[1] => c = d
    BY <1>8, <1>9, <1>10, <1>11, <1>13
  <2>3. \A c \in All' : call'[c[1]] # "done" => c \in Old
    BY <1>8, <1>9, <1>11, <1>13
  <2>4. PICK Y : Y = Old OBVIOUS
  <2>5. Spread(Y)' BY <1>5, <1>8, <2>1, <2>2, <2>3, <2>4 DEF Spread
  <2> QED BY <1>8, <2>4, <2>5 DEF DupInv
<1>14. CASE Fault /\ IsFiniteSet(All' \ D) /\ Cardinality(All' \ D) <= BatchSize
  <2> DEFINE R == All' \ D
  <2>1. PICK Y : Y = Old \cup R OBVIOUS
  <2>2. /\ IsFiniteSet(Y) /\ Cardinality(R) \in Nat
        /\ Cardinality(Y) = Cardinality(Old) + Cardinality(R) - Cardinality(Old \cap R)
        /\ Cardinality(Old \cap R) \in Nat
    BY <1>5, <1>14, <2>1, FS_Union, FS_Intersection, FS_CardinalityType
  <2>3. faults' = faults + 1 /\ Cardinality(R) <= BatchSize BY <1>14 DEF Fault
  <2>4. BatchSize * faults' = product + BatchSize BY <1>7, <2>3
  <2> HIDE DEF R, product
  <2>5. Cardinality(X) <= product BY <1>7 DEF product
  <2>6. Cardinality(Y) <= product + BatchSize
    BY <1>5, <1>6, <1>12, <2>2, <2>3, <2>5
  <2>7. Cardinality(Y) <= BatchSize * faults' BY <2>4, <2>6
  <2>8. Y \subseteq All' BY <1>8, <2>1 DEF R
  <2>9. \A c, d \in All' \ Y : c[1] = d[1] => c = d
    BY <1>10, <2>1 DEF R
  <2>10. \A c \in All' : call'[c[1]] # "done" => c \in Y
    BY <1>9, <1>11, <2>1 DEF R
  <2>11. Spread(Y)' BY <2>2, <2>7, <2>8, <2>9, <2>10 DEF Spread
  <2> QED BY <2>8, <2>11 DEF DupInv
<1> QED BY <1>13, <1>14

(* Copies that only move within their box.                                 *)
Slide(D, G, shift) ==
    From(D, G) /\ \A c \in D : G[c] = <<c[1], c[2], c[3] + shift[c[2]]>>

LEMMA Shifted ==
  ASSUME NEW D, D \subseteq All', NEW shift \in [Boxes -> Nat],
         \A c \in D : At(c[1], c[2], c[3] + shift[c[2]])
  PROVE  \E G : Slide(D, G, shift)
<1> DEFINE G == [c \in D |-> <<c[1], c[2], c[3] + shift[c[2]]>>]
<1>1. \A c \in D : /\ c = <<c[1], c[2], c[3]>>
                   /\ c[1] \in Entries /\ c[2] \in Boxes /\ c[3] \in Nat
  BY DEF All
<1>2. ASSUME NEW c \in D PROVE G[c] \in All
  <2>1. c[3] + shift[c[2]] \in Nat BY <1>1
  <2> QED BY <1>1, <2>1 DEF All
<1>3. \A c, d \in D : G[c] = G[d] => c = d
  <2> SUFFICES ASSUME NEW c \in D, NEW d \in D,
                      <<c[1], c[2], c[3] + shift[c[2]]>> = <<d[1], d[2], d[3] + shift[d[2]]>>
               PROVE  c = d
    OBVIOUS
  <2>1. c[1] = d[1] /\ c[2] = d[2] /\ c[3] + shift[c[2]] = d[3] + shift[d[2]] OBVIOUS
  <2>2. c[3] = d[3] BY <1>1, <2>1
  <2> QED BY <1>1, <2>1, <2>2
<1>4. From(D, G) BY <1>2, <1>3 DEF From
<1>5. Slide(D, G, shift) BY <1>4 DEF Slide
<1> QED BY <1>5

(* Copies that move in two ways, to different origins.                     *)
Apart(D, G, M, H) == \A c \in M, d \in D : H[c] # G[d]

LEMMA Joined ==
  ASSUME NEW D, NEW G, From(D, G), NEW M, NEW H, From(M, H),
         Apart(D, G, M, H)
  PROVE  \E K : From(D \cup M, K)
<1> DEFINE K == [c \in D \cup M |-> IF c \in D THEN G[c] ELSE H[c]]
<1>1. K \in [D \cup M -> All] BY DEF From
<1>2. \A c \in D \cup M : K[c][1] = c[1] BY DEF From
<1>3. \A c, d \in D \cup M : K[c] = K[d] => c = d BY DEF From, Apart
<1>4. D \cup M \subseteq All' BY DEF From
<1> HIDE DEF K
<1> QED BY <1>1, <1>2, <1>3, <1>4 DEF From

(* What the trimmed list holds it held before, further back.               *)
LEMMA NewestAt ==
  ASSUME NEW S, NEW s \in Seq(S), NEW max \in Nat
  PROVE  \E k \in Nat : \A i \in DOMAIN Newest(s, max) :
            i \in Nat /\ i + k \in DOMAIN s /\ Newest(s, max)[i] = s[i + k]
<1>1. Len(s) \in Nat /\ s \in [1 .. Len(s) -> S] /\ DOMAIN s = 1 .. Len(s) BY LenProperties
<1>2. CASE Len(s) > max
  <2> DEFINE k == Len(s) - max
             t == SubSeq(s, k + 1, Len(s))
  <2>1. k \in Nat /\ k + max = Len(s) BY <1>1, <1>2
  <2>2. DOMAIN t = 1 .. max /\ \A i \in 1 .. max : t[i] = s[k + i] BY <1>1, <1>2, <2>1
  <2>3. \A i \in 1 .. max : k + i \in 1 .. Len(s) BY <1>1, <2>1
  <2>4. Newest(s, max) = t BY <1>2 DEF Newest
  <2> HIDE DEF t, k
  <2>5. \A i \in 1 .. max : i \in Nat /\ i + k \in DOMAIN s /\ t[i] = s[i + k]
    BY <1>1, <2>1, <2>2, <2>3
  <2> QED BY <2>1, <2>2, <2>4, <2>5
<1>3. CASE ~(Len(s) > max)
  <2>1. Newest(s, max) = s BY <1>3 DEF Newest
  <2>2. \A i \in DOMAIN s : i \in Nat /\ i + 0 \in DOMAIN s /\ s[i] = s[i + 0] BY <1>1
  <2> QED BY <2>1, <2>2
<1> QED BY <1>2, <1>3

LEMMA Sole ==
  ASSUME NEW R, \A c, d \in R : c = d
  PROVE  IsFiniteSet(R) /\ Cardinality(R) <= 1
<1>1. CASE R = {} BY <1>1, FS_EmptySet
<1>2. CASE R # {}
  <2>1. PICK c \in R : R = {c} BY <1>2
  <2>2. IsFiniteSet({c}) /\ Cardinality({c}) = 1 BY FS_Singleton
  <2> QED BY <2>1, <2>2
<1> QED BY <1>1, <1>2

LEMMA TailAt ==
  ASSUME NEW S, NEW s \in Seq(S), s # <<>>
  PROVE  /\ 1 \in DOMAIN s /\ Head(s) = s[1]
         /\ \A i \in DOMAIN Tail(s) : /\ i \in Nat /\ i >= 1
                                      /\ i + 1 \in DOMAIN s /\ Tail(s)[i] = s[i + 1]
<1>1. /\ DOMAIN s = 1 .. Len(s) /\ Len(s) \in Nat /\ Len(s) >= 1 /\ Head(s) = s[1]
      /\ DOMAIN Tail(s) = 1 .. (Len(s) - 1)
      /\ \A i \in 1 .. (Len(s) - 1) : Tail(s)[i] = s[i + 1]
  BY EmptySeq, LenProperties, HeadTailProperties
<1> QED BY <1>1

(* What a copy is, before and after the step.                              *)
PlaceTypes ==
    \A c \in All :
        /\ c = <<c[1], c[2], c[3]>> /\ c[1] \in Entries /\ c[2] \in Boxes /\ c[3] \in Nat
        /\ c[2] = "queue" => c[3] \in DOMAIN queue /\ queue[c[3]] = c[1]
        /\ c[2] = "dead" => c[3] \in DOMAIN dead /\ dead[c[3]] = c[1]
        /\ c[2] = "rescuer" => c[3] = 0 /\ rescuer.entry = c[1]
        /\ c[2] = "stored" => c[3] = 0 /\ c[1] \in stored
        /\ c[2] \in Workers => c[3] \in DOMAIN hand[c[2]] /\ hand[c[2]][c[3]] = c[1]
        /\ c[2] \notin {"queue", "dead", "rescuer", "stored"} => c[2] \in Workers

LEMMA InPlace == PlaceTypes /\ PlaceTypes'
<1>1. ASSUME NEW c \in All
      PROVE  /\ At(c[1], c[2], c[3]) /\ c = <<c[1], c[2], c[3]>>
             /\ c[1] \in Entries /\ c[2] \in Boxes /\ c[3] \in Nat
  BY DEF All
<1>2. ASSUME NEW c \in All'
      PROVE  /\ At(c[1], c[2], c[3])' /\ c = <<c[1], c[2], c[3]>>
             /\ c[1] \in Entries /\ c[2] \in Boxes /\ c[3] \in Nat
  BY DEF All
<1>3. PlaceTypes BY <1>1, AuditAssumption DEF PlaceTypes, At, Boxes, AuditAssumption
<1>4. PlaceTypes' BY <1>2, AuditAssumption DEF PlaceTypes, At, Boxes, AuditAssumption
<1> QED BY <1>3, <1>4

-----------------------------------------------------------------------------
(* What each step does to the copies *)

(* A call that is over stays so.                                           *)
LEMMA DoneStays ==
  ASSUME TypeOK, [Next]_vars
  PROVE  \A e \in Entries : call[e] = "done" => call'[e] = "done"
<1>1. CASE UNCHANGED call BY <1>1
<1>2. CASE \E e \in Entries, label \in {"fallback", "done"} : call[e] # "done" /\ Returns(e, label)
  BY <1>2 DEF Returns, TypeOK
<1> QED
  BY <1>1, <1>2 DEF Next, Progress, Push, PushUnanswered, PushFails, PushDead, PushDeadUnanswered,
     PushDeadFails, Pop, Gather, Insert, Bury, PopUnanswered, InsertFails, BuryUnanswered, Drop,
     Rescue, RescueFails, RescuerStops, QueueLapses, DeadLapses, vars

Monotone == \A e \in Entries : call[e] = "done" => call'[e] = "done"

(* Nothing new: lists lose their heads or all, hands and the rescuer what  *)
(* they hold.                                                              *)
LEMMA NoCopy ==
  ASSUME TypeOK, TypeOK', DupInv, Monotone, faults' = faults \/ Fault, stored' = stored,
         queue' = queue \/ (queue # <<>> /\ queue' = Tail(queue)) \/ queue' = <<>>,
         dead' = dead \/ (dead # <<>> /\ dead' = Tail(dead)) \/ dead' = <<>>,
         rescuer'.entry \in {rescuer.entry, None},
         \A w \in Workers : hand'[w] \in {hand[w], <<>>}
  PROVE  DupInv'
<1>1. PICK q \in Nat : \A i \in DOMAIN queue' : i \in Nat /\ i + q \in DOMAIN queue /\ queue'[i] = queue[i + q]
  <2>0. queue \in Seq(Entries) /\ DOMAIN queue = 1 .. Len(queue) /\ Len(queue) \in Nat
    BY LenProperties DEF TypeOK
  <2>1. CASE queue' = queue
    <3>1. \A i \in DOMAIN queue : i \in Nat /\ i + 0 \in DOMAIN queue /\ queue[i] = queue[i + 0]
      BY <2>0
    <3> QED BY <2>1, <3>1
  <2>2. CASE queue # <<>> /\ queue' = Tail(queue)
    <3>1. \A i \in DOMAIN queue' : i \in Nat /\ i + 1 \in DOMAIN queue /\ queue'[i] = queue[i + 1]
      BY <2>0, <2>2, TailAt
    <3> QED BY <3>1
  <2>3. CASE queue' = <<>>
    <3>1. DOMAIN <<>> = {} /\ 0 \in Nat OBVIOUS
    <3> QED BY <2>3, <3>1
  <2> QED BY <2>1, <2>2, <2>3
<1>2. PICK k \in Nat : \A i \in DOMAIN dead' : i \in Nat /\ i + k \in DOMAIN dead /\ dead'[i] = dead[i + k]
  <2>0. dead \in Seq(Entries) /\ DOMAIN dead = 1 .. Len(dead) /\ Len(dead) \in Nat
    BY LenProperties DEF TypeOK
  <2>1. CASE dead' = dead
    <3>1. \A i \in DOMAIN dead : i \in Nat /\ i + 0 \in DOMAIN dead /\ dead[i] = dead[i + 0]
      BY <2>0
    <3> QED BY <2>1, <3>1
  <2>2. CASE dead # <<>> /\ dead' = Tail(dead)
    <3>1. \A i \in DOMAIN dead' : i \in Nat /\ i + 1 \in DOMAIN dead /\ dead'[i] = dead[i + 1]
      BY <2>0, <2>2, TailAt
    <3> QED BY <3>1
  <2>3. CASE dead' = <<>>
    <3>1. DOMAIN <<>> = {} /\ 0 \in Nat OBVIOUS
    <3> QED BY <2>3, <3>1
  <2> QED BY <2>1, <2>2, <2>3
<1>3. PICK shift \in [Boxes -> Nat] :
        shift = [b \in Boxes |-> IF b = "queue" THEN q ELSE IF b = "dead" THEN k ELSE 0]
  OBVIOUS
<1>4. PICK D : D = All' OBVIOUS
<1>5. ASSUME NEW c \in D PROVE At(c[1], c[2], c[3] + shift[c[2]])
  <2>1. /\ c[1] \in Entries /\ c[2] \in Boxes /\ c[3] \in Nat
        /\ c[2] = "queue" => c[3] \in DOMAIN queue' /\ queue'[c[3]] = c[1]
        /\ c[2] = "dead" => c[3] \in DOMAIN dead' /\ dead'[c[3]] = c[1]
        /\ c[2] = "rescuer" => c[3] = 0 /\ rescuer'.entry = c[1]
        /\ c[2] = "stored" => c[3] = 0 /\ c[1] \in stored'
        /\ c[2] \in Workers => c[3] \in DOMAIN hand'[c[2]] /\ hand'[c[2]][c[3]] = c[1]
        /\ c[2] \notin {"queue", "dead", "rescuer", "stored"} => c[2] \in Workers
    BY <1>4, InPlace DEF PlaceTypes
  <2>2. CASE c[2] \in {"queue", "dead"} BY <1>1, <1>2, <1>3, <2>1, <2>2 DEF At
  <2>3. CASE c[2] \in {"rescuer", "stored"}
    <3>1. c[3] + shift[c[2]] = 0 BY <1>3, <2>1, <2>3
    <3>2. c[2] = "rescuer" => rescuer.entry = c[1] BY <2>1
    <3> QED BY <2>1, <2>3, <3>1, <3>2 DEF At
  <2>4. CASE c[2] \in Workers
    <3>1. c[3] + shift[c[2]] = c[3] BY <1>3, <2>1, <2>4
    <3>2. hand'[c[2]] = hand[c[2]]
      <4>1. DOMAIN <<>> = {} OBVIOUS
      <4> QED BY <2>1, <2>4, <4>1
    <3> QED BY <2>1, <2>4, <3>1, <3>2 DEF At
  <2> QED BY <2>1, <2>2, <2>3, <2>4
<1>6. PICK G : From(D, G) BY <1>4, <1>5, Shifted DEF Slide
<1>7. All' \ D = {} BY <1>4
<1>8. IsFiniteSet({}) /\ Cardinality({}) = 0 BY FS_EmptySet
<1> QED BY <1>6, <1>7, <1>8, Charged DEF Monotone

(* An entry is pushed to the queue.                                        *)
LEMMA QueueCopy ==
  ASSUME TypeOK, TypeOK', DupInv, Monotone, NEW e \in Entries, ToQueue(e),
         UNCHANGED <<stored, hand, rescuer>>, call[e] # "done",
         Fault \/ (faults' = faults /\ call'[e] = "done")
  PROVE  DupInv'
<1> DEFINE s == Append(queue, e)
           n == Len(queue)
<1>1. /\ n \in Nat /\ DOMAIN queue = 1 .. n /\ DOMAIN s = 1 .. (n + 1) /\ s[n + 1] = e
      /\ \A i \in 1 .. n : s[i] = queue[i]
      /\ s \in Seq(Entries)
  <2>1. queue \in Seq(Entries) BY DEF TypeOK
  <2> QED BY <2>1
<1>2. queue' = Newest(s, QueueMax) /\ dead' = dead BY DEF ToQueue
<1> HIDE DEF s, n
<1>3. PICK k \in Nat : \A i \in DOMAIN queue' : i \in Nat /\ i + k \in DOMAIN s /\ queue'[i] = s[i + k]
  <2>1. QueueMax \in Nat BY AuditAssumption DEF AuditAssumption
  <2>2. \E k \in Nat : \A i \in DOMAIN Newest(s, QueueMax) :
          i \in Nat /\ i + k \in DOMAIN s /\ Newest(s, QueueMax)[i] = s[i + k]
    <3>1. s \in Seq(Entries) BY <1>1
    <3> QED BY <2>1, <3>1, NewestAt
  <2> QED BY <1>2, <2>2
<1>4. PICK shift \in [Boxes -> Nat] : shift = [b \in Boxes |-> IF b = "queue" THEN k ELSE 0]
  OBVIOUS
<1>5. PICK D : D = {c \in All' : c[2] = "queue" => c[3] + k # n + 1} OBVIOUS
<1>6. PlaceTypes' BY InPlace
<1>7. ASSUME NEW c \in D PROVE At(c[1], c[2], c[3] + shift[c[2]])
  <2>1. CASE c[2] = "queue"
    <3>1. c[3] + k \in DOMAIN s /\ queue'[c[3]] = s[c[3] + k] /\ c[3] + k # n + 1
      BY <1>3, <1>5, <1>6, <2>1 DEF PlaceTypes
    <3>2. c[3] + k \in 1 .. n BY <1>1, <3>1
    <3>3. queue[c[3] + k] = c[1] BY <1>1, <1>5, <1>6, <2>1, <3>1, <3>2 DEF PlaceTypes
    <3> QED BY <1>1, <1>4, <2>1, <3>2, <3>3 DEF At, Boxes
  <2>2. CASE c[2] # "queue"
    <3>1. c[3] + shift[c[2]] = c[3] BY <1>4, <1>5, <1>6, <2>2 DEF PlaceTypes
    <3> QED BY <1>2, <1>5, <1>6, <2>2, <3>1 DEF At, PlaceTypes
  <2> QED BY <2>1, <2>2
<1>8. \A c \in All' \ D : c[1] = e /\ c[2] = "queue" /\ c[3] + k = n + 1
  BY <1>1, <1>3, <1>5, <1>6 DEF PlaceTypes
<1>9. \A c, d \in All' \ D : c = d
  <2> SUFFICES ASSUME NEW c \in All' \ D, NEW d \in All' \ D PROVE c = d OBVIOUS
  <2>1. c[3] = d[3] BY <1>6, <1>8 DEF PlaceTypes
  <2> QED BY <1>6, <1>8, <2>1 DEF PlaceTypes
<1>10. PICK G : From(D, G) BY <1>5, <1>7, Shifted DEF Slide
<1>11. CASE Fault
  <2>1. IsFiniteSet(All' \ D) /\ Cardinality(All' \ D) <= 1 BY <1>9, Sole
  <2>2. Cardinality(All' \ D) <= BatchSize BY <2>1, FS_CardinalityType
  <2> QED BY <1>10, <1>11, <2>1, <2>2, Charged DEF Monotone
<1>12. CASE faults' = faults /\ call'[e] = "done"
  BY <1>8, <1>9, <1>10, <1>12, Charged DEF Monotone
<1> QED BY <1>11, <1>12

(* The copies that are new are of places of es, no two of the same.        *)
Copied(es, D, G, I) ==
    /\ From(D, G) /\ \A c \in D : G[c][2] = c[2]
    /\ \A c \in All' \ D : I[c] \in DOMAIN es /\ es[I[c]] = c[1]
    /\ \A c, d \in All' \ D : I[c] = I[d] => c = d

(* They were in the hand that is empty now.                                *)
LEMMA HandedOn ==
  ASSUME TypeOK, DupInv, Monotone, NEW w \in Workers, hand'[w] = <<>>, faults' = faults,
         NEW D, NEW G, NEW I, Copied(hand[w], D, G, I)
  PROVE  DupInv'
<1>1. PICK M : M = All' \ D OBVIOUS
<1>2. PlaceTypes' BY InPlace
<1>3. PICK H : H = [c \in M |-> <<c[1], w, I[c]>>] OBVIOUS
<1>4. \A c \in M : H[c] = <<c[1], w, I[c]>> /\ H[c][1] = c[1] /\ H[c][2] = w /\ H[c][3] = I[c]
  BY <1>3
<1>5. ASSUME NEW c \in M PROVE H[c] \in All
  <2>1. hand[w] \in Seq(Entries) BY DEF TypeOK
  <2>2. DOMAIN hand[w] \subseteq Nat BY <2>1, LenProperties
  <2>3. I[c] \in DOMAIN hand[w] /\ hand[w][I[c]] = c[1] BY <1>1 DEF Copied
  <2>4. c[1] \in Entries BY <1>1, <1>2 DEF PlaceTypes
  <2>5. At(c[1], w, I[c]) BY <2>3 DEF At
  <2>6. w \in Boxes BY DEF Boxes
  <2>7. <<c[1], w, I[c]>> \in Entries \X Boxes \X Nat BY <2>2, <2>3, <2>4, <2>6
  <2>8. PICK t : t = <<c[1], w, I[c]>> OBVIOUS
  <2>9. t \in Entries \X Boxes \X Nat /\ At(t[1], t[2], t[3]) BY <2>5, <2>7, <2>8
  <2> QED BY <1>4, <2>8, <2>9 DEF All
<1>6. From(M, H)
  <2>1. M \subseteq All' BY <1>1
  <2>2. H \in [M -> All] BY <1>3, <1>5
  <2>3. \A c, d \in M : H[c] = H[d] => c = d BY <1>1, <1>4 DEF Copied
  <2> QED BY <1>4, <2>1, <2>2, <2>3 DEF From
<1>7. Apart(D, G, M, H)
  <2> SUFFICES ASSUME NEW c \in M, NEW d \in D, H[c] = G[d] PROVE FALSE BY DEF Apart
  <2>1. d[2] = w BY <1>4 DEF Copied
  <2>2. d[3] \in DOMAIN hand'[w] BY <1>2, <2>1 DEF Copied, From, PlaceTypes
  <2> QED BY <2>2
<1>8. From(D, G) BY DEF Copied
<1>9. PICK K : From(D \cup M, K)
  <2> HIDE DEF From
  <2> QED BY <1>6, <1>7, <1>8, Joined
<1>10. PICK A : A = D \cup M OBVIOUS
<1>11. All' \ A = {} BY <1>1, <1>10
<1> QED BY <1>9, <1>10, <1>11, Charged DEF Monotone

(* Or a fault repeated a step.                                             *)
LEMMA Repeated ==
  ASSUME TypeOK, DupInv, Monotone, Fault, NEW es \in Seq(Entries), Len(es) <= BatchSize,
         NEW D, NEW G, NEW I, Copied(es, D, G, I)
  PROVE  DupInv'
<1>1. PICK M : M = All' \ D OBVIOUS
<1>2. DOMAIN es = 1 .. Len(es) /\ Len(es) \in Nat BY LenProperties
<1> DEFINE f == [c \in M |-> I[c]]
<1>3. f \in [M -> 1 .. Len(es)] /\ \A c, d \in M : f[c] = f[d] => c = d
  BY <1>1, <1>2 DEF Copied
<1>4. f \in Injection(M, 1 .. Len(es)) BY <1>3, Fun_IsInj
<1> HIDE DEF f
<1>5. IsFiniteSet(1 .. Len(es)) /\ Cardinality(1 .. Len(es)) = Len(es)
  BY <1>2, FS_Interval
<1>6. IsFiniteSet(M) /\ Cardinality(M) <= Len(es) BY <1>4, <1>5, FS_Injection
<1>7. Cardinality(M) <= BatchSize
  BY <1>2, <1>6, FS_CardinalityType, AuditAssumption DEF AuditAssumption
<1>8. From(D, G) BY DEF Copied
<1> QED BY <1>1, <1>6, <1>7, <1>8, Charged DEF Monotone

(* What is pushed to the dead letters, all the rest stays or goes away.    *)
LEMMA DeadMoves ==
  ASSUME TypeOK, NEW es \in Seq(Entries), ToDead(es), UNCHANGED <<stored, rescuer>>,
         \A w \in Workers : hand'[w] \in {hand[w], <<>>}
  PROVE  \E D, G, I : Copied(es, D, G, I)
<1> DEFINE s == dead \o es
           n == Len(dead)
<1>1. /\ n \in Nat /\ DOMAIN dead = 1 .. n /\ DOMAIN es = 1 .. Len(es) /\ Len(es) \in Nat
      /\ DOMAIN s = 1 .. (n + Len(es)) /\ s \in Seq(Entries)
      /\ \A i \in 1 .. (n + Len(es)) : s[i] = IF i <= n THEN dead[i] ELSE es[i - n]
  <2>1. dead \in Seq(Entries) BY DEF TypeOK
  <2> QED BY <2>1
<1>2. dead' = Newest(s, DeadMax) /\ queue' = queue BY DEF ToDead
<1> HIDE DEF s, n
<1>3. PICK k \in Nat : \A i \in DOMAIN dead' : i \in Nat /\ i + k \in DOMAIN s /\ dead'[i] = s[i + k]
  <2>1. DeadMax \in Nat BY AuditAssumption DEF AuditAssumption
  <2>2. \E k \in Nat : \A i \in DOMAIN Newest(s, DeadMax) :
          i \in Nat /\ i + k \in DOMAIN s /\ Newest(s, DeadMax)[i] = s[i + k]
    <3>1. s \in Seq(Entries) BY <1>1
    <3> QED BY <2>1, <3>1, NewestAt
  <2> QED BY <1>2, <2>2
<1>4. PICK shift \in [Boxes -> Nat] : shift = [b \in Boxes |-> IF b = "dead" THEN k ELSE 0]
  OBVIOUS
<1>5. PICK D : D = {c \in All' : c[2] = "dead" => c[3] + k <= n}
  OBVIOUS
<1>6. PlaceTypes' BY InPlace
<1>7. ASSUME NEW c \in D PROVE At(c[1], c[2], c[3] + shift[c[2]])
  <2>1. CASE c[2] = "dead"
    <3>1. c[3] + k \in DOMAIN s /\ dead'[c[3]] = s[c[3] + k] /\ c[3] + k <= n /\ dead'[c[3]] = c[1]
      BY <1>3, <1>5, <1>6, <2>1 DEF PlaceTypes
    <3>2. c[3] + k \in 1 .. n BY <1>1, <3>1
    <3>3. dead[c[3] + k] = c[1] BY <1>1, <3>1, <3>2
    <3> QED BY <1>1, <1>4, <2>1, <3>2, <3>3 DEF At, Boxes
  <2>2. CASE c[2] # "dead"
    <3>1. c[3] + shift[c[2]] = c[3] BY <1>4, <1>5, <1>6, <2>2 DEF PlaceTypes
    <3>2. c[2] \in Workers => hand'[c[2]] = hand[c[2]] BY <1>5, <1>6 DEF PlaceTypes
    <3> QED BY <1>2, <1>5, <1>6, <2>2, <3>1, <3>2 DEF At, PlaceTypes
  <2> QED BY <2>1, <2>2
<1>8. PICK G : Slide(D, G, shift)
  <2>1. D \subseteq All' BY <1>5
  <2> QED BY <1>7, <2>1, Shifted
<1>9. PICK M : M = All' \ D OBVIOUS
<1>10. PICK I : I = [c \in M |-> c[3] + k - n] OBVIOUS
<1>11. ASSUME NEW c \in M
       PROVE  /\ I[c] = c[3] + k - n /\ c[3] \in Nat /\ c[2] = "dead" /\ c = <<c[1], c[2], c[3]>>
              /\ I[c] \in DOMAIN es /\ es[I[c]] = c[1]
  <2>1. I[c] = c[3] + k - n BY <1>10
  <2>2. c[3] \in Nat /\ c[2] = "dead" /\ c = <<c[1], c[2], c[3]>> /\ ~(c[3] + k <= n)
    BY <1>5, <1>6, <1>9 DEF PlaceTypes
  <2>3. c[3] \in DOMAIN dead' /\ dead'[c[3]] = c[1] BY <1>6, <1>9, <2>2 DEF PlaceTypes
  <2>4. c[3] + k \in DOMAIN s /\ s[c[3] + k] = c[1] BY <1>3, <2>3
  <2>5. c[3] + k - n \in 1 .. Len(es) BY <1>1, <2>2, <2>4
  <2>6. s[c[3] + k] = es[c[3] + k - n]
    <3>1. PICK i : i = c[3] + k OBVIOUS
    <3>2. i \in 1 .. (n + Len(es)) /\ ~(i <= n) BY <1>1, <2>2, <2>4, <3>1
    <3>3. s[i] = es[i - n] BY <1>1, <3>2
    <3>4. i - n = c[3] + k - n BY <1>1, <2>2, <3>1
    <3> QED BY <3>1, <3>3, <3>4
  <2> QED BY <1>1, <2>1, <2>2, <2>4, <2>5, <2>6
<1>12. \A c, d \in M : I[c] = I[d] => c = d
  <2> SUFFICES ASSUME NEW c \in M, NEW d \in M, I[c] = I[d] PROVE c = d OBVIOUS
  <2>1. c[3] = d[3] BY <1>1, <1>11
  <2>2. c[1] = d[1] BY <1>11
  <2> QED BY <1>11, <2>1, <2>2
<1>13. From(D, G) /\ \A c \in D : G[c][2] = c[2] BY <1>8 DEF Slide
<1>14. Copied(es, D, G, I) BY <1>9, <1>11, <1>12, <1>13 DEF Copied
<1> QED BY <1>14

(* What is stored.                                                         *)
LEMMA StoreMoves ==
  ASSUME TypeOK, NEW w \in Workers, stored' = stored \cup Range(hand[w]),
         UNCHANGED <<queue, dead, rescuer>>,
         \A v \in Workers : hand'[v] \in {hand[v], <<>>}
  PROVE  \E D, G, I : Copied(hand[w], D, G, I)
<1>1. PICK D : D = {c \in All' : c[2] = "stored" => c[1] \in stored} OBVIOUS
<1>2. PICK shift \in [Boxes -> Nat] : shift = [b \in Boxes |-> 0] OBVIOUS
<1>3. PlaceTypes' BY InPlace
<1>4. ASSUME NEW c \in D PROVE At(c[1], c[2], c[3] + shift[c[2]])
  <2>1. c[3] + shift[c[2]] = c[3] BY <1>1, <1>2, <1>3 DEF PlaceTypes
  <2>2. c[2] \in Workers => hand'[c[2]] = hand[c[2]] BY <1>1, <1>3 DEF PlaceTypes
  <2> QED BY <1>1, <1>3, <2>1, <2>2 DEF At, PlaceTypes
<1>5. PICK G : Slide(D, G, shift)
  <2>1. D \subseteq All' BY <1>1
  <2> QED BY <1>4, <2>1, Shifted
<1>6. PICK M : M = All' \ D OBVIOUS
<1>7. PICK I : I = [c \in M |-> CHOOSE i \in DOMAIN hand[w] : hand[w][i] = c[1]] OBVIOUS
<1>8. ASSUME NEW c \in M
      PROVE  /\ c = <<c[1], "stored", 0>>
             /\ I[c] \in DOMAIN hand[w] /\ hand[w][I[c]] = c[1]
  <2>1. c = <<c[1], c[2], c[3]>> /\ c[2] = "stored" /\ c[3] = 0 /\ c[1] \in Range(hand[w])
    BY <1>1, <1>3, <1>6 DEF PlaceTypes
  <2>2. \E i \in DOMAIN hand[w] : hand[w][i] = c[1] BY <2>1 DEF Range
  <2> QED BY <1>7, <2>1, <2>2
<1>9. \A c, d \in M : I[c] = I[d] => c = d BY <1>8
<1>10. From(D, G) /\ \A c \in D : G[c][2] = c[2] BY <1>5 DEF Slide
<1>11. Copied(hand[w], D, G, I) BY <1>6, <1>8, <1>9, <1>10 DEF Copied
<1> QED BY <1>11

(* One copy that is now somewhere else.                                    *)
LEMMA Carried ==
  ASSUME TypeOK, DupInv, Monotone, faults' = faults, NEW D, NEW G, From(D, G), NEW o \in All,
         \A c, d \in All' \ D : c = d, \A c \in All' \ D : c[1] = o[1],
         \A d \in D : G[d] # o
  PROVE  DupInv'
<1>1. PICK M : M = All' \ D OBVIOUS
<1>2. PICK H : H = [c \in M |-> o] OBVIOUS
<1>3. From(M, H)
  <2>1. M \subseteq All' /\ H \in [M -> All] BY <1>1, <1>2
  <2>2. \A c \in M : H[c][1] = c[1] BY <1>1, <1>2
  <2>3. \A c, d \in M : H[c] = H[d] => c = d BY <1>1
  <2> QED BY <2>1, <2>2, <2>3 DEF From
<1>4. Apart(D, G, M, H) BY <1>2 DEF Apart
<1>5. PICK K : From(D \cup M, K) BY <1>3, <1>4, Joined
<1>6. PICK A : A = D \cup M OBVIOUS
<1>7. D \subseteq All' BY DEF From
<1>8. All' \ A = {} BY <1>1, <1>6
<1> QED BY <1>5, <1>6, <1>8, Charged DEF Monotone

(* A worker takes the head of the queue.                                   *)
LEMMA PopCopy ==
  ASSUME TypeOK, DupInv, Monotone, NEW w \in Workers, Pop(w)
  PROVE  DupInv'
<1> DEFINE n == Len(hand[w])
<1>1. /\ queue \in Seq(Entries) /\ queue # <<>> /\ queue' = Tail(queue)
      /\ hand' = [hand EXCEPT ![w] = Append(hand[w], Head(queue))]
      /\ dead' = dead /\ stored' = stored /\ rescuer' = rescuer /\ faults' = faults
  BY DEF Pop, TypeOK
<1>2. /\ 1 \in DOMAIN queue /\ Head(queue) = queue[1] /\ Head(queue) \in Entries
      /\ \A i \in DOMAIN queue' : i \in Nat /\ i >= 1 /\ i + 1 \in DOMAIN queue /\ queue'[i] = queue[i + 1]
  <2>1. Head(queue) \in Entries BY <1>1
  <2> QED BY <1>1, <2>1, TailAt
<1>3. /\ n \in Nat /\ DOMAIN hand[w] = 1 .. n /\ DOMAIN hand'[w] = 1 .. (n + 1)
      /\ hand'[w][n + 1] = Head(queue) /\ \A i \in 1 .. n : hand'[w][i] = hand[w][i]
  <2>1. hand[w] \in Seq(Entries) /\ hand'[w] = Append(hand[w], Head(queue)) BY <1>1 DEF TypeOK
  <2> QED BY <1>2, <2>1
<1>4. \A v \in Workers : v # w => hand'[v] = hand[v] BY <1>1 DEF TypeOK
<1> HIDE DEF n
<1>5. PICK shift \in [Boxes -> Nat] : shift = [b \in Boxes |-> IF b = "queue" THEN 1 ELSE 0]
  OBVIOUS
<1>6. PICK D : D = {c \in All' : c[2] = w => c[3] # n + 1} OBVIOUS
<1>7. PlaceTypes' BY InPlace
<1>8. ASSUME NEW c \in D PROVE At(c[1], c[2], c[3] + shift[c[2]])
  <2>1. CASE c[2] = "queue"
    <3>1. c[3] \in DOMAIN queue' /\ queue'[c[3]] = c[1] BY <1>6, <1>7, <2>1 DEF PlaceTypes
    <3>2. c[3] + 1 \in DOMAIN queue /\ queue[c[3] + 1] = c[1] BY <1>2, <3>1
    <3> QED BY <1>5, <2>1, <3>2 DEF At, Boxes
  <2>2. CASE c[2] # "queue"
    <3>1. c[3] + shift[c[2]] = c[3] BY <1>5, <1>6, <1>7, <2>2 DEF PlaceTypes
    <3>2. c[2] \in Workers => c[3] \in DOMAIN hand[c[2]] /\ hand[c[2]][c[3]] = c[1]
      <4>1. CASE c[2] = w
        <5>1. c[3] \in 1 .. (n + 1) /\ hand'[w][c[3]] = c[1] /\ c[3] # n + 1
          BY <1>3, <1>6, <1>7, <4>1 DEF PlaceTypes
        <5>2. c[3] \in 1 .. n BY <1>3, <5>1
        <5> QED BY <1>3, <4>1, <5>1, <5>2
      <4>2. CASE c[2] # w BY <1>4, <1>6, <1>7, <4>2 DEF PlaceTypes
      <4> QED BY <4>1, <4>2
    <3> QED BY <1>1, <1>6, <1>7, <2>2, <3>1, <3>2 DEF At, PlaceTypes
  <2> QED BY <2>1, <2>2
<1>9. PICK G : Slide(D, G, shift)
  <2>1. D \subseteq All' BY <1>6
  <2> QED BY <1>8, <2>1, Shifted
<1>10. PICK o : o = <<Head(queue), "queue", 1>> OBVIOUS
<1>11. o \in All
  <2>1. o \in Entries \X Boxes \X Nat BY <1>2, <1>10 DEF Boxes
  <2>2. At(o[1], o[2], o[3]) BY <1>2, <1>10 DEF At
  <2> QED BY <2>1, <2>2 DEF All
<1>12. ASSUME NEW c \in All' \ D PROVE c = <<Head(queue), w, n + 1>>
  BY <1>3, <1>6, <1>7 DEF PlaceTypes
<1>13. ASSUME NEW d \in D PROVE G[d] # o
  <2>1. G[d] = <<d[1], d[2], d[3] + shift[d[2]]>> BY <1>9 DEF Slide
  <2>2. CASE d[2] = "queue"
    <3>1. d[3] \in Nat /\ d[3] >= 1 /\ shift[d[2]] = 1
      BY <1>2, <1>5, <1>6, <1>7, <2>2 DEF PlaceTypes, Boxes
    <3> QED BY <1>10, <2>1, <3>1
  <2>3. CASE d[2] # "queue" BY <1>10, <2>1, <2>3
  <2> QED BY <2>2, <2>3
<1>14. From(D, G) BY <1>9 DEF Slide
<1>15. \A c \in All' \ D : c[1] = o[1] BY <1>10, <1>12
<1>16. \A c, d \in All' \ D : c = d BY <1>12
<1> QED BY <1>1, <1>11, <1>13, <1>14, <1>15, <1>16, Carried

(* dlq_worker takes the head of the dead letters.                          *)
LEMMA RescueCopy ==
  ASSUME TypeOK, DupInv, Monotone, Rescue
  PROVE  DupInv'
<1>1. /\ dead \in Seq(Entries) /\ dead # <<>> /\ dead' = Tail(dead)
      /\ rescuer'.entry = Head(dead)
      /\ queue' = queue /\ stored' = stored /\ hand' = hand /\ faults' = faults
  BY DEF Rescue, TypeOK, workers
<1>2. /\ 1 \in DOMAIN dead /\ Head(dead) = dead[1] /\ Head(dead) \in Entries
      /\ \A i \in DOMAIN dead' : i \in Nat /\ i >= 1 /\ i + 1 \in DOMAIN dead /\ dead'[i] = dead[i + 1]
  <2>1. Head(dead) \in Entries BY <1>1
  <2> QED BY <1>1, <2>1, TailAt
<1>3. PICK shift \in [Boxes -> Nat] : shift = [b \in Boxes |-> IF b = "dead" THEN 1 ELSE 0]
  OBVIOUS
<1>4. PICK D : D = {c \in All' : c[2] # "rescuer"} OBVIOUS
<1>5. PlaceTypes' BY InPlace
<1>6. ASSUME NEW c \in D PROVE At(c[1], c[2], c[3] + shift[c[2]])
  <2>1. CASE c[2] = "dead"
    <3>1. c[3] \in DOMAIN dead' /\ dead'[c[3]] = c[1] BY <1>4, <1>5, <2>1 DEF PlaceTypes
    <3>2. c[3] + 1 \in DOMAIN dead /\ dead[c[3] + 1] = c[1] BY <1>2, <3>1
    <3> QED BY <1>3, <2>1, <3>2 DEF At, Boxes
  <2>2. CASE c[2] # "dead"
    <3>1. c[3] + shift[c[2]] = c[3] BY <1>3, <1>4, <1>5, <2>2 DEF PlaceTypes
    <3> QED BY <1>1, <1>4, <1>5, <2>2, <3>1 DEF At, PlaceTypes
  <2> QED BY <2>1, <2>2
<1>7. PICK G : Slide(D, G, shift)
  <2>1. D \subseteq All' BY <1>4
  <2> QED BY <1>6, <2>1, Shifted
<1>8. PICK o : o = <<Head(dead), "dead", 1>> OBVIOUS
<1>9. o \in All
  <2>1. o \in Entries \X Boxes \X Nat BY <1>2, <1>8 DEF Boxes
  <2>2. At(o[1], o[2], o[3]) BY <1>2, <1>8 DEF At
  <2> QED BY <2>1, <2>2 DEF All
<1>10. ASSUME NEW c \in All' \ D PROVE c = <<Head(dead), "rescuer", 0>>
  BY <1>1, <1>4, <1>5 DEF PlaceTypes
<1>11. ASSUME NEW d \in D PROVE G[d] # o
  <2>1. G[d] = <<d[1], d[2], d[3] + shift[d[2]]>> BY <1>7 DEF Slide
  <2>2. CASE d[2] = "dead"
    <3>1. d[3] \in Nat /\ d[3] >= 1 /\ shift[d[2]] = 1
      BY <1>2, <1>3, <1>4, <1>5, <2>2 DEF PlaceTypes, Boxes
    <3> QED BY <1>8, <2>1, <3>1
  <2>3. CASE d[2] # "dead" BY <1>8, <2>1, <2>3
  <2> QED BY <2>2, <2>3
<1>12. From(D, G) BY <1>7 DEF Slide
<1>13. \A c \in All' \ D : c[1] = o[1] BY <1>8, <1>10
<1>14. \A c, d \in All' \ D : c = d BY <1>10
<1> QED BY <1>1, <1>9, <1>11, <1>12, <1>13, <1>14, Carried

LEMMA LogCopy ==
  ASSUME TypeOK, TypeOK', DupInv, Monotone, NEW e \in Entries,
         \/ Push(e) \/ PushUnanswered(e) \/ PushFails(e)
         \/ PushDead(e) \/ PushDeadUnanswered(e) \/ PushDeadFails(e)
  PROVE  DupInv'
<1>1. call \in [Entries -> {"new", "fallback", "done"}] BY DEF TypeOK
<1>2. CASE Push(e)
  <2>1. call'[e] = "done" BY <1>1, <1>2 DEF Push, Returns
  <2> QED BY <1>2, <2>1, QueueCopy DEF Push, workers
<1>3. CASE PushUnanswered(e) BY <1>3, QueueCopy DEF PushUnanswered, workers
<1>4. CASE PushFails(e) \/ PushDeadFails(e)
  <2>1. \A w \in Workers : hand'[w] \in {hand[w], <<>>}
    BY <1>4 DEF PushFails, PushDeadFails, workers
  <2> QED BY <1>4, <2>1, NoCopy DEF PushFails, PushDeadFails, workers, lists
<1>5. <<e>> \in Seq(Entries) /\ Len(<<e>>) = 1 /\ DOMAIN <<e>> = {1} /\ <<e>>[1] = e
  OBVIOUS
<1>6. CASE PushDead(e)
  <2>1. ToDead(<<e>>) /\ UNCHANGED <<stored, rescuer>> /\ faults' = faults
    BY <1>6 DEF PushDead
  <2>2. \A w \in Workers : hand'[w] \in {hand[w], <<>>} BY <1>6 DEF PushDead, workers
  <2>3. PICK D, G, I : Copied(<<e>>, D, G, I) BY <1>5, <2>1, <2>2, DeadMoves
  <2>4. call[e] # "done" /\ call'[e] = "done" BY <1>1, <1>6 DEF PushDead, Returns
  <2>5. From(D, G) BY <2>3 DEF Copied
  <2>6. \A c \in All' \ D : I[c] = 1 /\ c[1] = e BY <1>5, <2>3 DEF Copied
  <2>7. \A c, d \in All' \ D : c = d BY <2>3, <2>6 DEF Copied
  <2> QED BY <2>1, <2>4, <2>5, <2>6, <2>7, Charged DEF Monotone
<1>7. CASE PushDeadUnanswered(e)
  <2>1. ToDead(<<e>>) /\ UNCHANGED <<stored, rescuer>> /\ Fault
    BY <1>7 DEF PushDeadUnanswered
  <2>2. \A w \in Workers : hand'[w] \in {hand[w], <<>>} BY <1>7 DEF PushDeadUnanswered, workers
  <2>3. PICK D, G, I : Copied(<<e>>, D, G, I) BY <1>5, <2>1, <2>2, DeadMoves
  <2>4. Len(<<e>>) <= BatchSize BY <1>5, AuditAssumption DEF AuditAssumption
  <2> QED BY <1>5, <2>1, <2>3, <2>4, Repeated
<1> QED BY <1>2, <1>3, <1>4, <1>6, <1>7

LEMMA WorkerCopy ==
  ASSUME TypeOK, TypeOK', DupInv, Monotone, NEW w \in Workers,
         \/ Progress(w)
         \/ PopUnanswered(w) \/ InsertFails(w) \/ BuryUnanswered(w) \/ Drop(w)
  PROVE  DupInv'
<1>1. hand \in [Workers -> Seq(Entries)] /\ hand[w] \in Seq(Entries) /\ Len(hand[w]) <= BatchSize
  BY DEF TypeOK
<1>2. ASSUME Over(w)
      PROVE  hand'[w] = <<>> /\ \A v \in Workers : hand'[v] \in {hand[v], <<>>}
  BY <1>1, <1>2 DEF Over
<1>3. ASSUME hand' = hand PROVE \A v \in Workers : hand'[v] \in {hand[v], <<>>}
  BY <1>3
<1>4. CASE Pop(w) BY <1>4, PopCopy
<1>5. CASE Gather(w) BY <1>3, <1>5, NoCopy DEF Gather, lists
<1>6. CASE PopUnanswered(w)
  <2>1. \A v \in Workers : hand'[v] \in {hand[v], <<>>}
    BY <1>2, <1>3, <1>6 DEF PopUnanswered, workers
  <2> QED BY <1>6, <2>1, NoCopy DEF PopUnanswered
<1>7. CASE Drop(w)
  <2>1. \A v \in Workers : hand'[v] \in {hand[v], <<>>} BY <1>2, <1>7 DEF Drop
  <2> QED BY <1>7, <2>1, NoCopy DEF Drop, lists
<1>8. CASE Insert(w)
  <2>1. UNCHANGED <<queue, dead, rescuer>> /\ faults' = faults BY <1>8 DEF Insert, lists
  <2>2. CASE Insertable(hand[w])
    <3>1. stored' = stored \cup Range(hand[w]) /\ Over(w) BY <1>8, <2>2 DEF Insert
    <3>2. PICK D, G, I : Copied(hand[w], D, G, I) BY <1>2, <2>1, <3>1, StoreMoves
    <3> QED BY <1>2, <2>1, <3>1, <3>2, HandedOn
  <2>3. CASE ~Insertable(hand[w])
    <3>1. stored' = stored /\ hand' = hand BY <1>8, <2>3 DEF Insert
    <3> QED BY <1>3, <2>1, <3>1, NoCopy
  <2> QED BY <2>2, <2>3
<1>9. CASE InsertFails(w)
  <2>1. UNCHANGED <<queue, dead, rescuer>> /\ Fault /\ hand' = hand
    BY <1>9 DEF InsertFails, lists
  <2>2. CASE stored' = stored BY <1>3, <2>1, <2>2, NoCopy
  <2>3. CASE stored' = stored \cup Range(hand[w])
    <3>1. PICK D, G, I : Copied(hand[w], D, G, I) BY <1>3, <2>1, <2>3, StoreMoves
    <3> QED BY <1>1, <2>1, <3>1, Repeated
  <2> QED BY <1>9, <2>2, <2>3 DEF InsertFails
<1>10. CASE Bury(w)
  <2>1. UNCHANGED <<stored, rescuer>> /\ faults' = faults /\ ToDead(hand[w]) /\ Over(w)
    BY <1>10 DEF Bury
  <2>2. PICK D, G, I : Copied(hand[w], D, G, I) BY <1>1, <1>2, <2>1, DeadMoves
  <2> QED BY <1>2, <2>1, <2>2, HandedOn
<1>11. CASE BuryUnanswered(w)
  <2>1. UNCHANGED <<stored, rescuer>> /\ Fault /\ ToDead(hand[w]) BY <1>11 DEF BuryUnanswered
  <2>2. \A v \in Workers : hand'[v] \in {hand[v], <<>>}
    BY <1>2, <1>3, <1>11 DEF BuryUnanswered, workers
  <2>3. PICK D, G, I : Copied(hand[w], D, G, I) BY <1>1, <2>1, <2>2, DeadMoves
  <2> QED BY <1>1, <2>1, <2>3, Repeated
<1> QED BY <1>4, <1>5, <1>6, <1>7, <1>8, <1>9, <1>10, <1>11 DEF Progress

LEMMA StepDup == TypeOK /\ TypeOK' /\ DupInv /\ [Next]_vars => DupInv'
<1> SUFFICES ASSUME TypeOK, TypeOK', DupInv, [Next]_vars PROVE DupInv'
  OBVIOUS
<1>1. Monotone BY DoneStays DEF Monotone
<1>2. CASE Rescue BY <1>1, <1>2, RescueCopy
<1>3. ASSUME hand' = hand PROVE \A v \in Workers : hand'[v] \in {hand[v], <<>>}
  BY <1>3
<1>4. CASE RescueFails
  <2>1. rescuer'.entry = None BY <1>4 DEF RescueFails, TypeOK
  <2> QED BY <1>1, <1>3, <1>4, <2>1, NoCopy DEF RescueFails, lists, workers
<1>5. CASE RescuerStops
  <2>1. rescuer'.entry = None BY <1>5 DEF RescuerStops
  <2> QED BY <1>1, <1>3, <1>5, <2>1, NoCopy DEF RescuerStops, workers
<1>6. CASE UNCHANGED vars BY <1>1, <1>3, <1>6, NoCopy DEF vars
<1>7. CASE QueueLapses \/ DeadLapses
  BY <1>1, <1>3, <1>7, NoCopy DEF QueueLapses, DeadLapses, workers
<1> QED BY <1>1, <1>2, <1>4, <1>5, <1>6, <1>7, LogCopy, WorkerCopy DEF Next

LEMMA InitDup == Init => DupInv
<1> SUFFICES ASSUME Init PROVE DupInv
  OBVIOUS
<1>1. All = {}
  <2> SUFFICES ASSUME NEW c \in All PROVE FALSE
    OBVIOUS
  <2>1. PlaceTypes BY InPlace
  <2>2. queue = <<>> /\ dead = <<>> /\ stored = {} /\ rescuer.entry = None
    BY DEF Init
  <2>3. \A w \in Workers : hand[w] = <<>> BY DEF Init
  <2>4. None \notin Entries BY AuditAssumption DEF AuditAssumption
  <2>5. DOMAIN <<>> = {} OBVIOUS
  <2>6. c[2] \in Workers => c[3] \in DOMAIN <<>> BY <2>1, <2>3 DEF PlaceTypes
  <2> QED BY <2>1, <2>2, <2>4, <2>5, <2>6 DEF PlaceTypes
<1>2. IsFiniteSet({}) /\ Cardinality({}) = 0 BY FS_EmptySet
<1>3. BatchSize * faults = 0 BY AuditAssumption DEF AuditAssumption, Init
<1>4. Spread({}) BY <1>1, <1>2, <1>3 DEF Spread
<1> QED BY <1>4 DEF DupInv

(* The set pays for all copies of an entry but one.                        *)
LEMMA CopiesPaid ==
  ASSUME TypeOK, NEW X, Spread(X), NEW e \in Entries
  PROVE  /\ IsFiniteSet({c \in X : c[1] = e}) /\ Cardinality({c \in X : c[1] = e}) \in Nat
         /\ Cardinality(Copies(e)) \in Nat
         /\ Cardinality(Copies(e)) <= Cardinality({c \in X : c[1] = e}) + 1
<1> DEFINE mine == {c \in X : c[1] = e}
           places == {c \in All : c[1] = e}
<1>1. IsFiniteSet(mine) /\ Cardinality(mine) \in Nat
  BY FS_Subset, FS_CardinalityType DEF Spread
<1>2. PICK o : places \subseteq mine \cup {o}
  <2>1. CASE places \subseteq mine BY <2>1
  <2>2. CASE \E o \in places : o \notin mine
    <3>1. PICK o \in places : o \notin mine BY <2>2
    <3>2. places \subseteq mine \cup {o} BY <3>1 DEF Spread
    <3> QED BY <3>2
  <2> QED BY <2>1, <2>2
<1>3. IsFiniteSet(mine \cup {o}) /\ Cardinality(mine \cup {o}) <= Cardinality(mine) + 1
      /\ Cardinality(mine \cup {o}) \in Nat
  <2> HIDE DEF mine
  <2>1. CASE o \in mine
    <3>1. mine \cup {o} = mine BY <2>1
    <3> QED BY <1>1, <3>1
  <2>2. CASE o \notin mine
    <3>1. IsFiniteSet(mine \cup {o}) /\ Cardinality(mine \cup {o}) = Cardinality(mine) + 1
      BY <1>1, <2>2, FS_AddElement
    <3> QED BY <1>1, <3>1
  <2> QED BY <2>1, <2>2
<1>4. IsFiniteSet(places) /\ Cardinality(places) <= Cardinality(mine \cup {o})
      /\ Cardinality(places) \in Nat
  <2> HIDE DEF mine, places
  <2> QED BY <1>2, <1>3, FS_Subset, FS_CardinalityType
<1>5. ASSUME NEW p \in Copies(e) PROVE p = <<p[1], p[2]>> /\ <<e, p[1], p[2]>> \in places
  <2>1. DOMAIN queue \subseteq Nat /\ DOMAIN dead \subseteq Nat
    BY LenProperties DEF TypeOK
  <2>2. \A w \in Workers : DOMAIN hand[w] \subseteq Nat
    <3> SUFFICES ASSUME NEW w \in Workers PROVE DOMAIN hand[w] \subseteq Nat OBVIOUS
    <3>1. hand[w] \in Seq(Entries) BY DEF TypeOK
    <3> QED BY <3>1, LenProperties
  <2>3. p = <<p[1], p[2]>> /\ p[1] \in Boxes /\ p[2] \in Nat /\ At(e, p[1], p[2])
    <3>1. CASE p \in {<<"queue", i>> : i \in {j \in DOMAIN queue : queue[j] = e}}
      BY <2>1, <3>1 DEF At, Boxes
    <3>2. CASE p \in {<<"dead", i>> : i \in {j \in DOMAIN dead : dead[j] = e}}
      BY <2>1, <3>2 DEF At, Boxes
    <3>3. CASE p \in {<<b, 0>> : b \in {q \in {"rescuer", "stored"} :
                       IF q = "stored" THEN e \in stored ELSE rescuer.entry = e}}
      BY <3>3 DEF At, Boxes
    <3>4. CASE p \in UNION {{<<w, i>> : i \in {j \in DOMAIN hand[w] : hand[w][j] = e}} : w \in Workers}
      <4>1. PICK w \in Workers : p \in {<<w, i>> : i \in {j \in DOMAIN hand[w] : hand[w][j] = e}}
        BY <3>4
      <4>2. PICK i \in DOMAIN hand[w] : p = <<w, i>> /\ hand[w][i] = e BY <4>1
      <4> QED BY <2>2, <4>2 DEF At, Boxes
    <3> QED BY <3>1, <3>2, <3>3, <3>4 DEF Copies
  <2>4. PICK t : t = <<e, p[1], p[2]>> OBVIOUS
  <2>5. t \in Entries \X Boxes \X Nat /\ t[1] = e /\ At(t[1], t[2], t[3]) BY <2>3, <2>4
  <2> QED BY <2>3, <2>4, <2>5 DEF All
<1> DEFINE f == [p \in Copies(e) |-> <<e, p[1], p[2]>>]
<1>6. f \in [Copies(e) -> places] /\ \A p, q \in Copies(e) : f[p] = f[q] => p = q
  <2> HIDE DEF places
  <2>1. \A p \in Copies(e) : f[p] \in places BY <1>5
  <2>2. \A p, q \in Copies(e) : f[p] = f[q] => p[1] = q[1] /\ p[2] = q[2] OBVIOUS
  <2> QED BY <1>5, <2>1, <2>2
<1>7. f \in Injection(Copies(e), places) BY <1>6, Fun_IsInj
<1> HIDE DEF f, places
<1>8. IsFiniteSet(Copies(e)) /\ Cardinality(Copies(e)) <= Cardinality(places)
  BY <1>4, <1>7, FS_Injection
<1>9. Cardinality(Copies(e)) \in Nat BY <1>8, FS_CardinalityType
<1> HIDE DEF mine
<1>10. Cardinality(Copies(e)) <= Cardinality(mine) + 1 BY <1>1, <1>3, <1>4, <1>8, <1>9
<1> QED BY <1>1, <1>9, <1>10 DEF mine

(* So there are no more duplicates than copies the faults made.            *)
LEMMA DupBound == TypeOK /\ DupInv => DuplicatesBounded
<1> SUFFICES ASSUME TypeOK, DupInv PROVE DuplicatesBounded
  OBVIOUS
<1>1. PICK X \in SUBSET All : Spread(X) BY DEF DupInv
<1> DEFINE Mine(e) == {c \in X : c[1] = e}
<1>2. ASSUME NEW e \in Entries
      PROVE  /\ Cardinality(Mine(e)) \in Nat /\ Cardinality(Copies(e)) \in Nat
             /\ Cardinality(Copies(e)) <= Cardinality(Mine(e)) + 1
             /\ IsFiniteSet(Mine(e))
  BY <1>1, CopiesPaid
<1>3. ASSUME NEW e \in Entries
      PROVE  \E g : g \in Injection(1 .. Cardinality(Mine(e)), Mine(e))
  <2> HIDE DEF Mine
  <2>1. PICK n \in Nat : ExistsBijection(1 .. n, Mine(e)) BY <1>2, FS_NatBijection
  <2>2. Cardinality(Mine(e)) = n BY <2>1, FS_CountingElements
  <2>3. PICK g : g \in Bijection(1 .. n, Mine(e)) BY <2>1 DEF ExistsBijection
  <2> QED BY <2>2, <2>3 DEF Bijection
<1> DEFINE b == [e \in Entries |-> CHOOSE g : g \in Injection(1 .. Cardinality(Mine(e)), Mine(e))]
<1>4. ASSUME NEW e \in Entries PROVE b[e] \in Injection(1 .. Cardinality(Mine(e)), Mine(e))
  <2> HIDE DEF Mine
  <2> QED BY <1>3
<1>5. ASSUME NEW d \in Duplicates
      PROVE  /\ d = <<d[1], d[2]>> /\ d[1] \in Entries
             /\ d[2] \in Int /\ d[2] - 1 \in 1 .. Cardinality(Mine(d[1]))
  <2> HIDE DEF Mine
  <2>1. d = <<d[1], d[2]>> /\ d[1] \in Entries /\ d[2] \in 2 .. MaxCopies
        /\ d[2] <= Cardinality(Copies(d[1]))
    BY DEF Duplicates
  <2>2. d[2] \in Int /\ d[2] >= 2 BY <2>1
  <2> QED BY <1>2, <2>1, <2>2
<1> DEFINE f == [d \in Duplicates |-> b[d[1]][d[2] - 1]]
<1>6. ASSUME NEW d \in Duplicates PROVE f[d] \in Mine(d[1])
  <2> HIDE DEF Mine, b
  <2>1. b[d[1]] \in Injection(1 .. Cardinality(Mine(d[1])), Mine(d[1])) BY <1>4, <1>5
  <2>2. b[d[1]] \in [1 .. Cardinality(Mine(d[1])) -> Mine(d[1])] BY <2>1 DEF Injection
  <2> QED BY <1>5, <2>2
<1>7. ASSUME NEW c \in Duplicates, NEW d \in Duplicates, f[c] = f[d] PROVE c = d
  <2>1. f[c][1] = c[1] /\ f[d][1] = d[1] BY <1>6
  <2>2. c[1] = d[1] BY <1>7, <2>1
  <2> HIDE DEF Mine, b
  <2>3. b[c[1]] \in Injection(1 .. Cardinality(Mine(c[1])), Mine(c[1])) BY <1>4, <1>5
  <2>4. c[2] - 1 = d[2] - 1 BY <1>5, <1>7, <2>2, <2>3 DEF Injection, IsInjective
  <2>5. c[2] = d[2] BY <1>5, <2>4
  <2> QED BY <1>5, <2>2, <2>5
<1>8. f \in [Duplicates -> X] BY <1>6
<1> HIDE DEF f
<1>9. f \in Injection(Duplicates, X) BY <1>7, <1>8, Fun_IsInj
<1>10. IsFiniteSet(X) /\ Cardinality(X) <= BatchSize * faults BY <1>1 DEF Spread
<1>11. IsFiniteSet(Duplicates) /\ Cardinality(Duplicates) <= Cardinality(X)
  BY <1>9, <1>10, FS_Injection
<1>12. Cardinality(Duplicates) \in Nat /\ Cardinality(X) \in Nat
  BY <1>10, <1>11, FS_CardinalityType
<1>13. BatchSize * faults \in Nat BY AuditAssumption DEF AuditAssumption, TypeOK
<1> QED BY <1>10, <1>11, <1>12, <1>13 DEF DuplicatesBounded

(* AuditWorker: a fault duplicates at most one batch; without one no entry *)
(* is ever in two places, however many workers pop side by side.           *)
THEOREM DuplicatesAreBounded == Spec => []DuplicatesBounded
<1>1. Init => DupInv BY InitDup
<1>2. TypeOK /\ TypeOK' /\ DupInv /\ [Next]_vars => DupInv' BY StepDup
<1>3. TypeOK /\ DupInv => DuplicatesBounded BY DupBound
<1> QED BY <1>1, <1>2, <1>3, TypeCorrect, PTL DEF Spec

-----------------------------------------------------------------------------
(* Before the first fault an entry is in one place at most, however many   *)
(* calls push and workers pop side by side; and when its call has returned *)
(* and it is nowhere, then it fell off a full list, expired with its list, *)
(* or the dead letter worker gave it up (audit_service.py:92-132,          *)
(* audit_worker.py:34-71).                                                 *)
THEOREM OnceUntilFault ==
  Spec => [](faults = 0 => \A e \in Entries :
                /\ Cardinality(Copies(e)) <= 1
                /\ call[e] = "done" /\ Copies(e) = {} => e \in shed \cup given)
<1> DEFINE Safe == \A e \in Entries :
             /\ Cardinality(Copies(e)) <= 1
             /\ call[e] = "done" /\ Copies(e) = {} => e \in shed \cup given
<1>1. Init => DupInv BY InitDup
<1>2. TypeOK /\ TypeOK' /\ DupInv /\ [Next]_vars => DupInv' BY StepDup
<1>3. ASSUME TypeOK, LossBounded, DupInv, faults = 0 PROVE Safe
  <2>1. BatchSize * faults = 0
    <3>1. BatchSize \in Nat BY AuditAssumption DEF AuditAssumption
    <3> QED BY <1>3, <3>1
  <2>2. Lost = {}
    <3>1. IsFiniteSet(Lost) BY AuditAssumption, FS_Subset DEF AuditAssumption, Lost
    <3> QED BY <1>3, <2>1, <3>1, FS_CardinalityType, FS_EmptySet DEF LossBounded
  <2>3. PICK X \in SUBSET All : Spread(X) BY <1>3 DEF DupInv
  <2>4. X = {}
    <3>1. IsFiniteSet(X) /\ Cardinality(X) <= 0 BY <2>1, <2>3 DEF Spread
    <3> QED BY <3>1, FS_CardinalityType, FS_EmptySet
  <2>5. ASSUME NEW e \in Entries PROVE Cardinality(Copies(e)) <= 1
    <3>1. {c \in X : c[1] = e} = {} BY <2>4
    <3>2. Cardinality(Copies(e)) <= Cardinality({c \in X : c[1] = e}) + 1
      BY <1>3, <2>3, CopiesPaid
    <3> QED BY <3>1, <3>2, FS_EmptySet
  <2>6. ASSUME NEW e \in Entries, call[e] = "done", Copies(e) = {} PROVE e \in shed \cup given
    BY <2>2, <2>6 DEF Lost
  <2> QED BY <2>5, <2>6
<1> QED BY <1>1, <1>2, <1>3, TypeCorrect, LossIsBounded, PTL DEF Spec

=============================================================================
