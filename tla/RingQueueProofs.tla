-------------------------- MODULE RingQueueProofs --------------------------
(* Safety of RingQueue for every number of threads and every capacity.     *)
EXTENDS RingQueue, FiniteSetTheorems, SequenceTheorems, TLAPS

(* Joining a set adds one to its size. *)
LEMMA Enter ==
  ASSUME NEW A, IsFiniteSet(A), NEW t, t \notin A
  PROVE  Cardinality(A \cup {t}) = Cardinality(A) + 1
BY FS_AddElement

(* Leaving it takes one away. *)
LEMMA Leave ==
  ASSUME NEW A, IsFiniteSet(A), NEW t, t \in A
  PROVE  Cardinality(A \ {t}) = Cardinality(A) - 1
BY FS_RemoveElement

(* 1 for a condition that holds and 0 for one that does not. *)
One(b) == IF b THEN 1 ELSE 0

(* A set B that differs from A at most in t.                               *)
LEMMA CountChange ==
  ASSUME NEW A, NEW B, NEW t, IsFiniteSet(A), A \ {t} = B \ {t}
  PROVE  Cardinality(B) = Cardinality(A) + One(t \in B) - One(t \in A)
<1>0. Cardinality(A) \in Nat
  BY FS_CardinalityType
<1>1. CASE t \in B /\ t \notin A
  <2>1. B = A \cup {t}
    BY <1>1
  <2> QED
    BY <1>0, <1>1, <2>1, Enter DEF One
<1>2. CASE t \notin B /\ t \in A
  <2>1. B = A \ {t}
    BY <1>2
  <2> QED
    BY <1>0, <1>2, <2>1, Leave DEF One
<1>3. CASE t \in B <=> t \in A
  <2>1. B = A
    BY <1>3
  <2> QED
    BY <1>0, <1>3, <2>1 DEF One
<1> QED
  BY <1>1, <1>2, <1>3
-----------------------------------------------------------------------------

(* The inductive invariant: a mutex is held by the thread that accesses a  *)
(* slot, the units of the two semaphores are conserved, and the positions  *)
(* agree with them.                                                        *)
MutexInv ==
  /\ pMutex = At(Producers, {"access"}) /\ \A p, q \in pMutex : p = q
  /\ cMutex = At(Consumers, {"access"}) /\ \A c, d \in cMutex : c = d

IInv == TypeOK /\ MutexInv /\ UnitsConserved /\ PositionsAgree
-----------------------------------------------------------------------------
(* A position moves on by one, and from the last slot to the first.        *)
LEMMA SuccRange ==
  ASSUME NEW i \in 0 .. MaxCap - 1
  PROVE  Succ(i) = IF i = MaxCap - 1 THEN 0 ELSE i + 1
BY MaxCapAssumption DEF Succ

(* A sum of a position and a number of slots wraps around at most once.    *)
LEMMA SumRange ==
  ASSUME NEW c \in 0 .. MaxCap - 1, NEW n \in 0 .. MaxCap
  PROVE  (c + n) % MaxCap = IF c + n < MaxCap THEN c + n ELSE c + n - MaxCap
BY MaxCapAssumption

(* The position behind n filled slots, before and after one more is filled. *)
LEMMA AfterWrite ==
  ASSUME NEW c \in 0 .. MaxCap - 1, NEW n \in 0 .. MaxCap - 1
  PROVE  Succ((c + n) % MaxCap) = (c + (n + 1)) % MaxCap
<1>0. n \in 0 .. MaxCap /\ n + 1 \in 0 .. MaxCap
  BY MaxCapAssumption
<1>1. (c + n) % MaxCap = IF c + n < MaxCap THEN c + n ELSE c + n - MaxCap
  BY <1>0, SumRange
<1>2. (c + (n + 1)) % MaxCap =
        IF c + (n + 1) < MaxCap THEN c + (n + 1) ELSE c + (n + 1) - MaxCap
  BY <1>0, SumRange
<1>4. (c + n) % MaxCap \in 0 .. MaxCap - 1
  BY <1>1, MaxCapAssumption
<1>5. Succ((c + n) % MaxCap) =
        IF (c + n) % MaxCap = MaxCap - 1 THEN 0 ELSE ((c + n) % MaxCap) + 1
  BY <1>4, SuccRange
<1> QED
  BY <1>1, <1>2, <1>5, MaxCapAssumption

(* The same position seen from the next slot to read.                      *)
LEMMA AfterRead ==
  ASSUME NEW c \in 0 .. MaxCap - 1, NEW n \in 1 .. MaxCap
  PROVE  (Succ(c) + (n - 1)) % MaxCap = (c + n) % MaxCap
<1>1. Succ(c) = IF c = MaxCap - 1 THEN 0 ELSE c + 1
  BY SuccRange
<1>0. n \in 0 .. MaxCap
  BY MaxCapAssumption
<1>2. (c + n) % MaxCap = IF c + n < MaxCap THEN c + n ELSE c + n - MaxCap
  BY <1>0, SumRange
<1>3. Succ(c) \in 0 .. MaxCap - 1 /\ n - 1 \in 0 .. MaxCap
  BY <1>1, MaxCapAssumption
<1>4. (Succ(c) + (n - 1)) % MaxCap =
        IF Succ(c) + (n - 1) < MaxCap THEN Succ(c) + (n - 1)
                                      ELSE Succ(c) + (n - 1) - MaxCap
  BY <1>3, SumRange
<1> QED
  BY <1>1, <1>2, <1>4, MaxCapAssumption

(* Counting the threads at some labels gives a natural number.             *)
LEMMA AtFinite ==
  ASSUME NEW S, IsFiniteSet(S), NEW L
  PROVE  IsFiniteSet(At(S, L)) /\ Cardinality(At(S, L)) \in Nat
<1>1. At(S, L) \subseteq S
  BY DEF At
<1> QED
  BY <1>1, FS_Subset, FS_CardinalityType

(* The sets whose sizes UnitsConserved adds up are finite.                 *)
LEMMA CountsFinite ==
  /\ IsFiniteSet(HoldSpace) /\ Cardinality(HoldSpace) \in Nat
  /\ IsFiniteSet(OweSpace) /\ Cardinality(OweSpace) \in Nat
  /\ IsFiniteSet(HoldData) /\ Cardinality(HoldData) \in Nat
  /\ IsFiniteSet(OweData) /\ Cardinality(OweData) \in Nat
BY AtFinite, ThreadsAssumption DEF HoldSpace, OweSpace, HoldData, OweData

(* How a step of a producer changes the four counts.                       *)
LEMMA ProducerMoved ==
  ASSUME TypeOK, NEW p \in Producers, NEW label, Goto(p, label)
  PROVE  /\ Cardinality(HoldSpace') = Cardinality(HoldSpace)
              + One(label \in {"lock", "access"}) - One(pc[p] \in {"lock", "access"})
         /\ Cardinality(OweData') = Cardinality(OweData)
              + One(label = "post") - One(pc[p] = "post")
         /\ HoldData' = HoldData /\ OweSpace' = OweSpace
         /\ Cardinality(HoldSpace') \in Nat /\ Cardinality(OweData') \in Nat
<1> USE ThreadsAssumption DEF TypeOK, Threads, Goto, At
<1>1. /\ HoldSpace \ {p} = HoldSpace' \ {p}
      /\ p \in HoldSpace <=> pc[p] \in {"lock", "access"}
      /\ p \in HoldSpace' <=> label \in {"lock", "access"}
  BY DEF HoldSpace
<1>2. /\ OweData \ {p} = OweData' \ {p}
      /\ p \in OweData <=> pc[p] = "post"
      /\ p \in OweData' <=> label = "post"
  BY DEF OweData
<1>3. HoldData' = HoldData /\ OweSpace' = OweSpace
  BY DEF HoldData, OweSpace
<1>4. /\ Cardinality(HoldSpace') =
           Cardinality(HoldSpace) + One(p \in HoldSpace') - One(p \in HoldSpace)
      /\ Cardinality(OweData') =
           Cardinality(OweData) + One(p \in OweData') - One(p \in OweData)
  BY <1>1, <1>2, CountChange, CountsFinite
<1>5. HoldSpace' \subseteq Producers /\ OweData' \subseteq Producers
  BY DEF HoldSpace, OweData
<1>6. Cardinality(HoldSpace') \in Nat /\ Cardinality(OweData') \in Nat
  BY <1>5, FS_Subset, FS_CardinalityType
<1> QED
  BY <1>1, <1>2, <1>3, <1>4, <1>6 DEF One

(* The same for a consumer.                                                *)
LEMMA ConsumerMoved ==
  ASSUME TypeOK, NEW c \in Consumers, NEW label, Goto(c, label)
  PROVE  /\ Cardinality(HoldData') = Cardinality(HoldData)
              + One(label \in {"lock", "access"}) - One(pc[c] \in {"lock", "access"})
         /\ Cardinality(OweSpace') = Cardinality(OweSpace)
              + One(label = "post") - One(pc[c] = "post")
         /\ HoldSpace' = HoldSpace /\ OweData' = OweData
         /\ Cardinality(HoldData') \in Nat /\ Cardinality(OweSpace') \in Nat
<1> USE ThreadsAssumption DEF TypeOK, Threads, Goto, At
<1>1. /\ HoldData \ {c} = HoldData' \ {c}
      /\ c \in HoldData <=> pc[c] \in {"lock", "access"}
      /\ c \in HoldData' <=> label \in {"lock", "access"}
  BY DEF HoldData
<1>2. /\ OweSpace \ {c} = OweSpace' \ {c}
      /\ c \in OweSpace <=> pc[c] = "post"
      /\ c \in OweSpace' <=> label = "post"
  BY DEF OweSpace
<1>3. HoldSpace' = HoldSpace /\ OweData' = OweData
  BY DEF HoldSpace, OweData
<1>4. /\ Cardinality(HoldData') =
           Cardinality(HoldData) + One(c \in HoldData') - One(c \in HoldData)
      /\ Cardinality(OweSpace') =
           Cardinality(OweSpace) + One(c \in OweSpace') - One(c \in OweSpace)
  BY <1>1, <1>2, CountChange, CountsFinite
<1>5. HoldData' \subseteq Consumers /\ OweSpace' \subseteq Consumers
  BY DEF HoldData, OweSpace
<1>6. Cardinality(HoldData') \in Nat /\ Cardinality(OweSpace') \in Nat
  BY <1>5, FS_Subset, FS_CardinalityType
<1> QED
  BY <1>1, <1>2, <1>3, <1>4, <1>6 DEF One
-----------------------------------------------------------------------------
LEMMA InitInv == Init => IInv
<1> SUFFICES ASSUME Init PROVE IInv
  OBVIOUS
<1> USE MaxCapAssumption, ThreadsAssumption
<1>1. TypeOK
  BY DEF Init, TypeOK, Threads
<1>2. MutexInv
  BY DEF Init, MutexInv, At, Threads
<1>3. HoldSpace = {} /\ OweSpace = {} /\ HoldData = {} /\ OweData = {}
  BY DEF Init, HoldSpace, OweSpace, HoldData, OweData, At, Threads
<1>4. Filled = 0 /\ spaceSem = MaxCap /\ pPos = 0 /\ cPos = 0
  BY <1>3, FS_EmptySet DEF Init, Filled
<1>5. (0 + 0) % MaxCap = 0
  BY SumRange
<1>6. UnitsConserved /\ PositionsAgree
  BY <1>3, <1>4, <1>5, FS_EmptySet DEF UnitsConserved, PositionsAgree
<1> QED
  BY <1>1, <1>2, <1>6 DEF IInv

(* Between P and the post of the other semaphore a thread holds a unit, so *)
(* the number of filled slots is bounded on both sides.                    *)
LEMMA FilledBounds ==
  ASSUME IInv
  PROVE  /\ Filled \in 0 .. MaxCap
         /\ HoldSpace # {} => Filled \in 0 .. MaxCap - 1
         /\ HoldData # {} => Filled \in 1 .. MaxCap
<1>1. /\ HoldSpace # {} => Cardinality(HoldSpace) > 0
      /\ HoldData # {} => Cardinality(HoldData) > 0
  BY CountsFinite, FS_EmptySet
<1>2. spaceSem \in Nat /\ dataSem \in Nat
  BY DEF IInv, TypeOK
<1>3. Filled \in Nat /\ (HoldData # {} => Filled > 0)
  BY <1>1, <1>2, CountsFinite DEF Filled
<1> QED
  BY <1>1, <1>2, <1>3, CountsFinite, MaxCapAssumption DEF IInv, UnitsConserved

LEMMA ReserveSpaceInv ==
  ASSUME IInv, NEW p \in Producers, ReserveSpace(p)
  PROVE  IInv'
<1> USE DEF IInv, ReserveSpace
<1>0. /\ arg' \in [Producers -> Items \cup {NoItem}]
      /\ spaceSem' \in 0 .. MaxCap
  BY MaxCapAssumption DEF TypeOK
<1>1. TypeOK'
  BY <1>0 DEF TypeOK, Goto, Threads
<1>2. MutexInv'
  BY ThreadsAssumption DEF MutexInv, At, Goto, TypeOK, Threads
<1>3. /\ Cardinality(HoldSpace') = Cardinality(HoldSpace) + 1
      /\ Cardinality(OweData') = Cardinality(OweData)
      /\ HoldData' = HoldData /\ OweSpace' = OweSpace
  BY ProducerMoved, CountsFinite DEF One
<1>4. Filled' = Filled
  BY <1>3 DEF Filled
<1>5. UnitsConserved' /\ PositionsAgree'
  BY <1>3, <1>4, CountsFinite, FilledBounds DEF UnitsConserved, PositionsAgree, TypeOK
<1> QED
  BY <1>1, <1>2, <1>5

LEMMA BeginWriteInv ==
  ASSUME IInv, NEW p \in Producers, BeginWrite(p)
  PROVE  IInv'
<1> USE DEF IInv, BeginWrite
<1>1. TypeOK'
  BY DEF TypeOK, Goto, Threads
<1>2. MutexInv'
  BY ThreadsAssumption DEF MutexInv, At, Goto, TypeOK, Threads
<1>3. /\ Cardinality(HoldSpace') = Cardinality(HoldSpace)
      /\ Cardinality(OweData') = Cardinality(OweData)
      /\ HoldData' = HoldData /\ OweSpace' = OweSpace
  BY ProducerMoved, CountsFinite DEF One
<1>4. Filled' = Filled
  BY <1>3 DEF Filled
<1>5. UnitsConserved' /\ PositionsAgree'
  BY <1>3, <1>4, CountsFinite, FilledBounds DEF UnitsConserved, PositionsAgree, TypeOK
<1> QED
  BY <1>1, <1>2, <1>5

LEMMA EndWriteInv ==
  ASSUME IInv, NEW p \in Producers, EndWrite(p)
  PROVE  IInv'
<1> USE DEF IInv, EndWrite
<1>1. pPos' \in 0 .. MaxCap - 1
  BY MaxCapAssumption, SuccRange DEF TypeOK
<1>2. TypeOK'
  BY <1>1 DEF TypeOK, Goto, Threads
<1>3. MutexInv'
  BY ThreadsAssumption DEF MutexInv, At, Goto, TypeOK, Threads
<1>4. /\ Cardinality(HoldSpace') = Cardinality(HoldSpace) - 1
      /\ Cardinality(OweData') = Cardinality(OweData) + 1
      /\ HoldData' = HoldData /\ OweSpace' = OweSpace
  BY ProducerMoved, CountsFinite DEF One
<1>5. Filled' = Filled + 1
  BY <1>4, CountsFinite DEF Filled, TypeOK
<1>6. p \in HoldSpace
  BY DEF HoldSpace, At
<1>7. Filled \in 0 .. MaxCap - 1
  BY <1>6, FilledBounds, MaxCapAssumption
<1>8. Succ((cPos + Filled) % MaxCap) = (cPos + (Filled + 1)) % MaxCap
  BY <1>7, AfterWrite DEF TypeOK
<1>9. pPos' = (cPos' + Filled') % MaxCap
  BY <1>5, <1>8 DEF PositionsAgree
<1>10. UnitsConserved'
  <2>1. spaceSem \in Nat /\ Filled \in Nat /\ MaxCap \in Nat
    BY <1>7, MaxCapAssumption DEF TypeOK
  <2> QED
    BY <1>4, <1>5, <2>1, CountsFinite DEF UnitsConserved
<1>11. PositionsAgree'
  BY <1>9 DEF PositionsAgree
<1> QED
  BY <1>2, <1>3, <1>10, <1>11

LEMMA PostDataInv ==
  ASSUME IInv, NEW p \in Producers, PostData(p)
  PROVE  IInv'
<1> USE DEF IInv, PostData
<1>1. /\ Cardinality(HoldSpace') = Cardinality(HoldSpace)
      /\ Cardinality(OweData') = Cardinality(OweData) - 1
      /\ Cardinality(OweData') \in Nat
      /\ HoldData' = HoldData /\ OweSpace' = OweSpace
  BY ProducerMoved, CountsFinite DEF One
<1>2. dataSem' \in 0 .. MaxCap
  <2>1. dataSem \in Nat /\ Cardinality(OweData) >= 1
    BY <1>1, CountsFinite DEF TypeOK
  <2>2. dataSem + 1 <= Filled
    BY <2>1, CountsFinite DEF Filled
  <2> QED
    BY <2>1, <2>2, FilledBounds, MaxCapAssumption
<1>3. TypeOK'
  BY <1>2 DEF TypeOK, Goto, Threads
<1>4. MutexInv'
  BY ThreadsAssumption DEF MutexInv, At, Goto, TypeOK, Threads
<1>5. UnitsConserved' /\ PositionsAgree'
  <2>1. Filled' = Filled
    BY <1>1, CountsFinite DEF Filled, TypeOK
  <2> QED
    BY <1>1, <2>1 DEF UnitsConserved, PositionsAgree
<1> QED
  BY <1>3, <1>4, <1>5

LEMMA ReserveDataInv ==
  ASSUME IInv, NEW c \in Consumers, ReserveData(c)
  PROVE  IInv'
<1> USE DEF IInv, ReserveData
<1>1. TypeOK'
  BY MaxCapAssumption DEF TypeOK, Goto, Threads
<1>2. MutexInv'
  BY ThreadsAssumption DEF MutexInv, At, Goto, TypeOK, Threads
<1>3. /\ Cardinality(HoldData') = Cardinality(HoldData) + 1
      /\ Cardinality(OweSpace') = Cardinality(OweSpace)
      /\ HoldSpace' = HoldSpace /\ OweData' = OweData
  BY ConsumerMoved, CountsFinite DEF One
<1>4. Filled' = Filled
  BY <1>3, CountsFinite DEF Filled, TypeOK
<1>5. UnitsConserved' /\ PositionsAgree'
  BY <1>3, <1>4 DEF UnitsConserved, PositionsAgree
<1> QED
  BY <1>1, <1>2, <1>5

LEMMA BeginReadInv ==
  ASSUME IInv, NEW c \in Consumers, BeginRead(c)
  PROVE  IInv'
<1> USE DEF IInv, BeginRead
<1>1. TypeOK'
  BY DEF TypeOK, Goto, Threads
<1>2. MutexInv'
  BY ThreadsAssumption DEF MutexInv, At, Goto, TypeOK, Threads
<1>3. /\ Cardinality(HoldData') = Cardinality(HoldData)
      /\ Cardinality(OweSpace') = Cardinality(OweSpace)
      /\ HoldSpace' = HoldSpace /\ OweData' = OweData
  BY ConsumerMoved, CountsFinite DEF One
<1>4. Filled' = Filled
  BY <1>3 DEF Filled
<1>5. UnitsConserved' /\ PositionsAgree'
  BY <1>3, <1>4 DEF UnitsConserved, PositionsAgree
<1> QED
  BY <1>1, <1>2, <1>5

LEMMA EndReadInv ==
  ASSUME IInv, NEW c \in Consumers, EndRead(c)
  PROVE  IInv'
<1> USE DEF IInv, EndRead
<1>1. cPos' \in 0 .. MaxCap - 1
  BY MaxCapAssumption, SuccRange DEF TypeOK
<1>2. TypeOK'
  BY <1>1 DEF TypeOK, Goto, Threads
<1>3. MutexInv'
  BY ThreadsAssumption DEF MutexInv, At, Goto, TypeOK, Threads
<1>4. /\ Cardinality(HoldData') = Cardinality(HoldData) - 1
      /\ Cardinality(OweSpace') = Cardinality(OweSpace) + 1
      /\ HoldSpace' = HoldSpace /\ OweData' = OweData
  BY ConsumerMoved, CountsFinite DEF One
<1>5. Filled' = Filled - 1
  BY <1>4, CountsFinite DEF Filled, TypeOK
<1>6. c \in HoldData
  BY DEF HoldData, At
<1>7. Filled \in 1 .. MaxCap
  BY <1>6, FilledBounds
<1>8. (Succ(cPos) + (Filled - 1)) % MaxCap = (cPos + Filled) % MaxCap
  BY <1>7, AfterRead DEF TypeOK
<1>9. PositionsAgree'
  BY <1>5, <1>8 DEF PositionsAgree
<1>10. UnitsConserved'
  BY <1>4, <1>5, <1>7, CountsFinite DEF UnitsConserved, TypeOK
<1> QED
  BY <1>2, <1>3, <1>9, <1>10

LEMMA PostSpaceInv ==
  ASSUME IInv, NEW c \in Consumers, PostSpace(c)
  PROVE  IInv'
<1> USE DEF IInv, PostSpace
<1>1. /\ Cardinality(HoldData') = Cardinality(HoldData)
      /\ Cardinality(OweSpace') = Cardinality(OweSpace) - 1
      /\ Cardinality(OweSpace') \in Nat
      /\ HoldSpace' = HoldSpace /\ OweData' = OweData
  BY ConsumerMoved, CountsFinite DEF One
<1>2. Filled' = Filled
  BY <1>1 DEF Filled
<1>3. UnitsConserved'
  BY <1>1, <1>2, CountsFinite, FilledBounds, MaxCapAssumption
  DEF UnitsConserved, TypeOK
<1>4. spaceSem' \in 0 .. MaxCap
  BY <1>1, <1>2, <1>3, CountsFinite, FilledBounds, MaxCapAssumption
  DEF UnitsConserved, TypeOK
<1>5. TypeOK'
  BY <1>4 DEF TypeOK, Goto, Threads
<1>6. MutexInv'
  BY ThreadsAssumption DEF MutexInv, At, Goto, TypeOK, Threads
<1>7. PositionsAgree'
  BY <1>2 DEF PositionsAgree
<1> QED
  BY <1>3, <1>5, <1>6, <1>7

LEMMA NextInv == IInv /\ [Next]_vars => IInv'
<1> SUFFICES ASSUME IInv, [Next]_vars PROVE IInv'
  OBVIOUS
<1>1. CASE \E p \in Producers : Produce(p)
  BY <1>1, ReserveSpaceInv, BeginWriteInv, EndWriteInv, PostDataInv DEF Produce
<1>2. CASE \E c \in Consumers : Consume(c)
  BY <1>2, ReserveDataInv, BeginReadInv, EndReadInv, PostSpaceInv DEF Consume
<1>3. CASE UNCHANGED vars
  BY <1>3 DEF vars, IInv, TypeOK, MutexInv, UnitsConserved, PositionsAgree,
              Filled, HoldSpace, OweSpace, HoldData, OweData, At
<1> QED
  BY <1>1, <1>2, <1>3 DEF Next

THEOREM Invariance == Spec => []IInv
BY InitInv, NextInv, PTL DEF Spec
-----------------------------------------------------------------------------
(* Types, for any number of threads, items and slots.                      *)
THEOREM TypeCorrect == Spec => []TypeOK
BY Invariance, PTL DEF IInv

(* Push and Pop together neither make nor lose a unit of the semaphores.   *)
THEOREM SemaphoresConserved == Spec => []UnitsConserved
BY Invariance, PTL DEF IInv

(* The positions agree with the semaphores on which slots are filled.      *)
THEOREM PositionsCorrect == Spec => []PositionsAgree
BY Invariance, PTL DEF IInv

(* Two threads never work on one slot. Two producers, or two consumers,    *)
(* are kept apart by their mutex. A producer and a consumer are not, but a *)
(* producer at a slot holds a unit of space and a consumer a unit of data, *)
(* so that the ring is neither full nor empty and the positions differ.    *)
LEMMA NoSlotRaceState == IInv => NoSlotRace
<1> SUFFICES ASSUME IInv, NEW t \in Threads, NEW u \in Threads,
                    t # u, pc[t] = "access", pc[u] = "access"
             PROVE  Slot(t) # Slot(u)
  BY DEF NoSlotRace
<1>1. t \in pMutex \cup cMutex /\ u \in pMutex \cup cMutex
  BY DEF IInv, MutexInv, At, Threads
<1>2. ~(t \in pMutex /\ u \in pMutex) /\ ~(t \in cMutex /\ u \in cMutex)
  BY DEF IInv, MutexInv
<1>3. pMutex \subseteq Producers /\ cMutex \subseteq Consumers
  BY DEF IInv, TypeOK
<1>4. pMutex # {} /\ cMutex # {}
  BY <1>1, <1>2
<1>5. HoldSpace # {} /\ HoldData # {}
  BY <1>4 DEF IInv, MutexInv, At, HoldSpace, HoldData
<1>6. Filled \in 1 .. MaxCap - 1
  BY <1>5, FilledBounds, MaxCapAssumption
<1>7. pPos # cPos
  <2>1. pPos = IF cPos + Filled < MaxCap THEN cPos + Filled
                                         ELSE cPos + Filled - MaxCap
    BY <1>6, SumRange, FilledBounds DEF IInv, PositionsAgree, TypeOK
  <2> QED
    BY <1>6, <2>1, MaxCapAssumption DEF IInv, TypeOK
<1>8. {Slot(t), Slot(u)} = {pPos, cPos}
  BY <1>1, <1>2, <1>3, ThreadsAssumption DEF Slot
<1> QED
  BY <1>7, <1>8

THEOREM SlotsRaceFree == Spec => []NoSlotRace
BY Invariance, NoSlotRaceState, PTL
-----------------------------------------------------------------------------
(* A producer has an item from its call of Push until it has written it.   *)
PendingInv ==
  \A p \in Producers : arg[p] # NoItem <=> pc[p] \in {"lock", "access"}

LEMMA PendingInvariant == Spec => []PendingInv
<1>1. Init => PendingInv
  BY DEF Init, PendingInv, Threads
<1>2. TypeOK /\ PendingInv /\ [Next]_vars => PendingInv'
  <2> SUFFICES ASSUME TypeOK, PendingInv, [Next]_vars PROVE PendingInv'
    OBVIOUS
  <2> USE ThreadsAssumption, NoItemAssumption DEF TypeOK, PendingInv, Threads, Goto
  <2>1. ASSUME NEW p \in Producers, Produce(p) PROVE PendingInv'
    BY <2>1 DEF Produce, ReserveSpace, BeginWrite, EndWrite, PostData
  <2>2. ASSUME NEW c \in Consumers, Consume(c) PROVE PendingInv'
    BY <2>2 DEF Consume, ReserveData, BeginRead, EndRead, PostSpace
  <2>3. CASE UNCHANGED vars
    BY <2>3 DEF vars
  <2> QED
    BY <2>1, <2>2, <2>3 DEF Next
<1> QED
  BY <1>1, <1>2, TypeCorrect, PTL DEF Spec

(* A stretch of the ring is a sequence.                                    *)
LEMMA StretchSequence ==
  ASSUME NEW S, NEW r \in [0 .. MaxCap - 1 -> S],
         NEW c \in 0 .. MaxCap - 1, NEW n \in Nat,
         NEW s, s = [i \in 1 .. n |-> r[(c + i - 1) % MaxCap]]
  PROVE  s \in Seq(S) /\ Len(s) = n
<1>1. ASSUME NEW i \in 1 .. n PROVE r[(c + i - 1) % MaxCap] \in S
  <2>1. (c + i - 1) % MaxCap \in 0 .. MaxCap - 1
    BY MaxCapAssumption
  <2> QED
    BY <2>1
<1> QED
  BY <1>1

(* Two slots less than a round apart are different.                        *)
LEMMA SlotsDiffer ==
  ASSUME NEW c \in 0 .. MaxCap - 1, NEW n \in 0 .. MaxCap - 1, NEW i \in 0 .. n - 1
  PROVE  (c + i) % MaxCap # (c + n) % MaxCap
<1>1. i \in 0 .. MaxCap /\ n \in 0 .. MaxCap
  BY MaxCapAssumption
<1>2. (c + i) % MaxCap = IF c + i < MaxCap THEN c + i ELSE c + i - MaxCap
  BY <1>1, SumRange
<1>3. (c + n) % MaxCap = IF c + n < MaxCap THEN c + n ELSE c + n - MaxCap
  BY <1>1, SumRange
<1> QED
  BY <1>2, <1>3, MaxCapAssumption

(* What Push writes is behind the rest, which stays as it is.              *)
LEMMA WriteAppends ==
  ASSUME IInv, NEW p \in Producers, EndWrite(p)
  PROVE  Contents' = Append(Contents, arg[p]) /\ Len(Contents) < MaxCap
<1> DEFINE S == Items \cup {NoItem}
<1>1. Filled' = Filled + 1 /\ Filled \in 0 .. MaxCap - 1
  <2>1. HoldSpace # {}
    BY DEF HoldSpace, At, EndWrite
  <2>2. /\ Cardinality(OweData') = Cardinality(OweData) + 1
        /\ HoldData' = HoldData
    BY ProducerMoved, CountsFinite DEF One, EndWrite, IInv
  <2>3. Filled' = Filled + 1
    BY <2>2, CountsFinite DEF Filled, EndWrite, IInv, TypeOK
  <2> QED
    BY <2>1, <2>3, FilledBounds
<1>2. cPos \in 0 .. MaxCap - 1 /\ cPos' = cPos /\ MaxCap \in Nat
  BY MaxCapAssumption DEF IInv, TypeOK, EndWrite
<1>3. pPos = (cPos + Filled) % MaxCap /\ pPos \in 0 .. MaxCap - 1
  BY DEF IInv, PositionsAgree, TypeOK
<1>4. /\ ring \in [0 .. MaxCap - 1 -> S] /\ ring' \in [0 .. MaxCap - 1 -> S]
      /\ ring'[pPos] = arg[p] /\ arg[p] \in S
      /\ \A s \in 0 .. MaxCap - 1 : s # pPos => ring'[s] = ring[s]
  BY <1>3 DEF EndWrite, IInv, TypeOK
<1>5. ASSUME NEW i \in 1 .. Filled
      PROVE  ring'[(cPos + i - 1) % MaxCap] = ring[(cPos + i - 1) % MaxCap]
  <2>1. i - 1 \in 0 .. Filled - 1 /\ cPos + (i - 1) = cPos + i - 1
    BY <1>1, <1>2
  <2>2. (cPos + (i - 1)) % MaxCap # pPos
    BY <1>1, <1>2, <1>3, <2>1, SlotsDiffer
  <2>3. (cPos + i - 1) % MaxCap \in 0 .. MaxCap - 1
    BY <1>1, <1>2, MaxCapAssumption
  <2> QED
    BY <1>4, <2>1, <2>2, <2>3
<1>6. Contents' = [i \in 1 .. Filled + 1 |-> ring'[(cPos + i - 1) % MaxCap]]
  BY <1>1, <1>2 DEF Contents
<1>7. Contents' \in Seq(S) /\ Len(Contents') = Filled + 1
  BY <1>1, <1>2, <1>4, <1>6, StretchSequence
<1>8. Contents \in Seq(S) /\ Len(Contents) = Filled
  BY <1>1, <1>2, <1>4, StretchSequence DEF Contents
<1>9. ASSUME NEW i \in 1 .. Filled + 1
      PROVE  Contents'[i] = Append(Contents, arg[p])[i]
  <2>1. CASE i = Filled + 1
    <3>1. cPos + i - 1 = cPos + Filled
      BY <1>1, <1>2, <2>1
    <3>2. Contents'[i] = arg[p]
      BY <1>3, <1>4, <1>6, <3>1
    <3> QED
      BY <1>4, <1>8, <2>1, <3>2
  <2>2. CASE i # Filled + 1
    <3>1. i \in 1 .. Filled
      BY <1>1, <2>2
    <3>2. Contents'[i] = Contents[i]
      BY <1>5, <1>6, <3>1 DEF Contents
    <3> QED
      BY <1>4, <1>8, <3>1, <3>2
  <2> QED
    BY <2>1, <2>2
<1>10. Append(Contents, arg[p]) \in Seq(S) /\ Len(Append(Contents, arg[p])) = Filled + 1
  BY <1>1, <1>4, <1>8
<1>11. Contents' = Append(Contents, arg[p])
  BY <1>7, <1>9, <1>10, SeqEqual
<1> QED
  BY <1>1, <1>2, <1>8, <1>11

(* What Pop reads is the oldest, and the rest moves up.                    *)
LEMMA ReadTakesFirst ==
  ASSUME IInv, NEW c \in Consumers, EndRead(c)
  PROVE  /\ Contents # <<>> /\ Contents' = Tail(Contents)
         /\ ring[cPos] = Head(Contents)
<1> DEFINE S == Items \cup {NoItem}
<1>1. Filled' = Filled - 1 /\ Filled \in 1 .. MaxCap
  <2>1. HoldData # {}
    BY DEF HoldData, At, EndRead
  <2>2. /\ Cardinality(HoldData') = Cardinality(HoldData) - 1
        /\ OweData' = OweData
    BY ConsumerMoved, CountsFinite DEF One, EndRead, IInv
  <2>3. Filled' = Filled - 1
    BY <2>2, CountsFinite DEF Filled, EndRead, IInv, TypeOK
  <2> QED
    BY <2>1, <2>3, FilledBounds
<1>2. /\ cPos \in 0 .. MaxCap - 1 /\ cPos' = Succ(cPos) /\ cPos' \in 0 .. MaxCap - 1
      /\ MaxCap \in Nat /\ ring' = ring /\ ring \in [0 .. MaxCap - 1 -> S]
  BY MaxCapAssumption, SuccRange DEF IInv, TypeOK, EndRead
<1>3. Contents \in Seq(S) /\ Len(Contents) = Filled
  BY <1>1, <1>2, StretchSequence DEF Contents
<1>4. Contents' = [i \in 1 .. Filled - 1 |-> ring[(Succ(cPos) + i - 1) % MaxCap]]
  BY <1>1, <1>2 DEF Contents
<1>5. Contents' \in Seq(S) /\ Len(Contents') = Filled - 1
  BY <1>1, <1>2, <1>4, StretchSequence
<1>6. Contents # <<>>
  BY <1>1, <1>3
<1>7. Tail(Contents) \in Seq(S) /\ Len(Tail(Contents)) = Filled - 1
  BY <1>1, <1>3, <1>6
<1>8. ASSUME NEW i \in 1 .. Filled - 1
      PROVE  Contents'[i] = Tail(Contents)[i]
  <2>1. i \in 1 .. MaxCap /\ i + 1 \in 1 .. Filled
    BY <1>1, <1>2
  <2>2. /\ Succ(cPos) + (i - 1) = Succ(cPos) + i - 1
        /\ cPos + (i + 1) - 1 = cPos + i
    BY <1>2, <2>1
  <2>3. (Succ(cPos) + (i - 1)) % MaxCap = (cPos + i) % MaxCap
    BY <1>2, <2>1, AfterRead
  <2>4. Contents'[i] = Contents[i + 1]
    BY <1>4, <2>1, <2>2, <2>3 DEF Contents
  <2> QED
    BY <1>3, <1>6, <1>7, <2>1, <2>4, HeadTailProperties
<1>9. Contents' = Tail(Contents)
  BY <1>5, <1>7, <1>8, SeqEqual
<1>10. Head(Contents) = ring[cPos]
  <2>1. (cPos + 0) % MaxCap = cPos
    BY <1>2, SumRange
  <2>2. cPos + 1 - 1 = cPos + 0 /\ cPos + 0 = cPos
    BY <1>2
  <2>3. Contents[1] = ring[cPos]
    BY <1>1, <2>1, <2>2 DEF Contents
  <2> QED
    BY <1>3, <1>6, <2>3
<1> QED
  BY <1>6, <1>9, <1>10

(* The other steps leave the contents alone.                               *)
LEMMA ContentsKept ==
  ASSUME IInv,
         \/ \E p \in Producers : ReserveSpace(p) \/ BeginWrite(p) \/ PostData(p)
         \/ \E c \in Consumers : ReserveData(c) \/ BeginRead(c) \/ PostSpace(c)
  PROVE  Contents' = Contents
<1>1. dataSem \in Nat
  BY DEF IInv, TypeOK
<1>2. ASSUME NEW p \in Producers, ReserveSpace(p) \/ BeginWrite(p) \/ PostData(p)
      PROVE  Filled' = Filled
  <2>1. CASE ReserveSpace(p) \/ BeginWrite(p)
    <3>1. Cardinality(OweData') = Cardinality(OweData) /\ HoldData' = HoldData
      BY <2>1, ProducerMoved, CountsFinite DEF One, ReserveSpace, BeginWrite, IInv
    <3> QED
      BY <2>1, <3>1 DEF Filled, ReserveSpace, BeginWrite
  <2>2. CASE PostData(p)
    <3>1. Cardinality(OweData') = Cardinality(OweData) - 1 /\ HoldData' = HoldData
      BY <2>2, ProducerMoved, CountsFinite DEF One, PostData, IInv
    <3> QED
      BY <1>1, <2>2, <3>1, CountsFinite DEF Filled, PostData
  <2> QED
    BY <1>2, <2>1, <2>2
<1>3. ASSUME NEW c \in Consumers, ReserveData(c) \/ BeginRead(c) \/ PostSpace(c)
      PROVE  Filled' = Filled
  <2>1. CASE ReserveData(c)
    <3>1. Cardinality(HoldData') = Cardinality(HoldData) + 1 /\ OweData' = OweData
      BY <2>1, ConsumerMoved, CountsFinite DEF One, ReserveData, IInv
    <3> QED
      BY <1>1, <2>1, <3>1, CountsFinite DEF Filled, ReserveData
  <2>2. CASE BeginRead(c) \/ PostSpace(c)
    <3>1. Cardinality(HoldData') = Cardinality(HoldData) /\ OweData' = OweData
      BY <2>2, ConsumerMoved, CountsFinite DEF One, BeginRead, PostSpace, IInv
    <3> QED
      BY <2>2, <3>1 DEF Filled, BeginRead, PostSpace
  <2> QED
    BY <1>3, <2>1, <2>2
<1>4. ring' = ring /\ cPos' = cPos
  BY DEF ReserveSpace, BeginWrite, PostData, ReserveData, BeginRead, PostSpace
<1> QED
  BY <1>2, <1>3, <1>4 DEF Contents

(* Every step of Push and Pop is one of the bounded FIFO or changes        *)
(* nothing that their callers can see.                                     *)
LEMMA StepRefines == IInv /\ PendingInv /\ [Next]_vars => [Fifo!Next]_(Fifo!vars)
<1> SUFFICES ASSUME IInv, PendingInv, [Next]_vars
             PROVE  Fifo!Next \/ UNCHANGED <<Contents, arg, out>>
  BY DEF Fifo!vars
<1>1. ASSUME NEW p \in Producers, ReserveSpace(p) PROVE Fifo!Next
  <2>1. Contents' = Contents
    BY <1>1, ContentsKept
  <2>2. Fifo!CallPush(p)
    BY <1>1, <2>1 DEF ReserveSpace, PendingInv, Fifo!CallPush
  <2> QED
    BY <2>2 DEF Fifo!Next
<1>2. ASSUME NEW p \in Producers, EndWrite(p) PROVE Fifo!Next
  <2>1. Contents' = Append(Contents, arg[p]) /\ Len(Contents) < MaxCap
    BY <1>2, WriteAppends
  <2>2. Fifo!Insert(p)
    BY <1>2, <2>1 DEF EndWrite, PendingInv, Fifo!Insert
  <2> QED
    BY <2>2 DEF Fifo!Next
<1>3. ASSUME NEW c \in Consumers, EndRead(c) PROVE Fifo!Next
  <2>1. /\ Contents # <<>> /\ Contents' = Tail(Contents)
        /\ ring[cPos] = Head(Contents)
    BY <1>3, ReadTakesFirst
  <2>2. Fifo!Remove(c)
    BY <1>3, <2>1 DEF EndRead, Fifo!Remove
  <2> QED
    BY <2>2 DEF Fifo!Next
<1>4. ASSUME NEW p \in Producers, BeginWrite(p) \/ PostData(p)
      PROVE  UNCHANGED <<Contents, arg, out>>
  BY <1>4, ContentsKept DEF BeginWrite, PostData
<1>5. ASSUME NEW c \in Consumers, ReserveData(c) \/ BeginRead(c) \/ PostSpace(c)
      PROVE  UNCHANGED <<Contents, arg, out>>
  BY <1>5, ContentsKept DEF ReserveData, BeginRead, PostSpace
<1>6. CASE UNCHANGED vars
  BY <1>6 DEF vars, Contents, Filled, OweData, HoldData, At
<1> QED
  BY <1>1, <1>2, <1>3, <1>4, <1>5, <1>6 DEF Next, Produce, Consume

(* The ring implements the bounded FIFO although producers and consumers   *)
(* hold different mutexes: the item a Pop copies out is the oldest that    *)
(* was written, and no Push overwrites one that was not read.              *)
THEOREM Refinement == Spec => RefinesFifo
<1>1. Init => Fifo!Init
  <2> SUFFICES ASSUME Init PROVE Contents = <<>>
    BY DEF Init, Fifo!Init
  <2>1. HoldData = {} /\ OweData = {} /\ dataSem = 0
    BY ThreadsAssumption DEF Init, HoldData, OweData, At, Threads
  <2>2. Filled = 0
    BY <2>1, FS_EmptySet DEF Filled
  <2> QED
    BY <2>2 DEF Contents
<1> QED
  BY <1>1, StepRefines, Invariance, PendingInvariant, PTL
  DEF Spec, RefinesFifo, Fifo!Spec
=============================================================================
