----------------------------- MODULE RingQueue -----------------------------
(* OSCode/19.ringqueue/ringQueue.hpp: a ring of MaxCap slots shared by     *)
(* producers and consumers. Two semaphores count the free and the filled   *)
(* slots, one mutex serialises the producers and another the consumers, so *)
(* a producer and a consumer work on the ring at the same time.            *)
(*                                                                         *)
(* The access to a slot, `ring[pos++] = in; pos %= maxcap` inside the      *)
(* mutex, takes time: it begins with the lock and ends with the unlock.    *)
EXTENDS Integers, Sequences, FiniteSets

CONSTANTS Producers, Consumers, Items, NoItem, MaxCap

ASSUME ThreadsAssumption ==
  /\ IsFiniteSet(Producers)
  /\ IsFiniteSet(Consumers)
  /\ Producers \cap Consumers = {}
ASSUME MaxCapAssumption == MaxCap \in Nat \ {0}
ASSUME NoItemAssumption == NoItem \notin Items

VARIABLES
  ring,       \* _ringqueue, slots 0 .. MaxCap - 1
  pPos, cPos, \* _P_pos, _C_pos
  spaceSem,   \* _space_sem
  dataSem,    \* _data_sem
  pMutex,     \* _Pmutex: the set of its holders
  cMutex,     \* _Cmutex: the set of its holders
  pc,         \* where each thread is in Push or Pop
  arg, out    \* the parameters of Push and Pop

vars == <<ring, pPos, cPos, spaceSem, dataSem, pMutex, cMutex, pc, arg, out>>

Threads == Producers \cup Consumers

Init ==
  /\ ring = [i \in 0 .. MaxCap - 1 |-> NoItem]
  /\ pPos = 0 /\ cPos = 0
  /\ spaceSem = MaxCap /\ dataSem = 0
  /\ pMutex = {} /\ cMutex = {}
  /\ pc = [t \in Threads |-> "idle"]
  /\ arg = [p \in Producers |-> NoItem]
  /\ out = [c \in Consumers |-> NoItem]

Goto(t, label) == pc' = [pc EXCEPT ![t] = label]
Succ(pos) == (pos + 1) % MaxCap
-----------------------------------------------------------------------------
(* Push: P(space); lock; write the slot; unlock; V(data).                  *)

ReserveSpace(p) ==
  /\ pc[p] = "idle"
  /\ spaceSem > 0
  /\ spaceSem' = spaceSem - 1
  /\ \E item \in Items : arg' = [arg EXCEPT ![p] = item]
  /\ Goto(p, "lock")
  /\ UNCHANGED <<ring, pPos, cPos, dataSem, pMutex, cMutex, out>>

BeginWrite(p) ==
  /\ pc[p] = "lock"
  /\ pMutex = {}
  /\ pMutex' = {p}
  /\ Goto(p, "access")
  /\ UNCHANGED <<ring, pPos, cPos, spaceSem, dataSem, cMutex, arg, out>>

(* MUTANT of EndWrite: the position moves before the slot is written. *)
EndWrite_PreIncrement(p) ==
  /\ pc[p] = "access"
  /\ ring' = [ring EXCEPT ![Succ(pPos)] = arg[p]]
  /\ pPos' = Succ(pPos)
  /\ arg' = [arg EXCEPT ![p] = NoItem]
  /\ pMutex' = pMutex \ {p}
  /\ Goto(p, "post")
  /\ UNCHANGED <<cPos, spaceSem, dataSem, cMutex, out>>

EndWrite(p) ==
  /\ pc[p] = "access"
  /\ ring' = [ring EXCEPT ![pPos] = arg[p]]
  /\ pPos' = Succ(pPos)
  /\ arg' = [arg EXCEPT ![p] = NoItem]
  /\ pMutex' = pMutex \ {p}
  /\ Goto(p, "post")
  /\ UNCHANGED <<cPos, spaceSem, dataSem, cMutex, out>>

(* MUTANT of PostData: V on the wrong semaphore. *)
PostData_ToSpace(p) ==
  /\ pc[p] = "post"
  /\ spaceSem' = spaceSem + 1
  /\ Goto(p, "idle")
  /\ UNCHANGED <<ring, pPos, cPos, dataSem, pMutex, cMutex, arg, out>>

PostData(p) ==
  /\ pc[p] = "post"
  /\ dataSem' = dataSem + 1
  /\ Goto(p, "idle")
  /\ UNCHANGED <<ring, pPos, cPos, spaceSem, pMutex, cMutex, arg, out>>
-----------------------------------------------------------------------------
(* Pop: P(data); lock; read the slot; unlock; V(space).                    *)

ReserveData(c) ==
  /\ pc[c] = "idle"
  /\ dataSem > 0
  /\ dataSem' = dataSem - 1
  /\ Goto(c, "lock")
  /\ UNCHANGED <<ring, pPos, cPos, spaceSem, pMutex, cMutex, arg, out>>

(* MUTANT of BeginRead: the consumers' mutex is not taken. *)
BeginRead_NoLock(c) ==
  /\ pc[c] = "lock"
  /\ Goto(c, "access")
  /\ UNCHANGED <<ring, pPos, cPos, spaceSem, dataSem, pMutex, cMutex, arg, out>>

BeginRead(c) ==
  /\ pc[c] = "lock"
  /\ cMutex = {}
  /\ cMutex' = {c}
  /\ Goto(c, "access")
  /\ UNCHANGED <<ring, pPos, cPos, spaceSem, dataSem, pMutex, arg, out>>

EndRead(c) ==
  /\ pc[c] = "access"
  /\ out' = [out EXCEPT ![c] = ring[cPos]]
  /\ cPos' = Succ(cPos)
  /\ cMutex' = cMutex \ {c}
  /\ Goto(c, "post")
  /\ UNCHANGED <<ring, pPos, spaceSem, dataSem, pMutex, arg>>

(* MUTANT of PostSpace: V on the wrong semaphore. *)
PostSpace_ToData(c) ==
  /\ pc[c] = "post"
  /\ dataSem' = dataSem + 1
  /\ Goto(c, "idle")
  /\ UNCHANGED <<ring, pPos, cPos, spaceSem, pMutex, cMutex, arg, out>>

PostSpace(c) ==
  /\ pc[c] = "post"
  /\ spaceSem' = spaceSem + 1
  /\ Goto(c, "idle")
  /\ UNCHANGED <<ring, pPos, cPos, dataSem, pMutex, cMutex, arg, out>>
-----------------------------------------------------------------------------
(* The threads of test.cc call Push and Pop forever.                       *)

Produce(p) == ReserveSpace(p) \/ BeginWrite(p) \/ EndWrite(p) \/ PostData(p)
Consume(c) == ReserveData(c) \/ BeginRead(c) \/ EndRead(c) \/ PostSpace(c)

Next == (\E p \in Producers : Produce(p)) \/ (\E c \in Consumers : Consume(c))

Spec == Init /\ [][Next]_vars

Fairness ==
  /\ \A p \in Producers : WF_vars(Produce(p))
  /\ \A c \in Consumers : WF_vars(Consume(c))

FairSpec == Spec /\ Fairness
-----------------------------------------------------------------------------
(* Threads that hold a unit of space, or a unit of data, they have not     *)
(* turned into the other yet.                                              *)
At(S, labels) == {t \in S : pc[t] \in labels}
HoldSpace == At(Producers, {"lock", "access"})
OweData == At(Producers, {"post"})
HoldData == At(Consumers, {"lock", "access"})
OweSpace == At(Consumers, {"post"})

(* The slots that hold an item which was written and not read yet.         *)
Filled == dataSem + Cardinality(OweData) + Cardinality(HoldData)
Contents == [i \in 1 .. Filled |-> ring[(cPos + i - 1) % MaxCap]]

TypeOK ==
  /\ ring \in [0 .. MaxCap - 1 -> Items \cup {NoItem}]
  /\ pPos \in 0 .. MaxCap - 1 /\ cPos \in 0 .. MaxCap - 1
  /\ spaceSem \in 0 .. MaxCap /\ dataSem \in 0 .. MaxCap
  /\ pMutex \subseteq Producers /\ cMutex \subseteq Consumers
  /\ pc \in [Threads -> {"idle", "lock", "access", "post"}]
  /\ arg \in [Producers -> Items \cup {NoItem}]
  /\ out \in [Consumers -> Items \cup {NoItem}]

(* The two semaphores and the units in the hands of the threads always add *)
(* up to the capacity: no interleaving of Push and Pop makes or loses one. *)
UnitsConserved ==
  spaceSem + Cardinality(HoldSpace) + Cardinality(OweSpace) + Filled = MaxCap

(* The positions, each under a mutex of its own, agree with the semaphores *)
(* on which slots are filled.                                              *)
PositionsAgree == pPos = (cPos + Filled) % MaxCap

(* Push and Pop hold different mutexes and yet never work on one slot at   *)
(* the same time, nor do two Pushes or two Pops: this is what the comments *)
(* at lines 61 and 64 of ringQueue.hpp claim for semaphores and locks.     *)
Slot(t) == IF t \in Producers THEN pPos ELSE cPos
NoSlotRace ==
  \A t, u \in Threads :
    t # u /\ pc[t] = "access" /\ pc[u] = "access" => Slot(t) # Slot(u)

(* Concurrent Pushes and Pops take effect as on a bounded FIFO: every item *)
(* is inserted once, and removed at most once and in order.                *)
Fifo == INSTANCE BoundedFifo WITH queue <- Contents, Capacity <- MaxCap
RefinesFifo == Fifo!Spec

(* Neither side stalls for good: a full ring is emptied by consumers whose *)
(* V(space) lets a producer in again.                                      *)
BothSidesProgress ==
  /\ []<>(OweData # {})
  /\ []<>(OweSpace # {})
=============================================================================
