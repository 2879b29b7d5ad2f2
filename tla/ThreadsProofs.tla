---------------------------- MODULE ThreadsProofs ---------------------------
(* For any number of threads and any bounds: the safety of the block queue *)
(* and that it implements BoundedFifo, and what the other programs of      *)
(* MCThreads promise, the ticket sellers, the demonstrations of threads,   *)
(* the chat client and the log.                                            *)
EXTENDS MCThreads, FiniteSetTheorems, TLAPS

(* _mutex is held by the thread between its lock and its wait or unlock,   *)
(* which is what makes a look at the queue and the change one step.        *)
MutexInv == \A t \in Threads : pc[t] = "check" => mutex = {t}

(* A producer has an item from its call of Push until it has inserted it.  *)
PendingInv ==
  \A p \in Producers :
    arg[p] # NoItem <=> pc[p] \in {"check", "wait", "relock"}

IInv == TypeOK /\ MutexInv /\ PendingInv /\ Len(queue) <= MaxCap /\ NoLostWakeup

LEMMA InitInv == Init => IInv
<1> SUFFICES ASSUME Init PROVE IInv
  OBVIOUS
<1> USE ThreadsAssumption, MaxCapAssumption DEF Init, Threads
<1>1. TypeOK
  BY DEF TypeOK
<1>2. MutexInv /\ PendingInv
  BY DEF MutexInv, PendingInv
<1>3. NoLostWakeup
  BY BothSidesAssumption DEF NoLostWakeup, Waiting
<1> QED
  BY <1>1, <1>2, <1>3 DEF IInv

(* What both sides do alike.                                               *)
LEMMA SignalInv ==
  ASSUME IInv, NEW t \in Threads, NEW S,
         S = Producers \/ S = Consumers, t \notin S, Signal(t, S)
  PROVE  IInv'
<1> USE ThreadsAssumption, BothSidesAssumption DEF IInv, Threads, TypeOK, Signal, Goto, Waiting
<1>1. /\ TypeOK'
      /\ UNCHANGED <<queue, mutex, arg, out>>
      /\ \A u \in Threads : pc'[u] \in {pc[u], "relock", "idle"}
      /\ \A u \in Threads \ {t} : pc'[u] = pc[u] \/ (pc[u] = "wait" /\ pc'[u] = "relock")
      /\ pc[t] = "signal" /\ pc'[t] = "idle"
  OBVIOUS
<1>2. MutexInv' /\ PendingInv'
  BY <1>1 DEF MutexInv, PendingInv
<1>3. Waiting(S)' # S
  <2>1. CASE Waiting(S) = {}
    BY <1>1, <2>1
  <2>2. CASE Waiting(S) # {}
    BY <1>1, <2>2
  <2> QED
    BY <2>1, <2>2
<1>4. Waiting(Producers)' = Producers => S = Consumers
  BY <1>3
<1>5. Waiting(Consumers)' = Consumers => S = Producers
  BY <1>3
<1>6. NoLostWakeup'
  <2>1. CASE S = Producers
    <3>1. t \in Consumers /\ Waiting(Consumers)' # Consumers
      BY <1>1, <2>1
    <3> QED
      BY <2>1, <3>1, <1>3 DEF NoLostWakeup
  <2>2. CASE S = Consumers
    <3>1. t \in Producers /\ Waiting(Producers)' # Producers
      BY <1>1, <2>2
    <3> QED
      BY <2>2, <3>1, <1>3 DEF NoLostWakeup
  <2> QED
    BY <2>1, <2>2
<1> QED
  BY <1>1, <1>2, <1>6

LEMMA WakeupInv ==
  ASSUME IInv, NEW t \in Threads, SpuriousWakeup(t) \/ Relock(t)
  PROVE  IInv'
<1> USE DEF IInv, Threads, TypeOK, Goto, Waiting
<1>1. /\ UNCHANGED <<queue, arg, out>>
      /\ \A u \in Threads \ {t} : pc'[u] = pc[u]
      /\ pc[t] \in {"wait", "relock"} /\ pc'[t] \in {"relock", "check"}
  BY DEF SpuriousWakeup, Relock
<1>2. TypeOK'
  BY DEF SpuriousWakeup, Relock
<1>3. MutexInv'
  <2>1. CASE SpuriousWakeup(t)
    BY <2>1 DEF SpuriousWakeup, MutexInv
  <2>2. CASE Relock(t)
    <3>1. \A u \in Threads : pc[u] # "check"
      BY <2>2 DEF Relock, MutexInv
    <3> QED
      BY <2>2, <3>1, <1>1 DEF Relock, MutexInv
  <2> QED
    BY <2>1, <2>2
<1>4. PendingInv'
  BY <1>1 DEF PendingInv
<1>5. NoLostWakeup'
  BY <1>1 DEF NoLostWakeup, isEmpty, isFull
<1> QED
  BY <1>1, <1>2, <1>3, <1>4, <1>5

(* A call takes the mutex, and a thread that has to wait gives it back.    *)
LEMMA EnterWaitInv ==
  ASSUME IInv, NEW t \in Threads,
         \/ t \in Producers /\ (EnterPush(t) \/ WaitNotFull(t))
         \/ t \in Consumers /\ (EnterPop(t) \/ WaitNotEmpty(t))
  PROVE  IInv'
<1> USE ThreadsAssumption, NoItemAssumption
    DEF IInv, Threads, TypeOK, Goto, Waiting, EnterPush, EnterPop, WaitNotFull, WaitNotEmpty, Wait
<1>1. /\ UNCHANGED <<queue, out>>
      /\ \A u \in Threads \ {t} : pc'[u] = pc[u]
      /\ pc[t] \in {"idle", "check"}
      /\ pc'[t] = IF pc[t] = "idle" THEN "check" ELSE "wait"
  OBVIOUS
<1>2. TypeOK'
  OBVIOUS
<1>3. MutexInv'
  <2>1. CASE pc[t] = "idle"
    <3>1. mutex = {} /\ mutex' = {t}
      BY <2>1
    <3>2. \A u \in Threads : pc[u] # "check"
      BY <3>1 DEF MutexInv
    <3> QED
      BY <1>1, <3>1, <3>2 DEF MutexInv
  <2>2. CASE pc[t] = "check"
    <3>1. \A u \in Threads \ {t} : pc[u] # "check"
      BY <2>2 DEF MutexInv
    <3> QED
      BY <1>1, <2>2, <3>1 DEF MutexInv
  <2> QED
    BY <1>1, <2>1, <2>2
<1>4. PendingInv'
  BY DEF PendingInv
<1>5. NoLostWakeup'
  <2>1. pc'[t] = "wait" => (IF t \in Producers THEN isFull ELSE isEmpty)
    BY <1>1
  <2>2. \A u \in Threads : pc'[u] = "signal" <=> pc[u] = "signal"
    BY <1>1
  <2> QED
    BY <1>1, <2>1, <2>2 DEF NoLostWakeup, isEmpty, isFull
<1> QED
  BY <1>1, <1>2, <1>3, <1>4, <1>5

(* The critical sections leave the thread that is about to signal.         *)
LEMMA ChangeInv ==
  ASSUME IInv, NEW t \in Threads,
         (t \in Producers /\ Insert(t)) \/ (t \in Consumers /\ Remove(t))
  PROVE  IInv'
<1> USE ThreadsAssumption, MaxCapAssumption, NoItemAssumption
    DEF IInv, Threads, TypeOK, Goto, Waiting, Insert, Remove, isEmpty, isFull
<1>1. /\ \A u \in Threads \ {t} : pc'[u] = pc[u]
      /\ pc[t] = "check" /\ pc'[t] = "signal"
      /\ mutex' = mutex \ {t}
  OBVIOUS
<1>2. TypeOK' /\ (Len(queue) <= MaxCap)'
  <2>1. CASE t \in Producers /\ Insert(t)
    <3>1. arg[t] \in Items
      BY <2>1 DEF PendingInv
    <3> QED
      BY <2>1, <3>1
  <2>2. CASE t \in Consumers /\ Remove(t)
    BY <2>2
  <2> QED
    BY <2>1, <2>2
<1>3. MutexInv'
  <2>1. \A u \in Threads \ {t} : pc[u] # "check"
    BY <1>1 DEF MutexInv
  <2> QED
    BY <1>1, <2>1 DEF MutexInv
<1>4. PendingInv'
  BY <1>1 DEF PendingInv
<1>5. NoLostWakeup'
  <2>1. CASE t \in Producers /\ Insert(t)
    <3>1. Waiting(Producers)' # Producers
      BY <1>1, <2>1
    <3> QED
      BY <1>1, <2>1, <3>1 DEF NoLostWakeup
  <2>2. CASE t \in Consumers /\ Remove(t)
    <3>1. Waiting(Consumers)' # Consumers
      BY <1>1, <2>2
    <3> QED
      BY <1>1, <2>2, <3>1 DEF NoLostWakeup
  <2> QED
    BY <2>1, <2>2
<1> QED
  BY <1>2, <1>3, <1>4, <1>5

LEMMA NextInv == IInv /\ [Next]_vars => IInv'
<1> SUFFICES ASSUME IInv, [Next]_vars PROVE IInv'
  OBVIOUS
<1> USE ThreadsAssumption DEF Threads
<1>1. ASSUME NEW p \in Producers, Produce(p) PROVE IInv'
  BY <1>1, SignalInv, WakeupInv, EnterWaitInv, ChangeInv DEF Produce, SignalNotEmpty
<1>2. ASSUME NEW c \in Consumers, Consume(c) PROVE IInv'
  BY <1>2, SignalInv, WakeupInv, EnterWaitInv, ChangeInv DEF Consume, SignalNotFull
<1>3. ASSUME NEW t \in Threads, SpuriousWakeup(t) PROVE IInv'
  BY <1>3, WakeupInv
<1>4. CASE UNCHANGED vars
  BY <1>4 DEF vars, IInv, TypeOK, MutexInv, PendingInv, NoLostWakeup, isEmpty, isFull, Waiting
<1> QED
  BY <1>1, <1>2, <1>3, <1>4 DEF Next

LEMMA Invariant == Spec => []IInv
BY InitInv, NextInv, PTL DEF Spec

(* Every variable keeps its type. *)
THEOREM TypeCorrect == Spec => []TypeOK
<1>1. IInv => TypeOK
  BY DEF IInv
<1> QED
  BY <1>1, Invariant, PTL

(* Push and Pop look at the queue and change it in one critical section.   *)
THEOREM CriticalSectionsExclude == Spec => []MutexInv
<1>1. IInv => MutexInv
  BY DEF IInv
<1> QED
  BY <1>1, Invariant, PTL

(* No wakeup is lost: a side that sleeps as a whole while it could go on   *)
(* has a signal of the other side coming.                                  *)
THEOREM WakeupsKept == Spec => []NoLostWakeup
<1>1. IInv => NoLostWakeup
  BY DEF IInv
<1> QED
  BY <1>1, Invariant, PTL
-----------------------------------------------------------------------------
(* Every step of Push and Pop is one of the bounded FIFO or changes        *)
(* nothing that their callers can see.                                     *)
LEMMA StepRefines == IInv /\ [Next]_vars => [Fifo!Next]_(Fifo!vars)
<1> SUFFICES ASSUME IInv, [Next]_vars PROVE Fifo!Next \/ UNCHANGED <<queue, arg, out>>
  BY DEF Fifo!vars
<1> USE MaxCapAssumption, NoItemAssumption DEF IInv, TypeOK
<1>1. ASSUME NEW p \in Producers, EnterPush(p) PROVE Fifo!Next
  <2>1. Fifo!CallPush(p)
    BY <1>1 DEF EnterPush, Fifo!CallPush, PendingInv
  <2> QED
    BY <2>1 DEF Fifo!Next
<1>2. ASSUME NEW p \in Producers, Insert(p) PROVE Fifo!Next
  <2>1. Fifo!Insert(p)
    BY <1>2 DEF Insert, Fifo!Insert, PendingInv, isFull
  <2> QED
    BY <2>1 DEF Fifo!Next
<1>3. ASSUME NEW c \in Consumers, Remove(c) PROVE Fifo!Next
  <2>1. Fifo!Remove(c)
    BY <1>3 DEF Remove, Fifo!Remove, isEmpty
  <2> QED
    BY <2>1 DEF Fifo!Next
<1>4. ASSUME NEW t \in Threads,
             \/ WaitNotFull(t) \/ WaitNotEmpty(t) \/ EnterPop(t) \/ Relock(t)
             \/ SignalNotEmpty(t) \/ SignalNotFull(t) \/ SpuriousWakeup(t)
      PROVE  UNCHANGED <<queue, arg, out>>
  BY <1>4 DEF WaitNotFull, WaitNotEmpty, Wait, EnterPop, Relock, SignalNotEmpty, SignalNotFull,
              Signal, SpuriousWakeup
<1>5. CASE UNCHANGED vars
  BY <1>5 DEF vars
<1> QED
  BY <1>1, <1>2, <1>3, <1>4, <1>5 DEF Next, Produce, Consume, Threads

(* The queue behind one mutex implements the bounded FIFO: each item that  *)
(* is pushed is inserted once, and each Pop returns the oldest.            *)
THEOREM Refinement == Spec => RefinesFifo
<1>1. Init => Fifo!Init
  BY DEF Init, Fifo!Init
<1> QED
  BY <1>1, StepRefines, Invariant, PTL DEF Spec, RefinesFifo, Fifo!Spec
-----------------------------------------------------------------------------
(* The programs beside it. *)
(* The order of creation has every thread at one place.                    *)
LEMMA ListedOrder ==
  /\ Len(Listed) \in Nat \ {0} /\ DOMAIN Listed = 1 .. Len(Listed)
  /\ Listed \in [1 .. Len(Listed) -> Three]
  /\ \A t \in Three : \E k \in DOMAIN Listed : Listed[k] = t
  /\ \A k, l \in DOMAIN Listed : Listed[k] = Listed[l] => k = l
<1> DEFINE N == Cardinality(Three)
           Fits(s) == \A t \in Three : \E k \in DOMAIN s : s[k] = t
<1>1. IsFiniteSet(Three) /\ Three # {}
  <2>1. IsFiniteSet(Three)
    BY FiniteAssumption, FS_Subset DEF Three
  <2>2. PICK p \in Producers, c \in Consumers : p # c
    BY ThreadsAssumption, BothSidesAssumption
  <2> QED
    BY <2>1, <2>2 DEF Three, Threads
<1>2. N \in Nat /\ N # 0 /\ ExistsBijection(1 .. N, Three)
  BY <1>1, FS_CardinalityType, FS_EmptySet
<1>3. \E s \in [1 .. N -> Three] : Fits(s)
  BY <1>2 DEF ExistsBijection, Bijection, Surjection
<1>4. Listed = CHOOSE s \in [1 .. N -> Three] : Fits(s)
  BY DEF Listed
<1> HIDE DEF N
<1>5. Listed \in [1 .. N -> Three] /\ Fits(Listed)
  BY <1>3, <1>4
<1>6. DOMAIN Listed = 1 .. N /\ Listed \in Seq(Three) /\ Len(Listed) = N
  BY <1>2, <1>5
<1>7. Listed \in Surjection(1 .. N, Three)
  BY <1>5, <1>6 DEF Surjection
<1>8. IsFiniteSet(1 .. N) /\ Cardinality(1 .. N) = Cardinality(Three)
  <2>1. 1 \in Int /\ N \in Int /\ ~(1 > N) /\ N - 1 + 1 = N
    BY <1>2
  <2> QED
    BY <2>1, FS_Interval DEF N
<1>9. Listed \in Injection(1 .. N, Three)
  BY <1>7, <1>8, FS_SurjSameCardinalityImpliesInj
<1>10. \A k, l \in DOMAIN Listed : Listed[k] = Listed[l] => k = l
  BY <1>6, <1>9 DEF Injection, IsInjective
<1> QED
  BY <1>2, <1>5, <1>6, <1>10
-----------------------------------------------------------------------------
(* The ticket sellers.                                                     *)
Selling == \E s \in Three : seller[s] = "sell"

TicketInv ==
  /\ seller \in [Three -> {"none", "failed", "loop", "look", "sell", "end"}]
  /\ tickets \in 0 .. Total /\ shown \in Seq(Nat)
  /\ sale \in [started : 0 .. Len(Listed), joined : 0 .. Len(Listed)]
  /\ \A s \in Three : seller[s] \in {"look", "sell"} => owner = {s}
  /\ \A k \in DOMAIN Listed : k > sale.started => seller[Listed[k]] = "none"
  /\ sale.joined > 0 => sale.started = Len(Listed)
  /\ \A k \in 1 .. sale.joined : seller[Listed[k]] \in {"end", "failed"}
  /\ \A s \in Three : seller[s] = "end" => tickets = 0
  /\ Selling => tickets > 0
  /\ Len(shown) = Total - tickets + (IF Selling THEN 1 ELSE 0)
  /\ \A k \in DOMAIN shown : shown[k] = Total - (k - 1)
  /\ ~mutexLives => sale.joined = Len(Listed)

LEMMA TicketInit == Tickets!Init => TicketInv
<1> SUFFICES ASSUME Tickets!Init PROVE TicketInv
  OBVIOUS
<1> USE ListedOrder, CountsAssumption DEF Tickets!Init
<1>1. ~Selling /\ sale.started = 0 /\ sale.joined = 0 /\ tickets = Total
  BY DEF Selling
<1>2. \A k \in DOMAIN Listed : seller[Listed[k]] = "none"
  OBVIOUS
<1>3. sale \in [started : 0 .. Len(Listed), joined : 0 .. Len(Listed)]
  OBVIOUS
<1>4. shown = <<>> /\ shown \in Seq(Nat) /\ Len(shown) = 0 /\ \A k \in DOMAIN shown : FALSE
  OBVIOUS
<1> QED
  BY <1>1, <1>2, <1>3, <1>4 DEF TicketInv

LEMMA TicketStart == TicketInv /\ Tickets!Start => TicketInv'
<1> SUFFICES ASSUME TicketInv, Tickets!Start PROVE TicketInv'
  OBVIOUS
<1>1. PICK j, what : j = sale.started + 1 /\ what \in {"loop", "failed"}
                     /\ seller' = [seller EXCEPT ![Listed[j]] = what]
  BY DEF Tickets!Start, Tickets!To
<1>2. /\ sale.started < Len(Listed) /\ sale' = [sale EXCEPT !.started = @ + 1]
      /\ UNCHANGED <<owner, tickets, shown, mutexLives>>
  BY DEF Tickets!Start
<1>3. /\ sale.started \in Nat /\ sale.joined \in 0 .. Len(Listed) /\ j \in DOMAIN Listed
      /\ sale'.started = j /\ sale'.joined = sale.joined /\ sale.joined = 0
      /\ sale' \in [started : 0 .. Len(Listed), joined : 0 .. Len(Listed)]
  <2>1. Len(Listed) \in Nat /\ DOMAIN Listed = 1 .. Len(Listed)
    BY ListedOrder
  <2>2. sale \in [started : 0 .. Len(Listed), joined : 0 .. Len(Listed)]
    BY DEF TicketInv
  <2>3. /\ sale'.started = sale.started + 1 /\ sale'.joined = sale.joined
        /\ sale' \in [started : 0 .. Len(Listed), joined : 0 .. Len(Listed)]
    BY <1>2, <2>1, <2>2
  <2>4. sale.joined > 0 => sale.started = Len(Listed)
    BY DEF TicketInv
  <2>5. sale.started \in 0 .. Len(Listed) /\ sale.joined \in 0 .. Len(Listed)
    BY <2>2
  <2>6. sale.joined = 0
    BY <1>2, <2>1, <2>4, <2>5
  <2>7. j \in 1 .. Len(Listed)
    BY <1>1, <1>2, <2>1, <2>5
  <2> QED
    BY <1>1, <2>1, <2>3, <2>5, <2>6, <2>7
<1>4. Listed[j] \in Three /\ seller[Listed[j]] = "none"
  BY <1>1, <1>3, ListedOrder DEF TicketInv
<1>5. \A s \in Three : seller'[s] = IF s = Listed[j] THEN what ELSE seller[s]
  BY <1>1, <1>4 DEF TicketInv
<1>6. seller' \in [Three -> {"none", "failed", "loop", "look", "sell", "end"}]
  BY <1>1, <1>4 DEF TicketInv
<1>7. Selling' <=> Selling
  BY <1>1, <1>4, <1>5 DEF Selling
<1>8. \A k \in DOMAIN Listed : k > sale'.started => seller'[Listed[k]] = "none"
  <2> SUFFICES ASSUME NEW k \in DOMAIN Listed, k > j PROVE seller'[Listed[k]] = "none"
    BY <1>3
  <2>1. k # j /\ k > sale.started /\ Listed[k] \in Three
    BY <1>1, <1>3, ListedOrder
  <2>2. Listed[k] # Listed[j]
    BY <1>3, <2>1, ListedOrder
  <2> QED
    BY <1>5, <2>1, <2>2 DEF TicketInv
<1>9. mutexLives
  BY <1>3, ListedOrder DEF TicketInv
<1>10. /\ \A s \in Three : seller'[s] \in {"look", "sell"} => owner' = {s}
       /\ \A s \in Three : seller'[s] = "end" => tickets' = 0
  BY <1>1, <1>2, <1>5 DEF TicketInv
<1>11. \A k \in 1 .. sale'.joined : FALSE
  BY <1>3
<1> QED
  BY <1>2, <1>3, <1>6, <1>7, <1>8, <1>9, <1>10, <1>11 DEF TicketInv

LEMMA TicketJoin == TicketInv /\ Tickets!Join => TicketInv'
<1> SUFFICES ASSUME TicketInv, Tickets!Join PROVE TicketInv'
  OBVIOUS
<1>1. /\ sale.started = Len(Listed) /\ sale.joined < Len(Listed)
      /\ seller[Listed[sale.joined + 1]] \in {"end", "failed"}
      /\ sale' = sale \/ sale' = [sale EXCEPT !.joined = @ + 1]
      /\ UNCHANGED <<seller, owner, tickets, shown, mutexLives>>
  BY DEF Tickets!Join
<1>2. Selling' <=> Selling
  BY <1>1 DEF Selling
<1>3. CASE sale' = sale
  BY <1>1, <1>2, <1>3 DEF TicketInv
<1>4. CASE sale' = [sale EXCEPT !.joined = @ + 1]
  <2>1. /\ sale'.joined = sale.joined + 1 /\ sale'.started = sale.started
        /\ sale' \in [started : 0 .. Len(Listed), joined : 0 .. Len(Listed)]
        /\ sale.joined \in Nat
    BY <1>1, <1>4, ListedOrder DEF TicketInv
  <2>2. \A k \in 1 .. sale'.joined : seller'[Listed[k]] \in {"end", "failed"}
    <3>1. \A k \in 1 .. sale.joined + 1 : k \in 1 .. sale.joined \/ k = sale.joined + 1
      BY <2>1
    <3> QED
      BY <1>1, <2>1, <3>1 DEF TicketInv
  <2>3. mutexLives
    BY <1>1 DEF TicketInv
  <2> QED
    BY <1>1, <1>2, <2>1, <2>2, <2>3 DEF TicketInv
<1> QED
  BY <1>1, <1>3, <1>4

LEMMA TicketDestroy == TicketInv /\ Tickets!DestroyMutex => TicketInv'
<1> SUFFICES ASSUME TicketInv, Tickets!DestroyMutex PROVE TicketInv'
  OBVIOUS
<1>1. sale.joined = Len(Listed) /\ UNCHANGED <<seller, owner, tickets, shown, sale>>
  BY DEF Tickets!DestroyMutex
<1>2. Selling' <=> Selling
  BY <1>1 DEF Selling
<1> QED
  BY <1>1, <1>2 DEF TicketInv

(* A seller that has started keeps main from calling it joined, until it   *)
(* has ended.                                                              *)
LEMMA SellerMoves ==
  ASSUME TicketInv, NEW s \in Three, seller[s] \in {"loop", "look", "sell"},
         NEW what \in {"loop", "look", "sell", "end"}, Tickets!To(s, what), UNCHANGED <<sale, mutexLives>>
  PROVE  /\ seller' \in [Three -> {"none", "failed", "loop", "look", "sell", "end"}]
         /\ seller'[s] = what /\ \A u \in Three \ {s} : seller'[u] = seller[u]
         /\ \A k \in DOMAIN Listed : k > sale'.started => seller'[Listed[k]] = "none"
         /\ \A k \in 1 .. sale'.joined : seller'[Listed[k]] \in {"end", "failed"}
<1>1. \A u \in Three : seller'[u] = IF u = s THEN what ELSE seller[u]
  BY DEF Tickets!To, TicketInv
<1>2. seller' \in [Three -> {"none", "failed", "loop", "look", "sell", "end"}]
  BY DEF Tickets!To, TicketInv
<1>3. \A k \in DOMAIN Listed : Listed[k] \in Three
  BY ListedOrder
<1>4. 1 .. sale.joined \subseteq DOMAIN Listed
  BY ListedOrder DEF TicketInv
<1>5. \A k \in DOMAIN Listed : k > sale'.started => seller'[Listed[k]] = "none"
  BY <1>1, <1>3 DEF TicketInv
<1>6. \A k \in 1 .. sale'.joined : seller'[Listed[k]] \in {"end", "failed"}
  BY <1>1, <1>3, <1>4 DEF TicketInv
<1> QED
  BY <1>1, <1>2, <1>5, <1>6

LEMMA TicketSeller ==
  ASSUME TicketInv, NEW s \in Three, Tickets!ScrambleTickets(s)
  PROVE  TicketInv'
<1> DEFINE Rest == /\ seller' \in [Three -> {"none", "failed", "loop", "look", "sell", "end"}]
                   /\ sale' \in [started : 0 .. Len(Listed), joined : 0 .. Len(Listed)]
                   /\ \A k \in DOMAIN Listed : k > sale'.started => seller'[Listed[k]] = "none"
                   /\ sale'.joined > 0 => sale'.started = Len(Listed)
                   /\ \A k \in 1 .. sale'.joined : seller'[Listed[k]] \in {"end", "failed"}
                   /\ ~mutexLives' => sale'.joined = Len(Listed)
<1>1. CASE Tickets!Lock(s)
  <2>1. /\ seller[s] = "loop" /\ owner = {} /\ owner' = {s} /\ Tickets!To(s, "look")
        /\ UNCHANGED <<tickets, shown, sale, mutexLives>>
    BY <1>1 DEF Tickets!Lock
  <2>2. Rest /\ seller'[s] = "look" /\ \A u \in Three \ {s} : seller'[u] = seller[u]
    BY <2>1, SellerMoves DEF TicketInv
  <2>3. \A u \in Three : seller[u] \notin {"look", "sell"}
    BY <2>1 DEF TicketInv
  <2>4. ~Selling /\ ~Selling'
    BY <2>2, <2>3 DEF Selling
  <2>5. /\ \A u \in Three : seller'[u] \in {"look", "sell"} => owner' = {u}
        /\ \A u \in Three : seller'[u] = "end" => tickets' = 0
    BY <2>1, <2>2, <2>3 DEF TicketInv
  <2> QED
    BY <2>1, <2>2, <2>4, <2>5 DEF TicketInv
<1>2. CASE Tickets!SoldOut(s)
  <2>1. /\ seller[s] = "look" /\ tickets = 0 /\ owner' = owner \ {s} /\ Tickets!To(s, "end")
        /\ UNCHANGED <<tickets, shown, sale, mutexLives>>
    BY <1>2 DEF Tickets!SoldOut
  <2>2. Rest /\ seller'[s] = "end" /\ \A u \in Three \ {s} : seller'[u] = seller[u]
    BY <2>1, SellerMoves DEF TicketInv
  <2>3. \A u \in Three \ {s} : seller[u] \notin {"look", "sell"}
    BY <2>1 DEF TicketInv
  <2>4. ~Selling /\ ~Selling'
    BY <2>1, <2>2, <2>3 DEF Selling
  <2>5. /\ \A u \in Three : seller'[u] \in {"look", "sell"} => owner' = {u}
        /\ \A u \in Three : seller'[u] = "end" => tickets' = 0
    BY <2>1, <2>2, <2>3 DEF TicketInv
  <2> QED
    BY <2>1, <2>2, <2>4, <2>5 DEF TicketInv
<1>3. CASE Tickets!Show(s)
  <2>1. /\ seller[s] = "look" /\ tickets > 0 /\ shown' = Append(shown, tickets) /\ Tickets!To(s, "sell")
        /\ UNCHANGED <<owner, tickets, sale, mutexLives>>
    BY <1>3 DEF Tickets!Show
  <2>2. Rest /\ seller'[s] = "sell" /\ \A u \in Three \ {s} : seller'[u] = seller[u]
    BY <2>1, SellerMoves DEF TicketInv
  <2>3. owner = {s} /\ \A u \in Three \ {s} : seller[u] \notin {"look", "sell"}
    BY <2>1 DEF TicketInv
  <2>4. ~Selling /\ Selling'
    BY <2>1, <2>2, <2>3 DEF Selling
  <2>5. /\ \A u \in Three : seller'[u] \in {"look", "sell"} => owner' = {u}
        /\ \A u \in Three : seller'[u] = "end" => tickets' = 0
    BY <2>1, <2>2, <2>3 DEF TicketInv
  <2>6. tickets \in Nat /\ Len(shown) = Total - tickets /\ Len(shown) \in Nat
    BY <2>4, CountsAssumption DEF TicketInv
  <2>7. /\ shown' \in Seq(Nat) /\ Len(shown') = Total - tickets + 1
        /\ \A k \in DOMAIN shown' : shown'[k] = Total - (k - 1)
    <3>1. shown \in Seq(Nat) /\ \A k \in DOMAIN shown : shown[k] = Total - (k - 1)
      BY DEF TicketInv
    <3>2. /\ shown' \in Seq(Nat) /\ Len(shown') = Len(shown) + 1
          /\ DOMAIN shown' = 1 .. Len(shown) + 1 /\ DOMAIN shown = 1 .. Len(shown)
          /\ \A k \in 1 .. Len(shown) : shown'[k] = shown[k]
          /\ shown'[Len(shown) + 1] = tickets
      BY <2>1, <2>6, <3>1
    <3>3. ASSUME NEW k \in DOMAIN shown' PROVE shown'[k] = Total - (k - 1)
      <4>1. CASE k \in 1 .. Len(shown)
        BY <3>1, <3>2, <4>1
      <4>2. CASE k = Len(shown) + 1
        BY <2>6, <3>2, <4>2, CountsAssumption
      <4> QED
        BY <2>6, <3>2, <3>3, <4>1, <4>2
    <3> QED
      BY <2>6, <3>2, <3>3
  <2> QED
    BY <2>1, <2>2, <2>4, <2>5, <2>7 DEF TicketInv
<1>4. CASE Tickets!Sell(s)
  <2>1. /\ seller[s] = "sell" /\ tickets' = tickets - 1 /\ owner' = owner \ {s} /\ Tickets!To(s, "loop")
        /\ UNCHANGED <<shown, sale, mutexLives>>
    BY <1>4 DEF Tickets!Sell
  <2>2. Rest /\ seller'[s] = "loop" /\ \A u \in Three \ {s} : seller'[u] = seller[u]
    BY <2>1, SellerMoves DEF TicketInv
  <2>3. owner = {s} /\ \A u \in Three \ {s} : seller[u] \notin {"look", "sell"}
    BY <2>1 DEF TicketInv
  <2>4. Selling /\ ~Selling' /\ tickets > 0
    BY <2>1, <2>2, <2>3 DEF Selling, TicketInv
  <2>5. /\ \A u \in Three : seller'[u] \in {"look", "sell"} => owner' = {u}
        /\ \A u \in Three : seller'[u] # "end"
    BY <2>1, <2>2, <2>3, <2>4 DEF TicketInv
  <2>6. tickets' \in 0 .. Total /\ Len(shown') = Total - tickets'
    BY <2>1, <2>4, CountsAssumption DEF TicketInv
  <2> QED
    BY <2>1, <2>2, <2>4, <2>5, <2>6 DEF TicketInv
<1> QED
  BY <1>1, <1>2, <1>3, <1>4 DEF Tickets!ScrambleTickets

LEMMA TicketNext == TicketInv /\ Tickets!Next => TicketInv'
BY TicketStart, TicketJoin, TicketDestroy, TicketSeller DEF Tickets!Next, Tickets!Main

LEMMA TicketSame == TicketInv /\ UNCHANGED ticketVars => TicketInv'
BY DEF ticketVars, TicketInv, Selling

(* No seller is left when the mutex is destroyed, and then no ticket is,   *)
(* unless no thread could be created at all.                               *)
LEMMA TicketsSoldOnce == TicketInv => Tickets!SoldOnce
<1> SUFFICES ASSUME TicketInv, ~mutexLives
             PROVE  /\ \A s \in Three : seller[s] \in {"end", "failed"}
                    /\ tickets = 0 \/ \A s \in Three : seller[s] = "failed"
  BY DEF TicketInv, Tickets!SoldOnce
<1>1. \A s \in Three : seller[s] \in {"end", "failed"}
  BY ListedOrder DEF TicketInv
<1> QED
  BY <1>1 DEF TicketInv
-----------------------------------------------------------------------------
(* The joins of thread.cc: how many threads main has been through with.    *)
Served == IF main[1] = "create" THEN 0 ELSE IF main[1] = "done" THEN Len(Listed) ELSE main[2] - 1

(* What the join of a thread returned.                                     *)
JoinedRight(t, x) ==
  /\ t \in cancelled
  /\ \/ t \in detached /\ x = <<"null", "EINVAL">>
     \/ t \notin detached /\ x = <<"cancelled", "none">> /\ runner[t] = "end"

MultiInv ==
  /\ main \in {"create", "cancel", "join", "wait", "done"} \X (1 .. Len(Listed))
  /\ results \in Seq({<<"null", "EINVAL">>, <<"cancelled", "none">>}) /\ Len(results) = Served
  /\ \A r \in Three : runner[r] = "end" => r \in cancelled
  /\ main[1] \in {"join", "wait"} => Listed[main[2]] \in cancelled
  /\ main[1] = "wait" => Listed[main[2]] \notin detached
  /\ \A k \in DOMAIN results : JoinedRight(Listed[k], results[k])
  /\ ~running => main[1] = "join" /\ runner[Listed[main[2]]] = "end"
                 /\ Listed[main[2]] \in detached \cap cancelled

Test2Inv ==
  /\ main \in {<<"create", 1>>, <<"join", 1>>, <<"done", 1>>}
  /\ results \in {<<>>, <<<<"sum", "none">>>>} /\ cnt \in 0 .. 5
  /\ cnt < 5 => ret = "sum"
  /\ \A r \in Three : runner[r] = "end" => cnt = 0
  /\ running

DemoTypes ==
  /\ runner \in [Three -> {"none", "run", "loop", "end"}]
  /\ detached \subseteq Three /\ cancelled \subseteq Three
  /\ gPval \in [Three \cup {"main"} -> Nat] /\ gPval["main"] = 100

DemoInv ==
  /\ DemoTypes
  /\ \/ test = "testPrivateval" /\ main \in {<<"create", 1>>, <<"loop", 1>>} /\ running
     \/ test = "testMultithread" /\ MultiInv
     \/ test = "test2" /\ Test2Inv

LEMMA DemoInit == Demo!Init => DemoInv
<1> SUFFICES ASSUME Demo!Init PROVE DemoInv
  OBVIOUS
<1>1. /\ runner = [r \in Three |-> "none"] /\ detached = {} /\ cancelled = {}
      /\ main = <<"create", 1>> /\ results = <<>>
      /\ gPval = [x \in Three \cup {"main"} |-> 100]
      /\ cnt = 5 /\ running = TRUE
      /\ test \in {"testPrivateval", "testMultithread", "test2"}
  BY DEF Demo!Init
<1>2. DemoTypes
  BY <1>1 DEF DemoTypes
<1>3. main[1] = "create" /\ main \in {"create", "cancel", "join", "wait", "done"} \X (1 .. Len(Listed))
  BY <1>1, ListedOrder
<1>4. /\ results \in Seq({<<"null", "EINVAL">>, <<"cancelled", "none">>}) /\ Len(results) = 0
      /\ \A k \in DOMAIN results : FALSE
  BY <1>1
<1>5. \A r \in Three : runner[r] = "none"
  BY <1>1
<1>6. MultiInv
  BY <1>1, <1>3, <1>4, <1>5 DEF MultiInv, Served
<1>7. Test2Inv
  BY <1>1, <1>5 DEF Test2Inv
<1> QED
  BY <1>1, <1>2, <1>6, <1>7 DEF DemoInv

(* The thread main has turned to, and where it is in its line.             *)
LEMMA DemoTurn ==
  ASSUME MultiInv
  PROVE  /\ main[1] \in {"create", "cancel", "join", "wait", "done"}
         /\ main[2] \in 1 .. Len(Listed) /\ Demo!Nr = Listed[main[2]] /\ Demo!Nr \in Three
         /\ Len(Listed) \in Nat \ {0}
         /\ DOMAIN results = 1 .. Len(results) /\ Len(results) \in Nat
<1>1. main \in {"create", "cancel", "join", "wait", "done"} \X (1 .. Len(Listed))
  BY DEF MultiInv
<1>2. results \in Seq({<<"null", "EINVAL">>, <<"cancelled", "none">>})
  BY DEF MultiInv
<1>3. main[1] \in {"create", "cancel", "join", "wait", "done"} /\ main[2] \in 1 .. Len(Listed)
  BY <1>1
<1>4. Demo!Nr = Listed[main[2]]
  BY DEF Demo!Nr
<1>5. Demo!Nr \in Three /\ Len(Listed) \in Nat \ {0}
  BY <1>3, <1>4, ListedOrder
<1>6. DOMAIN results = 1 .. Len(results) /\ Len(results) \in Nat
  BY <1>2
<1> QED
  BY <1>3, <1>4, <1>5, <1>6

LEMMA DemoThread ==
  ASSUME DemoTypes, MultiInv, NEW r \in Three, Demo!threadrun(r)
  PROVE  DemoTypes' /\ MultiInv'
<1>1. /\ running /\ UNCHANGED <<cancelled, main, results, gPval, running>>
      /\ \/ /\ runner[r] = "run" /\ runner' = [runner EXCEPT ![r] = "loop"]
            /\ detached' = IF main[1] = "wait" /\ Demo!Nr = r THEN detached ELSE detached \cup {r}
         \/ /\ runner[r] = "loop" /\ r \in cancelled /\ runner' = [runner EXCEPT ![r] = "end"]
            /\ UNCHANGED detached
  BY DEF Demo!threadrun, Demo!Ends
<1>2. /\ runner' \in [Three -> {"none", "run", "loop", "end"}] /\ runner[r] # "end"
      /\ \A t \in Three : t # r => runner'[t] = runner[t]
      /\ runner'[r] = "loop" \/ (runner'[r] = "end" /\ r \in cancelled)
  BY <1>1 DEF DemoTypes
<1>3. /\ detached \subseteq detached' /\ detached' \subseteq detached \cup {r}
      /\ main[1] = "wait" /\ Demo!Nr = r => detached' = detached
  BY <1>1
<1>4. DemoTypes'
  BY <1>1, <1>2, <1>3 DEF DemoTypes
<1>5. \A t \in Three : runner'[t] = "end" => t \in cancelled'
  BY <1>1, <1>2 DEF MultiInv
<1>6. main[1] = "wait" => Listed[main[2]] \notin detached'
  BY <1>3, DemoTurn DEF MultiInv
<1>7. ASSUME NEW k \in DOMAIN results PROVE JoinedRight(Listed[k], results[k])'
  <2>1. JoinedRight(Listed[k], results[k])
    BY DEF MultiInv
  <2>2. k \in 1 .. Len(Listed)
    <3>1. Len(results) = Served /\ Served <= Len(Listed) /\ Len(results) \in Nat
      BY DemoTurn DEF MultiInv, Served
    <3> QED
      BY <1>7, <3>1, DemoTurn
  <2>3. Listed[k] \in Three
    BY <2>2, ListedOrder
  <2>4. CASE Listed[k] \in detached
    BY <1>1, <1>3, <2>1, <2>4 DEF JoinedRight
  <2>5. CASE Listed[k] \notin detached
    <3>1. runner[Listed[k]] = "end" /\ Listed[k] # r
      BY <1>2, <2>1, <2>5 DEF JoinedRight
    <3>2. Listed[k] \notin detached' /\ runner'[Listed[k]] = "end"
      BY <1>2, <1>3, <2>3, <2>5, <3>1
    <3> QED
      BY <1>1, <2>1, <2>5, <3>2 DEF JoinedRight
  <2> QED
    BY <2>4, <2>5
<1>8. Served' = Served
  BY <1>1 DEF Served
<1> QED
  BY <1>1, <1>4, <1>5, <1>6, <1>7, <1>8 DEF MultiInv

LEMMA DemoCreate ==
  ASSUME DemoTypes, MultiInv, Demo!Create PROVE DemoTypes' /\ MultiInv'
<1>1. /\ main[1] = "create" /\ runner' = [runner EXCEPT ![Demo!Nr] = "run"]
      /\ main' = IF main[2] = Len(Listed) THEN <<"cancel", 1>> ELSE <<"create", main[2] + 1>>
      /\ UNCHANGED <<detached, cancelled, results, gPval, running>>
  BY DEF Demo!Create
<1>2. running /\ Len(results) = 0
  BY <1>1 DEF MultiInv, Served
<1>3. DemoTypes' /\ \A t \in Three : runner'[t] = "run" \/ runner'[t] = runner[t]
  BY <1>1, DemoTurn DEF DemoTypes
<1>4. /\ main' \in {"create", "cancel", "join", "wait", "done"} \X (1 .. Len(Listed))
      /\ main'[1] \in {"create", "cancel"} /\ Served' = 0
  <2>1. CASE main[2] = Len(Listed)
    <3>1. main' = <<"cancel", 1>> /\ 1 \in 1 .. Len(Listed)
      BY <1>1, <2>1, DemoTurn
    <3>2. main'[1] = "cancel" /\ main'[2] = 1
      BY <3>1
    <3> QED
      BY <3>1, <3>2 DEF Served
  <2>2. CASE main[2] # Len(Listed)
    <3>1. main' = <<"create", main[2] + 1>> /\ main[2] + 1 \in 1 .. Len(Listed)
      BY <1>1, <2>2, DemoTurn
    <3>2. main'[1] = "create"
      BY <3>1
    <3> QED
      BY <3>1, <3>2 DEF Served
  <2> QED
    BY <2>1, <2>2
<1>5. \A t \in Three : runner'[t] = "end" => t \in cancelled'
  BY <1>1, <1>3 DEF MultiInv
<1>6. \A k \in DOMAIN results' : FALSE
  BY <1>1, <1>2, DemoTurn
<1>7. results' \in Seq({<<"null", "EINVAL">>, <<"cancelled", "none">>}) /\ Len(results') = 0
  BY <1>1, <1>2 DEF MultiInv
<1> QED
  BY <1>1, <1>2, <1>3, <1>4, <1>5, <1>6, <1>7 DEF MultiInv

LEMMA DemoCancel ==
  ASSUME DemoTypes, MultiInv, Demo!Cancel PROVE DemoTypes' /\ MultiInv'
<1>1. /\ main[1] = "cancel" /\ running /\ cancelled' = cancelled \cup {Demo!Nr}
      /\ main' = <<"join", main[2]>>
      /\ UNCHANGED <<runner, detached, results, gPval, running>>
  BY DEF Demo!Cancel
<1>2. DemoTypes'
  BY <1>1, DemoTurn DEF DemoTypes
<1>3. /\ main' \in {"create", "cancel", "join", "wait", "done"} \X (1 .. Len(Listed))
      /\ main'[1] = "join" /\ main'[2] = main[2]
  BY <1>1, DemoTurn
<1>4. Served' = Served
  BY <1>1, <1>3 DEF Served
<1>5. Listed[main'[2]] \in cancelled'
  BY <1>1, <1>3, DemoTurn
<1>6. ASSUME NEW k \in DOMAIN results PROVE JoinedRight(Listed[k], results[k])'
  BY <1>1 DEF JoinedRight, MultiInv
<1>7. \A t \in Three : runner'[t] = "end" => t \in cancelled'
  BY <1>1 DEF MultiInv
<1> QED
  BY <1>1, <1>2, <1>3, <1>4, <1>5, <1>6, <1>7 DEF MultiInv

(* A pthread_join that returns moves main on to the next thread.           *)
LEMMA DemoJoined ==
  ASSUME MultiInv, main[1] \in {"join", "wait"}, running, NEW v, NEW e, Demo!Joined(v, e),
         JoinedRight(Demo!Nr, <<v, e>>), UNCHANGED <<runner, detached, cancelled, running>>
  PROVE  MultiInv'
<1> DEFINE Joins == {<<"null", "EINVAL">>, <<"cancelled", "none">>}
<1>1. /\ results' = Append(results, <<v, e>>)
      /\ main' = IF main[2] = Len(Listed) THEN <<"done", 1>> ELSE <<"cancel", main[2] + 1>>
  BY DEF Demo!Joined
<1>2. /\ results \in Seq(Joins) /\ <<v, e>> \in Joins /\ Len(results) = main[2] - 1
      /\ Len(results) \in Nat /\ Len(results) + 1 = main[2]
  <2>1. <<v, e>> \in Joins
    BY DEF JoinedRight
  <2>2. results \in Seq(Joins) /\ Len(results) = Served
    BY DEF MultiInv
  <2>3. Served = main[2] - 1
    BY DEF Served
  <2> QED
    BY <2>1, <2>2, <2>3, DemoTurn
<1>3. /\ results' \in Seq(Joins) /\ Len(results') = main[2]
      /\ DOMAIN results' = 1 .. main[2] /\ DOMAIN results = 1 .. main[2] - 1
      /\ \A k \in 1 .. main[2] - 1 : results'[k] = results[k]
      /\ results'[main[2]] = <<v, e>>
  <2> HIDE DEF Joins
  <2>1. /\ results' \in Seq(Joins) /\ Len(results') = Len(results) + 1
        /\ DOMAIN results' = 1 .. Len(results) + 1 /\ DOMAIN results = 1 .. Len(results)
        /\ \A k \in 1 .. Len(results) : results'[k] = results[k]
        /\ results'[Len(results) + 1] = <<v, e>>
    BY <1>1, <1>2
  <2> QED
    BY <1>2, <2>1
<1>4. /\ main' \in {"create", "cancel", "join", "wait", "done"} \X (1 .. Len(Listed))
      /\ main'[1] \in {"done", "cancel"} /\ Served' = main[2]
  <2>1. CASE main[2] = Len(Listed)
    <3>1. main' = <<"done", 1>> /\ 1 \in 1 .. Len(Listed)
      BY <1>1, <2>1, DemoTurn
    <3>2. main'[1] = "done"
      BY <3>1
    <3> QED
      BY <2>1, <3>1, <3>2 DEF Served
  <2>2. CASE main[2] # Len(Listed)
    <3>1. main' = <<"cancel", main[2] + 1>> /\ main[2] + 1 \in 1 .. Len(Listed) /\ main[2] + 1 - 1 = main[2]
      BY <1>1, <2>2, DemoTurn
    <3>2. main'[1] = "cancel" /\ main'[2] = main[2] + 1
      BY <3>1
    <3>3. Served' = (main[2] + 1) - 1
      BY <3>2 DEF Served
    <3>4. main[2] \in Nat
      BY DemoTurn
    <3>5. (main[2] + 1) - 1 = main[2]
      BY <3>4
    <3> QED
      BY <3>1, <3>2, <3>3, <3>5
  <2> QED
    BY <2>1, <2>2
<1>5. ASSUME NEW k \in DOMAIN results' PROVE JoinedRight(Listed[k], results[k])'
  <2>1. CASE k = main[2]
    BY <1>3, <2>1, DemoTurn DEF JoinedRight
  <2>2. CASE k \in 1 .. main[2] - 1
    <3>1. k \in DOMAIN results /\ results'[k] = results[k]
      BY <1>3, <2>2
    <3>2. JoinedRight(Listed[k], results[k])
      BY <3>1 DEF MultiInv
    <3> QED
      BY <3>1, <3>2 DEF JoinedRight
  <2> QED
    BY <1>3, <1>5, <2>1, <2>2, DemoTurn
<1>6. \A t \in Three : runner'[t] = "end" => t \in cancelled'
  BY DEF MultiInv
<1> QED
  BY <1>3, <1>4, <1>5, <1>6 DEF MultiInv

LEMMA DemoJoin ==
  ASSUME DemoTypes, MultiInv, Demo!Join PROVE DemoTypes' /\ MultiInv'
<1>1. /\ main[1] = "join" /\ running /\ UNCHANGED <<runner, detached, cancelled, gPval>>
      /\ \/ Demo!Nr \in detached /\ Demo!Joined("null", "EINVAL") /\ UNCHANGED running
         \/ Demo!Nr \in detached /\ runner[Demo!Nr] = "end" /\ running' = FALSE /\ UNCHANGED <<results, main>>
         \/ Demo!Nr \notin detached /\ main' = <<"wait", main[2]>> /\ UNCHANGED <<results, running>>
  BY DEF Demo!Join
<1>2. DemoTypes'
  BY <1>1 DEF DemoTypes
<1>3. Demo!Nr \in cancelled
  BY <1>1, DemoTurn DEF MultiInv
<1>4. CASE Demo!Nr \in detached /\ Demo!Joined("null", "EINVAL") /\ UNCHANGED running
  <2>1. JoinedRight(Demo!Nr, <<"null", "EINVAL">>)
    BY <1>3, <1>4 DEF JoinedRight
  <2>2. MultiInv'
    BY <1>1, <1>4, <2>1, DemoJoined
  <2> QED
    BY <1>2, <2>2
<1>5. CASE /\ Demo!Nr \in detached /\ runner[Demo!Nr] = "end" /\ running' = FALSE
           /\ UNCHANGED <<results, main>>
  <2>1. Served' = Served
    BY <1>5 DEF Served
  <2>2. ASSUME NEW k \in DOMAIN results PROVE JoinedRight(Listed[k], results[k])'
    BY <1>1, <1>5 DEF JoinedRight, MultiInv
  <2>3. /\ runner'[Listed[main'[2]]] = "end" /\ Listed[main'[2]] \in detached' \cap cancelled'
        /\ main'[1] = "join"
    BY <1>1, <1>3, <1>5, DemoTurn
  <2>4. \A t \in Three : runner'[t] = "end" => t \in cancelled'
    BY <1>1 DEF MultiInv
  <2> QED
    BY <1>2, <1>5, <2>1, <2>2, <2>3, <2>4 DEF MultiInv
<1>6. CASE Demo!Nr \notin detached /\ main' = <<"wait", main[2]>> /\ UNCHANGED <<results, running>>
  <2>1. /\ main' \in {"create", "cancel", "join", "wait", "done"} \X (1 .. Len(Listed))
        /\ main'[1] = "wait" /\ main'[2] = main[2]
    BY <1>6, DemoTurn
  <2>2. Served' = Served
    BY <1>1, <2>1 DEF Served
  <2>3. ASSUME NEW k \in DOMAIN results PROVE JoinedRight(Listed[k], results[k])'
    BY <1>1, <1>6 DEF JoinedRight, MultiInv
  <2>4. Listed[main'[2]] \in cancelled' /\ Listed[main'[2]] \notin detached'
    BY <1>1, <1>3, <1>6, <2>1, DemoTurn
  <2>5. \A t \in Three : runner'[t] = "end" => t \in cancelled'
    BY <1>1 DEF MultiInv
  <2> QED
    BY <1>1, <1>2, <1>6, <2>1, <2>2, <2>3, <2>4, <2>5 DEF MultiInv
<1> QED
  BY <1>1, <1>4, <1>5, <1>6

LEMMA DemoJoinReturns ==
  ASSUME DemoTypes, MultiInv, Demo!JoinReturns PROVE DemoTypes' /\ MultiInv'
<1>1. /\ main[1] = "wait" /\ runner[Demo!Nr] = "end" /\ Demo!Joined("cancelled", "none")
      /\ UNCHANGED <<runner, detached, cancelled, gPval, running>>
  BY DEF Demo!JoinReturns
<1>2. DemoTypes'
  BY <1>1 DEF DemoTypes
<1>3. running /\ Demo!Nr \in cancelled /\ Demo!Nr \notin detached
  BY <1>1, DemoTurn DEF MultiInv
<1>4. JoinedRight(Demo!Nr, <<"cancelled", "none">>)
  BY <1>1, <1>3 DEF JoinedRight
<1>5. MultiInv'
  BY <1>1, <1>3, <1>4, DemoJoined
<1> QED
  BY <1>2, <1>5

LEMMA DemoTest2 ==
  ASSUME DemoTypes, Test2Inv, Demo!test2 PROVE DemoTypes' /\ Test2Inv'
<1>1. Demo!Nr = Listed[1] /\ Demo!Nr \in Three
  BY ListedOrder DEF Test2Inv, Demo!Nr
<1>2. UNCHANGED <<detached, cancelled, gPval, cnt, ret, running>>
  BY DEF Demo!test2
<1>3. CASE /\ main' = <<"join", 1>> /\ runner' = [runner EXCEPT ![Demo!Nr] = "run"] /\ UNCHANGED results
  BY <1>1, <1>2, <1>3 DEF DemoTypes, Test2Inv
<1>4. CASE /\ runner[Demo!Nr] = "end" /\ main' = <<"done", 1>>
           /\ results' = <<<<ret, "none">>>> /\ UNCHANGED runner
  <2>1. cnt = 0 /\ ret = "sum"
    BY <1>1, <1>4 DEF Test2Inv
  <2> QED
    BY <1>2, <1>4, <2>1 DEF DemoTypes, Test2Inv
<1> QED
  BY <1>3, <1>4 DEF Demo!test2

LEMMA DemoPthreadRun ==
  ASSUME DemoTypes, Test2Inv, NEW r \in Three, Demo!pthreadRun(r) PROVE DemoTypes' /\ Test2Inv'
<1>1. UNCHANGED <<detached, cancelled, main, results, gPval, running>>
  BY DEF Demo!pthreadRun
<1>2. CASE cnt > 0
  <2>1. cnt' = cnt - 1 /\ ret' = "sum" /\ UNCHANGED runner
    BY <1>2 DEF Demo!pthreadRun
  <2>2. cnt' \in 0 .. 5 /\ cnt # 0
    BY <1>2, <2>1 DEF Test2Inv
  <2>3. \A t \in Three : runner'[t] # "end"
    BY <2>1, <2>2 DEF Test2Inv
  <2> QED
    BY <1>1, <2>1, <2>2, <2>3 DEF DemoTypes, Test2Inv
<1>3. CASE ~(cnt > 0)
  <2>1. runner' = [runner EXCEPT ![r] = "end"] /\ UNCHANGED <<cnt, ret>>
    BY <1>3 DEF Demo!pthreadRun, Demo!Ends
  <2>2. cnt = 0
    BY <1>3 DEF Test2Inv
  <2> QED
    BY <1>1, <2>1, <2>2 DEF DemoTypes, Test2Inv
<1> QED
  BY <1>2, <1>3

LEMMA DemoNext == DemoInv /\ Demo!Next => DemoInv'
<1> SUFFICES ASSUME DemoInv, Demo!Next PROVE DemoInv'
  OBVIOUS
<1>1. test' = test /\ DemoTypes
  BY DEF DemoInv, Demo!Next, Demo!Main, Demo!Thread, Demo!testPrivateval, Demo!testMultithread,
         Demo!Create, Demo!Cancel, Demo!Join, Demo!JoinReturns, Demo!test2,
         Demo!threadRunPrivate, Demo!threadrun, Demo!pthreadRun
<1>2. CASE test = "testPrivateval"
  <2>1. main \in {<<"create", 1>>, <<"loop", 1>>} /\ running
    BY <1>2 DEF DemoInv
  <2>2. CASE Demo!testPrivateval
    <3>1. /\ runner' = [runner EXCEPT ![Listed[1]] = "run"] /\ main' = <<"loop", 1>>
          /\ UNCHANGED <<detached, cancelled, gPval, running>>
      BY <2>2 DEF Demo!testPrivateval
    <3>2. DemoTypes'
      BY <1>1, <3>1 DEF DemoTypes
    <3> QED
      BY <1>1, <1>2, <2>1, <3>1, <3>2 DEF DemoInv
  <2>3. ASSUME NEW r \in Three, Demo!threadRunPrivate(r) PROVE DemoInv'
    <3>1. /\ gPval' = [gPval EXCEPT ![r] = @ + 1]
          /\ UNCHANGED <<runner, detached, cancelled, main, running>>
      BY <2>3 DEF Demo!threadRunPrivate
    <3>2. r # "main"
      BY MainAssumption DEF Three
    <3>3. DemoTypes'
      BY <1>1, <3>1, <3>2 DEF DemoTypes
    <3> QED
      BY <1>1, <1>2, <2>1, <3>1, <3>3 DEF DemoInv
  <2> QED
    BY <1>2, <2>2, <2>3 DEF Demo!Next, Demo!Main, Demo!Thread, Demo!testMultithread,
       Demo!Create, Demo!Cancel, Demo!Join, Demo!JoinReturns, Demo!test2, Demo!threadrun, Demo!pthreadRun
<1>3. CASE test = "testMultithread"
  <2>1. MultiInv
    BY <1>3 DEF DemoInv
  <2>2. \/ Demo!Create \/ Demo!Cancel \/ Demo!Join \/ Demo!JoinReturns
        \/ \E r \in Three : Demo!threadrun(r)
    BY <1>3 DEF Demo!Next, Demo!Main, Demo!Thread, Demo!testPrivateval, Demo!testMultithread,
                Demo!test2, Demo!threadRunPrivate, Demo!pthreadRun
  <2>3. DemoTypes' /\ MultiInv'
    BY <1>1, <2>1, <2>2, DemoCreate, DemoCancel, DemoJoin, DemoJoinReturns, DemoThread
  <2> QED
    BY <1>1, <1>3, <2>3 DEF DemoInv
<1>4. CASE test = "test2"
  <2>1. Test2Inv
    BY <1>4 DEF DemoInv
  <2>2. Demo!test2 \/ \E r \in Three : Demo!pthreadRun(r)
    BY <1>4 DEF Demo!Next, Demo!Main, Demo!Thread, Demo!testPrivateval, Demo!testMultithread,
                Demo!Create, Demo!Cancel, Demo!Join, Demo!JoinReturns,
                Demo!threadRunPrivate, Demo!threadrun
  <2>3. DemoTypes' /\ Test2Inv'
    BY <1>1, <2>1, <2>2, DemoTest2, DemoPthreadRun
  <2> QED
    BY <1>1, <1>4, <2>3 DEF DemoInv
<1> QED
  BY <1>2, <1>3, <1>4 DEF DemoInv

LEMMA DemoSame == DemoInv /\ UNCHANGED demoVars => DemoInv'
BY DEF demoVars, DemoInv, DemoTypes, MultiInv, Test2Inv, Served, JoinedRight

LEMMA DemoRight == DemoInv => Demo!JoinsRight
<1> SUFFICES ASSUME DemoInv PROVE Demo!JoinsRight
  OBVIOUS
<1>1. gPval["main"] = 100
  BY DEF DemoInv, DemoTypes
<1>2. CASE test = "testPrivateval" /\ main \in {<<"create", 1>>, <<"loop", 1>>} /\ running
  BY <1>1, <1>2 DEF Demo!JoinsRight
<1>3. CASE test = "testMultithread" /\ MultiInv
  BY <1>1, <1>3, DemoTurn DEF MultiInv, JoinedRight, Demo!JoinsRight
<1>4. CASE test = "test2" /\ Test2Inv
  BY <1>1, <1>4 DEF Test2Inv, Demo!JoinsRight
<1> QED
  BY <1>2, <1>3, <1>4 DEF DemoInv
-----------------------------------------------------------------------------
(* The two threads of the chat client.                                     *)
ChatPlaces ==
  /\ chatter \in {"socket", "start recvr", "start sender", "join recvr", "join sender", "close", "over"}
  /\ recvr \in {"none", "run", "failed", "end"} /\ sender \in {"none", "run", "failed", "end"}
  /\ chatter \in {"socket", "start recvr"} => recvr = "none"
  /\ chatter \in {"socket", "start recvr", "start sender"} => sender = "none"
  /\ Chat!Running => socketOpen
  /\ chatter \in {"join sender", "close"} => recvr # "run"
  /\ chatter = "close" => sender # "run"

ChatMail ==
  /\ arrived \in Nat /\ screen \in Seq(Nat) /\ unseen \in Seq(Nat)
  /\ Len(screen) + Len(unseen) = arrived
  /\ \A k \in DOMAIN screen : screen[k] = k
  /\ \A k \in DOMAIN unseen : unseen[k] = Len(screen) + k

ChatLines ==
  /\ typed \in Seq(Words \cup {Chat!Empty}) /\ sent \in Seq(Words \cup {Chat!Empty})
  /\ \A k \in DOMAIN sent : sent[k] = IF k <= Len(typed) THEN typed[k] ELSE Chat!Empty
  /\ Len(sent) > Len(typed) => ~input
  /\ Len(sent) < Len(typed) => sender = "end"

ChatClientInv == ChatPlaces /\ ChatMail /\ ChatLines

(* Where the lengths of the two sides of the mail and of the lines are     *)
(* known to be numbers.                                                    *)
LEMMA ChatLengths ==
  ASSUME ChatClientInv
  PROVE  /\ Len(screen) \in Nat /\ Len(unseen) \in Nat /\ Len(typed) \in Nat /\ Len(sent) \in Nat
         /\ DOMAIN screen = 1 .. Len(screen) /\ DOMAIN unseen = 1 .. Len(unseen)
         /\ DOMAIN typed = 1 .. Len(typed) /\ DOMAIN sent = 1 .. Len(sent)
<1>1. /\ screen \in Seq(Nat) /\ unseen \in Seq(Nat)
      /\ typed \in Seq(Words \cup {Chat!Empty}) /\ sent \in Seq(Words \cup {Chat!Empty})
  BY DEF ChatClientInv, ChatMail, ChatLines
<1> QED
  BY <1>1

LEMMA ChatMain == ChatClientInv /\ Chat!Main => ChatClientInv'
<1> SUFFICES ASSUME ChatClientInv, Chat!Main PROVE ChatClientInv'
  OBVIOUS
<1>1. UNCHANGED <<typed, input, sent, unseen, arrived, screen>>
  BY DEF Chat!Main, Chat!InitClient, Chat!Start, Chat!Join, Chat!Close
<1>2. /\ chatter' \in {"socket", "start recvr", "start sender", "join recvr", "join sender", "close", "over"}
      /\ recvr' \in {"none", "run", "failed", "end"} /\ sender' \in {"none", "run", "failed", "end"}
      /\ chatter' \in {"socket", "start recvr"} => recvr' = "none"
      /\ chatter' \in {"socket", "start recvr", "start sender"} => sender' = "none"
      /\ Chat!Running' => socketOpen'
      /\ chatter' \in {"join sender", "close"} => recvr' # "run"
      /\ chatter' = "close" => sender' # "run"
      /\ sender = "end" => sender' = "end"
  <2> USE DEF ChatClientInv, ChatPlaces, Chat!Running
  <2>1. CASE Chat!InitClient
    BY <2>1 DEF Chat!InitClient
  <2>2. CASE Chat!Start
    BY <2>2 DEF Chat!Start
  <2>3. CASE Chat!Join
    BY <2>3 DEF Chat!Join
  <2>4. CASE Chat!Close
    BY <2>4 DEF Chat!Close
  <2> QED
    BY <2>1, <2>2, <2>3, <2>4 DEF Chat!Main
<1>3. ChatMail'
  BY <1>1 DEF ChatClientInv, ChatMail
<1>4. ChatLines'
  BY <1>1, <1>2 DEF ChatClientInv, ChatLines, Chat!Empty
<1> QED
  BY <1>2, <1>3, <1>4 DEF ChatClientInv, ChatPlaces

LEMMA ChatReceives == ChatClientInv /\ Chat!RecvMessage => ChatClientInv'
<1> SUFFICES ASSUME ChatClientInv, Chat!RecvMessage PROVE ChatClientInv'
  OBVIOUS
<1>1. /\ Chat!Running /\ UNCHANGED <<chatter, sender, typed, input, sent, arrived, socketOpen>>
      /\ recvr = "run" /\ recvr' \in {"run", "end"}
  BY DEF Chat!RecvMessage
<1>2. /\ chatter' \in {"socket", "start recvr"} => recvr' = "none"
      /\ chatter' \in {"join sender", "close"} => recvr' # "run"
      /\ Chat!Running' => socketOpen'
  BY <1>1 DEF ChatClientInv, ChatPlaces, Chat!Running
<1>3. /\ arrived' \in Nat /\ screen' \in Seq(Nat) /\ unseen' \in Seq(Nat)
      /\ Len(screen') + Len(unseen') = arrived'
      /\ \A k \in DOMAIN screen' : screen'[k] = k
      /\ \A k \in DOMAIN unseen' : unseen'[k] = Len(screen') + k
  <2>1. CASE UNCHANGED <<unseen, screen>>
    BY <1>1, <2>1 DEF ChatClientInv, ChatMail
  <2>2. CASE unseen # <<>> /\ unseen' = Tail(unseen) /\ screen' = Append(screen, Head(unseen))
    <3>1. /\ arrived \in Nat /\ screen \in Seq(Nat) /\ unseen \in Seq(Nat)
          /\ Len(screen) + Len(unseen) = arrived
          /\ \A k \in DOMAIN screen : screen[k] = k
          /\ \A k \in DOMAIN unseen : unseen[k] = Len(screen) + k
      BY DEF ChatClientInv, ChatMail
    <3>2. /\ unseen' \in Seq(Nat) /\ Len(unseen') = Len(unseen) - 1 /\ Len(unseen) \in Nat \ {0}
          /\ DOMAIN unseen = 1 .. Len(unseen) /\ DOMAIN unseen' = 1 .. Len(unseen) - 1
          /\ \A k \in 1 .. Len(unseen) - 1 : unseen'[k] = unseen[k + 1]
      BY <2>2, <3>1
    <3>3. Head(unseen) = Len(screen) + 1 /\ Len(screen) \in Nat /\ Head(unseen) \in Nat
      <4>1. Head(unseen) = unseen[1] /\ 1 \in DOMAIN unseen
        BY <2>2, <3>2
      <4> QED
        BY <3>1, <4>1, ChatLengths
    <3>4. /\ screen' \in Seq(Nat) /\ Len(screen') = Len(screen) + 1
          /\ DOMAIN screen = 1 .. Len(screen) /\ DOMAIN screen' = 1 .. Len(screen) + 1
          /\ \A k \in 1 .. Len(screen) : screen'[k] = screen[k]
          /\ screen'[Len(screen) + 1] = Len(screen) + 1
      BY <2>2, <3>1, <3>3
    <3>5. ASSUME NEW k \in DOMAIN screen' PROVE screen'[k] = k
      <4>1. k \in 1 .. Len(screen) \/ k = Len(screen) + 1
        BY <3>3, <3>4, <3>5
      <4> QED
        BY <3>1, <3>4, <4>1
    <3>6. ASSUME NEW k \in DOMAIN unseen' PROVE unseen'[k] = Len(screen') + k
      <4>1. k + 1 \in DOMAIN unseen /\ k \in Nat
        BY <3>2, <3>6
      <4>2. unseen'[k] = Len(screen) + (k + 1)
        BY <3>1, <3>2, <3>6, <4>1
      <4> QED
        BY <3>3, <3>4, <4>1, <4>2
    <3>7. Len(screen') + Len(unseen') = arrived
      <4>1. /\ Len(screen) \in Nat /\ Len(unseen) \in Nat /\ Len(screen) + Len(unseen) = arrived
            /\ Len(screen') = Len(screen) + 1 /\ Len(unseen') = Len(unseen) - 1
        BY <3>1, <3>2, <3>3, <3>4
      <4> QED
        BY <4>1
    <3> QED
      BY <1>1, <3>1, <3>2, <3>4, <3>5, <3>6, <3>7
  <2> QED
    BY <2>1, <2>2 DEF Chat!RecvMessage
<1>4. ChatPlaces'
  BY <1>1, <1>2 DEF ChatClientInv, ChatPlaces
<1>5. ChatLines'
  BY <1>1 DEF ChatClientInv, ChatLines, Chat!Empty
<1> QED
  BY <1>3, <1>4, <1>5 DEF ChatClientInv, ChatMail

LEMMA ChatSends == ChatClientInv /\ Chat!SendMessage => ChatClientInv'
<1> SUFFICES ASSUME ChatClientInv, Chat!SendMessage PROVE ChatClientInv'
  OBVIOUS
<1> DEFINE Lines == Words \cup {Chat!Empty}
<1>1. /\ Chat!Running /\ sender = "run" /\ sender' \in {"run", "end"}
      /\ UNCHANGED <<chatter, recvr, input, unseen, arrived, screen, socketOpen>>
  BY DEF Chat!SendMessage
<1>2. /\ chatter' \in {"socket", "start recvr", "start sender"} => sender' = "none"
      /\ chatter' = "close" => sender' # "run"
      /\ Chat!Running' => socketOpen'
  BY <1>1 DEF ChatClientInv, ChatPlaces, Chat!Running
<1>3. /\ typed \in Seq(Lines) /\ sent \in Seq(Lines) /\ Len(typed) \in Nat /\ Len(sent) \in Nat
      /\ DOMAIN typed = 1 .. Len(typed) /\ DOMAIN sent = 1 .. Len(sent)
      /\ \A k \in DOMAIN sent : sent[k] = IF k <= Len(typed) THEN typed[k] ELSE Chat!Empty
  BY ChatLengths DEF ChatClientInv, ChatLines
<1>4. PICK w \in Lines :
        /\ \/ input /\ typed' = Append(typed, w)
           \/ ~input /\ w = Chat!Empty /\ UNCHANGED typed
        /\ \/ sent' = Append(sent, w) /\ UNCHANGED sender
           \/ sender' = "end" /\ UNCHANGED sent
  BY DEF Chat!SendMessage
<1>5. Len(sent) >= Len(typed) /\ (input => Len(sent) = Len(typed))
  <2>1. (Len(sent) > Len(typed) => ~input) /\ ~(Len(sent) < Len(typed))
    BY <1>1 DEF ChatClientInv, ChatLines
  <2>2. Len(sent) \in Nat /\ Len(typed) \in Nat
    BY <1>3
  <2> QED
    BY <2>1, <2>2
<1>6. /\ typed' \in Seq(Lines) /\ Len(typed') \in Nat /\ DOMAIN typed' = 1 .. Len(typed')
      /\ \A k \in 1 .. Len(typed) : typed'[k] = typed[k]
      /\ input => Len(typed') = Len(typed) + 1 /\ typed'[Len(typed) + 1] = w
      /\ ~input => typed' = typed /\ w = Chat!Empty
  <2>1. CASE input
    <3>1. typed' = Append(typed, w)
      BY <1>4, <2>1
    <3> QED
      BY <1>3, <2>1, <3>1
  <2>2. CASE ~input
    <3>1. typed' = typed /\ w = Chat!Empty
      BY <1>4, <2>2
    <3> QED
      BY <1>3, <2>2, <3>1
  <2> QED
    BY <2>1, <2>2
<1>7. /\ input => Len(typed') = Len(typed) + 1 /\ Len(sent) = Len(typed)
      /\ ~input => Len(typed') = Len(typed)
      /\ Len(sent) \in Nat /\ Len(typed) \in Nat /\ Len(sent) >= Len(typed)
  BY <1>3, <1>5, <1>6
<1> HIDE DEF Lines
<1>8. \A k \in 1 .. Len(sent) : sent[k] = IF k <= Len(typed') THEN typed'[k] ELSE Chat!Empty
  <2>1. CASE input
    BY <1>3, <1>5, <1>6, <2>1
  <2>2. CASE ~input
    BY <1>3, <1>6, <2>2
  <2> QED
    BY <2>1, <2>2
<1>9. /\ sent' \in Seq(Lines)
      /\ \A k \in DOMAIN sent' : sent'[k] = IF k <= Len(typed') THEN typed'[k] ELSE Chat!Empty
      /\ Len(sent') > Len(typed') => ~input'
      /\ Len(sent') < Len(typed') => sender' = "end"
  <2>1. CASE sent' = Append(sent, w)
    <3>1. /\ sent' \in Seq(Lines) /\ Len(sent') = Len(sent) + 1 /\ DOMAIN sent' = 1 .. Len(sent) + 1
          /\ \A k \in 1 .. Len(sent) : sent'[k] = sent[k]
          /\ sent'[Len(sent) + 1] = w
      BY <1>3, <2>1
    <3>2. w = IF Len(sent) + 1 <= Len(typed') THEN typed'[Len(sent) + 1] ELSE Chat!Empty
      <4>1. CASE input
        BY <1>3, <1>5, <1>6, <4>1
      <4>2. CASE ~input
        <5>1. ~(Len(sent) + 1 <= Len(typed'))
          BY <1>7, <4>2
        <5> QED
          BY <1>6, <4>2, <5>1
      <4> QED
        BY <4>1, <4>2
    <3>3. ASSUME NEW k \in DOMAIN sent'
          PROVE  sent'[k] = IF k <= Len(typed') THEN typed'[k] ELSE Chat!Empty
      <4>1. k \in 1 .. Len(sent) \/ k = Len(sent) + 1
        BY <1>3, <3>1, <3>3
      <4>2. CASE k \in 1 .. Len(sent)
        BY <1>8, <3>1, <4>2
      <4> QED
        BY <3>1, <3>2, <4>1, <4>2
    <3>4. Len(sent') = Len(sent) + 1
      BY <3>1
    <3>5. Len(sent') > Len(typed') => ~input'
      <4>1. CASE input
        <5>1. Len(typed') = Len(typed) + 1 /\ Len(sent) = Len(typed) /\ Len(typed) \in Nat
          BY <1>7, <4>1
        <5> QED
          BY <3>4, <5>1
      <4>2. CASE ~input
        BY <1>1, <4>2
      <4> QED
        BY <4>1, <4>2
    <3>6. ~(Len(sent') < Len(typed'))
      <4>1. CASE input
        <5>1. Len(typed') = Len(typed) + 1 /\ Len(sent) = Len(typed) /\ Len(typed) \in Nat
          BY <1>7, <4>1
        <5> QED
          BY <3>4, <5>1
      <4>2. CASE ~input
        <5>1. /\ Len(sent') = Len(sent) + 1 /\ Len(typed') = Len(typed)
              /\ Len(sent) \in Nat /\ Len(typed) \in Nat /\ Len(sent) >= Len(typed)
          BY <1>7, <3>4, <4>2
        <5> QED
          BY <5>1
      <4> QED
        BY <4>1, <4>2
    <3> QED
      BY <3>1, <3>3, <3>5, <3>6
  <2>2. CASE sender' = "end" /\ UNCHANGED sent
    <3>1. Len(sent) > Len(typed') => ~input
      <4>1. CASE input
        <5>1. Len(typed') = Len(typed) + 1 /\ Len(sent) = Len(typed) /\ Len(typed) \in Nat
          BY <1>7, <4>1
        <5> QED
          BY <5>1
      <4> QED
        BY <4>1
    <3> QED
      BY <1>1, <1>3, <1>8, <2>2, <3>1
  <2> QED
    BY <1>4, <2>1, <2>2
<1>10. typed' \in Seq(Words \cup {Chat!Empty}) /\ sent' \in Seq(Words \cup {Chat!Empty})
  BY <1>6, <1>9 DEF Lines
<1> QED
  <2>1. ChatPlaces'
    BY <1>1, <1>2 DEF ChatClientInv, ChatPlaces
  <2>2. ChatMail'
    BY <1>1 DEF ChatClientInv, ChatMail
  <2>3. ChatLines'
    BY <1>9, <1>10 DEF ChatLines, Chat!Empty
  <2> QED
    BY <2>1, <2>2, <2>3 DEF ChatClientInv

LEMMA ChatArrives == ChatClientInv /\ Chat!Arrive => ChatClientInv'
<1> SUFFICES ASSUME ChatClientInv, Chat!Arrive PROVE ChatClientInv'
  OBVIOUS
<1>1. /\ arrived' = arrived + 1 /\ unseen' = Append(unseen, arrived + 1)
      /\ UNCHANGED <<chatter, recvr, sender, typed, input, sent, screen, socketOpen>>
  BY DEF Chat!Arrive
<1>2. /\ arrived \in Nat /\ screen \in Seq(Nat) /\ unseen \in Seq(Nat)
      /\ Len(screen) + Len(unseen) = arrived
      /\ \A k \in DOMAIN unseen : unseen[k] = Len(screen) + k
  BY DEF ChatClientInv, ChatMail
<1>3. /\ unseen' \in Seq(Nat) /\ Len(unseen') = Len(unseen) + 1 /\ Len(unseen) \in Nat /\ Len(screen) \in Nat
      /\ DOMAIN unseen = 1 .. Len(unseen) /\ DOMAIN unseen' = 1 .. Len(unseen) + 1
      /\ \A k \in 1 .. Len(unseen) : unseen'[k] = unseen[k]
      /\ unseen'[Len(unseen) + 1] = arrived + 1
  BY <1>1, <1>2
<1>4. ASSUME NEW k \in DOMAIN unseen' PROVE unseen'[k] = Len(screen') + k
  <2>1. k \in 1 .. Len(unseen) \/ k = Len(unseen) + 1
    BY <1>3, <1>4
  <2>2. CASE k \in 1 .. Len(unseen)
    BY <1>1, <1>2, <1>3, <2>2
  <2> QED
    BY <1>1, <1>2, <1>3, <2>1, <2>2
<1>5. arrived' \in Nat /\ Len(screen') + Len(unseen') = arrived'
  <2>1. /\ Len(screen') = Len(screen) /\ Len(unseen') = Len(unseen) + 1 /\ arrived' = arrived + 1
        /\ Len(screen) \in Nat /\ Len(unseen) \in Nat /\ arrived \in Nat
        /\ Len(screen) + Len(unseen) = arrived
    BY <1>1, <1>2, <1>3
  <2> QED
    BY <2>1
<1>6. ChatPlaces'
  BY <1>1 DEF ChatClientInv, ChatPlaces, Chat!Running
<1>7. ChatMail'
  <2>1. screen' \in Seq(Nat) /\ \A k \in DOMAIN screen' : screen'[k] = k
    BY <1>1 DEF ChatClientInv, ChatMail
  <2> QED
    BY <1>3, <1>4, <1>5, <2>1 DEF ChatMail
<1>8. ChatLines'
  BY <1>1 DEF ChatClientInv, ChatLines, Chat!Empty
<1> QED
  BY <1>6, <1>7, <1>8 DEF ChatClientInv

LEMMA ChatClientNext == ChatClientInv /\ Chat!Next => ChatClientInv'
<1>1. ASSUME ChatClientInv, Chat!EndOfInput PROVE ChatClientInv'
  <2>1. /\ ~input'
        /\ UNCHANGED <<chatter, recvr, sender, typed, sent, unseen, arrived, screen, socketOpen>>
    BY <1>1 DEF Chat!EndOfInput
  <2>2. ChatPlaces'
    BY <1>1, <2>1 DEF ChatClientInv, ChatPlaces, Chat!Running
  <2>3. ChatMail'
    BY <1>1, <2>1 DEF ChatClientInv, ChatMail
  <2>4. ChatLines'
    BY <1>1, <2>1 DEF ChatClientInv, ChatLines, Chat!Empty
  <2> QED
    BY <2>2, <2>3, <2>4 DEF ChatClientInv
<1> QED
  BY <1>1, ChatMain, ChatReceives, ChatSends, ChatArrives DEF Chat!Next, Chat!Thread

LEMMA ChatClientInit == Chat!Init => ChatClientInv
BY DEF Chat!Init, ChatClientInv, ChatPlaces, ChatMail, ChatLines, Chat!Running, Chat!Empty

LEMMA ChatClientSame == ChatClientInv /\ UNCHANGED chatVars => ChatClientInv'
<1> SUFFICES ASSUME ChatClientInv, UNCHANGED chatVars PROVE ChatClientInv'
  OBVIOUS
<1>1. ChatPlaces'
  BY DEF chatVars, ChatClientInv, ChatPlaces, Chat!Running
<1>2. ChatMail'
  BY DEF chatVars, ChatClientInv, ChatMail
<1>3. ChatLines'
  BY DEF chatVars, ChatClientInv, ChatLines, Chat!Empty
<1> QED
  BY <1>1, <1>2, <1>3 DEF ChatClientInv

LEMMA ChatRight == ChatClientInv => Chat!ChatGoesOn
<1> SUFFICES ASSUME ChatClientInv PROVE Chat!ChatGoesOn
  OBVIOUS
<1>1. /\ arrived \in Nat /\ screen \in Seq(Nat) /\ unseen \in Seq(Nat)
      /\ Len(screen) + Len(unseen) = arrived
      /\ \A k \in DOMAIN screen : screen[k] = k
      /\ \A k \in DOMAIN unseen : unseen[k] = Len(screen) + k
  BY DEF ChatClientInv, ChatMail
<1> DEFINE all == screen \o unseen
<1>2. /\ all \in Seq(Nat) /\ Len(all) = arrived /\ DOMAIN all = 1 .. arrived
      /\ DOMAIN screen = 1 .. Len(screen) /\ DOMAIN unseen = 1 .. Len(unseen)
      /\ Len(screen) \in Nat /\ Len(unseen) \in Nat
      /\ \A k \in 1 .. Len(screen) : all[k] = screen[k]
      /\ \A k \in Len(screen) + 1 .. arrived : all[k] = unseen[k - Len(screen)]
  BY <1>1
<1> HIDE DEF all
<1>3. ASSUME NEW k \in 1 .. arrived PROVE all[k] = k
  <2>1. CASE k \in 1 .. Len(screen)
    BY <1>1, <1>2, <2>1
  <2>2. CASE k \in Len(screen) + 1 .. arrived
    <3>1. k - Len(screen) \in 1 .. Len(unseen)
      <4>1. Len(screen) + Len(unseen) = arrived /\ Len(screen) \in Nat /\ Len(unseen) \in Nat
        BY <1>1, <1>2
      <4> QED
        BY <2>2, <4>1
    <3>2. unseen[k - Len(screen)] = Len(screen) + (k - Len(screen))
      BY <1>1, <1>2, <3>1
    <3>3. all[k] = unseen[k - Len(screen)]
      BY <1>2, <2>2
    <3>4. k \in Nat /\ Len(screen) \in Nat
      BY <1>2
    <3> QED
      BY <3>2, <3>3, <3>4
  <2> QED
    BY <1>1, <1>2, <1>3, <2>1, <2>2
<1>4. all = [i \in 1 .. arrived |-> i]
  BY <1>2, <1>3
<1>5. DOMAIN sent = 1 .. Len(sent)
  BY ChatLengths
<1>6. /\ recvr = "run" /\ Chat!Running => socketOpen
      /\ chatter = "close" => recvr # "run" /\ sender # "run"
  BY DEF ChatClientInv, ChatPlaces
<1>7. /\ \A i \in 1 .. Len(sent) : sent[i] = IF i <= Len(typed) THEN typed[i] ELSE Chat!Empty
      /\ Len(sent) > Len(typed) => ~input
      /\ Len(sent) < Len(typed) => sender = "end"
  BY <1>5 DEF ChatClientInv, ChatLines
<1> QED
  BY <1>4, <1>6, <1>7 DEF Chat!ChatGoesOn, all
-----------------------------------------------------------------------------
(* The lines of the log. The times a line of w may show.                   *)
LogTimes(w) == {now[w]} \cup rivals[w]
UnreadField == MaxClock + 1

LogTypes ==
  /\ clock \in Nat /\ static \in Nat
  /\ writer \in [Producers -> {"out", "called", "stamping", "stamped", "flush", "done"}]
  /\ now \in [Producers -> Nat] /\ rivals \in [Producers -> SUBSET Nat]
  /\ stamp \in [Producers -> [minute : Nat, second : Nat]]

(* What w has read is of its own call or of one that overlaps with it, and *)
(* so is the time in the static memory while it reads.                     *)
WriterInv(w) ==
  /\ writer[w] \in {"out", "called"} => stamp[w] = Log!Unread
  /\ stamp[w].minute = UnreadField \/ \E t \in LogTimes(w) : stamp[w].minute = Log!Minute(t)
  /\ stamp[w].second = UnreadField \/ \E t \in LogTimes(w) : stamp[w].second = Log!Second(t)
  /\ writer[w] = "stamping" => static \in LogTimes(w)
  /\ writer[w] \in {"stamped", "flush", "done"} =>
       stamp[w].minute # UnreadField /\ stamp[w].second # UnreadField
  /\ w \in Log!Active => \A v \in Log!Active : now[v] \in LogTimes(w)

LinesInv ==
  /\ \A x \in outs : x[1] \in Producers /\ writer[x[1]] = "done" /\ x[3] = stamp[x[1]]
  /\ \A x, y \in outs : x[1] = y[1] => x = y

LogInv == LogTypes /\ LinesInv /\ \A w \in Producers : WriterInv(w)

LEMMA LogInit == Log!Init => LogInv
<1> SUFFICES ASSUME Log!Init PROVE LogInv
  OBVIOUS
<1> USE CountsAssumption
<1>1. /\ clock = 0 /\ static = 0 /\ outs = {}
      /\ writer = [w \in Producers |-> "out"] /\ now = [w \in Producers |-> 0]
      /\ stamp = [w \in Producers |-> Log!Unread] /\ rivals = [w \in Producers |-> {}]
  BY DEF Log!Init
<1>2. Log!Unread \in [minute : Nat, second : Nat]
      /\ Log!Unread.minute = UnreadField /\ Log!Unread.second = UnreadField
  BY DEF Log!Unread, UnreadField
<1>3. LogTypes /\ LinesInv
  BY <1>1, <1>2 DEF LogTypes, LinesInv
<1>4. ASSUME NEW w \in Producers PROVE WriterInv(w)
  <2>1. writer[w] = "out" /\ stamp[w] = Log!Unread
    BY <1>1
  <2>2. w \notin Log!Active
    BY <2>1 DEF Log!Active
  <2> QED
    BY <1>2, <2>1, <2>2 DEF WriterInv
<1> QED
  BY <1>3, <1>4 DEF LogInv

(* What a step must do to keep the account of a writer that reads nothing. *)
LEMMA LogOthers ==
  ASSUME LogTypes, NEW w \in Producers, WriterInv(w),
         stamp'[w] = stamp[w], now'[w] = now[w], rivals[w] \subseteq rivals'[w],
         writer'[w] \in {"out", "called"} => writer[w] \in {"out", "called"},
         writer'[w] = "stamping" => static' \in LogTimes(w)',
         writer'[w] \in {"stamped", "flush", "done"} => writer[w] \in {"stamped", "flush", "done"},
         w \in Log!Active' => \A v \in Log!Active' : now'[v] \in LogTimes(w)'
  PROVE  WriterInv(w)'
<1>1. LogTimes(w) \subseteq LogTimes(w)'
  BY DEF LogTimes
<1>2. /\ stamp'[w].minute = UnreadField \/ \E t \in LogTimes(w)' : stamp'[w].minute = Log!Minute(t)
      /\ stamp'[w].second = UnreadField \/ \E t \in LogTimes(w)' : stamp'[w].second = Log!Second(t)
  BY <1>1 DEF WriterInv
<1> QED
  BY <1>2 DEF WriterInv, Log!Minute, Log!Second, Log!Unread, UnreadField

LEMMA LogCall ==
  ASSUME LogInv, NEW w \in Producers, Log!writeMessage(w)
  PROVE  LogInv'
<1>1. /\ writer[w] = "out" /\ writer' = [writer EXCEPT ![w] = "called"]
      /\ now' = [now EXCEPT ![w] = clock]
      /\ rivals' = [v \in Producers |->
           IF v = w THEN {now[d] : d \in Log!Active}
           ELSE IF v \in Log!Active THEN rivals[v] \cup {clock} ELSE rivals[v]]
      /\ UNCHANGED <<clock, static, stamp, outs>>
  BY DEF Log!writeMessage, Log!Moves
<1>2. LogTypes
  BY DEF LogInv
<1>3. /\ writer'[w] = "called" /\ now'[w] = clock
      /\ \A v \in Producers \ {w} : writer'[v] = writer[v] /\ now'[v] = now[v]
  BY <1>1, <1>2 DEF LogTypes
<1>4. /\ w \notin Log!Active /\ Log!Active \subseteq Producers
      /\ Log!Active' = Log!Active \cup {w}
  BY <1>1, <1>3 DEF Log!Active
<1>5. LogTypes'
  <2>1. {now[d] : d \in Log!Active} \subseteq Nat
    BY <1>2, <1>4 DEF LogTypes
  <2>2. rivals' \in [Producers -> SUBSET Nat]
    BY <1>1, <1>2, <2>1 DEF LogTypes
  <2> QED
    BY <1>1, <1>2, <2>2 DEF LogTypes
<1>6. LinesInv'
  <2>1. \A x \in outs : x[1] # w
    BY <1>1 DEF LogInv, LinesInv
  <2> QED
    BY <1>1, <1>3, <2>1 DEF LogInv, LinesInv
<1>7. ASSUME NEW v \in Producers PROVE WriterInv(v)'
  <2>1. WriterInv(v)
    BY DEF LogInv
  <2>2. CASE v = w
    <3>1. rivals'[w] = {now[d] : d \in Log!Active}
      BY <1>1
    <3>2. \A u \in Log!Active' : now'[u] \in LogTimes(w)'
      BY <1>3, <1>4, <3>1 DEF LogTimes
    <3>3. stamp'[w] = Log!Unread
      BY <1>1, <2>1, <2>2 DEF WriterInv
    <3>4. Log!Unread.minute = UnreadField /\ Log!Unread.second = UnreadField
      BY DEF Log!Unread, UnreadField
    <3> QED
      BY <1>3, <2>2, <3>2, <3>3, <3>4 DEF WriterInv, Log!Unread, UnreadField
  <2>3. CASE v # w
    <3>1. rivals[v] \subseteq rivals'[v] /\ (v \in Log!Active => clock \in rivals'[v])
      BY <1>1, <2>3
    <3>2. /\ writer'[v] = writer[v] /\ now'[v] = now[v] /\ stamp'[v] = stamp[v]
      BY <1>1, <1>3, <2>3
    <3>3. writer'[v] = "stamping" => static' \in LogTimes(v)'
      BY <1>1, <2>1, <3>1, <3>2 DEF WriterInv, LogTimes
    <3>4. v \in Log!Active' => \A u \in Log!Active' : now'[u] \in LogTimes(v)'
      BY <1>3, <1>4, <2>1, <2>3, <3>1, <3>2 DEF WriterInv, LogTimes
    <3> QED
      BY <1>2, <2>1, <3>1, <3>2, <3>3, <3>4, LogOthers
  <2> QED
    BY <2>2, <2>3
<1> QED
  BY <1>5, <1>6, <1>7 DEF LogInv

LEMMA LogLocaltime ==
  ASSUME LogInv, NEW w \in Producers, Log!Localtime(w)
  PROVE  LogInv'
<1>1. /\ writer[w] = "called" /\ writer' = [writer EXCEPT ![w] = "stamping"] /\ static' = now[w]
      /\ UNCHANGED <<clock, now, stamp, rivals, outs>>
  BY DEF Log!Localtime, Log!Moves
<1>2. LogTypes
  BY DEF LogInv
<1>3. writer'[w] = "stamping" /\ \A v \in Producers \ {w} : writer'[v] = writer[v]
  BY <1>1, <1>2 DEF LogTypes
<1>4. w \in Log!Active /\ Log!Active' = Log!Active
  BY <1>1, <1>3 DEF Log!Active
<1>5. LogTypes'
  BY <1>1, <1>2 DEF LogTypes
<1>6. LinesInv'
  <2>1. \A x \in outs : x[1] # w
    BY <1>1 DEF LogInv, LinesInv
  <2> QED
    BY <1>1, <1>3, <2>1 DEF LogInv, LinesInv
<1>7. ASSUME NEW v \in Producers PROVE WriterInv(v)'
  <2>1. WriterInv(v)
    BY DEF LogInv
  <2>2. LogTimes(v)' = LogTimes(v)
    BY <1>1 DEF LogTimes
  <2>3. v \in Log!Active' => \A u \in Log!Active' : now'[u] \in LogTimes(v)'
    BY <1>1, <1>4, <2>1, <2>2 DEF WriterInv
  <2>4. writer'[v] = "stamping" => static' \in LogTimes(v)'
    <3>1. writer'[v] = "stamping" => v \in Log!Active'
      BY DEF Log!Active
    <3> QED
      BY <1>1, <1>4, <2>3, <3>1
  <2>5. /\ writer'[v] \in {"out", "called"} => writer[v] \in {"out", "called"}
        /\ writer'[v] \in {"stamped", "flush", "done"} => writer[v] \in {"stamped", "flush", "done"}
    BY <1>3
  <2> QED
    BY <1>1, <1>2, <2>1, <2>3, <2>4, <2>5, LogOthers
<1> QED
  BY <1>5, <1>6, <1>7 DEF LogInv

LEMMA LogReadField ==
  ASSUME LogInv, NEW w \in Producers, Log!ReadField(w)
  PROVE  LogInv'
<1> USE CountsAssumption
<1>1. /\ writer[w] = "stamping"
      /\ \/ stamp' = [stamp EXCEPT ![w].minute = Log!Minute(static)]
         \/ stamp' = [stamp EXCEPT ![w].second = Log!Second(static)]
      /\ writer' = [writer EXCEPT ![w] = IF \E f \in {"minute", "second"} : stamp'[w][f] = UnreadField
                                         THEN "stamping" ELSE "stamped"]
      /\ UNCHANGED <<clock, static, now, rivals, outs>>
  BY DEF Log!ReadField, Log!Moves, UnreadField
<1>2. LogTypes /\ WriterInv(w)
  BY DEF LogInv
<1>3. Log!Minute(static) \in Nat /\ Log!Second(static) \in Nat /\ static \in LogTimes(w)
  <2>1. static \in Nat /\ Seconds \in Nat \ {0}
    BY <1>2 DEF LogTypes
  <2>2. static \div Seconds \in Nat /\ static % Seconds \in Nat
    BY <2>1
  <2> QED
    BY <1>1, <1>2, <2>2 DEF WriterInv, Log!Minute, Log!Second
<1>4. /\ stamp' \in [Producers -> [minute : Nat, second : Nat]]
      /\ \A v \in Producers \ {w} : stamp'[v] = stamp[v]
      /\ \/ stamp'[w].minute = Log!Minute(static) /\ stamp'[w].second = stamp[w].second
         \/ stamp'[w].second = Log!Second(static) /\ stamp'[w].minute = stamp[w].minute
  <2>1. stamp \in [Producers -> [minute : Nat, second : Nat]]
    BY <1>2 DEF LogTypes
  <2>2. CASE stamp' = [stamp EXCEPT ![w].minute = Log!Minute(static)]
    BY <1>3, <2>1, <2>2
  <2>3. CASE stamp' = [stamp EXCEPT ![w].second = Log!Second(static)]
    BY <1>3, <2>1, <2>3
  <2> QED
    BY <1>1, <2>2, <2>3
<1>5. /\ writer' \in [Producers -> {"out", "called", "stamping", "stamped", "flush", "done"}]
      /\ \A v \in Producers \ {w} : writer'[v] = writer[v]
      /\ writer'[w] \in {"stamping", "stamped"}
      /\ writer'[w] = "stamped" => stamp'[w].minute # UnreadField /\ stamp'[w].second # UnreadField
  BY <1>1, <1>2 DEF LogTypes
<1>6. w \in Log!Active /\ Log!Active' = Log!Active
  BY <1>1, <1>5 DEF Log!Active
<1>7. LogTypes'
  BY <1>1, <1>2, <1>4, <1>5 DEF LogTypes
<1>8. LinesInv'
  <2>1. \A x \in outs : x[1] # w
    BY <1>1 DEF LogInv, LinesInv
  <2> QED
    BY <1>1, <1>4, <1>5, <2>1 DEF LogInv, LinesInv
<1>9. ASSUME NEW v \in Producers PROVE WriterInv(v)'
  <2>1. WriterInv(v)
    BY DEF LogInv
  <2>2. LogTimes(v)' = LogTimes(v)
    BY <1>1 DEF LogTimes
  <2>3. v \in Log!Active' => \A u \in Log!Active' : now'[u] \in LogTimes(v)'
    BY <1>1, <1>6, <2>1, <2>2 DEF WriterInv
  <2>4. CASE v # w
    BY <1>1, <1>2, <1>4, <1>5, <2>1, <2>2, <2>3, <2>4, LogOthers DEF WriterInv
  <2>5. CASE v = w
    <3>1. /\ stamp'[w].minute = UnreadField \/ \E t \in LogTimes(w)' : stamp'[w].minute = Log!Minute(t)
          /\ stamp'[w].second = UnreadField \/ \E t \in LogTimes(w)' : stamp'[w].second = Log!Second(t)
      BY <1>2, <1>3, <1>4, <2>2, <2>5 DEF WriterInv
    <3> QED
      BY <1>1, <1>3, <1>5, <2>2, <2>3, <2>5, <3>1 DEF WriterInv, Log!Minute, Log!Second, Log!Unread, UnreadField
  <2> QED
    BY <2>4, <2>5
<1> QED
  BY <1>7, <1>8, <1>9 DEF LogInv

(* A writer that has its stamp only moves on.                              *)
LEMMA LogMovesOn ==
  ASSUME LogInv, NEW w \in Producers, writer[w] \in {"stamped", "flush"},
         NEW to \in {"flush", "done"}, Log!Moves(w, to), UNCHANGED <<clock, static, now, stamp, rivals>>
  PROVE  LogTypes' /\ \A v \in Producers : WriterInv(v)'
<1>1. LogTypes /\ writer' = [writer EXCEPT ![w] = to]
  BY DEF LogInv, Log!Moves
<1>2. writer'[w] = to /\ \A v \in Producers \ {w} : writer'[v] = writer[v]
  BY <1>1 DEF LogTypes
<1>3. LogTypes'
  BY <1>1 DEF LogTypes
<1>4. Log!Active' \subseteq Log!Active
  BY <1>2 DEF Log!Active
<1>5. ASSUME NEW v \in Producers PROVE WriterInv(v)'
  <2>1. WriterInv(v)
    BY DEF LogInv
  <2>2. LogTimes(v)' = LogTimes(v)
    BY DEF LogTimes
  <2>3. v \in Log!Active' => \A u \in Log!Active' : now'[u] \in LogTimes(v)'
    BY <1>4, <2>1, <2>2 DEF WriterInv
  <2>4. /\ writer'[v] \in {"out", "called"} => writer[v] \in {"out", "called"}
        /\ writer'[v] \in {"stamped", "flush", "done"} => writer[v] \in {"stamped", "flush", "done"}
        /\ writer'[v] = "stamping" => writer[v] = "stamping"
    BY <1>2
  <2>5. writer'[v] = "stamping" => static' \in LogTimes(v)'
    BY <2>1, <2>2, <2>4 DEF WriterInv
  <2> QED
    BY <1>1, <2>1, <2>3, <2>4, <2>5, LogOthers
<1> QED
  BY <1>3, <1>5

LEMMA LogFlushLog ==
  ASSUME LogInv, NEW w \in Producers, Log!FlushLog(w)
  PROVE  LogInv'
<1>1. /\ writer[w] = "stamped" /\ Log!Moves(w, "flush")
      /\ UNCHANGED <<clock, static, now, stamp, rivals, outs>>
  BY DEF Log!FlushLog
<1>2. LogTypes' /\ \A v \in Producers : WriterInv(v)'
  BY <1>1, LogMovesOn
<1>3. \A x \in outs : x[1] # w
  BY <1>1 DEF LogInv, LinesInv
<1>4. LinesInv'
  BY <1>1, <1>3 DEF LogInv, LinesInv, LogTypes, Log!Moves
<1> QED
  BY <1>2, <1>4 DEF LogInv

LEMMA LogFlush ==
  ASSUME LogInv, NEW w \in Producers, Log!Flush(w)
  PROVE  LogInv'
<1>1. /\ writer[w] = "flush" /\ Log!Moves(w, "done")
      /\ UNCHANGED <<clock, static, now, stamp, rivals>>
  BY DEF Log!Flush
<1>2. \/ outs' = outs \cup {<<w, "screen", stamp[w]>>}
      \/ outs' = outs \cup {<<w, "file", stamp[w]>>}
      \/ outs' = outs
  BY DEF Log!Flush, Log!FlushtoMinitor, Log!FlushtoFile
<1>3. LogTypes' /\ \A v \in Producers : WriterInv(v)'
  BY <1>1, LogMovesOn
<1>4. \A x \in outs : x[1] # w
  BY <1>1 DEF LogInv, LinesInv
<1>5. writer'[w] = "done" /\ \A v \in Producers \ {w} : writer'[v] = writer[v]
  BY <1>1 DEF LogInv, LogTypes, Log!Moves
<1>6. PICK where : outs' \subseteq outs \cup {<<w, where, stamp[w]>>}
  BY <1>2
<1>7. \A x \in outs' : x[1] \in Producers /\ writer'[x[1]] = "done" /\ x[3] = stamp'[x[1]]
  <2> SUFFICES ASSUME NEW x \in outs'
               PROVE  x[1] \in Producers /\ writer'[x[1]] = "done" /\ x[3] = stamp'[x[1]]
    OBVIOUS
  <2>1. CASE x \in outs
    BY <1>1, <1>4, <1>5, <2>1 DEF LogInv, LinesInv
  <2>2. CASE x = <<w, where, stamp[w]>>
    BY <1>1, <1>5, <2>2
  <2> QED
    BY <1>6, <2>1, <2>2
<1>8. \A x, y \in outs' : x[1] = y[1] => x = y
  <2>1. \A x, y \in outs : x[1] = y[1] => x = y
    BY DEF LogInv, LinesInv
  <2>2. \A x \in outs' : x \in outs \/ x = <<w, where, stamp[w]>>
    BY <1>6
  <2>3. <<w, where, stamp[w]>>[1] = w
    OBVIOUS
  <2> QED
    BY <1>4, <2>1, <2>2, <2>3
<1> QED
  BY <1>3, <1>7, <1>8 DEF LogInv, LinesInv

LEMMA LogNext == LogInv /\ Log!Next => LogInv'
<1> SUFFICES ASSUME LogInv, Log!Next PROVE LogInv'
  OBVIOUS
<1>1. CASE Log!Tick \/ Log!SwitchType
  <2>1. clock' \in Nat /\ UNCHANGED <<static, writer, now, stamp, rivals, outs>>
    BY <1>1 DEF Log!Tick, Log!SwitchType, LogInv, LogTypes
  <2>2. LogTypes' /\ LinesInv'
    BY <2>1 DEF LogInv, LogTypes, LinesInv
  <2>3. \A w \in Producers : WriterInv(w)'
    BY <2>1 DEF LogInv, WriterInv, LogTimes, Log!Active, Log!Minute, Log!Second, Log!Unread, UnreadField
  <2> QED
    BY <2>2, <2>3 DEF LogInv
<1>2. CASE \E w \in Producers : Log!Call(w)
  BY <1>2, LogCall, LogLocaltime, LogReadField, LogFlushLog, LogFlush DEF Log!Call
<1> QED
  BY <1>1, <1>2 DEF Log!Next

LEMMA LogSame == LogInv /\ UNCHANGED logVars => LogInv'
<1> SUFFICES ASSUME LogInv, UNCHANGED logVars PROVE LogInv'
  OBVIOUS
<1>1. UNCHANGED <<clock, static, writer, now, stamp, rivals, outs>>
  BY DEF logVars
<1>2. LogTypes' /\ LinesInv'
  BY <1>1 DEF LogInv, LogTypes, LinesInv
<1>3. \A w \in Producers : WriterInv(w)'
  BY <1>1 DEF LogInv, WriterInv, LogTimes, Log!Active, Log!Minute, Log!Second, Log!Unread, UnreadField
<1> QED
  BY <1>2, <1>3 DEF LogInv

LEMMA LogRight == LogInv => Log!LinesTruthful
<1> SUFFICES ASSUME LogInv PROVE Log!LinesTruthful
  OBVIOUS
<1>1. ASSUME NEW x \in outs
      PROVE  /\ \E t \in LogTimes(x[1]) : x[3].minute = Log!Minute(t)
             /\ \E t \in LogTimes(x[1]) : x[3].second = Log!Second(t)
  <2>1. x[1] \in Producers /\ writer[x[1]] = "done" /\ x[3] = stamp[x[1]]
    BY DEF LogInv, LinesInv
  <2>2. WriterInv(x[1])
    BY <2>1 DEF LogInv
  <2> QED
    BY <2>1, <2>2 DEF WriterInv
<1>2. \A x, y \in outs : x[1] = y[1] => x = y
  BY DEF LogInv, LinesInv
<1> QED
  BY <1>1, <1>2 DEF Log!LinesTruthful, LogTimes
-----------------------------------------------------------------------------
(* All of them: whichever program runs leaves the others as they are.      *)
ProgramsInv == TicketInv /\ DemoInv /\ ChatClientInv /\ LogInv

LEMMA ProgramsNext == ProgramsInv /\ [ThreadsNext]_allVars => ProgramsInv'
<1> SUFFICES ASSUME ProgramsInv, [ThreadsNext]_allVars PROVE ProgramsInv'
  OBVIOUS
<1> USE DEF ProgramsInv
<1>1. TicketInv'
  <2>1. Tickets!Next \/ UNCHANGED ticketVars
    BY DEF ThreadsNext, InQueue, InTickets, InCond, InLog, InDemo, InChat, Only, allVars
  <2> QED
    BY <2>1, TicketNext, TicketSame
<1>2. DemoInv'
  <2>1. Demo!Next \/ UNCHANGED demoVars
    BY DEF ThreadsNext, InQueue, InTickets, InCond, InLog, InDemo, InChat, Only, allVars
  <2> QED
    BY <2>1, DemoNext, DemoSame
<1>3. ChatClientInv'
  <2>1. Chat!Next \/ UNCHANGED chatVars
    BY DEF ThreadsNext, InQueue, InTickets, InCond, InLog, InDemo, InChat, Only, allVars
  <2> QED
    BY <2>1, ChatClientNext, ChatClientSame
<1>4. LogInv'
  <2>1. Log!Next \/ UNCHANGED logVars
    BY DEF ThreadsNext, InQueue, InTickets, InCond, InLog, InDemo, InChat, Only, allVars
  <2> QED
    BY <2>1, LogNext, LogSame
<1> QED
  BY <1>1, <1>2, <1>3, <1>4

(* The accounts of the four programs hold for any number of threads,       *)
(* tickets and lines.                                                      *)
THEOREM ProgramsInvariant == ThreadsSpec => []ProgramsInv
<1>1. ThreadsInit => ProgramsInv
  BY TicketInit, DemoInit, ChatClientInit, LogInit DEF ThreadsInit, ProgramsInv
<1> QED
  BY <1>1, ProgramsNext, PTL DEF ThreadsSpec

(* The ticket sellers, the joins of thread.cc, the chat client's threads.  *)
THEOREM SoldAndJoinedHolds == ThreadsSpec => []SoldAndJoined
<1>1. ProgramsInv => SoldAndJoined
  BY TicketsSoldOnce, DemoRight, ChatRight DEF ProgramsInv, SoldAndJoined
<1> QED
  BY <1>1, ProgramsInvariant, PTL

(* A line of the log shows no time but its own or that of a call beside it. *)
THEOREM LogLinesTruthful == ThreadsSpec => []LinesTruthful
<1>1. ProgramsInv => LinesTruthful
  BY LogRight DEF ProgramsInv, LinesTruthful
<1> QED
  BY <1>1, ProgramsInvariant, PTL
=============================================================================
