----------------------------- MODULE BlockQueue -----------------------------
(* OSCode/18.testThread/blockQueue/blockQueue_for_CP.hpp: a bounded queue  *)
(* behind one mutex. Producers that find it full and consumers that find   *)
(* it empty wait on a condition variable each; Push and Pop signal the     *)
(* other side after they have unlocked.                                    *)
EXTENDS Integers, Sequences

CONSTANTS Producers, Consumers, Items, NoItem, MaxCap

ASSUME ThreadsAssumption == Producers \cap Consumers = {}
ASSUME BothSidesAssumption == Producers # {} /\ Consumers # {}
ASSUME MaxCapAssumption == MaxCap \in Nat \ {0}
ASSUME NoItemAssumption == NoItem \notin Items

VARIABLES
  queue,    \* _blockqueue
  mutex,    \* _mutex: the set of its holders
  pc,       \* where each thread is in Push or Pop; "wait" is blocked in
            \* pthread_cond_wait, "relock" woken and not returned from it
  arg, out  \* the parameters of Push and Pop

vars == <<queue, mutex, pc, arg, out>>

Threads == Producers \cup Consumers

Init ==
  /\ queue = <<>>
  /\ mutex = {}
  /\ pc = [t \in Threads |-> "idle"]
  /\ arg = [p \in Producers |-> NoItem]
  /\ out = [c \in Consumers |-> NoItem]

Goto(t, label) == pc' = [pc EXCEPT ![t] = label]
Waiting(S) == {t \in S : pc[t] = "wait"}

isEmpty == queue = <<>>
(* MUTANT of isFull: the bound is off by one. *)
isFull_OffByOne == Len(queue) = MaxCap + 1
isFull == Len(queue) = MaxCap

(* pthread_cond_signal by t wakes one of the threads of S that wait, if    *)
(* there is any; t goes on to its next call.                               *)
Signal(t, S) ==
  /\ pc[t] = "signal"
  /\ IF Waiting(S) = {}
     THEN Goto(t, "idle")
     ELSE \E u \in Waiting(S) : pc' = [pc EXCEPT ![u] = "relock", ![t] = "idle"]
  /\ UNCHANGED <<queue, mutex, arg, out>>

(* pthread_cond_wait by t: the mutex is released with the start of the     *)
(* wait.                                                                   *)
Wait(t) ==
  /\ mutex' = mutex \ {t}
  /\ Goto(t, "wait")
  /\ UNCHANGED <<queue, arg, out>>

(* pthread_cond_wait may return without a signal, and it returns with the  *)
(* mutex: the loop around it checks the condition again.                   *)
SpuriousWakeup(t) ==
  /\ pc[t] = "wait"
  /\ Goto(t, "relock")
  /\ UNCHANGED <<queue, mutex, arg, out>>

Relock(t) ==
  /\ pc[t] = "relock"
  /\ mutex = {}
  /\ mutex' = {t}
  /\ Goto(t, "check")
  /\ UNCHANGED <<queue, arg, out>>
-----------------------------------------------------------------------------
EnterPush(p) ==
  /\ pc[p] = "idle"
  /\ mutex = {}
  /\ mutex' = {p}
  /\ \E item \in Items : arg' = [arg EXCEPT ![p] = item]
  /\ Goto(p, "check")
  /\ UNCHANGED <<queue, out>>

WaitNotFull(p) == pc[p] = "check" /\ isFull /\ Wait(p)

Insert(p) ==
  /\ pc[p] = "check"
  /\ ~isFull
  /\ queue' = Append(queue, arg[p])
  /\ arg' = [arg EXCEPT ![p] = NoItem]
  /\ mutex' = mutex \ {p}
  /\ Goto(p, "signal")
  /\ UNCHANGED out

(* MUTANT of SignalNotEmpty: it signals its own side. *)
SignalNotEmpty_OwnSide(p) == Signal(p, Producers)
SignalNotEmpty(p) == Signal(p, Consumers)
-----------------------------------------------------------------------------
EnterPop(c) ==
  /\ pc[c] = "idle"
  /\ mutex = {}
  /\ mutex' = {c}
  /\ Goto(c, "check")
  /\ UNCHANGED <<queue, arg, out>>

WaitNotEmpty(c) == pc[c] = "check" /\ isEmpty /\ Wait(c)

Remove(c) ==
  /\ pc[c] = "check"
  /\ ~isEmpty
  /\ out' = [out EXCEPT ![c] = Head(queue)]
  /\ queue' = Tail(queue)
  /\ mutex' = mutex \ {c}
  /\ Goto(c, "signal")
  /\ UNCHANGED arg

(* MUTANT of SignalNotFull: no signal after a Pop. *)
SignalNotFull_None(c) ==
  pc[c] = "signal" /\ Goto(c, "idle") /\ UNCHANGED <<queue, mutex, arg, out>>
SignalNotFull(c) == Signal(c, Producers)
-----------------------------------------------------------------------------
(* The threads of testCP.cc call Push and Pop forever.                     *)
Produce(p) ==
  EnterPush(p) \/ WaitNotFull(p) \/ Insert(p) \/ SignalNotEmpty(p) \/ Relock(p)
Consume(c) ==
  EnterPop(c) \/ WaitNotEmpty(c) \/ Remove(c) \/ SignalNotFull(c) \/ Relock(c)

Next ==
  \/ \E p \in Producers : Produce(p)
  \/ \E c \in Consumers : Consume(c)
  \/ \E t \in Threads : SpuriousWakeup(t)

Spec == Init /\ [][Next]_vars

(* Every thread keeps running; spurious wakeups come to an end, for they   *)
(* could otherwise keep the mutex busy for ever.                           *)
FairSpec ==
  /\ Spec
  /\ \A p \in Producers : WF_vars(Produce(p))
  /\ \A c \in Consumers : WF_vars(Consume(c))
  /\ <>[][~ \E t \in Threads : SpuriousWakeup(t)]_vars
-----------------------------------------------------------------------------
TypeOK ==
  /\ queue \in Seq(Items)
  /\ mutex \subseteq Threads
  /\ pc \in [Threads -> {"idle", "check", "wait", "relock", "signal"}]
  /\ arg \in [Producers -> Items \cup {NoItem}]
  /\ out \in [Consumers -> Items \cup {NoItem}]

(* No wakeup is lost although the signal comes after the unlock: when the  *)
(* queue holds an item and yet every consumer waits, a producer that has   *)
(* pushed is about to signal; and the same for room and the producers.     *)
NoLostWakeup ==
  /\ ~isEmpty /\ Waiting(Consumers) = Consumers
       => \E p \in Producers : pc[p] = "signal"
  /\ ~isFull /\ Waiting(Producers) = Producers
       => \E c \in Consumers : pc[c] = "signal"

(* Push and Pop take effect as on a bounded FIFO. *)
Fifo == INSTANCE BoundedFifo WITH Capacity <- MaxCap
RefinesFifo == Fifo!Spec

(* An item in the queue is never left there while the consumers sleep, and *)
(* room in the queue never while the producers do.                         *)
NeitherSideStalls ==
  /\ ~isEmpty ~> \E c \in Consumers : pc[c] = "signal"
  /\ ~isFull ~> \E p \in Producers : pc[p] = "signal"
=============================================================================
