-------------------------- MODULE ThreadPoolProofs --------------------------
(* Safety of ThreadPool for every number of workers, clients and tasks.    *)
EXTENDS ThreadPool, FiniteSetTheorems, TLAPS

WorkerLabels == {"off", "lock", "check", "wait", "relock", "run", "quit"}
ClientLabels ==
  {"idle", "sigLock", "recheck", "start", "spawn", "got", "critical", "stopped"}

LabelInv ==
  /\ \A w \in Workers : pc[w] \in WorkerLabels
  /\ \A c \in Clients : pc[c] \in ClientLabels

(* The mutex is held by the thread between LockQueue and UnlockQueue.      *)
MutexInv ==
  /\ mutex = At(Workers \cup Clients, {"check", "critical"})
  /\ \A t, u \in mutex : t = u

(* _sigmutex is held by the client that creates or looks for the pool; no  *)
(* worker exists before the pool is started.                               *)
SingletonInv ==
  /\ sigMutex = At(Clients, {"recheck", "start", "spawn"})
  /\ \A c, d \in sigMutex : c = d
  /\ created \in {0, 1}
  /\ created = 0 => At(Clients, {"start", "spawn"}) = {}
  /\ created = 0 \/ At(Clients, {"start"}) # {} => \A w \in Workers : pc[w] = "off"

(* Workers quit only after Stop, and the pool is never started again.      *)
QuitInv == isRunning => At(Workers, {"quit"}) = {}

(* A worker that runs has a task.                                          *)
TaskInv == \A w \in Workers : pc[w] = "run" => task[w] \in Tasks

IInv ==
  /\ TypeOK /\ LabelInv /\ MutexInv /\ SingletonInv /\ QuitInv /\ TaskInv
  /\ SleepNumCounts /\ StopReachesSleepers /\ WorkKeepsAWorkerAwake
-----------------------------------------------------------------------------
Sleepers == At(Workers, {"wait", "relock"})

LEMMA SleepersFinite == IsFiniteSet(Sleepers) /\ Cardinality(Sleepers) \in Nat
<1>1. Sleepers \subseteq Workers
  BY DEF Sleepers, At
<1> QED
  BY <1>1, ThreadsAssumption, FS_Subset, FS_CardinalityType

(* A step of w counts w in or out, and nobody else.                        *)
One(b) == IF b THEN 1 ELSE 0

LEMMA SleepersChange ==
  ASSUME NEW w \in Workers, Sleepers' \ {w} = Sleepers \ {w}
  PROVE  Cardinality(Sleepers') =
           Cardinality(Sleepers) + One(w \in Sleepers') - One(w \in Sleepers)
<1>1. w \in Sleepers' /\ w \notin Sleepers => Sleepers' = Sleepers \cup {w}
  OBVIOUS
<1>2. w \notin Sleepers' /\ w \in Sleepers => Sleepers' = Sleepers \ {w}
  OBVIOUS
<1>3. (w \in Sleepers' <=> w \in Sleepers) => Sleepers' = Sleepers
  OBVIOUS
<1>4. /\ w \notin Sleepers => Cardinality(Sleepers \cup {w}) = Cardinality(Sleepers) + 1
      /\ w \in Sleepers => Cardinality(Sleepers \ {w}) = Cardinality(Sleepers) - 1
  BY SleepersFinite, FS_AddElement, FS_RemoveElement
<1> QED
  BY <1>1, <1>2, <1>3, <1>4, SleepersFinite DEF One

LEMMA InitInv == Init => IInv
<1> SUFFICES ASSUME Init PROVE IInv
  OBVIOUS
<1> USE ThreadsAssumption DEF Init
<1>1. TypeOK
  <2>1. \A t \in Workers \cup Clients : pc[t] \in {"off", "idle"}
    OBVIOUS
  <2>2. taskQueue \in Seq(Tasks)
    OBVIOUS
  <2> QED
    BY <2>1, <2>2 DEF TypeOK
<1>2. LabelInv
  BY DEF LabelInv, WorkerLabels, ClientLabels
<1>3. MutexInv
  BY DEF MutexInv, At
<1>4. SingletonInv
  BY DEF SingletonInv, At
<1>5. QuitInv /\ TaskInv /\ StopReachesSleepers
  BY DEF QuitInv, TaskInv, StopReachesSleepers, At
<1>6. SleepNumCounts
  <2>1. At(Workers, {"wait", "relock"}) = {}
    BY DEF At
  <2> QED
    BY <2>1, FS_EmptySet DEF SleepNumCounts
<1>7. WorkKeepsAWorkerAwake
  BY DEF WorkKeepsAWorkerAwake, Queued
<1> QED
  BY <1>1, <1>2, <1>3, <1>4, <1>5, <1>6, <1>7 DEF IInv

(* The steps of GetInstance before the first thread is started leave the   *)
(* workers and the queue alone.                                            *)
LEMMA EnterInv ==
  ASSUME IInv, NEW c \in Clients, EnterGetInstance(c) \/ LockSingleton(c) \/ Recheck(c)
  PROVE  IInv'
<1> USE ThreadsAssumption
<1> USE DEF EnterGetInstance, LockSingleton, Recheck, singleton, pool, clients, workers, Goto
<1>0. TypeOK /\ LabelInv /\ MutexInv /\ SingletonInv
  BY DEF IInv
<1>1. TypeOK'
  <2>1. arg' \in [Clients -> Tasks \cup {NoTask}]
    BY <1>0 DEF TypeOK, Unpushed
  <2> QED
    BY <1>0, <2>1 DEF TypeOK
<1>2. /\ \A w \in Workers : pc'[w] = pc[w]
      /\ UNCHANGED pool
  BY <1>0 DEF TypeOK
<1>3. LabelInv'
  BY <1>0, <1>2 DEF LabelInv, TypeOK, ClientLabels
<1>4. MutexInv'
  BY <1>0 DEF MutexInv, TypeOK, At
<1>5. SingletonInv'
  BY <1>0, <1>2 DEF SingletonInv, TypeOK, At
<1>6. (QuitInv /\ TaskInv /\ SleepNumCounts /\ StopReachesSleepers /\ WorkKeepsAWorkerAwake)'
  BY <1>2 DEF IInv, QuitInv, TaskInv, SleepNumCounts, StopReachesSleepers,
              WorkKeepsAWorkerAwake, At, Queued
<1> QED
  BY <1>1, <1>3, <1>4, <1>5, <1>6 DEF IInv

LEMMA StartInv ==
  ASSUME IInv, NEW c \in Clients, Start(c)
  PROVE  IInv'
<1> USE ThreadsAssumption
<1> USE DEF Start, singleton, clients, workers, Goto
<1>0. TypeOK /\ LabelInv /\ MutexInv /\ SingletonInv
  BY DEF IInv
<1>1. TypeOK'
  BY <1>0 DEF TypeOK
<1>2. \A w \in Workers : pc[w] = "off" /\ pc'[w] = "off"
  BY <1>0 DEF SingletonInv, TypeOK, At
<1>3. LabelInv'
  BY <1>0, <1>2 DEF LabelInv, TypeOK, ClientLabels, WorkerLabels
<1>4. MutexInv'
  BY <1>0 DEF MutexInv, TypeOK, At
<1>5. SingletonInv'
  BY <1>0, <1>2 DEF SingletonInv, TypeOK, At
<1>6. (QuitInv /\ TaskInv /\ StopReachesSleepers)'
  BY <1>2 DEF IInv, QuitInv, TaskInv, StopReachesSleepers, At
<1>7. SleepNumCounts'
  BY <1>2 DEF IInv, SleepNumCounts, At
<1>8. WorkKeepsAWorkerAwake'
  BY <1>2 DEF WorkKeepsAWorkerAwake, At
<1> QED
  BY <1>1, <1>3, <1>4, <1>5, <1>6, <1>7, <1>8 DEF IInv

LEMMA StartThreadInv ==
  ASSUME IInv, NEW c \in Clients, StartThread(c)
  PROVE  IInv'
<1> USE ThreadsAssumption
<1> USE DEF StartThread, pool, clients, workers, Goto
<1>0. TypeOK /\ LabelInv /\ MutexInv /\ SingletonInv /\ QuitInv
  BY DEF IInv
<1>1. CASE At(Workers, {"off"}) # {}
  <2>0. PICK w \in At(Workers, {"off"}) : pc' = [pc EXCEPT ![w] = "lock"]
    BY <1>1
  <2>1. w \in Workers /\ pc[w] = "off" /\ pc'[w] = "lock" /\ UNCHANGED sigMutex
    BY <1>0, <1>1, <2>0 DEF At, TypeOK
  <2>2. TypeOK'
    BY <1>0, <2>0, <2>1 DEF TypeOK
  <2>3. LabelInv'
    BY <1>0, <2>0, <2>1 DEF LabelInv, TypeOK, WorkerLabels
  <2>4. MutexInv'
    BY <1>0, <2>0, <2>1 DEF MutexInv, TypeOK, At
  <2>5. SingletonInv'
    BY <1>0, <2>0, <2>1 DEF SingletonInv, TypeOK, At
  <2>6. (QuitInv /\ TaskInv /\ StopReachesSleepers)'
    BY <1>0, <2>0, <2>1 DEF IInv, QuitInv, TaskInv, StopReachesSleepers, TypeOK, At
  <2>7. SleepNumCounts'
    <3>1. At(Workers, {"wait", "relock"})' = At(Workers, {"wait", "relock"})
      BY <1>0, <2>0, <2>1 DEF TypeOK, At
    <3> QED
      BY <3>1 DEF IInv, SleepNumCounts
  <2>8. WorkKeepsAWorkerAwake'
    BY <2>1 DEF WorkKeepsAWorkerAwake, At
  <2> QED
    BY <2>2, <2>3, <2>4, <2>5, <2>6, <2>7, <2>8 DEF IInv
<1>2. CASE At(Workers, {"off"}) = {}
  <2>1. \A w \in Workers : pc'[w] = pc[w]
    BY <1>0, <1>2 DEF TypeOK
  <2>2. TypeOK'
    BY <1>0, <1>2 DEF TypeOK
  <2>3. LabelInv'
    BY <1>0, <1>2, <2>1 DEF LabelInv, TypeOK, ClientLabels
  <2>4. MutexInv'
    BY <1>0, <1>2 DEF MutexInv, TypeOK, At
  <2>5. SingletonInv'
    BY <1>0, <1>2, <2>1 DEF SingletonInv, TypeOK, At
  <2>6. (QuitInv /\ TaskInv /\ SleepNumCounts /\ StopReachesSleepers /\ WorkKeepsAWorkerAwake)'
    BY <2>1 DEF IInv, QuitInv, TaskInv, SleepNumCounts, StopReachesSleepers,
                WorkKeepsAWorkerAwake, At, Queued
  <2> QED
    BY <2>2, <2>3, <2>4, <2>5, <2>6 DEF IInv
<1> QED
  BY <1>1, <1>2

LEMMA LockQueueInv ==
  ASSUME IInv, NEW c \in Clients, LockQueue(c)
  PROVE  IInv'
<1> USE ThreadsAssumption
<1> USE DEF LockQueue, singleton, clients, workers, Goto
<1>0. TypeOK /\ LabelInv /\ MutexInv /\ SingletonInv
  BY DEF IInv
<1>1. TypeOK'
  BY <1>0 DEF TypeOK
<1>2. \A w \in Workers : pc'[w] = pc[w]
  BY <1>0 DEF TypeOK
<1>3. LabelInv'
  BY <1>0, <1>2 DEF LabelInv, TypeOK, ClientLabels
<1>4. MutexInv'
  BY <1>0 DEF MutexInv, TypeOK, At
<1>5. SingletonInv'
  BY <1>0, <1>2 DEF SingletonInv, TypeOK, At
<1>6. (QuitInv /\ TaskInv /\ SleepNumCounts /\ StopReachesSleepers /\ WorkKeepsAWorkerAwake)'
  BY <1>2 DEF IInv, QuitInv, TaskInv, SleepNumCounts, StopReachesSleepers,
              WorkKeepsAWorkerAwake, At, Queued
<1> QED
  BY <1>1, <1>3, <1>4, <1>5, <1>6 DEF IInv

(* Push: the wakeup, if there is one, moves a waiting worker to "relock",  *)
(* where _sleepNum still counts it. Without one, nobody sleeps, and since  *)
(* no worker has quit a running pool, there is one that is awake.          *)
LEMMA PushInv ==
  ASSUME IInv, NEW c \in Clients, Push(c)
  PROVE  IInv'
<1> USE ThreadsAssumption
<1> USE DEF Push, singleton, workers
<1>0. TypeOK /\ LabelInv /\ MutexInv /\ SingletonInv /\ QuitInv
  BY DEF IInv
<1>1. \/ Goto(c, "idle")
      \/ /\ isRunning
         /\ \E w \in At(Workers, {"wait"}) :
                pc' = [pc EXCEPT ![w] = "relock", ![c] = "idle"]
  BY DEF Wakeup
<1>2. /\ pc' \in [Workers \cup Clients -> WorkerLabels \cup ClientLabels]
      /\ pc'[c] = "idle"
      /\ \A t \in (Workers \cup Clients) \ {c} :
            pc'[t] = pc[t] \/ (t \in Workers /\ pc[t] = "wait" /\ pc'[t] = "relock")
  BY <1>0, <1>1 DEF TypeOK, Goto, At, WorkerLabels, ClientLabels
<1>3. TypeOK'
  <2>1. taskQueue' \in Seq(Tasks) /\ refused' \subseteq Tasks
    BY <1>0 DEF TypeOK
  <2> QED
    BY <1>0, <1>2, <2>1 DEF TypeOK, WorkerLabels, ClientLabels
<1>4. LabelInv'
  BY <1>0, <1>2 DEF LabelInv, WorkerLabels, ClientLabels
<1>5. MutexInv'
  BY <1>0, <1>2 DEF MutexInv, At
<1>6. SingletonInv'
  BY <1>0, <1>2 DEF SingletonInv, At
<1>7. (QuitInv /\ TaskInv /\ StopReachesSleepers)'
  BY <1>2 DEF IInv, QuitInv, TaskInv, StopReachesSleepers, At
<1>8. Sleepers' = Sleepers
  BY <1>2 DEF Sleepers, At
<1>9. SleepNumCounts'
  BY <1>8 DEF IInv, SleepNumCounts, Sleepers
<1>10. WorkKeepsAWorkerAwake'
  <2>1. CASE ~isRunning
    BY <1>2, <2>1 DEF IInv, Goto, WorkKeepsAWorkerAwake, At, Queued
  <2>2. CASE isRunning /\ sleepNum > 0
    <3>1. Sleepers # {}
      <4>1. sleepNum = Cardinality(Sleepers)
        BY DEF IInv, SleepNumCounts, Sleepers
      <4> QED
        BY <2>2, <4>1, SleepersFinite, FS_EmptySet
    <3>2. CASE At(Workers, {"wait"}) = {}
      BY <1>2, <3>1, <3>2 DEF WorkKeepsAWorkerAwake, Sleepers, At
    <3>3. CASE At(Workers, {"wait"}) # {}
      <4>1. PICK w \in At(Workers, {"wait"}) :
              pc' = [pc EXCEPT ![w] = "relock", ![c] = "idle"]
        BY <2>2, <3>3 DEF Wakeup
      <4>2. w \in Workers /\ pc'[w] = "relock"
        BY <1>0, <4>1 DEF At, TypeOK
      <4> QED
        BY <4>2 DEF WorkKeepsAWorkerAwake, At
    <3> QED
      BY <3>2, <3>3
  <2>3. CASE isRunning /\ ~(sleepNum > 0)
    <3>1. Sleepers = {}
      BY <1>0, <2>3, SleepersFinite, FS_EmptySet DEF IInv, SleepNumCounts, Sleepers, TypeOK
    <3>2. \A w \in Workers : pc'[w] \in {"off", "lock", "check", "run"}
      BY <1>0, <1>2, <2>3, <3>1
      DEF LabelInv, WorkerLabels, Sleepers, QuitInv, At
    <3> QED
      BY <3>2 DEF WorkKeepsAWorkerAwake, At
  <2> QED
    BY <2>1, <2>2, <2>3 DEF IInv, TypeOK
<1> QED
  BY <1>3, <1>4, <1>5, <1>6, <1>7, <1>9, <1>10 DEF IInv

(* Stop moves every waiting worker to "relock".                            *)
LEMMA StopInv ==
  ASSUME IInv, NEW c \in Clients, Stop(c)
  PROVE  IInv'
<1> USE ThreadsAssumption
<1> USE DEF Stop, WakeupAll, singleton, clients, workers
<1>0. TypeOK /\ LabelInv /\ MutexInv /\ SingletonInv
  BY DEF IInv
<1>1. /\ pc' \in [Workers \cup Clients -> WorkerLabels \cup ClientLabels]
      /\ pc'[c] = "stopped"
      /\ \A t \in (Workers \cup Clients) \ {c} :
            pc'[t] = IF t \in Workers /\ pc[t] = "wait" THEN "relock" ELSE pc[t]
  BY <1>0 DEF TypeOK, LabelInv, At, WorkerLabels, ClientLabels
<1>2. TypeOK'
  BY <1>0, <1>1 DEF TypeOK, WorkerLabels, ClientLabels
<1>3. LabelInv'
  BY <1>0, <1>1 DEF LabelInv, WorkerLabels, ClientLabels
<1>4. MutexInv'
  BY <1>0, <1>1 DEF MutexInv, At
<1>5. SingletonInv'
  BY <1>0, <1>1 DEF SingletonInv, At
<1>6. (QuitInv /\ TaskInv /\ StopReachesSleepers)'
  BY <1>1 DEF IInv, QuitInv, TaskInv, StopReachesSleepers, At
<1>7. Sleepers' = Sleepers
  BY <1>1 DEF Sleepers, At
<1>8. SleepNumCounts'
  BY <1>7 DEF IInv, SleepNumCounts, Sleepers
<1>9. WorkKeepsAWorkerAwake'
  BY <1>1 DEF IInv, WorkKeepsAWorkerAwake, At, Queued
<1> QED
  BY <1>2, <1>3, <1>4, <1>5, <1>6, <1>8, <1>9 DEF IInv
-----------------------------------------------------------------------------
(* A worker that goes from one label to another leaves the clients alone.  *)
LEMMA WorkerMoved ==
  ASSUME IInv, NEW w \in Workers, NEW label \in WorkerLabels, label # "off",
         pc[w] # "off", Goto(w, label), UNCHANGED singleton
  PROVE  /\ pc' \in [Workers \cup Clients -> WorkerLabels \cup ClientLabels]
         /\ pc'[w] = label
         /\ \A t \in (Workers \cup Clients) \ {w} : pc'[t] = pc[t]
         /\ LabelInv' /\ SingletonInv'
         /\ Cardinality(Sleepers') = Cardinality(Sleepers)
              + One(label \in {"wait", "relock"}) - One(pc[w] \in {"wait", "relock"})
<1> USE ThreadsAssumption
<1>0. TypeOK /\ LabelInv /\ SingletonInv
  BY DEF IInv
<1>1. /\ pc' \in [Workers \cup Clients -> WorkerLabels \cup ClientLabels]
      /\ pc'[w] = label
      /\ \A t \in (Workers \cup Clients) \ {w} : pc'[t] = pc[t]
  BY <1>0 DEF TypeOK, Goto, WorkerLabels, ClientLabels
<1>2. LabelInv'
  BY <1>0, <1>1 DEF LabelInv
<1>3. SingletonInv'
  BY <1>0, <1>1 DEF SingletonInv, At, singleton
<1>4. /\ Sleepers' \ {w} = Sleepers \ {w}
      /\ w \in Sleepers' <=> label \in {"wait", "relock"}
      /\ w \in Sleepers <=> pc[w] \in {"wait", "relock"}
  BY <1>1 DEF Sleepers, At
<1>5. Cardinality(Sleepers') =
        Cardinality(Sleepers) + One(w \in Sleepers') - One(w \in Sleepers)
  BY <1>4, SleepersChange
<1> QED
  BY <1>1, <1>2, <1>3, <1>4, <1>5 DEF One

LEMMA LockHandlerInv ==
  ASSUME IInv, NEW w \in Workers, LockHandler(w) \/ Quit(w) \/ SpuriousWakeup(w)
  PROVE  IInv'
<1> USE ThreadsAssumption
<1> USE DEF LockHandler, Quit, SpuriousWakeup, singleton, pool, clients, workers
<1>0. TypeOK /\ MutexInv
  BY DEF IInv
<1>1. PICK label \in {"check", "quit", "relock"} :
        /\ Goto(w, label)
        /\ pc[w] # "off"
        /\ pc[w] = "wait" <=> label = "relock"
        /\ pc[w] # "relock"
        /\ label = "quit" => ~isRunning
        /\ label = "quit" => taskQueue = <<>>
        /\ mutex' = IF label = "check" THEN {w} ELSE mutex \ {w}
        /\ label = "check" => mutex = {}
        /\ label = "relock" => w \notin mutex
  BY <1>0 DEF MutexInv, At
<1>2. /\ pc' \in [Workers \cup Clients -> WorkerLabels \cup ClientLabels]
      /\ pc'[w] = label
      /\ \A t \in (Workers \cup Clients) \ {w} : pc'[t] = pc[t]
      /\ LabelInv' /\ SingletonInv'
      /\ Cardinality(Sleepers') = Cardinality(Sleepers)
  <2>1. label \in WorkerLabels /\ label # "off" /\ UNCHANGED singleton
    BY DEF WorkerLabels
  <2>2. /\ Cardinality(Sleepers') = Cardinality(Sleepers)
             + One(label \in {"wait", "relock"}) - One(pc[w] \in {"wait", "relock"})
        /\ pc' \in [Workers \cup Clients -> WorkerLabels \cup ClientLabels]
        /\ pc'[w] = label
        /\ \A t \in (Workers \cup Clients) \ {w} : pc'[t] = pc[t]
        /\ LabelInv' /\ SingletonInv'
    <3> HIDE DEF singleton, pool, clients, workers
    <3>1. pc[w] # "off" /\ Goto(w, label)
      BY <1>1
    <3> QED
      BY <2>1, <3>1, WorkerMoved
  <2>3. pc[w] \in {"wait", "relock"} <=> label \in {"wait", "relock"}
    BY <1>1
  <2> QED
    BY <2>2, <2>3, SleepersFinite DEF One
<1>3. UNCHANGED <<isRunning, sleepNum, taskQueue, task>>
  OBVIOUS
<1>4. TypeOK'
  BY <1>0, <1>1, <1>2 DEF TypeOK, WorkerLabels, ClientLabels
<1>5. MutexInv'
  BY <1>0, <1>1, <1>2 DEF MutexInv, At
<1>6. (QuitInv /\ TaskInv /\ StopReachesSleepers)'
  BY <1>1, <1>2, <1>3 DEF IInv, QuitInv, TaskInv, StopReachesSleepers, At
<1>7. SleepNumCounts'
  BY <1>2, <1>3 DEF IInv, SleepNumCounts, Sleepers
<1>8. WorkKeepsAWorkerAwake'
  BY <1>1, <1>2, <1>3 DEF IInv, WorkKeepsAWorkerAwake, At, Queued
<1> QED
  BY <1>2, <1>4, <1>5, <1>6, <1>7, <1>8 DEF IInv

(* Take leaves the worker awake, with a task, and Run comes back for more. *)
LEMMA TakeRunInv ==
  ASSUME IInv, NEW w \in Workers, Take(w) \/ Run(w)
  PROVE  IInv'
<1> USE ThreadsAssumption
<1> USE DEF singleton, pool, clients, workers
<1>0. TypeOK /\ MutexInv /\ TaskInv
  BY DEF IInv
<1>1. PICK label \in {"run", "lock"} :
        Goto(w, label) /\ pc[w] \in {"check", "run"} /\ mutex' = mutex \ {w}
  BY <1>0 DEF Take, Run, MutexInv, At
<1>2. /\ pc' \in [Workers \cup Clients -> WorkerLabels \cup ClientLabels]
      /\ pc'[w] = label
      /\ \A t \in (Workers \cup Clients) \ {w} : pc'[t] = pc[t]
      /\ LabelInv' /\ SingletonInv'
      /\ Cardinality(Sleepers') = Cardinality(Sleepers)
  <2>1. label \in WorkerLabels /\ label # "off" /\ UNCHANGED singleton
    BY DEF Take, Run, WorkerLabels
  <2>2. /\ Cardinality(Sleepers') = Cardinality(Sleepers)
             + One(label \in {"wait", "relock"}) - One(pc[w] \in {"wait", "relock"})
        /\ pc' \in [Workers \cup Clients -> WorkerLabels \cup ClientLabels]
        /\ pc'[w] = label
        /\ \A t \in (Workers \cup Clients) \ {w} : pc'[t] = pc[t]
        /\ LabelInv' /\ SingletonInv'
    <3> HIDE DEF singleton, pool, clients, workers
    <3>1. pc[w] # "off" /\ Goto(w, label)
      BY <1>1
    <3> QED
      BY <2>1, <3>1, WorkerMoved
  <2>3. pc[w] \in {"wait", "relock"} <=> label \in {"wait", "relock"}
    BY <1>1
  <2> QED
    BY <2>2, <2>3, SleepersFinite DEF One
<1>3. UNCHANGED <<isRunning, sleepNum, created, sigMutex, arg, refused>>
  BY DEF Take, Run
<1>4. /\ taskQueue' \in Seq(Tasks) /\ finished' \subseteq Tasks
      /\ task' \in [Workers -> Tasks \cup {NoTask}]
      /\ TaskInv'
  <2>1. CASE Take(w)
    <3>1. Head(taskQueue) \in Tasks /\ taskQueue' \in Seq(Tasks)
      BY <1>0, <2>1 DEF Take, TypeOK
    <3> QED
      BY <1>0, <1>2, <2>1, <3>1 DEF Take, TypeOK, TaskInv
  <2>2. CASE Run(w)
    <3>1. task[w] \in Tasks
      BY <1>0, <2>2 DEF Run, TaskInv
    <3>2. pc'[w] # "run"
      BY <1>0, <2>2 DEF Run, Goto, TypeOK
    <3> QED
      BY <1>0, <1>2, <2>2, <3>1, <3>2 DEF Run, TypeOK, TaskInv
  <2> QED
    BY <2>1, <2>2
<1>5. TypeOK'
  BY <1>0, <1>1, <1>2, <1>3, <1>4 DEF TypeOK, WorkerLabels, ClientLabels
<1>6. MutexInv'
  BY <1>0, <1>1, <1>2 DEF MutexInv, At
<1>7. (QuitInv /\ StopReachesSleepers)'
  BY <1>1, <1>2, <1>3 DEF IInv, QuitInv, StopReachesSleepers, At
<1>8. SleepNumCounts'
  BY <1>2, <1>3 DEF IInv, SleepNumCounts, Sleepers
<1>9. WorkKeepsAWorkerAwake'
  BY <1>1, <1>2 DEF WorkKeepsAWorkerAwake, At
<1> QED
  BY <1>2, <1>4, <1>5, <1>6, <1>7, <1>8, <1>9 DEF IInv

(* A worker sleeps only on an empty queue of a running pool.               *)
LEMMA SleepInv ==
  ASSUME IInv, NEW w \in Workers, Sleep(w)
  PROVE  IInv'
<1> USE ThreadsAssumption DEF Sleep, singleton, clients, workers
<1>0. TypeOK /\ MutexInv
  BY DEF IInv
<1>1. /\ pc' \in [Workers \cup Clients -> WorkerLabels \cup ClientLabels]
      /\ pc'[w] = "wait"
      /\ \A t \in (Workers \cup Clients) \ {w} : pc'[t] = pc[t]
      /\ LabelInv' /\ SingletonInv'
      /\ Cardinality(Sleepers') = Cardinality(Sleepers) + 1
  <2>1. "wait" \in WorkerLabels /\ pc[w] = "check" /\ Goto(w, "wait")
    BY DEF WorkerLabels
  <2>2. UNCHANGED singleton
    OBVIOUS
  <2>3. /\ Cardinality(Sleepers') = Cardinality(Sleepers)
             + One("wait" \in {"wait", "relock"}) - One(pc[w] \in {"wait", "relock"})
        /\ pc' \in [Workers \cup Clients -> WorkerLabels \cup ClientLabels]
        /\ pc'[w] = "wait"
        /\ \A t \in (Workers \cup Clients) \ {w} : pc'[t] = pc[t]
        /\ LabelInv' /\ SingletonInv'
    <3> HIDE DEF Sleep, singleton, clients, workers
    <3>1. pc[w] # "off"
      BY <2>1
    <3> QED
      BY <2>1, <2>2, <3>1, WorkerMoved
  <2> QED
    BY <2>1, <2>3, SleepersFinite DEF One
<1>2. TypeOK'
  BY <1>0, <1>1 DEF TypeOK, WorkerLabels, ClientLabels
<1>3. MutexInv'
  BY <1>0, <1>1 DEF MutexInv, At
<1>4. (QuitInv /\ TaskInv /\ StopReachesSleepers)'
  BY <1>1 DEF IInv, QuitInv, TaskInv, StopReachesSleepers, At
<1>5. SleepNumCounts'
  BY <1>1 DEF IInv, SleepNumCounts, Sleepers
<1>6. WorkKeepsAWorkerAwake'
  BY DEF WorkKeepsAWorkerAwake, Queued
<1> QED
  BY <1>1, <1>2, <1>3, <1>4, <1>5, <1>6 DEF IInv

LEMMA AwakeInv ==
  ASSUME IInv, NEW w \in Workers, Awake(w)
  PROVE  IInv'
<1> USE ThreadsAssumption DEF Awake, singleton, clients, workers
<1>0. TypeOK /\ MutexInv
  BY DEF IInv
<1>1. /\ pc' \in [Workers \cup Clients -> WorkerLabels \cup ClientLabels]
      /\ pc'[w] = "check"
      /\ \A t \in (Workers \cup Clients) \ {w} : pc'[t] = pc[t]
      /\ LabelInv' /\ SingletonInv'
      /\ Cardinality(Sleepers') = Cardinality(Sleepers) - 1
  BY WorkerMoved, SleepersFinite DEF One, WorkerLabels
<1>2. SleepNumCounts'
  BY <1>1 DEF IInv, SleepNumCounts, Sleepers
<1>3. TypeOK'
  <2>1. Sleepers # {}
    BY DEF Sleepers, At
  <2>2. sleepNum > 0
    BY <2>1, SleepersFinite, FS_EmptySet DEF IInv, SleepNumCounts, Sleepers
  <2> QED
    BY <1>0, <1>1, <2>2 DEF TypeOK, WorkerLabels, ClientLabels
<1>4. MutexInv'
  BY <1>0, <1>1 DEF MutexInv, At
<1>5. (QuitInv /\ TaskInv /\ StopReachesSleepers)'
  BY <1>1 DEF IInv, QuitInv, TaskInv, StopReachesSleepers, At
<1>6. WorkKeepsAWorkerAwake'
  BY <1>1 DEF WorkKeepsAWorkerAwake, At
<1> QED
  BY <1>1, <1>2, <1>3, <1>4, <1>5, <1>6 DEF IInv
-----------------------------------------------------------------------------
LEMMA NextInv == IInv /\ [Next]_vars => IInv'
<1> SUFFICES ASSUME IInv, [Next]_vars PROVE IInv'
  OBVIOUS
<1>1. CASE \E c \in Clients : Client(c)
  BY <1>1, EnterInv, StartInv, StartThreadInv, LockQueueInv, PushInv, StopInv
  DEF Client, GetInstance
<1>2. CASE \E w \in Workers : Handler(w) \/ SpuriousWakeup(w)
  BY <1>2, LockHandlerInv, TakeRunInv, SleepInv, AwakeInv DEF Handler
<1>3. CASE UNCHANGED vars
  BY <1>3 DEF vars, singleton, pool, clients, workers, IInv, TypeOK, LabelInv,
              MutexInv, SingletonInv, QuitInv, TaskInv, SleepNumCounts,
              StopReachesSleepers, WorkKeepsAWorkerAwake, At, Queued
<1> QED
  BY <1>1, <1>2, <1>3 DEF Next

THEOREM Invariance == Spec => []IInv
BY InitInv, NextInv, PTL DEF Spec

(* Types, for any number of workers, clients and tasks; in particular the  *)
(* count of the sleepers never goes below zero.                            *)
THEOREM TypeCorrect == Spec => []TypeOK
BY Invariance, PTL DEF IInv

(* One thread at a time is in a critical section of the queue.             *)
LEMMA MutualExclusionState == IInv => MutualExclusion
<1> SUFFICES ASSUME IInv, NEW t \in Workers \cup Clients, NEW u \in Workers \cup Clients,
                    pc[t] \in {"check", "critical"}, pc[u] \in {"check", "critical"}
             PROVE  t = u
  BY DEF MutualExclusion
<1>1. t \in mutex /\ u \in mutex
  BY DEF IInv, MutexInv, At
<1> QED
  BY <1>1 DEF IInv, MutexInv

THEOREM CriticalSectionsExclude == Spec => []MutualExclusion
BY Invariance, MutualExclusionState, PTL

(* _sleepNum counts the sleepers exactly.                                  *)
THEOREM SleepersCounted == Spec => []SleepNumCounts
BY Invariance, PTL DEF IInv

(* No wakeup is lost: a queued task finds a worker that is awake.          *)
THEOREM NoLostWakeup == Spec => []WorkKeepsAWorkerAwake
BY Invariance, PTL DEF IInv

(* Nobody sleeps on a stopped pool.                                        *)
THEOREM StopWakesEveryone == Spec => []StopReachesSleepers
BY Invariance, PTL DEF IInv

(* The double-checked lock makes one pool.                                 *)
LEMMA OneInstanceState == IInv => OneInstance
BY DEF IInv, SingletonInv, OneInstance

THEOREM Singleton == Spec => []OneInstance
BY Invariance, OneInstanceState, PTL
-----------------------------------------------------------------------------
(* A task is in one place at a time: with one client, once in the queue,   *)
(* or with one worker.                                                     *)
OnePlace ==
  /\ \A i, j \in DOMAIN taskQueue : taskQueue[i] = taskQueue[j] => i = j
  /\ \A v, w \in Workers : task[v] = task[w] /\ task[v] # NoTask => v = w
  /\ \A c, d \in Clients : arg[c] = arg[d] /\ arg[c] # NoTask => c = d
  /\ Queued \cap Running = {}
  /\ Pushing \cap (Queued \cup Running \cup finished \cup refused) = {}

(* Nothing is left over from the last round of a worker or a client.       *)
CleanInv ==
  /\ \A w \in Workers : pc[w] # "run" => task[w] = NoTask
  /\ \A c \in Clients : pc[c] = "idle" => arg[c] = NoTask

(* Nobody starts a pool that runs.                                         *)
OpenInv == created = 0 \/ At(Clients, {"start"}) # {} => ~isRunning

PlaceInv == OnePlace /\ CleanInv /\ OpenInv

LEMMA InitPlace == Init => PlaceInv
<1> SUFFICES ASSUME Init PROVE PlaceInv
  OBVIOUS
<1>1. Queued = {} /\ Running = {} /\ Pushing = {}
  BY DEF Init, Queued, Running, Pushing
<1> QED
  BY <1>1 DEF Init, PlaceInv, OnePlace, CleanInv, OpenInv

(* A client takes a task that is nowhere yet.                              *)
LEMMA EnterPlace ==
  ASSUME IInv, PlaceInv, NEW c \in Clients, EnterGetInstance(c)
  PROVE  PlaceInv'
<1> USE DEF EnterGetInstance, singleton, pool, workers, Goto
<1>0. TypeOK /\ OnePlace /\ CleanInv /\ OpenInv
  BY DEF IInv, PlaceInv
<1>1. /\ UNCHANGED <<created, isRunning, taskQueue, task, finished, refused>>
      /\ Queued' = Queued /\ Running' = Running
  BY DEF Queued, Running
<1>2. /\ \A t \in (Workers \cup Clients) \ {c} : pc'[t] = pc[t]
      /\ pc'[c] \in {"sigLock", "got"}
  BY <1>0 DEF TypeOK
<1>3. CASE UNCHANGED arg
  <2>1. OnePlace'
    BY <1>0, <1>1, <1>3 DEF OnePlace, Pushing
  <2> QED
    BY <1>0, <1>1, <1>2, <1>3, <2>1, ThreadsAssumption DEF PlaceInv, CleanInv, OpenInv, At
<1>4. ASSUME NEW t \in Unpushed, arg' = [arg EXCEPT ![c] = t]
      PROVE  PlaceInv'
  <2>1. /\ t \notin Queued \cup Running \cup finished \cup refused
        /\ \A d \in Clients : arg[d] # t
    BY <1>4, NoTaskAssumption DEF Unpushed, Pushing
  <2>2. Pushing' \subseteq Pushing \cup {t}
    BY <1>0, <1>4 DEF Pushing, TypeOK
  <2>3. OnePlace'
    BY <1>0, <1>1, <1>4, <2>1, <2>2 DEF OnePlace, TypeOK
  <2>4. CleanInv' /\ OpenInv'
    BY <1>0, <1>1, <1>2, <1>4, ThreadsAssumption DEF CleanInv, OpenInv, At, TypeOK
  <2> QED
    BY <2>3, <2>4 DEF PlaceInv
<1> QED
  BY <1>3, <1>4

(* The rest of GetInstance, the locks and the sleeps move no task.         *)
LEMMA OtherPlace ==
  ASSUME IInv, PlaceInv,
         \/ \E c \in Clients : \/ LockSingleton(c) \/ Recheck(c) \/ Start(c)
                               \/ StartThread(c) \/ LockQueue(c) \/ Stop(c)
         \/ \E w \in Workers : \/ LockHandler(w) \/ Sleep(w) \/ Awake(w) \/ Quit(w)
                               \/ SpuriousWakeup(w)
  PROVE  PlaceInv'
<1> USE ThreadsAssumption DEF singleton, pool, clients, workers, Goto
<1>0. TypeOK /\ OnePlace /\ CleanInv /\ OpenInv /\ SingletonInv /\ LabelInv
  BY DEF IInv, PlaceInv
<1>1. UNCHANGED <<taskQueue, task, arg, finished, refused>>
  BY DEF LockSingleton, Recheck, Start, StartThread, LockQueue, Stop, LockHandler, Sleep,
         Awake, Quit, SpuriousWakeup
<1>2. OnePlace'
  BY <1>0, <1>1 DEF OnePlace, Queued, Running, Pushing
<1> DEFINE NoneArrives ==
      /\ \A w \in Workers : pc'[w] # "run" <=> pc[w] # "run"
      /\ \A c \in Clients : pc'[c] = "idle" => pc[c] = "idle"
<1>3. NoneArrives
  <2>1. ASSUME NEW c \in Clients,
               \/ LockSingleton(c) \/ Recheck(c) \/ Start(c) \/ LockQueue(c)
        PROVE  NoneArrives
    BY <1>0, <2>1 DEF LockSingleton, Recheck, Start, LockQueue, TypeOK
  <2>2. ASSUME NEW c \in Clients, StartThread(c) PROVE NoneArrives
    BY <1>0, <2>2 DEF StartThread, TypeOK, At
  <2>3. ASSUME NEW c \in Clients, Stop(c) PROVE NoneArrives
    BY <1>0, <2>3 DEF Stop, WakeupAll, TypeOK, At
  <2>4. ASSUME NEW w \in Workers,
               LockHandler(w) \/ Sleep(w) \/ Awake(w) \/ Quit(w) \/ SpuriousWakeup(w)
        PROVE  NoneArrives
    BY <1>0, <2>4 DEF LockHandler, Sleep, Awake, Quit, SpuriousWakeup, TypeOK
  <2> QED
    BY <2>1, <2>2, <2>3, <2>4
<1>4. CleanInv'
  BY <1>0, <1>1, <1>3 DEF CleanInv
<1>5. OpenInv'
  <2>1. ASSUME NEW c \in Clients, LockSingleton(c) \/ LockQueue(c) PROVE OpenInv'
    BY <1>0, <2>1 DEF LockSingleton, LockQueue, OpenInv, At, TypeOK
  <2>2. ASSUME NEW c \in Clients, Recheck(c) PROVE OpenInv'
    <3>1. At(Clients, {"start"}) = {}
      BY <1>0, <2>2 DEF Recheck, SingletonInv, At
    <3>2. created = 0 => ~isRunning
      BY <1>0 DEF OpenInv
    <3> QED
      BY <1>0, <2>2, <3>1, <3>2 DEF Recheck, OpenInv, At, TypeOK
  <2>3. ASSUME NEW c \in Clients, Start(c) PROVE OpenInv'
    <3>1. \A d \in Clients : pc[d] = "start" => d = c
      BY <1>0, <2>3 DEF Start, SingletonInv, At
    <3>2. created # 0
      BY <1>0, <2>3 DEF Start, SingletonInv, At
    <3> QED
      BY <1>0, <2>3, <3>1, <3>2 DEF Start, OpenInv, At, TypeOK
  <2>4. ASSUME NEW c \in Clients, StartThread(c) PROVE OpenInv'
    BY <1>0, <2>4 DEF StartThread, OpenInv, At, TypeOK
  <2>5. ASSUME NEW c \in Clients, Stop(c) PROVE OpenInv'
    BY <2>5 DEF Stop, OpenInv
  <2>6. ASSUME NEW w \in Workers,
               LockHandler(w) \/ Sleep(w) \/ Awake(w) \/ Quit(w) \/ SpuriousWakeup(w)
        PROVE  OpenInv'
    BY <1>0, <2>6 DEF LockHandler, Sleep, Awake, Quit, SpuriousWakeup, OpenInv, At, TypeOK
  <2> QED
    BY <2>1, <2>2, <2>3, <2>4, <2>5, <2>6
<1> QED
  BY <1>2, <1>4, <1>5 DEF PlaceInv

LEMMA PushPlace ==
  ASSUME IInv, PlaceInv, NEW c \in Clients, Push(c)
  PROVE  /\ PlaceInv'
         /\ arg[c] \in Tasks \ (Queued \cup Running \cup finished \cup refused)
<1> USE ThreadsAssumption DEF Push, singleton, workers, Goto
<1>0. TypeOK /\ OnePlace /\ CleanInv /\ OpenInv
  BY DEF IInv, PlaceInv
<1>1. arg[c] \in Pushing /\ arg[c] \in Tasks
  BY <1>0 DEF Pushing, TypeOK
<1>2. Running' = Running /\ UNCHANGED <<created, isRunning, task, finished>>
  BY DEF Running
<1>3. /\ \A d \in Clients \ {c} : arg'[d] = arg[d]
      /\ arg'[c] = NoTask
      /\ Pushing' = Pushing \ {arg[c]}
  <2>1. /\ \A d \in Clients \ {c} : arg'[d] = arg[d]
        /\ arg'[c] = NoTask
    BY <1>0 DEF TypeOK
  <2> QED
    BY <1>0, <2>1 DEF Pushing, OnePlace
<1>4. arg[c] \notin Queued \cup Running \cup finished \cup refused
  BY <1>0, <1>1 DEF OnePlace
<1>5. OnePlace'
  <2>1. CASE isRunning
    <3>1. /\ taskQueue' = Append(taskQueue, arg[c]) /\ taskQueue \in Seq(Tasks)
          /\ refused' = refused
      BY <1>0, <2>1 DEF TypeOK
    <3>2. /\ DOMAIN taskQueue' = 1 .. Len(taskQueue) + 1
          /\ \A i \in DOMAIN taskQueue : taskQueue'[i] = taskQueue[i]
          /\ DOMAIN taskQueue = 1 .. Len(taskQueue) /\ Len(taskQueue) \in Nat
          /\ taskQueue'[Len(taskQueue) + 1] = arg[c]
      BY <1>1, <3>1
    <3>3. Queued' = Queued \cup {arg[c]}
      BY <3>2 DEF Queued
    <3>4. \A i \in DOMAIN taskQueue : taskQueue[i] # arg[c]
      BY <1>4 DEF Queued
    <3>5. \A i, j \in DOMAIN taskQueue' : taskQueue'[i] = taskQueue'[j] => i = j
      <4> SUFFICES ASSUME NEW i \in DOMAIN taskQueue', NEW j \in DOMAIN taskQueue',
                          taskQueue'[i] = taskQueue'[j]
                   PROVE  i = j
        OBVIOUS
      <4>1. CASE i \in DOMAIN taskQueue /\ j \in DOMAIN taskQueue
        BY <1>0, <3>2, <4>1 DEF OnePlace
      <4>2. CASE i \notin DOMAIN taskQueue \/ j \notin DOMAIN taskQueue
        BY <3>2, <3>4, <4>2
      <4> QED
        BY <4>1, <4>2
    <3> QED
      BY <1>0, <1>2, <1>3, <1>4, <3>1, <3>3, <3>5 DEF OnePlace
  <2>2. CASE ~isRunning
    <3>1. refused' = refused \cup {arg[c]} /\ UNCHANGED taskQueue /\ Queued' = Queued
      BY <2>2 DEF Queued
    <3> QED
      BY <1>0, <1>2, <1>3, <1>4, <3>1 DEF OnePlace
  <2> QED
    BY <2>1, <2>2
<1>6. /\ \A w \in Workers : pc'[w] # "run" <=> pc[w] # "run"
      /\ \A d \in Clients \ {c} : pc'[d] = pc[d]
      /\ pc'[c] = "idle"
  BY <1>0 DEF Wakeup, At, TypeOK
<1>7. CleanInv' /\ OpenInv'
  BY <1>0, <1>2, <1>3, <1>6 DEF CleanInv, OpenInv, At
<1> QED
  BY <1>1, <1>4, <1>5, <1>7 DEF PlaceInv

LEMMA TakePlace ==
  ASSUME IInv, PlaceInv, NEW w \in Workers, Take(w)
  PROVE  PlaceInv' /\ Running' = Running \cup {Head(taskQueue)} /\ task[w] = NoTask
<1> USE ThreadsAssumption, NoTaskAssumption DEF Take, singleton, clients, Goto
<1>0. TypeOK /\ OnePlace /\ CleanInv /\ OpenInv
  BY DEF IInv, PlaceInv
<1>1. task[w] = NoTask
  BY <1>0 DEF CleanInv
<1>2. /\ taskQueue \in Seq(Tasks) /\ taskQueue # <<>>
      /\ DOMAIN taskQueue = 1 .. Len(taskQueue) /\ Len(taskQueue) \in Nat \ {0}
      /\ Head(taskQueue) = taskQueue[1] /\ Head(taskQueue) \in Tasks
      /\ DOMAIN taskQueue' = 1 .. Len(taskQueue) - 1
      /\ \A i \in 1 .. Len(taskQueue) - 1 : taskQueue'[i] = taskQueue[i + 1]
  BY <1>0 DEF TypeOK
<1>3. /\ Head(taskQueue) \in Queued
      /\ Queued' \subseteq Queued /\ Head(taskQueue) \notin Queued'
  <2>1. ASSUME NEW i \in DOMAIN taskQueue'
        PROVE  taskQueue'[i] \in Queued /\ taskQueue'[i] # Head(taskQueue)
    <3>1. i + 1 \in DOMAIN taskQueue /\ 1 \in DOMAIN taskQueue /\ i + 1 # 1
      BY <1>2, <2>1
    <3> QED
      BY <1>0, <1>2, <2>1, <3>1 DEF Queued, OnePlace
  <2> QED
    BY <1>2, <2>1 DEF Queued
<1>4. /\ \A v \in Workers \ {w} : task'[v] = task[v]
      /\ task'[w] = Head(taskQueue)
  BY <1>0 DEF TypeOK
<1>5. Running' = Running \cup {Head(taskQueue)}
  BY <1>1, <1>2, <1>4 DEF Running
<1>6. \A i, j \in DOMAIN taskQueue' : taskQueue'[i] = taskQueue'[j] => i = j
  <2> SUFFICES ASSUME NEW i \in DOMAIN taskQueue', NEW j \in DOMAIN taskQueue',
                      taskQueue'[i] = taskQueue'[j]
               PROVE  i = j
    OBVIOUS
  <2>1. i + 1 \in DOMAIN taskQueue /\ j + 1 \in DOMAIN taskQueue
    BY <1>2
  <2>2. i + 1 = j + 1
    BY <1>0, <1>2, <2>1 DEF OnePlace
  <2> QED
    BY <1>2, <2>2
<1>7. \A v \in Workers : task[v] # Head(taskQueue)
  BY <1>0, <1>2, <1>3 DEF OnePlace, Running
<1>8. Pushing' = Pushing /\ UNCHANGED <<arg, finished, refused, created, isRunning>>
  BY DEF Pushing
<1>9. OnePlace'
  <2>1. \A u, v \in Workers : task'[u] = task'[v] /\ task'[u] # NoTask => u = v
    BY <1>0, <1>4, <1>7 DEF OnePlace
  <2>2. Queued' \cap Running' = {}
    BY <1>0, <1>3, <1>5 DEF OnePlace
  <2>3. (Pushing \cap (Queued \cup Running \cup finished \cup refused))' = {}
    BY <1>0, <1>3, <1>5, <1>8 DEF OnePlace
  <2>4. \A c, d \in Clients : arg'[c] = arg'[d] /\ arg'[c] # NoTask => c = d
    BY <1>0, <1>8 DEF OnePlace
  <2> QED
    BY <1>6, <2>1, <2>2, <2>3, <2>4 DEF OnePlace
<1>10. CleanInv' /\ OpenInv'
  BY <1>0, <1>4, <1>8 DEF CleanInv, OpenInv, At, TypeOK
<1> QED
  BY <1>1, <1>5, <1>9, <1>10 DEF PlaceInv

LEMMA RunPlace ==
  ASSUME IInv, PlaceInv, NEW w \in Workers, Run(w)
  PROVE  /\ PlaceInv' /\ task[w] \in Running /\ task[w] \in Tasks
         /\ Running' = Running \ {task[w]}
<1> USE ThreadsAssumption, NoTaskAssumption DEF Run, singleton, pool, clients, Goto
<1>0. TypeOK /\ OnePlace /\ CleanInv /\ OpenInv /\ TaskInv
  BY DEF IInv, PlaceInv
<1>1. task[w] \in Tasks /\ task[w] \in Running
  BY <1>0 DEF TaskInv, Running
<1>2. /\ \A v \in Workers \ {w} : task'[v] = task[v]
      /\ task'[w] = NoTask
  BY <1>0 DEF TypeOK
<1>3. Running' = Running \ {task[w]}
  BY <1>0, <1>1, <1>2 DEF Running, OnePlace
<1>4. /\ UNCHANGED <<taskQueue, arg, refused, created, isRunning>>
      /\ Queued' = Queued /\ Pushing' = Pushing
  BY DEF Queued, Pushing
<1>5. OnePlace'
  BY <1>0, <1>1, <1>2, <1>3, <1>4 DEF OnePlace
<1>6. CleanInv' /\ OpenInv'
  BY <1>0, <1>2, <1>4 DEF CleanInv, OpenInv, At, TypeOK
<1> QED
  BY <1>1, <1>3, <1>5, <1>6 DEF PlaceInv

LEMMA NextPlace == IInv /\ PlaceInv /\ [Next]_vars => PlaceInv'
<1> SUFFICES ASSUME IInv, PlaceInv, [Next]_vars PROVE PlaceInv'
  OBVIOUS
<1>1. CASE \E c \in Clients : Client(c)
  BY <1>1, EnterPlace, OtherPlace, PushPlace DEF Client, GetInstance
<1>2. CASE \E w \in Workers : Handler(w) \/ SpuriousWakeup(w)
  BY <1>2, OtherPlace, TakePlace, RunPlace DEF Handler
<1>3. CASE UNCHANGED vars
  BY <1>3 DEF vars, singleton, pool, clients, workers, PlaceInv, OnePlace, CleanInv,
              OpenInv, Queued, Running, Pushing, At
<1> QED
  BY <1>1, <1>2, <1>3 DEF Next

LEMMA PlaceInvariant == Spec => []PlaceInv
BY InitPlace, NextPlace, Invariance, PTL DEF Spec
-----------------------------------------------------------------------------
(* While a worker looks at the queue, fewer tasks run than there are       *)
(* workers.                                                                *)
LEMMA RoomForOne ==
  ASSUME NEW w \in Workers, task[w] = NoTask
  PROVE  Cardinality(Running) < Cardinality(Workers)
<1> USE ThreadsAssumption
<1> DEFINE others == Workers \ {w}
<1>1. /\ IsFiniteSet(others) /\ Cardinality(others) = Cardinality(Workers) - 1
      /\ Cardinality(Workers) \in Nat
  BY FS_RemoveElement, FS_CardinalityType
<1>2. /\ IsFiniteSet({task[v] : v \in others})
      /\ Cardinality({task[v] : v \in others}) <= Cardinality(others)
  <2> DEFINE f == [v \in others |-> task[v]]
  <2>1. f \in Surjection(others, {task[v] : v \in others})
    BY DEF Surjection
  <2> QED
    BY <1>1, <2>1, FS_Surjection
<1>3. Running \subseteq {task[v] : v \in others}
  BY DEF Running
<1>4. /\ Cardinality(Running) <= Cardinality({task[v] : v \in others})
      /\ Cardinality(Running) \in Nat /\ Cardinality({task[v] : v \in others}) \in Nat
      /\ Cardinality(others) \in Nat
  BY <1>1, <1>2, <1>3, FS_Subset, FS_CardinalityType
<1> QED
  BY <1>1, <1>2, <1>4

(* Every step of the pool is one of TaskPool or changes nothing that the   *)
(* clients depend on.                                                      *)
LEMMA StepRefines ==
  IInv /\ PlaceInv /\ [Next]_vars => [Abstract!Next]_(Abstract!vars)
<1> DEFINE Same == UNCHANGED <<isRunning, taskQueue, Running, finished, refused>>
<1> SUFFICES ASSUME IInv, PlaceInv, [Next]_vars PROVE Abstract!Next \/ Same
  BY DEF Abstract!vars
<1> USE DEF singleton, pool, clients, workers
<1>1. ASSUME NEW c \in Clients,
             \/ EnterGetInstance(c) \/ LockSingleton(c) \/ Recheck(c)
             \/ StartThread(c) \/ LockQueue(c)
      PROVE  Same
  BY <1>1 DEF EnterGetInstance, LockSingleton, Recheck, StartThread, LockQueue, Running
<1>2. ASSUME NEW c \in Clients, Start(c) PROVE Abstract!Next
  <2>1. ~isRunning
    BY <1>2 DEF Start, PlaceInv, OpenInv, At
  <2>2. Abstract!Open
    BY <1>2, <2>1 DEF Start, Running, Abstract!Open
  <2> QED
    BY <2>2 DEF Abstract!Next
<1>3. ASSUME NEW c \in Clients, Push(c) PROVE Abstract!Next
  <2>1. arg[c] \in Tasks /\ arg[c] \notin Abstract!Seen
    BY <1>3, PushPlace DEF Abstract!Seen, Queued
  <2>2. Abstract!Accept(arg[c]) \/ Abstract!Refuse(arg[c])
    BY <1>3, <2>1 DEF Push, Running, Abstract!Accept, Abstract!Refuse
  <2> QED
    BY <2>1, <2>2 DEF Abstract!Next
<1>4. ASSUME NEW c \in Clients, Stop(c) PROVE Abstract!Next \/ Same
  <2>1. isRunning \in BOOLEAN
    BY DEF IInv, TypeOK
  <2>2. CASE isRunning
    BY <1>4, <2>2 DEF Stop, Running, Abstract!Close, Abstract!Next
  <2>3. CASE ~isRunning
    BY <1>4, <2>1, <2>3 DEF Stop, Running
  <2> QED
    BY <2>2, <2>3
<1>5. ASSUME NEW w \in Workers, Take(w) PROVE Abstract!Next
  <2>1. Running' = Running \cup {Head(taskQueue)} /\ task[w] = NoTask
    BY <1>5, TakePlace
  <2>2. Cardinality(Running) < Cardinality(Workers)
    BY <2>1, RoomForOne
  <2>3. /\ taskQueue # <<>> /\ taskQueue' = Tail(taskQueue)
        /\ UNCHANGED <<isRunning, finished, refused>>
    BY <1>5 DEF Take
  <2>4. Abstract!Cardinality(Running) = Cardinality(Running)
    BY DEF Abstract!Cardinality, Cardinality
  <2>5. Abstract!Begin
    BY <2>1, <2>2, <2>3, <2>4 DEF Abstract!Begin
  <2> QED
    BY <2>5 DEF Abstract!Next
<1>6. ASSUME NEW w \in Workers, Run(w) PROVE Abstract!Next
  <2>1. Abstract!Finish(task[w]) /\ task[w] \in Tasks
    BY <1>6, RunPlace DEF Run, Abstract!Finish
  <2> QED
    BY <2>1 DEF Abstract!Next
<1>7. ASSUME NEW w \in Workers,
             LockHandler(w) \/ Sleep(w) \/ Awake(w) \/ Quit(w) \/ SpuriousWakeup(w)
      PROVE  Same
  BY <1>7 DEF LockHandler, Sleep, Awake, Quit, SpuriousWakeup, Running
<1>8. CASE UNCHANGED vars
  BY <1>8 DEF vars, Running
<1> QED
  BY <1>1, <1>2, <1>3, <1>4, <1>5, <1>6, <1>7, <1>8
  DEF Next, Client, GetInstance, Handler

(* The pool keeps what TaskPool promises, and what the models of the       *)
(* servers that use it rest on: every accepted task is started once, in    *)
(* the order of acceptance, and no more run at once than there are workers. *)
THEOREM Refinement == Spec => RefinesTaskPool
<1>1. Init => Abstract!Init
  BY DEF Init, Running, Abstract!Init
<1> QED
  BY <1>1, StepRefines, Invariance, PlaceInvariant, PTL
  DEF Spec, RefinesTaskPool, Abstract!Spec
=============================================================================
