----------------------------- MODULE ThreadPool -----------------------------
(* OSCode/20.ThreadPool/threadPool.hpp (copied by the chat server and the  *)
(* echo server of NetCode): a singleton pool of workers that sleep on one  *)
(* condition variable while the task queue is empty. Clients reach it by   *)
(* GetInstance, which creates and starts it on first use, and call Push,   *)
(* and Stop when they are done. Shared fields are read and written inside  *)
(* the mutex, except for `_tp` and for `_isrunning = true` in Start.       *)
EXTENDS Integers, Sequences, FiniteSets

CONSTANTS
  Workers, Clients,
  Stoppers,          \* the clients that may call Stop as their last call
  Tasks, NoTask

ASSUME ThreadsAssumption ==
  /\ IsFiniteSet(Workers) /\ Workers # {}
  /\ Workers \cap Clients = {}
  /\ Stoppers \subseteq Clients
ASSUME NoTaskAssumption == NoTask \notin Tasks

VARIABLES
  created,      \* how many pools GetInstance has made; _tp # nullptr iff > 0
  sigMutex,     \* _sigmutex: the set of its holders
  isRunning,    \* _isrunning
  taskQueue,    \* _taskQueue
  sleepNum,     \* _sleepNum
  mutex,        \* _mutex: the set of its holders
  pc,           \* where each thread is; "off" is a worker not started yet
  arg,          \* arg[c]: the task c is pushing, NoTask when it calls Stop
  task,         \* task[w]: the task w took out of the queue
  finished,     \* the tasks that were executed
  refused       \* the tasks that Push discarded

singleton == <<created, sigMutex>>
pool == <<isRunning, taskQueue, sleepNum, mutex>>
clients == <<arg, refused>>
workers == <<task, finished>>
vars == <<singleton, pool, pc, clients, workers>>

Init ==
  /\ created = 0 /\ sigMutex = {}
  /\ isRunning = FALSE /\ taskQueue = <<>> /\ sleepNum = 0 /\ mutex = {}
  /\ pc = [t \in Workers \cup Clients |-> IF t \in Workers THEN "off" ELSE "idle"]
  /\ arg = [c \in Clients |-> NoTask] /\ refused = {}
  /\ task = [w \in Workers |-> NoTask] /\ finished = {}

Goto(t, label) == pc' = [pc EXCEPT ![t] = label]
At(S, labels) == {t \in S : pc[t] \in labels}
Queued == {taskQueue[i] : i \in DOMAIN taskQueue}
Running == {task[w] : w \in Workers} \ {NoTask}
Pushing == {arg[c] : c \in Clients} \ {NoTask}
Unpushed == Tasks \ (Queued \cup Running \cup Pushing \cup finished \cup refused)
-----------------------------------------------------------------------------
(* GetInstance, called by a client on its way to Push or Stop.             *)

(* The client has a task to push, or it is going to stop the pool; it      *)
(* reads _tp without a lock.                                               *)
EnterGetInstance(c) ==
  /\ pc[c] = "idle"
  /\ \/ \E t \in Unpushed : arg' = [arg EXCEPT ![c] = t]
     \/ c \in Stoppers /\ UNCHANGED arg
  /\ Goto(c, IF created = 0 THEN "sigLock" ELSE "got")
  /\ UNCHANGED <<singleton, pool, workers, refused>>

LockSingleton(c) ==
  /\ pc[c] = "sigLock"
  /\ sigMutex = {}
  /\ sigMutex' = {c}
  /\ Goto(c, "recheck")
  /\ UNCHANGED <<created, pool, clients, workers>>

(* MUTANT of Recheck: the test of _tp is not repeated inside the lock. *)
Recheck_Trusting(c) ==
  /\ pc[c] = "recheck"
  /\ created' = created + 1
  /\ Goto(c, "start")
  /\ UNCHANGED <<sigMutex, pool, clients, workers>>

(* The pool is visible to the other clients as soon as it is constructed,  *)
(* before Init and Start.                                                  *)
Recheck(c) ==
  /\ pc[c] = "recheck"
  /\ IF created = 0
     THEN created' = 1 /\ Goto(c, "start") /\ UNCHANGED sigMutex
     ELSE sigMutex' = sigMutex \ {c} /\ Goto(c, "got") /\ UNCHANGED created
  /\ UNCHANGED <<pool, clients, workers>>

Start(c) ==
  /\ pc[c] = "start"
  /\ isRunning' = TRUE
  /\ Goto(c, "spawn")
  /\ UNCHANGED <<singleton, taskQueue, sleepNum, mutex, clients, workers>>

(* Start runs the threads that Init made, and GetInstance unlocks.         *)
StartThread(c) ==
  /\ pc[c] = "spawn"
  /\ IF At(Workers, {"off"}) # {}
     THEN /\ \E w \in At(Workers, {"off"}) : Goto(w, "lock")
          /\ UNCHANGED sigMutex
     ELSE sigMutex' = sigMutex \ {c} /\ Goto(c, "got")
  /\ UNCHANGED <<created, pool, clients, workers>>
-----------------------------------------------------------------------------
(* Push and Stop.                                                          *)

LockQueue(c) ==
  /\ pc[c] = "got"
  /\ mutex = {}
  /\ mutex' = {c}
  /\ Goto(c, "critical")
  /\ UNCHANGED <<singleton, isRunning, taskQueue, sleepNum, clients, workers>>

(* MUTANT of Wakeup: the signal is left out. *)
Wakeup_None(c) == Goto(c, "idle")

(* pthread_cond_signal: one of the waiting workers, if there is any, goes  *)
(* on to get the mutex back; c is done with its call.                      *)
Wakeup(c) ==
  IF At(Workers, {"wait"}) = {}
  THEN Goto(c, "idle")
  ELSE \E w \in At(Workers, {"wait"}) :
         pc' = [pc EXCEPT ![w] = "relock", ![c] = "idle"]

(* MUTANT of Push: tasks are taken in the order last in, first out. *)
Push_Front(c) ==
  /\ pc[c] = "critical" /\ arg[c] # NoTask
  /\ IF isRunning
     THEN /\ taskQueue' = <<arg[c]>> \o taskQueue
          /\ IF sleepNum > 0 THEN Wakeup(c) ELSE Goto(c, "idle")
          /\ UNCHANGED refused
     ELSE /\ refused' = refused \cup {arg[c]}
          /\ Goto(c, "idle")
          /\ UNCHANGED taskQueue
  /\ mutex' = mutex \ {c}
  /\ arg' = [arg EXCEPT ![c] = NoTask]
  /\ UNCHANGED <<singleton, isRunning, sleepNum, workers>>

Push(c) ==
  /\ pc[c] = "critical" /\ arg[c] # NoTask
  /\ IF isRunning
     THEN /\ taskQueue' = Append(taskQueue, arg[c])
          /\ IF sleepNum > 0 THEN Wakeup(c) ELSE Goto(c, "idle")
          /\ UNCHANGED refused
     ELSE /\ refused' = refused \cup {arg[c]}
          /\ Goto(c, "idle")
          /\ UNCHANGED taskQueue
  /\ mutex' = mutex \ {c}
  /\ arg' = [arg EXCEPT ![c] = NoTask]
  /\ UNCHANGED <<singleton, isRunning, sleepNum, workers>>

(* MUTANT of WakeupAll: one sleeper is woken instead of all. *)
WakeupAll_One(c) ==
  LET sleepers == At(Workers, {"wait"}) IN
    IF sleepers = {} THEN Goto(c, "stopped")
    ELSE LET one == CHOOSE w \in sleepers : TRUE
         IN pc' = [pc EXCEPT ![one] = "relock", ![c] = "stopped"]

(* pthread_cond_broadcast; the client has called Stop and makes no more    *)
(* calls.                                                                  *)
WakeupAll(c) ==
  pc' = [t \in DOMAIN pc |-> IF t \in At(Workers, {"wait"}) THEN "relock"
                             ELSE IF t = c THEN "stopped" ELSE pc[t]]

Stop(c) ==
  /\ pc[c] = "critical" /\ arg[c] = NoTask
  /\ isRunning' = FALSE
  /\ WakeupAll(c)
  /\ mutex' = mutex \ {c}
  /\ UNCHANGED <<singleton, taskQueue, sleepNum, clients, workers>>
-----------------------------------------------------------------------------
(* Handler, the loop of a worker.                                          *)

LockHandler(w) ==
  /\ pc[w] = "lock"
  /\ mutex = {}
  /\ mutex' = {w}
  /\ Goto(w, "check")
  /\ UNCHANGED <<singleton, isRunning, taskQueue, sleepNum, clients, workers>>

Sleep(w) ==
  /\ pc[w] = "check" /\ taskQueue = <<>> /\ isRunning
  /\ sleepNum' = sleepNum + 1
  /\ mutex' = mutex \ {w}
  /\ Goto(w, "wait")
  /\ UNCHANGED <<singleton, isRunning, taskQueue, clients, workers>>

SpuriousWakeup(w) ==
  /\ pc[w] = "wait"
  /\ Goto(w, "relock")
  /\ UNCHANGED <<singleton, pool, clients, workers>>

Awake(w) ==
  /\ pc[w] = "relock"
  /\ mutex = {}
  /\ mutex' = {w}
  /\ sleepNum' = sleepNum - 1
  /\ Goto(w, "check")
  /\ UNCHANGED <<singleton, isRunning, taskQueue, clients, workers>>

(* MUTANT of Quit: a worker leaves as soon as the pool is stopped. *)
Quit_Early(w) ==
  /\ pc[w] = "check" /\ ~isRunning
  /\ mutex' = mutex \ {w}
  /\ Goto(w, "quit")
  /\ UNCHANGED <<singleton, isRunning, taskQueue, sleepNum, clients, workers>>

Quit(w) ==
  /\ pc[w] = "check" /\ taskQueue = <<>> /\ ~isRunning
  /\ mutex' = mutex \ {w}
  /\ Goto(w, "quit")
  /\ UNCHANGED <<singleton, isRunning, taskQueue, sleepNum, clients, workers>>

Take(w) ==
  /\ pc[w] = "check" /\ taskQueue # <<>>
  /\ task' = [task EXCEPT ![w] = Head(taskQueue)]
  /\ taskQueue' = Tail(taskQueue)
  /\ mutex' = mutex \ {w}
  /\ Goto(w, "run")
  /\ UNCHANGED <<singleton, isRunning, sleepNum, clients, finished>>

Run(w) ==
  /\ pc[w] = "run"
  /\ finished' = finished \cup {task[w]}
  /\ task' = [task EXCEPT ![w] = NoTask]
  /\ Goto(w, "lock")
  /\ UNCHANGED <<singleton, pool, clients>>
-----------------------------------------------------------------------------
GetInstance(c) ==
  EnterGetInstance(c) \/ LockSingleton(c) \/ Recheck(c) \/ Start(c) \/ StartThread(c)
Client(c) == GetInstance(c) \/ LockQueue(c) \/ Push(c) \/ Stop(c)
Handler(w) == LockHandler(w) \/ Sleep(w) \/ Awake(w) \/ Quit(w) \/ Take(w) \/ Run(w)

Next ==
  \/ \E c \in Clients : Client(c)
  \/ \E w \in Workers : Handler(w) \/ SpuriousWakeup(w)

Spec == Init /\ [][Next]_vars

(* Every thread keeps running and every task returns; spurious wakeups     *)
(* come to an end.                                                         *)
FairSpec ==
  /\ Spec
  /\ \A c \in Clients : WF_vars(Client(c))
  /\ \A w \in Workers : WF_vars(Handler(w))
  /\ <>[][~ \E w \in Workers : SpuriousWakeup(w)]_vars
-----------------------------------------------------------------------------
TypeOK ==
  /\ created \in Nat /\ sigMutex \subseteq Clients
  /\ isRunning \in BOOLEAN /\ taskQueue \in Seq(Tasks)
  /\ sleepNum \in Nat /\ mutex \subseteq Workers \cup Clients
  /\ pc \in [Workers \cup Clients ->
               {"off", "lock", "check", "wait", "relock", "run", "quit",
                "idle", "sigLock", "recheck", "start", "spawn", "got",
                "critical", "stopped"}]
  /\ arg \in [Clients -> Tasks \cup {NoTask}] /\ refused \subseteq Tasks
  /\ task \in [Workers -> Tasks \cup {NoTask}] /\ finished \subseteq Tasks

(* One thread at a time is between LockQueue and UnlockQueue, the worker   *)
(* that comes back from its wait included.                                 *)
MutualExclusion ==
  \A t, u \in Workers \cup Clients :
    {pc[t], pc[u]} \subseteq {"check", "critical"} => t = u

(* _sleepNum, which Push reads to decide whether to signal at all, counts  *)
(* the workers that wait or have been woken and not got the mutex back.    *)
SleepNumCounts == sleepNum = Cardinality(At(Workers, {"wait", "relock"}))

(* No lost wakeup: while a task is queued, a started worker is awake and   *)
(* will look at the queue, or one is still to be started.                  *)
WorkKeepsAWorkerAwake ==
  Queued # {} => At(Workers, {"lock", "check", "relock", "run", "off"}) # {}

(* Stop reaches every sleeper: none waits on a pool that is not running.   *)
StopReachesSleepers == ~isRunning => At(Workers, {"wait"}) = {}

(* However many clients race for the first GetInstance, one pool is made.  *)
OneInstance == created <= 1

(* Accepted tasks are executed once each, in order, and survive Stop.      *)
Abstract == INSTANCE TaskPool WITH
  open <- isRunning, pending <- taskQueue, running <- Running,
  MaxRunning <- Cardinality(Workers)
RefinesTaskPool == Abstract!Spec

(* Every task that is pushed is executed or refused, however soon after it *)
(* the pool is stopped.                                                    *)
EveryPushRuns == \A t \in Tasks : t \in Pushing ~> t \in finished \cup refused

(* Every worker quits once the pool is stopped and stays so: a Stop that   *)
(* comes before Start is undone by it.                                     *)
StopEndsWorkers ==
  created > 0 /\ [](~isRunning) ~> At(Workers, {"quit"}) = Workers

(* Push discards a task only when the pool is being closed: the reason     *)
(* threadPool.hpp:134 gives for the test of _isrunning.                    *)
RefusedOnlyWhenStopped == refused # {} => At(Clients, {"stopped"}) # {}
=============================================================================
