----------------------------- MODULE MCThreads ------------------------------
(* Small instances of the programs that share data between the threads of  *)
(* one process, one of them in a behaviour. A queue of two places: both    *)
(* sides block, and the order of two items can be told.                    *)
EXTENDS BlockQueue, FiniteSets

CONSTANTS
  First, Programs,
  Total,                             \* how many tickets there are
  Seconds, MaxClock, MaxPval,        \* see LogWriter and ThreadDemo
  Words, MaxTyped, MaxMail, MaxEmpty \* see ChatClient

ASSUME FiniteAssumption == IsFiniteSet(Threads) /\ First \in Threads
ASSUME CountsAssumption == Total \in Nat /\ Seconds \in Nat \ {0} /\ MaxClock \in Nat
ASSUME MainAssumption == "main" \notin Threads

VARIABLES
  program,
  seller, owner, tickets, shown, mutexLives, intact, sale,
  waiter, gmutex,
  clock, mode, static, writer, now, stamp, lock, rivals, outs,
  test, runner, detached, cancelled, main, results, gPval, cnt, ret, running,
  chatter, recvr, sender, typed, input, sent, unseen, arrived, screen, socketOpen

(* All threads but one, in the order main creates them in; which order it  *)
(* is does not matter.                                                     *)
Three == Threads \ {First}
Listed ==
  CHOOSE s \in [1 .. Cardinality(Three) -> Three] : \A t \in Three : \E i \in DOMAIN s : s[i] = t

Tickets == INSTANCE Tickets WITH Sellers <- Three, Order <- Listed, main <- sale
Cond == INSTANCE CondDemo WITH Waiters <- Three
Log == INSTANCE LogWriter WITH Writers <- Producers
Demo == INSTANCE ThreadDemo WITH Runners <- Three, Line <- Listed
Chat == INSTANCE ChatClient
-----------------------------------------------------------------------------
ticketVars == <<seller, owner, tickets, shown, mutexLives, intact, sale>>
condVars == <<waiter, gmutex>>
logVars == <<clock, mode, static, writer, now, stamp, lock, rivals, outs>>
demoVars == <<test, runner, detached, cancelled, main, results, gPval, cnt, ret, running>>
chatVars == <<chatter, recvr, sender, typed, input, sent, unseen, arrived, screen, socketOpen>>
allVars == <<program, vars, ticketVars, condVars, logVars, demoVars, chatVars>>

ThreadsInit ==
  /\ program \in Programs
  /\ Init /\ Tickets!Init /\ Cond!Init /\ Log!Init /\ Demo!Init /\ Chat!Init
  /\ program # "demo" => test = "test2"

Only(name, others, A) == program = name /\ UNCHANGED <<program, others, chatVars>> /\ A
InQueue(A) == Only("queue", <<ticketVars, condVars, logVars, demoVars>>, A)
InTickets(A) == Only("tickets", <<vars, condVars, logVars, demoVars>>, A)
InCond(A) == Only("cond", <<vars, ticketVars, logVars, demoVars>>, A)
InLog(A) == Only("log", <<vars, ticketVars, condVars, demoVars>>, A)
InDemo(A) == Only("demo", <<vars, ticketVars, condVars, logVars>>, A)
InChat(A) ==
  /\ program = "chatclient" /\ UNCHANGED <<program, vars, ticketVars, condVars, logVars, demoVars>>
  /\ A

ThreadsNext ==
  InQueue(Next) \/ InTickets(Tickets!Next) \/ InCond(Cond!Next) \/ InLog(Log!Next)
  \/ InDemo(Demo!Next) \/ InChat(Chat!Next)

(* The threads of the queue as in BlockQueue. Those of the condition get   *)
(* the mutex in the end: each of the others holds it for a moment only,    *)
(* and main broadcasts once in a second. Spurious wakeups of the queue's   *)
(* threads come to an end.                                                 *)
ThreadsFair ==
  /\ \A p \in Producers : WF_allVars(InQueue(Produce(p)))
  /\ \A c \in Consumers : WF_allVars(InQueue(Consume(c)))
  /\ \A w \in Three : SF_allVars(InCond(Cond!Pass(w)))
  /\ WF_allVars(InCond(Cond!Broadcast))
  /\ <>[][~ InQueue(\E t \in Threads : SpuriousWakeup(t))]_allVars

ThreadsSpec == ThreadsInit /\ [][ThreadsNext]_allVars /\ ThreadsFair
-----------------------------------------------------------------------------
(* Push and Pop: items do not stay in the queue while consumers sleep, nor  *)
(* room while producers do; see BlockQueue.                                *)
NeitherSideSleepsOn == program = "queue" => NeitherSideStalls

(* Wait of testCond.cc: though a thread on its way to the wait misses the  *)
(* broadcast, each of them is woken and prints again and again.            *)
EveryWaiterWakes == \A w \in Three : []<>(program = "cond" => Cond!Prints(w))

(* The ticket sellers, the joins of thread.cc and the two threads of the   *)
(* chat client: see Tickets, ThreadDemo and ChatClient.                    *)
SoldAndJoined == Tickets!SoldOnce /\ Demo!JoinsRight /\ Chat!ChatGoesOn

(* The lines of the log: see LogWriter. *)
LinesTruthful == Log!LinesTruthful
=============================================================================
