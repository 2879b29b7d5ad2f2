------------------------------ MODULE CondDemo ------------------------------
(* OSCode/18.testThread/testCond: threads wait on a condition again and    *)
(* again, and main broadcasts every second without the mutex.              *)
EXTENDS Naturals

CONSTANTS Waiters

VARIABLES waiter, gmutex   \* what each thread does; who holds the mutex

condVars == <<waiter, gmutex>>

Init == waiter = [w \in Waiters |-> "out"] /\ gmutex = {}

Lock(w) ==
  /\ waiter[w] = "out" /\ gmutex = {} /\ gmutex' = {w}
  /\ waiter' = [waiter EXCEPT ![w] = "in"]
Wait(w) ==
  /\ waiter[w] = "in" /\ gmutex' = gmutex \ {w}
  /\ waiter' = [waiter EXCEPT ![w] = "waiting"]
Spurious(w) ==
  waiter[w] = "waiting" /\ waiter' = [waiter EXCEPT ![w] = "woken"] /\ UNCHANGED gmutex
(* pthread_cond_wait returns with the mutex. *)
Return(w) ==
  /\ waiter[w] = "woken" /\ gmutex = {} /\ gmutex' = {w}
  /\ waiter' = [waiter EXCEPT ![w] = "print"]
PrintLine(w) ==
  /\ waiter[w] = "print" /\ gmutex' = gmutex \ {w}
  /\ waiter' = [waiter EXCEPT ![w] = "out"]

Pass(w) == Lock(w) \/ Wait(w) \/ Return(w) \/ PrintLine(w)

(* MUTANT of Broadcast: it wakes one thread only, as the line before it    *)
(* would that is commented out.                                            *)
Broadcast_Signal ==
  IF \E w \in Waiters : waiter[w] = "waiting"
  THEN /\ \E w \in Waiters : waiter[w] = "waiting" /\ waiter' = [waiter EXCEPT ![w] = "woken"]
       /\ UNCHANGED gmutex
  ELSE UNCHANGED condVars

(* The threads that wait at this moment are woken; the others miss it. *)
Broadcast ==
  /\ waiter' = [w \in Waiters |-> IF waiter[w] = "waiting" THEN "woken" ELSE waiter[w]]
  /\ UNCHANGED gmutex

Next == Broadcast \/ \E w \in Waiters : Pass(w) \/ Spurious(w)
-----------------------------------------------------------------------------
(* Wait: though a thread that is on its way to the wait misses the         *)
(* broadcast, each of them prints again and again.                         *)
Prints(w) == waiter[w] = "print"
=============================================================================
