------------------------------- MODULE Tickets ------------------------------
(* OSCode/18.testThread/synAndmutex: threads of class Thread sell tickets  *)
(* under a mutex on the stack of main, which joins them one after the      *)
(* other and destroys it. Nobody looks whether a thread could be created.  *)
EXTENDS Naturals, Sequences

CONSTANTS Sellers, Order, Total    \* Order: the sellers, as in main's vector

VARIABLES
  seller,       \* what each thread does
  owner,        \* the threads that hold the mutex
  tickets,
  shown,        \* the ticket numbers printed
  main,         \* how many threads main has started and joined
  mutexLives,   \* the mutex is not destroyed
  intact        \* main has not crashed

ticketVars == <<seller, owner, tickets, shown, main, mutexLives, intact>>

Init ==
  /\ seller = [s \in Sellers |-> "none"]
  /\ owner = {} /\ tickets = Total /\ shown = <<>>
  /\ main = [started |-> 0, joined |-> 0]
  /\ mutexLives = TRUE /\ intact = TRUE

To(s, what) == seller' = [seller EXCEPT ![s] = what]
-----------------------------------------------------------------------------
(* Thread::Start; its result is not looked at. *)
Start ==
  /\ intact /\ main.started < Len(Order)
  /\ main' = [main EXCEPT !.started = @ + 1]
  /\ \E what \in {"loop", "failed"} : To(Order[main.started + 1], what)
  /\ UNCHANGED <<owner, tickets, shown, mutexLives, intact>>

(* Thread::Join; with no thread, _tid is whatever the memory held, and     *)
(* pthread_join may return an error or end the program.                    *)
Join ==
  LET s == Order[main.joined + 1] IN
  /\ intact /\ main.started = Len(Order) /\ main.joined < Len(Order)
  /\ seller[s] \in {"end", "failed"}
  /\ \/ main' = [main EXCEPT !.joined = @ + 1] /\ UNCHANGED intact
     \/ seller[s] = "failed" /\ intact' = FALSE /\ UNCHANGED main
  /\ UNCHANGED <<seller, owner, tickets, shown, mutexLives>>

DestroyMutex ==
  /\ intact /\ main.joined = Len(Order) /\ mutexLives' = FALSE
  /\ UNCHANGED <<seller, owner, tickets, shown, main, intact>>
-----------------------------------------------------------------------------
(* The LockGuard lives for one pass of the loop. *)
Lock(s) ==
  /\ intact /\ seller[s] = "loop" /\ owner = {}
  /\ owner' = {s} /\ To(s, "look")
  /\ UNCHANGED <<tickets, shown, main, mutexLives, intact>>

(* Without a ticket the loop, and with it the thread, ends. *)
SoldOut(s) ==
  /\ intact /\ seller[s] = "look" /\ tickets = 0
  /\ owner' = owner \ {s} /\ To(s, "end")
  /\ UNCHANGED <<tickets, shown, main, mutexLives, intact>>

(* MUTANT of Show: the guard ends before the ticket is sold. *)
Show_Unlocked(s) ==
  /\ intact /\ seller[s] = "look" /\ tickets > 0
  /\ shown' = Append(shown, tickets) /\ To(s, "sell") /\ owner' = owner \ {s}
  /\ UNCHANGED <<tickets, main, mutexLives, intact>>

(* The thread sleeps between the look and the sale. *)
Show(s) ==
  /\ intact /\ seller[s] = "look" /\ tickets > 0
  /\ shown' = Append(shown, tickets) /\ To(s, "sell")
  /\ UNCHANGED <<owner, tickets, main, mutexLives, intact>>

Sell(s) ==
  /\ intact /\ seller[s] = "sell" /\ tickets' = tickets - 1
  /\ owner' = owner \ {s} /\ To(s, "loop")
  /\ UNCHANGED <<shown, main, mutexLives, intact>>
-----------------------------------------------------------------------------
ScrambleTickets(s) == Lock(s) \/ SoldOut(s) \/ Show(s) \/ Sell(s)
Main == Start \/ Join \/ DestroyMutex
Next == Main \/ \E s \in Sellers : ScrambleTickets(s)
Spec == Init /\ [][Next]_ticketVars
-----------------------------------------------------------------------------
(* ScrambleTickets: every ticket is sold once, in the order of their       *)
(* numbers, none that is not there; and main destroys the mutex only when  *)
(* no thread can use it any more and all tickets are gone, if there was    *)
(* anyone to sell them.                                                    *)
SoldOnce ==
  /\ tickets \in 0 .. Total
  /\ \A i \in DOMAIN shown : shown[i] = Total - (i - 1)
  /\ ~mutexLives =>
       /\ \A s \in Sellers : seller[s] \in {"end", "failed"}
       /\ tickets = 0 \/ \A s \in Sellers : seller[s] = "failed"
=============================================================================
