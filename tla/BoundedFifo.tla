---------------------------- MODULE BoundedFifo ----------------------------
(* What both producer/consumer containers of the repository promise their  *)
(* callers: a FIFO of at most Capacity items, where each item handed to    *)
(* Push is inserted once and each Pop returns the oldest item.             *)
EXTENDS Naturals, Sequences

CONSTANTS Producers, Consumers, Items, NoItem, Capacity

VARIABLES
  queue,   \* the stored items, oldest first
  arg,     \* arg[p]: the item of p's pending Push, NoItem when there is none
  out      \* out[c]: the item c's last Pop stored through its out parameter

vars == <<queue, arg, out>>

Init ==
  /\ queue = <<>>
  /\ arg = [p \in Producers |-> NoItem]
  /\ out = [c \in Consumers |-> NoItem]

CallPush(p) ==
  /\ arg[p] = NoItem
  /\ \E item \in Items : arg' = [arg EXCEPT ![p] = item]
  /\ UNCHANGED <<queue, out>>

Insert(p) ==
  /\ arg[p] # NoItem
  /\ Len(queue) < Capacity
  /\ queue' = Append(queue, arg[p])
  /\ arg' = [arg EXCEPT ![p] = NoItem]
  /\ UNCHANGED out

Remove(c) ==
  /\ queue # <<>>
  /\ out' = [out EXCEPT ![c] = Head(queue)]
  /\ queue' = Tail(queue)
  /\ UNCHANGED arg

Next ==
  \/ \E p \in Producers : CallPush(p) \/ Insert(p)
  \/ \E c \in Consumers : Remove(c)

Spec == Init /\ [][Next]_vars
=============================================================================
