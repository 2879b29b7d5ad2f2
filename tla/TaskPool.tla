------------------------------ MODULE TaskPool ------------------------------
(* What a thread pool promises the clients that push tasks to it: while it *)
(* is open it accepts every task, it starts the accepted tasks in the order *)
(* of their acceptance, each of them once, on a limited number of workers, *)
(* and closing it keeps what was accepted.                                 *)
EXTENDS Naturals, Sequences, FiniteSets

CONSTANTS Tasks, MaxRunning

VARIABLES
  open,      \* the pool accepts tasks
  pending,   \* accepted and not started, oldest first
  running,   \* started and not finished
  finished,
  refused

vars == <<open, pending, running, finished, refused>>

Init ==
  /\ open = FALSE
  /\ pending = <<>>
  /\ running = {} /\ finished = {} /\ refused = {}

Seen == {pending[i] : i \in DOMAIN pending} \cup running \cup finished \cup refused

Open == ~open /\ open' = TRUE /\ UNCHANGED <<pending, running, finished, refused>>
Close == open /\ open' = FALSE /\ UNCHANGED <<pending, running, finished, refused>>

Accept(task) ==
  /\ open /\ task \notin Seen
  /\ pending' = Append(pending, task)
  /\ UNCHANGED <<open, running, finished, refused>>

Refuse(task) ==
  /\ ~open /\ task \notin Seen
  /\ refused' = refused \cup {task}
  /\ UNCHANGED <<open, pending, running, finished>>

Begin ==
  /\ pending # <<>>
  /\ Cardinality(running) < MaxRunning
  /\ running' = running \cup {Head(pending)}
  /\ pending' = Tail(pending)
  /\ UNCHANGED <<open, finished, refused>>

Finish(task) ==
  /\ task \in running
  /\ running' = running \ {task}
  /\ finished' = finished \cup {task}
  /\ UNCHANGED <<open, pending, refused>>

Next ==
  \/ Open \/ Close \/ Begin
  \/ \E task \in Tasks : Accept(task) \/ Refuse(task) \/ Finish(task)

Spec == Init /\ [][Next]_vars
=============================================================================
