------------------------------ MODULE SigChld ------------------------------
(* OSCode/17.sig/testsig.cc, testSIGCHLD: the father forks its children,   *)
(* goes on with its own work, and reaps them in the handler of SIGCHLD. A  *)
(* pending signal is one bit, however many children have ended, and it is  *)
(* not delivered while its handler runs.                                   *)
EXTENDS Naturals, FiniteSets

CONSTANTS
  Sons,
  Immortal    \* the children that never end

ASSUME ChildrenAssumption == IsFiniteSet(Sons) /\ Immortal \subseteq Sons

VARIABLES
  life,      \* life[c]: "unborn", "running", "zombie" or "reaped"
  pending,   \* whether SIGCHLD is pending
  notice,    \* whether its handler runs
  turns      \* how often the father has gone round its fork loop

chldVars == <<life, pending, notice, turns>>

ChldInit ==
  /\ life = [c \in Sons |-> "unborn"]
  /\ pending = FALSE /\ notice = FALSE /\ turns = 0

In(state) == {c \in Sons : life[c] = state}

(* A failing fork is passed over. *)
Fork ==
  /\ ~notice /\ turns < Cardinality(Sons)
  /\ turns' = turns + 1
  /\ \/ \E c \in In("unborn") : life' = [life EXCEPT ![c] = "running"]
     \/ UNCHANGED life
  /\ UNCHANGED <<pending, notice>>

Exit(c) ==
  /\ life[c] = "running" /\ c \notin Immortal
  /\ life' = [life EXCEPT ![c] = "zombie"]
  /\ pending' = TRUE
  /\ UNCHANGED <<notice, turns>>

Deliver ==
  /\ pending /\ ~notice
  /\ pending' = FALSE /\ notice' = TRUE
  /\ UNCHANGED <<life, turns>>

(* MUTANT of Reap: one child is reaped per signal. *)
Reap_OnePerSignal(c) ==
  /\ notice /\ life[c] = "zombie"
  /\ life' = [life EXCEPT ![c] = "reaped"]
  /\ notice' = FALSE
  /\ UNCHANGED <<pending, turns>>

(* MUTANT of Reap: the handler discards the signals that came meanwhile.    *)
Reap_ClearsPending(c) ==
  /\ notice /\ life[c] = "zombie"
  /\ life' = [life EXCEPT ![c] = "reaped"]
  /\ pending' = FALSE
  /\ notice' = FALSE
  /\ UNCHANGED turns

(* waitpid returns a child that has ended, any of them. *)
Reap(c) ==
  /\ notice /\ life[c] = "zombie"
  /\ life' = [life EXCEPT ![c] = "reaped"]
  /\ UNCHANGED <<pending, notice, turns>>

(* waitpid returns 0, all the others still run, or -1, there are none. *)
Return ==
  /\ notice /\ In("zombie") = {}
  /\ notice' = FALSE
  /\ UNCHANGED <<life, pending, turns>>

Handler == Deliver \/ Return \/ \E c \in Sons : Reap(c)
ChldNext == Fork \/ Handler \/ \E c \in Sons : Exit(c)
ChldSpec == ChldInit /\ [][ChldNext]_chldVars
-----------------------------------------------------------------------------
TypeOK ==
  /\ life \in [Sons -> {"unborn", "running", "zombie", "reaped"}]
  /\ pending \in BOOLEAN /\ notice \in BOOLEAN
  /\ turns \in 0 .. Cardinality(Sons)

(* A zombie is never left without a handler that runs or is about to,      *)
(* though several children may end for one pending signal and one may end  *)
(* between the last waitpid and the return of the handler.                 *)
NoZombieForgotten == In("zombie") # {} => pending \/ notice
=============================================================================
