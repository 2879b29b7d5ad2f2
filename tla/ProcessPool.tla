---------------------------- MODULE ProcessPool ----------------------------
(* OSCode/14.ProcessPool: a parent forks as many children as argv[1] says, *)
(* sends them task codes over one pipe each, in turn, and reclaims them by *)
(* closing its end of each pipe and waiting for the child, which quits     *)
(* when it reads end of file. A pipe is at its end when NO process has its *)
(* write end open, and fork gives every child a copy of all the ends its   *)
(* parent has open.                                                        *)
EXTENDS Integers, Sequences, FiniteSets

CONSTANTS
  N,            \* the most children argv[1] asks for; child c reads pipe c
  Times,        \* how many tasks main sends, whatever argv[1] says
  ForkMayFail   \* whether fork may return -1, which the code does not handle

ASSUME NAssumption == N \in Nat \ {0}
ASSUME TimesAssumption == Times \in Nat
ASSUME ForkAssumption == ForkMayFail \in BOOLEAN

Parent == 0
Children == 1 .. N
Processes == Children \cup {Parent}

VARIABLES
  writers,   \* writers[k]: the processes that have the write end of pipe k
  readers,   \* readers[k]: those that have its read end
  pipe,      \* pipe[k]: the task codes in pipe k
  pc,        \* where each process is
  channels,  \* channels[k]: the pid stored in channel k, -1 after a failed fork
  next,      \* the channel ChooseChannel will choose
  count,     \* the tasks sent so far, which also name them
  chan,      \* the channel Reclaim is at
  sent,      \* sent[c]: the tasks written to channel c
  handled    \* handled[c]: the tasks child c has executed

ends == <<writers, readers>>
book == <<channels, next, count, chan, sent>>
vars == <<ends, pipe, pc, book, handled>>

Init ==
  /\ writers = [k \in Children |-> {}]
  /\ readers = [k \in Children |-> {}]
  /\ pipe = [k \in Children |-> <<>>]
  /\ pc = [q \in Processes |-> IF q = Parent THEN "create" ELSE "none"]
  /\ channels = <<>>
  /\ next = 1 /\ count = 0 /\ chan = 1
  /\ sent = [c \in Children |-> <<>>]
  /\ handled = [c \in Children |-> <<>>]

Goto(q, label) == pc' = [pc EXCEPT ![q] = label]
(* All ends a process has open are closed when it ends. *)
CloseAll(q) ==
  /\ writers' = [k \in Children |-> writers[k] \ {q}]
  /\ readers' = [k \in Children |-> readers[k] \ {q}]
-----------------------------------------------------------------------------
(* The parent.                                                             *)

(* pipe and fork: the child has both ends of the new pipe, and the write   *)
(* ends of the earlier channels. The parent closes its read end.           *)
CreateChannel ==
  LET c == Len(channels) + 1 IN
    /\ pc[Parent] = "create" /\ c <= N
    /\ writers' = [k \in Children |->
         IF k = c THEN {Parent, c}
         ELSE IF Parent \in writers[k] THEN writers[k] \cup {c} ELSE writers[k]]
    /\ readers' = [readers EXCEPT ![c] = {c}]
    /\ channels' = Append(channels, c)
    /\ Goto(c, "setup")
    /\ UNCHANGED <<pipe, next, count, chan, sent, handled>>

(* fork returns -1: the parent goes on with a channel nobody reads.        *)
CreateFails ==
  LET c == Len(channels) + 1 IN
    /\ ForkMayFail
    /\ pc[Parent] = "create" /\ c <= N
    /\ writers' = [writers EXCEPT ![c] = {Parent}]
    /\ channels' = Append(channels, -1)
    /\ UNCHANGED <<readers, pipe, pc, next, count, chan, sent, handled>>

(* There are as many channels as argv[1] says. *)
CreateDone ==
  /\ pc[Parent] = "create" /\ channels # <<>>
  /\ Goto(Parent, "send")
  /\ UNCHANGED <<ends, pipe, book, handled>>

ChooseChannel == next' = (next % Len(channels)) + 1

(* A write to a pipe without a reader kills the parent by SIGPIPE.         *)
SendTask ==
  /\ pc[Parent] = "send" /\ count < Times
  /\ ChooseChannel
  /\ count' = count + 1
  /\ IF readers[next] = {}
     THEN /\ Goto(Parent, "killed")
          /\ CloseAll(Parent)
          /\ UNCHANGED <<pipe, sent>>
     ELSE /\ pipe' = [pipe EXCEPT ![next] = Append(@, count + 1)]
          /\ sent' = [sent EXCEPT ![next] = Append(@, count + 1)]
          /\ UNCHANGED <<ends, pc>>
  /\ UNCHANGED <<channels, chan, handled>>

SendDone ==
  /\ pc[Parent] = "send" /\ count = Times
  /\ Goto(Parent, "close")
  /\ UNCHANGED <<ends, pipe, book, handled>>

CloseChannel ==
  /\ pc[Parent] = "close" /\ chan <= Len(channels)
  /\ writers' = [writers EXCEPT ![chan] = @ \ {Parent}]
  /\ Goto(Parent, "wait")
  /\ UNCHANGED <<readers, pipe, book, handled>>

(* waitpid(pid) returns when the child has ended, or at once when it is no *)
(* child any more; waitpid(-1) when any child has.                         *)
WaitChild ==
  LET pid == channels[chan]
      alive == {c \in Children : pc[c] \in {"setup", "work"}}
      zombies == {c \in Children : pc[c] = "exited"}
      awaited == IF pid = -1 THEN alive \cup zombies ELSE {pid} \cap (alive \cup zombies)
  IN
    /\ pc[Parent] = "wait"
    /\ \/ \E c \in awaited \cap zombies :
            pc' = [pc EXCEPT ![Parent] = "close", ![c] = "reaped"]
       \/ awaited = {} /\ Goto(Parent, "close")
    /\ chan' = chan + 1
    /\ UNCHANGED <<ends, pipe, channels, next, count, sent, handled>>

ParentExit ==
  /\ pc[Parent] = "close" /\ chan > Len(channels)
  /\ Goto(Parent, "exited")
  /\ CloseAll(Parent)
  /\ UNCHANGED <<pipe, book, handled>>
-----------------------------------------------------------------------------
(* Child c.                                                                *)

(* MUTANT of CloseWriteEnds: the write ends of the earlier channels stay   *)
(* open in the child.                                                      *)
CloseWriteEnds_OwnOnly(c) ==
  /\ pc[c] = "setup"
  /\ writers' = [writers EXCEPT ![c] = @ \ {c}]
  /\ Goto(c, "work")
  /\ UNCHANGED <<readers, pipe, book, handled>>

(* MUTANT of CloseWriteEnds: the child's own write end stays open in it. *)
CloseWriteEnds_KeepOwn(c) ==
  /\ pc[c] = "setup"
  /\ IF \E k \in 1 .. c - 1 : c \in writers[k]
     THEN /\ writers' = [k \in Children |-> IF k < c THEN writers[k] \ {c} ELSE writers[k]]
          /\ UNCHANGED pc
     ELSE Goto(c, "work") /\ UNCHANGED writers
  /\ UNCHANGED <<readers, pipe, book, handled>>

(* It closes the inherited write ends one after the other, in the order of *)
(* the channels, and its own last.                                         *)
CloseWriteEnds(c) ==
  /\ pc[c] = "setup"
  /\ \E k \in 1 .. c :
       /\ c \in writers[k] /\ \A j \in 1 .. k - 1 : c \notin writers[j]
       /\ writers' = [writers EXCEPT ![k] = @ \ {c}]
       /\ IF k = c THEN Goto(c, "work") ELSE UNCHANGED pc
  /\ UNCHANGED <<readers, pipe, book, handled>>

(* MUTANT of HandleTask: read takes as many as two task codes, of which    *)
(* only the first is executed.                                             *)
HandleTask_LargeBuffer(c) ==
  /\ pc[c] = "work" /\ pipe[c] # <<>>
  /\ handled' = [handled EXCEPT ![c] = Append(@, Head(pipe[c]))]
  /\ pipe' = [pipe EXCEPT ![c] = SubSeq(@, 3, Len(@))]
  /\ UNCHANGED <<ends, pc, book>>

(* doWork reads one task code and executes it.                             *)
HandleTask(c) ==
  /\ pc[c] = "work" /\ pipe[c] # <<>>
  /\ handled' = [handled EXCEPT ![c] = Append(@, Head(pipe[c]))]
  /\ pipe' = [pipe EXCEPT ![c] = Tail(@)]
  /\ UNCHANGED <<ends, pc, book>>

(* read returns 0: the pipe is empty and nobody can write to it.           *)
Quit(c) ==
  /\ pc[c] = "work" /\ pipe[c] = <<>> /\ writers[c] = {}
  /\ Goto(c, "exited")
  /\ CloseAll(c)
  /\ UNCHANGED <<pipe, book, handled>>
-----------------------------------------------------------------------------
Reclaim == CloseChannel \/ WaitChild \/ ParentExit
ParentStep ==
  CreateChannel \/ CreateFails \/ CreateDone \/ SendTask \/ SendDone \/ Reclaim
doWork(c) == HandleTask(c) \/ Quit(c)
ChildStep(c) == CloseWriteEnds(c) \/ doWork(c)

Next == ParentStep \/ \E c \in Children : ChildStep(c)

Spec == Init /\ [][Next]_vars
-----------------------------------------------------------------------------
(* A child that ended has executed every task it was sent, in order: end   *)
(* of file comes after the last task, whatever the other children hold.    *)
NoTaskLost ==
  \A c \in Children : pc[c] \in {"exited", "reaped"} => handled[c] = sent[c]

(* The parent returns from main with every child waited for.               *)
NoZombies == pc[Parent] = "exited" => \A c \in Children : pc[c] \in {"reaped", "none"}

(* The parent waits for any child, in place of one it could not fork, and  *)
(* those that are left read from pipes it will close only later.           *)
WaitsForAny ==
  /\ pc[Parent] = "wait" /\ channels[chan] = -1
  /\ \E c \in chan + 1 .. Len(channels) : channels[c] = c

(* When the parent dies, all children see the end of their pipes and quit. *)
OrphansGone ==
  pc[Parent] = "killed" => \A c \in Children : pc[c] \in {"none", "exited", "reaped"}
=============================================================================
