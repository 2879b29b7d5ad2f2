----------------------------- MODULE IpcProofs ------------------------------
(* Safety of the programs that pass data through the kernel, of ProcessPool*)
(* for any number of children and tasks, with forks that succeed or fail in*)
(* any pattern, and of NamedPipe, SharedMemory, BufferedStream, NonBlock   *)
(* and PipeDemo for any number of processes, lines, letters and bytes.     *)
EXTENDS MCIpc, SequenceTheorems, FiniteSetTheorems, TLAPS

TypeOK ==
  /\ writers \in [Children -> SUBSET Processes]
  /\ readers \in [Children -> SUBSET Children]
  /\ pipe \in [Children -> Seq(Nat)]
  /\ sent \in [Children -> Seq(Nat)] /\ handled \in [Children -> Seq(Nat)]
  /\ pc \in [Processes -> {"none", "create", "send", "close", "wait", "killed",
                           "setup", "work", "exited", "reaped"}]
  /\ channels \in Seq(Children \cup {-1}) /\ Len(channels) <= N
  /\ next \in Children /\ count \in Nat
  /\ chan \in 1 .. N + 1
  /\ pc[Parent] = "wait" => chan <= Len(channels)
  /\ pc[Parent] \in {"create", "send"} => chan = 1
  /\ pc[Parent] \notin {"create", "killed"} => Len(channels) >= 1

(* What a child was sent is what it has handled and what is in its pipe,   *)
(* and a child that has ended left nothing there and reads no longer.      *)
PipeInv ==
  \A c \in Children :
    /\ readers[c] \subseteq {c}
    /\ sent[c] = handled[c] \o pipe[c]
    /\ pc[c] \in {"exited", "reaped"} => readers[c] = {} /\ pipe[c] = <<>>

(* A child has write ends open only while it closes them, and none of a    *)
(* pipe younger than its own.                                              *)
EndsInv ==
  /\ \A c, k \in Children : c \in writers[k] => pc[c] = "setup" /\ k <= c
  /\ \A k \in Children : k > Len(channels) => writers[k] = {} /\ readers[k] = {}

(* Channel k belongs to child k, or to nobody after a failed fork; those   *)
(* the parent is done with have been waited for.                           *)
ChannelInv ==
  \A k \in Children :
    /\ k > Len(channels) => pc[k] = "none"
    /\ k <= Len(channels) =>
         \/ channels[k] = k /\ pc[k] # "none"
         \/ channels[k] = -1 /\ pc[k] = "none"
    /\ k < chan /\ k <= Len(channels) => pc[k] \in {"none", "reaped"}
    /\ pc[k] \in {"none", "setup", "work", "exited", "reaped"}

(* The parent's main ends behind the last channel only.                    *)
EndInv == pc[Parent] = "exited" => chan > Len(channels)

IInv == TypeOK /\ PipeInv /\ EndsInv /\ ChannelInv /\ EndInv

(* A child that has set up keeps no write end of any pipe, its own or      *)
(* those its older brothers read from: what reclaiming one child after the *)
(* other depends on.                                                       *)
NoEndKept == \A c, k \in Children : pc[c] # "setup" => c \notin writers[k]
-----------------------------------------------------------------------------
LEMMA InitInv == Init => IInv
<1> SUFFICES ASSUME Init PROVE IInv
  OBVIOUS
<1> USE NAssumption, TimesAssumption DEF Init, Children, Processes, Parent
<1>1. TypeOK
  BY DEF TypeOK
<1>2. PipeInv /\ EndsInv /\ ChannelInv /\ EndInv
  BY DEF PipeInv, EndsInv, ChannelInv, EndInv
<1> QED
  BY <1>1, <1>2 DEF IInv

(* A task is appended to what was sent and is last in the pipe; it moves   *)
(* from the front of the pipe to the end of what is handled.               *)
LEMMA TaskEnters ==
  ASSUME NEW s \in Seq(Nat), NEW t \in Seq(Nat), NEW x \in Nat
  PROVE  Append(s \o t, x) = s \o Append(t, x)
<1>1. <<x>> \in Seq(Nat) /\ s \o t \in Seq(Nat)
  BY ConcatProperties
<1>2. (s \o t) \o <<x>> = s \o (t \o <<x>>)
  BY <1>1, ConcatAssociative
<1> QED
  BY <1>1, <1>2, AppendIsConcat

LEMMA TaskMoves ==
  ASSUME NEW s \in Seq(Nat), NEW t \in Seq(Nat), t # <<>>
  PROVE  s \o t = Append(s, Head(t)) \o Tail(t)
<1>1. Head(t) \in Nat /\ Tail(t) \in Seq(Nat) /\ <<Head(t)>> \in Seq(Nat)
  BY HeadTailProperties
<1>2. t = <<Head(t)>> \o Tail(t)
  OBVIOUS
<1>3. (s \o <<Head(t)>>) \o Tail(t) = s \o (<<Head(t)>> \o Tail(t))
  BY <1>1, ConcatAssociative
<1> QED
  BY <1>1, <1>2, <1>3, AppendIsConcat
-----------------------------------------------------------------------------
(* One more channel, with a child behind it or without. *)
LEMMA CreateInv ==
  ASSUME IInv, CreateChannel \/ CreateFails
  PROVE  IInv'
<1> DEFINE n == Len(channels) + 1
<1> USE NAssumption DEF Children, Processes, Parent
<1>0. TypeOK /\ PipeInv /\ EndsInv /\ ChannelInv /\ EndInv /\ Len(channels) \in Nat
  BY DEF IInv, TypeOK
<1>1. n <= N /\ pc[Parent] = "create" /\ UNCHANGED <<pipe, next, count, chan, sent, handled>>
  BY <1>0 DEF CreateChannel, CreateFails
<1>2. n \in Children /\ n \in Processes /\ n # Parent
  BY <1>0, <1>1
<1>3. pc[n] = "none"
  BY <1>0, <1>2 DEF ChannelInv
<1>4. PICK pid \in {n, -1} :
        /\ channels' = Append(channels, pid)
        /\ pc' = IF pid = n THEN [pc EXCEPT ![n] = "setup"] ELSE pc
        /\ readers' = IF pid = n THEN [readers EXCEPT ![n] = {n}] ELSE readers
        /\ writers' = IF pid = n
                      THEN [k \in Children |-> IF k = n THEN {Parent, n}
                              ELSE IF Parent \in writers[k] THEN writers[k] \cup {n} ELSE writers[k]]
                      ELSE [writers EXCEPT ![n] = {Parent}]
  BY <1>0 DEF CreateChannel, CreateFails, Goto
<1>5. /\ channels' \in Seq(Children \cup {-1}) /\ Len(channels') = n /\ channels'[n] = pid
      /\ \A k \in 1 .. Len(channels) : channels'[k] = channels[k]
  BY <1>0, <1>2, <1>4, AppendProperties DEF TypeOK
<1>6. /\ \A q \in Processes : pc'[q] = IF q = n /\ pid = n THEN "setup" ELSE pc[q]
      /\ \A k \in Children : readers'[k] = IF k = n /\ pid = n THEN {n} ELSE readers[k]
      /\ \A k \in Children : \A q \in writers'[k] :
           q \in writers[k] \/ q = Parent \/ (q = n /\ pid = n /\ (k = n \/ writers[k] # {}))
      /\ \A k \in Children : k # n /\ writers[k] = {} => writers'[k] = {}
  BY <1>2, <1>4, <1>0 DEF TypeOK
<1>7. TypeOK'
  BY <1>0, <1>1, <1>2, <1>4, <1>5 DEF TypeOK
<1> HIDE DEF n
<1>8. PipeInv'
  <2> SUFFICES ASSUME NEW c \in Children PROVE PipeInv!(c)'
    BY DEF PipeInv
  <2>1. /\ UNCHANGED <<sent, handled, pipe>>
        /\ pc'[c] \in {"exited", "reaped"} => pc[c] \in {"exited", "reaped"} /\ c # n
        /\ readers'[c] = readers[c] \/ (c = n /\ readers'[c] = {c})
    BY <1>1, <1>3, <1>6
  <2> QED
    BY <1>0, <2>1 DEF PipeInv
<1>9. EndsInv'
  <2>1. \A k \in Children : k > n => k > Len(channels)
    BY <1>0 DEF n
  <2>2. \A k \in Children : writers[k] # {} => k <= n
    BY <1>0 DEF n, EndsInv
  <2>3. ASSUME NEW c \in Children, NEW k \in Children, c \in writers'[k]
        PROVE  pc'[c] = "setup" /\ k <= c
    BY <1>0, <1>2, <1>3, <1>6, <2>2, <2>3 DEF EndsInv
  <2>4. ASSUME NEW k \in Children, k > n
        PROVE  writers'[k] = {} /\ readers'[k] = {}
    BY <1>0, <1>2, <1>6, <2>1, <2>4 DEF EndsInv
  <2> QED
    BY <1>5, <2>3, <2>4 DEF EndsInv
<1>10. ChannelInv'
  <2>0. chan' = 1
    BY <1>0, <1>1 DEF TypeOK
  <2> SUFFICES ASSUME NEW k \in Children PROVE ChannelInv!(k)'
    BY DEF ChannelInv
  <2>1. n = Len(channels) + 1
    BY DEF n
  <2>2. CASE k = n
    <3>1. /\ ~(k > Len(channels')) /\ ~(k < chan') /\ channels'[k] = pid
          /\ pc'[k] = IF pid = n THEN "setup" ELSE "none"
      BY <1>2, <1>3, <1>5, <1>6, <2>0, <2>2
    <3> QED
      BY <1>4, <2>2, <3>1
  <2>3. CASE k # n
    BY <1>0, <1>1, <1>2, <1>5, <1>6, <2>1, <2>3 DEF ChannelInv
  <2> QED
    BY <2>2, <2>3
<1>11. EndInv'
  BY <1>1, <1>2, <1>6 DEF EndInv
<1> QED
  BY <1>7, <1>8, <1>9, <1>10, <1>11 DEF IInv

LEMMA SendInv ==
  ASSUME IInv, SendTask
  PROVE  IInv'
<1> USE NAssumption DEF Children, Processes, Parent, ChooseChannel
<1>0. TypeOK /\ PipeInv /\ EndsInv /\ ChannelInv /\ EndInv
  BY DEF IInv
<1>1. /\ next' \in Children /\ next \in Children
      /\ count \in Nat /\ count' = count + 1 /\ pc[Parent] = "send"
      /\ UNCHANGED <<channels, chan, handled>>
  <2>1. /\ next \in Children /\ count \in Nat /\ count' = count + 1 /\ pc[Parent] = "send"
        /\ UNCHANGED <<channels, chan, handled>> /\ next' = (next % Len(channels)) + 1
    BY <1>0 DEF TypeOK, SendTask
  <2>2. PICK n \in 1 .. N : n = Len(channels)
    BY <1>0, <2>1 DEF TypeOK
  <2>3. (next % n) + 1 \in 1 .. n
    BY <2>1, <2>2
  <2> QED
    BY <2>1, <2>2, <2>3
<1>2. CASE readers[next] = {}
  <2>1. /\ pc' = [pc EXCEPT ![Parent] = "killed"] /\ UNCHANGED <<pipe, sent>>
        /\ writers' = [k \in Children |-> writers[k] \ {Parent}]
        /\ readers' = [k \in Children |-> readers[k] \ {Parent}]
    BY <1>2 DEF SendTask, CloseAll, Goto
  <2>2. TypeOK'
    <3>1. /\ writers' \in [Children -> SUBSET Processes] /\ readers' \in [Children -> SUBSET Children]
          /\ pc' \in [Processes -> {"none", "create", "send", "close", "wait", "killed",
                                   "setup", "work", "exited", "reaped"}]
          /\ pc'[Parent] = "killed"
      BY <1>0, <2>1 DEF TypeOK
    <3> HIDE DEF Children, Processes, Parent
    <3> QED
      BY <1>0, <1>1, <2>1, <3>1 DEF TypeOK
  <2>3. /\ pc'[Parent] = "killed" /\ \A c \in Children : pc'[c] = pc[c]
        /\ \A k \in Children : writers'[k] \subseteq writers[k] /\ readers'[k] \subseteq readers[k]
    BY <1>0, <2>1 DEF TypeOK
  <2>4. PipeInv'
    BY <1>0, <1>1, <2>1, <2>3 DEF PipeInv
  <2>5. EndsInv' /\ ChannelInv' /\ EndInv'
    BY <1>0, <1>1, <2>3 DEF EndsInv, ChannelInv, EndInv
  <2> QED
    BY <2>2, <2>4, <2>5 DEF IInv
<1>3. CASE readers[next] # {}
  <2>1. /\ pipe' = [pipe EXCEPT ![next] = Append(@, count + 1)]
        /\ sent' = [sent EXCEPT ![next] = Append(@, count + 1)]
        /\ UNCHANGED <<writers, readers, pc>>
    BY <1>3 DEF SendTask, ends
  <2>2. pc[next] \notin {"exited", "reaped"}
    BY <1>0, <1>1, <1>3 DEF PipeInv
  <2>3. /\ sent[next] \in Seq(Nat) /\ handled[next] \in Seq(Nat) /\ pipe[next] \in Seq(Nat)
        /\ count + 1 \in Nat
    BY <1>0, <1>1 DEF TypeOK
  <2>4. /\ Append(sent[next], count + 1) \in Seq(Nat) /\ Append(pipe[next], count + 1) \in Seq(Nat)
        /\ Append(sent[next], count + 1) = handled[next] \o Append(pipe[next], count + 1)
    <3>1. sent[next] = handled[next] \o pipe[next]
      BY <1>0, <1>1 DEF PipeInv
    <3>2. Append(handled[next] \o pipe[next], count + 1) = handled[next] \o Append(pipe[next], count + 1)
      BY <2>3, TaskEnters, Zenon
    <3> QED
      BY <2>3, <3>1, <3>2, AppendProperties
  <2>5. TypeOK'
    <3>1. sent' \in [Children -> Seq(Nat)] /\ pipe' \in [Children -> Seq(Nat)]
      BY <1>0, <2>1, <2>4 DEF TypeOK
    <3>2. next' \in Children /\ count' \in Nat
      BY <1>1
    <3> HIDE DEF Children
    <3> QED
      BY <1>0, <1>1, <2>1, <3>1, <3>2 DEF TypeOK
  <2>6. PipeInv'
    BY <1>0, <1>1, <2>1, <2>2, <2>4 DEF PipeInv, TypeOK
  <2>7. EndsInv' /\ ChannelInv' /\ EndInv'
    BY <1>0, <1>1, <2>1 DEF EndsInv, ChannelInv, EndInv
  <2> QED
    BY <2>5, <2>6, <2>7 DEF IInv
<1> QED
  BY <1>2, <1>3

(* The steps of the parent that touch no child, and the end of main.       *)
LEMMA ParentInv ==
  ASSUME IInv, CreateDone \/ SendDone \/ CloseChannel \/ ParentExit
  PROVE  IInv'
<1> USE NAssumption DEF IInv, Children, Processes, Parent, Goto, TypeOK, PipeInv, EndsInv, ChannelInv, EndInv
<1>1. CASE CreateDone
  <2>1. /\ pc[Parent] = "create" /\ pc' = [pc EXCEPT ![Parent] = "send"]
        /\ UNCHANGED <<writers, readers, pipe, channels, next, count, chan, sent, handled>>
        /\ channels # <<>>
    BY <1>1 DEF CreateDone, ends, book
  <2>2. pc'[Parent] = "send" /\ \A c \in Children : pc'[c] = pc[c]
    BY <2>1
  <2>3. Len(channels) \in Nat /\ Len(channels) >= 1
    BY <2>1, EmptySeq
  <2>4. TypeOK'
    BY <2>1, <2>3
  <2> QED
    BY <2>1, <2>2, <2>4
<1>2. CASE SendDone
  BY <1>2 DEF SendDone, ends, book
<1>3. CASE CloseChannel
  <2>1. /\ chan \in Children /\ pc[Parent] = "close" /\ pc' = [pc EXCEPT ![Parent] = "wait"]
        /\ writers' = [writers EXCEPT ![chan] = @ \ {Parent}]
        /\ UNCHANGED <<readers, pipe, channels, next, count, chan, sent, handled>>
    BY <1>3 DEF CloseChannel, book
  <2>2. TypeOK'
    <3>1. chan <= Len(channels) /\ Len(channels) >= 1 /\ pc'[Parent] = "wait"
      BY <1>3, <2>1 DEF CloseChannel
    <3>2. /\ writers' \in [Children -> SUBSET Processes]
          /\ pc' \in [Processes -> {"none", "create", "send", "close", "wait", "killed",
                                   "setup", "work", "exited", "reaped"}]
      BY <2>1
    <3> HIDE DEF Children, Processes, Parent
    <3> QED
      BY <2>1, <3>1, <3>2
  <2>3. /\ pc'[Parent] = "wait" /\ \A c \in Children : pc'[c] = pc[c]
        /\ \A k \in Children : writers'[k] \subseteq writers[k]
    BY <2>1
  <2>4. PipeInv' /\ EndsInv' /\ ChannelInv' /\ EndInv'
    BY <2>1, <2>3
  <2> QED
    BY <2>2, <2>4
<1>4. CASE ParentExit
  BY <1>4 DEF ParentExit, CloseAll, book
<1> QED
  BY <1>1, <1>2, <1>3, <1>4

(* The channel the parent is at: its child, if it has one, is waited for   *)
(* before the next; waitpid(-1) waits for any.                             *)
LEMMA WaitInv ==
  ASSUME IInv, WaitChild
  PROVE  IInv'
<1> DEFINE pid == channels[chan]
           alive == {c \in Children : pc[c] \in {"setup", "work"}}
           zombies == {c \in Children : pc[c] = "exited"}
           awaited == IF pid = -1 THEN alive \cup zombies ELSE {pid} \cap (alive \cup zombies)
<1> USE NAssumption DEF IInv, Children, Processes, Parent, Goto
<1>1. /\ chan \in Children /\ chan <= Len(channels) /\ pc[Parent] = "wait" /\ chan' = chan + 1
      /\ UNCHANGED <<ends, pipe, channels, next, count, sent, handled>>
  BY DEF WaitChild, TypeOK
<1>2. \/ \E c \in awaited \cap zombies : pc' = [pc EXCEPT ![Parent] = "close", ![c] = "reaped"]
      \/ awaited = {} /\ pc' = [pc EXCEPT ![Parent] = "close"]
  BY DEF WaitChild
<1> HIDE DEF awaited
<1>3. /\ pc' \in [Processes -> {"none", "create", "send", "close", "wait", "killed",
                                "setup", "work", "exited", "reaped"}]
      /\ pc'[Parent] = "close"
      /\ \A c \in Children : pc'[c] = pc[c] \/ (pc[c] = "exited" /\ pc'[c] = "reaped")
  <2>1. CASE \E c \in awaited \cap zombies : pc' = [pc EXCEPT ![Parent] = "close", ![c] = "reaped"]
    <3>1. PICK c \in Children : pc[c] = "exited" /\ pc' = [pc EXCEPT ![Parent] = "close", ![c] = "reaped"]
      BY <2>1
    <3>2. c \in Processes /\ Parent \in Processes /\ c # Parent
      OBVIOUS
    <3>3. pc \in [Processes -> {"none", "create", "send", "close", "wait", "killed",
                                "setup", "work", "exited", "reaped"}]
      BY DEF TypeOK
    <3>4. \A q \in Processes : pc'[q] = IF q = c THEN "reaped" ELSE IF q = Parent THEN "close" ELSE pc[q]
      BY <3>1, <3>2, <3>3, Zenon
    <3> QED
      BY <3>1, <3>2, <3>3, <3>4
  <2>2. CASE awaited = {} /\ pc' = [pc EXCEPT ![Parent] = "close"]
    <3>1. Parent \in Processes /\ \A c \in Children : c \in Processes /\ c # Parent
      OBVIOUS
    <3> QED
      BY <2>2, <3>1 DEF TypeOK
  <2> QED
    BY <1>2, <2>1, <2>2
<1>4. pc'[chan] \in {"none", "reaped"}
  <2>1. CASE pid = -1
    BY <1>1, <1>3, <2>1 DEF ChannelInv
  <2>2. CASE pid # -1
    <3>1. pid = chan /\ awaited = {chan} \cap (alive \cup zombies)
      BY <1>1, <2>2 DEF ChannelInv, awaited
    <3>2. CASE awaited = {}
      <4>1. pc[chan] \notin {"setup", "work", "exited"}
        BY <1>1, <3>1, <3>2
      <4> QED
        BY <1>1, <1>3, <4>1 DEF ChannelInv
    <3>3. CASE awaited # {}
      <4>1. pc' = [pc EXCEPT ![Parent] = "close", ![chan] = "reaped"]
        BY <1>2, <3>1, <3>3
      <4> QED
        BY <1>1, <4>1 DEF TypeOK
    <3> QED
      BY <3>2, <3>3
  <2> QED
    BY <2>1, <2>2
<1>5. TypeOK'
  <2>1. chan + 1 \in 1 .. N + 1
    BY <1>1
  <2>2. Len(channels) >= 1
    BY <1>1 DEF TypeOK
  <2> HIDE DEF Children, Processes, Parent
  <2> QED
    BY <1>1, <1>3, <2>1, <2>2 DEF TypeOK, ends
<1>6. PipeInv' /\ EndsInv' /\ EndInv'
  <2>1. UNCHANGED <<writers, readers>>
    BY <1>1 DEF ends
  <2>2. PipeInv'
    BY <1>1, <1>3, <2>1 DEF PipeInv
  <2>3. EndsInv'
    <3>1. \A c \in Children : pc[c] = "setup" => pc'[c] = "setup"
      BY <1>3
    <3> QED
      BY <1>1, <2>1, <3>1 DEF EndsInv
  <2>4. EndInv'
    BY <1>3 DEF EndInv
  <2> QED
    BY <2>2, <2>3, <2>4
<1>7. ChannelInv'
  BY <1>1, <1>3, <1>4 DEF ChannelInv
<1> QED
  BY <1>5, <1>6, <1>7

LEMMA ChildInv ==
  ASSUME IInv, NEW c \in Children, ChildStep(c)
  PROVE  IInv'
<1> USE NAssumption DEF IInv, Children, Processes, Parent, Goto
<1>0. c \in Processes /\ c # Parent
  OBVIOUS
<1>1. CASE CloseWriteEnds(c)
  <2>1. PICK k \in 1 .. c :
          /\ c \in writers[k] /\ \A j \in 1 .. k - 1 : c \notin writers[j]
          /\ writers' = [writers EXCEPT ![k] = @ \ {c}]
          /\ IF k = c THEN Goto(c, "work") ELSE UNCHANGED pc
    BY <1>1 DEF CloseWriteEnds
  <2>2. pc[c] = "setup" /\ UNCHANGED <<readers, pipe, book, handled>>
    BY <1>1 DEF CloseWriteEnds
  <2>3. TypeOK'
    BY <1>0, <2>1, <2>2 DEF TypeOK, book
  <2>4. /\ k \in Children /\ pc'[Parent] = pc[Parent]
        /\ \A q \in Children : pc'[q] = IF q = c /\ k = c THEN "work" ELSE pc[q]
        /\ \A j \in Children : writers'[j] = IF j = k THEN writers[j] \ {c} ELSE writers[j]
    <3>1. k \in Children
      BY <1>0
    <3>2. \A j \in Children : writers'[j] = IF j = k THEN writers[j] \ {c} ELSE writers[j]
      BY <2>1 DEF TypeOK
    <3>3. pc' = IF k = c THEN [pc EXCEPT ![c] = "work"] ELSE pc
      BY <2>1
    <3> QED
      BY <1>0, <3>1, <3>2, <3>3 DEF TypeOK
  <2>5. PipeInv' /\ ChannelInv' /\ EndInv'
    BY <2>2, <2>4 DEF PipeInv, ChannelInv, EndInv, book
  <2>6. \A j \in Children : k = c => c \notin writers'[j]
    <3> SUFFICES ASSUME NEW j \in Children, k = c PROVE c \notin writers'[j]
      OBVIOUS
    <3>1. j > c => c \notin writers[j]
      BY DEF EndsInv
    <3>2. j < c => c \notin writers[j]
      BY <2>1
    <3>3. j = c => c \notin writers'[j]
      BY <2>4
    <3>4. j > c \/ j < c \/ j = c
      OBVIOUS
    <3> QED
      BY <2>4, <3>1, <3>2, <3>3, <3>4
  <2>7. EndsInv'
    BY <2>2, <2>4, <2>6 DEF EndsInv, book
  <2> QED
    BY <2>3, <2>5, <2>7
<1>2. CASE HandleTask(c)
  <2>1. /\ pipe[c] \in Seq(Nat) /\ handled[c] \in Seq(Nat) /\ pipe[c] # <<>>
        /\ sent[c] = handled[c] \o pipe[c]
    BY <1>2 DEF HandleTask, TypeOK, PipeInv
  <2>2. sent[c] = Append(handled[c], Head(pipe[c])) \o Tail(pipe[c])
    BY <2>1, TaskMoves
  <2>3. /\ Head(pipe[c]) \in Nat /\ Tail(pipe[c]) \in Seq(Nat)
        /\ Append(handled[c], Head(pipe[c])) \in Seq(Nat)
    BY <2>1, HeadTailProperties, AppendProperties
  <2>4. TypeOK'
    <3>1. /\ handled' \in [Children -> Seq(Nat)] /\ pipe' \in [Children -> Seq(Nat)]
          /\ UNCHANGED <<writers, readers, pc, channels, next, count, chan, sent>>
      BY <1>2, <2>3 DEF HandleTask, TypeOK, ends, book
    <3> QED
      BY <3>1 DEF TypeOK
  <2>5. PipeInv'
    BY <1>2, <2>2 DEF HandleTask, TypeOK, PipeInv, ends, book
  <2>6. EndsInv' /\ ChannelInv' /\ EndInv'
    BY <1>2 DEF HandleTask, EndsInv, ChannelInv, EndInv, ends, book
  <2> QED
    BY <2>4, <2>5, <2>6
<1>3. CASE Quit(c)
  <2>1. TypeOK'
    BY <1>0, <1>3 DEF Quit, CloseAll, TypeOK, book
  <2>2. PipeInv'
    BY <1>0, <1>3 DEF Quit, CloseAll, TypeOK, PipeInv, book
  <2>3. EndsInv' /\ EndInv'
    BY <1>0, <1>3 DEF Quit, CloseAll, TypeOK, EndsInv, EndInv, book
  <2>4. ChannelInv'
    BY <1>0, <1>3 DEF Quit, TypeOK, ChannelInv, book
  <2> QED
    BY <2>1, <2>2, <2>3, <2>4
<1> QED
  BY <1>1, <1>2, <1>3 DEF ChildStep, doWork

LEMMA NextInv == IInv /\ [Next]_vars => IInv'
<1> SUFFICES ASSUME IInv, [Next]_vars PROVE IInv'
  OBVIOUS
<1>1. CASE ParentStep
  BY <1>1, CreateInv, SendInv, ParentInv, WaitInv DEF ParentStep, Reclaim
<1>2. ASSUME NEW c \in Children, ChildStep(c) PROVE IInv'
  BY <1>2, ChildInv
<1>3. CASE UNCHANGED vars
  BY <1>3 DEF vars, ends, book, IInv, TypeOK, PipeInv, EndsInv, ChannelInv, EndInv
<1> QED
  BY <1>1, <1>2, <1>3 DEF Next

LEMMA Invariance == Spec => []IInv
  BY InitInv, NextInv, PTL DEF Spec
-----------------------------------------------------------------------------
(* A child that ended has executed every task it was sent, in order.       *)
THEOREM TasksKept == Spec => []NoTaskLost
<1>1. IInv => NoTaskLost
  <2> SUFFICES ASSUME IInv, NEW c \in Children, pc[c] \in {"exited", "reaped"}
               PROVE  handled[c] = sent[c]
    BY DEF NoTaskLost
  <2>1. handled[c] \in Seq(Nat) /\ sent[c] = handled[c] \o << >>
    BY DEF IInv, TypeOK, PipeInv
  <2> QED
    BY <2>1
<1> QED
  BY <1>1, Invariance, PTL

(* A child at work holds no write end that would keep a pipe open.         *)
THEOREM WriteEndsClosed == Spec => []NoEndKept
<1>1. IInv => NoEndKept
  BY DEF IInv, EndsInv, NoEndKept
<1> QED
  BY <1>1, Invariance, PTL

(* Whatever forks failed, main returns with every child waited for.        *)
THEOREM NobodyLeft == Spec => []NoZombies
<1>1. IInv => NoZombies
  <2> SUFFICES ASSUME IInv, pc[Parent] = "exited", NEW c \in Children
               PROVE  pc[c] \in {"reaped", "none"}
    BY DEF NoZombies
  <2>1. Len(channels) \in Nat /\ chan \in 1 .. N + 1 /\ chan > Len(channels) /\ c \in 1 .. N
    BY LenProperties DEF IInv, TypeOK, EndInv, Children
  <2>2. /\ c > Len(channels) => pc[c] = "none"
        /\ c < chan /\ c <= Len(channels) => pc[c] \in {"none", "reaped"}
    BY DEF IInv, ChannelInv
  <2> QED
    BY <2>1, <2>2, NAssumption
<1> QED
  BY <1>1, Invariance, PTL
-----------------------------------------------------------------------------
(* The named pipe.                                                         *)
FifoTypes ==
  /\ host \in [Hosts -> {"off", "made", "refused", "opening", "reading", "leaving",
                         "unlinked", "gone", "killed"}]
  /\ talker \in [Talkers -> {"off", "opening", "talking", "gone"}]
  /\ file \in Hosts \cup {"none"} /\ end \in [Talkers -> Hosts \cup {"none"}]
  /\ bytes \in [Hosts -> Seq(Talkers \X Nat)] /\ heard \in [Hosts -> Seq(Talkers \X Nat)]
  /\ wrote \in [Talkers -> Nat]

(* The name is that of the one server that is there, or of one that was    *)
(* killed.                                                                 *)
FileInv ==
  /\ \A h \in Hosts : Fifo!Live(h) => file = h
  /\ file # "none" => Fifo!Live(file) \/ host[file] = "killed"

(* A client that still writes to a server that leaves has come late.       *)
TalkInv ==
  \A t \in Talkers :
    /\ talker[t] = "off" => end[t] = "none"
    /\ talker[t] \in {"opening", "talking"} => end[t] # "none"
    /\ end[t] = "none" => wrote[t] = 0
    /\ talker[t] \in {"opening", "talking"} /\ host[end[t]] \in {"leaving", "unlinked", "gone"} => t \in late

(* The lines that were written to the fifo of h; those of t are there in   *)
(* their order, each of them once, and nowhere else.                       *)
AllLines(h) == heard[h] \o bytes[h]
Own(s, t) == {i \in DOMAIN s : s[i][1] = t}
InOrder(s, t, n) ==
  /\ \A i, j \in Own(s, t) : i < j => s[i][2] < s[j][2]
  /\ {s[i][2] : i \in Own(s, t)} = 1 .. n

OrderInv ==
  \A t \in Talkers, h \in Hosts : InOrder(AllLines(h), t, IF end[t] = h THEN wrote[t] ELSE 0)

LateInv ==
  \A h \in Hosts : host[h] \in {"leaving", "unlinked", "gone"} =>
    \A i \in DOMAIN bytes[h] : bytes[h][i][1] \in late

FifoInv == FifoTypes /\ FileInv /\ TalkInv /\ OrderInv /\ LateInv

LEMMA FifoInit == Fifo!Init => FifoInv
<1> SUFFICES ASSUME Fifo!Init PROVE FifoInv
  OBVIOUS
<1> USE DEF Fifo!Init
<1>1. FifoTypes
  BY DEF FifoTypes
<1>2. FileInv /\ TalkInv
  BY DEF FileInv, Fifo!Live, TalkInv
<1>3. ASSUME NEW t \in Talkers, NEW h \in Hosts PROVE InOrder(AllLines(h), t, IF end[t] = h THEN wrote[t] ELSE 0)
  <2>1. AllLines(h) = <<>> /\ (IF end[t] = h THEN wrote[t] ELSE 0) = 0
    BY HostsAssumption DEF AllLines
  <2>2. Own(<<>>, t) = {}
    BY DEF Own
  <2> QED
    BY <2>1, <2>2 DEF InOrder
<1>4. LateInv
  BY DEF LateInv
<1> QED
  BY <1>1, <1>2, <1>3, <1>4 DEF FifoInv, OrderInv

(* What a server does to the names and to its own state.                   *)
FifoNames == FifoTypes /\ FileInv /\ TalkInv /\ LateInv

LEMMA FifoServer ==
  ASSUME FifoNames, NEW h \in Hosts, Fifo!Server(h) \/ Fifo!Kill(h)
  PROVE  FifoNames'
<1> USE DEF FifoNames
<1> DEFINE Leaving == {"leaving", "unlinked", "gone"}
<1>1. UNCHANGED <<end, wrote, late>>
  BY DEF Fifo!Server, Fifo!MakeFifo, Fifo!OpenforRead, Fifo!readData, Fifo!EndOfFile, Fifo!Unlink,
         Fifo!Close, Fifo!Kill
<1>2. CASE Fifo!MakeFifo(h)
  <2>1. /\ host[h] = "off" /\ UNCHANGED <<talker, bytes, heard>>
        /\ \/ file = "none" /\ host' = [host EXCEPT ![h] = "made"] /\ file' = h
           \/ file # "none" /\ host' = [host EXCEPT ![h] = "refused"] /\ file' = file
    BY <1>2 DEF Fifo!MakeFifo, Fifo!HostTo
  <2>2. FifoTypes'
    BY <1>1, <2>1 DEF FifoTypes
  <2>3. \A g \in Hosts : g # h => host'[g] = host[g]
    BY <2>1 DEF FifoTypes
  <2>4. host'[h] \in {"made", "refused"}
    BY <2>1 DEF FifoTypes
  <2>5. FileInv'
    BY <2>1, <2>3, HostsAssumption DEF FileInv, Fifo!Live, FifoTypes
  <2>6. TalkInv'
    BY <1>1, <2>1, <2>3, <2>4 DEF TalkInv, FifoTypes
  <2>7. LateInv'
    BY <1>1, <2>1, <2>3, <2>4 DEF LateInv
  <2> QED
    BY <2>2, <2>5, <2>6, <2>7
<1>3. CASE Fifo!OpenforRead(h)
  <2>1. /\ host[h] = "made" /\ UNCHANGED <<file, bytes, heard>>
        /\ \E what \in {"opening", "reading"} : host' = [host EXCEPT ![h] = what]
        /\ talker' = [t \in Talkers |-> IF t \in Fifo!Writers(h) THEN "talking" ELSE talker[t]]
    BY <1>3 DEF Fifo!OpenforRead, Fifo!HostTo
  <2>2. FifoTypes'
    BY <1>1, <2>1 DEF FifoTypes
  <2>3. /\ \A g \in Hosts : g # h => host'[g] = host[g]
        /\ host'[h] \in {"opening", "reading"}
    BY <2>1 DEF FifoTypes
  <2>4. \A t \in Talkers : \/ talker'[t] = talker[t]
                           \/ talker[t] \in {"opening", "talking"} /\ talker'[t] = "talking"
    BY <2>1 DEF Fifo!Writers
  <2>5. FileInv'
    BY <2>1, <2>3 DEF FileInv, Fifo!Live, FifoTypes
  <2>6. TalkInv'
    BY <1>1, <2>1, <2>3, <2>4, HostsAssumption DEF TalkInv, FifoTypes
  <2>7. LateInv'
    BY <1>1, <2>1, <2>3 DEF LateInv
  <2> QED
    BY <2>2, <2>5, <2>6, <2>7
<1>4. CASE Fifo!readData(h)
  <2>1. /\ host[h] = "reading" /\ UNCHANGED <<host, talker, file>>
        /\ heard' = [heard EXCEPT ![h] = heard[h] \o bytes[h]] /\ bytes' = [bytes EXCEPT ![h] = <<>>]
    BY <1>4 DEF Fifo!readData
  <2>2. heard[h] \o bytes[h] \in Seq(Talkers \X Nat) /\ <<>> \in Seq(Talkers \X Nat)
    <3>1. heard[h] \in Seq(Talkers \X Nat) /\ bytes[h] \in Seq(Talkers \X Nat)
      BY DEF FifoTypes
    <3> QED
      BY <3>1
  <2>3. FifoTypes'
    BY <1>1, <2>1, <2>2 DEF FifoTypes
  <2>4. FileInv' /\ TalkInv'
    BY <1>1, <2>1 DEF FileInv, Fifo!Live, TalkInv
  <2>5. LateInv'
    <3>1. \A g \in Hosts : g # h => bytes'[g] = bytes[g]
      BY <2>1 DEF FifoTypes
    <3> QED
      BY <1>1, <2>1, <3>1 DEF LateInv
  <2> QED
    BY <2>3, <2>4, <2>5
<1>5. CASE Fifo!EndOfFile(h)
  <2>1. /\ host[h] = "reading" /\ bytes[h] = <<>> /\ Fifo!Writers(h) = {}
        /\ host' = [host EXCEPT ![h] = "leaving"] /\ UNCHANGED <<talker, file, bytes, heard>>
    BY <1>5 DEF Fifo!EndOfFile, Fifo!HostTo
  <2>2. FifoTypes'
    BY <1>1, <2>1 DEF FifoTypes
  <2>3. host'[h] = "leaving" /\ \A g \in Hosts : g # h => host'[g] = host[g]
    BY <2>1 DEF FifoTypes
  <2>4. FileInv'
    BY <2>1, <2>3 DEF FileInv, Fifo!Live, FifoTypes
  <2>5. TalkInv'
    <3>1. \A t \in Talkers : talker[t] \in {"opening", "talking"} => end[t] # h
      BY <2>1 DEF Fifo!Writers
    <3> QED
      BY <1>1, <2>1, <2>3, <3>1 DEF TalkInv, FifoTypes
  <2>6. LateInv'
    <3>1. \A i \in DOMAIN bytes[h] : FALSE
      BY <2>1
    <3> QED
      BY <1>1, <2>1, <2>3, <3>1 DEF LateInv
  <2> QED
    BY <2>2, <2>4, <2>5, <2>6
<1>6. CASE Fifo!Unlink(h)
  <2>1. /\ host[h] = "leaving" /\ host' = [host EXCEPT ![h] = "unlinked"] /\ file' = "none"
        /\ UNCHANGED <<talker, bytes, heard>>
    BY <1>6 DEF Fifo!Unlink, Fifo!HostTo
  <2>2. FifoTypes'
    BY <1>1, <2>1 DEF FifoTypes
  <2>3. host'[h] = "unlinked" /\ \A g \in Hosts : g # h => host'[g] = host[g]
    BY <2>1 DEF FifoTypes
  <2>4. FileInv'
    BY <2>1, <2>3 DEF FileInv, Fifo!Live
  <2>5. TalkInv'
    BY <1>1, <2>1, <2>3 DEF TalkInv, FifoTypes
  <2>6. LateInv'
    BY <1>1, <2>1, <2>3 DEF LateInv
  <2> QED
    BY <2>2, <2>4, <2>5, <2>6
<1>7. CASE Fifo!Close(h)
  <2>1. /\ host[h] = "unlinked" /\ host' = [host EXCEPT ![h] = "gone"]
        /\ UNCHANGED <<talker, file, bytes, heard>>
    BY <1>7 DEF Fifo!Close, Fifo!HostTo
  <2>2. FifoTypes'
    BY <1>1, <2>1 DEF FifoTypes
  <2>3. host'[h] = "gone" /\ \A g \in Hosts : g # h => host'[g] = host[g]
    BY <2>1 DEF FifoTypes
  <2>4. FileInv'
    BY <2>1, <2>3 DEF FileInv, Fifo!Live, FifoTypes
  <2>5. TalkInv'
    BY <1>1, <2>1, <2>3 DEF TalkInv, FifoTypes
  <2>6. LateInv'
    BY <1>1, <2>1, <2>3 DEF LateInv
  <2> QED
    BY <2>2, <2>4, <2>5, <2>6
<1>8. CASE Fifo!Kill(h)
  <2>1. /\ host[h] \notin {"off", "refused", "gone", "killed"} /\ host' = [host EXCEPT ![h] = "killed"]
        /\ UNCHANGED <<talker, file, bytes, heard>>
    BY <1>8 DEF Fifo!Kill, Fifo!HostTo
  <2>2. FifoTypes'
    BY <1>1, <2>1 DEF FifoTypes
  <2>3. host'[h] = "killed" /\ \A g \in Hosts : g # h => host'[g] = host[g]
    BY <2>1 DEF FifoTypes
  <2>4. FileInv'
    BY <2>1, <2>3 DEF FileInv, Fifo!Live, FifoTypes
  <2>5. TalkInv'
    BY <1>1, <2>1, <2>3 DEF TalkInv, FifoTypes
  <2>6. LateInv'
    BY <1>1, <2>1, <2>3 DEF LateInv
  <2> QED
    BY <2>2, <2>4, <2>5, <2>6
<1> QED
  BY <1>2, <1>3, <1>4, <1>5, <1>6, <1>7, <1>8 DEF Fifo!Server

LEMMA FifoClient ==
  ASSUME FifoNames, NEW t \in Talkers, Fifo!Client(t) \/ Fifo!QuitTalking(t)
  PROVE  FifoNames'
<1> USE DEF FifoNames
<1>1. CASE Fifo!OpenforWrite(t)
  <2> DEFINE there == file # "none" /\ host[file] \in {"opening", "reading", "leaving"}
             what == IF file = "none" THEN "gone" ELSE IF there THEN "talking" ELSE "opening"
  <2>1. /\ talker[t] = "off" /\ end' = [end EXCEPT ![t] = file] /\ UNCHANGED <<file, bytes, wrote, heard>>
        /\ talker' = [talker EXCEPT ![t] = what]
        /\ IF there /\ host[file] = "opening" THEN host' = [host EXCEPT ![file] = "reading"] ELSE UNCHANGED host
        /\ late' = IF there /\ host[file] = "leaving" THEN late \cup {t} ELSE late
    BY <1>1 DEF Fifo!OpenforWrite, Fifo!HostTo
  <2>2. /\ end'[t] = file /\ talker'[t] = what /\ late \subseteq late'
        /\ \A u \in Talkers : u # t => end'[u] = end[u] /\ talker'[u] = talker[u]
    BY <2>1 DEF FifoTypes
  <2>3. \A g \in Hosts : \/ host'[g] = host[g]
                         \/ host[g] = "opening" /\ host'[g] = "reading"
    BY <2>1 DEF FifoTypes
  <2>4. FifoTypes'
    <3>1. host' \in [Hosts -> {"off", "made", "refused", "opening", "reading", "leaving",
                               "unlinked", "gone", "killed"}]
      BY <2>1 DEF FifoTypes
    <3>2. talker' \in [Talkers -> {"off", "opening", "talking", "gone"}] /\ end' \in [Talkers -> Hosts \cup {"none"}]
      BY <2>1 DEF FifoTypes
    <3> QED
      BY <2>1, <3>1, <3>2 DEF FifoTypes
  <2>5. FileInv'
    BY <2>1, <2>3 DEF FileInv, Fifo!Live, FifoTypes
  <2>6. ASSUME NEW u \in Talkers
        PROVE  /\ talker'[u] = "off" => end'[u] = "none"
               /\ talker'[u] \in {"opening", "talking"} => end'[u] # "none"
               /\ end'[u] = "none" => wrote'[u] = 0
               /\ talker'[u] \in {"opening", "talking"} /\ host'[end'[u]] \in {"leaving", "unlinked", "gone"} =>
                    u \in late'
    <3>1. CASE u = t
      <4>1. /\ talker'[u] # "off" /\ (talker'[u] \in {"opening", "talking"} => end'[u] # "none")
            /\ wrote'[u] = 0
        BY <2>1, <2>2, <3>1 DEF TalkInv
      <4>2. ASSUME talker'[u] \in {"opening", "talking"}, host'[end'[u]] \in {"leaving", "unlinked", "gone"}
            PROVE  u \in late'
        <5>1. file # "none" /\ file \in Hosts /\ end'[u] = file
          BY <2>2, <3>1, <4>1, <4>2 DEF FifoTypes
        <5>2. host[file] = host'[file]
          BY <2>3, <4>2, <5>1
        <5>3. host[file] = "leaving"
          BY <4>2, <5>1, <5>2 DEF FileInv, Fifo!Live
        <5> QED
          BY <2>1, <3>1, <5>1, <5>3
      <4> QED
        BY <4>1, <4>2
    <3>2. CASE u # t
      <4>1. end'[u] = end[u] /\ talker'[u] = talker[u] /\ wrote'[u] = wrote[u]
        BY <2>1, <2>2, <3>2
      <4>2. ASSUME talker'[u] \in {"opening", "talking"}, host'[end'[u]] \in {"leaving", "unlinked", "gone"}
            PROVE  u \in late'
        <5>1. end[u] \in Hosts
          BY <4>1, <4>2 DEF TalkInv, FifoTypes
        <5> QED
          BY <2>2, <2>3, <4>1, <4>2, <5>1 DEF TalkInv
      <4> QED
        BY <4>1, <4>2 DEF TalkInv
    <3> QED
      BY <3>1, <3>2
  <2>7. LateInv'
    BY <2>1, <2>2, <2>3 DEF LateInv
  <2> QED
    BY <2>4, <2>5, <2>6, <2>7 DEF TalkInv
<1>2. CASE Fifo!writeData(t)
  <2>1. talker[t] = "talking" /\ end[t] \in Hosts /\ UNCHANGED <<host, file, end, heard, late>>
    BY <1>2 DEF Fifo!writeData, TalkInv, FifoTypes
  <2>2. CASE host[end[t]] \in {"reading", "leaving", "unlinked"}
    <3>1. /\ bytes' = [bytes EXCEPT ![end[t]] = Append(bytes[end[t]], <<t, wrote[t] + 1>>)]
          /\ wrote' = [wrote EXCEPT ![t] = wrote[t] + 1] /\ UNCHANGED talker
      BY <1>2, <2>2 DEF Fifo!writeData
    <3> DEFINE line == <<t, wrote[t] + 1>>
    <3>2. wrote[t] \in Nat /\ line \in Talkers \X Nat /\ bytes[end[t]] \in Seq(Talkers \X Nat) /\ line[1] = t
      BY <2>1 DEF FifoTypes
    <3> HIDE DEF line
    <3>3. /\ Append(bytes[end[t]], line) \in Seq(Talkers \X Nat)
          /\ \A i \in DOMAIN Append(bytes[end[t]], line) :
               \/ i \in DOMAIN bytes[end[t]] /\ Append(bytes[end[t]], line)[i] = bytes[end[t]][i]
               \/ Append(bytes[end[t]], line)[i] = line
      BY <3>2
    <3>4. /\ bytes'[end[t]] = Append(bytes[end[t]], line)
          /\ \A g \in Hosts : g # end[t] => bytes'[g] = bytes[g]
      BY <2>1, <3>1 DEF FifoTypes, line
    <3>5. wrote' \in [Talkers -> Nat] /\ \A u \in Talkers : u # t => wrote'[u] = wrote[u]
      BY <3>1, <3>2 DEF FifoTypes
    <3>6. bytes' \in [Hosts -> Seq(Talkers \X Nat)]
      BY <2>1, <3>1, <3>3 DEF FifoTypes, line
    <3>7. FifoTypes'
      BY <2>1, <3>1, <3>5, <3>6 DEF FifoTypes
    <3>8. FileInv' /\ TalkInv'
      BY <2>1, <3>1, <3>5, HostsAssumption DEF FileInv, Fifo!Live, TalkInv
    <3>9. LateInv'
      <4> SUFFICES ASSUME NEW h \in Hosts, host[h] \in {"leaving", "unlinked", "gone"},
                          NEW i \in DOMAIN bytes'[h]
                   PROVE  bytes'[h][i][1] \in late
        BY <2>1 DEF LateInv
      <4>1. CASE h # end[t]
        BY <3>4, <4>1 DEF LateInv
      <4>2. CASE h = end[t]
        <5>1. t \in late
          BY <2>1, <4>2 DEF TalkInv
        <5> QED
          BY <3>2, <3>3, <3>4, <4>2, <5>1 DEF LateInv
      <4> QED
        BY <4>1, <4>2
    <3> QED
      BY <3>7, <3>8, <3>9
  <2>3. CASE host[end[t]] \notin {"reading", "leaving", "unlinked"}
    <3>1. talker' = [talker EXCEPT ![t] = "gone"] /\ UNCHANGED <<bytes, wrote>>
      BY <1>2, <2>3 DEF Fifo!writeData
    <3>2. \A u \in Talkers : talker'[u] = "gone" \/ talker'[u] = talker[u]
      BY <3>1 DEF FifoTypes
    <3>3. FifoTypes' /\ FileInv' /\ LateInv'
      BY <2>1, <3>1 DEF FifoTypes, FileInv, Fifo!Live, LateInv
    <3>4. TalkInv'
      BY <2>1, <3>1, <3>2 DEF TalkInv
    <3> QED
      BY <3>3, <3>4
  <2> QED
    BY <2>2, <2>3
<1>3. CASE Fifo!QuitTalking(t)
  <2>1. /\ talker[t] \in {"opening", "talking"} /\ talker' = [talker EXCEPT ![t] = "gone"]
        /\ UNCHANGED <<host, file, end, bytes, wrote, heard, late>>
    BY <1>3 DEF Fifo!QuitTalking
  <2>2. \A u \in Talkers : talker'[u] = "gone" \/ talker'[u] = talker[u]
    BY <2>1 DEF FifoTypes
  <2>3. FifoTypes' /\ FileInv' /\ LateInv'
    BY <2>1 DEF FifoTypes, FileInv, Fifo!Live, LateInv
  <2>4. TalkInv'
    BY <2>1, <2>2 DEF TalkInv
  <2> QED
    BY <2>3, <2>4
<1> QED
  BY <1>1, <1>2, <1>3 DEF Fifo!Client

(* What is appended to the second of two sequences is appended to both.    *)
LEMMA LastOfBoth ==
  ASSUME NEW S, NEW a \in Seq(S), NEW b \in Seq(S), NEW x \in S
  PROVE  a \o b \in Seq(S) /\ a \o Append(b, x) = Append(a \o b, x)
<1>1. <<x>> \in Seq(S) /\ a \o b \in Seq(S)
  BY ConcatProperties
<1>2. (a \o b) \o <<x>> = a \o (b \o <<x>>)
  BY <1>1, ConcatAssociative
<1> QED
  BY <1>1, <1>2, AppendIsConcat

(* One line more, at the end.                                              *)
LEMMA LineAppended ==
  ASSUME NEW s \in Seq(Talkers \X Nat), NEW t \in Talkers, NEW n \in Nat, InOrder(s, t, n)
  PROVE  /\ InOrder(Append(s, <<t, n + 1>>), t, n + 1)
         /\ \A u \in Talkers, m \in Nat : u # t /\ InOrder(s, u, m) => InOrder(Append(s, <<t, n + 1>>), u, m)
<1> DEFINE l == Len(s)
           x == <<t, n + 1>>
           r == Append(s, x)
<1>1. x \in Talkers \X Nat /\ x[1] = t /\ x[2] = n + 1
  OBVIOUS
<1> HIDE DEF x
<1>2. /\ l \in Nat /\ DOMAIN s = 1 .. l /\ DOMAIN r = 1 .. l + 1
      /\ \A i \in 1 .. l : r[i] = s[i]
      /\ r[l + 1] = x
  BY <1>1
<1>3. /\ 1 .. l + 1 = 1 .. l \cup {l + 1} /\ l + 1 \notin 1 .. l
      /\ \A i \in 1 .. l : i < l + 1 /\ ~(l + 1 < i)
  BY <1>2
<1> HIDE DEF l, r
<1>4. Own(r, t) = Own(s, t) \cup {l + 1} /\ \A u \in Talkers \ {t} : Own(r, u) = Own(s, u)
  BY <1>1, <1>2, <1>3 DEF Own
<1>5. InOrder(r, t, n + 1)
  <2>1. {r[i][2] : i \in Own(r, t)} = 1 .. n + 1
    <3>1. {r[i][2] : i \in Own(r, t)} = {s[i][2] : i \in Own(s, t)} \cup {n + 1}
      BY <1>1, <1>2, <1>4 DEF Own
    <3>2. 1 .. n + 1 = 1 .. n \cup {n + 1}
      OBVIOUS
    <3> QED
      BY <3>1, <3>2 DEF InOrder
  <2>2. ASSUME NEW i \in Own(r, t), NEW j \in Own(r, t), i < j PROVE r[i][2] < r[j][2]
    <3>1. i \in Own(s, t)
      BY <1>2, <1>3, <1>4, <2>2 DEF Own
    <3>2. CASE j \in Own(s, t)
      BY <1>2, <2>2, <3>1, <3>2 DEF Own, InOrder
    <3>3. CASE j = l + 1
      <4>1. s[i][2] \in 1 .. n
        BY <3>1 DEF InOrder
      <4>2. r[i] = s[i] /\ r[j][2] = n + 1
        BY <1>1, <1>2, <3>1, <3>3 DEF Own
      <4> QED
        BY <4>1, <4>2
    <3> QED
      BY <1>4, <2>2, <3>2, <3>3
  <2> QED
    BY <2>1, <2>2 DEF InOrder
<1>6. ASSUME NEW u \in Talkers, NEW m \in Nat, u # t, InOrder(s, u, m) PROVE InOrder(r, u, m)
  <2>1. Own(r, u) = Own(s, u) /\ \A i \in Own(s, u) : r[i] = s[i]
    BY <1>2, <1>4, <1>6 DEF Own
  <2>2. {r[i][2] : i \in Own(r, u)} = {s[i][2] : i \in Own(s, u)}
    BY <2>1
  <2> QED
    BY <1>6, <2>1, <2>2 DEF InOrder
<1> QED
  BY <1>5, <1>6 DEF r, x

LEMMA FifoOrder ==
  ASSUME FifoInv, Fifo!Next PROVE OrderInv'
<1> DEFINE Lines == Seq(Talkers \X Nat)
           Nr(t, h) == IF end[t] = h THEN wrote[t] ELSE 0
<1>0. \A h \in Hosts : heard[h] \in Lines /\ bytes[h] \in Lines
  BY DEF FifoInv, FifoTypes
<1>1. \A t \in Talkers, h \in Hosts : InOrder(AllLines(h), t, Nr(t, h))
  BY DEF FifoInv, OrderInv
<1>2. ASSUME \A h \in Hosts : heard'[h] \o bytes'[h] = heard[h] \o bytes[h],
             \A t \in Talkers, h \in Hosts : Nr(t, h)' = Nr(t, h)
      PROVE  OrderInv'
  <2> SUFFICES ASSUME NEW t \in Talkers, NEW h \in Hosts
               PROVE  InOrder(heard'[h] \o bytes'[h], t, Nr(t, h)')
    BY DEF OrderInv, AllLines, InOrder, Own
  <2> QED
    BY <1>1, <1>2 DEF AllLines
<1>3. CASE \E h \in Hosts : Fifo!readData(h)
  <2>1. PICK h \in Hosts : /\ heard' = [heard EXCEPT ![h] = heard[h] \o bytes[h]]
                           /\ bytes' = [bytes EXCEPT ![h] = <<>>] /\ UNCHANGED <<end, wrote>>
    BY <1>3 DEF Fifo!readData
  <2>2. /\ heard'[h] = heard[h] \o bytes[h] /\ bytes'[h] = <<>>
        /\ \A g \in Hosts : g # h => heard'[g] = heard[g] /\ bytes'[g] = bytes[g]
    BY <2>1 DEF FifoInv, FifoTypes
  <2>3. heard'[h] \o bytes'[h] = heard[h] \o bytes[h]
    <3>1. heard[h] \o bytes[h] \in Lines
      BY <1>0
    <3> QED
      BY <2>2, <3>1, ConcatEmptySeq
  <2> QED
    BY <1>2, <2>1, <2>2, <2>3
<1>4. CASE \E t \in Talkers : Fifo!writeData(t)
  <2>1. PICK t \in Talkers : Fifo!writeData(t)
    BY <1>4
  <2>2. end[t] \in Hosts /\ UNCHANGED <<end, heard>>
    BY <2>1 DEF Fifo!writeData, FifoInv, TalkInv, FifoTypes
  <2>3. CASE UNCHANGED <<bytes, wrote>>
    BY <1>2, <2>2, <2>3
  <2>4. CASE /\ bytes' = [bytes EXCEPT ![end[t]] = Append(bytes[end[t]], <<t, wrote[t] + 1>>)]
             /\ wrote' = [wrote EXCEPT ![t] = wrote[t] + 1]
    <3>1. PICK g \in Hosts : g = end[t]
      BY <2>2
    <3>2. PICK n \in Nat : n = wrote[t]
      BY DEF FifoInv, FifoTypes
    <3>3. /\ bytes'[g] = Append(bytes[g], <<t, n + 1>>) /\ wrote'[t] = n + 1
          /\ \A h \in Hosts : h # g => bytes'[h] = bytes[h]
          /\ \A u \in Talkers : u # t => wrote'[u] = wrote[u]
      BY <2>4, <3>1, <3>2 DEF FifoInv, FifoTypes
    <3>4. AllLines(g) \in Lines /\ heard'[g] \o bytes'[g] = Append(AllLines(g), <<t, n + 1>>)
      <4>1. <<t, n + 1>> \in Talkers \X Nat
        OBVIOUS
      <4>2. PICK a \in Lines, b \in Lines : a = heard[g] /\ b = bytes[g]
        BY <1>0
      <4>3. a \o b \in Lines /\ a \o Append(b, <<t, n + 1>>) = Append(a \o b, <<t, n + 1>>)
        BY <4>1, LastOfBoth
      <4> QED
        BY <2>2, <3>3, <4>2, <4>3 DEF AllLines
    <3>5. InOrder(AllLines(g), t, n)
      BY <1>1, <3>1, <3>2
    <3>6. /\ InOrder(Append(AllLines(g), <<t, n + 1>>), t, n + 1)
          /\ \A u \in Talkers, m \in Nat :
               u # t /\ InOrder(AllLines(g), u, m) => InOrder(Append(AllLines(g), <<t, n + 1>>), u, m)
      <4>1. PICK s \in Lines : s = AllLines(g)
        BY <3>4
      <4> QED
        BY <3>5, <4>1, LineAppended
    <3>7. ASSUME NEW u \in Talkers, NEW h \in Hosts
          PROVE  InOrder(heard'[h] \o bytes'[h], u, Nr(u, h)')
      <4>1. InOrder(AllLines(h), u, Nr(u, h)) /\ Nr(u, h) \in Nat
        BY <1>1 DEF FifoInv, FifoTypes
      <4>2. CASE h # g
        <5>1. heard'[h] \o bytes'[h] = AllLines(h)
          BY <2>2, <3>3, <4>2 DEF AllLines
        <5>2. Nr(u, h)' = Nr(u, h)
          BY <2>2, <3>1, <3>3, <4>2
        <5> QED
          BY <4>1, <5>1, <5>2
      <4>3. CASE h = g /\ u = t
        BY <2>2, <3>1, <3>3, <3>4, <3>6, <4>3
      <4>4. CASE h = g /\ u # t
        <5>1. Nr(u, h)' = Nr(u, h)
          BY <2>2, <3>3, <4>4
        <5> QED
          BY <3>4, <3>6, <4>1, <4>4, <5>1
      <4> QED
        BY <4>2, <4>3, <4>4
    <3> QED
      BY <3>7 DEF OrderInv, AllLines, InOrder, Own
  <2> QED
    BY <2>1, <2>3, <2>4 DEF Fifo!writeData
<1>5. CASE \E t \in Talkers : Fifo!OpenforWrite(t)
  <2>1. PICK t \in Talkers : /\ talker[t] = "off" /\ end' = [end EXCEPT ![t] = file]
                             /\ UNCHANGED <<bytes, wrote, heard>>
    BY <1>5 DEF Fifo!OpenforWrite
  <2>2. end[t] = "none" /\ wrote[t] = 0
    BY <2>1 DEF FifoInv, TalkInv
  <2>3. \A u \in Talkers : u # t => end'[u] = end[u]
    BY <2>1 DEF FifoInv, FifoTypes
  <2>4. \A u \in Talkers, h \in Hosts : Nr(u, h)' = Nr(u, h)
    BY <2>1, <2>2, <2>3
  <2> QED
    BY <1>2, <2>1, <2>4
<1>6. CASE UNCHANGED <<bytes, heard, end, wrote>>
  BY <1>2, <1>6
<1>7. \/ \E h \in Hosts : Fifo!readData(h)
      \/ \E t \in Talkers : Fifo!writeData(t) \/ Fifo!OpenforWrite(t)
      \/ UNCHANGED <<bytes, heard, end, wrote>>
  BY DEF Fifo!Next, Fifo!Server, Fifo!Client, Fifo!MakeFifo, Fifo!OpenforRead, Fifo!EndOfFile,
         Fifo!Unlink, Fifo!Close, Fifo!Kill, Fifo!QuitTalking
<1> QED
  BY <1>3, <1>4, <1>5, <1>6, <1>7

LEMMA FifoNext == FifoInv /\ Fifo!Next => FifoInv'
<1> SUFFICES ASSUME FifoInv, Fifo!Next PROVE FifoInv'
  OBVIOUS
<1>1. FifoNames
  BY DEF FifoInv, FifoNames
<1>2. FifoNames'
  BY <1>1, FifoServer, FifoClient DEF Fifo!Next
<1>3. OrderInv'
  BY FifoOrder
<1> QED
  BY <1>2, <1>3 DEF FifoInv, FifoNames

LEMMA FifoSame == FifoInv /\ UNCHANGED fifoVars => FifoInv'
<1> SUFFICES ASSUME FifoInv, UNCHANGED <<host, talker, file, end, bytes, wrote, heard, late>> PROVE FifoInv'
  BY DEF fifoVars
<1>1. FifoTypes' /\ FileInv' /\ TalkInv' /\ LateInv'
  BY DEF FifoInv, FifoTypes, FileInv, TalkInv, LateInv, Fifo!Live
<1>2. OrderInv'
  <2> SUFFICES ASSUME NEW t \in Talkers, NEW h \in Hosts
               PROVE  InOrder(heard'[h] \o bytes'[h], t, IF end'[t] = h THEN wrote'[t] ELSE 0)
    BY DEF OrderInv, AllLines, InOrder, Own
  <2> QED
    BY DEF FifoInv, OrderInv, AllLines
<1> QED
  BY <1>1, <1>2 DEF FifoInv

LEMMA FifoRight == FifoInv => Fifo!FifoDelivers
<1> SUFFICES ASSUME FifoInv PROVE Fifo!FifoDelivers
  OBVIOUS
<1>1. Cardinality({h \in Hosts : Fifo!Live(h)}) <= 1
  <2> DEFINE L == {h \in Hosts : Fifo!Live(h)}
  <2>1. L \subseteq {file}
    BY DEF FifoInv, FileInv
  <2>2. IsFiniteSet({file}) /\ Cardinality({file}) = 1
    BY FS_Singleton
  <2>3. Cardinality(L) <= Cardinality({file})
    BY <2>1, <2>2, FS_Subset
  <2> QED
    BY <2>2, <2>3
<1>2. \A S : Fifo!Cardinality(S) = Cardinality(S)
  BY DEF Fifo!Cardinality, Cardinality
<1>3. ASSUME NEW t \in Talkers, end[t] # "none"
      PROVE  InOrder(AllLines(end[t]), t, wrote[t])
  BY <1>3 DEF FifoInv, FifoTypes, OrderInv
<1>4. FileInv /\ LateInv
  BY DEF FifoInv
<1> QED
  BY <1>1, <1>2, <1>3, <1>4 DEF Fifo!FifoDelivers, FileInv, LateInv, InOrder, Own, AllLines
-----------------------------------------------------------------------------
(* The shared memory.                                                      *)
ShmTypes ==
  /\ cells \in Nat /\ wakeups \in Nat /\ wakened \in Nat /\ printed \in Nat /\ begun \in Nat \ {0}
  /\ starts \in [srv : Nat, cli : Nat]
  /\ segment \in BOOLEAN /\ attached \in BOOLEAN /\ fifo \in BOOLEAN
  /\ srv \in {"off", "attached", "opening", "reading", "spinning", "crashed"}
  /\ cli \in {"off", "attached", "clean", "opening", "filling", "waking"}

(* A segment was made by one of the programs, and a server that is not     *)
(* attached to it has found it there.                                      *)
SegmentInv ==
  /\ segment => starts.cli > 0 \/ starts.srv > 0
  /\ srv # "off" /\ ~attached => starts.cli > 0 \/ starts.srv > 1
  /\ srv = "crashed" => ~attached
  /\ srv = "opening" => fifo /\ ~Shm!Writing

(* The letters of the segment are those of the client that is there; and a *)
(* server that reads was not woken more often than it has sent wakeups.    *)
LettersInv ==
  /\ srv \in {"off", "attached", "opening", "spinning"} => wakened = 0 /\ wakeups = 0
  /\ cli = "clean" => cells = 0
  /\ cli \in {"opening", "filling"} => cells = begun - 1
  /\ cli = "waking" => cells = begun
  /\ srv = "reading" /\ cli \in {"filling", "waking"} =>
       wakened + wakeups <= begun - 1 /\ printed >= wakened

ShmInv == ShmTypes /\ SegmentInv /\ LettersInv

LEMMA ShmInit == Shm!Init => ShmInv
<1> SUFFICES ASSUME Shm!Init PROVE ShmInv
  OBVIOUS
<1>1. ShmTypes
  <2>1. starts \in [srv : Nat, cli : Nat]
    BY DEF Shm!Init
  <2>2. cells \in Nat /\ wakeups \in Nat /\ wakened \in Nat /\ printed \in Nat /\ begun \in Nat \ {0}
    BY DEF Shm!Init
  <2>3. /\ segment \in BOOLEAN /\ attached \in BOOLEAN /\ fifo \in BOOLEAN
        /\ srv = "off" /\ cli = "off"
    BY DEF Shm!Init
  <2> QED
    BY <2>1, <2>2, <2>3 DEF ShmTypes
<1>2. SegmentInv
  BY DEF Shm!Init, SegmentInv
<1>3. LettersInv
  BY DEF Shm!Init, LettersInv
<1> QED
  BY <1>1, <1>2, <1>3 DEF ShmInv

LEMMA ShmServer ==
  ASSUME ShmInv, Shm!Server \/ Shm!KillServer PROVE ShmInv'
<1> USE DEF ShmInv
<1>1. CASE Shm!ShmCreater
  <2>1. /\ srv = "off" /\ srv' = "attached" /\ starts' = [starts EXCEPT !.srv = @ + 1]
        /\ segment' = TRUE /\ attached' = ~segment
        /\ UNCHANGED <<fifo, cells, wakeups, cli, wakened, printed, begun>>
    BY <1>1 DEF Shm!ShmCreater, Shm!ShmAttach
  <2>2. /\ starts' \in [srv : Nat, cli : Nat] /\ starts'.srv = starts.srv + 1 /\ starts'.cli = starts.cli
        /\ starts.srv \in Nat /\ starts.cli \in Nat
    BY <2>1 DEF ShmTypes
  <2>3. ShmTypes'
    BY <2>1, <2>2 DEF ShmTypes
  <2>4. starts'.srv > 0 /\ (segment => starts'.cli > 0 \/ starts'.srv > 1)
    BY <2>2 DEF SegmentInv
  <2>5. SegmentInv'
    BY <2>1, <2>4 DEF SegmentInv, ShmTypes
  <2>6. LettersInv'
    BY <2>1 DEF LettersInv
  <2> QED
    BY <2>3, <2>5, <2>6
<1>2. CASE Shm!ServerOpens
  <2>1. /\ srv = "attached" /\ srv' = IF ~fifo THEN "spinning" ELSE IF Shm!Writing THEN "reading" ELSE "opening"
        /\ cli' = IF fifo /\ cli = "opening" THEN "filling" ELSE cli
        /\ UNCHANGED <<segment, fifo, cells, wakeups, attached, wakened, printed, begun, starts>>
    BY <1>2 DEF Shm!ServerOpens
  <2>2. ShmTypes'
    BY <2>1 DEF ShmTypes
  <2>3. SegmentInv'
    BY <2>1 DEF SegmentInv, Shm!Writing
  <2>4. wakened = 0 /\ wakeups = 0 /\ printed >= 0 /\ begun - 1 >= 0
    BY <2>1 DEF LettersInv, ShmTypes
  <2>5. LettersInv'
    BY <2>1, <2>4 DEF LettersInv
  <2> QED
    BY <2>2, <2>3, <2>5
<1>3. CASE Shm!ServerReads
  <2>1. /\ srv \in {"reading", "spinning"}
        /\ \/ attached /\ printed' = cells /\ UNCHANGED srv
           \/ ~attached /\ srv' = "crashed" /\ UNCHANGED printed
        /\ wakened' = (IF srv = "reading" THEN wakened + wakeups ELSE wakened)
        /\ wakeups' = (IF srv = "reading" THEN 0 ELSE wakeups)
        /\ UNCHANGED <<segment, fifo, cells, cli, attached, begun, starts>>
    BY <1>3 DEF Shm!ServerReads, Shm!ShowContent
  <2>2. ShmTypes'
    BY <2>1 DEF ShmTypes
  <2>3. SegmentInv'
    BY <2>1 DEF SegmentInv, Shm!Writing
  <2>4. srv = "spinning" => wakened' = 0 /\ wakeups' = 0
    BY <2>1 DEF LettersInv
  <2>5. ASSUME srv' = "reading", cli \in {"filling", "waking"}
        PROVE  wakened' + wakeups' <= begun - 1 /\ printed' >= wakened'
    <3>1. srv = "reading" /\ wakened' = wakened + wakeups /\ wakeups' = 0 /\ printed' = cells
      BY <2>1, <2>5
    <3>2. wakened + wakeups <= begun - 1 /\ cells >= begun - 1
      BY <2>5, <3>1 DEF LettersInv, ShmTypes
    <3> QED
      BY <3>1, <3>2 DEF ShmTypes
  <2>6. LettersInv'
    BY <2>1, <2>4, <2>5 DEF LettersInv
  <2> QED
    BY <2>2, <2>3, <2>6
<1>4. CASE Shm!KillServer
  <2>1. /\ srv' = "off" /\ attached' = FALSE /\ wakened' = 0 /\ printed' = 0 /\ wakeups' = 0
        /\ UNCHANGED <<segment, fifo, cells, cli, begun, starts>>
    BY <1>4 DEF Shm!KillServer
  <2> QED
    BY <2>1 DEF ShmTypes, SegmentInv, LettersInv
<1> QED
  BY <1>1, <1>2, <1>3, <1>4 DEF Shm!Server

LEMMA ShmClient ==
  ASSUME ShmInv, Shm!Client PROVE ShmInv'
<1> USE DEF ShmInv
<1>1. CASE Shm!ShmUser
  <2>1. /\ cli = "off" /\ cli' = "attached" /\ starts' = [starts EXCEPT !.cli = @ + 1] /\ segment' = TRUE
        /\ UNCHANGED <<fifo, cells, wakeups, srv, attached, wakened, printed, begun>>
    BY <1>1 DEF Shm!ShmUser
  <2>2. /\ starts' \in [srv : Nat, cli : Nat] /\ starts'.srv = starts.srv /\ starts'.cli = starts.cli + 1
        /\ starts.srv \in Nat /\ starts.cli \in Nat
    BY <2>1 DEF ShmTypes
  <2>3. ShmTypes'
    BY <2>1, <2>2 DEF ShmTypes
  <2>4. starts'.cli > 0
    BY <2>2
  <2>5. SegmentInv'
    BY <2>1, <2>4 DEF SegmentInv, Shm!Writing
  <2>6. LettersInv'
    BY <2>1 DEF LettersInv
  <2> QED
    BY <2>3, <2>5, <2>6
<1>2. CASE Shm!CleanShm
  BY <1>2 DEF Shm!CleanShm, ShmTypes, SegmentInv, LettersInv, Shm!Writing
<1>3. CASE Shm!ClientOpens
  <2>1. /\ cli = "clean" /\ fifo' = TRUE /\ begun' = 1 /\ cli' = IF fifo THEN "off" ELSE "opening"
        /\ UNCHANGED <<segment, cells, wakeups, srv, attached, wakened, printed, starts>>
    BY <1>3 DEF Shm!ClientOpens
  <2>2. ShmTypes' /\ LettersInv'
    BY <2>1 DEF ShmTypes, LettersInv
  <2>3. SegmentInv'
    BY <2>1 DEF SegmentInv, Shm!Writing
  <2> QED
    BY <2>2, <2>3
<1>4. CASE Shm!Fill
  <2>1. /\ cli = "filling" /\ cli' = "waking" /\ cells' = begun
        /\ UNCHANGED <<segment, fifo, wakeups, srv, attached, wakened, printed, begun, starts>>
    BY <1>4 DEF Shm!Fill
  <2> QED
    BY <2>1 DEF ShmTypes, SegmentInv, LettersInv, Shm!Writing
<1>5. CASE Shm!Wake
  <2>1. /\ cli = "waking" /\ UNCHANGED <<segment, fifo, cells, srv, attached, wakened, printed, starts>>
        /\ \/ /\ srv = "reading" /\ wakeups' = wakeups + 1 /\ begun' = begun + 1 /\ cli' = "filling"
           \/ srv # "reading" /\ cli' = "off" /\ UNCHANGED <<wakeups, begun>>
    BY <1>5 DEF Shm!Wake
  <2>2. ShmTypes' /\ SegmentInv'
    BY <2>1 DEF ShmTypes, SegmentInv, Shm!Writing
  <2>3. CASE srv = "reading" /\ wakeups' = wakeups + 1 /\ begun' = begun + 1 /\ cli' = "filling"
    <3>1. cells = begun /\ wakened + wakeups <= begun - 1 /\ printed >= wakened
      BY <2>1, <2>3 DEF LettersInv
    <3>2. cells' = begun' - 1 /\ wakened' + wakeups' <= begun' - 1 /\ printed' >= wakened'
      BY <2>1, <2>3, <3>1 DEF ShmTypes
    <3> QED
      BY <2>1, <2>2, <2>3, <3>2 DEF LettersInv
  <2>4. CASE srv # "reading" /\ cli' = "off" /\ UNCHANGED <<wakeups, begun>>
    BY <2>1, <2>2, <2>4 DEF LettersInv
  <2> QED
    BY <2>1, <2>3, <2>4
<1>6. CASE Shm!ClientEnds
  BY <1>6 DEF Shm!ClientEnds, ShmTypes, SegmentInv, LettersInv, Shm!Writing
<1> QED
  BY <1>1, <1>2, <1>3, <1>4, <1>5, <1>6 DEF Shm!Client

LEMMA ShmSame == ShmInv /\ UNCHANGED shmVars => ShmInv'
BY DEF shmVars, ShmInv, ShmTypes, SegmentInv, LettersInv, Shm!Writing

LEMMA ShmRight == ShmInv => Shm!ReaderSees
<1> SUFFICES ASSUME ShmInv PROVE Shm!ReaderSees
  OBVIOUS
<1>1. srv = "reading" /\ wakened > 0 /\ cli \in {"filling", "waking"} => printed >= wakened
  BY DEF ShmInv, LettersInv
<1>2. srv = "crashed" => starts.cli > 0 \/ starts.srv > 1
  <2>1. starts \in [srv : Nat, cli : Nat]
    BY DEF ShmInv, ShmTypes
  <2> QED
    BY <2>1 DEF ShmInv, SegmentInv
<1>3. srv = "opening" => fifo /\ ~Shm!Writing
  BY DEF ShmInv, SegmentInv
<1> QED
  BY <1>1, <1>2, <1>3 DEF Shm!ReaderSees
-----------------------------------------------------------------------------
(* The stream. What was accepted goes through the cache to the file.       *)
Bytes == STRING \ {"missing"}

StreamTypes ==
  /\ stream \in {"closed", "open", "overrun"}
  /\ cache \in Seq(Bytes) /\ accepted \in Seq(Bytes) /\ lineEnd \in Nat
  /\ writeFailed \in BOOLEAN /\ closedWell \in BOOLEAN
  /\ how = "none" => stream = "closed" /\ disk = Stream!Missing
  /\ how # "none" => disk \in Seq(Bytes)

(* The file is the beginning of what was accepted, all of it after a close *)
(* and all but the cache before; lines are not kept back.                  *)
Kept ==
  /\ stream = "open" => disk \o cache = accepted
  /\ closedWell => disk = accepted
  /\ \E rest \in Seq(Bytes) : disk \o rest = accepted
  /\ lineEnd <= Len(disk)

StreamInv ==
  /\ StreamTypes
  /\ closedWell => stream = "closed"
  /\ ~writeFailed /\ how # "none" => Kept

LEMMA StreamInit == Stream!Init => StreamInv
<1> SUFFICES ASSUME Stream!Init PROVE StreamInv
  OBVIOUS
<1>1. /\ cache = <<>> /\ accepted = <<>> /\ cache \in Seq(Bytes) /\ accepted \in Seq(Bytes)
      /\ stream = "closed" /\ how = "none" /\ disk = Stream!Missing /\ lineEnd = 0
      /\ writeFailed = FALSE /\ closedWell = FALSE
  BY DEF Stream!Init
<1> QED
  BY <1>1 DEF StreamInv, StreamTypes

LEMMA StreamOpens ==
  ASSUME StreamInv, NEW mode, mode # "none", Stream!my_fopen(mode) PROVE StreamInv'
<1>1. stream = "closed" /\ cache' = <<>> /\ writeFailed' = FALSE /\ <<>> \in Seq(Bytes) /\ StreamTypes
  BY DEF Stream!my_fopen, StreamInv
<1>2. CASE mode \notin {"w", "a"} /\ disk = Stream!Missing
  <2>1. UNCHANGED <<stream, how, disk, accepted, lineEnd, closedWell>>
    BY <1>2 DEF Stream!my_fopen
  <2>2. how = "none"
    <3>1. Stream!Missing \notin Seq(Bytes)
      <4>1. Stream!Missing[1] = "missing" /\ 1 \in DOMAIN Stream!Missing
        BY DEF Stream!Missing
      <4>2. \A s \in Seq(Bytes) : \A i \in DOMAIN s : s[i] # "missing"
        BY DEF Bytes
      <4> QED
        BY <4>1, <4>2
    <3> QED
      BY <1>1, <1>2, <3>1 DEF StreamTypes
  <2> QED
    BY <1>1, <2>1, <2>2 DEF StreamInv, StreamTypes
<1>3. CASE ~(mode \notin {"w", "a"} /\ disk = Stream!Missing)
  <2>1. /\ stream' = "open" /\ how' = mode /\ closedWell' = FALSE
        /\ disk' = IF mode = "w" \/ disk = Stream!Missing THEN <<>> ELSE disk
        /\ accepted' = disk' /\ lineEnd' = Len(disk')
    BY <1>3 DEF Stream!my_fopen
  <2>2. disk' \in Seq(Bytes)
    BY <1>1, <2>1 DEF StreamTypes
  <2>3. Len(disk') \in Nat /\ disk' \o <<>> = disk'
    BY <2>2, ConcatEmptySeq
  <2>4. Kept'
    <3>1. disk' \o cache' = accepted' /\ lineEnd' = Len(disk')
      BY <1>1, <2>1, <2>3
    <3>2. \E rest \in Seq(Bytes) : disk' \o rest = accepted'
      BY <1>1, <3>1
    <3>3. lineEnd' <= Len(disk')
      BY <2>3, <3>1
    <3> QED
      BY <2>1, <3>1, <3>2, <3>3 DEF Kept
  <2>5. StreamTypes'
    BY <1>1, <2>1, <2>2, <2>3 DEF StreamTypes
  <2> QED
    BY <2>1, <2>4, <2>5 DEF StreamInv
<1> QED
  BY <1>2, <1>3

(* A flush writes all of it, or is short and known to be.                  *)
LEMMA StreamFlush ==
  ASSUME StreamTypes, how # "none", NEW b \in Seq(Bytes), Stream!my_fflush(b)
  PROVE  /\ disk' \in Seq(Bytes) /\ cache' = <<>> /\ writeFailed' \in BOOLEAN
         /\ ~writeFailed' => ~writeFailed /\ disk' = disk \o b
<1>1. disk \in Seq(Bytes) /\ Len(b) \in Nat
  BY DEF StreamTypes
<1>2. PICK n \in 0 .. Len(b) : /\ disk' = disk \o SubSeq(b, 1, n)
                               /\ cache' = <<>> /\ writeFailed' = (writeFailed \/ n < Len(b))
  <2>1. PICK n \in (IF Stream!Writable THEN 0 .. Len(b) ELSE {0}) :
          /\ disk' = disk \o SubSeq(b, 1, n)
          /\ cache' = <<>> /\ writeFailed' = (writeFailed \/ n < Len(b))
    BY DEF Stream!my_fflush
  <2>2. 0 \in 0 .. Len(b)
    BY <1>1
  <2>3. n \in 0 .. Len(b)
    BY <2>1, <2>2
  <2> QED
    BY <2>1, <2>3
<1>3. SubSeq(b, 1, n) \in Seq(Bytes)
  BY <1>1, <1>2
<1>4. disk' \in Seq(Bytes)
  BY <1>1, <1>2, <1>3, ConcatProperties
<1>5. ASSUME ~writeFailed' PROVE ~writeFailed /\ disk' = disk \o b
  <2>1. ~writeFailed /\ ~(n < Len(b))
    BY <1>2, <1>5
  <2>2. n = Len(b)
    BY <1>1, <2>1
  <2>3. SubSeq(b, 1, Len(b)) = b
    BY SubSeqFull
  <2> QED
    BY <1>2, <2>1, <2>2, <2>3
<1>6. writeFailed' \in BOOLEAN
  BY <1>2
<1> QED
  BY <1>2, <1>4, <1>5, <1>6

LEMMA StreamWrites ==
  ASSUME StreamInv, NEW piece \in Pieces, Stream!my_fwrite(piece) PROVE StreamInv'
<1>1. /\ stream = "open" /\ accepted' = accepted \o piece /\ UNCHANGED <<how, closedWell>>
      /\ \/ stream' = "overrun" /\ UNCHANGED <<disk, cache, lineEnd, writeFailed>>
         \/ UNCHANGED stream /\ Stream!my_fflush(cache \o piece) /\ lineEnd' = Len(accepted')
         \/ UNCHANGED stream /\ cache' = cache \o piece /\ UNCHANGED <<disk, lineEnd, writeFailed>>
  BY DEF Stream!my_fwrite
<1>2. piece \in Seq(Bytes)
  <2>1. piece \in Seq(STRING) /\ \A i \in DOMAIN piece : piece[i] # "missing"
    BY PiecesAssumption
  <2>2. piece \in [1 .. Len(piece) -> Bytes] /\ Len(piece) \in Nat
    BY <2>1 DEF Bytes
  <2> QED
    BY <2>2
<1>3. StreamTypes /\ how # "none" /\ ~closedWell
  BY <1>1 DEF StreamInv, StreamTypes
<1>4. /\ disk \in Seq(Bytes) /\ cache \in Seq(Bytes) /\ accepted \in Seq(Bytes)
      /\ cache \o piece \in Seq(Bytes) /\ accepted' \in Seq(Bytes) /\ Len(accepted') \in Nat
  BY <1>1, <1>2, <1>3 DEF StreamTypes
<1>5. disk \o (cache \o piece) = (disk \o cache) \o piece
  <2>1. PICK d \in Seq(Bytes), c \in Seq(Bytes) : d = disk /\ c = cache
    BY <1>4
  <2>2. (d \o c) \o piece = d \o (c \o piece)
    BY <1>2, ConcatAssociative
  <2> QED
    BY <2>1, <2>2
<1>6. ~writeFailed => disk \o (cache \o piece) = accepted'
  BY <1>1, <1>3, <1>5 DEF StreamInv, Kept
<1>7. CASE stream' = "overrun" /\ UNCHANGED <<disk, cache, lineEnd, writeFailed>>
  <2>1. StreamTypes'
    BY <1>1, <1>3, <1>4, <1>7 DEF StreamTypes
  <2>2. ~writeFailed => Kept'
    BY <1>1, <1>3, <1>4, <1>6, <1>7 DEF StreamInv, Kept
  <2> QED
    BY <1>1, <1>3, <1>7, <2>1, <2>2 DEF StreamInv
<1>8. CASE UNCHANGED stream /\ Stream!my_fflush(cache \o piece) /\ lineEnd' = Len(accepted')
  <2>1. PICK b \in Seq(Bytes) : b = cache \o piece
    BY <1>4
  <2>2. Stream!my_fflush(b)
    BY <1>8, <2>1
  <2>3. /\ disk' \in Seq(Bytes) /\ cache' = <<>> /\ writeFailed' \in BOOLEAN
        /\ ~writeFailed' => ~writeFailed /\ disk' = disk \o b
    BY <1>3, <2>2, StreamFlush
  <2>4. StreamTypes'
    BY <1>1, <1>3, <1>4, <1>8, <2>3 DEF StreamTypes
  <2>5. ASSUME ~writeFailed' PROVE Kept'
    <3>1. disk' = accepted'
      BY <1>6, <2>1, <2>3, <2>5
    <3>2. accepted' \o <<>> = accepted' /\ <<>> \in Seq(Bytes)
      BY <1>4, ConcatEmptySeq
    <3>3. disk' \o cache' = accepted'
      BY <2>3, <3>1, <3>2
    <3>4. \E rest \in Seq(Bytes) : disk' \o rest = accepted'
      BY <3>1, <3>2
    <3>5. lineEnd' <= Len(disk')
      BY <1>4, <1>8, <3>1
    <3> QED
      BY <3>1, <3>3, <3>4, <3>5 DEF Kept
  <2> QED
    BY <1>1, <1>3, <2>4, <2>5 DEF StreamInv
<1>9. CASE UNCHANGED stream /\ cache' = cache \o piece /\ UNCHANGED <<disk, lineEnd, writeFailed>>
  <2>1. StreamTypes'
    BY <1>1, <1>3, <1>4, <1>9 DEF StreamTypes
  <2>2. ~writeFailed => Kept'
    BY <1>1, <1>3, <1>4, <1>6, <1>9 DEF StreamInv, Kept
  <2> QED
    BY <1>1, <1>3, <1>9, <2>1, <2>2 DEF StreamInv
<1> QED
  BY <1>1, <1>7, <1>8, <1>9

LEMMA StreamCloses ==
  ASSUME StreamInv, Stream!my_fclose PROVE StreamInv'
<1>1. /\ stream = "open" /\ Stream!my_fflush(cache) /\ stream' = "closed" /\ closedWell' = TRUE
      /\ UNCHANGED <<how, accepted, lineEnd>>
  BY DEF Stream!my_fclose
<1>2. StreamTypes /\ how # "none"
  BY <1>1 DEF StreamInv, StreamTypes
<1>3. PICK b \in Seq(Bytes) : b = cache
  BY <1>2 DEF StreamTypes
<1>4. Stream!my_fflush(b)
  BY <1>1, <1>3
<1>5. /\ disk' \in Seq(Bytes) /\ cache' = <<>> /\ writeFailed' \in BOOLEAN
      /\ ~writeFailed' => ~writeFailed /\ disk' = disk \o b
  BY <1>2, <1>4, StreamFlush
<1>6. StreamTypes'
  BY <1>1, <1>2, <1>5 DEF StreamTypes
<1>7. ASSUME ~writeFailed' PROVE Kept'
  <2>1. disk' = accepted /\ Kept
    BY <1>1, <1>2, <1>3, <1>5, <1>7 DEF StreamInv, Kept
  <2>2. accepted \o <<>> = accepted /\ <<>> \in Seq(Bytes) /\ accepted \in Seq(Bytes)
    BY <1>2, ConcatEmptySeq DEF StreamTypes
  <2>3. lineEnd <= Len(accepted)
    <3>1. Len(accepted) = Len(disk) + Len(b) /\ Len(disk) \in Nat /\ Len(b) \in Nat
      <4>1. disk \in Seq(Bytes) /\ disk \o b = accepted
        BY <1>1, <1>2, <1>3, <2>1 DEF StreamTypes, Kept
      <4> QED
        BY <4>1
    <3>2. lineEnd <= Len(disk) /\ lineEnd \in Nat
      BY <1>2, <2>1 DEF Kept, StreamTypes
    <3> QED
      BY <3>1, <3>2
  <2> QED
    BY <1>1, <2>1, <2>2, <2>3 DEF Kept
<1> QED
  BY <1>1, <1>6, <1>7 DEF StreamInv

LEMMA StreamNext == StreamInv /\ Stream!Next => StreamInv'
<1> SUFFICES ASSUME StreamInv, Stream!Next PROVE StreamInv'
  OBVIOUS
<1>1. CASE Stream!Kill
  <2>1. /\ stream \in {"open", "overrun"} /\ stream' = "closed"
        /\ UNCHANGED <<how, disk, cache, accepted, lineEnd, writeFailed, closedWell>>
    BY <1>1 DEF Stream!Kill
  <2>2. StreamTypes' /\ (~writeFailed /\ how # "none" => Kept')
    BY <2>1 DEF StreamInv, StreamTypes, Kept
  <2> QED
    BY <2>1, <2>2 DEF StreamInv
<1> QED
  BY <1>1, ModesAssumption, StreamOpens, StreamWrites, StreamCloses DEF Stream!Next

LEMMA StreamSame == StreamInv /\ UNCHANGED streamVars => StreamInv'
<1> SUFFICES ASSUME StreamInv, UNCHANGED streamVars PROVE StreamInv'
  OBVIOUS
<1>1. /\ stream' = stream /\ how' = how /\ disk' = disk /\ cache' = cache /\ accepted' = accepted
      /\ lineEnd' = lineEnd /\ writeFailed' = writeFailed /\ closedWell' = closedWell
  BY DEF streamVars
<1>2. StreamTypes'
  BY <1>1 DEF StreamInv, StreamTypes
<1>3. Kept => Kept'
  BY <1>1 DEF Kept
<1> QED
  BY <1>1, <1>2, <1>3 DEF StreamInv

LEMMA StreamRight == StreamInv => Stream!StreamKeeps
<1> SUFFICES ASSUME StreamInv, ~writeFailed, how # "none"
             PROVE  /\ stream = "open" => disk \o cache = accepted
                    /\ closedWell => disk = accepted
                    /\ disk = SubSeq(accepted, 1, Len(disk)) /\ lineEnd <= Len(disk)
  BY DEF Stream!StreamKeeps
<1>1. Kept /\ disk \in Seq(Bytes)
  BY DEF StreamInv, StreamTypes
<1>2. PICK rest \in Seq(Bytes) : disk \o rest = accepted
  BY <1>1 DEF Kept
<1>3. SubSeq(disk \o rest, 1, Len(disk)) = disk
  <2>1. PICK d \in Seq(Bytes) : d = disk
    BY <1>1
  <2>2. d = SubSeq(d \o rest, 1, Len(d))
    <3>1. /\ d \o rest \in Seq(Bytes) /\ Len(d \o rest) = Len(d) + Len(rest)
          /\ Len(d) \in Nat /\ Len(rest) \in Nat /\ DOMAIN d = 1 .. Len(d)
          /\ \A i \in 1 .. Len(d) : (d \o rest)[i] = d[i]
      OBVIOUS
    <3> DEFINE e == SubSeq(d \o rest, 1, Len(d))
    <3>2. Len(e) = Len(d) /\ e \in Seq(Bytes) /\ \A i \in 1 .. Len(d) : e[i] = (d \o rest)[i]
      BY <3>1
    <3> HIDE DEF e
    <3>3. e = d
      BY <3>1, <3>2, SeqEqual
    <3> QED
      BY <3>3 DEF e
  <2> QED
    BY <2>1, <2>2
<1> QED
  BY <1>1, <1>2, <1>3 DEF Kept
-----------------------------------------------------------------------------
(* The reads that do not block.                                            *)
LEMMA KeysNext == Keys!ReadsToTheEnd /\ Keys!Next => Keys!ReadsToTheEnd'
BY DEF Keys!ReadsToTheEnd, Keys!Next, Keys!SetNonBlock, Keys!Read, Keys!Echo, Keys!ReadDone,
       Keys!WouldBlock, Keys!ReadError, Keys!Wakes, Keys!Type, Keys!Leave

LEMMA KeysInit == Keys!Init => Keys!ReadsToTheEnd
BY DEF Keys!Init, Keys!ReadsToTheEnd

LEMMA KeysSame == Keys!ReadsToTheEnd /\ UNCHANGED keyVars => Keys!ReadsToTheEnd'
BY DEF keyVars, Keys!ReadsToTheEnd
-----------------------------------------------------------------------------
(* The anonymous pipe.                                                     *)
PipeDemoInv ==
  /\ father \in {"start", "forked", "reading", "closing", "waiting", "over"}
  /\ child \in {"none", "forked", "sending", "zombie", "reaped"}
  /\ messages \in Nat /\ taken \in Nat /\ taken <= messages
  /\ child \in {"forked", "sending"} => "child" \in wfd
  /\ father = "start" => child = "none"
  /\ child = "reaped" => father = "over"
  /\ father \in {"closing", "waiting"} => taken = messages
  /\ father \in {"closing", "waiting"} => child \in {"none", "zombie"}
  /\ father = "over" => child \in {"none", "reaped"}

LEMMA PipeDemoInit == Demo!Init => PipeDemoInv
BY DEF Demo!Init, PipeDemoInv

LEMMA PipeDemoNext == PipeDemoInv /\ Demo!Next => PipeDemoInv'
<1> SUFFICES ASSUME PipeDemoInv, Demo!Next PROVE PipeDemoInv'
  OBVIOUS
<1> USE DEF PipeDemoInv
<1>1. CASE Demo!Fork
  BY <1>1 DEF Demo!Fork
<1>2. CASE Demo!PipeFails
  BY <1>2 DEF Demo!PipeFails
<1>3. CASE Demo!FatherCloses
  BY <1>3 DEF Demo!FatherCloses
<1>4. CASE Demo!ParProcessAccept
  BY <1>4 DEF Demo!ParProcessAccept
<1>5. CASE Demo!CloseRead
  BY <1>5 DEF Demo!CloseRead
<1>6. CASE Demo!WaitChild
  BY <1>6 DEF Demo!WaitChild
<1>7. CASE Demo!ChildCloses
  BY <1>7 DEF Demo!ChildCloses
<1>8. CASE Demo!SubProcessSend
  BY <1>8 DEF Demo!SubProcessSend
<1>9. CASE Demo!KillChild
  BY <1>9 DEF Demo!KillChild
<1> QED
  BY <1>1, <1>2, <1>3, <1>4, <1>5, <1>6, <1>7, <1>8, <1>9 DEF Demo!Next, Demo!Father, Demo!Child

LEMMA PipeDemoSame == PipeDemoInv /\ UNCHANGED demoVars => PipeDemoInv'
BY DEF demoVars, PipeDemoInv

LEMMA PipeDemoRight == PipeDemoInv => Demo!AcceptsAll
BY DEF PipeDemoInv, Demo!AcceptsAll
-----------------------------------------------------------------------------
(* The programs together; one of them is in a behaviour.                   *)
IpcInv == FifoInv /\ ShmInv /\ PipeDemoInv /\ StreamInv /\ Keys!ReadsToTheEnd

LEMMA IpcInvNext == IpcInv /\ [IpcNext]_allVars => IpcInv'
<1> SUFFICES ASSUME IpcInv, [IpcNext]_allVars PROVE IpcInv'
  OBVIOUS
<1> USE DEF IpcInv
<1>1. FifoInv'
  <2>1. Fifo!Next \/ UNCHANGED fifoVars
    BY DEF IpcNext, InPool, InFifo, InShm, InStream, InKeys, InDemo, allVars
  <2> QED
    BY <2>1, FifoNext, FifoSame
<1>2. ShmInv'
  <2>1. Shm!Next \/ UNCHANGED shmVars
    BY DEF IpcNext, InPool, InFifo, InShm, InStream, InKeys, InDemo, allVars
  <2> QED
    BY <2>1, ShmServer, ShmClient, ShmSame DEF Shm!Next
<1>3. PipeDemoInv'
  <2>1. Demo!Next \/ UNCHANGED demoVars
    BY DEF IpcNext, InPool, InFifo, InShm, InStream, InKeys, InDemo, allVars
  <2> QED
    BY <2>1, PipeDemoNext, PipeDemoSame
<1>4. StreamInv'
  <2>1. Stream!Next \/ UNCHANGED streamVars
    BY DEF IpcNext, InPool, InFifo, InShm, InStream, InKeys, InDemo, allVars
  <2> QED
    BY <2>1, StreamNext, StreamSame
<1>5. Keys!ReadsToTheEnd'
  <2>1. Keys!Next \/ UNCHANGED keyVars
    BY DEF IpcNext, InPool, InFifo, InShm, InStream, InKeys, InDemo, allVars
  <2> QED
    BY <2>1, KeysNext, KeysSame
<1> QED
  BY <1>1, <1>2, <1>3, <1>4, <1>5

(* The accounts of the five programs beside the pool hold for any number   *)
(* of processes, lines, letters and bytes.                                 *)
THEOREM IpcInvariant == IpcSpec => []IpcInv
<1>1. IpcInit => IpcInv
  BY FifoInit, ShmInit, PipeDemoInit, StreamInit, KeysInit DEF IpcInit, IpcInv
<1> QED
  BY <1>1, IpcInvNext, PTL DEF IpcSpec

(* The lines written to a fifo are read in order, the letters put into the *)
(* shared memory and the messages of the pipe demo are seen.               *)
THEOREM PipesDeliverHolds == IpcSpec => []PipesDeliver
<1>1. IpcInv => PipesDeliver
  BY FifoRight, ShmRight, PipeDemoRight DEF IpcInv, PipesDeliver
<1> QED
  BY <1>1, IpcInvariant, PTL

(* mystdio keeps what it took unless a write is short, and a program that  *)
(* reads without blocking stops at the end of its input only.              *)
THEOREM BytesKeptHolds == IpcSpec => []BytesKept
<1>1. IpcInv => BytesKept
  BY StreamRight DEF IpcInv, BytesKept
<1> QED
  BY <1>1, IpcInvariant, PTL
=============================================================================
