---------------------------- MODULE SelectServer ----------------------------
(* NetCode/10.selectServer: one thread watches the listening socket and    *)
(* all connections with select, and handles the ready ones in the order of *)
(* its array of descriptors.                                               *)
EXTENDS EventLoop

CONSTANTS
  gnum,        \* size of the array, and the number of bits of an fd_set
  Inherited    \* descriptors that are open when the server starts

ASSUME SelectAssumption ==
  /\ gnum \in Nat /\ FdLimit <= gnum
  /\ Inherited \subseteq Fd \ (0 .. ListenFd)

Pos == 0 .. gnum - 1

VARIABLES
  fd_array,   \* fd_array[p]: the descriptor watched at p, or gdefaultfd
  rfds,       \* the set select has left
  i           \* the position HandlerEvent is at

server == <<pc, n, fd_array, rfds, i>>
vars == <<sockets, server>>

BuildListenSocket == SocketsInit(Inherited)

Init ==
  /\ BuildListenSocket
  /\ pc = "loop" /\ n = 0 /\ rfds = {} /\ i = 0
  /\ fd_array = [p \in Pos |-> IF p = 0 THEN ListenFd ELSE gdefaultfd]

watched == {fd_array[p] : p \in Pos} \ {gdefaultfd}

(* The positions from i on that HandlerEvent finds in rfds.                *)
Ready == {p \in Pos : p >= i /\ fd_array[p] \in rfds \ {gdefaultfd}}
Turn == Min(Ready)
-----------------------------------------------------------------------------
Select ==
  /\ pc = "loop" /\ \E f \in watched : Readable(f)
  /\ rfds' = {f \in watched : Readable(f)} /\ n' = Cardinality(rfds')
  /\ i' = 0 /\ pc' = "dispatch"
  /\ UNCHANGED <<sockets, fd_array>>

(* "case -1" has no break: HandlerEvent gets the set as it was passed in,  *)
(* with every descriptor in it.                                            *)
SelectFails ==
  /\ MuxMayFail
  /\ pc = "loop"
  /\ rfds' = watched /\ n' = -1
  /\ i' = 0 /\ pc' = "dispatch"
  /\ UNCHANGED <<sockets, fd_array>>

freePositions == {p \in 1 .. gnum - 1 : fd_array[p] = gdefaultfd}
Handling(f) == pc = "dispatch" /\ Ready # {} /\ f = fd_array[Turn]

(* MUTANT of Acceptor: the pass ends after a connection event. *)
Acceptor_EndsPass ==
  /\ Handling(ListenFd) /\ AcceptOne
  /\ fd_array' = IF FreeFds = {} THEN fd_array ELSE [fd_array EXCEPT ![Min(freePositions)] = NewFd]
  /\ i' = gnum
  /\ UNCHANGED <<pc, n, rfds>>

(* A free position is always there: the numbers 0 to 2 are taken, and an   *)
(* fd_set has room for as many numbers as the array has positions.         *)
Acceptor ==
  /\ Handling(ListenFd) /\ AcceptOne
  /\ fd_array' = IF FreeFds = {} THEN fd_array ELSE [fd_array EXCEPT ![Min(freePositions)] = NewFd]
  /\ i' = Turn + 1
  /\ UNCHANGED <<pc, n, rfds>>

Receive ==
  /\ \E f \in Connections : Handling(f) /\ RecvSome(f)
  /\ i' = Turn /\ pc' = "reply"
  /\ UNCHANGED <<n, fd_array, rfds>>

(* MUTANT of Reply: the header and the body are sent one after the other. *)
Reply_TwoSends ==
  LET c == fds[fd_array[i]] IN
    /\ pc = "reply"
    /\ IF peer[c] = "closed"
       THEN pc' = "killed" /\ UNCHANGED <<replies, reset>>
       ELSE pc' = "dispatch" /\ Deliver(c)
    /\ i' = i + 1
    /\ UNCHANGED <<peer, backlog, fds, asked, unread, n, fd_array, rfds>>

Reply ==
  /\ pc = "reply" /\ SendTo(fd_array[i])
  /\ i' = i + 1
  /\ UNCHANGED <<n, fd_array, rfds>>

Drop ==
  /\ \E f \in Connections : Handling(f) /\ CloseEnded(f)
  /\ fd_array' = [fd_array EXCEPT ![Turn] = gdefaultfd]
  /\ i' = Turn + 1
  /\ UNCHANGED <<pc, n, rfds>>

(* n, rfds and i are local to a pass. *)
EndPass ==
  /\ pc = "dispatch" /\ Ready = {}
  /\ pc' = "loop" /\ n' = 0 /\ rfds' = {} /\ i' = 0
  /\ UNCHANGED <<sockets, fd_array>>
-----------------------------------------------------------------------------
HandlerIO == Receive \/ Reply \/ Drop
HandlerEvent == Acceptor \/ HandlerIO \/ EndPass
Loop == Select \/ SelectFails \/ HandlerEvent

Next == Loop \/ \E c \in Clients : ClientStep(c) /\ UNCHANGED server
Spec == Init /\ [][Next]_vars
-----------------------------------------------------------------------------
(* The handlers wait in accept or recv for what select has not announced.  *)
Blocked == pc = "dispatch" /\ Ready # {} /\ ~Readable(fd_array[Turn])

(* The array holds every connection the server has open, each at one       *)
(* position, and nothing else; and no number is too large for an fd_set.   *)
WatchesWhatIsOpen ==
  /\ watched = Connections \cup {ListenFd}
  /\ \A p, q \in Pos : fd_array[p] = fd_array[q] /\ fd_array[p] # gdefaultfd => p = q
  /\ \A f \in watched : f < gnum
=============================================================================
