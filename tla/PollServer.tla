----------------------------- MODULE PollServer -----------------------------
(* NetCode/11.pollServer: the same loop over an array of pollfd, which     *)
(* keeps the results of poll from one pass to the next.                    *)
EXTENDS EventLoop

CONSTANT gnum    \* size of the array; above FdLimit poll would always fail

Pos == 0 .. gnum - 1

VARIABLES
  fd_events,   \* fd_events[p]: fd, and whether revents has POLLIN
  i            \* the position HandlerEvent is at

server == <<pc, n, fd_events, i>>
vars == <<sockets, server>>

BuildListenSocket == SocketsInit({})

unused == [fd |-> gdefaultfd, revents |-> FALSE]
InitServer ==
  fd_events = [p \in Pos |-> IF p = 0 THEN [unused EXCEPT !.fd = ListenFd] ELSE unused]
Init == BuildListenSocket /\ InitServer /\ pc = "loop" /\ n = 0 /\ i = 0

watched == {fd_events[p].fd : p \in Pos} \ {gdefaultfd}
Ready == {p \in Pos : p >= i /\ fd_events[p].fd # gdefaultfd /\ fd_events[p].revents}
Turn == Min(Ready)

(* The kernel writes revents at every position. *)
Marked(ready) == [p \in Pos |-> [fd_events[p] EXCEPT !.revents = fd_events[p].fd \in ready]]
-----------------------------------------------------------------------------
Poll ==
  LET ready == {f \in watched : Readable(f)} IN
    /\ pc = "loop" /\ ready # {}
    /\ fd_events' = Marked(ready) /\ n' = Cardinality(ready)
    /\ i' = 0 /\ pc' = "dispatch"
    /\ UNCHANGED sockets

TimeOut ==
  /\ pc = "loop" /\ \A f \in watched : ~Readable(f)
  /\ fd_events' = Marked({}) /\ n' = 0
  /\ UNCHANGED <<sockets, pc, i>>

(* "case -1" has no break, and HandlerEvent finds what poll has left in    *)
(* revents: nothing after EINTR, the results of the last pass after ENOMEM.*)
PollFails ==
  /\ MuxMayFail
  /\ pc = "loop"
  /\ fd_events' \in {fd_events, Marked({})} /\ n' = -1
  /\ i' = 0 /\ pc' = "dispatch"
  /\ UNCHANGED sockets

freePositions == {p \in 1 .. gnum - 1 : fd_events[p].fd = gdefaultfd}
Handling(f) == pc = "dispatch" /\ Ready # {} /\ f = fd_events[Turn].fd

(* MUTANT of Acceptor: it accepts until there is nothing left, which only  *)
(* a nonblocking socket can tell.                                          *)
Acceptor_Repeats ==
  /\ Handling(ListenFd) /\ AcceptOne
  /\ FreeFds # {} /\ freePositions # {}
  /\ fd_events' = [fd_events EXCEPT ![Min(freePositions)].fd = NewFd]
  /\ UNCHANGED <<pc, n, i>>

(* A new connection takes the first free position, where revents is still  *)
(* 0; without one it is closed at once.                                    *)
Acceptor ==
  /\ Handling(ListenFd)
  /\ IF freePositions = {}
     THEN /\ backlog # <<>>
          /\ backlog' = IF FreeFds = {} THEN backlog ELSE Tail(backlog)
          /\ UNCHANGED <<peer, fds, asked, unread, replies, reset, fd_events>>
     ELSE /\ AcceptOne
          /\ fd_events' = IF FreeFds = {} THEN fd_events
                          ELSE [fd_events EXCEPT ![Min(freePositions)].fd = NewFd]
  /\ i' = Turn + 1
  /\ UNCHANGED <<pc, n>>

Receive ==
  /\ \E f \in Connections : Handling(f) /\ RecvSome(f)
  /\ i' = Turn /\ pc' = "reply"
  /\ UNCHANGED <<n, fd_events>>

Reply ==
  /\ pc = "reply" /\ SendTo(fd_events[i].fd)
  /\ i' = i + 1
  /\ UNCHANGED <<n, fd_events>>

(* MUTANT of Drop: the position keeps the descriptor it has closed. *)
Drop_StaysWatched ==
  /\ \E f \in Connections : Handling(f) /\ CloseEnded(f)
  /\ i' = Turn + 1
  /\ UNCHANGED <<pc, n, fd_events>>

Drop ==
  /\ \E f \in Connections : Handling(f) /\ CloseEnded(f)
  /\ fd_events' = [fd_events EXCEPT ![Turn] = unused]
  /\ i' = Turn + 1
  /\ UNCHANGED <<pc, n>>

(* n and i are local to a pass, revents is not. *)
EndPass ==
  /\ pc = "dispatch" /\ Ready = {}
  /\ pc' = "loop" /\ n' = 0 /\ i' = 0
  /\ UNCHANGED <<sockets, fd_events>>
-----------------------------------------------------------------------------
HandlerIO == Receive \/ Reply \/ Drop
HandlerEvent == Acceptor \/ HandlerIO \/ EndPass
Loop == Poll \/ TimeOut \/ PollFails \/ HandlerEvent

Next == Loop \/ \E c \in Clients : ClientStep(c) /\ UNCHANGED server
Spec == Init /\ [][Next]_vars
-----------------------------------------------------------------------------
(* The handlers wait in accept or recv for what poll has not announced.    *)
Blocked == pc = "dispatch" /\ Ready # {} /\ ~Readable(fd_events[Turn].fd)

(* The array holds every connection the server has open, each at one       *)
(* position, and nothing else.                                             *)
WatchesWhatIsOpen ==
  /\ watched = Connections \cup {ListenFd}
  /\ \A p, q \in Pos :
       fd_events[p].fd = fd_events[q].fd /\ fd_events[p].fd # gdefaultfd => p = q
=============================================================================
