---------------------------- MODULE EpollServer ----------------------------
(* NetCode/12.epollServer: the same loop, with the set of descriptors kept *)
(* by the kernel and the events of one wait copied into an array. No more  *)
(* than events_num descriptors are ready at once.                          *)
EXTENDS EventLoop

VARIABLES
  interest,    \* the descriptors added to the epoll instance
  revs,        \* the events HandlerEvents has still to handle, in any order
  fd,          \* the descriptor HandlerIO replies to
  unwatched    \* history: the connections that epoll_ctl did not add

server == <<pc, n, interest, revs, fd, unwatched>>
vars == <<sockets, server>>

_epfd == 4

BuildListenSocket == SocketsInit({_epfd})

Init ==
  /\ BuildListenSocket
  /\ pc = "loop" /\ n = 0
  /\ interest = {ListenFd}
  /\ revs = {} /\ fd = ListenFd /\ unwatched = {}
-----------------------------------------------------------------------------
(* "case -1" has its break here: a call that fails changes nothing.        *)
Wait ==
  LET ready == {f \in interest : Readable(f)} IN
    /\ pc = "loop" /\ ready # {}
    /\ revs' = ready /\ n' = Cardinality(ready)
    /\ pc' = "dispatch"
    /\ UNCHANGED <<sockets, interest, fd, unwatched>>

Handling(f) == pc = "dispatch" /\ f \in revs

(* The result of epoll_ctl is not looked at.                               *)
Acceptor ==
  /\ Handling(ListenFd) /\ AcceptOne
  /\ IF FreeFds = {}
     THEN UNCHANGED <<interest, unwatched>>
     ELSE \/ interest' = interest \cup {NewFd} /\ UNCHANGED unwatched
          \/ MuxMayFail /\ unwatched' = unwatched \cup {NewFd} /\ UNCHANGED interest
  /\ revs' = revs \ {ListenFd}
  /\ UNCHANGED <<pc, n, fd>>

Receive ==
  /\ \E f \in Connections :
       Handling(f) /\ RecvSome(f) /\ fd' = f /\ revs' = revs \ {f}
  /\ pc' = "reply"
  /\ UNCHANGED <<n, interest, unwatched>>

Reply ==
  /\ pc = "reply" /\ SendTo(fd)
  /\ UNCHANGED <<n, interest, revs, fd, unwatched>>

(* EPOLL_CTL_DEL, then close. *)
Drop ==
  /\ \E f \in Connections :
       /\ Handling(f) /\ CloseEnded(f)
       /\ revs' = revs \ {f} /\ interest' = interest \ {f}
  /\ UNCHANGED <<pc, n, fd, unwatched>>

EndPass ==
  /\ pc = "dispatch" /\ revs = {}
  /\ pc' = "loop" /\ n' = 0 /\ fd' = ListenFd
  /\ UNCHANGED <<sockets, interest, revs, unwatched>>
-----------------------------------------------------------------------------
HandlerIO == Receive \/ Reply \/ Drop
HandlerEvents == Acceptor \/ HandlerIO \/ EndPass
Loop == Wait \/ HandlerEvents

Next == Loop \/ \E c \in Clients : ClientStep(c) /\ UNCHANGED server
Spec == Init /\ [][Next]_vars
-----------------------------------------------------------------------------
(* The handlers wait in accept or recv for what epoll has not announced.   *)
Blocked == pc = "dispatch" /\ \E f \in revs : ~Readable(f)

(* What is watched is open, and every open connection is watched except    *)
(* those whose epoll_ctl failed: they stay open and silent until the end.  *)
WatchesWhatIsOpen ==
  /\ interest \cup unwatched = Connections \cup {ListenFd}
  /\ interest \cap unwatched = {}
=============================================================================
