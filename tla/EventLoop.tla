----------------------------- MODULE EventLoop -----------------------------
(* What the select, poll and epoll servers of NetCode/10, 11 and 12 have   *)
(* in common: one thread that waits for events and handles one after the   *)
(* other, the descriptor a handler works on, and what it does with it.     *)
EXTENDS Sockets

CONSTANT
  MuxMayFail    \* whether waiting for events may fail, for ENOMEM or EINTR say

ASSUME EventLoopAssumption == MuxMayFail \in BOOLEAN

gdefaultfd == -1

VARIABLES
  pc,   \* "loop", "dispatch", "reply", or "killed" by SIGPIPE
  n     \* what select, poll or epoll_wait has returned

Readable(f) == IF fds[f] = "listen" THEN backlog # <<>> ELSE DataOrEnd(fds[f])
Connections == {f \in Fd : fds[f] \in Clients}

(* recv on f returns some of what has arrived: a piece of a request, one,  *)
(* or several at once. Whatever it is, it gets one reply.                  *)
RecvSome(f) ==
  LET c == fds[f] IN
    /\ c \in Clients /\ unread[c] > 0
    /\ \E k \in 1 .. unread[c] : unread' = [unread EXCEPT ![c] = @ - k]
    /\ UNCHANGED <<peer, backlog, fds, asked, replies, reset>>

(* send on f. *)
SendTo(f) ==
  /\ IF Broken(fds[f])
     THEN pc' = "killed" /\ UNCHANGED <<replies, reset>>
     ELSE pc' = "dispatch" /\ Deliver(fds[f])
  /\ UNCHANGED <<peer, backlog, fds, asked, unread>>

(* recv on f returns 0 or an error, the client is gone, and f is closed.   *)
CloseEnded(f) ==
  LET c == fds[f] IN
    /\ c \in Clients /\ unread[c] = 0 /\ peer[c] = "closed"
    /\ Close(f)
    /\ UNCHANGED <<peer, backlog, asked, unread, replies, reset>>

(* accept waits for a connection; without a descriptor it fails, and the   *)
(* connection stays in the backlog.                                        *)
AcceptOne ==
  /\ backlog # <<>>
  /\ IF FreeFds = {}
     THEN UNCHANGED <<backlog, fds>>
     ELSE backlog' = Tail(backlog) /\ Open(Head(backlog))
  /\ UNCHANGED <<peer, asked, unread, replies, reset>>
=============================================================================
