------------------------------ MODULE Sockets ------------------------------
(* What the servers of NetCode see of the kernel and of their clients: the *)
(* descriptor table of the server process, the queue of connections that   *)
(* wait for accept, and stream sockets. None of it is code of this         *)
(* repository; it is modelled from how the servers use it. A client        *)
(* connects once, so a client also names its connection. What is counted   *)
(* as a request is what one recv may find: a stream has no boundaries, so  *)
(* a request that TCP tears in two, or one sent before the last reply,     *)
(* counts as one more.                                                     *)
EXTENDS Integers, Sequences, FiniteSets, FiniteSetsExt

CONSTANTS
  Clients,
  Askers,       \* the clients that send requests
  Torn,         \* those of whom more may arrive before the reply
  MaxRequests,  \* how many requests each sends; a torn one counts as two
  FdLimit       \* RLIMIT_NOFILE

(* 0, 1 and 2 are open when a server starts, so it listens on 3; "own" is  *)
(* whatever else a server has open for itself.                             *)
ListenFd == 3
Fd == 0 .. FdLimit - 1

ASSUME SocketsAssumption ==
  /\ IsFiniteSet(Clients) /\ Clients \cap {"free", "own", "listen", "pipe"} = {}
  /\ MaxRequests \in Nat /\ Askers \cup Torn \subseteq Clients
  /\ FdLimit \in Nat /\ ListenFd < FdLimit

VARIABLES
  peer,      \* what each client has done: "away", "open" or "closed"
  backlog,   \* the connections that wait for accept, in order
  fds,       \* fds[f]: what descriptor f of the server refers to
  asked,     \* how many requests, or pieces of them, each client has sent
  unread,    \* how many of them the server has not received
  replies,   \* how many replies each client has received
  reset      \* the connections a client has answered with RST

clientVars == <<peer, asked>>
sockets == <<peer, backlog, fds, asked, unread, replies, reset>>

SocketsInit(own) ==
  /\ peer = [c \in Clients |-> "away"]
  /\ backlog = <<>>
  /\ fds = [f \in Fd |-> 
              IF f = ListenFd THEN "listen" ELSE IF f < ListenFd \/ f \in own THEN "own" ELSE "free"]
  /\ asked = [c \in Clients |-> 0]
  /\ unread = [c \in Clients |-> 0]
  /\ replies = [c \in Clients |-> 0]
  /\ reset = {}

SocketsTypeOK ==
  /\ peer \in [Clients -> {"away", "open", "closed"}]
  /\ backlog \in Seq(Clients)
  /\ fds \in [Fd -> Clients \cup {"free", "own", "listen", "pipe"}]
  /\ asked \in [Clients -> Nat] /\ unread \in [Clients -> Nat]
  /\ replies \in [Clients -> Nat]
  /\ reset \subseteq Clients
-----------------------------------------------------------------------------
Queued(c) == \E i \in DOMAIN backlog : backlog[i] = c
Accepted(c) == peer[c] # "away" /\ ~Queued(c)
Held(c) == \E f \in Fd : fds[f] = c
(* The server has closed the connection. *)
Ended(c) == Accepted(c) /\ ~Held(c)

(* recv on the connection of c returns without waiting. *)
DataOrEnd(c) == unread[c] > 0 \/ peer[c] = "closed"

FreeFds == {f \in Fd : fds[f] = "free"}
(* A new descriptor is the lowest free one. *)
NewFd == Min(FreeFds)

Open(what) == fds' = [fds EXCEPT ![NewFd] = what]
Close(f) == fds' = [fds EXCEPT ![f] = "free"]
-----------------------------------------------------------------------------
(* send: what is sent to a client that is gone is answered with RST, and   *)
(* writing to a connection that was reset raises SIGPIPE.                  *)
Broken(c) == peer[c] = "closed" /\ c \in reset

Deliver(c) ==
  /\ replies' = IF peer[c] = "open" THEN [replies EXCEPT ![c] = @ + 1] ELSE replies
  /\ reset' = IF peer[c] = "closed" THEN reset \cup {c} ELSE reset
(* A client that has quit with two requests, or pieces, unanswered, and    *)
(* has answered a reply with RST.                                          *)
LeftBehind(c) == peer[c] = "closed" /\ c \in reset /\ asked[c] >= replies[c] + 2
-----------------------------------------------------------------------------
(* The clients.                                                            *)
Connect(c) ==
  /\ peer[c] = "away"
  /\ peer' = [peer EXCEPT ![c] = "open"]
  /\ backlog' = Append(backlog, c)
  /\ UNCHANGED <<fds, asked, unread, replies, reset>>

Request(c) ==
  /\ peer[c] = "open"
  /\ \/ c \in Askers /\ asked[c] < MaxRequests /\ asked[c] <= replies[c]
     \/ c \in Torn /\ asked[c] < 2 * MaxRequests
  /\ asked' = [asked EXCEPT ![c] = @ + 1]
  /\ unread' = [unread EXCEPT ![c] = @ + 1]
  /\ UNCHANGED <<peer, backlog, fds, replies, reset>>

HangUp(c) ==
  /\ peer[c] = "open"
  /\ peer' = [peer EXCEPT ![c] = "closed"]
  /\ UNCHANGED <<backlog, fds, asked, unread, replies, reset>>

ClientStep(c) == Connect(c) \/ Request(c) \/ HangUp(c)
=============================================================================
