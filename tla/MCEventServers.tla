--------------------------- MODULE MCEventServers ---------------------------
(* One of the three event loops, with clients that connect, ask and hang   *)
(* up at any time. There are three clients, one with a request that may be *)
(* torn in two, one with a whole one and one that asks nothing. The select *)
(* and the epoll server have two descriptors for them: connections wait    *)
(* for one, and descriptors and positions are used again. The poll server  *)
(* has three descriptors and two positions, so it can be full.             *)
EXTENDS SelectServer

CONSTANTS c1, c2, c3
ThreeClients == {c1, c2, c3}

CONSTANT PollSize    \* size of the poll server's array
ASSUME PollAssumption == PollSize \in 1 .. FdLimit

VARIABLES mux, fd_events, interest, revs, fd, unwatched

poll == <<fd_events>>
epoll == <<interest, revs, fd, unwatched>>
select == <<fd_array, rfds>>
all == <<vars, mux, poll, epoll>>

Poll == INSTANCE PollServer WITH gnum <- PollSize
Epoll == INSTANCE EpollServer

NoSelect == fd_array = <<>> /\ rfds = {}
NoPoll == fd_events = <<>>
NoEpoll == interest = {} /\ revs = {} /\ fd = 0 /\ unwatched = {}

MuxInit ==
  \/ mux = "select" /\ Init /\ NoPoll /\ NoEpoll
  \/ mux = "poll" /\ Poll!Init /\ NoSelect /\ NoEpoll
  \/ mux = "epoll" /\ Epoll!Init /\ i = 0 /\ NoSelect /\ NoPoll

SelectOnly == mux = "select" /\ UNCHANGED <<mux, poll, epoll>>
PollOnly == mux = "poll" /\ UNCHANGED <<mux, select, epoll>>
EpollOnly == mux = "epoll" /\ UNCHANGED <<mux, select, poll, i>>

ServerStep ==
  \/ SelectOnly /\ Loop
  \/ PollOnly /\ Poll!Loop
  \/ EpollOnly /\ Epoll!Loop
MuxNext ==
  \/ ServerStep
  \/ \E c \in Clients : ClientStep(c) /\ UNCHANGED <<server, mux, poll, epoll>>

MuxSpec == MuxInit /\ [][MuxNext]_all

(* The server keeps running; a client may do nothing for ever. poll does   *)
(* not fail for ever; select may, for its loop handles the events all the  *)
(* same.                                                                   *)
FairSpec ==
  /\ MuxSpec
  /\ WF_all(ServerStep)
  /\ SF_all(PollOnly /\ Poll!Poll)
-----------------------------------------------------------------------------
Waits ==
  \/ mux = "select" /\ Blocked
  \/ mux = "poll" /\ Poll!Blocked
  \/ mux = "epoll" /\ Epoll!Blocked

(* The handlers never wait in accept or recv ("会不会阻塞?一定不会！",         *)
(* "不会阻塞").                                                               *)
NeverBlocks == ~Waits

(* What was announced as ready is still ready when its turn comes, whatever *)
(* was closed, accepted or read earlier in the pass, and a reused          *)
(* descriptor is not taken for the one that was ready. The handlers of     *)
(* the select and the poll server wait only after a call that failed, and  *)
(* those of the epoll server never.                                        *)
ReadyStaysReady == Waits => n = -1 /\ mux # "epoll"

(* Each server watches exactly the connections it has open: none is        *)
(* forgotten, none is watched after it was closed or watched twice. The    *)
(* one exception is a connection that epoll_ctl did not add.               *)
EveryOpenOneWatched ==
  /\ mux = "select" => WatchesWhatIsOpen
  /\ mux = "poll" => Poll!WatchesWhatIsOpen
  /\ mux = "epoll" => Epoll!WatchesWhatIsOpen

(* Nothing but SIGPIPE takes a server down, and only a client that hangs   *)
(* up with two pieces or more unanswered can raise it: the reply to the    *)
(* first draws RST, the reply to the second the signal. One that leaves a  *)
(* single piece behind, or none, does no harm, whatever the others do.     *)
Survives == pc = "killed" => \E c \in Clients : LeftBehind(c)

Served(c) == \E f \in DOMAIN fds : fds[f] = c /\ f \notin unwatched
Gone(c) == peer[c] = "closed" /\ \A f \in DOMAIN fds : fds[f] # c

(* What an accepted client sends is received in the end, and its hang-up   *)
(* noticed and answered, also while accept keeps failing for want of a     *)
(* descriptor, unless the server waits on another descriptor, has no watch *)
(* on this one or was killed.                                              *)
EventsHandled ==
  \A c \in Clients :
    Served(c) /\ DataOrEnd(c) ~> ~DataOrEnd(c) \/ Gone(c) \/ Waits \/ pc = "killed"
=============================================================================
