--------------------------- MODULE CommandServer ---------------------------
(* NetCode/5.commandserver: the main thread accepts connections and starts *)
(* a detached thread for each, which receives commands, runs them through  *)
(* popen and sends the output back. Descriptors are plain numbers that the *)
(* threads keep and the kernel gives out again once they are closed, so    *)
(* what a number refers to is looked up at every call.                     *)
EXTENDS Sockets

None == "none"

VARIABLES
  alive,    \* whether the process still runs; SIGPIPE ends it
  where,    \* where[c]: where the thread of connection c is
  sockfd,   \* sockfd[c]: the descriptor it was given
  inRecv,   \* inRecv[c]: the connection it waits on, inside recv
  asker,    \* asker[c]: the connection its last command came from
  pipefd,   \* pipefd[c]: the descriptor of its last popen
  ran,      \* how many commands were run
  raced     \* history: a descriptor was given out between two closes of one number

threads == <<sockfd, inRecv, asker, pipefd>>
counts == <<ran, raced>>
commandVars == <<sockets, alive, where, threads, counts>>

CommandInit ==
  /\ SocketsInit({})
  /\ alive = TRUE /\ ran = 0 /\ raced = FALSE
  /\ where = [c \in Clients |-> "none"]
  /\ sockfd = [c \in Clients |-> ListenFd]
  /\ inRecv = [c \in Clients |-> None]
  /\ asker = [c \in Clients |-> None]
  /\ pipefd = [c \in Clients |-> ListenFd]

Goto(t, label) == where' = [where EXCEPT ![t] = label]
(* What thread t's descriptor refers to now. *)
Mine(t) == fds[sockfd[t]]
BetweenCloses == {t \in Clients : where[t] = "close again"}
Race == raced' = (raced \/ BetweenCloses # {})
-----------------------------------------------------------------------------
(* Start: accept, and Version_2. A failing accept is tried again.          *)
Accept ==
  LET c == Head(backlog) IN
    /\ backlog # <<>> /\ FreeFds # {}
    /\ backlog' = Tail(backlog) /\ Open(c)
    /\ sockfd' = [sockfd EXCEPT ![c] = NewFd]
    /\ Goto(c, "recv") /\ Race
    /\ UNCHANGED <<peer, asked, unread, replies, reset, alive, inRecv, asker, pipefd, ran>>

(* recv looks the descriptor up and waits on the connection it finds; if   *)
(* it finds none it fails, and the thread ends.                            *)
EnterRecv(t) ==
  /\ where[t] = "recv"
  /\ IF Mine(t) \in Clients
     THEN inRecv' = [inRecv EXCEPT ![t] = Mine(t)] /\ Goto(t, "waiting")
     ELSE Goto(t, "close") /\ UNCHANGED inRecv
  /\ UNCHANGED <<sockets, alive, sockfd, asker, pipefd, counts>>

RecvCommand(t) ==
  LET c == inRecv[t] IN
    /\ where[t] = "waiting" /\ unread[c] > 0
    /\ \E n \in 1 .. unread[c] : unread' = [unread EXCEPT ![c] = @ - n]
    /\ inRecv' = [inRecv EXCEPT ![t] = None]
    /\ asker' = [asker EXCEPT ![t] = c]
    /\ Goto(t, "execute")
    /\ UNCHANGED <<peer, backlog, fds, asked, replies, reset, alive, sockfd, pipefd, counts>>

(* MUTANT of RecvEnd: a thread whose client has quit ends without closing. *)
RecvEnd_NoClose(t) ==
  LET c == inRecv[t] IN
    /\ where[t] = "waiting" /\ unread[c] = 0 /\ peer[c] = "closed"
    /\ inRecv' = [inRecv EXCEPT ![t] = None]
    /\ Goto(t, "done")
    /\ UNCHANGED <<sockets, alive, sockfd, asker, pipefd, counts>>

RecvEnd(t) ==
  LET c == inRecv[t] IN
    /\ where[t] = "waiting" /\ unread[c] = 0 /\ peer[c] = "closed"
    /\ inRecv' = [inRecv EXCEPT ![t] = None]
    /\ Goto(t, "close")
    /\ UNCHANGED <<sockets, alive, sockfd, asker, pipefd, counts>>

(* MUTANT of Refuse: a refused command gets no reply. *)
Refuse_Silently(t) ==
  /\ where[t] = "execute"
  /\ Goto(t, "recv")
  /\ UNCHANGED <<sockets, alive, threads, counts>>

(* The command is not on the white list, or popen cannot open its pipe.    *)
Refuse(t) ==
  /\ where[t] = "execute"
  /\ Goto(t, "send")
  /\ UNCHANGED <<sockets, alive, threads, counts>>

Popen(t) ==
  /\ where[t] = "execute" /\ Cardinality(FreeFds) >= 2
  /\ Open("pipe")
  /\ pipefd' = [pipefd EXCEPT ![t] = NewFd]
  /\ ran' = ran + 1 /\ Race
  /\ Goto(t, "output")
  /\ UNCHANGED <<peer, backlog, asked, unread, replies, reset, alive, sockfd, inRecv, asker>>

(* fgets until the end of the output, or an error; the pipe stays open.    *)
ReadOutput(t) ==
  /\ where[t] = "output" /\ fds[pipefd[t]] \notin Clients
  /\ Goto(t, "send")
  /\ UNCHANGED <<sockets, alive, threads, counts>>

(* The pipe was closed by another thread and its number is a connection's: *)
(* fgets reads what that client sends, until it quits.                     *)
ReadStranger(t) ==
  LET c == fds[pipefd[t]] IN
    /\ where[t] = "output" /\ c \in Clients /\ DataOrEnd(c)
    /\ unread' = [unread EXCEPT ![c] = 0]
    /\ IF peer[c] = "closed" THEN Goto(t, "send") ELSE UNCHANGED where
    /\ UNCHANGED <<peer, backlog, fds, asked, replies, reset, alive, threads, counts>>

(* MUTANT of Send: the connection is closed after one reply. *)
Send_Once(t) ==
  /\ where[t] = "send"
  /\ IF Broken(Mine(t))
     THEN alive' = FALSE /\ UNCHANGED <<replies, reset, where>>
     ELSE Deliver(Mine(t)) /\ Goto(t, "close") /\ UNCHANGED alive
  /\ UNCHANGED <<peer, backlog, fds, asked, unread, threads, counts>>

Send(t) ==
  /\ where[t] = "send"
  /\ IF Mine(t) \notin Clients
     THEN Goto(t, "recv") /\ UNCHANGED <<replies, reset, alive>>
     ELSE IF Broken(Mine(t))
     THEN alive' = FALSE /\ UNCHANGED <<replies, reset, where>>
     ELSE Deliver(Mine(t)) /\ Goto(t, "recv") /\ UNCHANGED alive
  /\ UNCHANGED <<peer, backlog, fds, asked, unread, threads, counts>>

(* HandlerCommand closes the descriptor ...                                *)
CloseInHandler(t) ==
  /\ where[t] = "close"
  /\ Close(sockfd[t])
  /\ Goto(t, "close again")
  /\ UNCHANGED <<peer, backlog, asked, unread, replies, reset, alive, threads, counts>>

(* ... and Execute closes the same number again, whatever it is by then.   *)
CloseInExecute(t) ==
  /\ where[t] = "close again"
  /\ Close(sockfd[t])
  /\ Goto(t, "done")
  /\ UNCHANGED <<peer, backlog, asked, unread, replies, reset, alive, threads, counts>>
-----------------------------------------------------------------------------
HandlerCommand(t) ==
  EnterRecv(t) \/ RecvCommand(t) \/ RecvEnd(t) \/ Refuse(t) \/ Popen(t) \/ ReadOutput(t)
    \/ ReadStranger(t) \/ Send(t) \/ CloseInHandler(t)
Execute(t) == HandlerCommand(t) \/ CloseInExecute(t)

Thread(t) == alive /\ Execute(t)
Start == alive /\ Accept

CommandNext ==
  \/ Start
  \/ \E t \in Clients : Thread(t)
  \/ \E c \in Clients : ClientStep(c) /\ UNCHANGED <<alive, where, threads, counts>>

CommandSpec == CommandInit /\ [][CommandNext]_commandVars
CommandFairSpec ==
  CommandSpec /\ WF_commandVars(Start) /\ \A t \in Clients : WF_commandVars(Thread(t))
-----------------------------------------------------------------------------
(* The server ends a connection only after its client has quit ("长服务").   *)
EndedOnlyAfterQuit == \A c \in Clients : Ended(c) => peer[c] = "closed"

(* Nothing but a descriptor given out between the two closes of a thread   *)
(* makes the server end a connection early: however many clients come,     *)
(* quit and go, threads work on their own connections otherwise. Without   *)
(* it SIGPIPE ends the server only for a client that quits with two        *)
(* commands, or two pieces of one, unanswered.                             *)
EndedEarlyOnlyByRace ==
  raced \/ (EndedOnlyAfterQuit /\ (alive \/ \E c \in Clients : LeftBehind(c)))

(* A thread that ends leaves no connection behind, and what stays open     *)
(* after it is at most one pipe for each command it ran.                   *)
OnlyPipesLeak ==
  raced \/ /\ Cardinality({f \in Fd : fds[f] = "pipe"}) <= ran
           /\ \A f \in Fd : fds[f] \in Clients => where[fds[f]] # "done"

(* Again and again, every client that stays connected has a reply to each  *)
(* of its commands, to one torn in two at least one; and once all clients  *)
(* have quit the server has let go of every connection, whatever the       *)
(* threads have done to the descriptors of each other.                     *)
CommandsServed ==
  []<>(/\ \A c \in Clients : Held(c) =>
            \/ asked[c] <= replies[c] \/ (c \in Torn /\ unread[c] = 0 /\ replies[c] > 0)
            \/ peer[c] = "closed" \/ raced \/ ~alive
       /\ alive /\ (\A c \in Clients : Accepted(c) /\ peer[c] = "closed") =>
            \A c \in Clients : Ended(c) /\ inRecv[c] = None)
=============================================================================
