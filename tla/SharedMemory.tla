---------------------------- MODULE SharedMemory ----------------------------
(* OSCode/16.shm: a client fills a segment of shared memory letter by      *)
(* letter and wakes the server through a fifo. Roles are numbers: those of *)
(* shm.hpp are passed to namedPipe.hpp, where 2 is the reader, so it is    *)
(* the client that makes the fifo. The segment outlives both programs      *)
(* unless the server's destructor is reached, which never happens.         *)
EXTENDS Naturals

CONSTANTS Letters, MaxStarts    \* how many letters; how often each is started

VARIABLES
  segment,      \* the segment exists
  fifo,         \* the fifo's name exists
  cells,        \* letters in the segment
  wakeups,      \* in the fifo, not yet read
  srv, cli,     \* what the server and the client do
  attached,     \* the server's address is that of the segment
  wakened,      \* wakeups the server has read
  printed,      \* letters it printed last
  begun,        \* the letter the client writes next
  starts        \* how often each was started

shmVars == <<segment, fifo, cells, wakeups, srv, cli, attached, wakened, printed,
             begun, starts>>

Init ==
  /\ segment = FALSE /\ fifo = FALSE /\ cells = 0 /\ wakeups = 0
  /\ srv = "off" /\ cli = "off" /\ attached = FALSE /\ wakened = 0 /\ printed = 0
  /\ begun = 1 /\ starts = [srv |-> 0, cli |-> 0]

-----------------------------------------------------------------------------
(* ShmAttach returns what shmat does, taking its error value for an address. *)
ShmAttach(shmid) == attached' = shmid

(* GetshmforCreater fails where the segment exists. *)
ShmCreater ==
  /\ srv = "off" /\ starts.srv < MaxStarts /\ starts' = [starts EXCEPT !.srv = @ + 1]
  /\ srv' = "attached" /\ segment' = TRUE
  /\ ShmAttach(~segment)
  /\ UNCHANGED <<fifo, cells, wakeups, cli, wakened, printed, begun>>

(* OpenforRead fails without a fifo, and its result is not looked at; with *)
(* a fifo that a client has left it waits for a client that cannot come.   *)
Writing == cli \in {"opening", "filling", "waking"}
ServerOpens ==
  /\ srv = "attached"
  /\ srv' = IF ~fifo THEN "spinning" ELSE IF Writing THEN "reading" ELSE "opening"
  /\ cli' = IF fifo /\ cli = "opening" THEN "filling" ELSE cli
  /\ UNCHANGED <<segment, fifo, cells, wakeups, attached, wakened, printed, begun, starts>>

(* A pass of the loop: a read that waits for a wakeup while the client has *)
(* the fifo open, returns all there are, and otherwise fails at once; the  *)
(* content is printed in any case, which takes a valid address.            *)
ShowContent ==
  IF attached THEN printed' = cells /\ UNCHANGED srv
  ELSE srv' = "crashed" /\ UNCHANGED printed
ServerReads ==
  /\ \/ srv = "reading" /\ (wakeups > 0 \/ cli \notin {"filling", "waking"})
     \/ srv = "spinning"
  /\ ShowContent
  /\ wakened' = IF srv = "reading" THEN wakened + wakeups ELSE wakened
  /\ wakeups' = IF srv = "reading" THEN 0 ELSE wakeups
  /\ UNCHANGED <<segment, fifo, cells, cli, attached, begun, starts>>

KillServer ==
  /\ srv \notin {"off"} /\ srv' = "off"
  /\ attached' = FALSE /\ wakened' = 0 /\ printed' = 0 /\ wakeups' = 0
  /\ UNCHANGED <<segment, fifo, cells, cli, begun, starts>>
-----------------------------------------------------------------------------
(* GetshmforUser creates the segment where there is none. *)
ShmUser ==
  /\ cli = "off" /\ starts.cli < MaxStarts /\ starts' = [starts EXCEPT !.cli = @ + 1]
  /\ cli' = "attached" /\ segment' = TRUE
  /\ UNCHANGED <<fifo, cells, wakeups, srv, attached, wakened, printed, begun>>

CleanShm ==
  /\ cli = "attached" /\ cli' = "clean" /\ cells' = 0
  /\ UNCHANGED <<segment, fifo, wakeups, srv, attached, wakened, printed, begun, starts>>

(* The constructor and OpenforWrite: a fifo that was left ends the client. *)
ClientOpens ==
  /\ cli = "clean" /\ fifo' = TRUE /\ begun' = 1
  /\ cli' = IF fifo THEN "off" ELSE "opening"
  /\ UNCHANGED <<segment, cells, wakeups, srv, attached, wakened, printed, starts>>

Fill ==
  /\ cli = "filling" /\ begun <= Letters /\ cli' = "waking"
  /\ cells' = begun
  /\ UNCHANGED <<segment, fifo, wakeups, srv, attached, wakened, printed, begun, starts>>

(* A write to a fifo that nobody reads ends the client, which leaves the   *)
(* fifo's name behind.                                                     *)
Wake ==
  /\ cli = "waking"
  /\ IF srv = "reading"
     THEN wakeups' = wakeups + 1 /\ begun' = begun + 1 /\ cli' = "filling"
     ELSE cli' = "off" /\ UNCHANGED <<wakeups, begun>>
  /\ UNCHANGED <<segment, fifo, cells, srv, attached, wakened, printed, starts>>

(* The destructor of the fifo, at the end of main. *)
ClientEnds ==
  /\ cli = "filling" /\ begun > Letters /\ cli' = "off" /\ fifo' = FALSE
  /\ UNCHANGED <<segment, cells, wakeups, srv, attached, wakened, printed, begun, starts>>
-----------------------------------------------------------------------------
Server == ShmCreater \/ ServerOpens \/ ServerReads
Client == ShmUser \/ CleanShm \/ ClientOpens \/ Fill \/ Wake \/ ClientEnds
Next == Server \/ Client \/ KillServer
-----------------------------------------------------------------------------
(* main of both programs: the server that reads a wakeup prints at least   *)
(* the letters it was woken for; a server crashes only when the segment    *)
(* was there before it, left over or made by a client that was faster; and *)
(* a server waits in open only before a fifo that a dead client has left.  *)
ReaderSees ==
  /\ srv = "reading" /\ wakened > 0 /\ cli \in {"filling", "waking"} => printed >= wakened
  /\ srv = "crashed" => starts.cli > 0 \/ starts.srv > 1
  /\ srv = "opening" => fifo /\ ~Writing
=============================================================================
