------------------------------- MODULE MCIpc --------------------------------
(* Small instances of the programs that pass data through the kernel, one  *)
(* of them in a behaviour. Process pool: up to four children, so that the  *)
(* youngest inherits three write ends, and two tasks, so that the round    *)
(* robin wraps around one child, and does not reach the third of more.     *)
EXTENDS ProcessPool

CONSTANTS
  Programs,
  Hosts, Talkers, MaxLines,               \* see NamedPipe
  Letters, MaxStarts,                     \* see SharedMemory
  CACHESIZE, Modes, Pieces, MaxWritten,   \* see BufferedStream
  MaxTyped, Capacity, MaxSent             \* see NonBlock and PipeDemo

ASSUME HostsAssumption == "none" \notin Hosts
ASSUME ModesAssumption == "none" \notin Modes
ASSUME PiecesAssumption ==
  \A p \in Pieces : p \in Seq(STRING) /\ \A i \in DOMAIN p : p[i] # "missing"

VARIABLES
  program,
  host, talker, file, end, bytes, wrote, heard, late,
  segment, fifo, cells, wakeups, srv, cli, attached, wakened, printed, begun, starts,
  stream, how, disk, cache, accepted, lineEnd, writeFailed, closedWell,
  reader, blocking, typed, echo, keyboard,
  father, child, wfd, rfd, messages, taken, status

(* What a program may write at once, for a cache of four bytes, which two  *)
(* pieces pass: a line, a piece of one, a line after another without its   *)
(* newline at the end.                                                     *)
SmallPieces == {<<"x">>, <<"x", "newline">>, <<"newline", "x">>, <<"x", "x", "x">>}

Fifo == INSTANCE NamedPipe
Shm == INSTANCE SharedMemory
Stream == INSTANCE BufferedStream
Keys == INSTANCE NonBlock
Demo == INSTANCE PipeDemo WITH accepted <- taken
-----------------------------------------------------------------------------
fifoVars == <<host, talker, file, end, bytes, wrote, heard, late>>
shmVars == <<segment, fifo, cells, wakeups, srv, cli, attached, wakened, printed, begun, starts>>
streamVars == <<stream, how, disk, cache, accepted, lineEnd, writeFailed, closedWell>>
keyVars == <<reader, blocking, typed, echo, keyboard>>
demoVars == <<father, child, wfd, rfd, messages, taken, status>>
allVars == <<program, vars, fifoVars, shmVars, streamVars, keyVars, demoVars>>

IpcInit ==
  /\ program \in Programs
  /\ Init /\ Fifo!Init /\ Shm!Init /\ Stream!Init /\ Keys!Init /\ Demo!Init

InPool(A) == program = "pool" /\ UNCHANGED <<program, fifoVars, shmVars, streamVars, keyVars, demoVars>> /\ A
InFifo(A) == program = "fifo" /\ UNCHANGED <<program, vars, shmVars, streamVars, keyVars, demoVars>> /\ A
InShm(A) == program = "shm" /\ UNCHANGED <<program, vars, fifoVars, streamVars, keyVars, demoVars>> /\ A
InStream(A) == program = "stdio" /\ UNCHANGED <<program, vars, fifoVars, shmVars, keyVars, demoVars>> /\ A
InKeys(A) == program = "keys" /\ UNCHANGED <<program, vars, fifoVars, shmVars, streamVars, demoVars>> /\ A
InDemo(A) == program = "pipe" /\ UNCHANGED <<program, vars, fifoVars, shmVars, streamVars, keyVars>> /\ A

IpcNext == \/ InPool(Next) \/ InFifo(Fifo!Next) \/ InShm(Shm!Next)
           \/ InStream(Stream!Next) \/ InKeys(Keys!Next) \/ InDemo(Demo!Next)

(* Every process that can go on goes on. *)
IpcFair ==
  /\ WF_allVars(InPool(ParentStep) \/ InDemo(Demo!Father))
  /\ \A c \in Children : WF_allVars(InPool(ChildStep(c)))

IpcSpec == IpcInit /\ [][IpcNext]_allVars /\ IpcFair
-----------------------------------------------------------------------------
(* ProcessPool.cc and testPipe.cc: a parent gets to the end of main when   *)
(* its children are done, in the pool whatever they inherited, in the pipe *)
(* demo once the child is dead, and leaves no child unwaited for. In the   *)
(* pool a fork that failed keeps it from there in two cases only: SIGPIPE, *)
(* and a wait for any child while younger ones are left.                   *)
ReclaimEnds ==
  []<>(/\ program = "pool" => \/ pc[Parent] = "exited" /\ NoZombies
                              \/ -1 \in {channels[k] : k \in DOMAIN channels}
                                   /\ (pc[Parent] = "killed" \/ WaitsForAny)
       /\ program = "pipe" => Demo!FatherEnds)

(* Reclaiming closes all write ends and the children quit, all of them, as *)
(* the comment over its loop says.                                         *)
ChildrenAllQuit ==
  program = "pool" => []<>(\A c \in Children : pc[c] \in {"none", "exited", "reaped"})

(* The children of a pool whose parent was killed see the end of their     *)
(* pipes and quit.                                                         *)
OrphansQuit == program = "pool" => []<>OrphansGone

(* What was written to a fifo, to the shared memory and to a pipe is read: *)
(* see NamedPipe, SharedMemory and PipeDemo.                               *)
PipesDeliver == Fifo!FifoDelivers /\ Shm!ReaderSees /\ Demo!AcceptsAll

(* What a program wrote to its stream, or was typed to it, is not lost on  *)
(* the way: see BufferedStream and NonBlock.                               *)
BytesKept == Stream!StreamKeeps /\ Keys!ReadsToTheEnd
=============================================================================
