# A verification of Meetlinux

The repository collects servers, thread and process libraries and small system
programs, grouped into `src/OSCode` (processes, signals, threads) and
`src/NetCode` (servers over UDP, TCP and I/O multiplexing). Each directory is a
program of its own. This directory holds TLA+ models of the programs that have
state worth checking, the TLC configurations that check them, and TLAPS proofs
of the properties that matter most.

- [Inventory](#inventory)
- [Modules](#modules)
- [Runs](#runs)
- [Fairness](#fairness)
- [Disagreements between code and comments](#disagreements-between-code-and-comments)
- [Proofs](#proofs)
- [What is not modelled](#what-is-not-modelled)
- [Plan](#plan)
- [How to run everything](#how-to-run-everything)

`PROJECT.json` lists all of it for tools: components, runs, one mutant of the
code for every property, the source lines behind every definition, the hazards
and the theorems.

## Inventory

For each program: its state, its operations, what makes it hard, and what would
make it correct.

### Ring queue: `OSCode/19.ringqueue`

- State: an array of `maxcap` slots, `_P_pos`, `_C_pos`, semaphores
  `_space_sem` and `_data_sem`, mutexes `_Pmutex` and `_Cmutex`.
- Operations: `Push` is P(space), lock, write, unlock, V(data); `Pop` mirrors it.
- Hard: producers and consumers hold different mutexes, so a write and a read
  overlap; the unit of data is posted after the position has moved.
- Correct if: no two threads work on one slot, positions and semaphores agree on
  what is filled, the queue is a bounded FIFO, and neither side stalls.

### Block queue: `OSCode/18.testThread/blockQueue`

- State: a `std::queue`, one mutex, two condition variables.
- Operations: `Push` and `Pop`, which wait in a `while` loop and signal the
  other side after the unlock.
- Hard: wakeups that come late or for no reason; several waiters on one condition.
- Correct if: no wakeup is lost, it is a bounded FIFO, neither side stalls.

### Thread pool: `OSCode/20.ThreadPool`, copied into two servers

- State: the singleton pointer `_tp` and its lock; `_taskQueue`, `_sleepNum`,
  `_isrunning`, one mutex and one condition variable; the threads.
- Operations: `GetInstance` (double-checked creation, `Init`, `Start`), `Push`,
  `Stop`, and `Handler`, the loop of every worker.
- Hard: `Push` signals only if `_sleepNum > 0`; `Stop` has to reach workers that
  sleep and let them empty the queue; `_tp` is published before the pool runs;
  `Start` writes `_isrunning` without the lock.
- Correct if: one pool is made, accepted tasks run once each and in order, no
  wakeup is lost, every worker quits after `Stop`.

### Process pool: `OSCode/14.ProcessPool`

- State: the channels (a write end and a pid each), the pipes of the kernel and
  the processes that have their ends open, the children.
- Operations: `CreateChannelandProcess`, `ChnnelctlProcess` (`SendTask` with
  round robin), `ReclaimChannelsandProcess`, and in the child the closing of
  inherited ends and `doWork`.
- Hard: `fork` copies the write ends of all older pipes; the parent closes and
  waits for one child at a time; `fork` may fail; SIGPIPE may kill the parent.
- Correct if: reclaiming ends, no task is lost, no zombie stays, orphans quit.
  Reclaiming does NOT always end: see the disagreements.

### SIGCHLD handling: `OSCode/17.sig/testsig.cc`

- State: the children of one father, one pending bit, whether the handler runs.
- Operations: forks, exits, delivery, the `waitpid(-1, WNOHANG)` loop.
- Hard: several exits make one signal; an exit may fall between the last
  `waitpid` and the return of the handler; some children never end.
- Correct if: every zombie is reaped and the father is never held up.

### Select, poll and epoll servers: `NetCode/10.selectServer`, `11.pollServer`, `12.epollServer`

- State: `fd_array` and the `rfds` of the current pass; `fd_events` with the
  `revents` that `poll` keeps; the interest list of `epoll` and the events of one
  wait; the descriptor table of the process.
- Operations: `Loop`, `HandlerEvent`, `Acceptor`, `HandlerIO` in each.
- Hard: what was announced may be old when it is used; numbers are given out
  again within a pass; descriptors or positions run out; `select` and `poll` fail
  and the handlers run all the same; nobody looks whether `epoll_ctl` failed;
  a request may arrive in two pieces, each of which gets a reply of its own; clients
  hang up, and a second send to one that did raises SIGPIPE.
- Correct if: handlers never wait, what is watched is what is open, a
  hang-up is survived, every event is handled.

### Command server: `NetCode/5.commandserver`

- State: the descriptor table, one detached thread for each client.
- Operations: accept and start a thread; receive, check the white list, `popen`,
  read the output, send; close at the end.
- Hard: two closes of one number, pipes that are never closed, descriptor
  numbers shared by all threads, commands that arrive in pieces, SIGPIPE.
- Correct if: a thread works on its own connection, and the connection lasts for
  as long as the client stays.

### Chat server: `NetCode/3.chatServer` (an older copy is `_3.test`)

- State: `_onlineUser`, the route's mutex, the pool's queue.
- Operations: receive, `CheckOnlineUser`, `Offline`, push `ForwardHelper`.
- Hard: the list changes while messages wait in the pool; datagrams are lost
  and overtake each other.
- Correct if: nobody gets a message twice, a worker walks an unchanging list,
  what reaches the server reaches everyone who stays.

### Calculator server: `NetCode/6.calcuServer`

- State: a byte queue at each end of a connection.
- Operations: `Encode`, `Decode`, the arithmetic of `NetCalcu`, the service loop.
- Hard: TCP cuts and joins messages anywhere; division by zero; a client that
  leaves in the middle of a message, or while the server still answers, when the
  second response raises SIGPIPE.
- Correct if: no message is torn, lost or answered wrongly.

### HTTP server: `NetCode/7.http`

- State: per connection a detached thread with what it received; the tables
  `_mime_type`, `_statusCode_to_desc`, `_service_list`, which all threads share without a lock.
- Operations: one `Recv`, `Deserialize`, `HandlerRequest`, one `Send`, close.
- Hard: one `Recv` is taken for a whole request wherever TCP cut it;
  `operator[]` inserts what it does not find while other threads read; the
  status of an answer may be one that nobody has written; a browser that says
  nothing keeps its thread in `Recv`.
- Correct if: a whole request gets the answer that fits it, every connection on
  which something arrives, or that the browser leaves, is closed.

### TCP echo server: `NetCode/4.tcpEchoserver`

- State: the backlog, the queue and the workers of the pool, the bytes of each
  connection on their way.
- Operations: `Version_3` accepts and pushes `Service` to the pool; `Service`
  reads and echoes until the client leaves; the client writes a line and reads.
- Hard: a connection keeps its worker for as long as it lasts; TCP cuts a line
  anywhere, and a read takes what has come of it; a prefix makes the echo longer than
  the line, and both buffers have the same size.
- Correct if: every client is served unless as many stay as there are workers,
  and its answers keep up with its lines as long as none was read in part.

### UDP echo and dictionary server: `NetCode/1.udpEchoserver`, `2.dictServer`

- State: the dictionary; the datagrams in the network and in the sockets.
- Operations: receive, answer, sleep a second; the client sends and waits.
- Hard: datagrams are lost, doubled and dropped at a full socket; the client has
  no timeout; lines of the dictionary lack parts or repeat a word.
- Correct if: the k-th answer belongs to the k-th line, and who waits for ever
  has lost a datagram.

### Getting a port: `CreateSocketOrDie`, `CreateBindOrDie`, `CreateListenOrDie`

- State: the sockets bound to one port, their options, connections that hold it.
- Operations: socket, option, bind, listen, and the end of the process.
- Hard: the value of the socket option, servers that run twice, a restart.
- Correct if: two servers have the port only where the kernel lets them.

### Chat client: `NetCode/3.chatServer/UdpClient.cc`

- State: two threads on one socket and whether they were created.
- Operations: `SendMessage`, `RecvMessage`, the joins and the close by `main`.
- Hard: the socket is closed at the end; threads that cannot be created; the
  end of the input.
- Correct if: nobody uses a closed socket, what is typed leaves and what arrives
  is shown, once and in order.

### Named pipe and shared memory: `OSCode/15.fifo`, `OSCode/16.shm`

- State: the file of the fifo, the segment, who has what open, bytes inside.
- Operations: create, open, read, write, remove, in two programs that start,
  end and are killed at any time.
- Hard: who creates and who removes; what a killed program leaves behind; the
  results of `shmat` and of `open` are not looked at.
- Correct if: lines arrive in order and are lost only with the server, and a
  woken reader finds at least what it was woken for.

### Tickets, condition demo and thread demos: `OSCode/18.testThread`

- State: a counter under a mutex; a condition that `main` broadcasts without the
  mutex; threads that detach themselves while `main` cancels and joins them.
- Hard: a wakeup that is missed, a join of a thread that is gone.
- Correct if: each ticket is sold once, every waiter prints again, a join never
  waits for a detached thread.

### Log: `OSCode/20.ThreadPool/Log.hpp`, copied into thirteen directories

- State: the static buffer of `localtime`, the lock, the file or the screen.
- Hard: the buffer is filled before the lock is taken.
- Correct if: one line per call, and its time stamp is one of the times at which
  overlapping calls were made.

### Stream library: `OSCode/12.mystdio`; pipe and non-blocking demos: `13.testPipe`, `NetCode/9.nonBlock`

- State: a cache of bytes and the file; a pipe between father and child; the
  flags of standard input.
- Hard: short writes, a piece longer than the cache, a kill between two flushes;
  a child that has no end; `read` that fails for four different reasons.
- Correct if: accepted bytes are in the file or the cache, once and in order;
  readers stop only at the end.

### Signals, forks and files: `17.sig`, `10.myShell`, `7.` to `9.`, `11.fileTest` and others

- State: mask, pending set and handlers of one process; the status word of a
  child; a file that two programs write.
- Hard: signals that do not queue and are delivered inside the call that
  unblocks them; a status that holds a signal instead of a code; a size asked for
  before the file is read; output through two levels of buffers.
- Correct if: no signal is forgotten, what is told of a child is true, what is
  read back is what was written.

### How the components interact

The programs do not talk to each other. They share copied parts: the log,
`Socket.hpp`/`Comm.hpp`, and the thread pool, which the chat server and the echo
server use through `GetInstance()->Push`. `ChatServer` and `TcpEcho` therefore
take the pool by its specification `TaskPool`, which `ThreadPool` is proved to
keep. The event loops and the command server share one model of the kernel and
the clients, `Sockets`; the three event loops also share `EventLoop`. All TCP
and UDP servers compete for one port in `ListenPort`.

## Modules

| Module | Models | State and actions |
|---|---|---|
| `BoundedFifo` | abstract: what a bounded queue promises | `queue`, the producers' and consumers' parameters; insert at the back, remove at the front |
| `RingQueue` | `ringQueue.hpp` | one variable per field, `pc` per thread; an access to a slot has a beginning (`BeginWrite`, with the lock) and an end (`EndWrite`, with the unlock), so that overlap can be seen |
| `BlockQueue` | `blockQueue_for_CP.hpp` | the queue, the mutex and `pc`; `pthread_cond_wait` is three steps: `Wait` releases the mutex, a signal or `SpuriousWakeup` moves the thread to "relock", `Relock` takes the mutex back |
| `TaskPool` | abstract: what a thread pool promises | tasks are pending, running, finished or refused; `Open`, `Close`, `Accept`, `Refuse`, `Begin`, `Finish` |
| `ThreadPool` | `threadPool.hpp` | every field; `GetInstance` is five steps, `Push` and `Stop` one critical section each, `Handler` the loop of a worker |
| `ProcessPool` | `ProcessPool.cc`, `Task.hpp` | who has which end of which pipe open; each close of an inherited end in a child is a step |
| `SigChld` | `testSIGCHLD` in `testsig.cc` | a state per child, the pending bit, whether the handler runs, the loop counter |
| `SignalDemos` | `testCore.cc`, `testsig.cc`, `mykill.cc` | mask, pending set and a stack of running handlers; five demonstrations of which one runs |
| `ForkDemos` | the shell, `testExec.c`, `WaitProc.c` and others | a father, one child, the status word as a number and what the father makes of it |
| `FileDemos` | `fileTest.c` | two programs on one file, and the buffers between `printf` and the screen |
| `Sockets` | external: kernel and clients, as the servers use them | descriptor table with the lowest free number first, backlog, unread requests or pieces of them, replies, resets; a client connects, asks, if it likes in pieces, and hangs up whenever it likes |
| `EventLoop` | what the three event loops have in common | receive, send, close and accept on a descriptor |
| `SelectServer` | `selectServer.hpp` | `fd_array`, `rfds`, the result `n` of `select`, the index of `HandlerEvent` |
| `PollServer` | `pollServer.hpp` | `fd_events` with the `revents` of the last pass |
| `EpollServer` | `epollServer.hpp` | the interest list, the events of one wait in any order |
| `CommandServer` | `tcpServer.hpp`, `Command.hpp` | a thread per connection that keeps a NUMBER; what the number refers to is looked up at each call |
| `ChatServer` | `Route.hpp`, `UdpServer.hpp` | main loop, list of users, the workers' walk over it; the pool is an instance of `TaskPool` |
| `ChatClient` | `UdpClient.cc`, `myThread.hpp` | two threads and `main` |
| `Protocol` | `Encode` and `Decode` | operators on byte sequences |
| `CalcServer` | `IOService.hpp`, `NetCalcu.hpp`, `Client.cc` | the bytes on the wire and in the two queues; each `Recv` takes any non-empty prefix; whether a reset is due and SIGPIPE has come |
| `HttpServer` | `Http.hpp`, `tcpServer.hpp` | a thread per connection, what has arrived, where its request was cut, the table of suffixes |
| `TcpEcho` | `tcpServer.hpp`, `tcpClient.cc` | bytes on their way, as numbers, of which a read takes any part; the pool is an instance of `TaskPool` |
| `UdpServices` | `UdpServer.hpp`, `Dict.hpp`, the clients | sequences of datagrams |
| `ListenPort` | `Socket.hpp`, `UdpServer.hpp` | how far each process has come, and who has the port |
| `NamedPipe`, `SharedMemory` | `namedPipe.hpp`, `shm.hpp`, the programs | both programs of each pair, with kills and restarts |
| `BufferedStream` | `mystdio.c` | cache, file, what was accepted |
| `NonBlock`, `PipeDemo` | `9.nonBlock`, `testPipe.cc` | one loop each |
| `Tickets`, `CondDemo`, `ThreadDemo` | `synAndmutex.cc`, `testCond.cc`, `thread.cc` | `main` and its threads |
| `LogWriter` | `Log.hpp`, `lockGuardian.hpp` | two fields of a time, the static buffer, the lock |
| `RingQueueProofs`, `ThreadPoolProofs` | | the theorems about one component |
| `ThreadsProofs`, `IpcProofs`, `ProcessesProofs`, `ServicesProofs`, `SocketServersProofs` | | the theorems about the components of `MCThreads`, `MCIpc`, `MCProcesses` and `MCServices`, and about the event servers and `CommandServer`; those about `ChatServer` are at its end |
| `MCThreads`, `MCIpc`, `MCProcesses`, `MCEventServers`, `MCServices`, `MCChatServer` | | the instances that TLC checks |

`RingQueue` and `BlockQueue` implement the same `BoundedFifo`; `ThreadPool`
implements the `TaskPool` that `ChatServer` and `TcpEcho` are built on; the
three event loops extend `EventLoop`, which like `CommandServer` extends
`Sockets`; `CalcServer` extends `Protocol`.

An MC module brings together programs of one kind that do not interact. Its
variable `program` (`mux` for the event loops) says which of them runs in a
behaviour; the variables of the others keep an initial state. `MCProcesses`
extends `MCIpc`, so that one run checks the programs of both. The invariants of
the run are the conjunctions of the programs' own, each of which is stated in
the program's module.

Abstractions, by component:

- An item, task, message or request is a model value. Logging, text output and
  sleeps are left out.
- `RingQueue`: a slot's contents are written at the end of the access; nobody
  can read the slot before, which is what `NoSlotRace` establishes.
- `ThreadPool`: `pthread_create` succeeds (the callers of `Thread::Start` do not
  look at its result). A client pushes each task once and may end with `Stop`
  if it is in `Stoppers`. Setting
  `_isrunning` in `Start` is a step of its own, since another client may come
  between it and the creation, or between it and the first thread.
- `ProcessPool`: a command is 4 bytes, written and read at once (below
  `PIPE_BUF`). No more commands are sent than fit into a pipe. `N` is the MOST children
  that are made, so a run meets every smaller number too, and pools with more
  channels than there are tasks as well as fewer.
- `EventLoop` and `CommandServer`: what is counted is what one `recv` may find. A
  client in `Askers` sends one whole request and waits for the reply; of one in
  `Torn` a request may arrive in two segments, or a second be sent ahead,
  and `recv` takes one or more of what has arrived and answers it with one
  reply. `FdLimit` is `RLIMIT_NOFILE`; descriptors
  0 to 2 are open from the start and 3 is the listening socket.
  `EpollServer` has one wait report everything that is ready, fewer than
  `events_num`.
- `CommandServer`: a refused command, a command whose `popen` fails and one that
  is executed differ only in the pipe. `Popen` needs two free descriptors, for
  `pipe` opens two before the child's is closed. History variable `raced`
  records that a descriptor was given out between the two closes of one number.
- `ChatServer`: `message` is what the buffer of the main thread holds; the tasks
  have copies (`std::bind` copies its arguments).
- `CalcServer`: one connection stands for all, which share nothing but the log,
  until it brings SIGPIPE: `fallen` is the end of the process, which the others
  do not outlive. The digits of the length are one byte, and a payload is the
  sequence of its three (or two) fields. Numbers stay below 20, as `Client.cc`
  makes them, so `int` does not overflow.
- `HttpServer`: a request is a method, a target and whether it has arguments; a
  cut is one of the places that `Deserialize` can tell apart. Connecting and sending
  are steps of their own. A look-up with
  `operator[]` is a beginning and an end, so that overlap can be seen; an
  insertion that overlaps another access may do anything. A status that nobody
  has written is any of `Garbage`.
- `TcpEcho`: lines are their lengths, since only those decide what fits where. The
  14 bytes of the prefix and the 1024 of both buffers are constants, small in
  the run. `torn` is a history variable: the clients one of whose lines or
  echoes was read in part.
- `UdpServices`: words are compared, not taken apart; a dictionary line is the
  pair that was found on both sides of the separator, empty where one is missing.
- `ListenPort`: every call that gets a port may fail; a connection that the
  server closed first holds the port for a while.
- `BufferedStream`: a byte is a newline or it is not. A copy past the cache is
  the state "overrun", after which nothing is promised but what was written.
- `LogWriter`: a time has two fields, which a thread reads from the static buffer
  one after the other.
- `SignalDemos`: `testVolatile` as compiled without optimisation, where the loop
  reads the flag in every pass.
- `ForkDemos`: how the shell splits a line is left out; a command has an exit
  code, fails to start or is killed.

## Runs

Distinct states are those of the passing runs; every run takes well under five
minutes with two workers.

| Run | Programs and bounds | Shows | States |
|---|---|---|---|
| `ring` | 2 producers, 2 consumers, 2 items, 3 slots | `PositionsAgree`, `NoSlotRace`, the refinement `RefinesFifo` and `BothSidesProgress` | 53,695 |
| `threads` | block queue (2 producers, 2 consumers, 2 items, 2 places); 3 ticket sellers, 3 tickets; 3 condition waiters; the log (2 writers, a clock of 3); thread demos; chat client (2 lines) | `NoLostWakeup`, `SoldAndJoined`, `LinesTruthful`, `RefinesFifo`, `NeitherSideSleepsOn`, `EveryWaiterWakes` | 60,277 |
| `pool` | 2 workers, 2 clients of which one may stop, 3 tasks | `OneInstance`, `WorkKeepsAWorkerAwake`, `RefinesTaskPool`, `EveryPushRuns`, `StopEndsWorkers` | 35,926 |
| `pool_early_push` | 1 worker, 2 clients, nobody stops | violates `RefusedOnlyWhenStopped` | |
| `processes` | process pool (up to 4 children, 2 tasks, `fork` may fail); named pipe (2 servers, 2 clients, 2 lines each); shared memory (3 letters, 2 starts); stream (cache of 4, up to 7 bytes); non-blocking reads; pipe demo; SIGCHLD (5 children, one never ends); signal demos (3 signals, 2 passes); fork demos; file demos (2 programs) | `NoTaskLost`, `PipesDeliver`, `BytesKept`, `ReclaimEnds`, `OrphansQuit`, `NoZombieForgotten`, `SignalsKept`, `ToldRight`, `FatherGoesOn` | 28,042 |
| `pool_hang` | up to 3 children, 1 task, `fork` may fail | violates `ChildrenAllQuit` | |
| `event_servers` | select, poll and epoll server; 3 clients of which 2 ask, one of them in up to 2 pieces, 2 descriptors for them (poll: 3 descriptors, 2 positions), waiting may fail | `ReadyStaysReady`, `EveryOpenOneWatched`, `Survives`, `EventsHandled` | 178,889 |
| `event_error_blocks` | the same | violates `NeverBlocks` | |
| `command_clients` | 3 clients of which 2 send a command, one of them in up to 2 pieces, 3 descriptors | `EndedEarlyOnlyByRace`, `OnlyPipesLeak`, `CommandsServed` | 494,543 |
| `command_double_close` | 2 clients, 2 descriptors | violates `EndedOnlyAfterQuit` | |
| `chat` | 3 users, 5 messages of which one is QUIT, 2 workers | `AtMostOnce`, `ListStandsStill`, `Delivered` | 241,806 |
| `services` | calculator (3 requests out of 5, up to 2 ahead, every cut of both streams); HTTP (2 browsers, 7 requests, every cut of one); TCP echo (2 clients, 1 worker, lines of 0, 2 and 3 bytes, a prefix of 1 and buffers of 4, every cut); UDP echo and dictionary (2 clients, 2 lines each, sockets of 2 datagrams, 1 copy); ports (2 processes, 2 runs each) | `InStep`, `AnswersMatch`, `RequestsSettled`, `ClientsServedRight`, `EchoesOrStarves`, `NoOneLeftWaiting` | 382,761 |

What the combined names stand for is said where they are defined: `SoldAndJoined`
is `Tickets!SoldOnce`, `ThreadDemo!JoinsRight` and `ChatClient!ChatGoesOn`;
`PipesDeliver` is `FifoDelivers`, `ReaderSees` and `AcceptsAll`; `BytesKept` is
`StreamKeeps` and `ReadsToTheEnd`; `ToldRight` is `ReportsRight` and
`FilesRight`; `ClientsServedRight` is `AnswersFit` with the types of `HttpServer`,
`EchoesInStep`, `AnswersInStep` and `PortsKept`.

Type invariants are proved for the components that have proofs; of the rest,
that of `HttpServer` is part of a run.

Why these bounds are enough to meet the interesting cases:

- `ring`, and the queue in `threads`: two threads on each side contend for a mutex and wait
  together; capacity 3 (2) lets the ring wrap, be full, be empty and be between,
  and two items tell the order apart.
- The other programs of `threads`: three threads take a lock in every order, one
  can be between two others, be on its way to the wait while the others sleep,
  be detached while another is joined, or not exist because its creation failed.
  Two calls of the log overlap across a change of the minute.
- `pool`: two clients race for the singleton; two workers are both asleep, one
  awake, or one woken and not back yet while a further push comes; with three
  tasks the queue grows behind the running ones. Three workers (156,355 states)
  give the same result. The safety properties are proved for any number.
- `processes`: the fourth child inherits three write ends. With two tasks a pool of
  one child wraps the round robin, a pool of two uses each channel once, and in
  one of three or four some channels get nothing, so that a failed `fork` on such a
  channel does not kill the parent before it reclaims. Failures come first,
  last or in between. A second server of the fifo may find the file of the
  first; two clients come while it leaves. Each program of the shared memory
  starts again after its death and finds what was left. A piece of three bytes
  behind two does not fit the cache.
  Several exits can meet one signal, during the handler and before
  it; three signals meet as pending, blocked and handled; commands exit with
  zero and others, fail to start, are killed, with and without a core; two
  programs touch one file at every point of each other.
- `event_servers`: two pieces are what it takes for a second send to a client that
  has gone, in one pass or in two; one of the three clients only comes and goes.
  With three clients and two descriptors one connection waits
  in the backlog while `accept` fails in every pass, and a number that a hang-up
  frees is given out again before the pass ends; the poll server runs out of
  positions before it runs out of descriptors.
- `command_clients`: again two pieces of one command; three descriptors for three connections and their pipes, so
  that numbers are reused, `accept` fails and `popen` fails.
- `chat`: QUIT overtakes or follows the other message of its sender, senders are
  first, last and in between on the list, and two workers compete for the
  route's mutex with the main thread.
- `services`: the calculator's five requests give every kind of answer; two
  on the wire make `Recv` return the end of one message with the beginning of
  the next, and a client that quits with two unanswered meets SIGPIPE. The
  HTTP requests reach every branch of `HandlerRequest`, two threads
  insert and read at once, and a browser may connect and say nothing. With the
  prefix, a line of 2 bytes fits the echo client's buffer with room to spare and one of 3
  fills it; both can be read in parts, so that one line has several
  echoes and two lines one. One worker with two clients
  makes one starve. The dictionary has a line without a word, one without a
  translation and a repeated word.

Deadlock is checked in `ring`, whose threads never stop. In the other runs a
program may come to rest: clients run out of things to do, programs end.

Every property has a mutant in its module: a copy of one operation with a
plausible slip (a missing lock, a signal to the wrong side, a forgotten reset, a
bound off by one). The mutants stand before the operation they change and are
used by no specification.

## Fairness

- Weak fairness of each thread or process: the operating system keeps scheduling
  it. A thread that waits for a mutex or a semaphore others keep taking is NOT
  promised its turn; the liveness properties of the queues say that a side makes
  progress, not that each thread does. In `ThreadPool` and `ChatServer` calls
  are finitely many, so the mutex is free in the end.
- The waiters of the condition demonstration have strong fairness: the mutex is
  free again and again, for each holder keeps it only for a moment and `main`
  broadcasts once in a second.
- Spurious wakeups come to an end in `threads` and `pool`: endless ones would let
  threads hold the mutex whenever another could take it.
- `event_servers`: the one loop goes on. A failing `select` may recur for ever;
  the pass goes on after each, which is why requests are handled unless the
  server waits on another descriptor (`Blocked`). A `poll` that keeps failing
  may leave `revents` empty in every pass, so it is assumed to succeed again and
  again (strong fairness of `Poll`); `epoll_wait` fails without any effect.
- `processes`: the handler, the fathers' loops and the delivery of signals are
  scheduled, each process that can go on goes on; when the children of the SIGCHLD
  program end is their own affair.
- Clients owe nothing: they may never connect, never ask, never hang up, HTTP
  browsers included. The network of the chat and UDP servers may lose datagrams; TCP delivers what was
  sent, and bytes that have arrived are received in the end.

Where it says the same, liveness is stated as `[]<>P` ("again and again nobody is
left waiting") rather than as a leads-to for each request.

## Disagreements between code and comments

Four runs end with a violation of what the code's comments promise.

1. `pool_early_push`: `GetInstance` sets `_tp` (`threadPool.hpp:156`) before
   `Init` and `Start`. A client that finds `_tp` set goes on to `Push` while
   `_isrunning` is still false, and its task is dropped silently. The comment at
   line 134 gives closing the pool as the reason for that test.
2. `event_error_blocks`: `case -1` in `Loop` has no `break`
   (`selectServer.hpp:149`), so after a failing `select` the handlers run with
   every descriptor in the set, and the server waits in `accept` or `recv`. The
   comments at lines 36 and 68 say that they never block there. The poll server
   has the same gap (`pollServer.hpp:142`), with the results of an earlier pass.
   `event_servers` shows that this is the only way: after a call that succeeded
   they never do, and the epoll server, whose `case -1` has its `break`, never.
3. `command_double_close`: `HandlerCommand` closes the descriptor and `Execute`
   closes it again (`tcpServer.hpp:37`). A client accepted in between gets the
   number and is cut off. `command_clients` shows that this is the only way a
   connection ends before its client quits.
4. `pool_hang`: in place of a child it could not fork, the parent stores the pid -1
   and later calls `waitpid(-1)` (`ProcessPool.cc:44`), which waits for ANY child,
   and the younger ones still wait for the end of pipes that the parent would close
   next. The comment at line 151 gives closing each pipe and waiting for its
   child as the way to end them all. It takes a fork that fails in the middle and fewer
   tasks than would reach its channel (`main` sends five, whatever `argv[1]` says), for
   a task sent to it would kill the parent by SIGPIPE. `ReclaimEnds` in `processes`
   states that nothing else keeps the parent from ending.

Further ones that the models contain and that have no run:

- Nothing ignores SIGPIPE. The event servers and the command server answer every
  piece of a request that `recv` returns (`selectServer.hpp:68`, which says itself
  at 65 that it need not be a whole message), so a client that hangs up while
  two pieces of one request are unanswered ends the server. `Survives` and
  `EndedEarlyOnlyByRace` state that no other client can.
- The calculator does the same when a client quits with two requests
  unanswered (`IOService.hpp:66`), which `Client.cc` never has; `InStep` states
  that it takes two.
- The command server never closes the pipe of a `popen` (`Command.hpp:46-56`, no
  `pclose`), so each command costs a descriptor and a zombie.
  `OnlyPipesLeak` states that nothing more is lost.
- A browser that connects and says nothing keeps a thread of the HTTP server in
  `Recv` for ever (`7.http/tcpServer.hpp:21`, no timeout); `NoOneLeftWaiting` excuses
  exactly those.
- Each end of the calculator's connection decodes one message per `Recv`
  (`IOService.hpp:44`), so the last of several requests sent ahead may stay
  unanswered until a further one arrives. `RequestsSettled` states how many
  may: one less than are sent ahead, so none with `Client.cc`.
- The comment at `Protocol.hpp:190` lists the error codes 1 (division by zero) and
  2 (illegal); `NetCalcu` answers 2 for a modulus by zero and 3 for an operator
  it does not know.
- `Route.hpp:82` says that the sender is on the list at this point; after QUIT it
  is not. Nothing relies on it.
- `SO_REUSEADDR | SO_REUSEPORT` (`7.http/Socket.hpp:90` and its copies) is the number
  of `SO_REUSEPORT` alone: two HTTP servers share a port and neither is told.
  The calculator sets no option, and started again it may find its own old
  connections in the way. `PortsKept` says exactly when which happens.
- At the end of its input the chat client sends empty datagrams for ever
  (`3.chatServer/UdpClient.cc:58`); `ChatGoesOn` allows those and nothing else.
- The shell and `testExec.c` take the exit code from the status of a child that
  was killed, and say that it succeeded. `ReportsRight` states who does.
- The echo server echoes each read (`tcpServer.hpp:173`) and its client reads once per
  line (`tcpClient.cc:51`). A line that TCP cuts has two echoes, of which
  the client reads one: its answers fall behind its lines, and if it quits so the
  server may be ended by SIGPIPE. `EchoesInStep` states that neither happens to clients
  of whom everything was read at once.
- Above 1024 descriptors `FD_SET` in the select server writes outside its set
  before `fd_array` is full. The runs keep the descriptor limit below.

## Proofs

All theorems are proved for every value of the constants that satisfies the
named assumptions of the module: finite sets of threads and clients, disjoint
where they must be, a capacity of at least one, names such as "none" and
"missing" that are not names of programs. Each invariant below was checked by TLC as an
invariant of its run before it was proved; what a run checks is then a
consequence of it.

`RingQueueProofs`, any number of threads and any capacity:

- `TypeCorrect`, `SemaphoresConserved`, `PositionsCorrect`, `SlotsRaceFree`, `Refinement`.
- `NoSlotRace` is not inductive: that a producer and a consumer are at different
  slots follows from how many slots are filled. The invariant is
  `IInv == TypeOK /\ MutexInv /\ UnitsConserved /\ PositionsAgree`: a mutex is
  held exactly by the thread that accesses a slot; the units of both semaphores
  and those in the threads' hands add up to the capacity; the distance between
  the positions is the number of filled slots. If both sides are inside, the
  consumer has a unit of data (so at least one slot is filled) and the producer
  a unit of space (so at least one is not), and the positions differ.
- The first lemmas say how the size of a set of threads changes when one thread
  moves; `SumRange`, `AfterWrite` and `AfterRead` do the arithmetic modulo the
  capacity.
- `Refinement`: the queue of `BoundedFifo` is the stretch of the ring between the
  positions. `WriteAppends` and `ReadTakesFirst` say what the end of an access
  does to that stretch, and `ContentsKept` that no other step changes it.

`ThreadPoolProofs`, any number of workers (at least one) and clients:

- `TypeCorrect`, `CriticalSectionsExclude`, `Singleton`, `SleepersCounted`,
  `StopWakesEveryone`, `NoLostWakeup`, `Refinement`.
- `WorkKeepsAWorkerAwake` needs the rest of `IInv`. A worker goes to sleep only
  with the mutex and an empty queue. `Push` adds a task, and it signals if
  `_sleepNum > 0`; that the count is exact (`SleepNumCounts`) makes "nobody
  counted" mean "nobody asleep". No worker has quit while the pool runs
  (`QuitInv`), so whoever is not asleep is awake or not started. `QuitInv` in
  turn needs that `Start` runs once and before any worker (`SingletonInv`).
- One lemma per group of actions (`EnterInv`, `StartInv`, `PushInv`, ...), with a
  step for each conjunct that the action can disturb.
- `Refinement`: `PlaceInv` says that a task is at one place only (with its
  client, queued, with one worker, finished or refused), so what is pushed was
  not seen before and what runs is no other worker's; `RoomForOne` that a worker
  which takes a task leaves fewer than `MaxRunning` at work.

`SocketServersProofs`, any number of clients, any limit on descriptors, and for
the event servers any size of the arrays:

- `IInvHolds`, `EveryOpenOneIsWatched`, `WhatIsReadyStaysReady`, `ServerSurvives`.
  The invariant has a part for the kernel and one for each loop. `KernelInv`: a
  connection is in the backlog or has one descriptor, never both, and the
  numbers up to the listening socket's stay what they are. `SelectInv`,
  `PollInv` and `EpollInv`: what is watched is what is open, and what is still
  to be looked at in this pass (`NextPos` on) and was reported is readable.
  That does not follow from the report alone: earlier in the pass a descriptor
  may have been closed and, by an accept, given out again, and the proof is that
  a handler closes and accepts only at its own position, which the pass has
  left. `Owed` is what bounds SIGPIPE: what is unread of a client, the one request being
  answered and the one that was refused with RST are all among the
  requests and pieces it has sent and has no reply to. So a second
  send meets a client that left two of them, which is what `ServerSurvives`
  says, however requests are torn. The loops are lemmas about one
  operation of one loop each, over lemmas about the kernel's operations.
- `CommandIInvHolds`, `OnlyPipesLeakHolds`, `OnlyTheRaceEndsEarly`. The
  invariant is `raced \/ CommandInv`: until a descriptor is given out between the
  two closes of a thread, each thread in its loop has its own connection open
  (`ThreadInv`), the pipes are as many as the commands run, and `Owed` holds for the
  threads that answer. From the race on nothing is claimed, and
  `EndedOnlyAfterQuit` without the exception is a finding.

`ChatServer`, any number of users, messages and workers: `ChatInvariant`,
`NobodyHearsTwice` and `WorkersSeeOneList`. `ChatInv` says that whoever is between
the first user and the last holds the route's mutex, that he has reached nobody
but those he has passed, each once, that what waits in the pool has not been
forwarded, and that nobody is listed twice. Whoever changes the list finds the
mutex free, so those passed stay those passed.

`ThreadsProofs`, any number of threads (of the queue, at least one on each side)
and any capacity:

- `TypeCorrect`, `CriticalSectionsExclude`, `WakeupsKept`, `Refinement` for the
  block queue. `NoLostWakeup` is inductive once the mutex is known to be held by
  whoever looks at the queue (`MutexInv`): a thread goes to sleep only after a look
  that the queue cannot have outlived, and a signal to a side of which all sleep
  wakes one of them. `PendingInv` (a producer has an item until it has inserted
  it) gives the refinement its parameters.
- `ProgramsInvariant`, `SoldAndJoinedHolds`, `LogLinesTruthful`. `TicketInv`: a seller past
  the lock holds it, and the tickets shown, the one in hand included, are those
  gone, which is why looking and selling under one lock never goes below zero.
  `DemoInv`: the threads that `main` has come past are joined as they ended, and what
  it waits for has not detached itself. `ChatClientInv`: the socket outlives both
  threads; what is on the screen and what is unseen make up what arrived.
  `LogInv`: the static memory of `localtime` holds, while a call reads it, its own
  time or one of a call that overlaps with it; for that, two calls under way
  know of each other's times.

`IpcProofs`, any number of children, tasks, processes, lines and letters, any
pattern of failed forks:

- `TasksKept`, `WriteEndsClosed`, `NobodyLeft` for the process pool.
  The invariant says that what a child was sent is what it has handled followed
  by what is in its pipe (`PipeInv`), that a child has write ends open only while
  it closes them and none of a younger pipe (`EndsInv`), and that channel k belongs
  to child k, which has been waited for once the parent has passed it, or to
  nobody (`ChannelInv`). That a task is not written to a pipe whose reader has
  ended is what SIGPIPE is for. `WriteEndsClosed` is the fact that `ReclaimEnds` depends
  on: without it a younger child would keep an older one's pipe open.
- `IpcInvariant`, `PipesDeliverHolds`, `BytesKeptHolds`. `FifoInv`: a client's lines are
  in the fifo it has open, in order and nowhere else (`OrderInv`, over what was
  heard followed by what is in the pipe), and what a leaving server has not read
  is of clients that came late. `ShmInv`: a server was never woken more often than
  letters were written before. `StreamInv`: file and cache make up what was
  accepted, as long as no write was short. `PipeDemoInv`: the child keeps its
  write end while it lives, so the father reads end of file only after it.

`ProcessesProofs`, any finite set of children, any number of signals, exit
codes and programs on one file:

- `TypeCorrect` and `NoZombieIsForgotten`. The invariant is inductive together
  with the types, because the handler returns only when it has found no zombie.
- `DemosInvariant`, `SignalsKeptHolds`, `ToldRightHolds`. `SigInv`: which signals have a
  handler and are blocked at each place of each program, and that the seconds of
  the alarm and those the program was held up add up to three. `ForkInv`: a status
  word is that of an exit or of a kill, `StatusWord` takes it apart again, and
  what was reported is what the demonstration makes of it. `FileInv`: what each
  program has put where, and, as long as nobody else has touched the log, what
  is in it; here the proof is that each operation leaves every other program's
  part alone (`OthersStay`).

`ServicesProofs`:

- `DecodeEncode` (what `Decode` takes from the front of a stream that begins with
  `Encode(payload)` is that payload, and what it leaves is the rest) and
  `TornMessageWaits` (no proper prefix of a message is decoded), for any payload
  and any bytes behind it. They assume only that the two bytes of the separator
  differ and are no digits; the payload may contain the separator, for the length
  is what counts.
- `StreamsInStep` and `ResponsesMatch`, any set of requests (with operands from 0
  to 19, as `Client.cc` draws them, and any operator), any number of them, any lead
  of the client. `CalcInv` says in what way the bytes are made of the messages:
  the server's buffer followed by its socket is exactly the requests sent and not
  yet answered, one after the other, the client's is exactly the responses not
  yet read, and the k-th response is that to the k-th request. All messages have
  the same size, so "one after the other" is a statement about every index
  (`CarriesEight`) and not a concatenation of many; a piece that arrives moves
  bytes from socket to buffer and changes neither, `CarriesMore` and `CarriesLess` are
  what a message sent and a message decoded do. `CalcEnds` adds that SIGPIPE takes a
  client that quit with two requests unanswered. `Arithmetic` is
  `NetCalcu.hpp`, operator by operator.
- `EachServedRight`, any set of clients, any lengths of lines, any prefix and any
  buffers of the echo server, for the HTTP requests and the dictionary of
  `MCServices`; one inductive invariant per program, and a program
  that does not run keeps its own (`HttpSame`, `EchoSame`, `UdpSame`, `PortSame`).
  - `HttpInv`: a thread that looks up a file has received a request that leads to one, what
    it is about to send fits what it received (`HandlerRequest`), and if the table
    of types is damaged, two threads came to it, one of which asked for a suffix
    that it does not list. Without the last part `AnswersFit` is not inductive: the damage
    is done long before an answer shows it.
  - `EchoInv`: of a client of whom no read has taken a part only, at most one of the
    three places between its keyboard and its screen holds bytes
    (`InOnePlace`). A reset comes from a client that has left, so it meets
    a worker with bytes, and ends the server, only if some line was cut.
  - `UdpInv`: of a user none of whose datagrams came twice, at most one datagram
    or answer is under way, at one place, and it is the line entered last or the
    answer to it (`UserInv`). So the k-th answer is the k-th line's although
    datagrams overtake each other: nobody sends the next one before.
  - `PortInv`: whose socket has `SO_REUSEPORT` at which step, and that what
    lingers in `TIME_WAIT` was left by an earlier run; this is why the calculator
    finds the port taken after a run of its own and the HTTP server does not.

Where an operator of the library computes by recursion over a sequence
(`SelectSeq`, `FlattenSeq`), the model states the same by index sets, so that no
proof needs induction over data: `Without` in `ChatServer`, `Own` and `InOrder` in
`IpcProofs`, the lines in `NamedPipe`, `TranslateWords` in `UdpServices`, `Carries` in
`CalcServer`.

Only model-checked:

- liveness under fairness (`BothSidesProgress`, `NeitherSideSleepsOn`,
  `EveryWaiterWakes`, `EveryPushRuns`, `StopEndsWorkers`, `ReclaimEnds`,
  `OrphansQuit`, `FatherGoesOn`, `EventsHandled`, `CommandsServed`, `Delivered`,
  `RequestsSettled`, `EchoesOrStarves`, `NoOneLeftWaiting`): the prover has no rule
  for it, nor for `ENABLED`.

Every invariant, every refinement and every action property of the passing runs is
also the statement of a theorem.

## What is not modelled

| Part | Why |
|---|---|
| epoll reactor skeleton | its handlers have no bodies yet |
| `Version_1` and `Version_2` of the echo server | `main` calls `Version_3` |
| arguments, environment, addresses | programs without state between two steps |
| the loop that makes five children (`1.ProcessTest1`) | like the forks of `SigChld`, without a handler |
| generated code of `ProtoBuftest`, the MySQL test | not code of this repository's own |

Within modelled parts: the JSON text of the calculator, lengths that are not
numbers (`stoi` would throw), lengths of more than one digit (the digits are one
byte of the model), overflow of `int`, the wording of HTTP headers, the
arithmetic of the ring queue's `Task.hpp`, how the shell splits a line, and the
sleeps of the test programs.

## Plan

The order followed what matters most: the concurrent data structures first, then
the servers that share state between threads or between passes, then the
programs that share files, pipes and signals.

Done: all programs with state of their own, except those of the table above; the
proofs listed above.

Next, proving more:

1. `EachServedRight` for dictionaries and HTTP requests other than those of
   `MCServices`, which are values there and not parameters.
2. For the calculator, streams whose messages differ in size.

When the reactor's handlers get bodies, it belongs on top of `EventLoop`.

Programs of one kind that do not interact share a run; each disagreement has a
run of its own.

## How to run everything

In this directory, with the modules on TLC's and the prover's path:

    tlc -workers 2 -config ring.cfg RingQueue.tla
    tlapm RingQueueProofs.tla

The `runs` of `PROJECT.json` say which module goes with which configuration.
