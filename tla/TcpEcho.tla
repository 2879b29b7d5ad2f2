------------------------------- MODULE TcpEcho ------------------------------
(* NetCode/4.tcpEchoserver: the main thread accepts connections and pushes *)
(* each to a thread pool, whose worker stays with it until the client      *)
(* leaves. Of the lines only their lengths matter. TCP keeps the bytes in  *)
(* order and may hand them over in any pieces; neither end collects them.  *)
EXTENDS Naturals, Sequences, FiniteSets

CONSTANTS
  Callers, Workers,
  Lengths,       \* of the lines a caller may enter
  MaxLines,      \* how many each enters
  Prefix,        \* the length of "[server echo]#"; 14
  Buffer         \* of inbuffer and of echobuffer; 1024

VARIABLES
  caller,        \* what each client does
  lines,         \* the lengths of the lines it has sent
  lineBytes, echoBytes,    \* bytes on their way, there and back
  held,          \* bytes a worker has read and not yet echoed
  rst,           \* a reset on its way to the server
  torn,          \* the clients one of whose lines or echoes was read in part
  up,            \* the server runs
  backlog,       \* connections to be accepted
  open, pending, running, finished, refused     \* the pool

pool == <<open, pending, running, finished, refused>>
echoVars == <<caller, lines, lineBytes, echoBytes, held, rst, torn, up, backlog, pool>>

Pool == INSTANCE TaskPool WITH Tasks <- Callers, MaxRunning <- Workers

InBuffer == Buffer - 1    \* what Service reads at most at once
EchoBuffer == Buffer      \* what a client reads at most at once

Init ==
  /\ caller = [c \in Callers |-> "away"]
  /\ lines = [c \in Callers |-> <<>>]
  /\ lineBytes = [c \in Callers |-> 0] /\ echoBytes = [c \in Callers |-> 0]
  /\ held = [c \in Callers |-> 0]
  /\ rst = [c \in Callers |-> "none"] /\ torn = {}
  /\ up = TRUE /\ backlog = <<>>
  /\ Pool!Init
-----------------------------------------------------------------------------
Do(c, what) == caller' = [caller EXCEPT ![c] = what]
Add(bytes, c, n) == [bytes EXCEPT ![c] = @ + n]
Take(bytes, c, n) == [bytes EXCEPT ![c] = @ - n]
InPart(c, taken, all) == torn' = IF taken < all THEN torn \cup {c} ELSE torn

Connect(c) ==
  /\ up /\ caller[c] = "away" /\ Do(c, "prompt")
  /\ backlog' = Append(backlog, c)
  /\ UNCHANGED <<lines, lineBytes, echoBytes, held, rst, torn, up, pool>>

(* An empty line is a write of no bytes: the client waits all the same. *)
Enter(c) ==
  /\ caller[c] = "prompt" /\ Len(lines[c]) < MaxLines[c] /\ Do(c, "reading")
  /\ \E n \in Lengths : lines' = [lines EXCEPT ![c] = Append(@, n)] /\ lineBytes' = Add(lineBytes, c, n)
  /\ UNCHANGED <<echoBytes, held, rst, torn, up, backlog, pool>>

(* The socket is closed; if it still holds bytes, the server is told. *)
Leave(c, unread) ==
  /\ Do(c, "closed")
  /\ rst' = IF unread > 0 /\ rst[c] = "none" THEN [rst EXCEPT ![c] = "sent"] ELSE rst

(* A read takes what has come, or a part of it. One that fills echobuffer  *)
(* writes its end behind it, which may pass unnoticed or end the client.   *)
ReadEcho(c) ==
  /\ caller[c] = "reading"
  /\ \E n \in 1 .. echoBytes[c] :
       /\ n <= EchoBuffer /\ echoBytes' = Take(echoBytes, c, n) /\ InPart(c, n, echoBytes[c])
       /\ \/ Do(c, "prompt") /\ UNCHANGED rst
          \/ n = EchoBuffer /\ Leave(c, echoBytes[c] - n)
  /\ UNCHANGED <<lines, lineBytes, held, up, backlog, pool>>

(* The user ends the client, or its read meets the end of the server. *)
Quit(c) ==
  /\ caller[c] \in {"prompt", "reading"} /\ Leave(c, echoBytes[c])
  /\ UNCHANGED <<lines, lineBytes, echoBytes, held, torn, up, backlog, pool>>

ResetArrives(c) ==
  /\ rst[c] = "sent" /\ rst' = [rst EXCEPT ![c] = "here"]
  /\ UNCHANGED <<caller, lines, lineBytes, echoBytes, held, torn, up, backlog, pool>>
-----------------------------------------------------------------------------
(* The first Push makes the pool and starts it, on the main thread. *)
GetInstance ==
  /\ up /\ backlog # <<>> /\ Pool!Open
  /\ UNCHANGED <<caller, lines, lineBytes, echoBytes, held, rst, torn, up, backlog>>

(* The connection becomes a task. *)
Version_3(c) == Pool!Accept(c)

Start ==
  /\ up /\ open /\ backlog # <<>>
  /\ backlog' = Tail(backlog) /\ Version_3(Head(backlog))
  /\ UNCHANGED <<caller, lines, lineBytes, echoBytes, held, rst, torn, up>>

(* Handler: a free worker takes the oldest connection. *)
Handler ==
  /\ up /\ Pool!Begin
  /\ UNCHANGED <<caller, lines, lineBytes, echoBytes, held, rst, torn, up, backlog>>

(* read takes what has come, or a part of it. *)
ServiceRead(c) ==
  /\ up /\ c \in running /\ held[c] = 0 /\ rst[c] # "here"
  /\ \E n \in 1 .. lineBytes[c] :
       /\ n <= InBuffer /\ lineBytes' = Take(lineBytes, c, n) /\ held' = Add(held, c, n)
       /\ InPart(c, n, lineBytes[c])
  /\ UNCHANGED <<caller, lines, echoBytes, rst, up, backlog, pool>>

(* A client that has closed its socket answers with a reset; once that has *)
(* come, a write brings SIGPIPE.                                           *)
ServiceWrite(c) ==
  /\ up /\ c \in running /\ held[c] > 0
  /\ held' = [held EXCEPT ![c] = 0]
  /\ IF rst[c] = "here" THEN up' = FALSE /\ UNCHANGED <<echoBytes, rst>>
     ELSE /\ UNCHANGED up
          /\ IF caller[c] = "closed"
             THEN rst' = [rst EXCEPT ![c] = "sent"] /\ UNCHANGED echoBytes
             ELSE echoBytes' = Add(echoBytes, c, Prefix + held[c]) /\ UNCHANGED rst
  /\ UNCHANGED <<caller, lines, lineBytes, torn, backlog, pool>>

(* MUTANT of ServiceEnd: only an error ends the loop, not the end of the   *)
(* stream.                                                                 *)
ServiceEnd_ErrorOnly(c) ==
  /\ up /\ c \in running /\ held[c] = 0 /\ rst[c] = "here"
  /\ Pool!Finish(c)
  /\ UNCHANGED <<caller, lines, lineBytes, echoBytes, held, rst, torn, up, backlog>>

(* read returns 0 or an error, the socket is closed, the worker is free. *)
ServiceEnd(c) ==
  /\ up /\ c \in running /\ held[c] = 0
  /\ rst[c] = "here" \/ (caller[c] = "closed" /\ lineBytes[c] = 0)
  /\ Pool!Finish(c)
  /\ UNCHANGED <<caller, lines, lineBytes, echoBytes, held, rst, torn, up, backlog>>
-----------------------------------------------------------------------------
Service(c) == ServiceRead(c) \/ ServiceWrite(c) \/ ServiceEnd(c)
Main == GetInstance \/ Start
Next ==
  \/ Main \/ Handler
  \/ \E c \in Callers : Connect(c) \/ Enter(c) \/ ReadEcho(c) \/ Quit(c)
                        \/ ResetArrives(c) \/ Service(c)
-----------------------------------------------------------------------------
(* main of tcpClient.cc, Service: a client that asks for a line has read   *)
(* the whole echo of every line before, unless a read, its own or the      *)
(* server's, has taken only part of what was there: then its answers fall  *)
(* behind its lines. And only such a client, when it quits, can bring      *)
(* SIGPIPE to the server: to the others one write at most is left.         *)
EchoesInStep ==
  /\ \A c \in Callers : caller[c] = "prompt" /\ c \notin torn =>
       lineBytes[c] = 0 /\ held[c] = 0 /\ echoBytes[c] = 0
  /\ ~up => \E c \in Callers : caller[c] = "closed" /\ c \in torn

(* Version_3: again and again, every client that waits for the echo of     *)
(* what it sent has it, and every one that has left is let go, but for     *)
(* those in the queue behind as many clients that have not left as there   *)
(* are workers.                                                            *)
Sent(c) == lines[c] # <<>> /\ lines[c][Len(lines[c])] > 0
Unserved(c) ==
  \/ caller[c] = "reading" /\ Sent(c)
  \/ caller[c] = "closed" /\ c \notin finished
Starved(c) ==
  /\ c \in {pending[i] : i \in DOMAIN pending}
  /\ Cardinality({d \in running : caller[d] # "closed"}) = Workers
EchoesOrStarves == []<>(up => \A c \in Callers : Unserved(c) => Starved(c))
=============================================================================
