----------------------------- MODULE CalcServer -----------------------------
(* NetCode/6.calcuServer: one connection between a client and the thread   *)
(* that serves it. TCP keeps the bytes in order but hands them over in any *)
(* pieces; both ends collect them in a queue and look for a whole message  *)
(* once after every Recv. Threads share nothing but the log and the        *)
(* process, so one connection stands for all until it brings SIGPIPE,      *)
(* which nobody ignores: that ends the others with it.                     *)
EXTENDS Protocol

CONSTANTS
  Requests,      \* the requests a client may make: [x, y, oper]
  MaxRequests,   \* how many it makes
  Ahead          \* how many it sends before it reads a response; Client.cc: 1

(* x and y are not negative, and too small to overflow (Client.cc: < 20);  *)
(* the operator is a character.                                            *)
ASSUME CalcAssumption ==
  /\ \A r \in Requests : r.x \in 0 .. 19 /\ r.y \in 0 .. 19 /\ r.oper \in Nat
  /\ MaxRequests \in Nat /\ Ahead \in Nat \ {0}

VARIABLES
  link,        \* whether the connection has the thread it is due
  asked,       \* the requests the client has sent
  answers,     \* the responses it has read
  toServer, toClient,          \* bytes on their way
  serverQueue, clientQueue,    \* packagestreamQueue of each end
  served,      \* how many requests the server has answered
  quit,        \* the client has closed the connection
  closed,      \* so has the server
  resetDue,    \* a client that had quit was sent, or had not read, something
  fallen       \* SIGPIPE has ended the process

wires == <<toServer, toClient>>
ends == <<resetDue, fallen>>
vars == <<link, asked, answers, wires, serverQueue, clientQueue, served, quit, closed, ends>>

Init ==
  /\ link = "queued" /\ asked = <<>> /\ answers = <<>> /\ served = 0
  /\ toServer = <<>> /\ toClient = <<>>
  /\ serverQueue = <<>> /\ clientQueue = <<>>
  /\ quit = FALSE /\ closed = FALSE /\ resetDue = FALSE /\ fallen = FALSE
-----------------------------------------------------------------------------
(* The texts of JSON, their fields in the order of their names. The        *)
(* operator is a char, which goes over the wire as a number.               *)
SerializeRequest(r) == <<r.oper, r.x, r.y>>
DeserializeRequest(text) == [oper |-> text[1], x |-> text[2], y |-> text[3]]
SerializeResponse(r) == <<r.desc, r.errno, r.ret>>
DeserializeResponse(text) == [desc |-> text[1], errno |-> text[2], ret |-> text[3]]

Plus == 43
Minus == 45
Times == 42
Div == 47
Mod == 37
Operators == {Plus, Minus, Times, Div, Mod}

Success(ret) == [ret |-> ret, errno |-> 0, desc |-> "success"]
Failure(code) ==
  [ret |-> 0, errno |-> code, desc |-> <<"div zero!", "mod zero!", "illegal operation!">>[code]]

(* MUTANT of Calculator: a modulus by zero is not tested for. *)
Calculator_NoModTest(r) ==
  CASE r.oper = Plus -> Success(r.x + r.y)
    [] r.oper = Minus -> Success(r.x - r.y)
    [] r.oper = Times -> Success(r.x * r.y)
    [] r.oper = Div -> IF r.y = 0 THEN Failure(1) ELSE Success(r.x \div r.y)
    [] r.oper = Mod -> IF r.y = 0 THEN Success(r.x) ELSE Success(r.x % r.y)
    [] OTHER -> Failure(3)

(* NetCalcu: the response to a request. *)
Calculator(r) ==
  CASE r.oper = Plus -> Success(r.x + r.y)
    [] r.oper = Minus -> Success(r.x - r.y)
    [] r.oper = Times -> Success(r.x * r.y)
    [] r.oper = Div -> IF r.y = 0 THEN Failure(1) ELSE Success(r.x \div r.y)
    [] r.oper = Mod -> IF r.y = 0 THEN Failure(2) ELSE Success(r.x % r.y)
    [] OTHER -> Failure(3)
-----------------------------------------------------------------------------
ClientSend ==
  /\ ~quit /\ Len(asked) < MaxRequests /\ Len(asked) - Len(answers) < Ahead
  /\ \E r \in Requests :
       asked' = Append(asked, r) /\ toServer' = toServer \o Encode(SerializeRequest(r))
  /\ UNCHANGED <<link, answers, toClient, serverQueue, clientQueue, served, quit, closed, ends>>

ClientRecv ==
  /\ ~quit /\ Len(answers) < Len(asked)
  /\ \E n \in 1 .. Len(toClient) :
       LET queue == clientQueue \o SubSeq(toClient, 1, n) IN
         /\ toClient' = SubSeq(toClient, n + 1, Len(toClient))
         /\ IF Complete(queue)
            THEN /\ answers' = Append(answers, DeserializeResponse(Payload(queue)))
                 /\ clientQueue' = Erased(queue)
            ELSE clientQueue' = queue /\ UNCHANGED answers
  /\ UNCHANGED <<link, asked, toServer, serverQueue, served, quit, closed, ends>>

(* The client is ended by its user. What it has not taken, or is still on  *)
(* its way to it, is answered with a reset.                                *)
ClientQuit ==
  /\ ~quit /\ quit' = TRUE /\ resetDue' = (toClient # <<>>)
  /\ UNCHANGED <<link, asked, answers, wires, serverQueue, clientQueue, served, closed, fallen>>

(* Start: a thread for each connection, unless pthread_create fails, which *)
(* nobody notices.                                                         *)
Start ==
  /\ link = "queued" /\ link' \in {"thread", "forgotten"}
  /\ UNCHANGED <<asked, answers, wires, serverQueue, clientQueue, served, quit, closed, ends>>

(* Recv takes some bytes; one message at most is decoded and answered. A   *)
(* client that has quit answers that with a reset.                         *)
IOExecute ==
  /\ link = "thread" /\ ~closed /\ ~fallen
  /\ \E n \in 1 .. Len(toServer) :
       LET queue == serverQueue \o SubSeq(toServer, 1, n)
           response == Calculator(DeserializeRequest(Payload(queue)))
       IN
         /\ toServer' = SubSeq(toServer, n + 1, Len(toServer))
         /\ IF Complete(queue)
            THEN /\ serverQueue' = Erased(queue)
                 /\ toClient' = toClient \o Encode(SerializeResponse(response))
                 /\ served' = served + 1 /\ resetDue' = (resetDue \/ quit)
            ELSE serverQueue' = queue /\ UNCHANGED <<toClient, served, resetDue>>
  /\ UNCHANGED <<link, asked, answers, clientQueue, quit, closed, fallen>>

(* The same when a reset has come by the time of Send: SIGPIPE.            *)
IOExecuteBroken ==
  /\ link = "thread" /\ ~closed /\ ~fallen /\ resetDue
  /\ \E n \in 1 .. Len(toServer) : Complete(serverQueue \o SubSeq(toServer, 1, n))
  /\ fallen' = TRUE
  /\ UNCHANGED <<link, asked, answers, wires, serverQueue, clientQueue, served, quit, closed, resetDue>>

(* Recv returns 0 after the last byte, or an error after a reset: what is  *)
(* left in the queue is lost.                                              *)
ServerClose ==
  /\ link = "thread" /\ ~closed /\ ~fallen /\ quit /\ (toServer = <<>> \/ resetDue)
  /\ closed' = TRUE
  /\ UNCHANGED <<link, asked, answers, wires, serverQueue, clientQueue, served, quit, ends>>
-----------------------------------------------------------------------------
Execute == IOExecute \/ IOExecuteBroken \/ ServerClose
Client == ClientSend \/ ClientRecv
Server == Start \/ Execute
Next == Server \/ Client \/ ClientQuit
-----------------------------------------------------------------------------
(* However the stream is cut into pieces, what the server has yet to       *)
(* decode is exactly the messages it has not answered, none of them torn,  *)
(* and so for the client. With three fields to each, the messages are all  *)
(* of one size. The process ends (IOService.hpp:66) only when a client     *)
(* quits with two responses due to it: one for the reset, one for SIGPIPE. *)
(* A client that reads each response before it asks again, as Client.cc    *)
(* does, cannot bring that about.                                          *)
Size == 4 + 2 * Len(sep)
Carries(stream, payloads) ==
  /\ Len(stream) = Size * Len(payloads)
  /\ \A k \in DOMAIN payloads, j \in 1 .. Size :
       stream[Size * (k - 1) + j] = Encode(payloads[k])[j]

Unanswered == [k \in 1 .. Len(asked) - served |-> SerializeRequest(asked[served + k])]
Unread == [k \in 1 .. served - Len(answers) |->
             SerializeResponse(Calculator(asked[Len(answers) + k]))]
InStep == /\ Carries(serverQueue \o toServer, Unanswered)
          /\ Carries(clientQueue \o toClient, Unread)
          /\ fallen => quit /\ Len(asked) >= Len(answers) + 2

(* The k-th response is the arithmetic of the k-th request, or, if there  *)
(* is no result, the code for what is wrong with that request.             *)
AnswersMatch ==
  \A k \in DOMAIN answers :
    LET x == asked[k].x oper == asked[k].oper y == asked[k].y
        ret == answers[k].ret errno == answers[k].errno
    IN
      \/ errno = 0 /\ oper = Plus /\ ret - y = x
      \/ errno = 0 /\ oper = Minus /\ ret + y = x
      \/ errno = 0 /\ oper = Times /\ ret = x * y
      \/ errno = 0 /\ oper = Div /\ y > 0 /\ ret * y \in x - y + 1 .. x
      \/ errno = 0 /\ oper = Mod /\ y > 0 /\ ret \in 0 .. y - 1 /\ \E q \in 0 .. x : x = q * y + ret
      \/ errno = 1 /\ oper = Div /\ y = 0
      \/ errno = 2 /\ oper = Mod /\ y = 0
      \/ errno = 3 /\ oper \notin Operators

(* A client that stays gets an answer to every request, except that the    *)
(* last ones of those it sent ahead may have to wait for a further one:    *)
(* each end decodes one message per Recv. With Ahead = 1, as in Client.cc, *)
(* none has to. All that if the connection has got a thread; then the      *)
(* server also closes the connection of a client that has quit, whatever   *)
(* part of a message it has sent before, unless SIGPIPE ends the process.  *)
RequestsSettled ==
  []<>(\/ link = "forgotten" \/ fallen
       \/ IF quit THEN closed ELSE Len(answers) >= Len(asked) - (Ahead - 1))
=============================================================================
