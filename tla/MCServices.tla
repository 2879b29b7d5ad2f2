----------------------------- MODULE MCServices -----------------------------
(* Small instances of the servers that answer one request at a time: the   *)
(* calculator, the HTTP server, the TCP echo server with its thread pool,  *)
(* the two UDP servers; and the port that servers compete for. One program *)
(* runs in a behaviour.                                                    *)
EXTENDS CalcServer, FiniteSets

CONSTANTS
  Clients, Second, Programs,
  Lengths, Prefix, Buffer    \* of lines, "[server echo]#" and the buffers: see TcpEcho

(* "nobody" is what a caller without a connection is connected with. *)
ASSUME ServicesAssumption ==
  /\ "nobody" \notin Clients
  /\ Lengths \subseteq Nat /\ Prefix \in Nat /\ Buffer \in Nat

VARIABLES
  program,
  conn, request, cut, arrived, whole, got, mime, damaged, answer, seen, alive,
  caller, lines, lineBytes, echoBytes, held, rst, torn, up, backlog,
  open, pending, running, finished, refused,
  server, user, said, heard, wire, inbox, mail, lost, copied,
  kind, step, option, exitCode, runs, dialled, linger

(* Requests that differ in what they reach: files with a known suffix and  *)
(* with an unknown one, no file, the redirection, a service with its       *)
(* arguments in the url and in the body.                                   *)
HttpRequests ==
  {[method |-> "GET", target |-> t, args |-> FALSE] : t \in {"/", "/video/1.mp4", "/none", "/redir"}}
    \cup {[method |-> m, target |-> "/login", args |-> TRUE] : m \in {"GET", "POST"}}
    \cup {[method |-> "GET", target |-> "/", args |-> TRUE]}
SuffixOf(t) == CASE t = "/" -> ".html" [] t = "/video/1.mp4" -> ".mp4" [] OTHER -> ".default"

Http == INSTANCE HttpServer WITH
          Browsers <- Clients, Requests <- HttpRequests, Pages <- {"/", "/video/1.mp4"}, Services <- {"/login"},
          Suffix <- [t \in {r.target : r \in HttpRequests} |-> SuffixOf(t)],
          Garbage <- {0, 200}

Echo == INSTANCE TcpEcho WITH
          Callers <- Clients, Workers <- 1,
          MaxLines <- [c \in Clients |-> IF c = Second THEN 1 ELSE 2]

(* Lines without a part, and a word with two translations. *)
DictFile == << <<"", "">>, <<"cat", "">>, <<"cat", "mao">>, <<"cat", "gou">> >>

Udp == INSTANCE UdpServices WITH
         Users <- Clients, Words <- {"cat", "dog", ""},
         DictLines <- DictFile,
         Queue <- 2, MaxSaid <- 2, MaxCopies <- 1

Port == INSTANCE ListenPort WITH Procs <- Clients, Callers <- {Second}, MaxRuns <- 2

FiveRequests == {[x |-> q[1], oper |-> q[2], y |-> q[3]] :
                   q \in {<<2, Minus, 3>>, <<7, Div, 2>>, <<7, Div, 0>>, <<7, Mod, 0>>, <<7, 33, 3>>}}
-----------------------------------------------------------------------------
httpVars == <<conn, request, cut, arrived, whole, got, mime, damaged, answer, seen, alive>>
echoVars == <<caller, lines, lineBytes, echoBytes, held, rst, torn, up, backlog,
              open, pending, running, finished, refused>>
udpVars == <<server, user, said, heard, wire, inbox, mail, lost, copied>>
portVars == <<kind, step, option, exitCode, runs, dialled, linger>>
allVars == <<program, vars, httpVars, echoVars, udpVars, portVars>>

(* At most one browser has its request cut. The programs that do not run   *)
(* keep one of their initial states.                                       *)
ServicesInit ==
  /\ program \in Programs
  /\ Init /\ Http!Init /\ Echo!Init /\ Udp!Init /\ Port!Init
  /\ Cardinality({b \in Clients : cut[b] # "nowhere"}) <= 1
  /\ program # "http" => /\ cut = [b \in Clients |-> "nowhere"]
                         /\ request = [b \in Clients |-> CHOOSE r \in HttpRequests : TRUE]
  /\ program # "port" => kind = [p \in Clients |-> "calc"]
  /\ program # "udp" => server = "echo"

Only(name, others, A) == program = name /\ UNCHANGED <<program, others>> /\ A
Calc(A) == Only("calc", <<httpVars, echoVars, udpVars, portVars>>, A)
InHttp(A) == Only("http", <<vars, echoVars, udpVars, portVars>>, A)
InEcho(A) == Only("tcpecho", <<vars, httpVars, udpVars, portVars>>, A)
InUdp(A) == Only("udp", <<vars, httpVars, echoVars, portVars>>, A)
InPort(A) == Only("port", <<vars, httpVars, echoVars, udpVars>>, A)

ServicesNext ==
  Calc(Next) \/ InHttp(Http!Next) \/ InEcho(Echo!Next) \/ InUdp(Udp!Next)
  \/ InPort(Port!Next)

(* Every thread and every loop that can go on goes on. The readers of      *)
(* Client.cc and of tcpClient.cc take what has arrived.                    *)
ServicesFair ==
  /\ WF_allVars(Calc(Server) \/ InEcho(Echo!Main) \/ InUdp(Udp!Start))
  /\ WF_allVars(Calc(ClientRecv) \/ InEcho(Echo!Handler) \/ InUdp(Udp!Network))
  /\ \A c \in Clients :
       WF_allVars(InHttp(Http!Thread(c)) \/ InEcho(Echo!Service(c)) \/ InUdp(Udp!Receive(c)))
  /\ \A c \in Clients : WF_allVars(InEcho(Echo!ReadEcho(c) \/ Echo!ResetArrives(c)))

ServicesSpec == ServicesInit /\ [][ServicesNext]_allVars /\ ServicesFair
-----------------------------------------------------------------------------
(* HandlerRequest of the HTTP server and its table of types, the pace of   *)
(* the echo client, and that of the UDP clients: each client gets what     *)
(* belongs to its own request. CreateBindOrDie: and it is connected with a *)
(* server that has the port. See the four modules.                         *)
ClientsServedRight ==
  /\ Http!TypeOK /\ Http!AnswersFit /\ Echo!EchoesInStep /\ Udp!AnswersInStep
  /\ Port!PortsKept

(* The worker pool of the echo server: see TcpEcho. *)
EchoesOrStarves == Echo!EchoesOrStarves

(* Again and again, every connection the HTTP server has a thread for has  *)
(* been answered and closed, but for those that send nothing, and only the *)
(* users of the UDP servers one of whose datagrams was lost wait for an    *)
(* answer.                                                                 *)
NoOneLeftWaiting == []<>(Http!AllClosed /\ Udp!SilentOnlyIfLost)
=============================================================================
