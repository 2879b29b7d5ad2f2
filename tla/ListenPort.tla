----------------------------- MODULE ListenPort -----------------------------
(* How the servers of NetCode get their port, and get it again after they  *)
(* have ended. The calculator has a plain socket; so have the TCP echo and *)
(* the command server. 7.http, like the select, poll and epoll servers,    *)
(* calls setsockopt with SO_REUSEADDR | SO_REUSEPORT, which is the number  *)
(* of SO_REUSEPORT alone. The UDP servers bind without an option. All of   *)
(* them are given the same number of a port.                               *)
EXTENDS Naturals

CONSTANTS Procs, Callers, MaxRuns

VARIABLES
  kind,         \* which server each process runs
  step,         \* how far it has come: "off" if it does not run
  option,       \* the sockets with SO_REUSEPORT
  exitCode,     \* of the last run that ended by itself
  runs,
  dialled,      \* whom each caller is connected with
  linger        \* the servers whose closed connections still hold the port

portVars == <<kind, step, option, exitCode, runs, dialled, linger>>

Tcp == {"calc", "http"}
SOCKET_ERROR == 1
BIND_ERROR == 2
LISTEN_ERROR == 3

Init ==
  /\ kind \in [Procs -> Tcp \cup {"udp"}]
  /\ step = [p \in Procs |-> "off"] /\ option = {}
  /\ exitCode = [p \in Procs |-> 0] /\ runs = [p \in Procs |-> 0]
  /\ dialled = [c \in Callers |-> "nobody"] /\ linger = {}

To(p, where) == step' = [step EXCEPT ![p] = where]
Bound(p) == step[p] \in {"listen", "serving"}
-----------------------------------------------------------------------------
Run(p) ==
  /\ step[p] = "off" /\ runs[p] < MaxRuns /\ To(p, "socket")
  /\ runs' = [runs EXCEPT ![p] = @ + 1] /\ exitCode' = [exitCode EXCEPT ![p] = 0]
  /\ UNCHANGED <<kind, option, dialled, linger>>

(* Each of the calls may fail, and the program ends with its code. *)
Die(p, code) ==
  /\ To(p, "off") /\ exitCode' = [exitCode EXCEPT ![p] = code] /\ option' = option \ {p}

CreateSocketOrDie(p) ==
  /\ kind[p] = "calc" /\ step[p] = "socket"
  /\ Die(p, SOCKET_ERROR) \/ (To(p, "bind") /\ UNCHANGED <<exitCode, option>>)
  /\ UNCHANGED <<kind, runs, dialled, linger>>

CreateReusable(p) ==
  /\ kind[p] = "http" /\ step[p] = "socket"
  /\ Die(p, SOCKET_ERROR) \/ (To(p, "bind") /\ option' = option \cup {p} /\ UNCHANGED exitCode)
  /\ UNCHANGED <<kind, runs, dialled, linger>>

(* bind: TCP and UDP have ports of their own. Sockets share one if all     *)
(* have SO_REUSEPORT, those of closed connections too.                     *)
Taken(p) ==
  \/ \E q \in Procs \ {p} : /\ Bound(q) /\ (kind[q] = "udp" <=> kind[p] = "udp")
                            /\ ~{p, q} \subseteq option
  \/ kind[p] \in Tcp /\ linger \ (IF p \in option THEN {"http"} ELSE {}) # {}

CreateBindOrDie(p) ==
  /\ kind[p] \in Tcp /\ step[p] = "bind"
  /\ IF Taken(p) THEN Die(p, BIND_ERROR) ELSE To(p, "listen") /\ UNCHANGED <<exitCode, option>>
  /\ UNCHANGED <<kind, runs, dialled, linger>>

CreateListenOrDie(p) ==
  /\ kind[p] \in Tcp /\ step[p] = "listen"
  /\ Die(p, LISTEN_ERROR) \/ (To(p, "serving") /\ UNCHANGED <<exitCode, option>>)
  /\ UNCHANGED <<kind, runs, dialled, linger>>

(* InitServer of the UDP servers. *)
UdpSocket(p) ==
  /\ kind[p] = "udp" /\ step[p] = "socket"
  /\ Die(p, SOCKET_ERROR) \/ (To(p, "bind") /\ UNCHANGED <<exitCode, option>>)
  /\ UNCHANGED <<kind, runs, dialled, linger>>

UdpBind(p) ==
  /\ kind[p] = "udp" /\ step[p] = "bind"
  /\ IF Taken(p) THEN Die(p, BIND_ERROR) ELSE To(p, "serving") /\ UNCHANGED <<exitCode, option>>
  /\ UNCHANGED <<kind, runs, dialled, linger>>

BuildListenSocket(p) ==
  CreateSocketOrDie(p) \/ CreateReusable(p) \/ CreateBindOrDie(p) \/ CreateListenOrDie(p)

(* A process is killed; its connections are closed from its side. *)
Kill(p) ==
  /\ step[p] # "off" /\ To(p, "off") /\ option' = option \ {p}
  /\ linger' = IF \E c \in Callers : dialled[c] = p THEN linger \cup {kind[p]} ELSE linger
  /\ dialled' = [c \in Callers |-> IF dialled[c] = p THEN "nobody" ELSE dialled[c]]
  /\ UNCHANGED <<kind, exitCode, runs>>
-----------------------------------------------------------------------------
(* Of several that listen, the kernel chooses one; with none, the program  *)
(* of the caller ends.                                                     *)
Connector(c) ==
  /\ dialled[c] = "nobody"
  /\ \E p \in Procs : /\ kind[p] \in Tcp /\ step[p] = "serving"
                      /\ dialled' = [dialled EXCEPT ![c] = p]
  /\ UNCHANGED <<kind, step, option, exitCode, runs, linger>>

(* The caller ends the connection with the calculator; the HTTP server     *)
(* ends its own, unless the browser was faster.                            *)
Close(c) ==
  /\ dialled[c] # "nobody" /\ dialled' = [dialled EXCEPT ![c] = "nobody"]
  /\ \/ UNCHANGED linger
     \/ kind[dialled[c]] = "http" /\ linger' = linger \cup {"http"}
  /\ UNCHANGED <<kind, step, option, exitCode, runs>>

(* The kernel forgets the closed connections of a server after a minute. *)
Expire ==
  /\ \E k \in linger : linger' = linger \ {k}
  /\ UNCHANGED <<kind, step, option, exitCode, runs, dialled>>
-----------------------------------------------------------------------------
Next ==
  \/ \E p \in Procs : Run(p) \/ BuildListenSocket(p) \/ UdpSocket(p) \/ UdpBind(p) \/ Kill(p)
  \/ \E c \in Callers : Connector(c) \/ Close(c)
  \/ Expire
-----------------------------------------------------------------------------
(* CreateBindOrDie: two servers have the port at once only if both are     *)
(* HTTP servers, which nobody tells that they share it, or speak different *)
(* protocols; nobody stays connected with one that has ended. A UDP server *)
(* is only ever kept from its port by another one, an HTTP server only by  *)
(* a calculator, or what it left; but a calculator that is started again   *)
(* may find its own connections in the way.                                *)
PortsKept ==
  /\ \A p, q \in Procs : p # q /\ Bound(p) /\ Bound(q) =>
       \/ kind[p] = "http" /\ kind[q] = "http"
       \/ {kind[p], kind[q]} \cap Tcp # {} /\ "udp" \in {kind[p], kind[q]}
  /\ \A c \in Callers : dialled[c] # "nobody" => step[dialled[c]] = "serving"
  /\ \A p \in Procs : exitCode[p] = BIND_ERROR =>
       CASE kind[p] = "udp" -> \E q \in Procs \ {p} : kind[q] = "udp" /\ runs[q] > 0
         [] kind[p] = "http" -> \E q \in Procs : kind[q] = "calc" /\ runs[q] > 0
         [] OTHER -> \E q \in Procs : kind[q] \in Tcp /\ runs[q] > (IF q = p THEN 1 ELSE 0)
=============================================================================
