----------------------------- MODULE UdpServices ----------------------------
(* NetCode/1.udpEchoserver and NetCode/2.dictServer: one loop receives a   *)
(* datagram, answers it and sleeps a second; a client sends a line and     *)
(* waits for one datagram. A datagram may be lost, or arrive twice.        *)
EXTENDS Naturals, Sequences, SequencesExt

CONSTANTS
  Users, Words,
  DictLines,     \* of dict.txt: <<key, value>>; "" where a part is missing
  Queue,         \* datagrams a socket holds before it drops the next
  MaxSaid,       \* lines a user enters
  MaxCopies      \* datagrams the network delivers twice

VARIABLES
  server,        \* which of the two programs runs
  user,          \* what each client does
  said, heard,   \* the lines it has sent, the answers it has read
  wire,          \* datagrams on their way to the server: <<user, line>>
  inbox,         \* of the server's socket
  mail,          \* of each client's
  lost,          \* the users one of whose datagrams, or their answers, was lost
  copied         \* one of whose datagrams was delivered twice

udpVars == <<server, user, said, heard, wire, inbox, mail, lost, copied>>

Init ==
  /\ server \in {"echo", "dict"}
  /\ user = [u \in Users |-> "prompt"]
  /\ said = [u \in Users |-> <<>>] /\ heard = [u \in Users |-> <<>>]
  /\ wire = <<>> /\ inbox = <<>> /\ mail = [u \in Users |-> <<>>]
  /\ lost = {} /\ copied = {}
-----------------------------------------------------------------------------
(* LoadDict: a line that lacks a part is skipped, and insert keeps the     *)
(* first translation of a word.                                            *)
Loaded == {i \in DOMAIN DictLines : DictLines[i][1] # "" /\ DictLines[i][2] # ""}

TranslateWords(word) ==
  LET hits == {i \in Loaded : DictLines[i][1] = word}
  IN  IF hits = {} THEN "None" ELSE DictLines[Min(hits)][2]

Answer(word) == IF server = "echo" THEN word ELSE TranslateWords(word)
-----------------------------------------------------------------------------
(* An empty line makes sendto return 0, and the client ends. *)
Send(u) ==
  /\ user[u] = "prompt" /\ Len(said[u]) < MaxSaid
  /\ \E w \in Words :
       /\ user' = [user EXCEPT ![u] = IF w = "" THEN "left" ELSE "waiting"]
       /\ wire' = Append(wire, <<u, w>>)
       /\ said' = [said EXCEPT ![u] = Append(@, w)]
  /\ UNCHANGED <<server, heard, inbox, mail, lost, copied>>

(* The first datagram that comes is taken for the answer. *)
Receive(u) ==
  /\ user[u] = "waiting" /\ mail[u] # <<>>
  /\ user' = [user EXCEPT ![u] = "prompt"]
  /\ heard' = [heard EXCEPT ![u] = Append(@, Head(mail[u]))]
  /\ mail' = [mail EXCEPT ![u] = Tail(@)]
  /\ UNCHANGED <<server, said, wire, inbox, lost, copied>>

(* The network delivers in any order, drops what a socket cannot hold, and *)
(* may drop or double anything.                                            *)
Deliver(i) ==
  LET d == wire[i] IN
    \/ /\ Len(inbox) < Queue
       /\ inbox' = Append(inbox, d) /\ wire' = RemoveAt(wire, i)
       /\ UNCHANGED <<lost, copied>>
    \/ /\ lost' = lost \cup {d[1]} /\ wire' = RemoveAt(wire, i)
       /\ UNCHANGED <<inbox, copied>>
    \/ /\ Len(inbox) < Queue /\ Cardinality(copied) < MaxCopies
       /\ inbox' = Append(inbox, d) /\ copied' = copied \cup {d[1]}
       /\ UNCHANGED <<wire, lost>>

Network ==
  /\ \E i \in DOMAIN wire : Deliver(i)
  /\ UNCHANGED <<server, user, said, heard, mail>>

(* One pass of the loop; the sleep after it is what fills the inbox. A     *)
(* datagram without content is not answered. A client that has gone, or    *)
(* the network, may drop the answer.                                       *)
Serve ==
  /\ inbox # <<>> /\ inbox' = Tail(inbox)
  /\ LET u == Head(inbox)[1] w == Head(inbox)[2] IN
       \/ w = "" /\ UNCHANGED <<mail, lost>>
       \/ /\ w # "" /\ mail' = [mail EXCEPT ![u] = Append(@, Answer(w))] /\ UNCHANGED lost
       \/ /\ w # "" /\ lost' = lost \cup {u} /\ UNCHANGED mail
  /\ UNCHANGED <<server, user, said, heard, wire, copied>>

(* MUTANT of EchoStart: it answers whoever wrote last. *)
EchoStart_LastPeer ==
  /\ server = "echo" /\ inbox # <<>> /\ inbox' = Tail(inbox)
  /\ mail' = [mail EXCEPT ![Last(inbox)[1]] = Append(@, Head(inbox)[2])]
  /\ UNCHANGED <<server, user, said, heard, wire, lost, copied>>

EchoStart == server = "echo" /\ Serve
DictStart == server = "dict" /\ Serve
-----------------------------------------------------------------------------
Start == EchoStart \/ DictStart
Next == Network \/ Start \/ \E u \in Users : Send(u) \/ Receive(u)
-----------------------------------------------------------------------------
(* What user u, who has sent line k, should hear of it, from the dictionary *)
(* file itself: the earliest whole line with that word.                    *)
Right(w, a) ==
  \/ server = "echo" /\ a = w
  \/ /\ server = "dict"
     /\ LET of(i) == DictLines[i][1] = w /\ DictLines[i][2] # "" IN
          \/ a = "None" /\ ~\E i \in DOMAIN DictLines : of(i)
          \/ \E i \in DOMAIN DictLines : /\ of(i) /\ a = DictLines[i][2]
                                         /\ ~\E j \in 1 .. i - 1 : of(j)

(* Start, and main of the clients: the k-th answer a client reads is the   *)
(* answer to its k-th line; only a datagram delivered twice shifts them.   *)
AnswersInStep ==
  \A u \in Users : u \notin copied =>
    \A k \in DOMAIN heard[u] : Right(said[u][k], heard[u][k])

(* The clients have no timeout: one that waits for ever has lost a         *)
(* datagram, and every other hears from the server.                        *)
SilentOnlyIfLost == \A u \in Users : user[u] = "waiting" => u \in lost
=============================================================================
