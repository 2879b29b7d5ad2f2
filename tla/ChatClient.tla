----------------------------- MODULE ChatClient -----------------------------
(* UdpClient.cc of NetCode/3.chatServer: two threads of class Thread share *)
(* one socket, one of them receives, the other sends what the user types;  *)
(* main joins both. At the end of the input getline leaves an empty line,  *)
(* again and again, and the server does not forward what is empty.         *)
EXTENDS Naturals, Sequences

CONSTANTS
  Words,         \* lines of a user
  MaxTyped, MaxMail, MaxEmpty

VARIABLES
  chatter,       \* what main does
  recvr, sender, \* what the two threads do
  typed,         \* the lines the user has typed
  input,         \* whether the input is still open
  sent,          \* the datagrams that left
  unseen,        \* the messages in the socket, by their number
  arrived,       \* how many have come
  screen,        \* those RecvMessage has printed
  socketOpen

clientVars == <<chatter, recvr, sender, typed, input, sent, unseen, arrived, screen, socketOpen>>

Empty == ""

Init ==
  /\ chatter = "socket" /\ recvr = "none" /\ sender = "none"
  /\ typed = <<>> /\ input = TRUE /\ sent = <<>>
  /\ unseen = <<>> /\ arrived = 0 /\ screen = <<>> /\ socketOpen = FALSE

Running == chatter \notin {"socket", "over"}
-----------------------------------------------------------------------------
InitClient ==
  /\ chatter = "socket"
  /\ \/ chatter' = "start recvr" /\ socketOpen' = TRUE
     \/ chatter' = "over" /\ UNCHANGED socketOpen
  /\ UNCHANGED <<recvr, sender, typed, input, sent, unseen, arrived, screen>>

(* Thread::Start: main does not ask whether there is a thread now. *)
Start ==
  /\ \/ /\ chatter = "start recvr" /\ chatter' = "start sender"
        /\ recvr' \in {"run", "failed"} /\ UNCHANGED sender
     \/ /\ chatter = "start sender" /\ chatter' = "join recvr"
        /\ sender' \in {"run", "failed"} /\ UNCHANGED recvr
  /\ UNCHANGED <<typed, input, sent, unseen, arrived, screen, socketOpen>>

(* Without a thread there is no identifier: pthread_join may return an     *)
(* error, or the process ends.                                             *)
Join ==
  /\ \/ chatter = "join recvr" /\ recvr \in {"end", "failed"} /\ chatter' = "join sender"
     \/ chatter = "join sender" /\ sender \in {"end", "failed"} /\ chatter' = "close"
     \/ chatter = "join recvr" /\ recvr = "failed" /\ chatter' = "over"
     \/ chatter = "join sender" /\ sender = "failed" /\ chatter' = "over"
  /\ UNCHANGED <<recvr, sender, typed, input, sent, unseen, arrived, screen, socketOpen>>

Close ==
  /\ chatter = "close" /\ chatter' = "over" /\ socketOpen' = FALSE
  /\ UNCHANGED <<recvr, sender, typed, input, sent, unseen, arrived, screen>>
-----------------------------------------------------------------------------
(* recvfrom fails, or a datagram is printed. None of the server's is empty. *)
RecvMessage ==
  /\ Running /\ recvr = "run"
  /\ \/ recvr' = "end" /\ UNCHANGED <<unseen, screen>>
     \/ /\ unseen # <<>> /\ unseen' = Tail(unseen) /\ screen' = Append(screen, Head(unseen))
        /\ UNCHANGED recvr
  /\ UNCHANGED <<chatter, sender, typed, input, sent, arrived, socketOpen>>

(* One pass: a line, or the emptiness behind the last one; sendto fails,   *)
(* or takes it. Sending nothing is no failure.                             *)
SendMessage ==
  /\ Running /\ sender = "run"
  /\ \E w \in Words \cup {Empty} :
       /\ \/ input /\ Len(typed) < MaxTyped /\ typed' = Append(typed, w)
          \/ ~input /\ w = Empty /\ Len(sent) < Len(typed) + MaxEmpty /\ UNCHANGED typed
       /\ \/ sent' = Append(sent, w) /\ UNCHANGED sender
          \/ sender' = "end" /\ UNCHANGED sent
  /\ UNCHANGED <<chatter, recvr, input, unseen, arrived, screen, socketOpen>>
-----------------------------------------------------------------------------
EndOfInput ==
  /\ input /\ input' = FALSE
  /\ UNCHANGED <<chatter, recvr, sender, typed, sent, unseen, arrived, screen, socketOpen>>

(* The server forwards a message of someone else. *)
Arrive ==
  /\ socketOpen /\ arrived < MaxMail /\ arrived' = arrived + 1
  /\ unseen' = Append(unseen, arrived')
  /\ UNCHANGED <<chatter, recvr, sender, typed, input, sent, screen, socketOpen>>
-----------------------------------------------------------------------------
Main == InitClient \/ Start \/ Join \/ Close
Thread == RecvMessage \/ SendMessage
Next == Main \/ Thread \/ EndOfInput \/ Arrive
-----------------------------------------------------------------------------
(* main, SendMessage, RecvMessage: the socket is not closed under a thread *)
(* that uses it, and main comes to its close only when neither is left; of *)
(* what arrives nothing is skipped or turned about before it is shown; and *)
(* what leaves is what was typed, one datagram for a line, followed by     *)
(* empty ones only once the input has ended.                               *)
ChatGoesOn ==
  /\ recvr = "run" /\ Running => socketOpen
  /\ chatter = "close" => recvr # "run" /\ sender # "run"
  /\ screen \o unseen = [i \in 1 .. arrived |-> i]
  /\ LET lines == Len(sent) IN
       /\ \A i \in 1 .. lines : sent[i] = IF i <= Len(typed) THEN typed[i] ELSE Empty
       /\ lines > Len(typed) => ~input
       /\ lines < Len(typed) => sender = "end"
=============================================================================
