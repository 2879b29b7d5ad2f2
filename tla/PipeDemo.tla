------------------------------ MODULE PipeDemo ------------------------------
(* OSCode/13.testPipe: a child sends messages to its father over a pipe,   *)
(* without an end; the father reads what there is, and waits for the child *)
(* when nothing more can come.                                             *)
EXTENDS Naturals

CONSTANTS Capacity, MaxSent    \* messages that fit the pipe; bound on sending

VARIABLES
  father, child,  \* what they do
  wfd, rfd,       \* who has the write end and the read end open
  messages,       \* sent by the child
  accepted,       \* read by the father
  status          \* what the father knows of the child: "none", "signal", "no child"

pipeVars == <<father, child, wfd, rfd, messages, accepted, status>>

Init == /\ father = "start" /\ child = "none" /\ wfd = {} /\ rfd = {}
        /\ messages = 0 /\ accepted = 0 /\ status = "none"

(* pipe and fork. After a failed fork the father goes on all the same. *)
Fork ==
  /\ father = "start" /\ father' = "forked"
  /\ \E ok \in BOOLEAN :
       /\ child' = IF ok THEN "forked" ELSE "none"
       /\ wfd' = IF ok THEN {"father", "child"} ELSE {"father"}
       /\ rfd' = wfd'
  /\ UNCHANGED <<messages, accepted, status>>
PipeFails ==
  /\ father = "start" /\ father' = "over"
  /\ UNCHANGED <<child, wfd, rfd, messages, accepted, status>>

ChildCloses ==
  /\ child = "forked" /\ child' = "sending" /\ rfd' = rfd \ {"child"}
  /\ UNCHANGED <<father, wfd, messages, accepted, status>>

(* A full pipe makes the child wait; one that nobody reads ends it. *)
SubProcessSend ==
  /\ child = "sending"
  /\ \/ /\ rfd # {} /\ messages - accepted < Capacity /\ messages < MaxSent
        /\ messages' = messages + 1 /\ UNCHANGED <<child, wfd>>
     \/ /\ rfd = {} /\ child' = "zombie" /\ wfd' = wfd \ {"child"} /\ UNCHANGED messages
  /\ UNCHANGED <<father, rfd, accepted, status>>

(* Its loop has no end: only a signal ends the child. *)
KillChild ==
  /\ child \in {"forked", "sending"} /\ child' = "zombie"
  /\ wfd' = wfd \ {"child"} /\ rfd' = rfd \ {"child"}
  /\ UNCHANGED <<father, messages, accepted, status>>

FatherCloses ==
  /\ father = "forked" /\ father' = "reading" /\ wfd' = wfd \ {"father"}
  /\ UNCHANGED <<child, rfd, messages, accepted, status>>

(* A read takes some of what is there, and 0 is the end. *)
ParProcessAccept ==
  /\ father = "reading"
  /\ \/ accepted < messages /\ accepted' \in accepted + 1 .. messages /\ UNCHANGED father
     \/ accepted = messages /\ wfd = {} /\ father' = "closing" /\ UNCHANGED accepted
  /\ UNCHANGED <<child, wfd, rfd, messages, status>>

CloseRead ==
  /\ father = "closing" /\ father' = "waiting" /\ rfd' = rfd \ {"father"}
  /\ UNCHANGED <<child, wfd, messages, accepted, status>>

WaitChild ==
  /\ father = "waiting" /\ child \in {"zombie", "none"} /\ father' = "over"
  /\ child' = IF child = "zombie" THEN "reaped" ELSE child
  /\ status' = IF child = "zombie" THEN "signal" ELSE "no child"
  /\ UNCHANGED <<wfd, rfd, messages, accepted>>

Father == Fork \/ PipeFails \/ FatherCloses \/ ParProcessAccept \/ CloseRead \/ WaitChild
Child == ChildCloses \/ SubProcessSend
Next == Father \/ Child \/ KillChild
-----------------------------------------------------------------------------
(* The father stops reading only when the child is dead or was never       *)
(* there, with every message read, and leaves no zombie.                   *)
AcceptsAll ==
  /\ father \in {"closing", "waiting"} => child \in {"none", "zombie"} /\ accepted = messages
  /\ father = "over" => child \in {"none", "reaped"}

(* Once the child is dead the father ends too. *)
FatherEnds == child = "zombie" => father = "over"
=============================================================================
