---------------------------- MODULE MCChatServer ----------------------------
(* Three users and two workers: u1 says something and QUIT, u2 says two    *)
(* things and u3 one, in an order the network decides, so that senders are *)
(* first, last and in between on the list.                                 *)
EXTENDS ChatServer

CONSTANTS u1, u2, u3, m1, m2, m3, m4, q1
Five == {m1, m2, m3, m4, q1}
Sender == [m \in Five |-> IF m \in {m2, m4} THEN u2 ELSE IF m = m3 THEN u3 ELSE u1]
=============================================================================
