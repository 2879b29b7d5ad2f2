------------------------------ MODULE NonBlock ------------------------------
(* NetCode/9.nonBlock: standard input is read without blocking. A read     *)
(* that fails means no input yet, an interruption, or an error, and which  *)
(* of them errno tells.                                                    *)
EXTENDS Naturals

CONSTANTS MaxTyped     \* how much is typed

VARIABLES
  reader,       \* "start", "loop", "asleep", "done" or "failed"
  blocking,     \* SetNonBlock had no effect
  typed, echo,  \* how much was typed, and echoed
  keyboard      \* "open", "eof" or "broken"

nonBlockVars == <<reader, blocking, typed, echo, keyboard>>

Init == /\ reader = "start" /\ blocking = TRUE
        /\ typed = 0 /\ echo = 0 /\ keyboard = "open"

(* fcntl may fail, which main does not notice. *)
SetNonBlock ==
  /\ reader = "start" /\ reader' = "loop" /\ blocking' \in BOOLEAN
  /\ UNCHANGED <<typed, echo, keyboard>>

(* read returns some of what was typed. *)
Echo ==
  /\ reader = "loop" /\ echo < typed /\ echo' \in echo + 1 .. typed
  /\ UNCHANGED <<reader, blocking, typed, keyboard>>

(* read returns 0. *)
ReadDone ==
  /\ reader = "loop" /\ echo = typed /\ keyboard = "eof" /\ reader' = "done"
  /\ UNCHANGED <<blocking, typed, echo, keyboard>>

(* EWOULDBLOCK, and the second of sleep; a blocking read waits instead. *)
WouldBlock ==
  /\ reader = "loop" /\ echo = typed /\ keyboard = "open" /\ ~blocking
  /\ reader' = "asleep"
  /\ UNCHANGED <<blocking, typed, echo, keyboard>>
Wakes == reader = "asleep" /\ reader' = "loop" /\ UNCHANGED <<blocking, typed, echo, keyboard>>

(* Any other error ends the loop; after EINTR it reads again. *)
ReadError ==
  /\ reader = "loop" /\ keyboard = "broken" /\ reader' = "failed"
  /\ UNCHANGED <<blocking, typed, echo, keyboard>>

Type ==
  /\ keyboard = "open" /\ typed < MaxTyped /\ typed' = typed + 1
  /\ UNCHANGED <<reader, blocking, echo, keyboard>>
Leave ==
  /\ keyboard = "open" /\ keyboard' \in {"eof", "broken"}
  /\ UNCHANGED <<reader, blocking, typed, echo>>

Read == Echo \/ ReadDone \/ WouldBlock \/ ReadError
Next == SetNonBlock \/ Read \/ Wakes \/ Type \/ Leave
-----------------------------------------------------------------------------
(* The reader stops only at the end of the input, with everything echoed,  *)
(* or because reading has failed.                                          *)
ReadsToTheEnd ==
  /\ reader = "done" => keyboard = "eof" /\ echo = typed
  /\ reader = "failed" => keyboard = "broken"
=============================================================================
