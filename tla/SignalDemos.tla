---------------------------- MODULE SignalDemos ----------------------------
(* OSCode/17.sig: the demonstrations of catching and blocking signals.     *)
(* testCore.cc: getPending blocks signal 2 for some passes of a loop that  *)
(* prints the pending set. testsig.cc: a handler that never returns, for a *)
(* signal that blocks another one; a handler that sets a flag; a signal    *)
(* the program raises itself; an alarm that is taken back. A signal that   *)
(* is sent while it is pending or blocked is remembered once.              *)
EXTENDS Integers, Sequences

CONSTANTS
  Passes,     \* the initial cnt of getPending
  MaxSent,    \* signals that mykill or the keyboard send
  MaxLate     \* seconds by which the alarm demonstration may be held up

Demos == {"getPending", "testsigAction", "testVolatile", "testRaise", "testAlarm"}
SIGINT == 2
SIGQUIT == 3
SIGALRM == 14

VARIABLES
  demo,
  where,      \* what main does
  caught,     \* the signals with a handler
  mask,       \* the blocked signals
  pending,    \* the pending ones
  handling,   \* the signals whose handlers run, the latest last
  cnt,        \* of getPending
  gflag,      \* of testVolatile
  alarmIn,    \* seconds to the alarm, 0 if there is none
  left,       \* the n of testAlarm
  late,       \* seconds it was held up
  sent,
  unanswered, \* signals sent since their handlers were last entered
  dead        \* the signal that ended the process, or 0

sigVars == <<demo, where, caught, mask, pending, handling, cnt, gflag, alarmIn, left,
             late, sent, unanswered, dead>>

Init ==
  /\ demo \in Demos /\ where = "start" /\ caught = {} /\ mask = {} /\ pending = {}
  /\ handling = <<>> /\ cnt = Passes /\ gflag = 0 /\ alarmIn = 0 /\ left = 0
  /\ late = 0 /\ sent = 0 /\ unanswered = {} /\ dead = 0

(* main runs when the process lives and no handler does. *)
InMain(d) == demo = d /\ dead = 0 /\ handling = <<>> /\ pending \subseteq mask
-----------------------------------------------------------------------------
(* The kernel. While a handler runs, its signal is blocked, and whatever   *)
(* sigaction added: here 3 while that of 2 runs.                           *)
Masked(s) == IF demo = "testsigAction" THEN {s, SIGQUIT} ELSE {s}

Deliver(s) ==
  /\ dead = 0 /\ s \in pending \ mask
  /\ pending' = pending \ {s}
  /\ IF s \in caught
     THEN /\ handling' = Append(handling, <<s, mask>>) /\ mask' = mask \cup Masked(s)
          /\ unanswered' = unanswered \ {s} /\ UNCHANGED dead
     ELSE dead' = s /\ UNCHANGED <<handling, mask, unanswered>>
  /\ UNCHANGED <<demo, where, caught, cnt, gflag, alarmIn, left, late, sent>>

Raised(s) == pending' = pending \cup {s} /\ unanswered' = unanswered \cup {s}

(* mykill, or the keyboard. *)
Send(s) ==
  /\ dead = 0 /\ sent < MaxSent /\ s \in {SIGINT, SIGQUIT} /\ sent' = sent + 1 /\ Raised(s)
  /\ UNCHANGED <<demo, where, caught, mask, handling, cnt, gflag, alarmIn, left, late, dead>>

(* The handler of the others prints the pending set again and again; those *)
(* of getPending and testVolatile return.                                  *)
EndlessHandler == demo \in {"testsigAction", "testRaise", "testAlarm"}
HandlerReturns ==
  /\ dead = 0 /\ handling # <<>> /\ ~EndlessHandler
  /\ mask' = handling[Len(handling)][2]
  /\ handling' = SubSeq(handling, 1, Len(handling) - 1)
  /\ gflag' = IF demo = "testVolatile" THEN 1 ELSE gflag
  /\ UNCHANGED <<demo, where, caught, pending, cnt, alarmIn, left, late, sent, unanswered, dead>>
-----------------------------------------------------------------------------
(* signal and sigaction. *)
Catch ==
  /\ where = "start" /\ dead = 0 /\ pending \subseteq mask
  /\ where' = "caught"
  /\ caught' = CASE demo = "testRaise" -> {SIGQUIT} [] demo = "testAlarm" -> {SIGALRM}
                 [] OTHER -> {SIGINT}
  /\ UNCHANGED <<demo, mask, pending, handling, cnt, gflag, alarmIn, left, late, sent, unanswered, dead>>

Block ==
  /\ InMain("getPending") /\ where = "caught" /\ where' = "loop" /\ mask' = mask \cup {SIGINT}
  /\ UNCHANGED <<demo, caught, pending, handling, cnt, gflag, alarmIn, left, late, sent, unanswered, dead>>

(* MUTANT of PrintPending: SIG_IGN is set for the signal instead, as in    *)
(* the line that is commented out, which drops a pending one.              *)
PrintPending_Ignores ==
  /\ InMain("getPending") /\ where = "loop"
  /\ cnt' = IF cnt < 0 THEN cnt ELSE cnt - 1
  /\ IF cnt = 0 THEN mask' = mask \ {SIGINT} /\ pending' = pending \ {SIGINT}
     ELSE UNCHANGED <<mask, pending>>
  /\ UNCHANGED <<demo, where, caught, handling, gflag, alarmIn, left, late, sent, unanswered, dead>>

(* A pass of the loop. The test of cnt comes true once. *)
PrintPending ==
  /\ InMain("getPending") /\ where = "loop"
  /\ cnt' = IF cnt < 0 THEN cnt ELSE cnt - 1
  /\ mask' = IF cnt = 0 THEN mask \ {SIGINT} ELSE mask
  /\ UNCHANGED <<demo, where, caught, pending, handling, gflag, alarmIn, left, late, sent, unanswered, dead>>

(* The loop that waits for the flag; then, as all the others, that of main. *)
testVolatile ==
  /\ InMain("testVolatile") /\ where = "caught" /\ gflag = 1 /\ where' = "main"
  /\ UNCHANGED <<demo, caught, mask, pending, handling, cnt, gflag, alarmIn, left, late, sent, unanswered, dead>>
testsigAction ==
  /\ InMain("testsigAction") /\ where = "caught" /\ where' = "main"
  /\ UNCHANGED <<demo, caught, mask, pending, handling, cnt, gflag, alarmIn, left, late, sent, unanswered, dead>>

testRaise ==
  /\ InMain("testRaise") /\ where = "caught" /\ Raised(SIGQUIT)
  /\ UNCHANGED <<demo, where, caught, mask, handling, cnt, gflag, alarmIn, left, late, sent, dead>>

(* alarm(5), sleep(2), alarm(0), with a process that may be held up. *)
testAlarm ==
  /\ InMain("testAlarm")
  /\ \/ /\ where = "caught" /\ where' = "slept" /\ alarmIn' = 3 /\ UNCHANGED left
     \/ /\ where = "slept" /\ where' = "main" /\ left' = alarmIn /\ alarmIn' = 0
  /\ UNCHANGED <<demo, caught, mask, pending, handling, cnt, gflag, late, sent, unanswered, dead>>
HeldUp ==
  /\ dead = 0 /\ where = "slept" /\ late < MaxLate /\ alarmIn > 0
  /\ late' = late + 1 /\ alarmIn' = alarmIn - 1
  /\ IF alarmIn = 1 THEN Raised(SIGALRM) ELSE UNCHANGED <<pending, unanswered>>
  /\ UNCHANGED <<demo, where, caught, mask, handling, cnt, gflag, left, sent, dead>>
-----------------------------------------------------------------------------
Process == \/ Catch \/ Block \/ PrintPending \/ testVolatile \/ testsigAction \/ testRaise
           \/ testAlarm \/ HandlerReturns \/ \E s \in {SIGINT, SIGQUIT, SIGALRM} : Deliver(s)
Next == Process \/ HeldUp \/ \E s \in {SIGINT, SIGQUIT} : Send(s)
-----------------------------------------------------------------------------
(* No signal that was sent is forgotten before its handler runs for it,    *)
(* however long it is blocked; one that has no handler ends the process.   *)
(* While getPending blocks 2 no handler of it runs. While the handler of   *)
(* testsigAction runs neither 2 nor 3 ends the process. And the alarm is   *)
(* taken back with the seconds that were left of it unless it went off.    *)
SignalsKept ==
  /\ dead = 0 => unanswered = pending
  /\ dead # 0 => dead \notin caught
  /\ demo = "getPending" /\ where = "loop" /\ cnt >= 0 => handling = <<>>
  /\ demo = "testsigAction" /\ handling # <<>> => dead = 0
  /\ demo = "testAlarm" /\ where = "main" =>
       IF left = 0 THEN late >= 3 ELSE left = 3 - late /\ SIGALRM \notin unanswered

(* The signals that may be delivered are. *)
DeliveredInTheEnd == dead # 0 \/ pending \subseteq mask
=============================================================================
