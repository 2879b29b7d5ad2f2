-------------------------- MODULE ProcessesProofs ---------------------------
(* Safety of the programs about processes, signals and files: the handler  *)
(* of SIGCHLD forgets no zombie, for any set of children; a signal is kept *)
(* until it is handled, for any number of signals; a father says of its    *)
(* child what became of it, for any exit codes; and a program reads back   *)
(* what it wrote, for any number of programs at once.                      *)
EXTENDS MCProcesses, Integers, SequenceTheorems, FiniteSetTheorems, TLAPS

(* Every variable keeps its type. *)
THEOREM TypeCorrect == ChldSpec => []TypeOK
<1>0. Cardinality(Sons) \in Nat
  BY ChildrenAssumption, FS_CardinalityType
<1>1. ChldInit => TypeOK
  <2> SUFFICES ASSUME ChldInit PROVE TypeOK
    OBVIOUS
  <2>1. turns \in 0 .. Cardinality(Sons)
    BY <1>0 DEF ChldInit
  <2>2. life \in [Sons -> {"unborn", "running", "zombie", "reaped"}]
    BY DEF ChldInit
  <2> QED BY <2>1, <2>2, Zenon DEF ChldInit, TypeOK
<1>2. TypeOK /\ [ChldNext]_chldVars => TypeOK'
  <2> SUFFICES ASSUME TypeOK, [ChldNext]_chldVars PROVE TypeOK'
    OBVIOUS
  <2> USE DEF TypeOK
  <2>1. CASE Fork
    BY <1>0, <2>1 DEF Fork, In
  <2>2. CASE Deliver
    BY <2>2 DEF Deliver
  <2>3. CASE Return
    BY <2>3 DEF Return
  <2>4. ASSUME NEW c \in Sons, Reap(c) PROVE TypeOK'
    BY <2>4 DEF Reap
  <2>5. ASSUME NEW c \in Sons, Exit(c) PROVE TypeOK'
    BY <2>5 DEF Exit
  <2>6. CASE UNCHANGED chldVars
    BY <2>6 DEF chldVars
  <2> QED BY <2>1, <2>2, <2>3, <2>4, <2>5, <2>6 DEF ChldNext, Handler
<1> QED BY <1>1, <1>2, PTL DEF ChldSpec

(* A zombie always has a handler that runs or is about to run. Given the   *)
(* types this is inductive: a child that ends sets the bit, taking the bit *)
(* enters the handler, and the handler is left only when it has seen that  *)
(* no zombie remains.                                                      *)
THEOREM NoZombieIsForgotten == ChldSpec => []NoZombieForgotten
<1>1. ChldInit => NoZombieForgotten
  BY DEF ChldInit, NoZombieForgotten, In
<1>2. TypeOK /\ NoZombieForgotten /\ [ChldNext]_chldVars => NoZombieForgotten'
  <2> SUFFICES ASSUME TypeOK, NoZombieForgotten, [ChldNext]_chldVars PROVE NoZombieForgotten'
    OBVIOUS
  <2> USE DEF NoZombieForgotten, In, TypeOK
  <2>1. CASE Fork
    <3>1. \A c \in Sons : life'[c] = "zombie" => life[c] = "zombie"
      BY <2>1 DEF Fork
    <3> QED BY <2>1, <3>1 DEF Fork
  <2>2. CASE Deliver
    BY <2>2 DEF Deliver
  <2>3. CASE Return
    BY <2>3 DEF Return
  <2>4. ASSUME NEW c \in Sons, Reap(c) PROVE NoZombieForgotten'
    BY <2>4 DEF Reap
  <2>5. ASSUME NEW c \in Sons, Exit(c) PROVE NoZombieForgotten'
    BY <2>5 DEF Exit
  <2>6. CASE UNCHANGED chldVars
    BY <2>6 DEF chldVars
  <2> QED BY <2>1, <2>2, <2>3, <2>4, <2>5, <2>6 DEF ChldNext, Handler
<1> QED BY <1>1, <1>2, TypeCorrect, PTL DEF ChldSpec
-----------------------------------------------------------------------------
(* The demonstrations of signals.                                          *)
SigTypes ==
  /\ where \in {"start", "caught", "loop", "slept", "main"}
  /\ which \in Signals!Demos
  /\ cnt \in Int /\ alarmIn \in Nat /\ left \in Nat /\ tardy \in Nat

(* A program catches its one signal before anything else; 14 is the        *)
(* alarm's alone.                                                          *)
CaughtInv ==
  /\ where = "start" => caught = {}
  /\ where # "start" =>
       caught = CASE which = "testRaise" -> {3} [] which = "testAlarm" -> {14} [] OTHER -> {2}
  /\ which # "testAlarm" => 14 \notin waiting /\ where # "slept"

(* What blocks a signal while it must be blocked. *)
BlockedInv ==
  /\ which = "getPending" /\ where = "loop" /\ cnt >= 0 => 2 \in mask /\ handling = <<>>
  /\ which = "testsigAction" /\ handling # <<>> => {2, 3} \subseteq mask /\ dead = 0

AnswerInv ==
  /\ dead = 0 => unanswered = waiting
  /\ dead # 0 => dead \notin caught

(* The seconds of the alarm are those that are left and those the program  *)
(* was held up; it is raised when none are left.                           *)
AlarmInv ==
  which = "testAlarm" =>
    /\ where \in {"start", "caught"} => tardy = 0
    /\ where = "slept" => alarmIn + tardy = 3
    /\ where = "main" => left + tardy = 3
    /\ 14 \in unanswered \cup waiting =>
         (where = "slept" /\ alarmIn = 0) \/ (where = "main" /\ left = 0)

SigInv == SigTypes /\ CaughtInv /\ BlockedInv /\ AnswerInv /\ AlarmInv

LEMMA SigInit == Signals!Init => SigInv
<1> SUFFICES ASSUME Signals!Init PROVE SigInv
  OBVIOUS
<1> USE DEF Signals!Init
<1>1. SigTypes
  BY PassesAssumption DEF SigTypes
<1>2. CaughtInv /\ BlockedInv /\ AnswerInv /\ AlarmInv
  BY DEF CaughtInv, BlockedInv, AnswerInv, AlarmInv
<1> QED
  BY <1>1, <1>2 DEF SigInv

LEMMA SigProgram ==
  ASSUME SigInv,
         \/ Signals!Catch \/ Signals!Block \/ Signals!PrintPending \/ Signals!testVolatile
         \/ Signals!testsigAction \/ Signals!testRaise \/ Signals!testAlarm
         \/ Signals!HandlerReturns \/ Signals!HeldUp
  PROVE  SigInv'
<1> USE DEF SigInv, Signals!InMain, Signals!SIGINT, Signals!SIGQUIT, Signals!SIGALRM, Signals!Demos,
            Signals!EndlessHandler, Signals!Raised
<1>1. CASE Signals!Catch
  <2>1. SigTypes'
    BY <1>1 DEF Signals!Catch, SigTypes
  <2>2. CaughtInv'
    BY <1>1 DEF Signals!Catch, CaughtInv
  <2>3. BlockedInv'
    BY <1>1 DEF Signals!Catch, BlockedInv, CaughtInv
  <2>4. AnswerInv'
    BY <1>1 DEF Signals!Catch, AnswerInv, CaughtInv
  <2>5. AlarmInv'
    BY <1>1 DEF Signals!Catch, AlarmInv, CaughtInv, SigTypes
  <2> QED
    BY <2>1, <2>2, <2>3, <2>4, <2>5
<1>2. CASE Signals!Block
  <2>1. SigTypes'
    BY <1>2 DEF Signals!Block, SigTypes
  <2>2. CaughtInv'
    BY <1>2 DEF Signals!Block, CaughtInv
  <2>3. BlockedInv'
    BY <1>2 DEF Signals!Block, BlockedInv, CaughtInv
  <2>4. AnswerInv'
    BY <1>2 DEF Signals!Block, AnswerInv, CaughtInv
  <2>5. AlarmInv'
    BY <1>2 DEF Signals!Block, AlarmInv, CaughtInv, SigTypes
  <2> QED
    BY <2>1, <2>2, <2>3, <2>4, <2>5
<1>3. CASE Signals!PrintPending
  <2>1. SigTypes'
    BY <1>3 DEF Signals!PrintPending, SigTypes
  <2>2. CaughtInv'
    BY <1>3 DEF Signals!PrintPending, CaughtInv
  <2>3. BlockedInv'
    BY <1>3 DEF Signals!PrintPending, BlockedInv, CaughtInv, SigTypes
  <2>4. AnswerInv'
    BY <1>3 DEF Signals!PrintPending, AnswerInv, CaughtInv
  <2>5. AlarmInv'
    BY <1>3 DEF Signals!PrintPending, AlarmInv, CaughtInv, SigTypes
  <2> QED
    BY <2>1, <2>2, <2>3, <2>4, <2>5
<1>4. CASE Signals!testVolatile
  <2>1. SigTypes'
    BY <1>4 DEF Signals!testVolatile, SigTypes
  <2>2. CaughtInv'
    BY <1>4 DEF Signals!testVolatile, CaughtInv
  <2>3. BlockedInv'
    BY <1>4 DEF Signals!testVolatile, BlockedInv, CaughtInv
  <2>4. AnswerInv'
    BY <1>4 DEF Signals!testVolatile, AnswerInv, CaughtInv
  <2>5. AlarmInv'
    BY <1>4 DEF Signals!testVolatile, AlarmInv, CaughtInv, SigTypes
  <2> QED
    BY <2>1, <2>2, <2>3, <2>4, <2>5
<1>5. CASE Signals!testsigAction
  <2>1. SigTypes'
    BY <1>5 DEF Signals!testsigAction, SigTypes
  <2>2. CaughtInv'
    BY <1>5 DEF Signals!testsigAction, CaughtInv
  <2>3. BlockedInv'
    BY <1>5 DEF Signals!testsigAction, BlockedInv, CaughtInv
  <2>4. AnswerInv'
    BY <1>5 DEF Signals!testsigAction, AnswerInv, CaughtInv
  <2>5. AlarmInv'
    BY <1>5 DEF Signals!testsigAction, AlarmInv, CaughtInv, SigTypes
  <2> QED
    BY <2>1, <2>2, <2>3, <2>4, <2>5
<1>6. CASE Signals!testRaise
  <2>1. SigTypes'
    BY <1>6 DEF Signals!testRaise, SigTypes
  <2>2. CaughtInv'
    BY <1>6 DEF Signals!testRaise, CaughtInv
  <2>3. BlockedInv'
    BY <1>6 DEF Signals!testRaise, BlockedInv, CaughtInv
  <2>4. AnswerInv'
    BY <1>6 DEF Signals!testRaise, AnswerInv, CaughtInv
  <2>5. AlarmInv'
    BY <1>6 DEF Signals!testRaise, AlarmInv, CaughtInv, SigTypes
  <2> QED
    BY <2>1, <2>2, <2>3, <2>4, <2>5
<1>7. CASE Signals!testAlarm
  <2>1. SigTypes'
    BY <1>7 DEF Signals!testAlarm, SigTypes
  <2>2. CaughtInv'
    BY <1>7 DEF Signals!testAlarm, CaughtInv
  <2>3. BlockedInv'
    BY <1>7 DEF Signals!testAlarm, BlockedInv, CaughtInv
  <2>4. AnswerInv'
    BY <1>7 DEF Signals!testAlarm, AnswerInv, CaughtInv
  <2>5. AlarmInv'
    BY <1>7 DEF Signals!testAlarm, AlarmInv, CaughtInv, SigTypes
  <2> QED
    BY <2>1, <2>2, <2>3, <2>4, <2>5
<1>8. CASE Signals!HandlerReturns
  <2>1. SigTypes'
    BY <1>8 DEF Signals!HandlerReturns, SigTypes
  <2>2. CaughtInv'
    BY <1>8 DEF Signals!HandlerReturns, CaughtInv
  <2>3. BlockedInv'
    BY <1>8 DEF Signals!HandlerReturns, BlockedInv, CaughtInv
  <2>4. AnswerInv'
    BY <1>8 DEF Signals!HandlerReturns, AnswerInv, CaughtInv
  <2>5. AlarmInv'
    BY <1>8 DEF Signals!HandlerReturns, AlarmInv, CaughtInv, SigTypes
  <2> QED
    BY <2>1, <2>2, <2>3, <2>4, <2>5
<1>9. CASE Signals!HeldUp
  <2>1. SigTypes'
    BY <1>9 DEF Signals!HeldUp, SigTypes
  <2>2. CaughtInv'
    BY <1>9 DEF Signals!HeldUp, CaughtInv
  <2>3. BlockedInv'
    BY <1>9 DEF Signals!HeldUp, BlockedInv, CaughtInv
  <2>4. AnswerInv'
    BY <1>9 DEF Signals!HeldUp, AnswerInv, CaughtInv
  <2>5. AlarmInv'
    BY <1>9 DEF Signals!HeldUp, AlarmInv, CaughtInv, SigTypes
  <2> QED
    BY <2>1, <2>2, <2>3, <2>4, <2>5
<1> QED
  BY <1>1, <1>2, <1>3, <1>4, <1>5, <1>6, <1>7, <1>8, <1>9

LEMMA SigDeliver ==
  ASSUME SigInv, NEW s \in {2, 3, 14}, Signals!Deliver(s) PROVE SigInv'
<1> USE DEF SigInv, Signals!SIGINT, Signals!SIGQUIT, Signals!SIGALRM, Signals!Demos,
            Signals!Masked, Signals!Raised, Signals!Deliver
<1>1. SigTypes'
  BY DEF SigTypes
<1>2. CaughtInv'
  BY DEF CaughtInv
<1>3. BlockedInv'
  BY DEF BlockedInv, CaughtInv
<1>4. AnswerInv'
  BY DEF AnswerInv, CaughtInv
<1>5. AlarmInv'
  BY DEF AlarmInv, CaughtInv, SigTypes
<1> QED
  BY <1>1, <1>2, <1>3, <1>4, <1>5

LEMMA SigSend ==
  ASSUME SigInv, NEW s \in {2, 3}, Signals!Send(s) PROVE SigInv'
<1> USE DEF SigInv, Signals!SIGINT, Signals!SIGQUIT, Signals!SIGALRM, Signals!Demos,
            Signals!Masked, Signals!Raised, Signals!Send
<1>1. SigTypes'
  BY DEF SigTypes
<1>2. CaughtInv'
  BY DEF CaughtInv
<1>3. BlockedInv'
  BY DEF BlockedInv, CaughtInv
<1>4. AnswerInv'
  BY DEF AnswerInv, CaughtInv
<1>5. AlarmInv'
  BY DEF AlarmInv, CaughtInv, SigTypes
<1> QED
  BY <1>1, <1>2, <1>3, <1>4, <1>5

LEMMA SigNext == SigInv /\ Signals!Next => SigInv'
BY SigProgram, SigDeliver, SigSend
   DEF Signals!Next, Signals!Process, Signals!SIGINT, Signals!SIGQUIT, Signals!SIGALRM

LEMMA SigSame == SigInv /\ UNCHANGED signalVars => SigInv'
BY DEF signalVars, SigInv, SigTypes, CaughtInv, BlockedInv, AnswerInv, AlarmInv

LEMMA SigRight == SigInv => Signals!SignalsKept
<1> SUFFICES ASSUME SigInv PROVE Signals!SignalsKept
  OBVIOUS
<1>1. /\ dead = 0 => unanswered = waiting
      /\ dead # 0 => dead \notin caught
      /\ which = "getPending" /\ where = "loop" /\ cnt >= 0 => handling = <<>>
      /\ which = "testsigAction" /\ handling # <<>> => dead = 0
  BY DEF SigInv, AnswerInv, BlockedInv
<1>2. which = "testAlarm" /\ where = "main" =>
        IF left = 0 THEN tardy >= 3 ELSE left = 3 - tardy /\ 14 \notin unanswered
  BY DEF SigInv, SigTypes, AlarmInv
<1> QED
  BY <1>1, <1>2 DEF Signals!SignalsKept, Signals!SIGALRM
-----------------------------------------------------------------------------
(* The fathers of one child.                                               *)
ForkTypes ==
  /\ forker \in {"start", "fork", "parent", "over"}
  /\ son \in {"none", "start", "image", "zombie", "reaped", "orphan"}
  /\ gval \in [{"father", "child"} -> Nat] /\ gval["father"] = 100

(* A child is there once fork has returned, and for a father that waits    *)
(* until it has.                                                           *)
SonInv ==
  /\ forker \in {"start", "fork"} => son = "none"
  /\ son = "zombie" => forker = "parent"
  /\ son \in {"reaped"} => demo \in Forks!Waiting
  /\ forker = "over" /\ demo \in Forks!Waiting => son \in {"none", "reaped"}

(* How a child may have ended, and what is said of it. *)
Ended(s) ==
  \/ \E v \in 0 .. 255 : s = Forks!Exited(v)
  \/ s = Forks!Killed(9, 0)
  \/ s = Forks!Killed(11, 0) /\ demo = "shell"
  \/ \E core \in {0, 1} : s = Forks!Killed(8, core) /\ demo = "testCore"

ReportInv ==
  /\ son \in {"zombie", "reaped", "orphan"} => Ended(waitStatus)
  /\ report # <<>> => son = "reaped" /\ report = Forks!Says(waitStatus)

ForkInv == ForkTypes /\ SonInv /\ ReportInv

(* The status word of a child that exited, and of one that was killed.     *)
LEMMA StatusWord ==
  /\ \A v \in 0 .. 255 : /\ Forks!WEXITSTATUS(Forks!Exited(v)) = v /\ Forks!WIFEXITED(Forks!Exited(v))
                         /\ Forks!Exited(v) % 256 = 0 /\ Forks!Exited(v) \div 256 = v
  /\ \A sig \in {8, 9, 11}, core \in {0, 1} :
       /\ Forks!WEXITSTATUS(Forks!Killed(sig, core)) = 0 /\ ~Forks!WIFEXITED(Forks!Killed(sig, core))
       /\ Forks!WTERMSIG(Forks!Killed(sig, core)) = sig /\ Forks!Killed(sig, core) % 256 # 0
<1> USE DEF Forks!WEXITSTATUS, Forks!WIFEXITED, Forks!WTERMSIG, Forks!Exited, Forks!Killed
<1>1. ASSUME NEW v \in 0 .. 255
      PROVE  /\ (v * 256) \div 256 = v /\ v % 256 = v /\ (v * 256) % 128 = 0 /\ (v * 256) % 256 = 0
  OBVIOUS
<1>2. ASSUME NEW sig \in {8, 9, 11}, NEW core \in {0, 1}
      PROVE  /\ ((sig + 128 * core) \div 256) % 256 = 0 /\ (sig + 128 * core) % 128 = sig
             /\ (sig + 128 * core) % 256 # 0
  OBVIOUS
<1>3. \A sig \in {8, 9, 11} : sig # 0
  OBVIOUS
<1> QED
  BY <1>1, <1>2, <1>3

LEMMA ForkInit == Forks!Init => ForkInv
BY DEF Forks!Init, Forks!None, ForkInv, ForkTypes, SonInv, ReportInv

(* A child ends in one of the ways there are.                              *)
LEMMA SonEnds ==
  ASSUME ForkInv, NEW s, Ended(s), son \in {"start", "image"}, Forks!ChildEnds(s) PROVE ForkInv'
<1>1. /\ waitStatus' = s /\ son' = IF forker = "over" THEN "orphan" ELSE "zombie"
      /\ UNCHANGED <<demo, forker, report, line, code, gval>>
  BY DEF Forks!ChildEnds
<1>2. ForkTypes'
  BY <1>1 DEF ForkInv, ForkTypes
<1>3. SonInv'
  BY <1>1 DEF ForkInv, ForkTypes, SonInv
<1>4. ReportInv'
  BY <1>1 DEF ForkInv, ReportInv, Ended
<1> QED
  BY <1>2, <1>3, <1>4 DEF ForkInv

LEMMA ForkFather == ForkInv /\ Forks!Father => ForkInv'
<1> SUFFICES ASSUME ForkInv, Forks!Father PROVE ForkInv'
  OBVIOUS
<1> USE DEF ForkInv, Forks!Waiting, Forks!Loose, Forks!Ends
<1>1. CASE Forks!GetUserCommand
  <2>1. ForkTypes'
    BY <1>1 DEF Forks!GetUserCommand, ForkTypes
  <2>2. SonInv'
    BY <1>1 DEF Forks!GetUserCommand, ForkTypes, SonInv
  <2>3. ReportInv'
    BY <1>1 DEF Forks!GetUserCommand, ReportInv, SonInv, Ended, Forks!Says
  <2> QED
    BY <2>1, <2>2, <2>3
<1>2. CASE Forks!Fork
  <2>1. ForkTypes'
    BY <1>2 DEF Forks!Fork, ForkTypes
  <2>2. SonInv'
    BY <1>2 DEF Forks!Fork, ForkTypes, SonInv
  <2>3. ReportInv'
    BY <1>2 DEF Forks!Fork, ReportInv, SonInv, Ended, Forks!Says
  <2> QED
    BY <2>1, <2>2, <2>3
<1>3. CASE Forks!WaitChild
  <2>1. ForkTypes'
    BY <1>3 DEF Forks!WaitChild, ForkTypes
  <2>2. SonInv'
    BY <1>3 DEF Forks!WaitChild, ForkTypes, SonInv
  <2>3. ReportInv'
    BY <1>3 DEF Forks!WaitChild, ReportInv, SonInv, Ended, Forks!Says
  <2> QED
    BY <2>1, <2>2, <2>3
<1>4. CASE Forks!LooseEnds
  <2>1. ForkTypes'
    BY <1>4 DEF Forks!LooseEnds, ForkTypes
  <2>2. SonInv'
    BY <1>4 DEF Forks!LooseEnds, ForkTypes, SonInv
  <2>3. ReportInv'
    BY <1>4 DEF Forks!LooseEnds, ReportInv, SonInv, Ended, Forks!Says
  <2> QED
    BY <2>1, <2>2, <2>3
<1> QED
  BY <1>1, <1>2, <1>3, <1>4 DEF Forks!Father

LEMMA ForkChild == ForkInv /\ (Forks!Child \/ Forks!Kill) => ForkInv'
<1> SUFFICES ASSUME ForkInv, Forks!Child \/ Forks!Kill PROVE ForkInv'
  OBVIOUS
<1>1. \A v \in 0 .. 255 : Ended(Forks!Exited(v))
  BY DEF Ended
<1>2. Ended(Forks!Killed(9, 0)) /\ (demo = "shell" => Ended(Forks!Killed(11, 0)))
  BY DEF Ended
<1>3. demo = "testCore" => \A core \in {0, 1} : Ended(Forks!Killed(8, core))
  BY DEF Ended
<1>4. Codes \subseteq 0 .. 255 /\ Errnos \subseteq 0 .. 255
  BY CodesAssumption
<1>5. Forks!testDivZero = 1
  BY DEF Forks!testDivZero, Forks!Div
<1>6. ASSUME son = "start", son' = "image", UNCHANGED <<demo, forker, waitStatus, report, line, code, gval>>
      PROVE  ForkInv'
  BY <1>6 DEF ForkInv, ForkTypes, SonInv, ReportInv, Ended
<1>7. CASE Forks!ExecuteComm
  BY <1>1, <1>2, <1>4, <1>6, <1>7, SonEnds DEF Forks!ExecuteComm, Forks!SIGSEGV
<1>8. CASE Forks!Execve
  <2>1. Ended(Forks!Exited(123))
    BY <1>1
  <2> QED
    BY <1>6, <1>8, <2>1, SonEnds DEF Forks!Execve
<1>9. CASE Forks!CommandEnds
  BY <1>1, <1>4, <1>9, SonEnds DEF Forks!CommandEnds
<1>10. CASE Forks!ExitCodeEnds
  BY <1>1, <1>5, <1>10, SonEnds DEF Forks!ExitCodeEnds
<1>11. CASE Forks!WaitNoHangChild \/ Forks!testWaitChild \/ Forks!test_ZombieChild \/ Forks!test_childProcessChild
  <2>1. Ended(Forks!Exited(0)) /\ Ended(Forks!Exited(1)) /\ Ended(Forks!Exited(111))
    BY <1>1
  <2> QED
    BY <1>11, <2>1, SonEnds
       DEF Forks!WaitNoHangChild, Forks!testWaitChild, Forks!test_ZombieChild, Forks!test_childProcessChild
<1>12. CASE Forks!Sum
  BY <1>3, <1>12, SonEnds DEF Forks!Sum, Forks!SIGFPE
<1>13. CASE Forks!addSpaceChild
  BY <1>13 DEF Forks!addSpaceChild, ForkInv, ForkTypes, SonInv, ReportInv, Ended
<1>14. CASE Forks!Kill
  BY <1>2, <1>14, SonEnds DEF Forks!Kill, Forks!SIGKILL
<1> QED
  BY <1>7, <1>8, <1>9, <1>10, <1>11, <1>12, <1>13, <1>14 DEF Forks!Child

LEMMA ForkSame == ForkInv /\ UNCHANGED forkVars => ForkInv'
BY DEF forkVars, ForkInv, ForkTypes, SonInv, ReportInv, Ended, Forks!Says, Forks!shellSays, Forks!execSays,
       Forks!WaitNoHangSays, Forks!testWaitSays, Forks!testCoreSays

LEMMA ForkRight == ForkInv => Forks!ReportsRight
<1> SUFFICES ASSUME ForkInv PROVE Forks!ReportsRight
  OBVIOUS
<1>1. /\ son = "zombie" => forker = "parent"
      /\ forker = "over" /\ demo \in Forks!Waiting => son \in {"none", "reaped"}
      /\ gval["father"] = 100
  BY DEF ForkInv, ForkTypes, SonInv
<1>2. ASSUME report # <<>>
      PROVE  /\ waitStatus % 256 = 0 => report[2] = waitStatus \div 256
             /\ waitStatus % 256 # 0 => CASE demo \in {"shell", "exec"} -> report = <<"code", 0>>
                                      [] demo = "WaitNoHang" -> report = <<"exception">>
                                      [] OTHER -> report[3] \in {9, 8}
  <2>1. report = Forks!Says(waitStatus) /\ Ended(waitStatus) /\ demo \in Forks!Waiting
    BY <1>2 DEF ForkInv, SonInv, ReportInv
  <2> USE DEF Forks!Says, Forks!shellSays, Forks!execSays, Forks!WaitNoHangSays, Forks!testWaitSays,
              Forks!testCoreSays, Forks!Waiting
  <2>2. CASE \E v \in 0 .. 255 : waitStatus = Forks!Exited(v)
    BY <2>1, <2>2, StatusWord
  <2>3. CASE \E sig \in {8, 9, 11}, core \in {0, 1} :
               waitStatus = Forks!Killed(sig, core) /\ (sig = 11 => demo = "shell")
    BY <2>1, <2>3, StatusWord
  <2> QED
    BY <2>1, <2>2, <2>3 DEF Ended
<1> QED
  BY <1>1, <1>2 DEF Forks!ReportsRight, Forks!SIGKILL, Forks!SIGFPE
-----------------------------------------------------------------------------
(* The programs on files.                                                  *)
Texts == {"stdin", "stdout", "stderr", "ones", "message"}

FileTypes ==
  /\ at \in [Openers -> {"start", "opened", "stat", "read", "done", "first", "second", "fprintf"}]
  /\ fd \in [Openers -> BOOLEAN] /\ alone \in [Openers -> BOOLEAN]
  /\ size \in [Openers -> Nat] /\ log \in Seq(Openers) \cup {Files!Missing}
  /\ shown \in [Openers -> Seq(Openers \cup {"missing"})]
  /\ terminal \in [{"pts/1", "pts/2"} -> Seq(Openers)]
  /\ buffer \in [Openers -> Seq(Texts)] /\ out \in [Openers -> Seq(Texts)]

(* Where a program can be, and what it has opened by then. *)
PlaceInv ==
  \A p \in Openers :
    /\ at[p] = "opened" => func[p] \in {"GetFileInfo", "systemCallFunc"}
    /\ at[p] \in {"stat", "read"} => func[p] = "GetFileInfo"
    /\ at[p] \in {"first", "second"} => func[p] = "Redirect" /\ fd[p]
    /\ at[p] = "fprintf" => func[p] = "testCfileFunc" /\ fd[p]
    /\ at[p] = "start" => ~fd[p]
    /\ fd[p] /\ func[p] \in {"GetFileInfo", "systemCallFunc"} => log # Files!Missing

TerminalInv ==
  \A p \in Openers :
    /\ Files!Lines("pts/2", p) =
         CASE at[p] = "second" -> 1
           [] at[p] = "done" /\ fd[p] /\ func[p] = "Redirect" -> 2
           [] OTHER -> 0
    /\ Files!Lines("pts/1", p) =
         IF at[p] = "done" /\ fd[p] /\ func[p] = "printForOtherTerminal" THEN 1 ELSE 0

TextInv ==
  (\A p \in Openers : at[p] # "fprintf") =>
    (testTxt = "text" <=> \E p \in Openers : func[p] = "testCfileFunc" /\ fd[p])

(* A program that nobody disturbs finds what it wrote. *)
LogOf(p) ==
  /\ at[p] # "done" \/ func[p] # "GetFileInfo" => shown[p] = <<>>
  /\ fd[p] /\ alone[p] /\ at[p] = "opened" => log = <<>>
  /\ fd[p] /\ alone[p] /\ at[p] \in {"stat", "read"} => log = <<p, p>>
  /\ fd[p] /\ alone[p] /\ at[p] = "read" => size[p] = 2
  /\ shown[p] # <<>> /\ fd[p] /\ alone[p] => shown[p] = <<p, p>>
  /\ Len(shown[p]) <= size[p]
  /\ lastWriter = p /\ log \notin {<<>>, Files!Missing} => \A i \in 1 .. Files!Parts(p) : log[i] = p

LogInv == \A p \in Openers : LogOf(p)

(* The lines of FILEandfd, out and in the buffer, in their order. *)
OutInv ==
  \A p \in Openers :
    /\ Len(out[p]) + Len(buffer[p]) <= 5
    /\ at[p] = "start" => Len(out[p]) + Len(buffer[p]) <= 4
    /\ \A i \in 1 .. Len(out[p]) : out[p][i] = Files!Order[i]
    /\ \A i \in 1 .. Len(buffer[p]) : buffer[p][i] = Files!Order[Len(out[p]) + i]

FileInv == FileTypes /\ PlaceInv /\ TerminalInv /\ TextInv /\ LogInv /\ OutInv

LEMMA LinesOne ==
  ASSUME NEW s \in Seq(Openers), NEW p \in Openers, NEW q \in Openers
  PROVE  Cardinality({i \in DOMAIN Append(s, q) : Append(s, q)[i] = p})
           = Cardinality({i \in DOMAIN s : s[i] = p}) + (IF p = q THEN 1 ELSE 0)
<1> DEFINE A == {i \in DOMAIN s : s[i] = p}
           B == {i \in DOMAIN Append(s, q) : Append(s, q)[i] = p}
<1>1. /\ DOMAIN s = 1 .. Len(s) /\ DOMAIN Append(s, q) = 1 .. Len(s) + 1 /\ Len(s) \in Nat
      /\ Append(s, q)[Len(s) + 1] = q /\ \A i \in 1 .. Len(s) : Append(s, q)[i] = s[i]
  OBVIOUS
<1>2. IsFiniteSet(A) /\ Len(s) + 1 \notin A
  <2>1. IsFiniteSet(1 .. Len(s)) /\ A \subseteq 1 .. Len(s) /\ Len(s) + 1 \notin 1 .. Len(s)
    BY <1>1, FS_Interval
  <2> QED
    BY <2>1, FS_Subset
<1>3. B = IF p = q THEN A \cup {Len(s) + 1} ELSE A
  <2>1. \A i : i \in 1 .. Len(s) + 1 <=> i \in 1 .. Len(s) \/ i = Len(s) + 1
    BY <1>1
  <2>2. Len(s) + 1 \notin 1 .. Len(s)
    BY <1>1
  <2> QED
    BY <1>1, <2>1, <2>2
<1>4. Cardinality(A) \in Nat
  BY <1>2, FS_CardinalityType
<1>5. CASE p = q
  <2>1. Cardinality(A \cup {Len(s) + 1}) = Cardinality(A) + 1
    BY <1>2, FS_AddElement
  <2> QED
    BY <1>3, <1>5, <2>1
<1>6. CASE p # q
  <2>1. B = A
    BY <1>3, <1>6
  <2>2. Cardinality(A) = Cardinality(A) + 0
    BY <1>4
  <2> QED
    BY <1>6, <2>1, <2>2
<1> QED
  BY <1>5, <1>6

LEMMA LinesCount ==
  \A t, p : Files!Lines(t, p) = Cardinality({i \in DOMAIN terminal[t] : terminal[t][i] = p})
<1>1. \A S : Files!Cardinality(S) = Cardinality(S)
  BY DEF Files!Cardinality, Cardinality
<1> QED
  BY <1>1 DEF Files!Lines

LEMMA FileInit == Files!Init => FileInv
<1> SUFFICES ASSUME Files!Init PROVE FileInv
  OBVIOUS
<1> USE DEF Files!Init
<1>1. FileTypes
  BY DEF FileTypes, Files!Missing
<1>2. PlaceInv
  BY DEF PlaceInv
<1>3. TerminalInv
  <2>1. \A p \in Openers : Files!Lines("pts/1", p) = 0 /\ Files!Lines("pts/2", p) = 0
    <3>1. \A p \in Openers, t \in {"pts/1", "pts/2"} : {i \in DOMAIN terminal[t] : terminal[t][i] = p} = {}
      OBVIOUS
    <3> QED
      BY <3>1, LinesCount, FS_EmptySet
  <2> QED
    BY <2>1 DEF TerminalInv
<1>4. TextInv
  BY DEF TextInv
<1>5. LogInv
  BY DEF LogInv, LogOf, Files!Missing
<1>6. OutInv
  BY DEF OutInv
<1> QED
  BY <1>1, <1>2, <1>3, <1>4, <1>5, <1>6 DEF FileInv

(* A step of program p leaves the others where they are; what it does not  *)
(* touch keeps its part of the invariant.                                  *)
OthersStay(p) ==
  UNCHANGED func /\ \A q \in Openers : q # p => at'[q] = at[q] /\ fd'[q] = fd[q]

LEMMA PlaceFrame ==
  ASSUME FileInv, NEW p \in Openers, OthersStay(p), log' = log \/ log' # Files!Missing,
         at'[p] \in {"start", "done"}, at'[p] = "start" => fd'[p] = fd[p] /\ at[p] = "start",
         fd'[p] = fd[p] \/ func[p] \notin {"GetFileInfo", "systemCallFunc"}
  PROVE  PlaceInv'
BY DEF FileInv, PlaceInv, OthersStay

LEMMA TerminalFrame ==
  ASSUME FileInv, NEW p \in Openers, OthersStay(p), UNCHANGED terminal,
         at[p] \notin {"second", "done"}, at'[p] # "second",
         at'[p] = "done" /\ fd'[p] => func[p] \notin {"Redirect", "printForOtherTerminal"}
  PROVE  TerminalInv'
<1> SUFFICES ASSUME NEW q \in Openers
             PROVE  /\ Files!Lines("pts/2", q)' =
                          CASE at'[q] = "second" -> 1
                            [] at'[q] = "done" /\ fd'[q] /\ func'[q] = "Redirect" -> 2
                            [] OTHER -> 0
                    /\ Files!Lines("pts/1", q)' =
                          IF at'[q] = "done" /\ fd'[q] /\ func'[q] = "printForOtherTerminal" THEN 1 ELSE 0
  BY DEF TerminalInv
<1>1. /\ Files!Lines("pts/2", q)' = Files!Lines("pts/2", q)
      /\ Files!Lines("pts/1", q)' = Files!Lines("pts/1", q)
  BY DEF Files!Lines
<1>2. /\ Files!Lines("pts/2", q) =
            CASE at[q] = "second" -> 1
              [] at[q] = "done" /\ fd[q] /\ func[q] = "Redirect" -> 2
              [] OTHER -> 0
      /\ Files!Lines("pts/1", q) =
            IF at[q] = "done" /\ fd[q] /\ func[q] = "printForOtherTerminal" THEN 1 ELSE 0
  BY DEF FileInv, TerminalInv
<1>3. CASE q = p
  BY <1>1, <1>2, <1>3 DEF OthersStay
<1>4. CASE q # p
  BY <1>1, <1>2, <1>4 DEF OthersStay
<1> QED
  BY <1>3, <1>4

LEMMA TextFrame ==
  ASSUME FileInv, NEW p \in Openers, OthersStay(p), UNCHANGED testTxt,
         at[p] # "fprintf", at'[p] # "fprintf", func[p] # "testCfileFunc"
  PROVE  TextInv'
<1>1. func' = func /\ testTxt' = testTxt
  BY DEF OthersStay
<1>2. (\A q \in Openers : at'[q] # "fprintf") => \A q \in Openers : at[q] # "fprintf"
  BY DEF OthersStay
<1>3. (\E q \in Openers : func[q] = "testCfileFunc" /\ fd'[q])
        <=> \E q \in Openers : func[q] = "testCfileFunc" /\ fd[q]
  BY DEF OthersStay
<1> QED
  BY <1>1, <1>2, <1>3 DEF FileInv, TextInv

LEMMA LogFrame ==
  ASSUME FileInv, NEW p \in Openers, OthersStay(p), UNCHANGED <<log, size, shown, alone, lastWriter>>,
         at[p] # "done" \/ func[p] # "GetFileInfo", at'[p] \notin {"opened", "stat", "read"}
  PROVE  LogInv'
<1> SUFFICES ASSUME NEW q \in Openers PROVE LogOf(q)'
  BY DEF LogInv
<1>1. LogOf(q) /\ LogOf(p)
  BY DEF FileInv, LogInv
<1>2. Files!Parts(q)' = Files!Parts(q)
  BY DEF Files!Parts, OthersStay
<1>3. CASE q = p
  BY <1>1, <1>2, <1>3 DEF LogOf
<1>4. CASE q # p
  BY <1>1, <1>2, <1>4 DEF LogOf, OthersStay
<1> QED
  BY <1>3, <1>4

LEMMA OutFrame ==
  ASSUME FileInv, NEW p \in Openers, OthersStay(p), UNCHANGED <<buffer, out>>, at'[p] # "start"
  PROVE  OutInv'
BY DEF FileInv, OutInv, OthersStay

LEMMA FileOpen ==
  ASSUME FileInv, NEW p \in Openers, func[p] \in {"GetFileInfo", "systemCallFunc"}, Files!Open(p)
  PROVE  FileInv'
<1>1. /\ at[p] = "start" /\ at' = [at EXCEPT ![p] = "opened"]
      /\ \/ fd' = [fd EXCEPT ![p] = TRUE] /\ log' = <<>> /\ alone' = [q \in Openers |-> IF q = p THEN TRUE ELSE FALSE]
         \/ UNCHANGED <<fd, log, alone>>
      /\ UNCHANGED <<func, terminal, testTxt, size, shown, lastWriter, buffer, out>>
  BY DEF Files!Open, Files!To, Files!Touched, Files!Others
<1>2. FileTypes
  BY DEF FileInv
<1>3. OthersStay(p) /\ at'[p] = "opened"
  BY <1>1, <1>2 DEF FileTypes, OthersStay
<1>4. FileTypes'
  <2>1. at' \in [Openers -> {"start", "opened", "stat", "read", "done", "first", "second", "fprintf"}]
    BY <1>1, <1>2 DEF FileTypes
  <2>2. fd' \in [Openers -> BOOLEAN] /\ alone' \in [Openers -> BOOLEAN]
    BY <1>1, <1>2 DEF FileTypes
  <2>3. log' \in Seq(Openers) \cup {Files!Missing}
    <3>1. (log' = <<>> \/ log' = log) /\ <<>> \in Seq(Openers)
      BY <1>1
    <3> QED
      BY <1>2, <3>1 DEF FileTypes
  <2> QED
    BY <1>1, <1>2, <2>1, <2>2, <2>3 DEF FileTypes
<1>5. PlaceInv'
  <2>1. log' = log \/ log' # Files!Missing
    BY <1>1 DEF Files!Missing
  <2>2. CASE UNCHANGED <<fd, log>>
    BY <1>1, <1>3, <2>2 DEF FileInv, PlaceInv, OthersStay
  <2>3. CASE log' = <<>>
    <3>1. log' # Files!Missing
      BY <2>3 DEF Files!Missing
    <3> QED
      BY <1>1, <1>3, <3>1 DEF FileInv, PlaceInv, OthersStay
  <2> QED
    BY <1>1, <2>2, <2>3
<1>6. TerminalInv' /\ TextInv' /\ OutInv'
  BY <1>1, <1>3, TerminalFrame, TextFrame, OutFrame
<1>7. ASSUME NEW q \in Openers PROVE LogOf(q)'
  <2>1. LogOf(q) /\ shown[p] = <<>> /\ ~fd[p]
    BY <1>1 DEF FileInv, LogInv, LogOf, PlaceInv
  <2>2. CASE UNCHANGED <<fd, log, alone>>
    BY <1>1, <1>3, <2>1, <2>2 DEF LogOf, OthersStay, Files!Parts
  <2>3. CASE log' = <<>> /\ alone' = [r \in Openers |-> IF r = p THEN TRUE ELSE FALSE]
    BY <1>1, <1>3, <2>1, <2>3 DEF LogOf, OthersStay, Files!Parts
  <2> QED
    BY <1>1, <2>2, <2>3
<1> QED
  BY <1>4, <1>5, <1>6, <1>7 DEF FileInv, LogInv

LEMMA FileWrite ==
  ASSUME FileInv, NEW p \in Openers, func[p] \in {"GetFileInfo", "systemCallFunc"}, Files!Write(p)
  PROVE  FileInv'
<1> DEFINE w == IF func[p] = "GetFileInfo" THEN "stat" ELSE "done"
           n == Files!Parts(p)
           m == IF Len(log) > n THEN Len(log) ELSE n
<1>1. /\ at[p] = "opened" /\ at' = [at EXCEPT ![p] = w]
      /\ IF fd[p]
         THEN /\ log' = [i \in 1 .. m |-> IF i <= n THEN p ELSE log[i]]
              /\ alone' = [q \in Openers |-> IF q = p THEN alone[p] ELSE FALSE] /\ lastWriter' = p
         ELSE UNCHANGED <<log, alone, lastWriter>>
      /\ UNCHANGED <<func, terminal, testTxt, fd, size, shown, buffer, out>>
  BY DEF Files!Write, Files!To, Files!Touched, Files!Others
<1>2. FileTypes /\ n \in Nat
  BY DEF FileInv, Files!Parts
<1>3. OthersStay(p) /\ at'[p] = w
  BY <1>1, <1>2 DEF FileTypes, OthersStay
<1>4. ASSUME fd[p]
      PROVE  /\ log \in Seq(Openers) /\ log' \in Seq(Openers) /\ Len(log') = m /\ m >= n /\ m \in Nat
             /\ \A i \in 1 .. n : log'[i] = p
  <2>1. log \in Seq(Openers)
    BY <1>2, <1>4 DEF FileInv, PlaceInv, FileTypes
  <2>2. Len(log) \in Nat /\ \A i \in 1 .. Len(log) : log[i] \in Openers
    BY <2>1
  <2>3. m \in Nat /\ m >= n /\ \A i \in 1 .. m : i <= n \/ i \in 1 .. Len(log)
    BY <1>2, <2>2
  <2> HIDE DEF m, n
  <2>4. log' \in [1 .. m -> Openers]
    BY <1>1, <1>4, <2>2, <2>3
  <2>5. \A i \in 1 .. n : i \in 1 .. m /\ i <= n
    BY <1>2, <2>3
  <2>6. \A i \in 1 .. n : log'[i] = p
    BY <1>1, <1>4, <2>5
  <2>7. log' \in Seq(Openers) /\ Len(log') = m
    BY <2>3, <2>4
  <2> QED
    BY <2>1, <2>3, <2>6, <2>7
<1>5. FileTypes'
  <2>1. at' \in [Openers -> {"start", "opened", "stat", "read", "done", "first", "second", "fprintf"}]
    BY <1>1, <1>2 DEF FileTypes
  <2>2. alone' \in [Openers -> BOOLEAN]
    BY <1>1, <1>2 DEF FileTypes
  <2>3. log' \in Seq(Openers) \cup {Files!Missing}
    BY <1>1, <1>2, <1>4 DEF FileTypes
  <2> QED
    BY <1>1, <1>2, <2>1, <2>2, <2>3 DEF FileTypes
<1>6. log' = log \/ log' # Files!Missing
  <2>1. CASE fd[p]
    <3>1. log' \in Seq(Openers)
      BY <1>4, <2>1
    <3>2. Files!Missing \notin Seq(Openers)
      <4>1. Files!Missing[1] = "missing" /\ 1 \in DOMAIN Files!Missing
        BY DEF Files!Missing
      <4>2. \A s \in Seq(Openers) : \A i \in DOMAIN s : s[i] # "missing"
        BY OpenersAssumption
      <4> QED
        BY <4>1, <4>2
    <3> QED
      BY <3>1, <3>2
  <2> QED
    BY <1>1, <2>1
<1>7. PlaceInv'
  BY <1>1, <1>3, <1>6 DEF FileInv, PlaceInv, OthersStay
<1>8. TerminalInv' /\ TextInv' /\ OutInv'
  BY <1>1, <1>3, TerminalFrame, TextFrame, OutFrame
<1>9. ASSUME NEW q \in Openers PROVE LogOf(q)'
  <2>1. LogOf(q) /\ LogOf(p) /\ shown[p] = <<>> /\ Files!Parts(q)' = Files!Parts(q)
    BY <1>1 DEF FileInv, LogInv, LogOf, Files!Parts
  <2>2. CASE ~fd[p]
    BY <1>1, <1>3, <2>1, <2>2 DEF LogOf, OthersStay
  <2>3. CASE fd[p] /\ q # p
    BY <1>1, <1>3, <2>1, <2>3 DEF LogOf, OthersStay
  <2>4. CASE fd[p] /\ q = p
    <3>1. ASSUME alone[p], func[p] = "GetFileInfo" PROVE log' = <<p, p>>
      <4>1. log = <<>> /\ n = 2
        BY <1>1, <2>1, <2>4, <3>1 DEF LogOf, Files!Parts
      <4>2. m = 2
        BY <4>1
      <4>3. log' \in Seq(Openers) /\ Len(log') = 2 /\ log'[1] = p /\ log'[2] = p
        BY <1>4, <2>4, <4>1, <4>2
      <4> QED
        BY <4>3
    <3>2. \A i \in 1 .. Files!Parts(p) : log'[i] = p
      BY <1>4, <2>4
    <3>3. /\ at'[p] \in {"stat", "done"} /\ (at'[p] = "stat" => func[p] = "GetFileInfo")
          /\ alone'[p] = alone[p] /\ shown' = shown /\ size' = size /\ func' = func
      <4>1. at'[p] \in {"stat", "done"} /\ (at'[p] = "stat" => func[p] = "GetFileInfo")
        BY <1>3
      <4>2. alone' = [r \in Openers |-> IF r = p THEN alone[p] ELSE FALSE]
        BY <1>1, <2>4
      <4>3. alone'[p] = alone[p]
        BY <4>2
      <4> QED
        BY <1>1, <4>1, <4>3
    <3> HIDE DEF n, m, w
    <3> QED
      BY <2>1, <2>4, <3>1, <3>2, <3>3 DEF LogOf
  <2> QED
    BY <2>2, <2>3, <2>4
<1> QED
  BY <1>5, <1>7, <1>8, <1>9 DEF FileInv, LogInv

LEMMA FileStat ==
  ASSUME FileInv, NEW p \in Openers, func[p] = "GetFileInfo", Files!Stat(p) PROVE FileInv'
<1>1. /\ at[p] = "stat"
      /\ \/ log = Files!Missing /\ at' = [at EXCEPT ![p] = "done"] /\ UNCHANGED size
         \/ log # Files!Missing /\ at' = [at EXCEPT ![p] = "read"] /\ size' = [size EXCEPT ![p] = Len(log)]
      /\ UNCHANGED <<func, terminal, testTxt, fd, log, shown, alone, lastWriter, buffer, out>>
  BY DEF Files!Stat, Files!To, Files!Others
<1>2. FileTypes
  BY DEF FileInv
<1>3. OthersStay(p) /\ at'[p] \in {"done", "read"}
  BY <1>1, <1>2 DEF FileTypes, OthersStay
<1>4. FileTypes'
  <2>1. log # Files!Missing => Len(log) \in Nat
    BY <1>2 DEF FileTypes
  <2>2. at' \in [Openers -> {"start", "opened", "stat", "read", "done", "first", "second", "fprintf"}]
    BY <1>1, <1>2 DEF FileTypes
  <2>3. size' \in [Openers -> Nat]
    BY <1>1, <1>2, <2>1 DEF FileTypes
  <2> QED
    BY <1>1, <1>2, <2>2, <2>3 DEF FileTypes
<1>5. PlaceInv'
  BY <1>1, <1>3 DEF FileInv, PlaceInv, OthersStay
<1>6. TerminalInv' /\ TextInv' /\ OutInv'
  BY <1>1, <1>3, TerminalFrame, TextFrame, OutFrame
<1>7. ASSUME NEW q \in Openers PROVE LogOf(q)'
  <2>1. LogOf(q) /\ LogOf(p) /\ shown[p] = <<>> /\ Files!Parts(q)' = Files!Parts(q)
    BY <1>1 DEF FileInv, LogInv, LogOf, Files!Parts
  <2>2. CASE q # p
    <3>1. size'[q] = size[q]
      BY <1>1, <1>2, <2>2 DEF FileTypes
    <3> QED
      BY <1>1, <1>3, <2>1, <2>2, <3>1 DEF LogOf, OthersStay
  <2>3. CASE q = p
    <3>1. Len(shown[p]) <= size'[p]
      BY <1>4, <2>1 DEF FileTypes
    <3>2. fd[p] /\ alone[p] /\ at'[p] = "read" => log = <<p, p>> /\ size'[p] = 2
      <4>1. SUFFICES ASSUME fd[p], alone[p], at'[p] = "read" PROVE log = <<p, p>> /\ size'[p] = 2
        OBVIOUS
      <4>2. log = <<p, p>>
        BY <1>1, <2>1, <4>1 DEF LogOf
      <4>3. size'[p] = Len(log)
        BY <1>1, <1>2, <4>1 DEF FileTypes
      <4> QED
        BY <4>2, <4>3
    <3> QED
      BY <1>1, <1>3, <2>1, <2>3, <3>1, <3>2 DEF LogOf, OthersStay
  <2> QED
    BY <2>2, <2>3
<1> QED
  BY <1>4, <1>5, <1>6, <1>7 DEF FileInv, LogInv

LEMMA FileReadBack ==
  ASSUME FileInv, NEW p \in Openers, func[p] = "GetFileInfo", Files!ReadBack(p) PROVE FileInv'
<1> DEFINE n == IF Len(log) < size[p] THEN Len(log) ELSE size[p]
<1>1. /\ at[p] = "read" /\ at' = [at EXCEPT ![p] = "done"]
      /\ shown' = [shown EXCEPT ![p] = SubSeq(log, 1, n)] \/ UNCHANGED shown
      /\ UNCHANGED <<func, terminal, testTxt, fd, log, size, alone, lastWriter, buffer, out>>
  BY DEF Files!ReadBack, Files!To, Files!Others
<1>2. FileTypes
  BY DEF FileInv
<1>3. OthersStay(p) /\ at'[p] = "done"
  BY <1>1, <1>2 DEF FileTypes, OthersStay
<1>4. log \in Seq(Openers \cup {"missing"}) /\ Len(log) \in Nat /\ size[p] \in Nat
  <2>1. Files!Missing \in Seq(Openers \cup {"missing"})
    BY DEF Files!Missing
  <2>2. \A s \in Seq(Openers) : s \in Seq(Openers \cup {"missing"})
    OBVIOUS
  <2>3. log \in Seq(Openers \cup {"missing"})
    BY <1>2, <2>1, <2>2 DEF FileTypes
  <2> QED
    BY <1>2, <2>3 DEF FileTypes
<1>5. /\ SubSeq(log, 1, n) \in Seq(Openers \cup {"missing"})
      /\ Len(SubSeq(log, 1, n)) = n /\ n \in Nat /\ n <= size[p]
  <2>1. n \in 0 .. Len(log) /\ n <= size[p]
    BY <1>4
  <2> HIDE DEF n
  <2> QED
    BY <1>4, <2>1
<1>6. FileTypes'
  <2>1. at' \in [Openers -> {"start", "opened", "stat", "read", "done", "first", "second", "fprintf"}]
    BY <1>1, <1>2 DEF FileTypes
  <2>2. shown' \in [Openers -> Seq(Openers \cup {"missing"})]
    BY <1>1, <1>2, <1>5 DEF FileTypes
  <2> QED
    BY <1>1, <1>2, <2>1, <2>2 DEF FileTypes
<1>7. PlaceInv' /\ TerminalInv' /\ TextInv' /\ OutInv'
  BY <1>1, <1>3, PlaceFrame, TerminalFrame, TextFrame, OutFrame
<1>8. ASSUME NEW q \in Openers PROVE LogOf(q)'
  <2>1. LogOf(q) /\ LogOf(p) /\ shown[p] = <<>> /\ Files!Parts(q)' = Files!Parts(q)
    BY <1>1 DEF FileInv, LogInv, LogOf, Files!Parts
  <2>2. CASE q # p
    <3>1. shown'[q] = shown[q]
      BY <1>1, <1>2, <2>2 DEF FileTypes
    <3> QED
      BY <1>1, <1>3, <2>1, <2>2, <3>1 DEF LogOf, OthersStay
  <2>3. CASE q = p
    <3>1. shown'[p] = <<>> \/ shown'[p] = SubSeq(log, 1, n)
      BY <1>1, <1>2, <2>1 DEF FileTypes
    <3>2. Len(shown'[p]) <= size[p]
      BY <1>4, <1>5, <3>1
    <3>3. fd[p] /\ alone[p] => SubSeq(log, 1, n) = <<p, p>>
      <4>1. SUFFICES ASSUME fd[p], alone[p] PROVE SubSeq(log, 1, n) = <<p, p>>
        OBVIOUS
      <4>2. log = <<p, p>> /\ n = 2
        BY <1>1, <2>1, <4>1 DEF LogOf
      <4> HIDE DEF n
      <4>3. SubSeq(<<p, p>>, 1, 2) = <<p, p>>
        <5>1. <<p, p>> \in Seq(Openers) /\ Len(<<p, p>>) = 2
          OBVIOUS
        <5> QED
          BY <5>1, SubSeqFull
      <4> QED
        BY <4>2, <4>3
    <3> QED
      BY <1>1, <1>3, <2>1, <2>3, <3>1, <3>2, <3>3 DEF LogOf, OthersStay
  <2> QED
    BY <2>2, <2>3
<1> QED
  BY <1>6, <1>7, <1>8 DEF FileInv, LogInv

LEMMA OrderType == Files!Order \in Seq(Texts) /\ Len(Files!Order) = 5
<1>1. /\ "stdin" \in Texts /\ "stdout" \in Texts /\ "stderr" \in Texts /\ "ones" \in Texts
      /\ "message" \in Texts
  BY DEF Texts
<1>2. <<"stdin", "stdout", "stderr", "ones", "message">> \in Seq(Texts)
  BY <1>1
<1>3. Len(<<"stdin", "stdout", "stderr", "ones", "message">>) = 5
  OBVIOUS
<1> QED
  BY <1>2, <1>3 DEF Files!Order

LEMMA FilePrintf ==
  ASSUME FileInv, NEW p \in Openers, Files!Printf(p) PROVE FileInv'
<1>1. FileTypes /\ OutInv
  BY DEF FileInv
<1>2. PICK o \in Seq(Texts), b \in Seq(Texts) : o = out[p] /\ b = buffer[p]
  BY <1>1 DEF FileTypes
<1> DEFINE n == Len(o) + Len(b)
<1>3. Len(b \o o) = n /\ n \in Nat /\ Len(o) \in Nat /\ Len(b) \in Nat
  OBVIOUS
<1>4. /\ Len(o) + Len(b) <= 5
      /\ \A i \in 1 .. Len(o) : o[i] = Files!Order[i]
      /\ \A i \in 1 .. Len(b) : b[i] = Files!Order[Len(o) + i]
  BY <1>1, <1>2 DEF OutInv
<1> DEFINE new == Append(b, Files!Order[n + 1])
<1>5. /\ func[p] = "FILEandfd" /\ at[p] = "start" /\ n < 4
      /\ \/ buffer' = [buffer EXCEPT ![p] = new] /\ UNCHANGED out
         \/ out' = [out EXCEPT ![p] = o \o new] /\ buffer' = [buffer EXCEPT ![p] = <<>>]
      /\ UNCHANGED <<func, terminal, testTxt, at, fd, log, size, shown, alone, lastWriter>>
  BY <1>2, <1>3 DEF Files!Printf, Files!Others
<1>6. OthersStay(p) /\ at'[p] = "start"
  BY <1>5 DEF OthersStay
<1>7. Files!Order[n + 1] \in Texts
  <2>1. n + 1 \in 1 .. 5
    BY <1>3, <1>5
  <2>2. \A s \in Seq(Texts) : \A i \in 1 .. Len(s) : s[i] \in Texts
    OBVIOUS
  <2>3. \A i \in 1 .. 5 : Files!Order[i] \in Texts
    BY <2>2, OrderType
  <2> HIDE DEF n
  <2> QED
    BY <2>1, <2>3
<1>8. /\ new \in Seq(Texts) /\ Len(new) = Len(b) + 1 /\ new[Len(b) + 1] = Files!Order[n + 1]
      /\ \A i \in 1 .. Len(b) : new[i] = b[i]
  BY <1>7
<1> HIDE DEF new
<1>9. /\ o \o new \in Seq(Texts) /\ Len(o \o new) = n + 1
      /\ \A i \in 1 .. Len(o) : (o \o new)[i] = o[i]
      /\ \A i \in 1 .. Len(b) + 1 : (o \o new)[Len(o) + i] = new[i]
  BY <1>8, <1>3
<1>10. \A i \in 1 .. Len(b) + 1 : new[i] = Files!Order[Len(o) + i]
  <2> SUFFICES ASSUME NEW i \in 1 .. Len(b) + 1 PROVE new[i] = Files!Order[Len(o) + i]
    OBVIOUS
  <2>1. i \in 1 .. Len(b) \/ i = Len(b) + 1
    BY <1>3
  <2>2. CASE i = Len(b) + 1
    <3>1. Len(o) + i = n + 1
      BY <1>3, <2>2
    <3> QED
      BY <1>8, <2>2, <3>1
  <2>3. CASE i \in 1 .. Len(b)
    BY <1>4, <1>8, <2>3
  <2> QED
    BY <2>1, <2>2, <2>3
<1>11. \A i \in 1 .. n + 1 : (o \o new)[i] = Files!Order[i]
  <2> SUFFICES ASSUME NEW i \in 1 .. n + 1 PROVE (o \o new)[i] = Files!Order[i]
    OBVIOUS
  <2>1. CASE i \in 1 .. Len(o)
    BY <1>4, <1>9, <2>1
  <2>2. CASE i \notin 1 .. Len(o)
    <3>1. PICK j \in 1 .. Len(b) + 1 : i = Len(o) + j
      <4>1. i - Len(o) \in 1 .. Len(b) + 1 /\ i = Len(o) + (i - Len(o))
        BY <1>3, <2>2
      <4> QED
        BY <4>1
    <3> QED
      BY <1>9, <1>10, <3>1
  <2> QED
    BY <2>1, <2>2
<1>12. FileTypes'
  <2>1. buffer \in [Openers -> Seq(Texts)] /\ out \in [Openers -> Seq(Texts)] /\ <<>> \in Seq(Texts)
    BY <1>1 DEF FileTypes
  <2>2. buffer' = [buffer EXCEPT ![p] = new] \/ buffer' = [buffer EXCEPT ![p] = <<>>]
    BY <1>5
  <2>3. out' = out \/ out' = [out EXCEPT ![p] = o \o new]
    BY <1>5
  <2>4. buffer' \in [Openers -> Seq(Texts)] /\ out' \in [Openers -> Seq(Texts)]
    BY <1>8, <1>9, <2>1, <2>2, <2>3
  <2> QED
    BY <1>1, <1>5, <2>4 DEF FileTypes
<1>13. PlaceInv' /\ TerminalInv' /\ TextInv' /\ LogInv'
  BY <1>5, <1>6, PlaceFrame, TerminalFrame, TextFrame, LogFrame
<1>14. OutInv'
  <2> SUFFICES ASSUME NEW q \in Openers
               PROVE  /\ Len(out'[q]) + Len(buffer'[q]) <= 5
                      /\ at'[q] = "start" => Len(out'[q]) + Len(buffer'[q]) <= 4
                      /\ \A i \in 1 .. Len(out'[q]) : out'[q][i] = Files!Order[i]
                      /\ \A i \in 1 .. Len(buffer'[q]) : buffer'[q][i] = Files!Order[Len(out'[q]) + i]
    BY DEF OutInv
  <2>1. CASE q # p
    <3>1. out'[q] = out[q] /\ buffer'[q] = buffer[q] /\ at'[q] = at[q]
      BY <1>1, <1>5, <2>1 DEF FileTypes
    <3> QED
      BY <1>1, <3>1 DEF OutInv
  <2>2. CASE q = p /\ buffer'[p] = new /\ out'[p] = o
    BY <1>3, <1>4, <1>5, <1>8, <1>10, <2>2
  <2>3. CASE q = p /\ buffer'[p] = <<>> /\ out'[p] = o \o new
    BY <1>3, <1>5, <1>9, <1>11, <2>3
  <2> QED
    BY <1>1, <1>2, <1>5, <2>1, <2>2, <2>3 DEF FileTypes
<1> QED
  BY <1>12, <1>13, <1>14 DEF FileInv

LEMMA FileFlushAndWrite ==
  ASSUME FileInv, NEW p \in Openers, Files!FlushAndWrite(p) PROVE FileInv'
<1>1. FileTypes /\ OutInv
  BY DEF FileInv
<1>2. PICK o \in Seq(Texts), b \in Seq(Texts) : o = out[p] /\ b = buffer[p]
  BY <1>1 DEF FileTypes
<1>3. Len(b \o o) = Len(o) + Len(b) /\ Len(o) \in Nat /\ Len(b) \in Nat
  OBVIOUS
<1>4. /\ \A i \in 1 .. Len(o) : o[i] = Files!Order[i]
      /\ \A i \in 1 .. Len(b) : b[i] = Files!Order[Len(o) + i]
  BY <1>1, <1>2 DEF OutInv
<1> DEFINE all == Append(o \o b, "message")
<1>5. /\ func[p] = "FILEandfd" /\ at[p] = "start" /\ at' = [at EXCEPT ![p] = "done"]
      /\ Len(o) + Len(b) = 4
      /\ out' = [out EXCEPT ![p] = all] /\ buffer' = [buffer EXCEPT ![p] = <<>>]
      /\ UNCHANGED <<func, terminal, testTxt, fd, log, size, shown, alone, lastWriter>>
  BY <1>2, <1>3 DEF Files!FlushAndWrite, Files!Others, Files!To
<1>6. OthersStay(p) /\ at'[p] = "done"
  BY <1>1, <1>5 DEF OthersStay, FileTypes
<1>7. /\ o \o b \in Seq(Texts) /\ Len(o \o b) = 4
      /\ \A i \in 1 .. Len(o) : (o \o b)[i] = o[i]
      /\ \A i \in 1 .. Len(b) : (o \o b)[Len(o) + i] = b[i]
  BY <1>3, <1>5
<1>8. \A i \in 1 .. 4 : (o \o b)[i] = Files!Order[i]
  <2> SUFFICES ASSUME NEW i \in 1 .. 4 PROVE (o \o b)[i] = Files!Order[i]
    OBVIOUS
  <2>1. CASE i \in 1 .. Len(o)
    BY <1>4, <1>7, <2>1
  <2>2. CASE i \notin 1 .. Len(o)
    <3>1. PICK j \in 1 .. Len(b) : i = Len(o) + j
      <4>1. i - Len(o) \in 1 .. Len(b) /\ i = Len(o) + (i - Len(o))
        BY <1>3, <1>5, <2>2
      <4> QED
        BY <4>1
    <3> QED
      BY <1>4, <1>7, <3>1
  <2> QED
    BY <2>1, <2>2
<1>9. all \in Seq(Texts) /\ Len(all) = 5 /\ \A i \in 1 .. 5 : all[i] = Files!Order[i]
  <2>1. /\ all \in Seq(Texts) /\ Len(all) = 5 /\ all[5] = "message"
        /\ \A i \in 1 .. 4 : all[i] = (o \o b)[i]
    <3>1. PICK s \in Seq(Texts) : s = o \o b /\ Len(s) = 4
      BY <1>7
    <3>2. "message" \in Texts
      BY DEF Texts
    <3>3. /\ Append(s, "message") \in Seq(Texts) /\ Len(Append(s, "message")) = 5
          /\ Append(s, "message")[5] = "message" /\ \A i \in 1 .. 4 : Append(s, "message")[i] = s[i]
      BY <3>1, <3>2
    <3> QED
      BY <3>1, <3>3
  <2>2. Files!Order[5] = "message" /\ \A i \in 1 .. 5 : i \in 1 .. 4 \/ i = 5
    BY DEF Files!Order
  <2> HIDE DEF all
  <2> QED
    BY <1>8, <2>1, <2>2
<1> HIDE DEF all
<1>10. FileTypes'
  <2>1. buffer' \in [Openers -> Seq(Texts)] /\ out' \in [Openers -> Seq(Texts)]
    BY <1>1, <1>5, <1>9 DEF FileTypes
  <2>2. at' \in [Openers -> {"start", "opened", "stat", "read", "done", "first", "second", "fprintf"}]
    BY <1>1, <1>5 DEF FileTypes
  <2> QED
    BY <1>1, <1>5, <2>1, <2>2 DEF FileTypes
<1>11. PlaceInv' /\ TerminalInv' /\ TextInv' /\ LogInv'
  BY <1>5, <1>6, PlaceFrame, TerminalFrame, TextFrame, LogFrame
<1>12. OutInv'
  <2> SUFFICES ASSUME NEW q \in Openers
               PROVE  /\ Len(out'[q]) + Len(buffer'[q]) <= 5
                      /\ at'[q] = "start" => Len(out'[q]) + Len(buffer'[q]) <= 4
                      /\ \A i \in 1 .. Len(out'[q]) : out'[q][i] = Files!Order[i]
                      /\ \A i \in 1 .. Len(buffer'[q]) : buffer'[q][i] = Files!Order[Len(out'[q]) + i]
    BY DEF OutInv
  <2>1. CASE q # p
    <3>1. out'[q] = out[q] /\ buffer'[q] = buffer[q] /\ at'[q] = at[q]
      BY <1>1, <1>5, <2>1 DEF FileTypes
    <3> QED
      BY <1>1, <3>1 DEF OutInv
  <2>2. CASE q = p
    <3>1. out'[p] = all /\ buffer'[p] = <<>>
      BY <1>1, <1>5 DEF FileTypes
    <3>2. Len(out'[q]) = 5 /\ Len(buffer'[q]) = 0 /\ at'[q] = "done"
      BY <1>6, <1>9, <2>2, <3>1
    <3>3. \A i \in 1 .. Len(out'[q]) : out'[q][i] = Files!Order[i]
      BY <1>9, <2>2, <3>1, <3>2
    <3> QED
      BY <3>2, <3>3
  <2> QED
    BY <2>1, <2>2
<1> QED
  BY <1>10, <1>11, <1>12 DEF FileInv

LEMMA FileDup2 ==
  ASSUME FileInv, NEW p \in Openers, Files!Dup2(p) PROVE FileInv'
<1>1. /\ func[p] = "Redirect" /\ at[p] = "start"
      /\ \/ at' = [at EXCEPT ![p] = "first"] /\ fd' = [fd EXCEPT ![p] = TRUE]
         \/ at' = [at EXCEPT ![p] = "done"] /\ UNCHANGED fd
      /\ UNCHANGED <<func, terminal, testTxt, log, size, shown, alone, lastWriter, buffer, out>>
  BY DEF Files!Dup2, Files!To, Files!Others, Files!LogVars
<1>2. FileTypes /\ ~fd[p]
  BY <1>1 DEF FileInv, PlaceInv
<1>3. OthersStay(p) /\ ((at'[p] = "first" /\ fd'[p]) \/ (at'[p] = "done" /\ ~fd'[p]))
  <2>1. CASE at' = [at EXCEPT ![p] = "first"] /\ fd' = [fd EXCEPT ![p] = TRUE]
    <3>1. at'[p] = "first" /\ \A q \in Openers : q # p => at'[q] = at[q]
      BY <1>2, <2>1 DEF FileTypes
    <3>2. fd'[p] /\ \A q \in Openers : q # p => fd'[q] = fd[q]
      BY <1>2, <2>1 DEF FileTypes
    <3> QED
      BY <1>1, <3>1, <3>2 DEF OthersStay
  <2>2. CASE at' = [at EXCEPT ![p] = "done"] /\ UNCHANGED fd
    <3>1. at'[p] = "done" /\ \A q \in Openers : q # p => at'[q] = at[q]
      BY <1>2, <2>2 DEF FileTypes
    <3> QED
      BY <1>1, <1>2, <2>2, <3>1 DEF OthersStay
  <2> QED
    BY <1>1, <2>1, <2>2
<1>4. FileTypes'
  BY <1>1, <1>2 DEF FileTypes
<1>5. PlaceInv'
  BY <1>1, <1>3 DEF FileInv, PlaceInv, OthersStay
<1>6. TerminalInv' /\ TextInv' /\ LogInv' /\ OutInv'
  BY <1>1, <1>3, TerminalFrame, TextFrame, LogFrame, OutFrame
<1> QED
  BY <1>4, <1>5, <1>6 DEF FileInv

(* A line on terminal t counts for its program and nobody else.            *)
LEMMA LineAppears ==
  ASSUME FileTypes, NEW p \in Openers, NEW t \in {"pts/1", "pts/2"},
         terminal' = [terminal EXCEPT ![t] = Append(@, p)]
  PROVE  /\ \A q \in Openers : Files!Lines(t, q)' = Files!Lines(t, q) + (IF q = p THEN 1 ELSE 0)
         /\ \A q \in Openers, u \in {"pts/1", "pts/2"} : u # t => Files!Lines(u, q)' = Files!Lines(u, q)
         /\ terminal' \in [{"pts/1", "pts/2"} -> Seq(Openers)]
<1>1. PICK s \in Seq(Openers) : s = terminal[t]
  BY DEF FileTypes
<1>2. Append(s, p) \in Seq(Openers)
  OBVIOUS
<1>3. /\ terminal' \in [{"pts/1", "pts/2"} -> Seq(Openers)]
      /\ terminal'[t] = Append(s, p) /\ \A u \in {"pts/1", "pts/2"} : u # t => terminal'[u] = terminal[u]
  BY <1>1, <1>2 DEF FileTypes
<1>4. \A S : Files!Cardinality(S) = Cardinality(S)
  BY DEF Files!Cardinality, Cardinality
<1>5. ASSUME NEW q \in Openers
      PROVE  Files!Lines(t, q)' = Files!Lines(t, q) + (IF q = p THEN 1 ELSE 0)
  <2>1. Files!Lines(t, q)' = Cardinality({i \in DOMAIN Append(s, p) : Append(s, p)[i] = q})
    BY <1>3, <1>4 DEF Files!Lines
  <2>2. Files!Lines(t, q) = Cardinality({i \in DOMAIN s : s[i] = q})
    BY <1>1, <1>4 DEF Files!Lines
  <2> QED
    BY <2>1, <2>2, LinesOne
<1>6. ASSUME NEW q \in Openers, NEW u \in {"pts/1", "pts/2"}, u # t
      PROVE  Files!Lines(u, q)' = Files!Lines(u, q)
  BY <1>3, <1>6 DEF Files!Lines
<1> QED
  BY <1>3, <1>5, <1>6

LEMMA FileHelloWorld ==
  ASSUME FileInv, NEW p \in Openers, func[p] = "Redirect", Files!HelloWorld(p) PROVE FileInv'
<1> DEFINE w == IF at[p] = "first" THEN "second" ELSE "done"
<1>1. /\ at[p] \in {"first", "second"} /\ at' = [at EXCEPT ![p] = w]
      /\ terminal' = [terminal EXCEPT !["pts/2"] = Append(@, p)]
      /\ UNCHANGED <<func, fd, testTxt, log, size, shown, alone, lastWriter, buffer, out>>
  BY DEF Files!HelloWorld, Files!To, Files!LogVars
<1>2. FileTypes /\ fd[p]
  BY <1>1 DEF FileInv, PlaceInv
<1>3. OthersStay(p) /\ at'[p] = w
  BY <1>1, <1>2 DEF FileTypes, OthersStay
<1>4. /\ \A q \in Openers : Files!Lines("pts/2", q)' = Files!Lines("pts/2", q) + (IF q = p THEN 1 ELSE 0)
      /\ \A q \in Openers : Files!Lines("pts/1", q)' = Files!Lines("pts/1", q)
      /\ terminal' \in [{"pts/1", "pts/2"} -> Seq(Openers)]
  BY <1>1, <1>2, LineAppears
<1>5. FileTypes'
  <2>1. at' \in [Openers -> {"start", "opened", "stat", "read", "done", "first", "second", "fprintf"}]
    BY <1>1, <1>2 DEF FileTypes
  <2> QED
    BY <1>1, <1>2, <1>4, <2>1 DEF FileTypes
<1>6. PlaceInv'
  BY <1>1, <1>2, <1>3 DEF FileInv, PlaceInv, OthersStay
<1>7. TextInv' /\ LogInv' /\ OutInv'
  BY <1>1, <1>3, TextFrame, LogFrame, OutFrame
<1>8. TerminalInv'
  <2> SUFFICES ASSUME NEW q \in Openers
               PROVE  /\ Files!Lines("pts/2", q)' =
                            CASE at'[q] = "second" -> 1
                              [] at'[q] = "done" /\ fd'[q] /\ func'[q] = "Redirect" -> 2
                              [] OTHER -> 0
                      /\ Files!Lines("pts/1", q)' =
                            IF at'[q] = "done" /\ fd'[q] /\ func'[q] = "printForOtherTerminal" THEN 1 ELSE 0
    BY DEF TerminalInv
  <2>1. /\ Files!Lines("pts/2", q) =
              CASE at[q] = "second" -> 1
                [] at[q] = "done" /\ fd[q] /\ func[q] = "Redirect" -> 2
                [] OTHER -> 0
        /\ Files!Lines("pts/1", q) =
              IF at[q] = "done" /\ fd[q] /\ func[q] = "printForOtherTerminal" THEN 1 ELSE 0
    BY DEF FileInv, TerminalInv
  <2>2. CASE q # p
    <3>1. Files!Lines("pts/2", q)' = Files!Lines("pts/2", q)
      BY <1>4, <2>1, <2>2
    <3> QED
      BY <1>3, <1>4, <2>1, <2>2, <3>1 DEF OthersStay
  <2>3. CASE q = p /\ at[p] = "first"
    BY <1>1, <1>2, <1>3, <1>4, <2>1, <2>3
  <2>4. CASE q = p /\ at[p] = "second"
    BY <1>1, <1>2, <1>3, <1>4, <2>1, <2>4
  <2> QED
    BY <1>1, <2>2, <2>3, <2>4
<1> QED
  BY <1>5, <1>6, <1>7, <1>8 DEF FileInv

LEMMA FilePrintForOtherTerminal ==
  ASSUME FileInv, NEW p \in Openers, Files!printForOtherTerminal(p) PROVE FileInv'
<1>1. /\ func[p] = "printForOtherTerminal" /\ at[p] = "start" /\ at' = [at EXCEPT ![p] = "done"]
      /\ \/ /\ fd' = [fd EXCEPT ![p] = TRUE]
            /\ terminal' = [terminal EXCEPT !["pts/1"] = Append(@, p)]
         \/ UNCHANGED <<fd, terminal>>
      /\ UNCHANGED <<func, testTxt, log, size, shown, alone, lastWriter, buffer, out>>
  BY DEF Files!printForOtherTerminal, Files!To, Files!LogVars
<1>2. FileTypes /\ ~fd[p]
  BY <1>1 DEF FileInv, PlaceInv
<1>3. OthersStay(p) /\ at'[p] = "done"
  BY <1>1, <1>2 DEF FileTypes, OthersStay
<1>4. CASE UNCHANGED <<fd, terminal>>
  <2>1. FileTypes'
    BY <1>1, <1>2, <1>4 DEF FileTypes
  <2>2. PlaceInv' /\ TerminalInv' /\ TextInv' /\ LogInv' /\ OutInv'
    BY <1>1, <1>2, <1>3, <1>4, PlaceFrame, TerminalFrame, TextFrame, LogFrame, OutFrame
  <2> QED
    BY <2>1, <2>2 DEF FileInv
<1>5. CASE fd' = [fd EXCEPT ![p] = TRUE] /\ terminal' = [terminal EXCEPT !["pts/1"] = Append(@, p)]
  <2>1. /\ \A q \in Openers : Files!Lines("pts/1", q)' = Files!Lines("pts/1", q) + (IF q = p THEN 1 ELSE 0)
        /\ \A q \in Openers : Files!Lines("pts/2", q)' = Files!Lines("pts/2", q)
        /\ terminal' \in [{"pts/1", "pts/2"} -> Seq(Openers)]
    BY <1>2, <1>5, LineAppears
  <2>2. FileTypes' /\ fd'[p]
    BY <1>1, <1>2, <1>5, <2>1 DEF FileTypes
  <2>3. PlaceInv' /\ TextInv' /\ LogInv' /\ OutInv'
    BY <1>1, <1>3, PlaceFrame, TextFrame, LogFrame, OutFrame
  <2>4. TerminalInv'
    <3> SUFFICES ASSUME NEW q \in Openers
                 PROVE  /\ Files!Lines("pts/2", q)' =
                              CASE at'[q] = "second" -> 1
                                [] at'[q] = "done" /\ fd'[q] /\ func'[q] = "Redirect" -> 2
                                [] OTHER -> 0
                        /\ Files!Lines("pts/1", q)' =
                              IF at'[q] = "done" /\ fd'[q] /\ func'[q] = "printForOtherTerminal" THEN 1 ELSE 0
      BY DEF TerminalInv
    <3>1. /\ Files!Lines("pts/2", q) =
                CASE at[q] = "second" -> 1
                  [] at[q] = "done" /\ fd[q] /\ func[q] = "Redirect" -> 2
                  [] OTHER -> 0
          /\ Files!Lines("pts/1", q) =
                IF at[q] = "done" /\ fd[q] /\ func[q] = "printForOtherTerminal" THEN 1 ELSE 0
      BY DEF FileInv, TerminalInv
    <3>2. CASE q # p
      <4>1. Files!Lines("pts/1", q)' = Files!Lines("pts/1", q)
        BY <2>1, <3>1, <3>2
      <4> QED
        BY <1>3, <2>1, <3>1, <3>2, <4>1 DEF OthersStay
    <3>3. CASE q = p
      BY <1>1, <1>3, <2>1, <2>2, <3>1, <3>3
    <3> QED
      BY <3>2, <3>3
  <2> QED
    BY <2>2, <2>3, <2>4 DEF FileInv
<1> QED
  BY <1>1, <1>4, <1>5

LEMMA FileFopen ==
  ASSUME FileInv, NEW p \in Openers, Files!Fopen(p) PROVE FileInv'
<1>1. /\ func[p] = "testCfileFunc" /\ at[p] = "start"
      /\ \/ at' = [at EXCEPT ![p] = "fprintf"] /\ fd' = [fd EXCEPT ![p] = TRUE]
         \/ at' = [at EXCEPT ![p] = "done"] /\ UNCHANGED <<fd, testTxt>>
      /\ UNCHANGED <<func, terminal, log, size, shown, alone, lastWriter, buffer, out>>
  BY DEF Files!Fopen, Files!To, Files!LogVars
<1>2. FileTypes /\ ~fd[p]
  BY <1>1 DEF FileInv, PlaceInv
<1>3. OthersStay(p) /\ ((at'[p] = "fprintf" /\ fd'[p]) \/ (at'[p] = "done" /\ fd' = fd /\ testTxt' = testTxt))
  <2>1. CASE at' = [at EXCEPT ![p] = "fprintf"] /\ fd' = [fd EXCEPT ![p] = TRUE]
    <3>1. at'[p] = "fprintf" /\ \A q \in Openers : q # p => at'[q] = at[q]
      BY <1>2, <2>1 DEF FileTypes
    <3>2. fd'[p] /\ \A q \in Openers : q # p => fd'[q] = fd[q]
      BY <1>2, <2>1 DEF FileTypes
    <3> QED
      BY <1>1, <3>1, <3>2 DEF OthersStay
  <2>2. CASE at' = [at EXCEPT ![p] = "done"] /\ UNCHANGED <<fd, testTxt>>
    BY <1>1, <1>2, <2>2 DEF FileTypes, OthersStay
  <2> QED
    BY <1>1, <2>1, <2>2
<1>4. FileTypes'
  BY <1>1, <1>2 DEF FileTypes
<1>5. PlaceInv'
  BY <1>1, <1>3 DEF FileInv, PlaceInv, OthersStay
<1>6. TerminalInv' /\ LogInv' /\ OutInv'
  BY <1>1, <1>3, TerminalFrame, LogFrame, OutFrame
<1>7. TextInv'
  <2>1. CASE at'[p] = "fprintf"
    BY <2>1 DEF TextInv
  <2>2. CASE at'[p] = "done" /\ fd' = fd /\ testTxt' = testTxt
    <3>1. (\A q \in Openers : at'[q] # "fprintf") => \A q \in Openers : at[q] # "fprintf"
      BY <1>1, <1>3 DEF OthersStay
    <3> QED
      BY <1>1, <2>2, <3>1 DEF FileInv, TextInv
  <2> QED
    BY <1>3, <2>1, <2>2
<1> QED
  BY <1>4, <1>5, <1>6, <1>7 DEF FileInv

LEMMA FileFclose ==
  ASSUME FileInv, NEW p \in Openers, Files!Fclose(p) PROVE FileInv'
<1>1. /\ at[p] = "fprintf" /\ at' = [at EXCEPT ![p] = "done"] /\ testTxt' = "text"
      /\ UNCHANGED <<func, fd, terminal, log, size, shown, alone, lastWriter, buffer, out>>
  BY DEF Files!Fclose, Files!To, Files!LogVars
<1>2. FileTypes /\ fd[p] /\ func[p] = "testCfileFunc"
  BY <1>1 DEF FileInv, PlaceInv
<1>3. OthersStay(p) /\ at'[p] = "done"
  BY <1>1, <1>2 DEF FileTypes, OthersStay
<1>4. FileTypes'
  BY <1>1, <1>2 DEF FileTypes
<1>5. PlaceInv' /\ TerminalInv' /\ LogInv' /\ OutInv'
  BY <1>1, <1>2, <1>3, PlaceFrame, TerminalFrame, LogFrame, OutFrame
<1>6. TextInv'
  BY <1>1, <1>2 DEF TextInv
<1> QED
  BY <1>4, <1>5, <1>6 DEF FileInv

LEMMA FileNext == FileInv /\ Files!Next => FileInv'
<1> SUFFICES ASSUME FileInv, Files!Next PROVE FileInv'
  OBVIOUS
<1>1. PICK p \in Openers :
        \/ Files!GetFileInfo(p) \/ Files!systemCallFunc(p) \/ Files!FILEandfd(p)
        \/ Files!Redirect(p) \/ Files!printForOtherTerminal(p) \/ Files!testCfileFunc(p)
  BY DEF Files!Next
<1>2. CASE Files!GetFileInfo(p) \/ Files!systemCallFunc(p)
  BY <1>2, FileOpen, FileWrite, FileStat, FileReadBack DEF Files!GetFileInfo, Files!systemCallFunc
<1>3. CASE Files!FILEandfd(p)
  BY <1>3, FilePrintf, FileFlushAndWrite DEF Files!FILEandfd
<1>4. CASE Files!Redirect(p)
  <2>1. CASE Files!HelloWorld(p)
    <3>1. func[p] = "Redirect"
      BY <2>1 DEF Files!HelloWorld, FileInv, PlaceInv
    <3> QED
      BY <2>1, <3>1, FileHelloWorld
  <2> QED
    BY <1>4, <2>1, FileDup2 DEF Files!Redirect
<1>5. CASE Files!printForOtherTerminal(p) \/ Files!testCfileFunc(p)
  BY <1>5, FilePrintForOtherTerminal, FileFopen, FileFclose DEF Files!testCfileFunc
<1> QED
  BY <1>1, <1>2, <1>3, <1>4, <1>5

LEMMA FileSame == FileInv /\ UNCHANGED fileVars => FileInv'
<1> SUFFICES ASSUME FileInv, UNCHANGED fileVars PROVE FileInv'
  OBVIOUS
<1>1. /\ func' = func /\ at' = at /\ fd' = fd /\ log' = log /\ size' = size /\ shown' = shown
      /\ alone' = alone /\ lastWriter' = lastWriter /\ buffer' = buffer /\ out' = out
      /\ terminal' = terminal /\ testTxt' = testTxt
  BY DEF fileVars
<1>2. FileTypes'
  BY <1>1 DEF FileInv, FileTypes
<1>3. PlaceInv' /\ TextInv' /\ OutInv'
  BY <1>1 DEF FileInv, PlaceInv, TextInv, OutInv
<1>4. TerminalInv'
  BY <1>1 DEF FileInv, TerminalInv, Files!Lines
<1>5. LogInv'
  BY <1>1 DEF FileInv, LogInv, LogOf, Files!Parts
<1> QED
  BY <1>2, <1>3, <1>4, <1>5 DEF FileInv

LEMMA FileRight == FileInv => Files!FilesRight
<1> SUFFICES ASSUME FileInv PROVE Files!FilesRight
  OBVIOUS
<1>1. \A p \in Openers : at[p] = "done" =>
        /\ Files!Lines("pts/2", p) = IF fd[p] /\ func[p] = "Redirect" THEN 2 ELSE 0
        /\ Files!Lines("pts/1", p) = IF fd[p] /\ func[p] = "printForOtherTerminal" THEN 1 ELSE 0
  BY DEF FileInv, TerminalInv
<1>2. (\A p \in Openers : at[p] # "fprintf") =>
        (testTxt = "text" <=> \E p \in Openers : func[p] = "testCfileFunc" /\ fd[p])
  BY DEF FileInv, TextInv
<1>3. ASSUME NEW p \in Openers
      PROVE  /\ shown[p] # <<>> /\ fd[p] /\ alone[p] => shown[p] = <<p, p>>
             /\ Len(shown[p]) <= size[p]
             /\ lastWriter = p /\ log \notin {<<>>, Files!Missing} => \A i \in 1 .. Files!Parts(p) : log[i] = p
  BY DEF FileInv, LogInv, LogOf
<1>4. ASSUME NEW p \in Openers PROVE out[p] = SubSeq(Files!Order, 1, Len(out[p]))
  <2>1. PICK o \in Seq(Texts) : o = out[p]
    BY DEF FileInv, FileTypes
  <2>2. Len(o) \in Nat /\ Len(o) <= 5 /\ \A i \in 1 .. Len(o) : o[i] = Files!Order[i]
    <3>1. Len(o) + Len(buffer[p]) <= 5 /\ Len(buffer[p]) \in Nat /\ Len(o) \in Nat
      BY <2>1 DEF FileInv, FileTypes, OutInv
    <3>2. Len(o) <= 5
      BY <3>1
    <3> QED
      BY <2>1, <3>1, <3>2 DEF FileInv, OutInv
  <2>3. Files!Order \in Seq(Texts) /\ Len(Files!Order) = 5
    BY OrderType
  <2> DEFINE e == SubSeq(Files!Order, 1, Len(o))
  <2>4. e \in Seq(Texts) /\ Len(e) = Len(o) /\ \A i \in 1 .. Len(o) : e[i] = Files!Order[i]
    BY <2>2, <2>3
  <2> HIDE DEF e
  <2>5. e = o
    BY <2>2, <2>4, SeqEqual
  <2> QED
    BY <2>1, <2>5 DEF e
<1> QED
  BY <1>1, <1>2, <1>3, <1>4 DEF Files!FilesRight
-----------------------------------------------------------------------------
(* The programs together; one of them is in a behaviour.                   *)
DemosInv == SigInv /\ ForkInv /\ FileInv

LEMMA DemosNext == DemosInv /\ [ProcessesNext]_processesVars => DemosInv'
<1> SUFFICES ASSUME DemosInv, [ProcessesNext]_processesVars PROVE DemosInv'
  OBVIOUS
<1> USE DEF DemosInv
<1>1. SigInv'
  <2>1. Signals!Next \/ UNCHANGED signalVars
    BY DEF ProcessesNext, InSigChld, InSignals, InForks, InFiles, processesVars
  <2> QED
    BY <2>1, SigNext, SigSame
<1>2. ForkInv'
  <2>1. Forks!Next \/ UNCHANGED forkVars
    BY DEF ProcessesNext, InSigChld, InSignals, InForks, InFiles, processesVars
  <2> QED
    BY <2>1, ForkFather, ForkChild, ForkSame DEF Forks!Next
<1>3. FileInv'
  <2>1. Files!Next \/ UNCHANGED fileVars
    BY DEF ProcessesNext, InSigChld, InSignals, InForks, InFiles, processesVars
  <2> QED
    BY <2>1, FileNext, FileSame
<1> QED
  BY <1>1, <1>2, <1>3

(* The accounts of the demonstrations of signals, children and files hold  *)
(* for any number of signals, exit codes and programs.                     *)
THEOREM DemosInvariant == ProcessesSpec => []DemosInv
<1>1. ProcessesInit => DemosInv
  BY SigInit, ForkInit, FileInit DEF ProcessesInit, DemosInv
<1> QED
  BY <1>1, DemosNext, PTL DEF ProcessesSpec

(* getPending, testsigAction, testRaise, testAlarm: a signal waits for its *)
(* handler, a blocked one is not delivered, the alarm is taken back in time *)
(* or went off.                                                            *)
THEOREM SignalsKeptHolds == ProcessesSpec => []SignalsKept
<1>1. DemosInv => SignalsKept
  BY SigRight DEF DemosInv, SignalsKept
<1> QED
  BY <1>1, DemosInvariant, PTL

(* What a father tells of its child and what a program reads back from a   *)
(* file or puts on another terminal is what there was.                     *)
THEOREM ToldRightHolds == ProcessesSpec => []ToldRight
<1>1. DemosInv => ToldRight
  BY ForkRight, FileRight DEF DemosInv, ToldRight
<1> QED
  BY <1>1, DemosInvariant, PTL
=============================================================================
