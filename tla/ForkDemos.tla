----------------------------- MODULE ForkDemos ------------------------------
(* The programs of OSCode in which a father has one child: the shell of    *)
(* 10.myShell, which runs one command, such as 7.ExitCode; the programs    *)
(* that wait for a child and tell how it ended (8.WaitProcess,             *)
(* 9.TestExecFunc, testCore of 17.sig), and those that do not wait         *)
(* (1.ProcessTest1, 3.ProcessState, 6.addSpace).                           *)
EXTENDS Integers

CONSTANTS Codes, Errnos    \* exit codes of commands; errno after a failed exec

Waiting == {"shell", "WaitNoHang", "testWait", "exec", "testCore"}
Loose == {"test_childProcess", "test_Zombie", "addSpace"}

VARIABLES
  demo,
  father,     \* where the father is: "start", "running", "fork", "parent", "over"
  child,      \* "none", "start", "image", "zombie", "reaped" or "orphan"
  status,     \* how the child ended, as waitpid tells it
  report,     \* what the father says of it
  line,       \* what the user of the shell has typed
  code,       \* the exit code of the father
  gval        \* of addSpace, in each process

forkVars == <<demo, father, child, status, report, line, code, gval>>

None == -1
Init ==
  /\ demo \in Waiting \cup Loose /\ father = "start" /\ child = "none"
  /\ status = None /\ report = <<>> /\ line = "none" /\ code = None
  /\ gval = [p \in {"father", "child"} |-> 100]

Ends(value) == father' = "over" /\ code' = value

(* The status word: the exit code above a byte that has the signal and the *)
(* bit of the core dump.                                                   *)
Exited(value) == value * 256
Killed(sig, core) == sig + 128 * core
WEXITSTATUS(s) == (s \div 256) % 256
WTERMSIG(s) == s % 128
WIFEXITED(s) == WTERMSIG(s) = 0
SIGKILL == 9
SIGFPE == 8
SIGSEGV == 11
-----------------------------------------------------------------------------
(* A line that is empty, or the end of the input, ends the shell; so does  *)
(* a last line of one character, which loses it for want of a newline. A   *)
(* blank line is a command without a name.                                 *)
GetUserCommand ==
  /\ demo = "shell" /\ father = "start"
  /\ line' \in {"none", "empty", "blank", "command"}
  /\ IF line' \in {"none", "empty"} THEN Ends(1) ELSE father' = "fork" /\ UNCHANGED code
  /\ UNCHANGED <<demo, child, status, report, gval>>

(* fork. When it fails, the shell exits, the others return, or wait for a  *)
(* child that is not there.                                                *)
Fork ==
  /\ father = IF demo = "shell" THEN "fork" ELSE "start"
  /\ \/ father' = "parent" /\ child' = "start" /\ UNCHANGED code
     \/ /\ UNCHANGED child
        /\ CASE demo = "shell" -> Ends(1)
             [] demo \in {"exec", "testCore"} -> father' = "parent" /\ UNCHANGED code
             [] OTHER -> Ends(0)
  /\ UNCHANGED <<demo, status, report, line, gval>>
-----------------------------------------------------------------------------
ChildEnds(s) ==
  /\ status' = s /\ child' = IF father = "over" THEN "orphan" ELSE "zombie"
  /\ UNCHANGED <<demo, father, report, line, code, gval>>

(* execvp, in the shell: it fails, with errno for an exit code, or puts    *)
(* another program in the place of this one. Without a name to execute the *)
(* child crashes, or fails.                                                *)
ExecuteComm ==
  /\ demo = "shell" /\ child = "start"
  /\ \/ line = "command" /\ child' = "image"
        /\ UNCHANGED <<demo, father, status, report, line, code, gval>>
     \/ \E e \in Errnos : ChildEnds(Exited(e))
     \/ line = "blank" /\ ChildEnds(Killed(SIGSEGV, 0))

(* execve in testExec.c. *)
Execve ==
  /\ demo = "exec" /\ child = "start"
  /\ \/ child' = "image" /\ UNCHANGED <<demo, father, status, report, line, code, gval>>
     \/ ChildEnds(Exited(123))
CommandEnds == child = "image" /\ \E c \in Codes : ChildEnds(Exited(c))

(* One command of our own: 7.ExitCode divides by 2 and by 0 and exits with *)
(* exit_code, which a division that succeeds does not reset.               *)
Div(y, exit_code) == IF y = 0 THEN 1 ELSE exit_code
testDivZero == Div(0, Div(2, 0))
ExitCodeEnds == demo = "shell" /\ child = "image" /\ ChildEnds(Exited(testDivZero))

(* The other children: they exit, return, divide by zero, or change their  *)
(* own copy of gval.                                                       *)
WaitNoHangChild == demo = "WaitNoHang" /\ child = "start" /\ ChildEnds(Exited(1))
testWaitChild == demo = "testWait" /\ child = "start" /\ ChildEnds(Exited(111))
Sum == demo = "testCore" /\ child = "start" /\ \E core \in {0, 1} : ChildEnds(Killed(SIGFPE, core))
test_ZombieChild == demo = "test_Zombie" /\ child = "start" /\ ChildEnds(Exited(0))
test_childProcessChild == demo = "test_childProcess" /\ child = "start" /\ ChildEnds(Exited(0))
addSpaceChild ==
  /\ demo = "addSpace" /\ child = "start" /\ gval["child"] = 100
  /\ gval' = [gval EXCEPT !["child"] = 300]
  /\ UNCHANGED <<demo, father, child, status, report, line, code>>
Kill == child \in {"start", "image"} /\ ChildEnds(Killed(SIGKILL, 0))
-----------------------------------------------------------------------------
(* What the fathers print: the shell and testExec.c do not ask whether the *)
(* child was killed.                                                       *)
shellSays(s) == <<"code", WEXITSTATUS(s)>>
execSays(s) == <<"code", WEXITSTATUS(s)>>
(* MUTANT of WaitNoHangSays: it does not ask either. *)
WaitNoHangSays_Unasked(s) == <<"code", WEXITSTATUS(s)>>
WaitNoHangSays(s) == IF WIFEXITED(s) THEN <<"code", WEXITSTATUS(s)>> ELSE <<"exception">>
testWaitSays(s) == <<"all", WEXITSTATUS(s), WTERMSIG(s)>>
testCoreSays(s) == <<"all", WEXITSTATUS(s), WTERMSIG(s)>>
Says(s) == CASE demo = "shell" -> shellSays(s) [] demo = "exec" -> execSays(s)
             [] demo = "WaitNoHang" -> WaitNoHangSays(s) [] demo = "testWait" -> testWaitSays(s)
             [] OTHER -> testCoreSays(s)

(* waitpid, which WaitNoHang asks again and again, without waiting. *)
WaitChild ==
  /\ demo \in Waiting /\ father = "parent"
  /\ \/ child = "zombie" /\ child' = "reaped" /\ report' = Says(status)
     \/ child = "none" /\ UNCHANGED <<child, report>>
  /\ Ends(0) /\ UNCHANGED <<demo, status, line, gval>>

(* The father of test_childProcess returns at once, and the child is left  *)
(* to init; those of the two others go on until they are killed.           *)
LooseEnds ==
  /\ demo \in Loose /\ father = "parent" /\ Ends(IF demo = "test_childProcess" THEN 0 ELSE None)
  /\ child' = IF child = "zombie" THEN "orphan" ELSE child
  /\ UNCHANGED <<demo, status, report, line, gval>>
-----------------------------------------------------------------------------
Father == GetUserCommand \/ Fork \/ WaitChild \/ LooseEnds
Child == \/ ExecuteComm \/ Execve \/ CommandEnds \/ ExitCodeEnds
         \/ WaitNoHangChild \/ testWaitChild \/ Sum
         \/ test_ZombieChild \/ test_childProcessChild \/ addSpaceChild
Next == Father \/ Child \/ Kill
-----------------------------------------------------------------------------
(* ExecuteComm, WaitNoHang, testWait, testExec.c, testCore: what the       *)
(* father says of a child that exited is its exit code; only those that    *)
(* ask for the signal tell that a child was killed, the shell and          *)
(* testExec.c take it for one that succeeded. A father that waits leaves   *)
(* no zombie; the child's gval is never the father's.                      *)
ReportsRight ==
  /\ report # <<>> =>
       LET exited == status % 256 = 0 IN
       /\ exited => report[2] = status \div 256
       /\ ~exited => CASE demo \in {"shell", "exec"} -> report = <<"code", 0>>
                      [] demo = "WaitNoHang" -> report = <<"exception">>
                      [] OTHER -> report[3] \in {SIGKILL, SIGFPE}
  /\ child = "zombie" => father = "parent"
  /\ father = "over" /\ demo \in Waiting => child \in {"none", "reaped"}
  /\ gval["father"] = 100

(* A father that waits gets to its end once the child is dead. *)
WaitsEnd == demo \in Waiting /\ child = "zombie" => father = "over"
=============================================================================
