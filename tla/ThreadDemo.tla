----------------------------- MODULE ThreadDemo -----------------------------
(* OSCode/18.testThread/thread.cc: main runs one of several demonstrations *)
(* of threads. Those that start threads and go on for ever are all like    *)
(* testPrivateval; testMultithread cancels and joins threads that detach   *)
(* themselves; test2 takes a result from a thread.                         *)
EXTENDS Naturals, Sequences

CONSTANTS
  Runners, Line,   \* the threads, and the order they are created in
  MaxPval          \* where the counting of threadRunPrivate is cut off

VARIABLES
  test,        \* the function main runs
  runner,      \* what each thread does
  detached,    \* the threads that pthread_detach has freed of being joined
  cancelled,   \* those main has sent a cancellation
  main,        \* what main does: <<step, number of the thread>>
  results,     \* what each pthread_join returned: <<value, error>>
  gPval,       \* the copy each thread, and main, has of it
  cnt, ret,    \* of pthreadRun: the passes left, ThreadRet::result
  running      \* the process has not crashed

demoVars == <<test, runner, detached, cancelled, main, results, gPval, cnt, ret, running>>

Init ==
  /\ test \in {"testPrivateval", "testMultithread", "test2"}
  /\ runner = [r \in Runners |-> "none"]
  /\ detached = {} /\ cancelled = {}
  /\ main = <<"create", 1>> /\ results = <<>>
  /\ gPval = [x \in Runners \cup {"main"} |-> 100]
  /\ cnt = 5 /\ ret = "unset" /\ running = TRUE

Nr == Line[main[2]]
Ends(r) == runner' = [runner EXCEPT ![r] = "end"]
-----------------------------------------------------------------------------
threadRunPrivate(r) ==
  /\ test = "testPrivateval" /\ runner[r] = "run" /\ gPval[r] < MaxPval
  /\ gPval' = [gPval EXCEPT ![r] = @ + 1]
  /\ UNCHANGED <<test, runner, detached, cancelled, main, results, cnt, ret, running>>

testPrivateval ==
  /\ test = "testPrivateval" /\ main[1] = "create"
  /\ runner' = [runner EXCEPT ![Line[1]] = "run"] /\ main' = <<"loop", 1>>
  /\ UNCHANGED <<test, detached, cancelled, results, gPval, cnt, ret, running>>
-----------------------------------------------------------------------------
(* The thread detaches itself, unless main already waits for it. It meets  *)
(* a cancellation when it next prints or sleeps. What it leaves when it    *)
(* ends is freed at once if it is detached.                                *)
threadrun(r) ==
  /\ test = "testMultithread" /\ running
  /\ \/ /\ runner[r] = "run" /\ runner' = [runner EXCEPT ![r] = "loop"]
        /\ detached' = IF main[1] = "wait" /\ Nr = r THEN detached ELSE detached \cup {r}
     \/ runner[r] = "loop" /\ r \in cancelled /\ Ends(r) /\ UNCHANGED detached
  /\ UNCHANGED <<test, cancelled, main, results, gPval, cnt, ret, running>>

Create ==
  /\ test = "testMultithread" /\ main[1] = "create"
  /\ runner' = [runner EXCEPT ![Nr] = "run"]
  /\ main' = IF main[2] = Len(Line) THEN <<"cancel", 1>> ELSE <<"create", main[2] + 1>>
  /\ UNCHANGED <<test, detached, cancelled, results, gPval, cnt, ret, running>>

Cancel ==
  /\ test = "testMultithread" /\ main[1] = "cancel" /\ running
  /\ cancelled' = cancelled \cup {Nr} /\ main' = <<"join", main[2]>>
  /\ UNCHANGED <<test, runner, detached, results, gPval, cnt, ret, running>>

Joined(value, error) ==
  /\ results' = Append(results, <<value, error>>)
  /\ main' = IF main[2] = Len(Line) THEN <<"done", 1>> ELSE <<"cancel", main[2] + 1>>

(* pthread_join: a detached thread is refused; if it has ended, its        *)
(* identifier is no longer valid, and the call may fail or crash.          *)
Join ==
  /\ test = "testMultithread" /\ main[1] = "join" /\ running
  /\ \/ Nr \in detached /\ Joined("null", "EINVAL") /\ UNCHANGED running
     \/ Nr \in detached /\ runner[Nr] = "end" /\ running' = FALSE /\ UNCHANGED <<results, main>>
     \/ Nr \notin detached /\ main' = <<"wait", main[2]>> /\ UNCHANGED <<results, running>>
  /\ UNCHANGED <<test, runner, detached, cancelled, gPval, cnt, ret>>

JoinReturns ==
  /\ test = "testMultithread" /\ main[1] = "wait" /\ runner[Nr] = "end"
  /\ Joined("cancelled", "none")
  /\ UNCHANGED <<test, runner, detached, cancelled, gPval, cnt, ret, running>>
-----------------------------------------------------------------------------
test2 ==
  /\ test = "test2"
  /\ \/ /\ main[1] = "create" /\ main' = <<"join", 1>>
        /\ runner' = [runner EXCEPT ![Nr] = "run"] /\ UNCHANGED results
     \/ /\ main[1] = "join" /\ runner[Nr] = "end" /\ main' = <<"done", 1>>
        /\ results' = <<<<ret, "none">>>> /\ UNCHANGED runner
  /\ UNCHANGED <<test, detached, cancelled, gPval, cnt, ret, running>>

(* Each of the passes writes the result again. *)
pthreadRun(r) ==
  /\ test = "test2" /\ runner[r] = "run"
  /\ IF cnt > 0 THEN cnt' = cnt - 1 /\ ret' = "sum" /\ UNCHANGED runner
     ELSE Ends(r) /\ UNCHANGED <<cnt, ret>>
  /\ UNCHANGED <<test, detached, cancelled, main, results, gPval, running>>
-----------------------------------------------------------------------------
testMultithread == Create \/ Cancel \/ Join \/ JoinReturns
Main == testPrivateval \/ testMultithread \/ test2
Thread(r) == threadRunPrivate(r) \/ threadrun(r) \/ pthreadRun(r)
Next == Main \/ \E r \in Runners : Thread(r)
-----------------------------------------------------------------------------
(* testMultithread: main never waits for a thread that has detached        *)
(* itself; the joins that fail are those of detached threads, and only     *)
(* where a detached thread was faster than main's join may main crash.     *)
(* test2: what main prints is what the thread worked out. testPrivateval:  *)
(* however far the thread counts, main's copy stays what it was.           *)
JoinsRight ==
  /\ main[1] = "wait" => Nr \notin detached
  /\ test = "testMultithread" => \A i \in DOMAIN results :
       /\ Line[i] \in cancelled
       /\ results[i] = IF Line[i] \in detached THEN <<"null", "EINVAL">> ELSE <<"cancelled", "none">>
  /\ ~running => runner[Nr] = "end" /\ Nr \in detached \cap cancelled
  /\ test = "test2" => results \in {<<>>, <<<<"sum", "none">>>>}
  /\ gPval["main"] = 100
============================================================================
