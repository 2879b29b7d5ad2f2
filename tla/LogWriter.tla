----------------------------- MODULE LogWriter ------------------------------
(* OSCode/20.ThreadPool/Log.hpp, which every program has a copy of:        *)
(* writeMessage makes up a line from the static memory of localtime and    *)
(* flushes it under a mutex, to the screen or to a file.                   *)
EXTENDS Naturals, FiniteSets

CONSTANTS
  Writers,
  Seconds,     \* in a minute
  MaxClock     \* how long a run lasts, in seconds

VARIABLES
  clock,
  mode,        \* _type
  static,      \* the time localtime has left in its static memory
  writer,      \* where each thread is in writeMessage
  now,         \* the time it was called at
  stamp,       \* the fields of the time stamp it has read so far
  lock,        \* the holders of gmutex
  rivals,      \* the times of the calls that overlap with its own
  outs         \* the lines written: <<writer, where, stamp>>

logVars == <<clock, mode, static, writer, now, stamp, lock, rivals, outs>>

Minute(t) == t \div Seconds
Second(t) == t % Seconds
Unread == [minute |-> MaxClock + 1, second |-> MaxClock + 1]

Init ==
  /\ clock = 0 /\ mode = "screen" /\ static = 0
  /\ writer = [w \in Writers |-> "out"] /\ now = [w \in Writers |-> 0]
  /\ stamp = [w \in Writers |-> Unread] /\ lock = {}
  /\ rivals = [w \in Writers |-> {}] /\ outs = {}

Moves(w, to) == writer' = [writer EXCEPT ![w] = to]
Active == {w \in Writers : writer[w] \notin {"out", "done"}}
-----------------------------------------------------------------------------
Tick == clock < MaxClock /\ clock' = clock + 1
        /\ UNCHANGED <<mode, static, writer, now, stamp, lock, rivals, outs>>

(* EnableScreen and EnableFILE: without the mutex. *)
SwitchType ==
  /\ mode' \in {"screen", "file"} \ {mode}
  /\ UNCHANGED <<clock, static, writer, now, stamp, lock, rivals, outs>>

writeMessage(w) ==
  /\ writer[w] = "out" /\ Moves(w, "called")
  /\ now' = [now EXCEPT ![w] = clock]
  /\ rivals' = [v \in Writers |->
       IF v = w THEN {now[d] : d \in Active}
       ELSE IF v \in Active THEN rivals[v] \cup {clock} ELSE rivals[v]]
  /\ UNCHANGED <<clock, mode, static, stamp, lock, outs>>

(* GetcurTime: localtime fills its memory at once, and snprintf reads the  *)
(* fields one by one, in whatever order they were passed.                  *)
Localtime(w) ==
  /\ writer[w] = "called" /\ Moves(w, "stamping") /\ static' = now[w]
  /\ UNCHANGED <<clock, mode, now, stamp, lock, rivals, outs>>

ReadField(w) ==
  /\ writer[w] = "stamping"
  /\ \/ stamp[w].minute = Unread.minute
        /\ stamp' = [stamp EXCEPT ![w].minute = Minute(static)]
     \/ stamp[w].second = Unread.second
        /\ stamp' = [stamp EXCEPT ![w].second = Second(static)]
  /\ Moves(w, IF \E f \in {"minute", "second"} : stamp'[w][f] = MaxClock + 1
              THEN "stamping" ELSE "stamped")
  /\ UNCHANGED <<clock, mode, static, now, lock, rivals, outs>>

FlushLog(w) ==
  /\ writer[w] = "stamped" /\ lock = {} /\ lock' = {w} /\ Moves(w, "flush")
  /\ UNCHANGED <<clock, mode, static, now, stamp, rivals, outs>>

FlushtoMinitor(w) == outs' = outs \cup {<<w, "screen", stamp[w]>>}

(* A file that does not open swallows the line. *)
FlushtoFile(w) == outs' = outs \cup {<<w, "file", stamp[w]>>} \/ UNCHANGED outs

(* MUTANT of Flush: without the break of its case, the screen's line goes  *)
(* to the file too.                                                        *)
Flush_NoBreak(w) ==
  /\ writer[w] = "flush" /\ lock' = lock \ {w} /\ Moves(w, "done")
  /\ IF mode = "screen"
     THEN outs' = outs \cup {<<w, "screen", stamp[w]>>, <<w, "file", stamp[w]>>}
     ELSE FlushtoFile(w)
  /\ UNCHANGED <<clock, mode, static, now, stamp, rivals>>

(* The switch of FlushLog, and the end of the LockGuard. *)
Flush(w) ==
  /\ writer[w] = "flush" /\ lock' = lock \ {w} /\ Moves(w, "done")
  /\ IF mode = "screen" THEN FlushtoMinitor(w) ELSE FlushtoFile(w)
  /\ UNCHANGED <<clock, mode, static, now, stamp, rivals>>
-----------------------------------------------------------------------------
Call(w) == writeMessage(w) \/ Localtime(w) \/ ReadField(w) \/ FlushLog(w) \/ Flush(w)
Next == Tick \/ SwitchType \/ \E w \in Writers : Call(w)
-----------------------------------------------------------------------------
(* GetcurTime and FlushLog: a call writes one line, to one place; its time *)
(* stamp is the time of the call, unless calls of other threads overlap    *)
(* with it: then each field is that of its own time or of one of theirs,   *)
(* so the whole may be a time that never was. With no tick between         *)
(* overlapping calls there is nothing to mix.                              *)
LinesTruthful ==
  /\ \A x, y \in outs : x[1] = y[1] => x = y
  /\ \A x \in outs :
       LET times == {now[x[1]]} \cup rivals[x[1]] IN
         /\ x[3].minute \in {Minute(t) : t \in times}
         /\ x[3].second \in {Second(t) : t \in times}
=============================================================================
