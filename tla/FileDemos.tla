----------------------------- MODULE FileDemos ------------------------------
(* OSCode/11.fileTest: programs that write log.txt from its start, one of  *)
(* which asks for its size and reads it back, and one that mixes buffered  *)
(* output with write; one that writes test.txt through a FILE, and two     *)
(* that print on other terminals. Two may run at once; nothing keeps them  *)
(* apart. The text of systemCallFunc is shorter: the file's first part.    *)
EXTENDS Naturals, Sequences, FiniteSets

CONSTANTS Programs

VARIABLES
  func,       \* what each program runs
  at,         \* where it is in it
  fd,         \* whether its open succeeded
  log,        \* log.txt: the writer of each part, or <<"missing">>
  size,       \* the size stat told it
  printed,    \* what GetFileInfo printed of the file
  alone,      \* no other program touched the file since it opened it
  lastWriter,
  buffer, out,\* of FILEandfd: stdout's buffer, what the screen or file has got
  terminal,   \* who printed each line of the two other terminals
  testTxt     \* test.txt: "missing", "empty" or "text"

fileVars == <<func, at, fd, log, size, printed, alone, lastWriter, buffer, out, terminal, testTxt>>

Missing == <<"missing">>
Order == <<"stdin", "stdout", "stderr", "ones", "message">>

Init ==
  /\ func \in [Programs -> {"GetFileInfo", "systemCallFunc", "FILEandfd", "Redirect",
                            "printForOtherTerminal", "testCfileFunc"}]
  /\ at = [p \in Programs |-> "start"] /\ fd = [p \in Programs |-> FALSE]
  /\ log = Missing /\ size = [p \in Programs |-> 0] /\ printed = [p \in Programs |-> <<>>]
  /\ alone = [p \in Programs |-> TRUE] /\ lastWriter = "nobody"
  /\ buffer = [p \in Programs |-> <<>>] /\ out = [p \in Programs |-> <<>>]
  /\ terminal = [t \in {"pts/1", "pts/2"} |-> <<>>] /\ testTxt = "missing"

LogVars == <<log, size, printed, alone, lastWriter>>
Others == <<func, terminal, testTxt>>
To(p, where) == at' = [at EXCEPT ![p] = where]
Touched(p, own) == alone' = [q \in Programs |-> IF q = p THEN own ELSE FALSE]
Parts(p) == IF func[p] = "GetFileInfo" THEN 2 ELSE 1
-----------------------------------------------------------------------------
(* O_CREAT and O_TRUNC. Whether it succeeded is not asked before writing.  *)
Open(p) ==
  /\ at[p] = "start" /\ To(p, "opened")
  /\ \/ fd' = [fd EXCEPT ![p] = TRUE] /\ log' = <<>> /\ Touched(p, TRUE)
     \/ UNCHANGED <<fd, log, alone>>
  /\ UNCHANGED <<Others, size, printed, lastWriter, buffer, out>>

(* Both write from the start; a failed open makes write fail too. *)
Write(p) ==
  /\ at[p] = "opened" /\ To(p, IF func[p] = "GetFileInfo" THEN "stat" ELSE "done")
  /\ IF fd[p]
     THEN /\ log' = [i \in 1 .. (IF Len(log) > Parts(p) THEN Len(log) ELSE Parts(p)) |->
                       IF i <= Parts(p) THEN p ELSE log[i]]
          /\ Touched(p, alone[p]) /\ lastWriter' = p
     ELSE UNCHANGED <<log, alone, lastWriter>>
  /\ UNCHANGED <<Others, fd, size, printed, buffer, out>>

Stat(p) ==
  /\ at[p] = "stat"
  /\ IF log = Missing THEN To(p, "done") /\ UNCHANGED size
     ELSE To(p, "read") /\ size' = [size EXCEPT ![p] = Len(log)]
  /\ UNCHANGED <<Others, fd, log, printed, alone, lastWriter, buffer, out>>

(* The second open, which may fail, and a read of no more than the size. *)
ReadBack(p) ==
  /\ at[p] = "read" /\ To(p, "done")
  /\ \/ printed' = [printed EXCEPT ![p] = SubSeq(log, 1, IF Len(log) < size[p] THEN Len(log) ELSE size[p])]
     \/ UNCHANGED printed
  /\ UNCHANGED <<Others, fd, log, size, alone, lastWriter, buffer, out>>

(* FILEandfd: the lines stay in the buffer, or go out one by one where     *)
(* stdout is a terminal; the flush comes before the write.                 *)
Printf(p) ==
  LET n == Len(buffer[p] \o out[p]) IN
  /\ func[p] = "FILEandfd" /\ at[p] = "start" /\ n < 4
  /\ LET new == Append(buffer[p], Order[n + 1]) IN
       \/ buffer' = [buffer EXCEPT ![p] = new] /\ UNCHANGED out
       \/ n < 3 /\ out' = [out EXCEPT ![p] = @ \o new] /\ buffer' = [buffer EXCEPT ![p] = <<>>]
  /\ UNCHANGED <<Others, at, fd, log, size, printed, alone, lastWriter>>

FlushAndWrite(p) ==
  /\ func[p] = "FILEandfd" /\ at[p] = "start" /\ Len(buffer[p] \o out[p]) = 4 /\ To(p, "done")
  /\ out' = [out EXCEPT ![p] = Append(@ \o buffer[p], "message")]
  /\ buffer' = [buffer EXCEPT ![p] = <<>>]
  /\ UNCHANGED <<Others, fd, log, size, printed, alone, lastWriter>>
-----------------------------------------------------------------------------
(* Redirect: its standard output becomes a terminal, so that each line     *)
(* leaves at once. It stays so after close(fd).                            *)
Dup2(p) ==
  /\ func[p] = "Redirect" /\ at[p] = "start"
  /\ \/ To(p, "first") /\ fd' = [fd EXCEPT ![p] = TRUE]
     \/ To(p, "done") /\ UNCHANGED fd
  /\ UNCHANGED <<Others, LogVars, buffer, out>>

HelloWorld(p) ==
  /\ at[p] \in {"first", "second"} /\ To(p, IF at[p] = "first" THEN "second" ELSE "done")
  /\ terminal' = [terminal EXCEPT !["pts/2"] = Append(@, p)]
  /\ UNCHANGED <<func, fd, LogVars, buffer, out, testTxt>>

printForOtherTerminal(p) ==
  /\ func[p] = "printForOtherTerminal" /\ at[p] = "start" /\ To(p, "done")
  /\ \/ /\ fd' = [fd EXCEPT ![p] = TRUE]
        /\ terminal' = [terminal EXCEPT !["pts/1"] = Append(@, p)]
     \/ UNCHANGED <<fd, terminal>>
  /\ UNCHANGED <<func, LogVars, buffer, out, testTxt>>

(* testCfileFunc: fopen empties the file, the text leaves with fclose.     *)
Fopen(p) ==
  /\ func[p] = "testCfileFunc" /\ at[p] = "start"
  /\ \/ /\ To(p, "fprintf") /\ fd' = [fd EXCEPT ![p] = TRUE] /\ testTxt' = "empty"
     \/ To(p, "done") /\ UNCHANGED <<fd, testTxt>>
  /\ UNCHANGED <<func, LogVars, buffer, out, terminal>>

Fclose(p) ==
  /\ at[p] = "fprintf" /\ To(p, "done") /\ testTxt' = "text"
  /\ UNCHANGED <<func, fd, LogVars, buffer, out, terminal>>
-----------------------------------------------------------------------------
GetFileInfo(p) == func[p] = "GetFileInfo" /\ (Open(p) \/ Write(p) \/ Stat(p) \/ ReadBack(p))
systemCallFunc(p) == func[p] = "systemCallFunc" /\ (Open(p) \/ Write(p))
FILEandfd(p) == Printf(p) \/ FlushAndWrite(p)
Redirect(p) == Dup2(p) \/ HelloWorld(p)
testCfileFunc(p) == Fopen(p) \/ Fclose(p)
Next ==
  \E p \in Programs :
    \/ GetFileInfo(p) \/ systemCallFunc(p) \/ FILEandfd(p)
    \/ Redirect(p) \/ printForOtherTerminal(p) \/ testCfileFunc(p)
-----------------------------------------------------------------------------
(* The lines that program p has printed on another terminal. *)
Lines(t, p) == Cardinality({i \in DOMAIN terminal[t] : terminal[t][i] = p})

(* GetFileInfo prints its own text in whole if no other program touched    *)
(* the file meanwhile, and never more than the size it had asked for; the  *)
(* file starts with the text written last; what FILEandfd puts out is in   *)
(* the order of the calls, whatever is buffered; Redirect, once it has the *)
(* terminal, leaves both lines there; and test.txt has its text once all   *)
(* who opened it are done.                                                 *)
FilesRight ==
  /\ \A p \in Programs : at[p] = "done" =>
       /\ Lines("pts/2", p) = IF fd[p] /\ func[p] = "Redirect" THEN 2 ELSE 0
       /\ Lines("pts/1", p) = IF fd[p] /\ func[p] = "printForOtherTerminal" THEN 1 ELSE 0
  /\ (\A p \in Programs : at[p] # "fprintf") =>
       (testTxt = "text" <=> \E p \in Programs : func[p] = "testCfileFunc" /\ fd[p])
  /\ \A p \in Programs :
       /\ printed[p] # <<>> /\ fd[p] /\ alone[p] => printed[p] = <<p, p>>
       /\ Len(printed[p]) <= size[p]
       /\ lastWriter = p /\ log \notin {<<>>, Missing} => \A i \in 1 .. Parts(p) : log[i] = p
       /\ out[p] = SubSeq(Order, 1, Len(out[p]))
=============================================================================
