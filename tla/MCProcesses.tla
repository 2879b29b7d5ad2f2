---------------------------- MODULE MCProcesses -----------------------------
(* Small instances of the programs about processes and signals, one of     *)
(* them in a behaviour, or one of the programs of MCIpc: OSSpec chooses    *)
(* among them all. SIGCHLD: five children, one of which never ends.        *)
EXTENDS SigChld, MCIpc

CONSTANTS
  Demonstrations,
  Passes, MaxSignals, MaxLate,   \* see SignalDemos
  Codes, Errnos,                 \* see ForkDemos
  Openers                        \* see FileDemos

ASSUME PassesAssumption == Passes \in Nat
ASSUME CodesAssumption == Codes \cup Errnos \subseteq 0 .. 255
ASSUME OpenersAssumption == "missing" \notin Openers

VARIABLES
  demonstration,
  which, where, caught, mask, waiting, handling, cnt, gflag, alarmIn, left, tardy, raised,
  unanswered, dead,
  demo, forker, son, waitStatus, report, line, code, gval,
  func, at, fd, log, size, shown, alone, lastWriter, buffer, out, terminal, testTxt

Signals == INSTANCE SignalDemos WITH
             demo <- which, pending <- waiting, late <- tardy, sent <- raised,
             MaxSent <- MaxSignals
Forks == INSTANCE ForkDemos WITH father <- forker, child <- son, status <- waitStatus
Files == INSTANCE FileDemos WITH Programs <- Openers, printed <- shown
-----------------------------------------------------------------------------
signalVars == <<which, where, caught, mask, waiting, handling, cnt, gflag, alarmIn, left,
                tardy, raised, unanswered, dead>>
forkVars == <<demo, forker, son, waitStatus, report, line, code, gval>>
fileVars == <<func, at, fd, log, size, shown, alone, lastWriter, buffer, out, terminal, testTxt>>
processesVars == <<demonstration, chldVars, signalVars, forkVars, fileVars>>

(* The programs that do not run keep one of their initial states. *)
ProcessesInit ==
  /\ demonstration \in Demonstrations
  /\ ChldInit /\ Signals!Init /\ Forks!Init /\ Files!Init
  /\ demonstration # "signals" => which = "getPending"
  /\ demonstration # "forks" => demo = "shell"
  /\ demonstration # "files" => \A p \in DOMAIN func : func[p] = "GetFileInfo"

InSigChld(A) == demonstration = "sigchld" /\ UNCHANGED <<demonstration, signalVars, forkVars, fileVars>> /\ A
InSignals(A) == demonstration = "signals" /\ UNCHANGED <<demonstration, chldVars, forkVars, fileVars>> /\ A
InForks(A) == demonstration = "forks" /\ UNCHANGED <<demonstration, chldVars, signalVars, fileVars>> /\ A
InFiles(A) == demonstration = "files" /\ UNCHANGED <<demonstration, chldVars, signalVars, forkVars>> /\ A

ProcessesNext ==
  InSigChld(ChldNext) \/ InSignals(Signals!Next) \/ InForks(Forks!Next) \/ InFiles(Files!Next)

(* A process that can go on is scheduled, and a signal that can be         *)
(* delivered is. When a child ends is its own affair.                      *)
ProcessesFair ==
  /\ WF_processesVars(InSigChld(Fork))
  /\ WF_processesVars(InSigChld(Handler) \/ InForks(Forks!Father) \/ InSignals(Signals!Process))

ProcessesSpec == ProcessesInit /\ [][ProcessesNext]_processesVars /\ ProcessesFair

(* One program of either kind.                                             *)
OSInit ==
  /\ IpcInit /\ ProcessesInit
  /\ (program = "none") # (demonstration = "none")

OSNext == \/ IpcNext /\ UNCHANGED processesVars
          \/ ProcessesNext /\ UNCHANGED allVars

OSSpec == OSInit /\ [][OSNext]_<<allVars, processesVars>> /\ IpcFair /\ ProcessesFair
-----------------------------------------------------------------------------
(* testSIGCHLD: again and again no child is a zombie, the father has       *)
(* forked all it wants to and is back at its own work, though one child    *)
(* never ends. The other fathers that wait end with their child, and a     *)
(* signal that is neither blocked nor pending for ever is delivered.       *)
FatherGoesOn ==
  []<>(/\ demonstration = "sigchld" => turns = Cardinality(Sons) /\ ~notice /\ In("zombie") = {}
       /\ Forks!WaitsEnd /\ Signals!DeliveredInTheEnd)

(* getPending, testsigAction, testRaise, testAlarm: see SignalDemos. *)
SignalsKept == Signals!SignalsKept

(* What is told of a child's end, and read back from a file: see ForkDemos *)
(* and FileDemos.                                                          *)
ToldRight == Forks!ReportsRight /\ Files!FilesRight
=============================================================================
