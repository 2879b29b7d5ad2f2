------------------------------ MODULE NamedPipe -----------------------------
(* OSCode/15.fifo: a server makes a fifo, reads it until no writer is left *)
(* and removes it; clients write lines to it. Servers and clients may be   *)
(* started at any time, and killed.                                        *)
EXTENDS Naturals, Sequences, FiniteSets

CONSTANTS Hosts, Talkers, MaxLines   \* servers, clients, lines of each client

VARIABLES
  host, talker,   \* what each server and each client does
  file,           \* the fifo with the path's name: its maker, or "none"
  end,            \* the fifo each client has opened
  bytes,          \* bytes[h]: the lines in the fifo that h has made
  wrote, heard,   \* the lines a client has written, and a server has read
  late            \* the clients that opened a fifo whose server was leaving

fifoVars == <<host, talker, file, end, bytes, wrote, heard, late>>

Init ==
  /\ host = [h \in Hosts |-> "off"] /\ talker = [t \in Talkers |-> "off"]
  /\ file = "none" /\ end = [t \in Talkers |-> "none"]
  /\ bytes = [h \in Hosts |-> <<>>] /\ heard = [h \in Hosts |-> <<>>]
  /\ wrote = [t \in Talkers |-> 0] /\ late = {}

HostTo(h, what) == host' = [host EXCEPT ![h] = what]
Writers(h) == {t \in Talkers : talker[t] \in {"opening", "talking"} /\ end[t] = h}
-----------------------------------------------------------------------------
(* The constructor of a READER; where the file exists it exits. *)
MakeFifo(h) ==
  /\ host[h] = "off"
  /\ IF file = "none" THEN HostTo(h, "made") /\ file' = h
     ELSE HostTo(h, "refused") /\ UNCHANGED file
  /\ UNCHANGED <<talker, end, bytes, wrote, heard, late>>

(* open returns when both sides have come to it. *)
OpenforRead(h) ==
  /\ host[h] = "made"
  /\ HostTo(h, IF Writers(h) = {} THEN "opening" ELSE "reading")
  /\ talker' = [t \in Talkers |-> IF t \in Writers(h) THEN "talking" ELSE talker[t]]
  /\ UNCHANGED <<file, end, bytes, wrote, heard, late>>

(* Whatever is in the fifo is read as one message. *)
readData(h) ==
  /\ host[h] = "reading" /\ bytes[h] # <<>>
  /\ heard' = [heard EXCEPT ![h] = @ \o bytes[h]] /\ bytes' = [bytes EXCEPT ![h] = <<>>]
  /\ UNCHANGED <<host, talker, file, end, wrote, late>>

(* MUTANT of EndOfFile: an empty fifo ends the loop. *)
EndOfFile_WhenEmpty(h) ==
  /\ host[h] = "reading" /\ bytes[h] = <<>> /\ HostTo(h, "leaving")
  /\ UNCHANGED <<talker, file, end, bytes, wrote, heard, late>>

(* Nothing is in it and nobody can write to it: the loop ends. *)
EndOfFile(h) ==
  /\ host[h] = "reading" /\ bytes[h] = <<>> /\ Writers(h) = {} /\ HostTo(h, "leaving")
  /\ UNCHANGED <<talker, file, end, bytes, wrote, heard, late>>

(* The destructor: the name goes first, then the descriptor. *)
Unlink(h) ==
  /\ host[h] = "leaving" /\ HostTo(h, "unlinked") /\ file' = "none"
  /\ UNCHANGED <<talker, end, bytes, wrote, heard, late>>
Close(h) ==
  /\ host[h] = "unlinked" /\ HostTo(h, "gone")
  /\ UNCHANGED <<talker, file, end, bytes, wrote, heard, late>>

Kill(h) ==
  /\ host[h] \notin {"off", "refused", "gone", "killed"} /\ HostTo(h, "killed")
  /\ UNCHANGED <<talker, file, end, bytes, wrote, heard, late>>
-----------------------------------------------------------------------------
(* Without a file there is nothing to open, and the client returns. *)
OpenforWrite(t) ==
  /\ talker[t] = "off" /\ end' = [end EXCEPT ![t] = file]
  /\ LET there == file # "none" /\ host[file] \in {"opening", "reading", "leaving"} IN
       /\ talker' = [talker EXCEPT ![t] =
            IF file = "none" THEN "gone" ELSE IF there THEN "talking" ELSE "opening"]
       /\ IF there /\ host[file] = "opening" THEN HostTo(file, "reading") ELSE UNCHANGED host
       /\ late' = IF there /\ host[file] = "leaving" THEN late \cup {t} ELSE late
  /\ UNCHANGED <<file, bytes, wrote, heard>>

(* With no reader any more, a write ends the client. *)
writeData(t) ==
  /\ talker[t] = "talking" /\ wrote[t] < MaxLines
  /\ IF host[end[t]] \in {"reading", "leaving", "unlinked"}
     THEN /\ bytes' = [bytes EXCEPT ![end[t]] = Append(@, <<t, wrote[t] + 1>>)]
          /\ wrote' = [wrote EXCEPT ![t] = @ + 1] /\ UNCHANGED talker
     ELSE talker' = [talker EXCEPT ![t] = "gone"] /\ UNCHANGED <<bytes, wrote>>
  /\ UNCHANGED <<host, file, end, heard, late>>

QuitTalking(t) ==
  /\ talker[t] \in {"opening", "talking"} /\ talker' = [talker EXCEPT ![t] = "gone"]
  /\ UNCHANGED <<host, file, end, bytes, wrote, heard, late>>
-----------------------------------------------------------------------------
Server(h) == MakeFifo(h) \/ OpenforRead(h) \/ readData(h) \/ EndOfFile(h) \/ Unlink(h) \/ Close(h)
Client(t) == OpenforWrite(t) \/ writeData(t)
Next == \/ \E h \in Hosts : Server(h) \/ Kill(h)
        \/ \E t \in Talkers : Client(t) \/ QuitTalking(t)
-----------------------------------------------------------------------------
(* main of both programs: two servers never read at once; one refuses to   *)
(* start only beside another or after one that was killed and left its     *)
(* file; each client's lines are heard in order; and a line is lost only   *)
(* if the server was killed, or was already leaving when the client came.  *)
Live(h) == host[h] \in {"made", "opening", "reading", "leaving"}
FifoDelivers ==
  /\ Cardinality({h \in Hosts : Live(h)}) <= 1
  /\ \A h \in Hosts : Live(h) => file = h
  /\ file # "none" => Live(file) \/ host[file] = "killed"
  /\ \A t \in Talkers : end[t] # "none" =>
       LET all == heard[end[t]] \o bytes[end[t]]
           own == {i \in DOMAIN all : all[i][1] = t}
       IN  /\ \A i, j \in own : i < j => all[i][2] < all[j][2]
           /\ {all[i][2] : i \in own} = 1 .. wrote[t]
  /\ \A h \in Hosts : host[h] \in {"leaving", "unlinked", "gone"} =>
       \A i \in DOMAIN bytes[h] : bytes[h][i][1] \in late
=============================================================================
