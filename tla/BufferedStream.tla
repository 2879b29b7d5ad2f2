--------------------------- MODULE BufferedStream ---------------------------
(* OSCode/12.mystdio: a FILE of one's own. Bytes are copied to a cache and *)
(* written to the file when the last one is a newline and on closing. A    *)
(* program opens the file, writes, closes it or is killed, and starts      *)
(* again. A byte is a newline or another one.                              *)
EXTENDS Naturals, Sequences, SequencesExt

CONSTANTS
  CACHESIZE,    \* bytes of the cache
  Pieces,       \* what a program may write at once: sequences of bytes
  Modes,        \* the modes it may open the file with
  MaxWritten    \* bytes written since the file was last empty

VARIABLES
  stream,       \* "closed", "open", or "overrun": bytes were copied past the cache
  how,          \* the mode it was opened with
  disk,         \* the content of the file, or <<"missing">>
  cache,        \* the bytes in the cache; pos is their number
  accepted,     \* what my_fwrite has taken and what was in the file before
  lineEnd,      \* how much of it was accepted when a piece last ended a line
  writeFailed,  \* a write to the file was short
  closedWell    \* the last program called my_fclose

streamVars == <<stream, how, disk, cache, accepted, lineEnd, writeFailed, closedWell>>

Missing == <<"missing">>
NL == "newline"
Writable == how \in {"w", "a"}

Init ==
  /\ stream = "closed" /\ how = "none" /\ disk = Missing
  /\ cache = <<>> /\ accepted = <<>> /\ lineEnd = 0
  /\ writeFailed = FALSE /\ closedWell = FALSE

(* "w" empties the file, "w" and "a" make it, and any other mode reads. *)
my_fopen(mode) ==
  /\ stream = "closed"
  /\ IF mode \notin {"w", "a"} /\ disk = Missing
     THEN UNCHANGED <<stream, how, disk, accepted, lineEnd, closedWell>>
     ELSE /\ stream' = "open" /\ how' = mode /\ closedWell' = FALSE
          /\ disk' = IF mode = "w" \/ disk = Missing THEN <<>> ELSE disk
          /\ accepted' = disk' /\ lineEnd' = Len(disk')
  /\ cache' = <<>> /\ writeFailed' = FALSE

(* MUTANT of my_fflush: the position is not set back. *)
my_fflush_KeepsPos(bytes) ==
  \E n \in (IF Writable THEN 0 .. Len(bytes) ELSE {0}) :
    /\ disk' = disk \o SubSeq(bytes, 1, n)
    /\ cache' = bytes /\ writeFailed' = (writeFailed \/ n < Len(bytes))

(* The result of write is not looked at: a short one loses the rest. *)
my_fflush(bytes) ==
  \E n \in (IF Writable THEN 0 .. Len(bytes) ELSE {0}) :
    /\ disk' = disk \o SubSeq(bytes, 1, n)
    /\ cache' = <<>> /\ writeFailed' = (writeFailed \/ n < Len(bytes))

(* memcpy does not ask whether the piece fits. *)
my_fwrite(piece) ==
  /\ stream = "open" /\ Len(accepted) + Len(piece) <= MaxWritten
  /\ accepted' = accepted \o piece
  /\ IF Len(cache \o piece) > CACHESIZE
     THEN stream' = "overrun" /\ UNCHANGED <<disk, cache, lineEnd, writeFailed>>
     ELSE /\ UNCHANGED stream
          /\ IF Last(cache \o piece) = NL
             THEN my_fflush(cache \o piece) /\ lineEnd' = Len(accepted')
             ELSE cache' = cache \o piece /\ UNCHANGED <<disk, lineEnd, writeFailed>>
  /\ UNCHANGED <<how, closedWell>>

my_fclose ==
  /\ stream = "open" /\ my_fflush(cache) /\ stream' = "closed" /\ closedWell' = TRUE
  /\ UNCHANGED <<how, accepted, lineEnd>>

Kill ==
  /\ stream \in {"open", "overrun"} /\ stream' = "closed"
  /\ UNCHANGED <<how, disk, cache, accepted, lineEnd, writeFailed, closedWell>>

Next == \/ \E m \in Modes : my_fopen(m)
        \/ \E p \in Pieces : my_fwrite(p)
        \/ my_fclose \/ Kill
-----------------------------------------------------------------------------
(* What my_fwrite has accepted is in the file and the cache, in order and  *)
(* once; after my_fclose it is all in the file; and a program that is      *)
(* killed, or ran past its cache, has lost nothing up to the last piece    *)
(* that ended a line. A write that came up short excuses all three.        *)
StreamKeeps ==
  ~writeFailed /\ how # "none" =>
    /\ stream = "open" => disk \o cache = accepted
    /\ closedWell => disk = accepted
    /\ disk = SubSeq(accepted, 1, Len(disk)) /\ lineEnd <= Len(disk)
=============================================================================
