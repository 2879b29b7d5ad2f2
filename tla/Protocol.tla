------------------------------ MODULE Protocol ------------------------------
(* NetCode/6.calcuServer/Protocol.hpp: how messages are told apart in a    *)
(* byte stream. A message is its length, a separator, that many bytes and  *)
(* a separator. The digits of the length are one byte here, and the bytes  *)
(* of a payload stand for the fields of the JSON text.                     *)
EXTENDS Integers, Sequences, FiniteSetsExt

CONSTANTS CR, LF   \* the two bytes of sep

ASSUME SepAssumption == CR # LF /\ CR \notin Nat /\ LF \notin Nat

sep == <<CR, LF>>

Encode(payload) == <<Len(payload)>> \o sep \o payload \o sep

(* Where a separator begins in a stream. *)
Seps(stream) == {i \in 1 .. Len(stream) - 1 : stream[i] = CR /\ stream[i + 1] = LF}

lenstr(stream) == SubSeq(stream, 1, Min(Seps(stream)) - 1)
stoi(digits) == digits[1]

(* MUTANT of totalSize: the last separator is not counted. *)
totalSize_OneSep(stream) == Len(lenstr(stream)) + stoi(lenstr(stream)) + Len(sep)
totalSize(stream) == Len(lenstr(stream)) + stoi(lenstr(stream)) + 2 * Len(sep)

(* MUTANT of Complete: the message must be followed by another byte. *)
Complete_Strict(stream) == Seps(stream) # {} /\ Len(stream) > totalSize(stream)

(* Decode finds a whole message at the front of the stream, takes its      *)
(* payload and erases it; or it returns nothing and leaves the stream.     *)
Complete(stream) == Seps(stream) # {} /\ Len(stream) >= totalSize(stream)

Payload(stream) ==
  LET first == Len(lenstr(stream)) + Len(sep) + 1
  IN SubSeq(stream, first, first + stoi(lenstr(stream)) - 1)
Erased(stream) == SubSeq(stream, totalSize(stream) + 1, Len(stream))
=============================================================================
