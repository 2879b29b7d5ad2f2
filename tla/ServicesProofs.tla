--------------------------- MODULE ServicesProofs ---------------------------
(* The framing of the calculator's protocol, for payloads of every length; *)
(* the calculator, for every set of requests, however many, however far    *)
(* the client goes ahead and however the stream is cut into pieces; and    *)
(* the other servers that answer one request at a time, for every set of   *)
(* clients.                                                                *)
EXTENDS MCServices, SequenceTheorems, TLAPS

(* u is t after s, byte by byte. *)
Joined(s, t, u, C) ==
  /\ u \in Seq(C) /\ Len(u) = Len(s) + Len(t)
  /\ \A i \in 1 .. Len(s) : u[i] = s[i]
  /\ \A i \in 1 .. Len(t) : u[i + Len(s)] = t[i]

LEMMA Joining ==
  ASSUME NEW C, NEW s \in Seq(C), NEW t \in Seq(C)
  PROVE  Joined(s, t, s \o t, C)
BY ConcatProperties, LenProperties DEF Joined

LEMMA EncodeType ==
  ASSUME NEW C, Nat \subseteq C, CR \in C, LF \in C, NEW payload \in Seq(C)
  PROVE  Encode(payload) \in Seq(C)
<1>1. Len(payload) \in Nat
  BY LenProperties
<1>2. <<Len(payload)>> \in Seq(C) /\ sep \in Seq(C)
  BY <1>1 DEF sep
<1>3. \A s, t \in Seq(C) : s \o t \in Seq(C)
  OBVIOUS
<1> QED BY <1>2, <1>3, Zenon DEF Encode

(* stream is a message with that payload and what follows it. *)
Framed(payload, rest, stream, C) ==
  /\ stream \in Seq(C) /\ Len(stream) = Len(payload) + 5 + Len(rest)
  /\ Len(Encode(payload)) = Len(payload) + 5
  /\ stream[1] = Len(payload) /\ stream[2] = CR /\ stream[3] = LF
  /\ \A i \in 1 .. Len(payload) : stream[i + 3] = payload[i]
  /\ \A i \in 1 .. Len(rest) : stream[i + (Len(payload) + 5)] = rest[i]

LEMMA Framing ==
  ASSUME NEW C, Nat \subseteq C, CR \in C, LF \in C,
         NEW payload \in Seq(C), NEW rest \in Seq(C)
  PROVE  Framed(payload, rest, Encode(payload) \o rest, C)
<1> DEFINE stream == Encode(payload) \o rest
<1> DEFINE digits == <<Len(payload)>>
           head == digits \o sep
           front == head \o payload
           message == front \o sep
<1>1. Len(payload) \in Nat /\ Len(rest) \in Nat
  BY LenProperties
<1>2. sep \in Seq(C) /\ Len(sep) = 2 /\ sep[1] = CR /\ sep[2] = LF
  BY DEF sep
<1>3. digits \in Seq(C) /\ Len(digits) = 1 /\ digits[1] = Len(payload)
  BY <1>1
<1>4. Encode(payload) = message
  BY DEF Encode
<1> HIDE DEF digits
<1>5. Joined(digits, sep, head, C)
  BY <1>2, <1>3, Joining, Zenon
<1> HIDE DEF head
<1>6. head \in Seq(C)
  BY <1>5 DEF Joined
<1>7. Joined(head, payload, front, C)
  BY <1>6, Joining, Zenon
<1> HIDE DEF front
<1>8. front \in Seq(C)
  BY <1>7 DEF Joined
<1>9. Joined(front, sep, message, C)
  BY <1>8, <1>2, Joining, Zenon
<1> HIDE DEF message
<1>10. message \in Seq(C)
  BY <1>9 DEF Joined
<1>11. Joined(message, rest, stream, C)
  BY <1>4, <1>10, Joining, Zenon
<1> HIDE DEF stream
<1>12. Len(head) = 3 /\ Len(front) = Len(payload) + 3 /\ Len(message) = Len(payload) + 5
  BY <1>1, <1>2, <1>3, <1>5, <1>7, <1>9 DEF Joined
<1>13. Len(stream) = Len(payload) + 5 + Len(rest)
  BY <1>1, <1>11, <1>12 DEF Joined
<1>14. \A i \in 1 .. Len(payload) + 3 : stream[i] = front[i]
  BY <1>1, <1>9, <1>11, <1>12 DEF Joined
<1>15. head[1] = Len(payload) /\ head[2] = CR /\ head[3] = LF
  BY <1>2, <1>3, <1>5 DEF Joined
<1>16. stream[1] = Len(payload) /\ stream[2] = CR /\ stream[3] = LF
  <2>1. \A i \in 1 .. 3 : front[i] = head[i]
    BY <1>7, <1>12 DEF Joined
  <2>2. \A i \in 1 .. 3 : i \in 1 .. Len(payload) + 3
    BY <1>1
  <2>3. \A i \in 1 .. 3 : stream[i] = head[i]
    BY <2>1, <2>2, <1>14, Zenon
  <2>4. stream[1] = head[1] /\ stream[2] = head[2] /\ stream[3] = head[3]
    BY <2>3
  <2> QED BY <2>4, <1>15, Zenon
<1>17. ASSUME NEW i \in 1 .. Len(payload) PROVE stream[i + 3] = payload[i]
  <2>1. i + 3 \in 1 .. Len(payload) + 3
    BY <1>1
  <2>2. stream[i + 3] = front[i + 3]
    BY <2>1, <1>14
  <2>3. front[i + 3] = payload[i]
    BY <1>7, <1>12 DEF Joined
  <2> QED BY <2>2, <2>3
<1>18. \A i \in 1 .. Len(rest) : stream[i + (Len(payload) + 5)] = rest[i]
  BY <1>11, <1>12 DEF Joined
<1>19. stream \in Seq(C)
  BY <1>11 DEF Joined
<1>20. Framed(payload, rest, stream, C)
  BY <1>4, <1>12, <1>13, <1>16, <1>17, <1>18, <1>19 DEF Framed
<1> QED BY <1>20 DEF stream
-----------------------------------------------------------------------------
(* What Decode computes when a whole message is at the front of the stream *)
(* (Protocol.hpp, Decode): it finds it, takes its payload, and erases it   *)
(* and nothing else.                                                       *)
THEOREM DecodeEncode ==
  ASSUME NEW C, Nat \subseteq C, CR \in C, LF \in C,
         NEW payload \in Seq(C), NEW rest \in Seq(C)
  PROVE  LET stream == Encode(payload) \o rest IN
           Complete(stream) /\ Payload(stream) = payload /\ Erased(stream) = rest
<1> DEFINE stream == Encode(payload) \o rest
<1>0. Framed(payload, rest, stream, C)
  BY Framing, Zenon
<1> HIDE DEF stream
<1>1. /\ stream \in Seq(C) /\ Len(stream) = Len(payload) + 5 + Len(rest)
      /\ stream[1] = Len(payload) /\ stream[2] = CR /\ stream[3] = LF
      /\ \A i \in 1 .. Len(payload) : stream[i + 3] = payload[i]
      /\ \A i \in 1 .. Len(rest) : stream[i + (Len(payload) + 5)] = rest[i]
  BY <1>0 DEF Framed
<1>2. Len(payload) \in Nat /\ Len(rest) \in Nat
  BY LenProperties
<1>3. 2 \in Seps(stream) /\ Min(Seps(stream)) = 2
  <2>1. 2 \in Seps(stream)
    BY <1>1, <1>2 DEF Seps
  <2>2. \A i \in Seps(stream) : i \in Int /\ i >= 2
    BY <1>1, <1>2, SepAssumption DEF Seps
  <2> QED BY <2>1, <2>2 DEF Min
<1>4. /\ Len(lenstr(stream)) = 1 /\ stoi(lenstr(stream)) = Len(payload)
  <2>1. lenstr(stream) = SubSeq(stream, 1, 1)
    BY <1>3 DEF lenstr
  <2>2. Len(SubSeq(stream, 1, 1)) = 1 /\ SubSeq(stream, 1, 1)[1] = stream[1]
    BY <1>1, <1>2
  <2> QED BY <1>1, <2>1, <2>2 DEF stoi
<1>5. totalSize(stream) = Len(payload) + 5
  BY <1>2, <1>4 DEF totalSize, sep
<1>6. Complete(stream)
  BY <1>1, <1>2, <1>3, <1>5 DEF Complete
<1>7. Payload(stream) = payload
  <2>1. Payload(stream) = SubSeq(stream, 4, Len(payload) + 3)
    BY <1>2, <1>4 DEF Payload, sep
  <2>2. /\ SubSeq(stream, 4, Len(payload) + 3) \in Seq(C)
        /\ Len(SubSeq(stream, 4, Len(payload) + 3)) = Len(payload)
        /\ \A i \in 1 .. Len(payload) : SubSeq(stream, 4, Len(payload) + 3)[i] = stream[i + 3]
    BY <1>1, <1>2
  <2> QED BY <1>1, <2>1, <2>2, SeqEqual
<1>8. Erased(stream) = rest
  <2> DEFINE n == Len(payload) + 5
  <2>1. Erased(stream) = SubSeq(stream, n + 1, n + Len(rest))
    BY <1>1, <1>5 DEF Erased
  <2>2. /\ SubSeq(stream, n + 1, n + Len(rest)) \in Seq(C)
        /\ Len(SubSeq(stream, n + 1, n + Len(rest))) = Len(rest)
        /\ \A i \in 1 .. Len(rest) : SubSeq(stream, n + 1, n + Len(rest))[i] = stream[i + n]
    BY <1>1, <1>2
  <2> QED BY <1>1, <2>1, <2>2, SeqEqual
<1> QED BY <1>6, <1>7, <1>8 DEF stream

(* A message of which the last bytes have not arrived is not decoded, and  *)
(* stays where it is (Protocol.hpp, the two early returns of Decode).      *)
THEOREM TornMessageWaits ==
  ASSUME NEW C, Nat \subseteq C, CR \in C, LF \in C, NEW payload \in Seq(C),
         NEW k \in 0 .. Len(Encode(payload)) - 1
  PROVE  ~Complete(SubSeq(Encode(payload), 1, k))
<1> DEFINE message == Encode(payload)
           part == SubSeq(message, 1, k)
<1>0. message = Encode(payload) /\ part = SubSeq(message, 1, k)
  OBVIOUS
<1> HIDE DEF message, part
<1>1. /\ message \in Seq(C) /\ Len(message) = Len(payload) + 5
      /\ message[1] = Len(payload) /\ message[2] = CR /\ message[3] = LF
  <2>1. <<>> \in Seq(C) /\ Len(<<>>) = 0
    BY EmptySeq
  <2>2. Framed(payload, <<>>, message \o <<>>, C)
    BY <1>0, <2>1, Framing, Zenon
  <2>3. message \o <<>> \in Seq(C)
    BY <2>2 DEF Framed
  <2>4. message \in Seq(C)
    BY EncodeType, Zenon DEF message
  <2>5. message \o <<>> = message
    BY <2>4, ConcatEmptySeq, Zenon
  <2> QED BY <2>1, <2>2, <2>4, <2>5, LenProperties DEF Framed
<1>2. Len(payload) \in Nat /\ k \in 0 .. Len(payload) + 4
  BY <1>0, <1>1, LenProperties
<1>3. part \in Seq(C) /\ Len(part) = k /\ \A i \in 1 .. k : part[i] = message[i]
  BY <1>0, <1>1, <1>2
<1>4. CASE k < 3
  <2>1. Seps(part) = {}
    BY <1>1, <1>2, <1>3, <1>4, SepAssumption DEF Seps
  <2> QED BY <1>0, <2>1 DEF Complete
<1>5. CASE k >= 3
  <2>0. part[1] = Len(payload) /\ part[2] = CR /\ part[3] = LF
    BY <1>1, <1>2, <1>3, <1>5
  <2>1. 2 \in Seps(part) /\ Min(Seps(part)) = 2
    <3>1. 2 \in Seps(part)
      BY <2>0, <1>2, <1>3, <1>5 DEF Seps
    <3>2. \A i \in Seps(part) : i \in Int /\ i >= 2
      BY <2>0, <1>2, <1>3, SepAssumption DEF Seps
    <3> QED BY <3>1, <3>2 DEF Min
  <2>2. Len(lenstr(part)) = 1 /\ stoi(lenstr(part)) = Len(payload)
    <3>1. lenstr(part) = SubSeq(part, 1, 1)
      BY <2>1 DEF lenstr
    <3>2. Len(SubSeq(part, 1, 1)) = 1 /\ SubSeq(part, 1, 1)[1] = part[1]
      BY <1>3, <1>5
    <3> QED BY <2>0, <3>1, <3>2 DEF stoi
  <2>3. totalSize(part) = Len(payload) + 5
    BY <1>2, <2>2 DEF totalSize, sep
  <2> QED BY <1>0, <1>2, <1>3, <2>3 DEF Complete
<1> QED BY <1>2, <1>4, <1>5
-----------------------------------------------------------------------------
(* The front of a stream, and what is behind it. *)
LEMMA Front ==
  ASSUME NEW C, NEW s \in Seq(C), NEW n \in 0 .. Len(s)
  PROVE  /\ SubSeq(s, 1, n) \in Seq(C) /\ Len(SubSeq(s, 1, n)) = n
         /\ \A i \in 1 .. n : SubSeq(s, 1, n)[i] = s[i]
BY SubSeqProperties, LenProperties

LEMMA Behind ==
  ASSUME NEW C, NEW s \in Seq(C), NEW n \in 0 .. Len(s)
  PROVE  /\ SubSeq(s, n + 1, Len(s)) \in Seq(C) /\ Len(SubSeq(s, n + 1, Len(s))) = Len(s) - n
         /\ \A i \in 1 .. Len(s) - n : SubSeq(s, n + 1, Len(s))[i] = s[i + n]
BY SubSeqProperties, LenProperties

(* Three parts put together in either order. *)
LEMMA Regrouped ==
  ASSUME NEW C, NEW x \in Seq(C), NEW y \in Seq(C), NEW z \in Seq(C), NEW yz \in Seq(C),
         NEW xy \in Seq(C), NEW left \in Seq(C), NEW right \in Seq(C),
         Joined(y, z, yz, C), Joined(x, y, xy, C), Joined(xy, z, left, C), Joined(x, yz, right, C)
  PROVE  left = right
<1>1. Len(x) \in Nat /\ Len(y) \in Nat /\ Len(z) \in Nat
  BY LenProperties
<1>2. /\ Len(yz) = Len(y) + Len(z) /\ Len(xy) = Len(x) + Len(y)
      /\ Len(left) = Len(x) + Len(y) + Len(z) /\ Len(right) = Len(left)
  BY <1>1 DEF Joined
<1>3. ASSUME NEW i \in 1 .. Len(left) PROVE left[i] = right[i]
  <2>1. CASE i <= Len(x)
    BY <1>1, <1>2, <2>1 DEF Joined
  <2>2. CASE i > Len(x) /\ i <= Len(x) + Len(y)
    <3>1. /\ i - Len(x) \in 1 .. Len(y) /\ i - Len(x) \in 1 .. Len(yz) /\ i \in 1 .. Len(xy)
          /\ (i - Len(x)) + Len(x) = i
      BY <1>1, <1>2, <2>2
    <3>2. left[i] = xy[i] /\ xy[(i - Len(x)) + Len(x)] = y[i - Len(x)]
      BY <3>1 DEF Joined
    <3>3. right[(i - Len(x)) + Len(x)] = yz[i - Len(x)] /\ yz[i - Len(x)] = y[i - Len(x)]
      BY <3>1 DEF Joined
    <3> QED
      BY <3>1, <3>2, <3>3
  <2>3. CASE i > Len(x) + Len(y)
    <3> DEFINE k == i - (Len(x) + Len(y))
    <3>1. /\ k \in 1 .. Len(z) /\ k + Len(xy) = i
          /\ k + Len(y) \in 1 .. Len(yz) /\ (k + Len(y)) + Len(x) = i
      BY <1>1, <1>2, <2>3
    <3> HIDE DEF k
    <3>2. left[k + Len(xy)] = z[k]
      BY <3>1 DEF Joined
    <3>3. right[(k + Len(y)) + Len(x)] = yz[k + Len(y)] /\ yz[k + Len(y)] = z[k]
      BY <3>1 DEF Joined
    <3> QED
      BY <3>1, <3>2, <3>3
  <2> QED
    BY <1>1, <1>2, <2>1, <2>2, <2>3
<1> QED
  BY <1>2, <1>3, SeqEqual

(* What Recv takes from the wire w goes to the queue q.                    *)
Takes(q, w, n, queue, rest) == queue = q \o SubSeq(w, 1, n) /\ rest = SubSeq(w, n + 1, Len(w))

LEMMA Received ==
  ASSUME NEW C, NEW q \in Seq(C), NEW w \in Seq(C), NEW n \in 1 .. Len(w),
         NEW queue, NEW left, Takes(q, w, n, queue, left)
  PROVE  queue \in Seq(C) /\ left \in Seq(C) /\ queue \o left = q \o w
<1> DEFINE front == SubSeq(w, 1, n)
           rest == SubSeq(w, n + 1, Len(w))
<1>1. Len(w) \in Nat
  BY LenProperties
<1>2. front \in Seq(C) /\ Len(front) = n /\ \A i \in 1 .. n : front[i] = w[i]
  BY <1>1, Front
<1>3. rest \in Seq(C) /\ Len(rest) = Len(w) - n /\ \A i \in 1 .. Len(w) - n : rest[i] = w[i + n]
  BY <1>1, Behind
<1> HIDE DEF front, rest
<1>4. Joined(front, rest, front \o rest, C)
  BY <1>2, <1>3, Joining, Zenon
<1>5. ASSUME NEW i \in 1 .. Len(w) PROVE (front \o rest)[i] = w[i]
  <2>1. CASE i <= n
    BY <1>1, <1>2, <1>4, <2>1 DEF Joined
  <2>2. CASE i > n
    <3>1. i - n \in 1 .. Len(rest) /\ (i - n) + n = i
      BY <1>1, <1>3, <2>2
    <3>2. (front \o rest)[(i - n) + n] = rest[i - n]
      BY <1>2, <1>4, <3>1 DEF Joined
    <3> QED
      BY <1>3, <3>1, <3>2
  <2>3. i <= n \/ i > n
    BY <1>1
  <2> QED
    BY <2>1, <2>2, <2>3, Zenon
<1>6. front \o rest \in Seq(C) /\ Len(front \o rest) = Len(w)
  BY <1>1, <1>2, <1>3, <1>4 DEF Joined
<1>7. front \o rest = w
  BY <1>5, <1>6, SeqEqual
<1>8. Joined(front, rest, w, C)
  BY <1>4, <1>7
<1>9. Joined(q, front, q \o front, C) /\ Joined(q, w, q \o w, C)
  BY <1>2, Joining, Zenon
<1>10. q \o front \in Seq(C) /\ q \o w \in Seq(C)
  BY <1>9 DEF Joined
<1>11. Joined(q \o front, rest, (q \o front) \o rest, C)
  BY <1>3, <1>10, Joining, Zenon
<1>12. (q \o front) \o rest \in Seq(C)
  BY <1>11 DEF Joined
<1>13. (q \o front) \o rest = q \o w
  BY <1>2, <1>3, <1>8, <1>9, <1>10, <1>11, <1>12, Regrouped, Zenon
<1>14. queue = q \o front /\ left = rest
  BY DEF front, rest, Takes
<1> QED
  BY <1>3, <1>10, <1>13, <1>14
-----------------------------------------------------------------------------
(* The calculator. A byte, as the model has it.                            *)
Descs == {"success", "div zero!", "mod zero!", "illegal operation!"}
Bytes == Int \cup Descs \cup {CR, LF}
Message == {p \in Seq(Bytes) : Len(p) = 3}

LEMMA BytesAreBytes == Nat \subseteq Bytes /\ CR \in Bytes /\ LF \in Bytes
BY DEF Bytes

(* All messages have eight bytes; those of P make up the stream.           *)
CarriesEight(stream, P) ==
  /\ Len(stream) = 8 * Len(P)
  /\ \A k \in 1 .. Len(P), j \in 1 .. 8 : stream[8 * (k - 1) + j] = Encode(P[k])[j]

LEMMA SizeIsEight ==
  ASSUME NEW C, NEW P \in Seq(C), NEW stream
  PROVE  Carries(stream, P) <=> CarriesEight(stream, P)
<1>1. Size = 8 /\ DOMAIN P = 1 .. Len(P)
  BY LenProperties DEF Size, sep
<1> QED
  BY <1>1, Zenon DEF Carries, CarriesEight

LEMMA OneMessage ==
  ASSUME NEW p \in Message
  PROVE  p \in Seq(Bytes) /\ Encode(p) \in Seq(Bytes) /\ Len(Encode(p)) = 8
<1>1. p \in Seq(Bytes) /\ Len(p) = 3
  BY DEF Message
<1>2. Encode(p) \in Seq(Bytes)
  BY <1>1, BytesAreBytes, EncodeType
<1>3. <<>> \in Seq(Bytes)
  OBVIOUS
<1>4. Framed(p, <<>>, Encode(p) \o <<>>, Bytes)
  BY <1>1, <1>3, BytesAreBytes, Framing
<1> QED
  BY <1>1, <1>2, <1>4 DEF Framed

(* A stream takes up another message at its end.                           *)
LEMMA CarriesMore ==
  ASSUME NEW P \in Seq(Message), NEW Q \in Seq(Message), NEW p \in Message,
         Len(Q) = Len(P) + 1, Q[Len(Q)] = p, \A k \in 1 .. Len(P) : Q[k] = P[k],
         NEW s \in Seq(Bytes), CarriesEight(s, P)
  PROVE  CarriesEight(s \o Encode(p), Q)
<1>1. PICK e \in Seq(Bytes) : e = Encode(p) /\ Len(e) = 8
  BY OneMessage
<1>2. /\ Len(s) = 8 * Len(P) /\ Len(P) \in Nat
      /\ \A k \in 1 .. Len(P), j \in 1 .. 8 : s[8 * (k - 1) + j] = Encode(P[k])[j]
  BY LenProperties DEF CarriesEight
<1>3. Joined(s, e, s \o e, Bytes)
  BY Joining, Zenon
<1>4. PICK t \in Seq(Bytes) : t = s \o e /\ Joined(s, e, t, Bytes)
  BY <1>3 DEF Joined
<1>5. /\ Len(t) = Len(s) + 8
      /\ \A i \in 1 .. Len(s) : t[i] = s[i]
      /\ \A i \in 1 .. 8 : t[i + Len(s)] = e[i]
  BY <1>1, <1>4 DEF Joined
<1>6. ASSUME NEW k \in 1 .. Len(Q), NEW j \in 1 .. 8
      PROVE  t[8 * (k - 1) + j] = Encode(Q[k])[j]
  <2>1. CASE k \in 1 .. Len(P)
    <3>1. 8 * (k - 1) + j \in 1 .. Len(s)
      BY <1>2, <2>1
    <3>2. t[8 * (k - 1) + j] = s[8 * (k - 1) + j] /\ Q[k] = P[k]
      BY <1>5, <2>1, <3>1
    <3>3. s[8 * (k - 1) + j] = Encode(P[k])[j]
      BY <1>2, <2>1
    <3> QED
      BY <3>2, <3>3
  <2>2. CASE k = Len(Q)
    <3>1. 8 * (k - 1) + j = j + Len(s)
      BY <1>2, <2>2
    <3> QED
      BY <1>1, <1>5, <2>2, <3>1
  <2> QED
    BY <1>2, <2>1, <2>2
<1>7. Len(t) = 8 * Len(Q)
  BY <1>2, <1>5
<1> QED
  BY <1>1, <1>4, <1>6, <1>7 DEF CarriesEight

(* One end has collected q, and w is on its way. If Decode finds a message *)
(* in q, it is the next one that is due, and without it q and w carry the  *)
(* others.                                                                 *)
LEMMA CarriesLess ==
  ASSUME NEW P \in Seq(Message), NEW Q \in Seq(Message),
         Len(Q) = Len(P) - 1, \A k \in 1 .. Len(Q) : Q[k] = P[k + 1], Len(P) > 0,
         NEW q \in Seq(Bytes), NEW w \in Seq(Bytes), CarriesEight(q \o w, P), Complete(q)
  PROVE  /\ Payload(q) = P[1] /\ Erased(q) \in Seq(Bytes)
         /\ CarriesEight(Erased(q) \o w, Q)
<1>0. Len(P) \in Nat /\ Len(q) \in Nat /\ Len(w) \in Nat /\ P[1] \in Message
  BY LenProperties
<1>1. PICK e \in Seq(Bytes) : e = Encode(P[1]) /\ Len(e) = 8
  BY <1>0, OneMessage
<1>2. Joined(q, w, q \o w, Bytes)
  BY Joining, Zenon
<1>3. PICK s \in Seq(Bytes) : s = q \o w /\ Joined(q, w, s, Bytes)
  BY <1>2 DEF Joined
<1>4. /\ Len(s) = 8 * Len(P)
      /\ \A k \in 1 .. Len(P), j \in 1 .. 8 : s[8 * (k - 1) + j] = Encode(P[k])[j]
  BY <1>3 DEF CarriesEight
<1>5. /\ Len(s) = Len(q) + Len(w)
      /\ \A i \in 1 .. Len(q) : s[i] = q[i]
      /\ \A i \in 1 .. Len(w) : s[i + Len(q)] = w[i]
  BY <1>3 DEF Joined
<1>6. \A j \in 1 .. 8 : s[j] = e[j]
  <2>1. 1 \in 1 .. Len(P)
    BY <1>0
  <2>2. \A j \in 1 .. 8 : s[8 * (1 - 1) + j] = e[j]
    BY <1>1, <1>4, <2>1
  <2>3. \A j \in 1 .. 8 : 8 * (1 - 1) + j = j
    OBVIOUS
  <2> QED
    BY <2>2, <2>3
<1>7. Len(q) >= 8
  <2> SUFFICES ASSUME Len(q) < 8 PROVE FALSE
    BY <1>0
  <2>0. Len(q) \in 0 .. 7
    <3>1. \A m \in Nat : m < 8 => m \in 0 .. 7
      OBVIOUS
    <3> QED
      BY <1>0, <3>1, Zenon
  <2>1. SubSeq(e, 1, Len(q)) = q
    <3>0. Len(q) \in 0 .. Len(e)
      <4>1. \A m \in 0 .. 7 : m \in 0 .. 8
        OBVIOUS
      <4> QED
        BY <1>1, <2>0, <4>1, Zenon
    <3>1. /\ SubSeq(e, 1, Len(q)) \in Seq(Bytes) /\ Len(SubSeq(e, 1, Len(q))) = Len(q)
          /\ \A i \in 1 .. Len(q) : SubSeq(e, 1, Len(q))[i] = e[i]
      BY <3>0, Front, Zenon
    <3>2. \A i \in 1 .. Len(q) : e[i] = q[i]
      <4>1. \A i \in 1 .. Len(q) : i \in 1 .. 8
        BY <1>0
      <4> QED
        BY <1>5, <1>6, <4>1
    <3> QED
      BY <3>1, <3>2, SeqEqual
  <2>2. P[1] \in Seq(Bytes)
    BY <1>0, OneMessage
  <2>3. Len(q) \in 0 .. Len(Encode(P[1])) - 1
    <3>1. Len(Encode(P[1])) - 1 = 7
      BY <1>1
    <3> QED
      BY <2>0, <3>1, Zenon
  <2>4. ~Complete(SubSeq(Encode(P[1]), 1, Len(q)))
    BY <2>2, <2>3, BytesAreBytes, TornMessageWaits, Zenon
  <2> QED
    BY <1>1, <2>1, <2>4
<1> DEFINE rest == SubSeq(q, 8 + 1, Len(q))
<1>8. /\ rest \in Seq(Bytes) /\ Len(rest) = Len(q) - 8
      /\ \A i \in 1 .. Len(q) - 8 : rest[i] = q[i + 8]
  <2>1. 8 \in 0 .. Len(q)
    BY <1>0, <1>7
  <2> QED
    BY <2>1, Behind, Zenon
<1> HIDE DEF rest
<1>9. q = e \o rest
  <2>1. Joined(e, rest, e \o rest, Bytes)
    BY <1>8, Joining, Zenon
  <2>2. PICK t \in Seq(Bytes) : t = e \o rest /\ Joined(e, rest, t, Bytes)
    BY <2>1 DEF Joined
  <2>3. /\ Len(t) = Len(q) /\ \A i \in 1 .. 8 : t[i] = e[i]
        /\ \A i \in 1 .. Len(q) - 8 : t[i + 8] = rest[i]
    <3>1. Len(t) = 8 + Len(rest)
      BY <1>1, <2>2 DEF Joined
    <3>2. Len(t) = Len(q)
      BY <1>0, <1>8, <3>1
    <3>3. \A i \in 1 .. Len(e) : t[i] = e[i]
      BY <2>2 DEF Joined
    <3>4. \A i \in 1 .. Len(rest) : t[i + Len(e)] = rest[i]
      BY <2>2 DEF Joined
    <3>5. Len(e) = 8 /\ Len(rest) = Len(q) - 8
      BY <1>1, <1>8
    <3> QED
      BY <3>2, <3>3, <3>4, <3>5, Zenon
  <2>4. ASSUME NEW i \in 1 .. Len(q) PROVE t[i] = q[i]
    <3>1. CASE i <= 8
      <4>1. i \in 1 .. 8
        BY <1>0, <3>1
      <4>2. i \in 1 .. Len(q)
        OBVIOUS
      <4>3. t[i] = e[i] /\ s[i] = e[i] /\ s[i] = q[i]
        BY <1>5, <1>6, <2>3, <4>1, <4>2, Zenon
      <4> QED
        BY <4>3
    <3>2. CASE i > 8
      <4>1. i - 8 \in 1 .. Len(q) - 8 /\ (i - 8) + 8 = i
        BY <1>0, <3>2
      <4>2. t[(i - 8) + 8] = rest[i - 8] /\ rest[i - 8] = q[(i - 8) + 8]
        BY <1>8, <2>3, <4>1, Zenon
      <4> QED
        BY <4>1, <4>2
    <3> QED
      BY <1>0, <3>1, <3>2
  <2>5. t = q
    BY <2>3, <2>4, SeqEqual
  <2> QED
    BY <2>2, <2>5
<1>10. Payload(q) = P[1] /\ Erased(q) = rest
  <2>1. P[1] \in Seq(Bytes)
    BY <1>0, OneMessage
  <2>2. /\ Complete(Encode(P[1]) \o rest) /\ Payload(Encode(P[1]) \o rest) = P[1]
        /\ Erased(Encode(P[1]) \o rest) = rest
    BY <1>8, <2>1, BytesAreBytes, DecodeEncode, Zenon
  <2>3. q = Encode(P[1]) \o rest
    BY <1>1, <1>9
  <2> QED
    BY <2>2, <2>3, Zenon
<1>11. Joined(rest, w, rest \o w, Bytes)
  BY <1>8, Joining, Zenon
<1>12. PICK r \in Seq(Bytes) : r = rest \o w /\ Joined(rest, w, r, Bytes)
  BY <1>11 DEF Joined
<1>13. /\ Len(r) = Len(s) - 8
       /\ \A i \in 1 .. Len(rest) : r[i] = rest[i]
       /\ \A i \in 1 .. Len(w) : r[i + Len(rest)] = w[i]
  <2>1. Len(r) = Len(rest) + Len(w)
    BY <1>12 DEF Joined
  <2>2. Len(r) = Len(s) - 8
    BY <1>0, <1>5, <1>8, <2>1
  <2> QED
    BY <1>12, <2>2 DEF Joined
<1>14. ASSUME NEW i \in 1 .. Len(s) - 8 PROVE r[i] = s[i + 8]
  <2>1. CASE i <= Len(rest)
    <3>1. i \in 1 .. Len(rest) /\ i \in 1 .. Len(q) - 8 /\ i + 8 \in 1 .. Len(q)
      BY <1>0, <1>7, <1>8, <2>1
    <3> QED
      BY <1>5, <1>8, <1>13, <3>1
  <2>2. CASE i > Len(rest)
    <3>1. /\ i - Len(rest) \in 1 .. Len(w) /\ (i - Len(rest)) + Len(rest) = i
          /\ (i - Len(rest)) + Len(q) = i + 8
      BY <1>0, <1>5, <1>7, <1>8, <2>2
    <3>2. r[(i - Len(rest)) + Len(rest)] = s[(i - Len(rest)) + Len(q)]
      BY <1>5, <1>13, <3>1
    <3> QED
      BY <3>1, <3>2
  <2> QED
    BY <1>0, <1>7, <1>8, <2>1, <2>2
<1>15. ASSUME NEW k \in 1 .. Len(Q), NEW j \in 1 .. 8
       PROVE  r[8 * (k - 1) + j] = Encode(Q[k])[j]
  <2>1. 8 * (k - 1) + j \in 1 .. Len(s) - 8 /\ k + 1 \in 1 .. Len(P)
    BY <1>0, <1>4
  <2>2. (8 * (k - 1) + j) + 8 = 8 * ((k + 1) - 1) + j
    OBVIOUS
  <2>3. s[8 * ((k + 1) - 1) + j] = Encode(P[k + 1])[j]
    BY <1>4, <2>1
  <2>4. r[8 * (k - 1) + j] = s[(8 * (k - 1) + j) + 8]
    BY <1>14, <2>1
  <2> QED
    BY <2>2, <2>3, <2>4
<1>16. Len(r) = 8 * Len(Q)
  BY <1>0, <1>4, <1>13
<1>17. CarriesEight(r, Q)
  BY <1>15, <1>16 DEF CarriesEight
<1> QED
  BY <1>8, <1>10, <1>12, <1>17
-----------------------------------------------------------------------------
(* A function on 1 .. n is a sequence. *)
LEMMA SequenceOf ==
  ASSUME NEW S, NEW n \in Nat, NEW f \in [1 .. n -> S]
  PROVE  f \in Seq(S) /\ Len(f) = n
<1>1. f \in Seq(S)
  BY SeqDef, Zenon
<1>2. DOMAIN f = 1 .. Len(f) /\ Len(f) \in Nat /\ DOMAIN f = 1 .. n
  BY <1>1, LenProperties
<1>3. \A m \in Nat : 1 .. m = 1 .. n => m = n
  <2> SUFFICES ASSUME NEW m \in Nat, 1 .. m = 1 .. n PROVE m = n
    OBVIOUS
  <2>1. \A i \in Int : i \in 1 .. m <=> i \in 1 .. n
    OBVIOUS
  <2>2. m >= 1 => m <= n
    BY <2>1
  <2>3. n >= 1 => n <= m
    BY <2>1
  <2> QED
    BY <2>2, <2>3
<1> QED
  BY <1>1, <1>2, <1>3, Zenon

(* What goes over the wire for r, and back. *)
Answer(r) == SerializeResponse(Calculator(r))

LEMMA ResponseFields ==
  ASSUME NEW r \in Requests
  PROVE  /\ Calculator(r).desc \in Descs /\ Calculator(r).errno \in Nat /\ Calculator(r).ret \in Int
<1>1. r.x \in 0 .. 19 /\ r.y \in 0 .. 19 /\ r.oper \in Nat
  BY CalcAssumption
<1>2. \A n \in Int : /\ Success(n).desc \in Descs /\ Success(n).errno \in Nat /\ Success(n).ret \in Int
  BY DEF Success, Descs
<1>3. \A c \in 1 .. 3 : /\ Failure(c).desc \in Descs /\ Failure(c).errno \in Nat /\ Failure(c).ret \in Int
  <2> SUFFICES ASSUME NEW c \in 1 .. 3
               PROVE  Failure(c).desc \in Descs /\ Failure(c).errno \in Nat /\ Failure(c).ret \in Int
    OBVIOUS
  <2>1. <<"div zero!", "mod zero!", "illegal operation!">>[c] \in Descs
    <3> DEFINE texts == <<"div zero!", "mod zero!", "illegal operation!">>
    <3>1. texts[1] \in Descs /\ texts[2] \in Descs /\ texts[3] \in Descs
      BY DEF Descs
    <3> HIDE DEF texts
    <3>2. c = 1 \/ c = 2 \/ c = 3
      OBVIOUS
    <3>3. texts[c] \in Descs
      BY <3>1, <3>2, Zenon
    <3> QED
      BY <3>3 DEF texts
  <2>2. Failure(c).desc = <<"div zero!", "mod zero!", "illegal operation!">>[c]
        /\ Failure(c).errno = c /\ Failure(c).ret = 0
    BY DEF Failure
  <2>3. c \in Nat /\ 0 \in Int
    OBVIOUS
  <2> QED
    BY <2>1, <2>2, <2>3, Zenon
<1>4. r.y # 0 => r.x \div r.y \in Int /\ r.x % r.y \in Int
  <2>1. \A x, y \in 0 .. 19 : y # 0 => x \div y \in Int /\ x % y \in Int
    OBVIOUS
  <2> QED
    BY <1>1, <2>1, Zenon
<1>5. r.x + r.y \in Int /\ r.x - r.y \in Int /\ r.x * r.y \in Int
  <2>1. \A x, y \in 0 .. 19 : x + y \in Int /\ x - y \in Int /\ x * y \in Int
    OBVIOUS
  <2> QED
    BY <1>1, <2>1, Zenon
<1>6. 1 \in 1 .. 3 /\ 2 \in 1 .. 3 /\ 3 \in 1 .. 3
  OBVIOUS
<1>7. \/ \E n \in Int : Calculator(r) = Success(n)
      \/ \E c \in 1 .. 3 : Calculator(r) = Failure(c)
  <2> HIDE DEF Success, Failure
  <2> QED
    BY <1>4, <1>5, <1>6 DEF Calculator
<1> QED
  BY <1>2, <1>3, <1>7, Zenon

LEMMA MessageTypes ==
  ASSUME NEW r \in Requests
  PROVE  SerializeRequest(r) \in Message /\ Answer(r) \in Message
<1>1. r.x \in Bytes /\ r.y \in Bytes /\ r.oper \in Bytes
  BY CalcAssumption DEF Bytes
<1>2. Calculator(r).desc \in Bytes /\ Calculator(r).errno \in Bytes /\ Calculator(r).ret \in Bytes
  BY ResponseFields DEF Bytes
<1>3. \A x, y, z \in Bytes : <<x, y, z>> \in Message
  BY DEF Message
<1> HIDE DEF Bytes, Message
<1> QED
  BY <1>1, <1>2, <1>3 DEF SerializeRequest, Answer, SerializeResponse

(* The server works on the request that was made. *)
LEMMA RequestSurvives ==
  ASSUME NEW r
  PROVE  Calculator(DeserializeRequest(SerializeRequest(r))) = Calculator(r)
<1> DEFINE d == DeserializeRequest(SerializeRequest(r))
<1>1. d.x = r.x /\ d.y = r.y /\ d.oper = r.oper
  BY DEF DeserializeRequest, SerializeRequest
<1> HIDE DEF d
<1> QED
  BY <1>1 DEF Calculator, d

(* What was sent behind what is there. *)
Sent(q, w, e, C) == w \o e \in Seq(C) /\ q \o w \in Seq(C) /\ (q \o w) \o e = q \o (w \o e)

LEMMA SentBehind ==
  ASSUME NEW C, NEW q \in Seq(C), NEW w \in Seq(C), NEW e \in Seq(C)
  PROVE  Sent(q, w, e, C)
<1>1. Joined(w, e, w \o e, C) /\ Joined(q, w, q \o w, C)
  BY Joining, Zenon
<1>2. w \o e \in Seq(C) /\ q \o w \in Seq(C)
  BY <1>1 DEF Joined
<1>3. Joined(q \o w, e, (q \o w) \o e, C) /\ Joined(q, w \o e, q \o (w \o e), C)
  BY <1>2, Joining, Zenon
<1>4. (q \o w) \o e \in Seq(C) /\ q \o (w \o e) \in Seq(C)
  BY <1>3 DEF Joined
<1>5. (q \o w) \o e = q \o (w \o e)
  BY <1>1, <1>2, <1>3, <1>4, Regrouped, Zenon
<1> QED
  BY <1>2, <1>5 DEF Sent

(* A Recv: nothing changes of what queue and wire carry together; and if a *)
(* message is complete then, it is the next one.                           *)
LEMMA RecvKeeps ==
  ASSUME NEW P \in Seq(Message), NEW q \in Seq(Bytes), NEW w \in Seq(Bytes),
         CarriesEight(q \o w, P), NEW n \in 1 .. Len(w),
         NEW queue, NEW rest, Takes(q, w, n, queue, rest)
  PROVE  /\ queue \in Seq(Bytes) /\ rest \in Seq(Bytes) /\ CarriesEight(queue \o rest, P)
         /\ Complete(queue) => Len(P) > 0
<1>1. queue \in Seq(Bytes) /\ rest \in Seq(Bytes) /\ queue \o rest = q \o w
  BY Received, SMT
<1>2. CarriesEight(queue \o rest, P)
  BY <1>1
<1>3. ASSUME Complete(queue) PROVE Len(P) > 0
  <2>1. Len(queue) \in Nat /\ Len(rest) \in Nat /\ Len(P) \in Nat
    BY <1>1, LenProperties
  <2>2. Len(queue) > 0
    BY <1>3, <2>1 DEF Complete, Seps
  <2>3. Joined(queue, rest, queue \o rest, Bytes)
    BY <1>1, Joining, Zenon
  <2>4. Len(queue \o rest) = Len(queue) + Len(rest)
    BY <2>3 DEF Joined
  <2>5. Len(queue \o rest) = 8 * Len(P)
    BY <1>2 DEF CarriesEight
  <2> QED
    BY <2>1, <2>2, <2>4, <2>5
<1> QED
  BY <1>1, <1>2, <1>3
-----------------------------------------------------------------------------
(* The connection.                                                         *)
Response(r) == DeserializeResponse(Answer(r))
Responses == {Response(r) : r \in Requests}

CalcTypes ==
  /\ asked \in Seq(Requests) /\ answers \in Seq(Responses) /\ served \in Nat
  /\ Len(answers) <= served /\ served <= Len(asked)
  /\ toServer \in Seq(Bytes) /\ serverQueue \in Seq(Bytes)
  /\ toClient \in Seq(Bytes) /\ clientQueue \in Seq(Bytes)

CalcInv ==
  /\ CalcTypes
  /\ \A k \in 1 .. Len(answers) : answers[k] = Response(asked[k])
  /\ CarriesEight(serverQueue \o toServer, Unanswered)
  /\ CarriesEight(clientQueue \o toClient, Unread)

(* What is on the way, as sequences of messages, before and after a step.  *)
UnansweredOf(a, s) == [k \in 1 .. Len(a) - s |-> SerializeRequest(a[s + k])]
UnreadOf(a, s, n) == [k \in 1 .. s - n |-> Answer(a[n + k])]

LEMMA WayOf ==
  ASSUME NEW a \in Seq(Requests), NEW s \in Nat, NEW n \in Nat, n <= s, s <= Len(a)
  PROVE  /\ UnansweredOf(a, s) \in Seq(Message) /\ Len(UnansweredOf(a, s)) = Len(a) - s
         /\ \A k \in 1 .. Len(a) - s : UnansweredOf(a, s)[k] = SerializeRequest(a[s + k])
         /\ UnreadOf(a, s, n) \in Seq(Message) /\ Len(UnreadOf(a, s, n)) = s - n
         /\ \A k \in 1 .. s - n : UnreadOf(a, s, n)[k] = Answer(a[n + k])
<1>1. Len(a) - s \in Nat /\ s - n \in Nat /\ Len(a) \in Nat
  BY LenProperties
<1>2. \A i \in 1 .. Len(a) : a[i] \in Requests
  OBVIOUS
<1>3. ASSUME NEW k \in 1 .. Len(a) - s PROVE SerializeRequest(a[s + k]) \in Message
  <2>1. s + k \in 1 .. Len(a)
    BY <1>1
  <2> QED
    BY <1>2, <2>1, MessageTypes, Zenon
<1>4. ASSUME NEW k \in 1 .. s - n PROVE Answer(a[n + k]) \in Message
  <2>1. n + k \in 1 .. Len(a)
    BY <1>1
  <2> QED
    BY <1>2, <2>1, MessageTypes, Zenon
<1>5. UnansweredOf(a, s) \in [1 .. Len(a) - s -> Message]
  BY <1>3, Zenon DEF UnansweredOf
<1>6. UnreadOf(a, s, n) \in [1 .. s - n -> Message]
  BY <1>4, Zenon DEF UnreadOf
<1>7. UnansweredOf(a, s) \in Seq(Message) /\ Len(UnansweredOf(a, s)) = Len(a) - s
  BY <1>1, <1>5, SequenceOf, Zenon
<1>8. UnreadOf(a, s, n) \in Seq(Message) /\ Len(UnreadOf(a, s, n)) = s - n
  BY <1>1, <1>6, SequenceOf, Zenon
<1>9. \A k \in 1 .. Len(a) - s : UnansweredOf(a, s)[k] = SerializeRequest(a[s + k])
  BY Zenon DEF UnansweredOf
<1>10. \A k \in 1 .. s - n : UnreadOf(a, s, n)[k] = Answer(a[n + k])
  BY Zenon DEF UnreadOf
<1> QED
  BY <1>7, <1>8, <1>9, <1>10

LEMMA OnTheWay ==
  /\ Unanswered = UnansweredOf(asked, served) /\ Unread = UnreadOf(asked, served, Len(answers))
  /\ Unanswered' = UnansweredOf(asked', served')
  /\ Unread' = UnreadOf(asked', served', Len(answers'))
BY DEF Unanswered, Unread, UnansweredOf, UnreadOf, Answer

LEMMA CalcLengths ==
  CalcTypes => Len(asked) \in Nat /\ Len(answers) \in Nat
BY LenProperties DEF CalcTypes

LEMMA CalcInit == Init => CalcInv
<1> SUFFICES ASSUME Init PROVE CalcInv
  OBVIOUS
<1>1. CalcTypes /\ Len(asked) = 0 /\ Len(answers) = 0 /\ served = 0
  BY DEF Init, CalcTypes
<1>2. serverQueue \o toServer = <<>> /\ clientQueue \o toClient = <<>> /\ Len(<<>>) = 0
  BY DEF Init
<1>3. Len(Unanswered) = 0 /\ Len(Unread) = 0
  <2>1. /\ asked \in Seq(Requests) /\ served \in Nat /\ Len(answers) \in Nat
        /\ Len(answers) <= served /\ served <= Len(asked)
    BY <1>1, CalcLengths DEF CalcTypes
  <2>2. /\ Len(UnansweredOf(asked, served)) = Len(asked) - served
        /\ Len(UnreadOf(asked, served, Len(answers))) = served - Len(answers)
    BY <2>1, WayOf, Zenon
  <2> QED
    BY <1>1, <2>2, OnTheWay
<1>4. \A s : Len(s) = 0 => CarriesEight(<<>>, s)
  BY <1>2 DEF CarriesEight
<1>5. CarriesEight(<<>>, Unanswered) /\ CarriesEight(<<>>, Unread)
  BY <1>3, <1>4, Zenon
<1> QED
  BY <1>1, <1>2, <1>5 DEF CalcInv

(* A request is sent. *)
LEMMA CalcSend == CalcInv /\ ClientSend => CalcInv'
<1> SUFFICES ASSUME CalcInv, ClientSend PROVE CalcInv'
  OBVIOUS
<1> USE DEF CalcInv
<1>1. PICK r \in Requests :
        asked' = Append(asked, r) /\ toServer' = toServer \o Encode(SerializeRequest(r))
  BY DEF ClientSend
<1>2. UNCHANGED <<answers, toClient, serverQueue, clientQueue, served>>
  BY DEF ClientSend
<1> DEFINE n == Len(asked)
<1>3. n \in Nat /\ asked \in Seq(Requests) /\ Len(answers) <= served /\ served <= n
      /\ Len(answers) \in Nat /\ served \in Nat
  BY CalcLengths DEF CalcTypes
<1>4. /\ asked' \in Seq(Requests) /\ Len(asked') = n + 1 /\ asked'[n + 1] = r
      /\ \A i \in 1 .. n : asked'[i] = asked[i]
  BY <1>1, <1>3
<1> HIDE DEF n
<1>5. PICK e \in Seq(Bytes) : e = Encode(SerializeRequest(r))
  BY MessageTypes, OneMessage
<1>6. /\ toServer \o e \in Seq(Bytes) /\ serverQueue \o toServer \in Seq(Bytes)
      /\ (serverQueue \o toServer) \o e = serverQueue \o (toServer \o e)
  <2>1. toServer \in Seq(Bytes) /\ serverQueue \in Seq(Bytes) /\ e \in Seq(Bytes)
    BY <1>5 DEF CalcTypes
  <2>2. Sent(serverQueue, toServer, e, Bytes)
    BY <2>1, SentBehind, Zenon
  <2> QED
    BY <2>2 DEF Sent
<1>7. CalcTypes'
  BY <1>1, <1>2, <1>3, <1>4, <1>5, <1>6 DEF CalcTypes
<1>8. CarriesEight((serverQueue \o toServer) \o e, Unanswered')
  <2>1. /\ Unanswered \in Seq(Message) /\ Len(Unanswered) = n - served
        /\ \A k \in 1 .. n - served : Unanswered[k] = SerializeRequest(asked[served + k])
    BY <1>3, WayOf, OnTheWay DEF n
  <2>2. /\ Unanswered' \in Seq(Message) /\ Len(Unanswered') = (n + 1) - served
        /\ \A k \in 1 .. (n + 1) - served : Unanswered'[k] = SerializeRequest(asked'[served + k])
    <3>1. /\ Unanswered' = UnansweredOf(asked', served) /\ served <= Len(asked')
          /\ served \in Nat /\ served <= served /\ asked' \in Seq(Requests)
      BY <1>2, <1>3, <1>4, OnTheWay
    <3>2. PICK a \in Seq(Requests) : a = asked' /\ served <= Len(a) /\ Unanswered' = UnansweredOf(a, served)
      BY <3>1
    <3>3. /\ Unanswered' \in Seq(Message) /\ Len(Unanswered') = Len(a) - served
          /\ \A k \in 1 .. Len(a) - served : Unanswered'[k] = SerializeRequest(a[served + k])
      BY <1>3, <3>2, WayOf, Zenon
    <3> QED
      BY <1>4, <3>2, <3>3, Zenon
  <2>3. ASSUME NEW k \in 1 .. n - served PROVE Unanswered'[k] = Unanswered[k]
    <3>1. served + k \in 1 .. n /\ k \in 1 .. (n + 1) - served
      BY <1>3
    <3> QED
      BY <1>4, <2>1, <2>2, <3>1
  <2>4. Unanswered'[Len(Unanswered')] = SerializeRequest(r)
    <3>1. (n + 1) - served \in 1 .. (n + 1) - served /\ served + ((n + 1) - served) = n + 1
      BY <1>3
    <3> QED
      BY <1>4, <2>2, <3>1
  <2>5. Len(Unanswered') = Len(Unanswered) + 1
    BY <1>3, <2>1, <2>2
  <2> QED
    BY <1>5, <1>6, <2>1, <2>2, <2>3, <2>4, <2>5, MessageTypes, CarriesMore
<1>9. Unread' = Unread
  <2>1. \A k \in 1 .. served - Len(answers) : asked'[Len(answers) + k] = asked[Len(answers) + k]
    BY <1>3, <1>4
  <2> QED
    BY <1>2, <2>1 DEF Unread
<1>10. \A k \in 1 .. Len(answers)' : answers'[k] = Response(asked'[k])
  BY <1>2, <1>3, <1>4
<1>11. CarriesEight(serverQueue' \o toServer', Unanswered')
  BY <1>1, <1>2, <1>5, <1>6, <1>8
<1>12. CarriesEight(clientQueue' \o toClient', Unread')
  BY <1>2, <1>9
<1> QED
  BY <1>7, <1>10, <1>11, <1>12

(* The client reads: a response, if one is complete then. *)
LEMMA CalcRead == CalcInv /\ ClientRecv => CalcInv'
<1> SUFFICES ASSUME CalcInv, ClientRecv PROVE CalcInv'
  OBVIOUS
<1> USE DEF CalcInv
<1>1. UNCHANGED <<asked, toServer, serverQueue, served>> /\ Len(answers) < Len(asked)
  BY DEF ClientRecv
<1>2. PICK n \in 1 .. Len(toClient) :
        LET queue == clientQueue \o SubSeq(toClient, 1, n) IN
          /\ toClient' = SubSeq(toClient, n + 1, Len(toClient))
          /\ IF Complete(queue)
             THEN /\ answers' = Append(answers, DeserializeResponse(Payload(queue)))
                  /\ clientQueue' = Erased(queue)
             ELSE clientQueue' = queue /\ UNCHANGED answers
  BY DEF ClientRecv
<1>3. PICK queue, rest : /\ queue = clientQueue \o SubSeq(toClient, 1, n)
                         /\ rest = SubSeq(toClient, n + 1, Len(toClient))
  OBVIOUS
<1>4. /\ toClient' = rest
      /\ \/ /\ Complete(queue) /\ answers' = Append(answers, DeserializeResponse(Payload(queue)))
            /\ clientQueue' = Erased(queue)
         \/ clientQueue' = queue /\ UNCHANGED answers
  BY <1>2, <1>3
<1> DEFINE m == Len(answers)
<1>5. /\ asked \in Seq(Requests) /\ served \in Nat /\ m \in Nat /\ m <= served /\ served <= Len(asked)
      /\ Len(asked) \in Nat /\ answers \in Seq(Responses)
      /\ clientQueue \in Seq(Bytes) /\ toClient \in Seq(Bytes)
      /\ \A k \in 1 .. m : answers[k] = Response(asked[k])
  BY CalcLengths DEF CalcTypes
<1>6. PICK P \in Seq(Message) :
        /\ P = Unread /\ Len(P) = served - m
        /\ \A k \in 1 .. served - m : P[k] = Answer(asked[m + k])
  BY <1>5, WayOf, OnTheWay
<1>7. /\ queue \in Seq(Bytes) /\ rest \in Seq(Bytes) /\ CarriesEight(queue \o rest, P)
      /\ Complete(queue) => Len(P) > 0
  <2>1. Takes(clientQueue, toClient, n, queue, rest) /\ CarriesEight(clientQueue \o toClient, P)
    BY <1>3, <1>6 DEF Takes
  <2> QED
    BY <1>5, <2>1, RecvKeeps, Zenon
<1>8. Unanswered' = Unanswered
  BY <1>1 DEF Unanswered
<1>9. CarriesEight(serverQueue' \o toServer', Unanswered')
  BY <1>1, <1>8
<1>10. CASE clientQueue' = queue /\ UNCHANGED answers
  <2>1. Unread' = Unread
    BY <1>1, <1>10 DEF Unread
  <2>2. CarriesEight(clientQueue' \o toClient', Unread')
    BY <1>4, <1>6, <1>7, <1>10, <2>1
  <2>3. CalcTypes'
    BY <1>1, <1>4, <1>7, <1>10 DEF CalcTypes
  <2> QED
    BY <1>1, <1>9, <1>10, <2>2, <2>3
<1>11. CASE /\ Complete(queue) /\ answers' = Append(answers, DeserializeResponse(Payload(queue)))
            /\ clientQueue' = Erased(queue)
  <2>1. m + 1 <= served /\ m + 1 \in 1 .. Len(asked) /\ 1 \in 1 .. served - m
    BY <1>5, <1>6, <1>7, <1>11
  <2>2. PICK Q \in Seq(Message) :
          /\ Q = UnreadOf(asked, served, m + 1) /\ Len(Q) = served - (m + 1)
          /\ \A k \in 1 .. served - (m + 1) : Q[k] = Answer(asked[(m + 1) + k])
    BY <1>5, <2>1, WayOf
  <2>3. Len(Q) = Len(P) - 1 /\ Len(P) > 0 /\ \A k \in 1 .. Len(Q) : Q[k] = P[k + 1]
    <3>1. ASSUME NEW k \in 1 .. Len(Q) PROVE Q[k] = P[k + 1]
      <4>1. k + 1 \in 1 .. served - m /\ k \in 1 .. served - (m + 1) /\ (m + 1) + k = m + (k + 1)
        BY <1>5, <2>2
      <4> QED
        BY <1>6, <2>2, <4>1
    <3> QED
      BY <1>5, <1>6, <1>7, <1>11, <2>2, <3>1
  <2>4. /\ Payload(queue) = P[1] /\ Erased(queue) \in Seq(Bytes)
        /\ CarriesEight(Erased(queue) \o rest, Q)
    BY <1>7, <1>11, <2>3, CarriesLess, Zenon
  <2>5. DeserializeResponse(Payload(queue)) = Response(asked[m + 1])
    BY <1>6, <2>1, <2>4 DEF Response
  <2>6. asked[m + 1] \in Requests /\ Response(asked[m + 1]) \in Responses
    BY <1>5, <2>1 DEF Responses
  <2>7. /\ answers' \in Seq(Responses) /\ Len(answers') = m + 1
        /\ answers'[m + 1] = Response(asked[m + 1]) /\ \A k \in 1 .. m : answers'[k] = answers[k]
    <3> HIDE DEF Response, Responses
    <3> QED
      BY <1>5, <1>11, <2>5, <2>6
  <2>8. CalcTypes'
    BY <1>1, <1>4, <1>5, <1>7, <1>11, <2>1, <2>4, <2>7 DEF CalcTypes
  <2>9. Unread' = Q
    BY <1>1, <2>2, <2>7, OnTheWay
  <2>10. CarriesEight(clientQueue' \o toClient', Unread')
    BY <1>4, <1>11, <2>4, <2>9
  <2>11. \A k \in 1 .. Len(answers)' : answers'[k] = Response(asked'[k])
    BY <1>1, <1>5, <2>7
  <2> QED
    BY <1>9, <2>8, <2>10, <2>11
<1> QED
  BY <1>4, <1>10, <1>11

(* The server reads: it answers a request, if one is complete then. *)
LEMMA CalcExecute == CalcInv /\ IOExecute => CalcInv'
<1> SUFFICES ASSUME CalcInv, IOExecute PROVE CalcInv'
  OBVIOUS
<1> USE DEF CalcInv
<1>1. UNCHANGED <<asked, answers, clientQueue>>
  BY DEF IOExecute
<1>2. PICK n \in 1 .. Len(toServer) :
        LET queue == serverQueue \o SubSeq(toServer, 1, n)
            response == Calculator(DeserializeRequest(Payload(queue)))
        IN
          /\ toServer' = SubSeq(toServer, n + 1, Len(toServer))
          /\ IF Complete(queue)
             THEN /\ serverQueue' = Erased(queue)
                  /\ toClient' = toClient \o Encode(SerializeResponse(response))
                  /\ served' = served + 1 /\ resetDue' = (resetDue \/ quit)
             ELSE serverQueue' = queue /\ UNCHANGED <<toClient, served, resetDue>>
  BY DEF IOExecute
<1>3. PICK queue, rest : /\ queue = serverQueue \o SubSeq(toServer, 1, n)
                         /\ rest = SubSeq(toServer, n + 1, Len(toServer))
  OBVIOUS
<1>4. /\ toServer' = rest
      /\ \/ /\ Complete(queue) /\ serverQueue' = Erased(queue) /\ served' = served + 1
            /\ toClient' = toClient \o
                 Encode(SerializeResponse(Calculator(DeserializeRequest(Payload(queue)))))
         \/ serverQueue' = queue /\ UNCHANGED <<toClient, served>>
  BY <1>2, <1>3
<1> DEFINE m == Len(answers)
<1>5. /\ asked \in Seq(Requests) /\ served \in Nat /\ m \in Nat /\ m <= served /\ served <= Len(asked)
      /\ Len(asked) \in Nat /\ answers \in Seq(Responses)
      /\ clientQueue \in Seq(Bytes) /\ toClient \in Seq(Bytes)
      /\ serverQueue \in Seq(Bytes) /\ toServer \in Seq(Bytes)
      /\ \A k \in 1 .. m : answers[k] = Response(asked[k])
  BY CalcLengths DEF CalcTypes
<1>6. PICK P \in Seq(Message) :
        /\ P = Unanswered /\ Len(P) = Len(asked) - served
        /\ \A k \in 1 .. Len(asked) - served : P[k] = SerializeRequest(asked[served + k])
  BY <1>5, WayOf, OnTheWay
<1>7. /\ queue \in Seq(Bytes) /\ rest \in Seq(Bytes) /\ CarriesEight(queue \o rest, P)
      /\ Complete(queue) => Len(P) > 0
  <2>1. Takes(serverQueue, toServer, n, queue, rest) /\ CarriesEight(serverQueue \o toServer, P)
    BY <1>3, <1>6 DEF Takes
  <2> QED
    BY <1>5, <2>1, RecvKeeps, Zenon
<1>8. \A k \in 1 .. Len(answers)' : answers'[k] = Response(asked'[k])
  BY <1>1, <1>5
<1>9. CASE serverQueue' = queue /\ UNCHANGED <<toClient, served>>
  <2>1. Unread' = Unread /\ Unanswered' = Unanswered
    BY <1>1, <1>9 DEF Unread, Unanswered
  <2>2. CarriesEight(serverQueue' \o toServer', Unanswered')
    BY <1>4, <1>6, <1>7, <1>9, <2>1
  <2>3. CarriesEight(clientQueue' \o toClient', Unread')
    BY <1>1, <1>9, <2>1
  <2>4. CalcTypes'
    BY <1>1, <1>4, <1>7, <1>9 DEF CalcTypes
  <2> QED
    BY <1>8, <2>2, <2>3, <2>4
<1>10. CASE /\ Complete(queue) /\ serverQueue' = Erased(queue) /\ served' = served + 1
            /\ toClient' = toClient \o
                 Encode(SerializeResponse(Calculator(DeserializeRequest(Payload(queue)))))
  <2>1. /\ served + 1 \in Nat /\ served + 1 <= Len(asked) /\ served + 1 \in 1 .. Len(asked)
        /\ m <= served + 1 /\ 1 \in 1 .. Len(asked) - served
    BY <1>5, <1>6, <1>7, <1>10
  <2>2. PICK Q \in Seq(Message) :
          /\ Q = UnansweredOf(asked, served + 1) /\ Len(Q) = Len(asked) - (served + 1)
          /\ \A k \in 1 .. Len(asked) - (served + 1) : Q[k] = SerializeRequest(asked[(served + 1) + k])
    BY <1>5, <2>1, WayOf
  <2>3. Len(Q) = Len(P) - 1 /\ Len(P) > 0 /\ \A k \in 1 .. Len(Q) : Q[k] = P[k + 1]
    <3>1. ASSUME NEW k \in 1 .. Len(Q) PROVE Q[k] = P[k + 1]
      <4>1. /\ k + 1 \in 1 .. Len(asked) - served /\ k \in 1 .. Len(asked) - (served + 1)
            /\ (served + 1) + k = served + (k + 1)
        BY <1>5, <2>2
      <4> QED
        BY <1>6, <2>2, <4>1
    <3>2. Len(Q) = Len(P) - 1 /\ Len(P) > 0
      BY <1>5, <1>6, <2>1, <2>2
    <3> QED
      BY <3>1, <3>2, Zenon
  <2>4. /\ Payload(queue) = P[1] /\ Erased(queue) \in Seq(Bytes)
        /\ CarriesEight(Erased(queue) \o rest, Q)
    BY <1>7, <1>10, <2>3, CarriesLess, Zenon
  <2>5. PICK r \in Requests : r = asked[served + 1] /\ P[1] = SerializeRequest(r)
    BY <1>5, <1>6, <2>1
  <2>6. PICK e \in Seq(Bytes) : e = Encode(Answer(r)) /\ toClient' = toClient \o e
    <3>1. SerializeResponse(Calculator(DeserializeRequest(Payload(queue)))) = Answer(r)
      BY <2>4, <2>5, RequestSurvives DEF Answer
    <3>2. Encode(Answer(r)) \in Seq(Bytes)
      BY MessageTypes, OneMessage, Zenon
    <3> QED
      BY <1>10, <3>1, <3>2
  <2>7. /\ toClient \o e \in Seq(Bytes) /\ clientQueue \o toClient \in Seq(Bytes)
        /\ (clientQueue \o toClient) \o e = clientQueue \o (toClient \o e)
    <3>1. clientQueue \in Seq(Bytes) /\ toClient \in Seq(Bytes) /\ e \in Seq(Bytes)
      BY <1>5, <2>6
    <3>2. Sent(clientQueue, toClient, e, Bytes)
      BY <3>1, SentBehind, Zenon
    <3> QED
      BY <3>2 DEF Sent
  <2>8. PICK R \in Seq(Message) :
          /\ R = Unread /\ Len(R) = served - m
          /\ \A k \in 1 .. served - m : R[k] = Answer(asked[m + k])
    BY <1>5, WayOf, OnTheWay
  <2>9. PICK S \in Seq(Message) :
          /\ S = UnreadOf(asked, served + 1, m) /\ Len(S) = (served + 1) - m
          /\ \A k \in 1 .. (served + 1) - m : S[k] = Answer(asked[m + k])
    BY <1>5, <2>1, WayOf
  <2>10. Len(S) = Len(R) + 1 /\ S[Len(S)] = Answer(r) /\ \A k \in 1 .. Len(R) : S[k] = R[k]
    <3>1. /\ (served + 1) - m \in 1 .. (served + 1) - m /\ m + ((served + 1) - m) = served + 1
          /\ \A k \in 1 .. served - m : k \in 1 .. (served + 1) - m
      BY <1>5
    <3>2. Len(S) = Len(R) + 1
      BY <1>5, <2>8, <2>9
    <3>3. S[(served + 1) - m] = Answer(asked[served + 1])
      BY <2>9, <3>1
    <3>4. S[Len(S)] = Answer(r)
      BY <2>5, <2>9, <3>3
    <3>5. ASSUME NEW k \in 1 .. Len(R) PROVE S[k] = R[k]
      BY <2>8, <2>9, <3>1
    <3> QED
      BY <3>2, <3>4, <3>5
  <2>11. CarriesEight((clientQueue \o toClient) \o e, S)
    <3>1. Answer(r) \in Message /\ CarriesEight(clientQueue \o toClient, R)
      BY <2>8, MessageTypes
    <3>2. CarriesEight((clientQueue \o toClient) \o Encode(Answer(r)), S)
      BY <2>7, <2>10, <3>1, CarriesMore
    <3> QED
      BY <2>6, <3>2
  <2>12. Unread' = S /\ Unanswered' = Q
    BY <1>1, <1>10, <2>2, <2>9, OnTheWay
  <2>13. CarriesEight(clientQueue' \o toClient', Unread')
    BY <1>1, <2>6, <2>7, <2>11, <2>12
  <2>14. CarriesEight(serverQueue' \o toServer', Unanswered')
    BY <1>4, <1>10, <2>4, <2>12
  <2>15. CalcTypes'
    BY <1>1, <1>4, <1>5, <1>7, <1>10, <2>1, <2>4, <2>6, <2>7 DEF CalcTypes
  <2> QED
    BY <1>8, <2>13, <2>14, <2>15
<1> QED
  BY <1>4, <1>9, <1>10

LEMMA CalcSame ==
  CalcInv /\ UNCHANGED <<asked, answers, wires, serverQueue, clientQueue, served>> => CalcInv'
<1> SUFFICES ASSUME CalcInv, UNCHANGED <<asked, answers, wires, serverQueue, clientQueue, served>>
             PROVE  CalcInv'
  OBVIOUS
<1>1. UNCHANGED <<asked, answers, served, toServer, toClient, serverQueue, clientQueue>>
  BY DEF wires
<1>2. Unread' = Unread /\ Unanswered' = Unanswered /\ CalcTypes'
  BY <1>1 DEF Unread, Unanswered, CalcTypes, CalcInv
<1> QED
  BY <1>1, <1>2 DEF CalcInv

LEMMA CalcStep == CalcInv /\ [ServicesNext]_allVars => CalcInv'
<1> SUFFICES ASSUME CalcInv, [ServicesNext]_allVars PROVE CalcInv'
  OBVIOUS
<1>1. CASE Next
  <2>1. CASE ClientSend
    BY <2>1, CalcSend
  <2>2. CASE ClientRecv
    BY <2>2, CalcRead
  <2>3. CASE IOExecute
    BY <2>3, CalcExecute
  <2>4. CASE ClientQuit \/ Start \/ IOExecuteBroken \/ ServerClose
    BY <2>4, CalcSame, Zenon DEF ClientQuit, Start, IOExecuteBroken, ServerClose
  <2> QED
    BY <1>1, <2>1, <2>2, <2>3, <2>4, Zenon DEF Next, Server, Execute, Client
<1>2. CASE UNCHANGED vars
  BY <1>2, CalcSame DEF vars
<1>3. Next \/ UNCHANGED vars
  BY Zenon DEF ServicesNext, Calc, InHttp, InEcho, InUdp, InPort, Only, allVars
<1> QED
  BY <1>1, <1>2, <1>3

(* A reset is due only to a client that has quit with a response to come,  *)
(* and the process falls only with a second one.                           *)
CalcEnds ==
  /\ resetDue => quit /\ Len(answers) < served
  /\ fallen => quit /\ Len(answers) + 2 <= Len(asked)

(* Whoever finds a whole message in what the server has got finds a        *)
(* request that is not answered.                                           *)
LEMMA CompleteIsDue ==
  ASSUME CalcInv, NEW n \in 1 .. Len(toServer), Complete(serverQueue \o SubSeq(toServer, 1, n))
  PROVE  served < Len(asked)
<1>1. /\ asked \in Seq(Requests) /\ served \in Nat /\ Len(answers) \in Nat /\ Len(asked) \in Nat
      /\ Len(answers) <= served /\ served <= Len(asked)
      /\ serverQueue \in Seq(Bytes) /\ toServer \in Seq(Bytes)
  BY CalcLengths DEF CalcInv, CalcTypes
<1>2. PICK P \in Seq(Message) : P = Unanswered /\ Len(P) = Len(asked) - served
  BY <1>1, WayOf, OnTheWay
<1>3. PICK queue, rest : /\ queue = serverQueue \o SubSeq(toServer, 1, n)
                         /\ rest = SubSeq(toServer, n + 1, Len(toServer))
  OBVIOUS
<1>4. Takes(serverQueue, toServer, n, queue, rest) /\ CarriesEight(serverQueue \o toServer, P)
  BY <1>2, <1>3 DEF Takes, CalcInv
<1>5. Complete(queue) => Len(P) > 0
  BY <1>1, <1>4, RecvKeeps, Zenon
<1> QED
  BY <1>1, <1>2, <1>3, <1>5

(* While something is on its way to the client, a response is due to it.   *)
LEMMA WireIsDue ==
  ASSUME CalcInv, toClient # <<>>
  PROVE  Len(answers) < served
<1>1. /\ asked \in Seq(Requests) /\ served \in Nat /\ Len(answers) \in Nat
      /\ Len(answers) <= served /\ served <= Len(asked)
      /\ clientQueue \in Seq(Bytes) /\ toClient \in Seq(Bytes)
  BY CalcLengths DEF CalcInv, CalcTypes
<1>2. PICK P \in Seq(Message) : P = Unread /\ Len(P) = served - Len(answers)
  <2>1. PICK n \in Nat : n = Len(answers) /\ n <= served
    BY <1>1
  <2>2. UnreadOf(asked, served, n) \in Seq(Message) /\ Len(UnreadOf(asked, served, n)) = served - n
    BY <1>1, <2>1, WayOf, Zenon
  <2> QED
    BY <2>1, <2>2, OnTheWay
<1>3. Len(clientQueue \o toClient) = 8 * Len(P)
  BY <1>2 DEF CalcInv, CarriesEight
<1>4. Joined(clientQueue, toClient, clientQueue \o toClient, Bytes)
  BY <1>1, Joining, Zenon
<1>5. /\ Len(clientQueue \o toClient) = Len(clientQueue) + Len(toClient)
      /\ Len(clientQueue) \in Nat /\ Len(toClient) \in Nat
  BY <1>1, <1>4, LenProperties DEF Joined
<1>6. Len(toClient) > 0
  BY <1>1, EmptySeq
<1> QED
  BY <1>1, <1>2, <1>3, <1>5, <1>6

LEMMA EndsStep == CalcInv /\ CalcEnds /\ [ServicesNext]_allVars => CalcEnds'
<1> SUFFICES ASSUME CalcInv, CalcEnds, [ServicesNext]_allVars PROVE CalcEnds'
  OBVIOUS
<1>1. /\ served \in Nat /\ Len(answers) \in Nat /\ Len(asked) \in Nat
      /\ Len(answers) <= served /\ served <= Len(asked)
  BY CalcLengths DEF CalcInv, CalcTypes
<1>2. CASE ClientSend \/ ClientRecv
  <2>1. ~quit /\ UNCHANGED <<quit, resetDue, fallen>>
    BY <1>2 DEF ClientSend, ClientRecv, ends
  <2> QED
    BY <2>1 DEF CalcEnds
<1>3. CASE IOExecute
  <2>1. ~fallen /\ UNCHANGED <<asked, answers, quit, fallen>>
    BY <1>3 DEF IOExecute
  <2>2. PICK n \in 1 .. Len(toServer) :
          LET queue == serverQueue \o SubSeq(toServer, 1, n)
              response == Calculator(DeserializeRequest(Payload(queue)))
          IN
            /\ toServer' = SubSeq(toServer, n + 1, Len(toServer))
            /\ IF Complete(queue)
               THEN /\ serverQueue' = Erased(queue)
                    /\ toClient' = toClient \o Encode(SerializeResponse(response))
                    /\ served' = served + 1 /\ resetDue' = (resetDue \/ quit)
               ELSE serverQueue' = queue /\ UNCHANGED <<toClient, served, resetDue>>
    BY <1>3 DEF IOExecute
  <2>3. \/ served' = served /\ resetDue' = resetDue
        \/ served' = served + 1 /\ (resetDue' => resetDue \/ quit)
    BY <2>2, Zenon
  <2> QED
    BY <1>1, <2>1, <2>3 DEF CalcEnds
<1>4. CASE IOExecuteBroken
  <2>1. resetDue /\ UNCHANGED <<asked, answers, served, quit, resetDue>>
    BY <1>4 DEF IOExecuteBroken
  <2>2. PICK n \in 1 .. Len(toServer) : Complete(serverQueue \o SubSeq(toServer, 1, n))
    BY <1>4 DEF IOExecuteBroken
  <2>3. served < Len(asked)
    BY <2>2, CompleteIsDue
  <2> QED
    BY <1>1, <2>1, <2>3 DEF CalcEnds
<1>5. CASE ClientQuit
  <2>1. quit' /\ resetDue' = (toClient # <<>>) /\ UNCHANGED <<asked, answers, served, fallen>>
    BY <1>5 DEF ClientQuit
  <2>2. resetDue' => Len(answers) < served
    BY <2>1, WireIsDue
  <2> QED
    BY <2>1, <2>2 DEF CalcEnds
<1>6. CASE Start \/ ServerClose \/ UNCHANGED vars
  BY <1>6 DEF Start, ServerClose, vars, ends, CalcEnds
<1>7. Next \/ UNCHANGED vars
  BY Zenon DEF ServicesNext, Calc, InHttp, InEcho, InUdp, InPort, Only, allVars
<1> QED
  BY <1>2, <1>3, <1>4, <1>5, <1>6, <1>7, Zenon DEF Next, Server, Execute, Client

(* However the stream is cut into pieces, each end finds whole messages in *)
(* it, the next one first (ServerIO, IOExcute; Client.cc, main): what has  *)
(* not been decoded is exactly the messages on their way. And SIGPIPE can  *)
(* only come of a client that quits with two responses due to it.          *)
THEOREM StreamsInStep == ServicesSpec => []InStep
<1>1. ServicesInit => CalcInv /\ CalcEnds
  BY CalcInit DEF ServicesInit, Init, CalcEnds
<1>2. CalcInv /\ CalcEnds => InStep
  <2> SUFFICES ASSUME CalcInv, CalcEnds PROVE InStep
    OBVIOUS
  <2>1. /\ asked \in Seq(Requests) /\ served \in Nat /\ Len(answers) \in Nat
        /\ Len(answers) <= served /\ served <= Len(asked)
    BY CalcLengths DEF CalcInv, CalcTypes
  <2>2. Unanswered \in Seq(Message) /\ Unread \in Seq(Message)
    BY <2>1, WayOf, OnTheWay
  <2>3. /\ Carries(serverQueue \o toServer, Unanswered) <=> CarriesEight(serverQueue \o toServer, Unanswered)
        /\ Carries(clientQueue \o toClient, Unread) <=> CarriesEight(clientQueue \o toClient, Unread)
    BY <2>2, SizeIsEight, Zenon
  <2>4. fallen => quit /\ Len(asked) >= Len(answers) + 2
    BY <2>1, CalcLengths DEF CalcInv, CalcEnds
  <2> QED
    BY <2>3, <2>4 DEF CalcInv, InStep
<1> QED
  BY <1>1, <1>2, CalcStep, EndsStep, PTL DEF ServicesSpec

(* The arithmetic of a response is right (NetCalcu.hpp, Calculator). *)
LEMMA Arithmetic ==
  ASSUME NEW r \in Requests
  PROVE  \/ Response(r).errno = 0 /\ r.oper = Plus /\ Response(r).ret - r.y = r.x
         \/ Response(r).errno = 0 /\ r.oper = Minus /\ Response(r).ret + r.y = r.x
         \/ Response(r).errno = 0 /\ r.oper = Times /\ Response(r).ret = r.x * r.y
         \/ Response(r).errno = 0 /\ r.oper = Div /\ r.y > 0
            /\ Response(r).ret * r.y \in r.x - r.y + 1 .. r.x
         \/ Response(r).errno = 0 /\ r.oper = Mod /\ r.y > 0 /\ Response(r).ret \in 0 .. r.y - 1
            /\ \E q \in 0 .. r.x : r.x = q * r.y + Response(r).ret
         \/ Response(r).errno = 1 /\ r.oper = Div /\ r.y = 0
         \/ Response(r).errno = 2 /\ r.oper = Mod /\ r.y = 0
         \/ Response(r).errno = 3 /\ r.oper \notin Operators
<1>1. r.x \in 0 .. 19 /\ r.y \in 0 .. 19 /\ r.oper \in Nat
  BY CalcAssumption
<1>2. PICK x \in 0 .. 19, y \in 0 .. 19, oper \in Nat : x = r.x /\ y = r.y /\ oper = r.oper
  BY <1>1
<1>3. PICK ret, errno : ret = Response(r).ret /\ errno = Response(r).errno
  OBVIOUS
<1>4. ret = Calculator(r).ret /\ errno = Calculator(r).errno
  BY <1>3 DEF Response, Answer, SerializeResponse, DeserializeResponse
<1>5. /\ \A n : Success(n).ret = n /\ Success(n).errno = 0
      /\ \A c : Failure(c).errno = c
  BY DEF Success, Failure
<1>6. Plus = 43 /\ Minus = 45 /\ Times = 42 /\ Div = 47 /\ Mod = 37
  BY DEF Plus, Minus, Times, Div, Mod
<1>7. \/ oper = Plus /\ errno = 0 /\ ret = x + y
      \/ oper = Minus /\ errno = 0 /\ ret = x - y
      \/ oper = Times /\ errno = 0 /\ ret = x * y
      \/ oper = Div /\ y # 0 /\ errno = 0 /\ ret = x \div y
      \/ oper = Mod /\ y # 0 /\ errno = 0 /\ ret = x % y
      \/ oper = Div /\ y = 0 /\ errno = 1
      \/ oper = Mod /\ y = 0 /\ errno = 2
      \/ oper \notin Operators /\ errno = 3
  BY <1>2, <1>4, <1>5, <1>6 DEF Calculator, Operators
<1>8. y # 0 => /\ y > 0 /\ (x \div y) * y \in x - y + 1 .. x
                /\ x % y \in 0 .. y - 1 /\ \E q \in 0 .. x : x = q * y + (x % y)
  <2>1. \A a \in 0 .. 19, b \in 1 .. 19 :
          /\ (a \div b) \in 0 .. a /\ a % b \in 0 .. b - 1 /\ a = (a \div b) * b + (a % b)
          /\ (a \div b) * b \in a - b + 1 .. a
    OBVIOUS
  <2>2. y # 0 => y \in 1 .. 19 /\ y > 0
    OBVIOUS
  <2> QED
    BY <1>2, <2>1, <2>2, Zenon
<1>9. \/ errno = 0 /\ oper = Plus /\ ret - y = x
      \/ errno = 0 /\ oper = Minus /\ ret + y = x
      \/ errno = 0 /\ oper = Times /\ ret = x * y
      \/ errno = 0 /\ oper = Div /\ y > 0 /\ ret * y \in x - y + 1 .. x
      \/ errno = 0 /\ oper = Mod /\ y > 0 /\ ret \in 0 .. y - 1
         /\ \E q \in 0 .. x : x = q * y + ret
      \/ errno = 1 /\ oper = Div /\ y = 0
      \/ errno = 2 /\ oper = Mod /\ y = 0
      \/ errno = 3 /\ oper \notin Operators
  <2>1. CASE oper \in {Plus, Minus, Times} /\ errno = 0
    BY <1>6, <1>7, <2>1 DEF Operators
  <2>2. CASE oper = Div /\ y # 0 /\ errno = 0 /\ ret = x \div y
    BY <1>8, <2>2, Zenon
  <2>3. CASE oper = Mod /\ y # 0 /\ errno = 0 /\ ret = x % y
    BY <1>8, <2>3, Zenon
  <2>4. CASE oper = Div /\ y = 0 /\ errno = 1
    BY <2>4
  <2>5. CASE oper = Mod /\ y = 0 /\ errno = 2
    BY <2>5
  <2>6. CASE oper \notin Operators /\ errno = 3
    BY <2>6
  <2> QED
    BY <1>7, <2>1, <2>2, <2>3, <2>4, <2>5, <2>6, Zenon
<1> QED
  BY <1>2, <1>3, <1>9

(* The k-th response the client reads belongs to the k-th request it made, *)
(* and is right (NetCalcu.hpp; Client.cc).                                 *)
THEOREM ResponsesMatch == ServicesSpec => []AnswersMatch
<1>1. ServicesInit => CalcInv
  BY CalcInit DEF ServicesInit
<1>2. CalcInv => AnswersMatch
  <2> SUFFICES ASSUME CalcInv, NEW k \in DOMAIN answers
               PROVE  LET x == asked[k].x oper == asked[k].oper y == asked[k].y
                          ret == answers[k].ret errno == answers[k].errno
                      IN
                        \/ errno = 0 /\ oper = Plus /\ ret - y = x
                        \/ errno = 0 /\ oper = Minus /\ ret + y = x
                        \/ errno = 0 /\ oper = Times /\ ret = x * y
                        \/ errno = 0 /\ oper = Div /\ y > 0 /\ ret * y \in x - y + 1 .. x
                        \/ errno = 0 /\ oper = Mod /\ y > 0 /\ ret \in 0 .. y - 1
                           /\ \E q \in 0 .. x : x = q * y + ret
                        \/ errno = 1 /\ oper = Div /\ y = 0
                        \/ errno = 2 /\ oper = Mod /\ y = 0
                        \/ errno = 3 /\ oper \notin Operators
    BY DEF AnswersMatch
  <2>1. k \in 1 .. Len(answers) /\ asked[k] \in Requests
    BY LenProperties DEF CalcInv, CalcTypes
  <2>2. answers[k] = Response(asked[k])
    BY <2>1 DEF CalcInv
  <2>3. PICK r \in Requests : r = asked[k] /\ answers[k] = Response(r)
    BY <2>1, <2>2
  <2> QED
    BY <2>3, Arithmetic, Zenon
<1> QED
  BY <1>1, <1>2, CalcStep, PTL DEF ServicesSpec
-----------------------------------------------------------------------------
(* The port. A socket has SO_REUSEPORT from its creation to its end; what  *)
(* lingers was left by a process that ran, and not by its present run if   *)
(* that is a calculator.                                                   *)
Kinds == {"calc", "http", "udp"}
Steps == {"off", "socket", "bind", "listen", "serving"}
Past(p) == IF step[p] = "off" THEN runs[p] ELSE runs[p] - 1

PortTypes ==
  /\ kind \in [Clients -> Kinds] /\ step \in [Clients -> Steps]
  /\ exitCode \in [Clients -> Nat] /\ runs \in [Clients -> Nat]
  /\ option \subseteq Clients /\ linger \subseteq {"calc", "http"}
  /\ dialled \in [{Second} -> Clients \cup {"nobody"}]

PortInv ==
  /\ PortTypes
  /\ \A p \in Clients :
       /\ step[p] # "off" => runs[p] > 0
       /\ p \in option <=> kind[p] = "http" /\ step[p] \in {"bind", "listen", "serving"}
  /\ dialled[Second] # "nobody" =>
       step[dialled[Second]] = "serving" /\ kind[dialled[Second]] \in {"calc", "http"}
  /\ "http" \in linger => \E q \in Clients : kind[q] = "http" /\ runs[q] > 0
  /\ "calc" \in linger => \E q \in Clients : kind[q] = "calc" /\ Past(q) > 0
  /\ Port!PortsKept

LEMMA PortInit == ServicesInit => PortInv
<1> SUFFICES ASSUME ServicesInit PROVE PortInv
  OBVIOUS
<1>1. PortTypes /\ option = {} /\ linger = {} /\ step = [p \in Clients |-> "off"]
      /\ exitCode = [p \in Clients |-> 0] /\ dialled = [c \in {Second} |-> "nobody"]
  BY DEF ServicesInit, Port!Init, PortTypes, Kinds, Steps, Port!Tcp
<1>2. Port!PortsKept
  BY <1>1 DEF Port!PortsKept, Port!Bound, Port!BIND_ERROR
<1> QED
  BY <1>1, <1>2 DEF PortInv

LEMMA PortStep == PortInv /\ Port!Next => PortInv'
<1> SUFFICES ASSUME PortInv, Port!Next PROVE PortInv'
  OBVIOUS
<1>0. PortTypes /\ UNCHANGED kind
  BY DEF PortInv, Port!Next, Port!Run, Port!BuildListenSocket, Port!UdpSocket, Port!UdpBind, Port!Kill,
         Port!Connector, Port!Close, Port!Expire, Port!CreateSocketOrDie, Port!CreateReusable,
         Port!CreateBindOrDie, Port!CreateListenOrDie
<1> USE DEF PortInv, PortTypes, Kinds, Steps, Past, Port!PortsKept, Port!Bound, Port!BIND_ERROR, Port!Tcp
<1>1. ASSUME NEW p \in Clients, Port!Run(p) PROVE PortInv'
  BY <1>1 DEF Port!Run, Port!To
<1>2. ASSUME NEW p \in Clients, Port!CreateSocketOrDie(p) PROVE PortInv'
  BY <1>2 DEF Port!CreateSocketOrDie, Port!To, Port!Die, Port!SOCKET_ERROR
<1>3. ASSUME NEW p \in Clients, Port!CreateReusable(p) PROVE PortInv'
  BY <1>3 DEF Port!CreateReusable, Port!To, Port!Die, Port!SOCKET_ERROR
<1>4. ASSUME NEW p \in Clients, Port!CreateBindOrDie(p) PROVE PortInv'
  <2>1. CASE Port!Taken(p)
    <3>1. /\ step' = [step EXCEPT ![p] = "off"] /\ exitCode' = [exitCode EXCEPT ![p] = 2]
          /\ option' = option \ {p} /\ UNCHANGED <<kind, runs, dialled, linger>>
          /\ kind[p] \in {"calc", "http"} /\ step[p] = "bind"
      BY <1>4, <2>1 DEF Port!CreateBindOrDie, Port!To, Port!Die
    <3>2. /\ kind[p] = "udp" => \E q \in Clients \ {p} : kind[q] = "udp" /\ runs[q] > 0
          /\ kind[p] = "http" => \E q \in Clients : kind[q] = "calc" /\ runs[q] > 0
          /\ kind[p] = "calc" => \E q \in Clients : kind[q] \in {"calc", "http"} /\ runs[q] > (IF q = p THEN 1 ELSE 0)
      BY <2>1, <3>1 DEF Port!Taken
    <3>3. Port!PortsKept'
      BY <3>1, <3>2
    <3> HIDE DEF Port!PortsKept
    <3> QED
      BY <3>1, <3>3
  <2>2. CASE ~Port!Taken(p)
    <3>1. /\ step' = [step EXCEPT ![p] = "listen"] /\ UNCHANGED <<kind, runs, dialled, linger, exitCode, option>>
          /\ kind[p] \in {"calc", "http"} /\ step[p] = "bind"
      BY <1>4, <2>2 DEF Port!CreateBindOrDie, Port!To
    <3>2. \A q \in Clients \ {p} : Port!Bound(q) =>
             \/ kind[p] = "http" /\ kind[q] = "http"
             \/ {kind[p], kind[q]} \cap {"calc", "http"} # {} /\ "udp" \in {kind[p], kind[q]}
      BY <2>2, <3>1 DEF Port!Taken
    <3>3. Port!PortsKept'
      BY <3>1, <3>2
    <3> HIDE DEF Port!PortsKept
    <3> QED
      BY <3>1, <3>3
  <2> QED
    BY <2>1, <2>2
<1>5. ASSUME NEW p \in Clients, Port!CreateListenOrDie(p) PROVE PortInv'
  BY <1>5 DEF Port!CreateListenOrDie, Port!To, Port!Die, Port!LISTEN_ERROR
<1>6. ASSUME NEW p \in Clients, Port!UdpSocket(p) PROVE PortInv'
  BY <1>6 DEF Port!UdpSocket, Port!To, Port!Die, Port!SOCKET_ERROR
<1>7. ASSUME NEW p \in Clients, Port!UdpBind(p) PROVE PortInv'
  <2>1. CASE Port!Taken(p)
    <3>1. /\ step' = [step EXCEPT ![p] = "off"] /\ exitCode' = [exitCode EXCEPT ![p] = 2]
          /\ option' = option \ {p} /\ UNCHANGED <<kind, runs, dialled, linger>>
          /\ kind[p] = "udp" /\ step[p] = "bind"
      BY <1>7, <2>1 DEF Port!UdpBind, Port!To, Port!Die
    <3>2. /\ kind[p] = "udp" => \E q \in Clients \ {p} : kind[q] = "udp" /\ runs[q] > 0
          /\ kind[p] = "http" => \E q \in Clients : kind[q] = "calc" /\ runs[q] > 0
          /\ kind[p] = "calc" => \E q \in Clients : kind[q] \in {"calc", "http"} /\ runs[q] > (IF q = p THEN 1 ELSE 0)
      BY <2>1, <3>1 DEF Port!Taken
    <3>3. Port!PortsKept'
      BY <3>1, <3>2
    <3> HIDE DEF Port!PortsKept
    <3> QED
      BY <3>1, <3>3
  <2>2. CASE ~Port!Taken(p)
    <3>1. /\ step' = [step EXCEPT ![p] = "serving"] /\ UNCHANGED <<kind, runs, dialled, linger, exitCode, option>>
          /\ kind[p] = "udp" /\ step[p] = "bind"
      BY <1>7, <2>2 DEF Port!UdpBind, Port!To
    <3>2. \A q \in Clients \ {p} : Port!Bound(q) =>
             \/ kind[p] = "http" /\ kind[q] = "http"
             \/ {kind[p], kind[q]} \cap {"calc", "http"} # {} /\ "udp" \in {kind[p], kind[q]}
      BY <2>2, <3>1 DEF Port!Taken
    <3>3. Port!PortsKept'
      BY <3>1, <3>2
    <3> HIDE DEF Port!PortsKept
    <3> QED
      BY <3>1, <3>3
  <2> QED
    BY <2>1, <2>2
<1>8. ASSUME NEW p \in Clients, Port!Kill(p) PROVE PortInv'
  <2>1. /\ step[p] # "off" /\ step' = [step EXCEPT ![p] = "off"] /\ option' = option \ {p}
        /\ UNCHANGED <<kind, exitCode, runs>>
        /\ dialled' = [c \in {Second} |-> IF dialled[c] = p THEN "nobody" ELSE dialled[c]]
        /\ (linger' = linger) \/ (dialled[Second] = p /\ linger' = linger \cup {kind[p]})
    <3> HIDE DEF PortInv, PortTypes
    <3>1. /\ step[p] # "off" /\ step' = [step EXCEPT ![p] = "off"] /\ option' = option \ {p}
          /\ UNCHANGED <<kind, exitCode, runs>>
          /\ dialled' = [c \in {Second} |-> IF dialled[c] = p THEN "nobody" ELSE dialled[c]]
          /\ linger' = IF \E c \in {Second} : dialled[c] = p THEN linger \cup {kind[p]} ELSE linger
      BY <1>8, Zenon DEF Port!Kill, Port!To
    <3> QED
      BY <3>1
  <2>2. PortTypes'
    BY <2>1, ServicesAssumption
  <2>3. \A q \in Clients :
          /\ step'[q] # "off" => runs'[q] > 0
          /\ q \in option' <=> kind'[q] = "http" /\ step'[q] \in {"bind", "listen", "serving"}
    BY <2>1
  <2>4. dialled'[Second] # "nobody" =>
          step'[dialled'[Second]] = "serving" /\ kind'[dialled'[Second]] \in {"calc", "http"}
    BY <2>1
  <2>5. \A q \in Clients : Past(q)' >= Past(q)
    BY <2>1
  <2>6. Past(p)' = runs[p] /\ runs[p] > 0
    BY <2>1
  <2>7. /\ "http" \in linger' => \E q \in Clients : kind'[q] = "http" /\ runs'[q] > 0
        /\ "calc" \in linger' => \E q \in Clients : kind'[q] = "calc" /\ Past(q)' > 0
    <3>1. \A q \in Clients : Past(q) \in Int /\ Past(q)' \in Int
      BY <2>2
    <3> HIDE DEF Past
    <3> QED
      BY <2>1, <2>5, <2>6, <3>1
  <2>8. Port!PortsKept'
    BY <2>1
  <2> HIDE DEF Port!PortsKept, PortTypes, Past
  <2> QED
    BY <2>2, <2>3, <2>4, <2>7, <2>8
<1>9. ASSUME NEW c \in {Second}, Port!Connector(c) PROVE PortInv'
  BY <1>9 DEF Port!Connector
<1>10. ASSUME NEW c \in {Second}, Port!Close(c) PROVE PortInv'
  BY <1>10 DEF Port!Close
<1>11. CASE Port!Expire
  BY <1>11 DEF Port!Expire
<1> HIDE DEF PortInv
<1> QED
  BY <1>1, <1>2, <1>3, <1>4, <1>5, <1>6, <1>7, <1>8, <1>9, <1>10, <1>11, Zenon DEF Port!Next, Port!BuildListenSocket
-----------------------------------------------------------------------------
(* The TCP echo server. Of a caller whose lines all fit, at most one of    *)
(* three places holds bytes, and it stops and waits for them. A reset      *)
(* comes only from a caller that has left, and finds the worker with bytes *)
(* only if a line of that caller was too long.                             *)
Habits == {"away", "prompt", "reading", "closed"}
Resets == {"none", "sent", "here"}

EchoTypes ==
  /\ caller \in [Clients -> Habits] /\ rst \in [Clients -> Resets] /\ up \in BOOLEAN
  /\ lineBytes \in [Clients -> Nat] /\ echoBytes \in [Clients -> Nat] /\ held \in [Clients -> Nat]

InOnePlace(habit, there, at, back) ==
  /\ there > 0 => at = 0 /\ back = 0
  /\ at > 0 => back = 0
  /\ habit \in {"away", "prompt"} => there = 0 /\ at = 0 /\ back = 0

(* Of a caller nothing of whose was read in part, the bytes are all in one *)
(* place, and a reset comes behind the last of them.                       *)
Account(behind, habit, there, at, back, reset) ==
  /\ behind \/ InOnePlace(habit, there, at, back)
  /\ reset # "none" => habit = "closed" /\ (behind \/ (there = 0 /\ at = 0))

EchoInv ==
  /\ EchoTypes
  /\ \A c \in Clients :
       Account(c \in torn, caller[c], lineBytes[c], held[c], echoBytes[c], rst[c])
  /\ up \/ \E c \in Clients : caller[c] = "closed" /\ c \in torn

LEMMA EchoInit == ServicesInit => EchoInv
<1> SUFFICES ASSUME ServicesInit PROVE EchoInv
  OBVIOUS
<1>1. Echo!Init
  BY DEF ServicesInit
<1>2. EchoTypes
  BY <1>1 DEF Echo!Init, EchoTypes, Habits, Resets
<1> QED
  BY <1>1, <1>2 DEF Echo!Init, EchoInv, InOnePlace, Account

(* The account of one caller changes.                                      *)
Moves(c, habit, there, at, back, reset) ==
  /\ caller' = [caller EXCEPT ![c] = habit] /\ lineBytes' = [lineBytes EXCEPT ![c] = there]
  /\ held' = [held EXCEPT ![c] = at] /\ echoBytes' = [echoBytes EXCEPT ![c] = back]
  /\ rst' = [rst EXCEPT ![c] = reset]

LEMMA EchoMoves ==
  ASSUME EchoInv, NEW c \in Clients, NEW habit \in Habits, NEW there \in Nat, NEW at \in Nat,
         NEW back \in Nat, NEW reset \in Resets, Moves(c, habit, there, at, back, reset),
         torn' \in {torn, torn \cup {c}},
         caller[c] = "closed" => habit = "closed",
         Account(c \in torn', habit, there, at, back, reset),
         UNCHANGED up \/ (up' = FALSE /\ habit = "closed" /\ c \in torn)
  PROVE  EchoInv'
<1>1. EchoTypes /\ \A d \in Clients :
        Account(d \in torn, caller[d], lineBytes[d], held[d], echoBytes[d], rst[d])
  BY DEF EchoInv
<1>2. EchoTypes'
  BY <1>1 DEF EchoTypes, Moves
<1>3. (\A d \in Clients \ {c} : d \in torn' <=> d \in torn) /\ (c \in torn => c \in torn')
  OBVIOUS
<1>4. /\ caller'[c] = habit /\ lineBytes'[c] = there /\ held'[c] = at
      /\ echoBytes'[c] = back /\ rst'[c] = reset
      /\ \A d \in Clients \ {c} : /\ caller'[d] = caller[d] /\ lineBytes'[d] = lineBytes[d]
                                  /\ echoBytes'[d] = echoBytes[d] /\ held'[d] = held[d] /\ rst'[d] = rst[d]
  BY <1>1 DEF EchoTypes, Moves
<1>5. ASSUME NEW d \in Clients
      PROVE  Account(d \in torn', caller'[d], lineBytes'[d], held'[d], echoBytes'[d], rst'[d])
  <2>1. CASE d = c
    BY <1>4, <2>1 DEF Account, InOnePlace
  <2>2. CASE d # c
    BY <1>1, <1>3, <1>4, <2>2 DEF Account, InOnePlace
  <2> QED
    BY <2>1, <2>2
<1>6. up' \/ \E d \in Clients : caller'[d] = "closed" /\ d \in torn'
  BY <1>3, <1>4 DEF EchoInv
<1> QED
  BY <1>2, <1>5, <1>6 DEF EchoInv

LEMMA EchoSame ==
  ASSUME EchoInv, UNCHANGED <<caller, lineBytes, echoBytes, held, rst, torn, up>>
  PROVE  EchoInv'
<1>1. EchoTypes'
  BY DEF EchoInv, EchoTypes
<1>2. \A c \in Clients :
        Account(c \in torn', caller'[c], lineBytes'[c], held'[c], echoBytes'[c], rst'[c])
  BY DEF EchoInv, Account, InOnePlace
<1> QED
  BY <1>1, <1>2 DEF EchoInv

(* What a read takes: something, at most what there is, and not all of it  *)
(* only if the caller is torn from then on.                                *)
LEMMA PartTaken ==
  ASSUME EchoInv, NEW c \in Clients, NEW all \in Nat, NEW n \in 1 .. all, Echo!InPart(c, n, all)
  PROVE  /\ n \in Nat /\ all - n \in Nat /\ torn' \in {torn, torn \cup {c}}
         /\ c \in torn' \/ all - n = 0
         /\ c \in torn => c \in torn'
BY DEF Echo!InPart

LEMMA EchoStep == EchoInv /\ Echo!Next => EchoInv'
<1> SUFFICES ASSUME EchoInv, Echo!Next PROVE EchoInv'
  OBVIOUS
<1>0. EchoTypes /\ \A c \in Clients :
        Account(c \in torn, caller[c], lineBytes[c], held[c], echoBytes[c], rst[c])
  BY DEF EchoInv
<1> DEFINE L(c) == lineBytes[c]
           H(c) == held[c]
           E(c) == echoBytes[c]
<1>1. \A c \in Clients : /\ L(c) \in Nat /\ H(c) \in Nat /\ E(c) \in Nat
                         /\ caller[c] \in Habits /\ rst[c] \in Resets
                         /\ Account(c \in torn, caller[c], L(c), H(c), E(c), rst[c])
  BY <1>0 DEF EchoTypes
<1>2. ASSUME UNCHANGED <<caller, lineBytes, echoBytes, held, rst, torn, up>> PROVE EchoInv'
  BY <1>2, EchoSame
<1>3. ASSUME NEW c \in Clients, Echo!Connect(c) PROVE EchoInv'
  <2>1. /\ caller[c] = "away" /\ caller' = [caller EXCEPT ![c] = "prompt"]
        /\ UNCHANGED <<lineBytes, echoBytes, held, rst, torn, up>>
    BY <1>3 DEF Echo!Connect, Echo!Do
  <2>2. Moves(c, "prompt", L(c), H(c), E(c), rst[c])
    BY <1>0, <2>1 DEF Moves, EchoTypes
  <2>3. Account(c \in torn, "prompt", L(c), H(c), E(c), rst[c]) /\ "prompt" \in Habits
    BY <1>1, <2>1 DEF Account, InOnePlace, Habits
  <2> QED
    BY <1>1, <2>1, <2>2, <2>3, EchoMoves
<1>4. ASSUME NEW c \in Clients, Echo!ReadEcho(c) PROVE EchoInv'
  <2>1. PICK n \in 1 .. E(c) :
        /\ echoBytes' = [echoBytes EXCEPT ![c] = @ - n] /\ Echo!InPart(c, n, E(c))
        /\ \/ caller' = [caller EXCEPT ![c] = "prompt"] /\ UNCHANGED rst
           \/ /\ caller' = [caller EXCEPT ![c] = "closed"]
              /\ \/ UNCHANGED rst
                 \/ E(c) - n > 0 /\ rst' = [rst EXCEPT ![c] = "sent"]
    BY <1>4, Zenon DEF Echo!ReadEcho, Echo!Leave, Echo!Do, Echo!Take
  <2>2. caller[c] = "reading" /\ UNCHANGED <<lineBytes, held, up>>
    BY <1>4 DEF Echo!ReadEcho
  <2>3. /\ n \in Nat /\ E(c) - n \in Nat /\ E(c) > 0 /\ torn' \in {torn, torn \cup {c}}
        /\ c \in torn' \/ E(c) - n = 0
        /\ c \in torn => c \in torn'
    <3>1. PICK m \in Nat : m = E(c)
      BY <1>1
    <3>2. n \in 1 .. m /\ Echo!InPart(c, n, m)
      BY <2>1, <3>1
    <3>3. /\ n \in Nat /\ m - n \in Nat /\ torn' \in {torn, torn \cup {c}}
          /\ c \in torn' \/ m - n = 0
          /\ c \in torn => c \in torn'
      BY <3>2, PartTaken, Zenon
    <3> QED
      BY <3>1, <3>2, <3>3
  <2>4. PICK habit \in Habits, reset \in Resets :
          /\ caller' = [caller EXCEPT ![c] = habit] /\ rst' = [rst EXCEPT ![c] = reset]
          /\ (habit = "prompt" /\ reset = rst[c]) \/ habit = "closed"
    <3>1. rst = [rst EXCEPT ![c] = rst[c]] /\ rst[c] \in Resets
      BY <1>0 DEF EchoTypes
    <3>2. "prompt" \in Habits /\ "closed" \in Habits /\ "sent" \in Resets
      BY DEF Habits, Resets
    <3> QED
      BY <2>1, <3>1, <3>2, Zenon
  <2>5. Moves(c, habit, L(c), H(c), E(c) - n, reset)
    BY <1>0, <2>1, <2>2, <2>4 DEF Moves, EchoTypes
  <2>6. Account(c \in torn', habit, L(c), H(c), E(c) - n, reset)
    BY <1>1, <2>2, <2>3, <2>4 DEF Account, InOnePlace, Habits
  <2> QED
    BY <1>1, <2>2, <2>3, <2>4, <2>5, <2>6, EchoMoves
<1>5. ASSUME NEW c \in Clients, Echo!Quit(c) PROVE EchoInv'
  <2>1. /\ caller[c] \in {"prompt", "reading"} /\ caller' = [caller EXCEPT ![c] = "closed"]
        /\ UNCHANGED <<lineBytes, echoBytes, held, torn, up>>
        /\ (UNCHANGED rst) \/ (E(c) > 0 /\ rst' = [rst EXCEPT ![c] = "sent"])
    BY <1>5 DEF Echo!Quit, Echo!Leave, Echo!Do
  <2>2. PICK reset \in Resets : /\ rst' = [rst EXCEPT ![c] = reset] /\ (reset = rst[c] \/ E(c) > 0)
    BY <1>0, <1>1, <2>1 DEF EchoTypes, Resets
  <2>3. Moves(c, "closed", L(c), H(c), E(c), reset)
    BY <1>0, <2>1, <2>2 DEF Moves, EchoTypes
  <2>4. Account(c \in torn, "closed", L(c), H(c), E(c), reset) /\ "closed" \in Habits
    BY <1>1, <2>1, <2>2 DEF Account, InOnePlace, Habits
  <2> QED
    BY <1>1, <2>1, <2>2, <2>3, <2>4, EchoMoves
<1>6. ASSUME NEW c \in Clients, Echo!ResetArrives(c) PROVE EchoInv'
  <2>1. /\ rst[c] = "sent" /\ rst' = [rst EXCEPT ![c] = "here"]
        /\ UNCHANGED <<caller, lineBytes, echoBytes, held, torn, up>>
    BY <1>6 DEF Echo!ResetArrives
  <2>2. Moves(c, caller[c], L(c), H(c), E(c), "here")
    BY <1>0, <2>1 DEF Moves, EchoTypes
  <2>3. Account(c \in torn, caller[c], L(c), H(c), E(c), "here") /\ "here" \in Resets
    BY <1>1, <2>1 DEF Account, InOnePlace, Resets
  <2> QED
    BY <1>1, <2>1, <2>2, <2>3, EchoMoves
<1>7. ASSUME NEW c \in Clients, Echo!ServiceRead(c) PROVE EchoInv'
  <2>1. PICK n \in 1 .. L(c) :
          /\ lineBytes' = [lineBytes EXCEPT ![c] = @ - n] /\ held' = [held EXCEPT ![c] = @ + n]
          /\ Echo!InPart(c, n, L(c))
    BY <1>7, Zenon DEF Echo!ServiceRead, Echo!Take, Echo!Add
  <2>2. H(c) = 0 /\ rst[c] # "here" /\ UNCHANGED <<caller, echoBytes, rst, up>>
    BY <1>7 DEF Echo!ServiceRead
  <2>3. /\ n \in Nat /\ L(c) - n \in Nat /\ L(c) > 0 /\ H(c) + n = n /\ torn' \in {torn, torn \cup {c}}
        /\ c \in torn' \/ L(c) - n = 0
        /\ c \in torn => c \in torn'
    <3>1. PICK m \in Nat : m = L(c)
      BY <1>1
    <3>2. n \in 1 .. m /\ Echo!InPart(c, n, m)
      BY <2>1, <3>1
    <3>3. /\ n \in Nat /\ m - n \in Nat /\ torn' \in {torn, torn \cup {c}}
          /\ c \in torn' \/ m - n = 0
          /\ c \in torn => c \in torn'
      BY <3>2, PartTaken, Zenon
    <3> QED
      BY <2>2, <3>1, <3>2, <3>3
  <2>4. Moves(c, caller[c], L(c) - n, n, E(c), rst[c])
    BY <1>0, <2>1, <2>2, <2>3 DEF Moves, EchoTypes
  <2>5. Account(c \in torn', caller[c], L(c) - n, n, E(c), rst[c])
    <3>1. Account(c \in torn, caller[c], L(c), H(c), E(c), rst[c])
      BY <1>1
    <3>2. L(c) > 0 /\ (c \in torn' \/ (c \notin torn /\ L(c) - n = 0))
      BY <2>3
    <3>3. L(c) # 0
      BY <1>1, <3>2
    <3>4. rst[c] # "none" => caller[c] = "closed" /\ c \in torn'
      BY <2>3, <3>1, <3>3, Zenon DEF Account
    <3>5. c \in torn' \/ InOnePlace(caller[c], L(c) - n, n, E(c))
      <4>1. CASE c \notin torn' /\ c \notin torn /\ L(c) - n = 0
        <5>1. E(c) = 0 /\ caller[c] \notin {"away", "prompt"}
          BY <3>1, <3>2, <3>3, <4>1 DEF Account, InOnePlace
        <5>2. ~(L(c) - n > 0)
          BY <4>1
        <5> QED
          BY <5>1, <5>2, Zenon DEF InOnePlace
      <4> QED
        BY <3>2, <4>1
    <3> QED
      BY <3>4, <3>5, Zenon DEF Account
  <2>6. caller[c] \in Habits /\ rst[c] \in Resets /\ E(c) \in Nat /\ UNCHANGED up
    BY <1>1, <2>2
  <2> QED
    BY <2>3, <2>4, <2>5, <2>6, EchoMoves, Zenon
<1>8. ASSUME NEW c \in Clients, Echo!ServiceWrite(c) PROVE EchoInv'
  <2>1. /\ H(c) > 0 /\ held' = [held EXCEPT ![c] = 0] /\ UNCHANGED <<caller, lineBytes, torn>>
        /\ \/ rst[c] = "here" /\ up' = FALSE /\ UNCHANGED <<echoBytes, rst>>
           \/ /\ UNCHANGED <<up, echoBytes>> /\ caller[c] = "closed" /\ rst' = [rst EXCEPT ![c] = "sent"]
           \/ /\ UNCHANGED <<up, rst>> /\ caller[c] # "closed"
              /\ echoBytes' = [echoBytes EXCEPT ![c] = @ + (Prefix + H(c))]
    BY <1>8 DEF Echo!ServiceWrite, Echo!Add
  <2>2. PICK reset \in Resets, back \in Nat :
          /\ rst' = [rst EXCEPT ![c] = reset] /\ echoBytes' = [echoBytes EXCEPT ![c] = back]
          /\ \/ reset = rst[c] /\ back = E(c)
             \/ reset = "sent" /\ back = E(c) /\ caller[c] = "closed"
             \/ reset = rst[c] /\ back = E(c) + (Prefix + H(c)) /\ caller[c] # "closed"
    <3>1. rst = [rst EXCEPT ![c] = rst[c]] /\ echoBytes = [echoBytes EXCEPT ![c] = E(c)]
      BY <1>0 DEF EchoTypes
    <3>2. E(c) + (Prefix + H(c)) \in Nat /\ "sent" \in Resets
      BY <1>1, ServicesAssumption DEF Resets
    <3> QED
      BY <1>1, <2>1, <3>1, <3>2
  <2>3. Moves(c, caller[c], L(c), 0, back, reset)
    BY <1>0, <2>1, <2>2 DEF Moves, EchoTypes
  <2>4. Account(c \in torn', caller[c], L(c), 0, back, reset) /\ torn' \in {torn, torn \cup {c}}
    BY <1>1, <2>1, <2>2 DEF Account, InOnePlace, Habits
  <2>5. UNCHANGED up \/ (up' = FALSE /\ caller[c] = "closed" /\ c \in torn)
    BY <1>1, <2>1 DEF Account
  <2>6. caller[c] \in Habits /\ L(c) \in Nat /\ 0 \in Nat
    BY <1>1
  <2> QED
    BY <2>2, <2>3, <2>4, <2>5, <2>6, EchoMoves, Zenon
<1>9. ASSUME NEW c \in Clients, Echo!Enter(c) PROVE EchoInv'
  <2>1. PICK n \in Lengths : lineBytes' = [lineBytes EXCEPT ![c] = @ + n]
    BY <1>9, Zenon DEF Echo!Enter, Echo!Add
  <2>2. /\ caller[c] = "prompt" /\ caller' = [caller EXCEPT ![c] = "reading"]
        /\ UNCHANGED <<echoBytes, held, rst, torn, up>>
    BY <1>9 DEF Echo!Enter, Echo!Do
  <2>3. n \in Nat /\ L(c) + n \in Nat /\ (L(c) = 0 => L(c) + n = n)
    BY <1>1, ServicesAssumption
  <2>4. Moves(c, "reading", L(c) + n, H(c), E(c), rst[c])
    BY <1>0, <2>1, <2>2 DEF Moves, EchoTypes
  <2>5. Account(c \in torn, "reading", L(c) + n, H(c), E(c), rst[c]) /\ "reading" \in Habits
    BY <1>1, <2>2, <2>3 DEF Account, InOnePlace, Habits
  <2> QED
    BY <1>1, <2>2, <2>3, <2>4, <2>5, EchoMoves
<1>10. ASSUME NEW c \in Clients, Echo!ServiceEnd(c) PROVE EchoInv'
  BY <1>2, <1>10 DEF Echo!ServiceEnd
<1>11. CASE Echo!GetInstance \/ Echo!Start \/ Echo!Handler
  BY <1>2, <1>11 DEF Echo!GetInstance, Echo!Start, Echo!Handler
<1> QED
  BY <1>3, <1>4, <1>5, <1>6, <1>7, <1>8, <1>9, <1>10, <1>11, Zenon
  DEF Echo!Next, Echo!Main, Echo!Service

LEMMA EchoRight == EchoInv => Echo!EchoesInStep
BY DEF EchoInv, Account, InOnePlace, Echo!EchoesInStep
-----------------------------------------------------------------------------
(* The HTTP server. The threads that asked for files are told by where     *)
(* their connections stand; two of them made the damage; and what a thread *)
(* has to send fits what it received.                                      *)
Known == {".html", ".jpg", ".png", ".default"}
AfterRecv(b) == conn[b] \notin {"away", "queued", "recv"}
FilesOnly(b) == Http!Immediate(request[b], got[b]) = {}
Understood(b) == got[b] \in Http!SafeCut(request[b])

HttpInv ==
  /\ Http!TypeOK
  /\ request \in [Clients -> HttpRequests] /\ cut \in [Clients -> Http!Cuts]
  /\ DOMAIN answer = Clients /\ DOMAIN seen = Clients
  /\ Known \subseteq mime
  /\ \A b \in Clients :
       /\ conn[b] \in {"file", "lookup"} => FilesOnly(b) /\ got[b] # "before"
       /\ conn[b] = "send" /\ Understood(b) /\ ~damaged => answer[b] \in Http!Fitting(request[b])
       /\ seen[b] # Http!Nothing => AfterRecv(b)
       /\ seen[b] # Http!Nothing /\ Understood(b) /\ ~damaged => seen[b] \in Http!Fitting(request[b])
  /\ damaged => \E b, d \in Clients :
       /\ b # d /\ AfterRecv(b) /\ AfterRecv(d)
       /\ Http!EntryOf(b) \notin Known /\ FilesOnly(b) /\ FilesOnly(d)
  /\ ~alive => damaged

LEMMA HttpRight == HttpInv => Http!TypeOK /\ Http!AnswersFit
<1> SUFFICES ASSUME HttpInv PROVE Http!TypeOK /\ Http!AnswersFit
  OBVIOUS
<1>1. \A b \in Clients : seen[b] # Http!Nothing /\ Understood(b) /\ ~damaged => seen[b] \in Http!Fitting(request[b])
  BY Zenon DEF HttpInv
<1>2. damaged => \E b, d \in Clients :
       /\ b # d /\ Http!EntryOf(b) \notin Known /\ FilesOnly(b) /\ FilesOnly(d)
  BY Zenon DEF HttpInv
<1>3. damaged => \E b, d \in Clients :
       /\ b # d /\ Http!EntryOf(b) \notin Known
       /\ \A x \in {b, d} : Http!Immediate(request[x], got[x]) = {}
  BY <1>2, Zenon DEF FilesOnly
<1> QED
  BY <1>1, <1>3, Zenon DEF HttpInv, Http!AnswersFit, Understood, Known

LEMMA HttpInit == ServicesInit => HttpInv
<1> SUFFICES ASSUME ServicesInit PROVE HttpInv
  OBVIOUS
<1>1. Http!Init
  BY DEF ServicesInit
<1>2. /\ DOMAIN answer = Clients /\ DOMAIN seen = Clients /\ mime = Known
      /\ \A b \in Clients : conn[b] = "away" /\ seen[b] = Http!Nothing
      /\ ~damaged /\ alive /\ request \in [Clients -> HttpRequests] /\ cut \in [Clients -> Http!Cuts]
  BY <1>1 DEF Http!Init, Known
<1>3. Http!TypeOK
  BY <1>1 DEF Http!Init, Http!TypeOK, Http!Cuts
<1> QED
  BY <1>2, <1>3, Zenon DEF HttpInv

(* What HandlerRequest makes of a request.                                 *)
LEMMA HandlerRequest ==
  ASSUME NEW r \in HttpRequests, NEW upTo \in Http!Cuts
  PROVE  /\ upTo \in Http!SafeCut(r) => Http!Immediate(r, upTo) \subseteq Http!Fitting(r)
         /\ upTo \in Http!SafeCut(r) /\ Http!Immediate(r, upTo) = {} =>
              Http!FileAnswer(Http!Target(r, upTo), Http!Entry(Http!Target(r, upTo))) \in Http!Fitting(r)
<1>1. r.method \in {"GET", "POST"} /\ r.args \in BOOLEAN
  <2>1. \/ \E t \in {"/", "/video/1.mp4", "/none", "/redir"} :
             r = [method |-> "GET", target |-> t, args |-> FALSE]
        \/ \E m \in {"GET", "POST"} : r = [method |-> m, target |-> "/login", args |-> TRUE]
        \/ r = [method |-> "GET", target |-> "/", args |-> TRUE]
    BY DEF HttpRequests
  <2>2. CASE \E t \in {"/", "/video/1.mp4", "/none", "/redir"} :
               r = [method |-> "GET", target |-> t, args |-> FALSE]
    BY <2>2
  <2>3. CASE \E m \in {"GET", "POST"} : r = [method |-> m, target |-> "/login", args |-> TRUE]
    BY <2>3
  <2>4. CASE r = [method |-> "GET", target |-> "/", args |-> TRUE]
    BY <2>4
  <2> QED
    BY <2>1, <2>2, <2>3, <2>4, Zenon
<1>2. PICK m \in {"GET", "POST"}, a \in BOOLEAN, t \in {r.target} : t = r.target /\ m = r.method /\ a = r.args
  BY <1>1
<1>3. upTo \in Http!SafeCut(r) =>
        /\ upTo \notin {"before", "line"} /\ (upTo # "header" \/ t = "/redir" \/ (m = "GET" /\ a))
        /\ upTo \in {"nowhere", "lines", "end", "body"} \/ t = "/redir" \/ (m = "GET" /\ a)
        /\ upTo = "nowhere" \/ t = "/redir" \/ m = "GET" \/ ~a
  BY <1>2 DEF Http!SafeCut, Http!Cuts
<1>4. CASE upTo \in Http!SafeCut(r)
  <2>1. Http!Target(r, upTo) = t
    BY <1>2, <1>3, <1>4 DEF Http!Target
  <2>2. CASE t = "/redir"
    BY <1>2, <2>1, <2>2 DEF Http!Immediate, Http!Fitting
  <2>3. CASE t # "/redir" /\ a
    <3>1. Http!Arguments(r, upTo) = "args"
      <4>1. CASE m = "GET"
        BY <1>2, <1>3, <1>4, <2>3, <4>1 DEF Http!Arguments
      <4>2. CASE m = "POST"
        <5>1. upTo = "nowhere"
          BY <1>3, <1>4, <2>3, <4>2
        <5> QED
          BY <1>2, <2>3, <4>2, <5>1 DEF Http!Arguments
      <4> QED
        BY <4>1, <4>2
    <3> QED
      BY <1>2, <2>1, <2>3, <3>1 DEF Http!Immediate, Http!Fitting, Http!isServiceExists
  <2>4. CASE t # "/redir" /\ ~a
    <3>1. Http!Arguments(r, upTo) = "none"
      <4>1. upTo \in {"nowhere", "lines", "end", "body"}
        BY <1>3, <1>4, <2>4
      <4> QED
        BY <1>2, <2>4, <4>1 DEF Http!Arguments
    <3> QED
      BY <1>2, <2>1, <2>4, <3>1 DEF Http!Immediate, Http!Fitting, Http!isServiceExists
  <2> QED
    BY <1>2, <2>2, <2>3, <2>4, Zenon
<1> QED
  BY <1>4

(* A step of one connection that leaves what others have got. *)
LEMMA HttpOne ==
  ASSUME HttpInv, NEW c \in Clients, Http!TypeOK', UNCHANGED <<request, cut>>,
         DOMAIN answer' = Clients, DOMAIN seen' = Clients, mime \subseteq mime',
         \A b \in Clients \ {c} : /\ conn'[b] = conn[b] /\ got'[b] = got[b]
                                  /\ answer'[b] = answer[b] /\ seen'[b] = seen[b],
         UNCHANGED damaged, ~alive' => damaged,
         AfterRecv(c) => AfterRecv(c)' /\ got'[c] = got[c],
         conn'[c] \in {"file", "lookup"} => FilesOnly(c)' /\ got'[c] # "before",
         conn'[c] = "send" /\ Understood(c)' /\ ~damaged => answer'[c] \in Http!Fitting(request[c]),
         seen'[c] # Http!Nothing => AfterRecv(c)',
         seen'[c] # Http!Nothing /\ Understood(c)' /\ ~damaged => seen'[c] \in Http!Fitting(request[c])
  PROVE  HttpInv'
<1>1. \A b \in Clients \ {c} :
        /\ FilesOnly(b)' <=> FilesOnly(b)
        /\ Understood(b)' <=> Understood(b)
        /\ AfterRecv(b)' <=> AfterRecv(b)
  BY DEF FilesOnly, Understood, AfterRecv
<1>2. \A b \in Clients : AfterRecv(b) =>
        AfterRecv(b)' /\ Http!EntryOf(b)' = Http!EntryOf(b) /\ (FilesOnly(b)' <=> FilesOnly(b))
  BY <1>1 DEF FilesOnly, Http!EntryOf
<1>3. damaged' => \E b, d \in Clients :
       /\ b # d /\ AfterRecv(b)' /\ AfterRecv(d)'
       /\ Http!EntryOf(b)' \notin Known /\ FilesOnly(b)' /\ FilesOnly(d)'
  BY <1>2 DEF HttpInv
<1>4. Known \subseteq mime' /\ (~alive' => damaged') /\ request' \in [Clients -> HttpRequests]
      /\ cut' \in [Clients -> Http!Cuts]
  BY DEF HttpInv
<1>5. \A b \in Clients :
       /\ conn'[b] \in {"file", "lookup"} => FilesOnly(b)' /\ got'[b] # "before"
       /\ conn'[b] = "send" /\ Understood(b)' /\ ~damaged' => answer'[b] \in Http!Fitting(request'[b])
       /\ seen'[b] # Http!Nothing => AfterRecv(b)'
       /\ seen'[b] # Http!Nothing /\ Understood(b)' /\ ~damaged' => seen'[b] \in Http!Fitting(request'[b])
  <2> SUFFICES ASSUME NEW b \in Clients
               PROVE  /\ conn'[b] \in {"file", "lookup"} => FilesOnly(b)' /\ got'[b] # "before"
                      /\ conn'[b] = "send" /\ Understood(b)' /\ ~damaged' => answer'[b] \in Http!Fitting(request'[b])
                      /\ seen'[b] # Http!Nothing => AfterRecv(b)'
                      /\ seen'[b] # Http!Nothing /\ Understood(b)' /\ ~damaged' => seen'[b] \in Http!Fitting(request'[b])
    OBVIOUS
  <2>1. CASE b = c
    BY <2>1
  <2>2. CASE b # c
    BY <1>1, <2>2 DEF HttpInv
  <2> QED
    BY <2>1, <2>2
<1> QED
  BY <1>3, <1>4, <1>5, Zenon DEF HttpInv

(* The types a lookup may leave in the table. *)
LEMMA EntryTyped ==
  ASSUME Http!TypeOK, NEW t
  PROVE  mime \cup {Http!Entry(t)} \subseteq
           {[u \in {r.target : r \in HttpRequests} |-> SuffixOf(u)][s] :
              s \in DOMAIN [u \in {r.target : r \in HttpRequests} |-> SuffixOf(u)]}
           \cup {".html", ".jpg", ".png", ".default"}
<1> DEFINE T == {r.target : r \in HttpRequests}
           suffix == [u \in T |-> SuffixOf(u)]
<1>1. "/" \in T /\ "/video/1.mp4" \in T
  <2> DEFINE get(u) == [method |-> "GET", target |-> u, args |-> FALSE]
  <2>1. get("/") \in HttpRequests /\ get("/video/1.mp4") \in HttpRequests
    BY DEF HttpRequests
  <2>2. get("/").target = "/" /\ get("/video/1.mp4").target = "/video/1.mp4"
    OBVIOUS
  <2> QED
    BY <2>1, <2>2
<1>2. DOMAIN suffix = T
  OBVIOUS
<1>3. Http!Entry(t) \in {suffix[s] : s \in DOMAIN suffix} \cup {".html"}
  <2> HIDE DEF T
  <2>1. Http!Entry(t) = IF t \in {"/", "/video/1.mp4"} THEN suffix[t] ELSE ".html"
    BY DEF Http!Entry, T
  <2> HIDE DEF suffix
  <2> QED
    BY <1>1, <1>2, <2>1
<1>4. mime \subseteq {suffix[s] : s \in DOMAIN suffix} \cup {".html", ".jpg", ".png", ".default"}
  BY Zenon DEF Http!TypeOK
<1> HIDE DEF suffix, T
<1>5. mime \cup {Http!Entry(t)} \subseteq
        {suffix[s] : s \in DOMAIN suffix} \cup {".html", ".jpg", ".png", ".default"}
  BY <1>3, <1>4
<1> QED
  BY <1>5 DEF suffix, T

HttpTyped ==
  /\ conn \in [Clients -> {"away", "queued", "recv", "file", "lookup", "send", "closed", "forgotten"}]
  /\ arrived \subseteq Clients /\ whole \subseteq Clients /\ got \in [Clients -> Http!Cuts]
  /\ damaged \in BOOLEAN /\ alive \in BOOLEAN

LEMMA TypedAgain ==
  ASSUME Http!TypeOK, HttpTyped', UNCHANGED mime
  PROVE  Http!TypeOK'
BY Zenon DEF Http!TypeOK, HttpTyped

LEMMA HttpStep == HttpInv /\ Http!Next => HttpInv'
<1> SUFFICES ASSUME HttpInv, Http!Next PROVE HttpInv'
  OBVIOUS
<1>0. /\ HttpTyped /\ Http!TypeOK /\ request \in [Clients -> HttpRequests] /\ cut \in [Clients -> Http!Cuts]
      /\ DOMAIN answer = Clients /\ DOMAIN seen = Clients
  BY Zenon DEF HttpInv, Http!TypeOK, HttpTyped
<1>1. \A b \in Clients :
       /\ conn[b] \in {"file", "lookup"} => FilesOnly(b) /\ got[b] # "before"
       /\ conn[b] = "send" /\ Understood(b) /\ ~damaged => answer[b] \in Http!Fitting(request[b])
       /\ seen[b] # Http!Nothing => AfterRecv(b)
       /\ seen[b] # Http!Nothing /\ Understood(b) /\ ~damaged => seen[b] \in Http!Fitting(request[b])
  BY DEF HttpInv
<1>2. ~alive => damaged
  BY DEF HttpInv
(* Whatever but the thread's own work leaves got, answer and seen alone. *)
<1>3. ASSUME NEW c \in Clients, NEW to \in {"queued", "recv", "forgotten"},
             \/ conn' = [conn EXCEPT ![c] = to] /\ (to = "queued" <=> conn[c] = "away")
                /\ conn[c] \in {"away", "queued"}
             \/ UNCHANGED conn,
             arrived' \subseteq Clients, whole' \subseteq Clients,
             UNCHANGED <<request, cut, got, mime, damaged, answer, seen, alive>>
      PROVE  HttpInv'
  <2>1. HttpTyped'
    BY <1>0, <1>3 DEF HttpTyped
  <2>2. Http!TypeOK'
    BY <1>0, <1>3, <2>1, TypedAgain
  <2>3. FilesOnly(c)' = FilesOnly(c) /\ Understood(c)' = Understood(c)
    BY <1>3 DEF FilesOnly, Understood
  <2>4. seen[c] # Http!Nothing => AfterRecv(c)'
    BY <1>0, <1>1, <1>3 DEF AfterRecv, HttpTyped
  <2>5. AfterRecv(c) => AfterRecv(c)' /\ got'[c] = got[c]
    BY <1>0, <1>3 DEF AfterRecv, HttpTyped
  <2>6. \A b \in Clients \ {c} : conn'[b] = conn[b]
    BY <1>0, <1>3 DEF HttpTyped
  <2>7. conn'[c] = conn[c] \/ conn'[c] \in {"queued", "recv", "forgotten"}
    BY <1>0, <1>3 DEF HttpTyped
  <2>8. /\ conn'[c] \in {"file", "lookup"} => FilesOnly(c)' /\ got'[c] # "before"
        /\ conn'[c] = "send" /\ Understood(c)' /\ ~damaged => answer'[c] \in Http!Fitting(request[c])
    BY <1>1, <1>3, <2>3, <2>7
  <2>9. seen'[c] # Http!Nothing /\ Understood(c)' /\ ~damaged => seen'[c] \in Http!Fitting(request[c])
    BY <1>1, <1>3, <2>3
  <2> QED
    BY <1>0, <1>2, <1>3, <2>2, <2>4, <2>5, <2>6, <2>8, <2>9, HttpOne
<1>4. ASSUME NEW c \in Clients, Http!Connect(c) PROVE HttpInv'
  <2>1. /\ conn' = [conn EXCEPT ![c] = "queued"] /\ conn[c] = "away"
        /\ arrived' \subseteq Clients /\ whole' \subseteq Clients
        /\ UNCHANGED <<request, cut, got, mime, damaged, answer, seen, alive>>
    BY <1>0, <1>4 DEF Http!Connect, Http!Move, HttpTyped
  <2> QED
    BY <1>3, <2>1
<1>5. ASSUME NEW c \in Clients, Http!SendRequest(c) \/ Http!SendRest(c) PROVE HttpInv'
  <2>1. /\ UNCHANGED conn /\ arrived' \subseteq Clients /\ whole' \subseteq Clients
        /\ UNCHANGED <<request, cut, got, mime, damaged, answer, seen, alive>>
    BY <1>0, <1>5 DEF Http!SendRequest, Http!SendRest, HttpTyped
  <2> QED
    BY <1>3, <2>1
<1>6. ASSUME NEW c \in Clients, Http!Start(c) PROVE HttpInv'
  <2>1. /\ \E to \in {"recv", "forgotten"} : conn' = [conn EXCEPT ![c] = to]
        /\ conn[c] = "queued" /\ arrived' \subseteq Clients /\ whole' \subseteq Clients
        /\ UNCHANGED <<request, cut, got, mime, damaged, answer, seen, alive>>
    BY <1>0, <1>6 DEF Http!Start, Http!Accepter, Http!Move, HttpTyped
  <2> QED
    BY <1>3, <2>1
<1>7. ASSUME NEW c \in Clients, Http!Execute(c) PROVE HttpInv'
  <2>1. PICK upTo \in Http!Cuts, r \in HttpRequests :
          /\ upTo = Http!Received(c) /\ r = request[c]
    BY <1>0 DEF Http!Received, Http!Cuts
  <2>2. /\ conn[c] = "recv" /\ got' = [got EXCEPT ![c] = upTo]
        /\ UNCHANGED <<request, cut, arrived, whole, mime, damaged, seen, alive>>
        /\ \/ upTo = "before" /\ conn' = [conn EXCEPT ![c] = "closed"] /\ UNCHANGED answer
           \/ /\ upTo # "before" /\ Http!Immediate(r, upTo) = {}
              /\ conn' = [conn EXCEPT ![c] = "file"] /\ UNCHANGED answer
           \/ /\ conn' = [conn EXCEPT ![c] = "send"]
              /\ \E a \in Http!Immediate(r, upTo) : answer' = [answer EXCEPT ![c] = a]
    BY <1>7, <2>1 DEF Http!Execute, Http!Move
  <2>3. PICK to \in {"closed", "file", "send"} :
          /\ conn' = [conn EXCEPT ![c] = to]
          /\ to = "file" => upTo # "before" /\ Http!Immediate(r, upTo) = {} /\ UNCHANGED answer
          /\ to = "closed" => UNCHANGED answer
          /\ to = "send" => \E a \in Http!Immediate(r, upTo) : answer' = [answer EXCEPT ![c] = a]
    BY <2>2
  <2>4. /\ conn'[c] = to /\ got'[c] = upTo /\ DOMAIN answer' = Clients /\ seen' = seen
        /\ \A b \in Clients \ {c} : conn'[b] = conn[b] /\ got'[b] = got[b] /\ answer'[b] = answer[b]
        /\ to = "send" => answer'[c] \in Http!Immediate(r, upTo)
    BY <1>0, <2>2, <2>3 DEF HttpTyped
  <2>5. HttpTyped'
    BY <1>0, <2>2, <2>3 DEF HttpTyped
  <2>6. Http!TypeOK'
    BY <1>0, <2>2, <2>5, TypedAgain
  <2>7. /\ FilesOnly(c)' <=> Http!Immediate(r, upTo) = {}
        /\ Understood(c)' <=> upTo \in Http!SafeCut(r)
    BY <2>1, <2>2, <2>4 DEF FilesOnly, Understood
  <2>8. ~AfterRecv(c) /\ AfterRecv(c)'
    BY <2>2, <2>4 DEF AfterRecv
  <2>9. seen[c] = Http!Nothing
    BY <1>1, <2>8
  <2>10. conn'[c] = "send" /\ Understood(c)' /\ ~damaged => answer'[c] \in Http!Fitting(request[c])
    BY <2>1, <2>4, <2>7, HandlerRequest
  <2>11. conn'[c] \in {"file", "lookup"} => FilesOnly(c)' /\ got'[c] # "before"
    BY <2>3, <2>4, <2>7
  <2> QED
    BY <1>0, <1>2, <2>2, <2>4, <2>6, <2>8, <2>9, <2>10, <2>11, HttpOne
<1>8. ASSUME NEW c \in Clients, Http!BeginLookup(c) PROVE HttpInv'
  <2>1. /\ conn[c] = "file" /\ conn' = [conn EXCEPT ![c] = "lookup"] /\ alive
        /\ damaged' = (damaged \/ \E d \in Clients :
                         conn[d] = "lookup" /\ (Http!Inserts(c) \/ Http!Inserts(d)))
        /\ UNCHANGED <<request, cut, arrived, whole, got, mime, answer, seen, alive>>
    BY <1>8, Zenon DEF Http!BeginLookup, Http!Move
  <2>2. damaged' \in BOOLEAN
    BY <2>1, Zenon
  <2>3. HttpTyped'
    BY <1>0, <2>1, <2>2 DEF HttpTyped
  <2>4. Http!TypeOK'
    BY <1>0, <2>1, <2>3, TypedAgain
  <2>5. /\ conn'[c] = "lookup" /\ \A b \in Clients \ {c} : conn'[b] = conn[b]
    BY <1>0, <2>1 DEF HttpTyped
  <2>6. \A b \in Clients : /\ FilesOnly(b)' <=> FilesOnly(b)
                           /\ Understood(b)' <=> Understood(b)
                           /\ AfterRecv(b)' <=> AfterRecv(b)
    <3>1. request' = request /\ got' = got
      BY <2>1
    <3>2. \A b \in Clients : /\ FilesOnly(b)' <=> FilesOnly(b)
                             /\ Understood(b)' <=> Understood(b)
      BY <3>1 DEF FilesOnly, Understood
    <3>3. \A b \in Clients : AfterRecv(b)' <=> AfterRecv(b)
      BY <2>1, <2>5 DEF AfterRecv
    <3> QED
      BY <3>2, <3>3
  <2>7. damaged' => \E b, d \in Clients :
          /\ b # d /\ AfterRecv(b) /\ AfterRecv(d)
          /\ Http!EntryOf(b) \notin Known /\ FilesOnly(b) /\ FilesOnly(d)
    <3>1. CASE damaged
      BY <3>1, Zenon DEF HttpInv
    <3>2. ASSUME NEW d \in Clients, conn[d] = "lookup", Http!Inserts(c) \/ Http!Inserts(d)
          PROVE  \E a, b \in Clients :
                   /\ a # b /\ AfterRecv(a) /\ AfterRecv(b)
                   /\ Http!EntryOf(a) \notin Known /\ FilesOnly(a) /\ FilesOnly(b)
      <4>1. c # d /\ AfterRecv(c) /\ AfterRecv(d) /\ FilesOnly(c) /\ FilesOnly(d)
        BY <1>1, <2>1, <3>2 DEF AfterRecv
      <4>2. \A b \in Clients : Http!Inserts(b) => Http!EntryOf(b) \notin Known
        BY DEF HttpInv, Http!Inserts
      <4> QED
        BY <3>2, <4>1, <4>2, Zenon
    <3> QED
      BY <2>1, <3>1, <3>2, Zenon
  <2>8. damaged' => \E b, d \in Clients :
          /\ b # d /\ AfterRecv(b)' /\ AfterRecv(d)'
          /\ Http!EntryOf(b)' \notin Known /\ FilesOnly(b)' /\ FilesOnly(d)'
    <3> SUFFICES ASSUME NEW b \in Clients, NEW d \in Clients,
                        b # d, AfterRecv(b), AfterRecv(d),
                        Http!EntryOf(b) \notin Known, FilesOnly(b), FilesOnly(d)
                 PROVE  /\ b # d /\ AfterRecv(b)' /\ AfterRecv(d)'
                        /\ Http!EntryOf(b)' \notin Known /\ FilesOnly(b)' /\ FilesOnly(d)'
      BY <2>7, Zenon
    <3>1. Http!EntryOf(b)' = Http!EntryOf(b)
      BY <2>1 DEF Http!EntryOf
    <3>2. AfterRecv(b)' /\ AfterRecv(d)' /\ FilesOnly(b)' /\ FilesOnly(d)'
      BY <2>6
    <3> QED
      BY <3>1, <3>2
  <2>9. \A b \in Clients :
          /\ conn'[b] \in {"file", "lookup"} => FilesOnly(b)' /\ got'[b] # "before"
          /\ conn'[b] = "send" /\ Understood(b)' /\ ~damaged' => answer'[b] \in Http!Fitting(request'[b])
          /\ seen'[b] # Http!Nothing => AfterRecv(b)'
          /\ seen'[b] # Http!Nothing /\ Understood(b)' /\ ~damaged' => seen'[b] \in Http!Fitting(request'[b])
    <3>1. ASSUME NEW b \in Clients
          PROVE  /\ conn'[b] \in {"file", "lookup"} => conn[b] \in {"file", "lookup"}
                 /\ conn'[b] = "send" => conn[b] = "send"
      BY <2>1, <2>5
    <3>2. damaged => damaged'
      BY <2>1, Zenon
    <3>3. request' = request /\ got' = got /\ answer' = answer /\ seen' = seen
      BY <2>1
    <3>4. ASSUME NEW b \in Clients
          PROVE  /\ conn'[b] \in {"file", "lookup"} => FilesOnly(b)' /\ got'[b] # "before"
                 /\ seen'[b] # Http!Nothing => AfterRecv(b)'
      BY <1>1, <2>6, <3>1, <3>3
    <3>5. ASSUME NEW b \in Clients
          PROVE  conn'[b] = "send" /\ Understood(b)' /\ ~damaged' => answer'[b] \in Http!Fitting(request'[b])
      BY <1>1, <2>6, <3>1, <3>2, <3>3
    <3>6. ASSUME NEW b \in Clients
          PROVE  seen'[b] # Http!Nothing /\ Understood(b)' /\ ~damaged' => seen'[b] \in Http!Fitting(request'[b])
      BY <1>1, <2>6, <3>2, <3>3
    <3> QED
      BY <3>4, <3>5, <3>6
  <2>10. Known \subseteq mime' /\ (~alive' => damaged') /\ request' = request /\ cut' = cut
         /\ DOMAIN answer' = Clients /\ DOMAIN seen' = Clients
    BY <1>0, <2>1 DEF HttpInv
  <2> QED
    BY <1>0, <2>4, <2>8, <2>9, <2>10, Zenon DEF HttpInv
<1>9. ASSUME NEW c \in Clients, Http!EndLookup(c) PROVE HttpInv'
  <2> DEFINE t == Http!Target(request[c], got[c])
  <2>1. /\ conn[c] = "lookup" /\ mime' = mime \cup {Http!Entry(t)}
        /\ UNCHANGED <<request, cut, arrived, whole, got, damaged, seen>>
        /\ \/ /\ conn' = [conn EXCEPT ![c] = "send"] /\ UNCHANGED alive
              /\ \E type \in {Http!Entry(t)} \cup (IF damaged THEN {"wrong"} ELSE {}) :
                   answer' = [answer EXCEPT ![c] = Http!FileAnswer(t, type)]
           \/ damaged /\ alive' = FALSE /\ UNCHANGED <<conn, answer>>
    BY <1>9, Zenon DEF Http!EndLookup, Http!Move, Http!EntryOf
  <2>2. PICK r \in HttpRequests, upTo \in Http!Cuts : r = request[c] /\ upTo = got[c]
    BY <1>0 DEF HttpTyped
  <2>3. HttpTyped' /\ DOMAIN answer' = Clients
    BY <1>0, <2>1 DEF HttpTyped
  <2>4. Http!TypeOK'
    <3>1. mime' \subseteq
           {[u \in {q.target : q \in HttpRequests} |-> SuffixOf(u)][s] :
              s \in DOMAIN [u \in {q.target : q \in HttpRequests} |-> SuffixOf(u)]}
           \cup {".html", ".jpg", ".png", ".default"}
      BY <1>0, <2>1, EntryTyped, Zenon
    <3> QED
      BY <2>3, <3>1, Zenon DEF Http!TypeOK, HttpTyped
  <2> HIDE DEF t
  <2>5. \A b \in Clients \ {c} : conn'[b] = conn[b] /\ answer'[b] = answer[b]
    BY <1>0, <2>1 DEF HttpTyped
  <2>6. conn'[c] \in {"send", "lookup"} /\ (conn'[c] = "lookup" => damaged)
    BY <1>0, <2>1 DEF HttpTyped
  <2>7. (FilesOnly(c)' <=> FilesOnly(c)) /\ (Understood(c)' <=> Understood(c)) /\ AfterRecv(c)'
    BY <2>1, <2>6 DEF FilesOnly, Understood, AfterRecv
  <2>8. conn'[c] = "send" /\ Understood(c)' /\ ~damaged => answer'[c] \in Http!Fitting(request[c])
    <3> SUFFICES ASSUME Understood(c)', ~damaged PROVE answer'[c] \in Http!Fitting(request[c])
      OBVIOUS
    <3>1. answer'[c] = Http!FileAnswer(t, Http!Entry(t))
      BY <1>0, <2>1
    <3>2. upTo \in Http!SafeCut(r) /\ Http!Immediate(r, upTo) = {}
      BY <1>1, <2>1, <2>2, <2>7 DEF FilesOnly, Understood
    <3>3. t = Http!Target(r, upTo)
      BY <2>2 DEF t
    <3> QED
      BY <2>2, <3>1, <3>2, <3>3, HandlerRequest
  <2>9. /\ conn'[c] \in {"file", "lookup"} => FilesOnly(c)' /\ got'[c] # "before"
        /\ seen'[c] # Http!Nothing => AfterRecv(c)'
        /\ seen'[c] # Http!Nothing /\ Understood(c)' /\ ~damaged => seen'[c] \in Http!Fitting(request[c])
        /\ AfterRecv(c) => AfterRecv(c)' /\ got'[c] = got[c]
    BY <1>1, <2>1, <2>7
  <2>10. mime \subseteq mime' /\ (~alive' => damaged)
    BY <1>2, <2>1
  <2> QED
    BY <1>0, <2>1, <2>3, <2>4, <2>5, <2>8, <2>9, <2>10, HttpOne
<1>10. ASSUME NEW c \in Clients, Http!SendAnswer(c) PROVE HttpInv'
  <2>1. /\ conn[c] = "send" /\ conn' = [conn EXCEPT ![c] = "closed"]
        /\ (seen' = [seen EXCEPT ![c] = answer[c]]) \/ (UNCHANGED seen)
        /\ UNCHANGED <<request, cut, arrived, whole, got, mime, damaged, answer, alive>>
    BY <1>10 DEF Http!SendAnswer, Http!Move
  <2>2. /\ HttpTyped' /\ DOMAIN seen' = Clients /\ conn'[c] = "closed"
        /\ (seen'[c] = answer[c]) \/ (seen'[c] = seen[c])
        /\ \A b \in Clients \ {c} : conn'[b] = conn[b] /\ seen'[b] = seen[b]
    BY <1>0, <2>1 DEF HttpTyped
  <2>3. Http!TypeOK'
    BY <1>0, <2>1, <2>2, TypedAgain
  <2>4. (FilesOnly(c)' <=> FilesOnly(c)) /\ (Understood(c)' <=> Understood(c)) /\ AfterRecv(c)'
    BY <2>1, <2>2 DEF FilesOnly, Understood, AfterRecv
  <2>5. seen'[c] # Http!Nothing /\ Understood(c)' /\ ~damaged => seen'[c] \in Http!Fitting(request[c])
    BY <1>1, <2>1, <2>2, <2>4
  <2> QED
    BY <1>0, <1>2, <2>1, <2>2, <2>3, <2>4, <2>5, HttpOne
<1> QED
  BY <1>4, <1>5, <1>6, <1>7, <1>8, <1>9, <1>10, Zenon DEF Http!Next, Http!Thread
-----------------------------------------------------------------------------
(* The UDP servers. A queue of datagrams holds at most one of user u, and  *)
(* that one carries w.                                                     *)
Holds(s, u) == \E i \in DOMAIN s : s[i][1] = u
Once(s, u, w) == \A i, j \in DOMAIN s : s[i][1] = u => s[i][2] = w /\ (s[j][1] = u => i = j)
Without(s, i, t) ==
  Len(t) = Len(s) - 1 /\ \A k \in 1 .. Len(t) : t[k] = s[IF k < i THEN k ELSE k + 1]

LEMMA TailWithout ==
  ASSUME NEW S, NEW s \in Seq(S), s # <<>>
  PROVE  Tail(s) \in Seq(S) /\ Without(s, 1, Tail(s)) /\ 1 \in 1 .. Len(s) /\ Head(s) = s[1]
<1>1. Len(s) \in Nat \ {0}
  BY EmptySeq
<1>2. Head(s) = s[1]
  BY <1>1
<1>3. PICK t \in Seq(S) : /\ t = Tail(s) /\ Len(t) = Len(s) - 1
                          /\ \A i \in 1 .. Len(t) : t[i] = s[i + 1]
  BY HeadTailProperties
<1>4. Without(s, 1, t)
  BY <1>1, <1>3 DEF Without
<1> QED
  BY <1>1, <1>2, <1>3, <1>4

LEMMA RemoveWithout ==
  ASSUME NEW S, NEW s \in Seq(S), NEW i \in 1 .. Len(s)
  PROVE  Udp!RemoveAt(s, i) \in Seq(S) /\ Without(s, i, Udp!RemoveAt(s, i))
<1>1. PICK n \in Nat : n = Len(s)
  BY LenProperties
<1>2. i \in 1 .. n /\ i - 1 \in 0 .. n
  BY <1>1
<1>3. PICK a \in Seq(S) : /\ a = SubSeq(s, 1, i - 1) /\ Len(a) = i - 1
                          /\ \A k \in 1 .. i - 1 : a[k] = s[k]
  BY <1>1, <1>2, Front
<1>4. PICK b \in Seq(S) : /\ b = SubSeq(s, i + 1, Len(s)) /\ Len(b) = n - i
                          /\ \A k \in 1 .. n - i : b[k] = s[k + i]
  <2>1. i \in 0 .. Len(s)
    BY <1>1, <1>2
  <2>2. /\ SubSeq(s, i + 1, Len(s)) \in Seq(S) /\ Len(SubSeq(s, i + 1, Len(s))) = Len(s) - i
        /\ \A k \in 1 .. Len(s) - i : SubSeq(s, i + 1, Len(s))[k] = s[k + i]
    BY <2>1, Behind
  <2> QED
    BY <1>1, <2>2, Zenon
<1> DEFINE la == Len(a)
           lb == Len(b)
<1>9. la = i - 1 /\ lb = n - i
  BY <1>3, <1>4
<1>5. PICK t \in Seq(S) : /\ t = a \o b /\ Len(t) = n - 1
                          /\ \A k \in 1 .. n - 1 : t[k] = IF k <= i - 1 THEN a[k] ELSE b[k - (i - 1)]
  <2>1. a \o b \in Seq(S) /\ Len(a \o b) = la + lb
        /\ \A k \in 1 .. la + lb : (a \o b)[k] = IF k <= la THEN a[k] ELSE b[k - la]
    BY ConcatProperties, Zenon
  <2> HIDE DEF la, lb
  <2>2. la + lb = n - 1
    BY <1>2, <1>9
  <2> QED
    BY <1>9, <2>1, <2>2, Zenon
<1>6. Udp!RemoveAt(s, i) = t
  BY <1>3, <1>4, <1>5 DEF Udp!RemoveAt
<1>7. \A k \in 1 .. n - 1 : t[k] = s[IF k < i THEN k ELSE k + 1]
  <2> SUFFICES ASSUME NEW k \in 1 .. n - 1 PROVE t[k] = s[IF k < i THEN k ELSE k + 1]
    OBVIOUS
  <2>1. CASE k < i
    BY <1>2, <1>3, <1>5, <2>1
  <2>2. CASE ~(k < i)
    <3>1. k - (i - 1) \in 1 .. n - i /\ k - (i - 1) + i = k + 1 /\ ~(k <= i - 1)
      BY <1>2, <2>2
    <3> QED
      BY <1>4, <1>5, <2>2, <3>1
  <2> QED
    BY <2>1, <2>2
<1> QED
  BY <1>1, <1>5, <1>6, <1>7 DEF Without

LEMMA Withdrawn ==
  ASSUME NEW S, NEW s \in Seq(S), NEW t \in Seq(S), NEW i \in 1 .. Len(s), Without(s, i, t),
         NEW u, NEW w
  PROVE  /\ Once(s, u, w) => Once(t, u, w)
         /\ Holds(t, u) => Holds(s, u)
         /\ Once(s, u, w) /\ s[i][1] = u => ~Holds(t, u)
<1> DEFINE at(k) == IF k < i THEN k ELSE k + 1
<1>1. DOMAIN s = 1 .. Len(s) /\ DOMAIN t = 1 .. Len(t) /\ Len(s) \in Nat /\ Len(t) \in Nat
  BY LenProperties
<1>2. \A k \in DOMAIN t : t[k] = s[at(k)]
  BY <1>1 DEF Without
<1>3. \A k \in DOMAIN t : at(k) \in DOMAIN s /\ at(k) # i /\ \A m \in DOMAIN t : at(k) = at(m) => k = m
  <2>1. PICK n \in Nat : n = Len(s) /\ n - 1 = Len(t)
    BY <1>1 DEF Without
  <2> QED
    BY <1>1, <2>1
<1> HIDE DEF at
<1>5. i \in DOMAIN s
  BY <1>1
<1>6. Once(s, u, w) => Once(t, u, w)
  <2> SUFFICES ASSUME Once(s, u, w), NEW k \in DOMAIN t, NEW m \in DOMAIN t, t[k][1] = u
               PROVE  t[k][2] = w /\ (t[m][1] = u => k = m)
    BY Zenon DEF Once
  <2>1. t[k] = s[at(k)] /\ t[m] = s[at(m)] /\ at(k) \in DOMAIN s /\ at(m) \in DOMAIN s
    BY <1>2, <1>3
  <2>2. s[at(k)][2] = w /\ (s[at(m)][1] = u => at(k) = at(m))
    BY <2>1 DEF Once
  <2> QED
    BY <1>3, <2>1, <2>2
<1>7. Holds(t, u) => Holds(s, u)
  BY <1>2, <1>3, Zenon DEF Holds
<1>8. Once(s, u, w) /\ s[i][1] = u => ~Holds(t, u)
  BY <1>2, <1>3, <1>5, Zenon DEF Once, Holds
<1> QED
  BY <1>6, <1>7, <1>8

LEMMA Added ==
  ASSUME NEW S, NEW s \in Seq(S), NEW d \in S, NEW u, NEW w
  PROVE  /\ Append(s, d) \in Seq(S)
         /\ d[1] # u /\ Once(s, u, w) => Once(Append(s, d), u, w)
         /\ d[1] # u /\ Holds(Append(s, d), u) => Holds(s, u)
         /\ d[1] = u /\ d[2] = w /\ ~Holds(s, u) => Once(Append(s, d), u, w)
<1>1. PICK n \in Nat : n = Len(s) /\ DOMAIN s = 1 .. n
  BY LenProperties
<1>2. PICK t \in Seq(S) : t = Append(s, d) /\ DOMAIN t = 1 .. n + 1 /\ t[n + 1] = d
                          /\ \A k \in 1 .. n : t[k] = s[k]
  <2>1. Append(s, d) \in Seq(S) /\ Len(Append(s, d)) = n + 1
    BY <1>1
  <2>2. DOMAIN Append(s, d) = 1 .. n + 1
    BY <2>1, LenProperties
  <2>3. Append(s, d)[n + 1] = d /\ \A k \in 1 .. n : Append(s, d)[k] = s[k]
    BY <1>1
  <2> QED
    BY <2>1, <2>2, <2>3, Zenon
<1>3. \A k \in DOMAIN t : k = n + 1 \/ (k \in DOMAIN s /\ k \in 1 .. n)
  BY <1>1, <1>2
<1>4. DOMAIN s \subseteq DOMAIN t
  BY <1>1, <1>2
<1> QED
  BY <1>1, <1>2, <1>3, <1>4, Zenon DEF Once, Holds

LEMMA NoneHeld ==
  ASSUME NEW s, NEW u, NEW w, ~Holds(s, u)
  PROVE  Once(s, u, w)
BY Zenon DEF Once, Holds

Entered == {"cat", "dog", ""}
Answers == Entered \cup {"mao", "gou", "None"}
NoText(w) == w = ""
Latest(u) == said[u][Len(said[u])]

UdpTyped ==
  /\ server \in {"echo", "dict"} /\ user \in [Clients -> {"prompt", "waiting", "left"}]
  /\ said \in [Clients -> Seq(Entered)] /\ heard \in [Clients -> Seq(Answers)]
  /\ wire \in Seq(Clients \X Entered) /\ inbox \in Seq(Clients \X Entered)
  /\ mail \in [Clients -> Seq(Answers)]

(* At most one datagram of a user, or its answer, is under way: the line   *)
(* entered last, and only while the user waits for its answer or has left. *)
UserInv(u) ==
  /\ Once(wire, u, Latest(u)) /\ Once(inbox, u, Latest(u)) /\ Len(mail[u]) <= 1
  /\ Holds(wire, u) => ~Holds(inbox, u)
  /\ Holds(wire, u) \/ Holds(inbox, u) => Len(mail[u]) = 0 /\ user[u] # "prompt"
  /\ user[u] # "waiting" => Len(mail[u]) = 0
  /\ user[u] = "left" => NoText(Latest(u))
  /\ Len(said[u]) = Len(heard[u]) + (IF user[u] = "prompt" THEN 0 ELSE 1)
  /\ Len(mail[u]) = 1 => Udp!Right(Latest(u), mail[u][1])
  /\ \A k \in DOMAIN heard[u] : Udp!Right(said[u][k], heard[u][k])

UdpInv == UdpTyped /\ \A u \in Clients \ copied : UserInv(u)

LEMMA UdpRight == UdpInv => Udp!AnswersInStep
BY Zenon DEF UdpInv, UserInv, Udp!AnswersInStep

LEMMA UdpInit == ServicesInit => UdpInv
<1> SUFFICES ASSUME ServicesInit PROVE UdpInv
  OBVIOUS
<1>1. Udp!Init
  BY DEF ServicesInit
<1>2. UdpTyped
  BY <1>1 DEF Udp!Init, UdpTyped
<1>3. /\ wire = <<>> /\ inbox = <<>>
      /\ \A u \in Clients : user[u] = "prompt" /\ said[u] = <<>> /\ heard[u] = <<>> /\ mail[u] = <<>>
  BY <1>1 DEF Udp!Init
<1>4. \A u : ~Holds(wire, u) /\ ~Holds(inbox, u)
  BY <1>3 DEF Holds
<1>5. ASSUME NEW u \in Clients PROVE UserInv(u)
  <2>1. Once(wire, u, Latest(u)) /\ Once(inbox, u, Latest(u))
    BY <1>4, NoneHeld
  <2>2. Len(said[u]) = 0 /\ Len(heard[u]) = 0 /\ Len(mail[u]) = 0 /\ DOMAIN heard[u] = {}
        /\ user[u] = "prompt"
    BY <1>3
  <2> QED
    BY <1>4, <2>1, <2>2 DEF UserInv
<1> QED
  BY <1>2, <1>5 DEF UdpInv

(* The dictionary and the echo server answer right. *)
LEMMA DictLinesOf ==
  /\ DictFile[1][1] = "" /\ DictFile[1][2] = "" /\ DictFile[2][1] = "cat" /\ DictFile[2][2] = ""
  /\ DictFile[3][1] = "cat" /\ DictFile[3][2] = "mao" /\ DictFile[4][1] = "cat" /\ DictFile[4][2] = "gou"
BY DEF DictFile

LEMMA DictDomain ==
  DOMAIN DictFile = {1, 2, 3, 4} /\ 1 .. 3 - 1 = {1, 2} /\ Udp!Min({3, 4}) = 3
<1>1. DOMAIN DictFile = 1 .. 4
  BY DEF DictFile
<1>2. 1 .. 4 = {1, 2, 3, 4} /\ 1 .. 3 - 1 = {1, 2}
  OBVIOUS
<1>3. Udp!Min({3, 4}) = 3
  BY DEF Udp!Min
<1> QED
  BY <1>1, <1>2, <1>3

LEMMA AnswerRight ==
  ASSUME server \in {"echo", "dict"}, NEW w \in Entered, w # ""
  PROVE  Udp!Answer(w) \in Answers /\ Udp!Right(w, Udp!Answer(w))
<1>1. CASE server = "echo"
  BY <1>1 DEF Udp!Answer, Udp!Right, Answers, Entered
<1>2. CASE server = "dict"
  <2>1. Udp!Loaded = {3, 4}
    BY DictLinesOf, DictDomain, Zenon DEF Udp!Loaded
  <2>2. Udp!Answer("cat") = "mao" /\ Udp!Right("cat", "mao")
    <3>1. {i \in {3, 4} : DictFile[i][1] = "cat"} = {3, 4}
      BY DictLinesOf
    <3>2. Udp!TranslateWords("cat") = DictFile[3][2]
      BY <2>1, <3>1, DictDomain DEF Udp!TranslateWords
    <3>3. /\ 3 \in DOMAIN DictFile /\ DictFile[3][1] = "cat" /\ DictFile[3][2] = "mao"
          /\ \A j \in {1, 2} : ~(DictFile[j][1] = "cat" /\ DictFile[j][2] # "")
      BY DictLinesOf, DictDomain
    <3>4. Udp!Right("cat", "mao")
      BY <1>2, <3>3, DictDomain DEF Udp!Right
    <3> QED
      BY <1>2, <3>2, <3>4, DictLinesOf DEF Udp!Answer
  <2>3. Udp!Answer("dog") = "None" /\ Udp!Right("dog", "None")
    <3>1. {i \in {3, 4} : DictFile[i][1] = "dog"} = {}
      BY DictLinesOf
    <3>2. Udp!Answer("dog") = "None"
      BY <1>2, <2>1, <3>1 DEF Udp!Answer, Udp!TranslateWords
    <3>3. \A i \in DOMAIN DictFile : DictFile[i][1] # "dog"
      BY DictLinesOf, DictDomain
    <3>4. Udp!Right("dog", "None")
      BY <1>2, <3>3 DEF Udp!Right
    <3> QED
      BY <3>2, <3>4
  <2>4. w = "cat" \/ w = "dog"
    BY DEF Entered
  <2> QED
    BY <2>2, <2>3, <2>4 DEF Answers
<1> QED
  BY <1>1, <1>2

(* A step that brings user u nothing new. *)
LEMMA UserKept ==
  ASSUME NEW u \in Clients, UserInv(u), server' = server, user'[u] = user[u], said'[u] = said[u],
         heard'[u] = heard[u], mail'[u] = mail[u],
         Once(wire', u, Latest(u)), Once(inbox', u, Latest(u)),
         Holds(wire', u) => Holds(wire, u), Holds(inbox', u) => Holds(inbox, u)
  PROVE  UserInv(u)'
<1>1. Latest(u)' = Latest(u)
  BY DEF Latest
<1>2. \A w, a : Udp!Right(w, a)' <=> Udp!Right(w, a)
  BY DEF Udp!Right
<1> QED
  BY <1>1, <1>2 DEF UserInv

LEMMA AppendOf ==
  ASSUME NEW S, NEW q \in Seq(S), NEW e \in S
  PROVE  /\ Append(q, e) \in Seq(S) /\ Len(Append(q, e)) = Len(q) + 1
         /\ DOMAIN Append(q, e) = 1 .. Len(q) + 1
         /\ Append(q, e)[Len(q) + 1] = e /\ \A k \in 1 .. Len(q) : Append(q, e)[k] = q[k]
<1>1. Append(q, e) \in Seq(S) /\ Len(Append(q, e)) = Len(q) + 1 /\ Len(q) \in Nat
  OBVIOUS
<1>2. DOMAIN Append(q, e) = 1 .. Len(q) + 1
  BY <1>1, LenProperties
<1>3. Append(q, e)[Len(q) + 1] = e /\ \A k \in 1 .. Len(q) : Append(q, e)[k] = q[k]
  BY <1>1
<1> QED
  BY <1>1, <1>2, <1>3, Zenon

(* The parts of UserInv after a step. *)
LEMMA UserAgain ==
  ASSUME NEW u \in Clients, server' = server,
         Once(wire', u, Latest(u)'), Once(inbox', u, Latest(u)'),
         Holds(wire', u) => ~Holds(inbox', u),
         Holds(wire', u) \/ Holds(inbox', u) => Len(mail'[u]) = 0 /\ user'[u] # "prompt",
         NEW m \in {0, 1}, Len(mail'[u]) = m, m = 1 => user'[u] = "waiting",
         user'[u] = "left" => NoText(Latest(u)'),
         NEW n \in Nat, Len(heard'[u]) = n,
         Len(said'[u]) = IF user'[u] = "prompt" THEN n ELSE n + 1,
         m = 1 => Udp!Right(Latest(u)', mail'[u][1]),
         \A k \in DOMAIN heard'[u] : Udp!Right(said'[u][k], heard'[u][k])
  PROVE  UserInv(u)'
<1>1. Len(mail'[u]) <= 1 /\ (Len(mail'[u]) = 1 => m = 1)
  OBVIOUS
<1>2. user'[u] # "waiting" => Len(mail'[u]) = 0
  OBVIOUS
<1>3. Len(said'[u]) = Len(heard'[u]) + (IF user'[u] = "prompt" THEN 0 ELSE 1)
  OBVIOUS
<1>4. /\ Len(mail'[u]) = 1 => Udp!Right(Latest(u), mail[u][1])'
      /\ \A k \in DOMAIN heard'[u] : Udp!Right(said[u][k], heard[u][k])'
  BY <1>1 DEF Udp!Right
<1> QED
  BY <1>1, <1>2, <1>3, <1>4, Zenon DEF UserInv

LEMMA UdpFacts ==
  ASSUME UdpTyped, NEW u \in Clients
  PROVE  /\ Len(said[u]) \in Nat /\ Len(heard[u]) \in Nat /\ Len(mail[u]) \in Nat
         /\ said[u] \in Seq(Entered) /\ heard[u] \in Seq(Answers) /\ mail[u] \in Seq(Answers)
         /\ DOMAIN heard[u] = 1 .. Len(heard[u]) /\ (mail[u] = <<>> <=> Len(mail[u]) = 0)
<1>1. said[u] \in Seq(Entered) /\ heard[u] \in Seq(Answers) /\ mail[u] \in Seq(Answers)
  BY DEF UdpTyped
<1> QED
  BY <1>1, LenProperties, EmptySeq

LEMMA UdpStep == UdpInv /\ Udp!Next => UdpInv'
<1> SUFFICES ASSUME UdpInv, Udp!Next PROVE UdpInv'
  OBVIOUS
<1>0. /\ UdpTyped /\ server \in {"echo", "dict"}
      /\ wire \in Seq(Clients \X Entered) /\ inbox \in Seq(Clients \X Entered)
      /\ \A v \in Clients \ copied : UserInv(v)
  BY DEF UdpInv, UdpTyped
<1>1. ASSUME NEW u \in Clients, Udp!Send(u) PROVE UdpInv'
  <2>1. PICK w \in Entered :
          /\ user[u] = "prompt" /\ user' = [user EXCEPT ![u] = IF w = "" THEN "left" ELSE "waiting"]
          /\ wire' = Append(wire, <<u, w>>) /\ said' = [said EXCEPT ![u] = Append(said[u], w)]
          /\ UNCHANGED <<server, heard, inbox, mail, lost, copied>>
    BY <1>1 DEF Udp!Send, Entered
  <2>2. PICK s \in Seq(Entered) : s = Append(said[u], w) /\ Len(s) = Len(said[u]) + 1
          /\ s[Len(said[u]) + 1] = w /\ \A k \in 1 .. Len(said[u]) : s[k] = said[u][k]
    <3>1. said[u] \in Seq(Entered)
      BY <1>0, UdpFacts
    <3>2. /\ Append(said[u], w) \in Seq(Entered) /\ Len(Append(said[u], w)) = Len(said[u]) + 1
          /\ DOMAIN Append(said[u], w) = 1 .. Len(said[u]) + 1
          /\ Append(said[u], w)[Len(said[u]) + 1] = w
          /\ \A k \in 1 .. Len(said[u]) : Append(said[u], w)[k] = said[u][k]
      BY <3>1, AppendOf
    <3> QED
      BY <3>2, Zenon
  <2>3. /\ said'[u] = s /\ user'[u] = IF w = "" THEN "left" ELSE "waiting"
        /\ \A v \in Clients \ {u} : said'[v] = said[v] /\ user'[v] = user[v]
    BY <1>0, <2>1, <2>2 DEF UdpTyped
  <2>4. <<u, w>> \in Clients \X Entered /\ <<u, w>>[1] = u /\ <<u, w>>[2] = w
    OBVIOUS
  <2>5. UdpTyped'
    <3>1. wire' \in Seq(Clients \X Entered)
      BY <1>0, <2>1, <2>4, Added
    <3>2. said' \in [Clients -> Seq(Entered)]
      BY <1>0, <2>1, <2>2 DEF UdpTyped
    <3>3. user' \in [Clients -> {"prompt", "waiting", "left"}]
      BY <1>0, <2>1 DEF UdpTyped
    <3> QED
      BY <1>0, <2>1, <3>1, <3>2, <3>3 DEF UdpTyped
  <2>6. ASSUME NEW v \in Clients \ copied, v # u PROVE UserInv(v)'
    <3>1. Once(wire', v, Latest(v)) /\ (Holds(wire', v) => Holds(wire, v))
      BY <1>0, <2>1, <2>4, <2>6, Added DEF UserInv
    <3>2. Once(inbox', v, Latest(v)) /\ (Holds(inbox', v) => Holds(inbox, v))
      BY <1>0, <2>1 DEF UserInv
    <3> QED
      BY <1>0, <2>1, <2>3, <2>6, <3>1, <3>2, UserKept
  <2>7. ASSUME u \notin copied PROVE UserInv(u)'
    <3>1. UserInv(u)
      BY <1>0, <2>7
    <3>2. ~Holds(wire, u) /\ ~Holds(inbox, u) /\ Len(mail[u]) = 0 /\ Len(said[u]) = Len(heard[u])
          /\ \A k \in DOMAIN heard[u] : Udp!Right(said[u][k], heard[u][k])
      <4>1. \A k \in DOMAIN heard[u] : Udp!Right(said[u][k], heard[u][k])
        BY <3>1, Zenon DEF UserInv
      <4>2. PICK x \in Nat, y \in Nat : x = Len(said[u]) /\ y = Len(heard[u])
        BY <1>0, UdpFacts
      <4>3. x = y + 0
        BY <2>1, <3>1, <4>2, Zenon DEF UserInv
      <4>4. ~Holds(wire, u) /\ ~Holds(inbox, u) /\ Len(mail[u]) = 0
        BY <2>1, <3>1 DEF UserInv
      <4> QED
        BY <4>1, <4>2, <4>3, <4>4
    <3>3. Latest(u)' = w
      BY <2>2, <2>3 DEF Latest
    <3>4. Once(wire', u, w) /\ Once(inbox, u, w)
      BY <1>0, <2>1, <2>4, <3>2, Added, NoneHeld
    <3>5. \A k \in DOMAIN heard[u] : s[k] = said[u][k]
      BY <1>0, <2>2, <3>2, UdpFacts
    <3>6. \A k \in DOMAIN heard[u] : Udp!Right(s[k], heard[u][k])
      BY <3>2, <3>5, Zenon
    <3>7. Len(s) = Len(heard[u]) + 1
      BY <2>2, <3>2
    <3>8. user'[u] # "prompt" /\ (user'[u] = "left" => NoText(w)) /\ ~Holds(inbox, u)
      BY <2>3, <3>2 DEF NoText
    <3>9. /\ heard'[u] = heard[u] /\ mail'[u] = mail[u] /\ inbox' = inbox /\ said'[u] = s
      BY <2>1, <2>3
    <3>11. /\ Once(wire', u, Latest(u)') /\ Once(inbox', u, Latest(u)') /\ ~Holds(inbox', u)
           /\ user'[u] # "prompt" /\ (user'[u] = "left" => NoText(Latest(u)')) /\ Len(mail'[u]) = 0
      BY <3>2, <3>3, <3>4, <3>8, <3>9
    <3>12. PICK n \in Nat : n = Len(heard[u]) /\ Len(s) = n + 1
      BY <1>0, <3>7, UdpFacts
    <3>13. /\ \A k \in DOMAIN heard'[u] : Udp!Right(said'[u][k], heard'[u][k])
           /\ Len(heard'[u]) = n /\ Len(said'[u]) = n + 1
      BY <3>6, <3>9, <3>12, Zenon
    <3>14. /\ Len(said'[u]) = IF user'[u] = "prompt" THEN n ELSE n + 1
           /\ ~(Holds(inbox', u) /\ Holds(wire', u)) /\ 0 \in {0, 1} /\ 0 # 1
      BY <3>11, <3>13
    <3> QED
      BY <2>1, <3>11, <3>13, <3>14, UserAgain
  <2> QED
    BY <2>1, <2>5, <2>6, <2>7 DEF UdpInv
<1>2. ASSUME NEW u \in Clients, Udp!Receive(u) PROVE UdpInv'
  <2>1. /\ user[u] = "waiting" /\ mail[u] # <<>> /\ user' = [user EXCEPT ![u] = "prompt"]
        /\ heard' = [heard EXCEPT ![u] = Append(heard[u], Head(mail[u]))]
        /\ mail' = [mail EXCEPT ![u] = Tail(mail[u])]
        /\ UNCHANGED <<server, said, wire, inbox, lost, copied>>
    BY <1>2 DEF Udp!Receive
  <2>2. PICK a \in Answers, t \in Seq(Answers) :
          /\ a = Head(mail[u]) /\ a = mail[u][1] /\ t = Tail(mail[u]) /\ Len(t) = Len(mail[u]) - 1
    <3>1. mail[u] \in Seq(Answers) /\ mail[u] # <<>>
      BY <1>0, <2>1, UdpFacts
    <3>2. /\ Tail(mail[u]) \in Seq(Answers) /\ Head(mail[u]) \in Answers
          /\ Len(Tail(mail[u])) = Len(mail[u]) - 1
      BY <3>1, HeadTailProperties
    <3>3. Head(mail[u]) = mail[u][1]
      BY <3>1, TailWithout
    <3> QED
      BY <3>2, <3>3, Zenon
  <2>3. PICK h \in Seq(Answers) : h = Append(heard[u], a) /\ Len(h) = Len(heard[u]) + 1
          /\ DOMAIN h = 1 .. Len(heard[u]) + 1
          /\ h[Len(heard[u]) + 1] = a /\ \A k \in 1 .. Len(heard[u]) : h[k] = heard[u][k]
    <3>1. heard[u] \in Seq(Answers)
      BY <1>0, UdpFacts
    <3>2. /\ Append(heard[u], a) \in Seq(Answers) /\ Len(Append(heard[u], a)) = Len(heard[u]) + 1
          /\ DOMAIN Append(heard[u], a) = 1 .. Len(heard[u]) + 1
          /\ Append(heard[u], a)[Len(heard[u]) + 1] = a
          /\ \A k \in 1 .. Len(heard[u]) : Append(heard[u], a)[k] = heard[u][k]
      BY <3>1, AppendOf
    <3> QED
      BY <3>2, Zenon
  <2>4. /\ heard'[u] = h /\ mail'[u] = t /\ user'[u] = "prompt"
        /\ \A v \in Clients \ {u} : heard'[v] = heard[v] /\ mail'[v] = mail[v] /\ user'[v] = user[v]
    BY <1>0, <2>1, <2>2, <2>3 DEF UdpTyped
  <2>5. UdpTyped'
    BY <1>0, <2>1, <2>2, <2>3 DEF UdpTyped
  <2>6. ASSUME NEW v \in Clients \ copied, v # u PROVE UserInv(v)'
    BY <1>0, <2>1, <2>4, <2>6, UserKept DEF UserInv
  <2>7. ASSUME u \notin copied PROVE UserInv(u)'
    <3>1. UserInv(u)
      BY <1>0, <2>7
    <3>2. /\ Len(mail[u]) = 1 /\ ~Holds(wire, u) /\ ~Holds(inbox, u)
          /\ Len(said[u]) = Len(heard[u]) + 1 /\ Udp!Right(Latest(u), a)
          /\ Once(wire, u, Latest(u)) /\ Once(inbox, u, Latest(u))
          /\ \A k \in DOMAIN heard[u] : Udp!Right(said[u][k], heard[u][k])
      <4>1. \A k \in DOMAIN heard[u] : Udp!Right(said[u][k], heard[u][k])
        BY <3>1, Zenon DEF UserInv
      <4>2. PICK x \in Nat, y \in Nat, z \in Nat :
              x = Len(said[u]) /\ y = Len(heard[u]) /\ z = Len(mail[u])
        BY <1>0, UdpFacts
      <4>3. user[u] # "prompt"
        BY <2>1
      <4>4. x = y + 1
        BY <3>1, <4>2, <4>3, Zenon DEF UserInv
      <4>5. z = 1
        <5>1. z <= 1
          BY <3>1, <4>2, Zenon DEF UserInv
        <5>2. z # 0
          BY <1>0, <2>1, <4>2, UdpFacts
        <5>3. z \in Nat
          BY <4>2
        <5> QED
          BY <5>1, <5>2, <5>3
      <4>6. Once(wire, u, Latest(u)) /\ Once(inbox, u, Latest(u)) /\ ~Holds(wire, u) /\ ~Holds(inbox, u)
            /\ Udp!Right(Latest(u), a)
        <5>1. Len(mail[u]) = 1 /\ Len(mail[u]) # 0
          BY <4>2, <4>5
        <5> QED
          BY <2>2, <3>1, <5>1, Zenon DEF UserInv
      <4> QED
        BY <4>1, <4>2, <4>4, <4>5, <4>6
    <3>3. ASSUME NEW k \in DOMAIN h PROVE Udp!Right(said[u][k], h[k])
      <4>1. CASE k = Len(heard[u]) + 1
        BY <2>3, <3>2, <4>1 DEF Latest
      <4>2. CASE k # Len(heard[u]) + 1
        <5>1. k \in DOMAIN heard[u] /\ h[k] = heard[u][k]
          BY <1>0, <2>3, <4>2, UdpFacts
        <5> QED
          BY <3>2, <5>1
      <4> QED
        BY <4>1, <4>2
    <3>5. Len(t) = 0 /\ Len(said[u]) = Len(h)
      BY <2>2, <2>3, <3>2
    <3>6. Latest(u)' = Latest(u)
      BY <2>1 DEF Latest
    <3>8. /\ Once(wire', u, Latest(u)') /\ Once(inbox', u, Latest(u)') /\ ~Holds(wire', u)
          /\ ~Holds(inbox', u) /\ user'[u] = "prompt" /\ Len(mail'[u]) = 0
      BY <2>1, <2>4, <3>2, <3>5, <3>6
    <3>9. PICK n \in Nat : n = Len(h) /\ Len(said'[u]) = n
      BY <1>0, <2>1, <3>5, UdpFacts
    <3>10. /\ \A k \in DOMAIN heard'[u] : Udp!Right(said'[u][k], heard'[u][k])
           /\ Len(heard'[u]) = n
      BY <2>1, <2>4, <3>3, <3>9, Zenon
    <3>11. /\ Len(said'[u]) = IF user'[u] = "prompt" THEN n ELSE n + 1
           /\ 0 \in {0, 1} /\ 0 # 1 /\ user'[u] # "left"
      BY <3>8, <3>9
    <3> QED
      BY <2>1, <3>8, <3>10, <3>11, UserAgain
  <2> QED
    BY <2>1, <2>5, <2>6, <2>7 DEF UdpInv
<1>3. ASSUME NEW i \in DOMAIN wire, Udp!Deliver(i), UNCHANGED <<server, user, said, heard, mail>>
      PROVE  UdpInv'
  <2>1. PICK u \in Clients, w \in Entered : wire[i] = <<u, w>> /\ i \in 1 .. Len(wire)
    BY <1>0, <1>3, LenProperties, ElementOfSeq
  <2>2. PICK s \in Seq(Clients \X Entered) : s = Udp!RemoveAt(wire, i) /\ Without(wire, i, s)
    BY <1>0, <2>1, RemoveWithout
  <2>3. PICK b \in Seq(Clients \X Entered) : b = Append(inbox, <<u, w>>)
    BY <1>0, Added
  <2>4. /\ copied \subseteq copied'
        /\ \/ inbox' = b /\ wire' = s
           \/ inbox' = inbox /\ wire' = s
           \/ inbox' = b /\ wire' = wire /\ u \in copied'
    <3>1. wire[i][1] = u /\ Append(inbox, wire[i]) = b /\ Udp!RemoveAt(wire, i) = s
      BY <2>1, <2>2, <2>3
    <3>2. \/ inbox' = Append(inbox, wire[i]) /\ wire' = Udp!RemoveAt(wire, i) /\ copied' = copied
          \/ wire' = Udp!RemoveAt(wire, i) /\ inbox' = inbox /\ copied' = copied
          \/ inbox' = Append(inbox, wire[i]) /\ copied' = copied \cup {wire[i][1]} /\ wire' = wire
      BY <1>3, Zenon DEF Udp!Deliver
    <3> QED
      BY <3>1, <3>2, Zenon
  <2>5. UdpTyped'
    BY <1>0, <1>3, <2>4 DEF UdpTyped
  <2>6. ASSUME NEW v \in Clients \ copied, v # u \/ u \notin copied' PROVE UserInv(v)'
    <3>1. UserInv(v)
      BY <1>0
    <3>2. /\ Once(wire, v, Latest(v)) /\ Once(inbox, v, Latest(v))
          /\ Holds(wire, v) => ~Holds(inbox, v) /\ Len(mail[v]) = 0 /\ user[v] # "prompt"
      BY <3>1 DEF UserInv
    <3>3. /\ Once(s, v, Latest(v)) /\ (Holds(s, v) => Holds(wire, v))
          /\ v = u => ~Holds(s, v) /\ w = Latest(v) /\ Holds(wire, v)
      <4>1. Once(s, v, Latest(v)) /\ (Holds(s, v) => Holds(wire, v))
        BY <1>0, <2>1, <2>2, <3>2, Withdrawn
      <4>2. ASSUME v = u PROVE ~Holds(s, v) /\ w = Latest(v) /\ Holds(wire, v)
        <5>1. wire[i][1] = v /\ wire[i][2] = w
          BY <2>1, <4>2
        <5>2. w = Latest(v) /\ Holds(wire, v)
          BY <1>3, <3>2, <5>1 DEF Once, Holds
        <5> QED
          BY <1>0, <2>1, <2>2, <3>2, <5>1, <5>2, Withdrawn
      <4> QED
        BY <4>1, <4>2
    <3>4. /\ v # u => Once(b, v, Latest(v)) /\ (Holds(b, v) => Holds(inbox, v))
          /\ v = u => Once(b, v, Latest(v))
      <4>1. <<u, w>> \in Clients \X Entered /\ <<u, w>>[1] = u /\ <<u, w>>[2] = w
        OBVIOUS
      <4> QED
        BY <1>0, <2>3, <3>2, <3>3, <4>1, Added
    <3>5. CASE inbox' = b /\ wire' = s /\ v = u
      <4>1. Latest(v)' = Latest(v) /\ user'[v] = user[v] /\ said'[v] = said[v] /\ heard'[v] = heard[v]
            /\ mail'[v] = mail[v]
        BY <1>3 DEF Latest
      <4>2. \A x, a : Udp!Right(x, a)' <=> Udp!Right(x, a)
        BY <1>3 DEF Udp!Right
      <4>3. ~Holds(wire', v) /\ Once(wire', v, Latest(v)) /\ Once(inbox', v, Latest(v))
            /\ Len(mail[v]) = 0 /\ user[v] # "prompt"
        BY <3>2, <3>3, <3>4, <3>5
      <4> QED
        BY <3>1, <4>1, <4>2, <4>3 DEF UserInv
    <3>6. CASE ~(inbox' = b /\ wire' = s /\ v = u)
      <4>1. /\ Once(wire', v, Latest(v)) /\ Once(inbox', v, Latest(v))
            /\ Holds(wire', v) => Holds(wire, v)
            /\ Holds(inbox', v) => Holds(inbox, v)
        BY <2>4, <2>6, <3>2, <3>3, <3>4, <3>6
      <4> QED
        BY <1>3, <3>1, <4>1, UserKept
    <3> QED
      BY <3>5, <3>6
  <2> QED
    BY <2>4, <2>5, <2>6 DEF UdpInv
<1>4. ASSUME Udp!Serve PROVE UdpInv'
  <2>1. inbox # <<>> /\ inbox' = Tail(inbox) /\ UNCHANGED <<server, user, said, heard, wire, copied>>
    BY <1>4 DEF Udp!Serve
  <2>2. /\ Tail(inbox) \in Seq(Clients \X Entered) /\ Without(inbox, 1, Tail(inbox))
        /\ 1 \in 1 .. Len(inbox) /\ Head(inbox) = inbox[1]
    BY <1>0, <2>1, TailWithout
  <2>3. PICK u \in Clients, w \in Entered : Head(inbox) = <<u, w>> /\ inbox[1][1] = u /\ inbox[1][2] = w
    BY <1>0, <2>2, ElementOfSeq
  <2>4. \/ UNCHANGED mail
        \/ w # "" /\ mail' = [mail EXCEPT ![u] = Append(mail[u], Udp!Answer(w))]
    <3>1. Head(inbox)[1] = u /\ Head(inbox)[2] = w
      BY <2>3
    <3>2. \/ mail' = mail
          \/ /\ Head(inbox)[2] # ""
             /\ mail' = [mail EXCEPT ![Head(inbox)[1]] =
                          Append(mail[Head(inbox)[1]], Udp!Answer(Head(inbox)[2]))]
      BY <1>4, Zenon DEF Udp!Serve
    <3> QED
      BY <3>1, <3>2, Zenon
  <2>5. w # "" => /\ Udp!Answer(w) \in Answers /\ Udp!Right(w, Udp!Answer(w))
                  /\ Append(mail[u], Udp!Answer(w)) \in Seq(Answers)
                  /\ Len(mail[u]) = 0 => /\ Len(Append(mail[u], Udp!Answer(w))) = 1
                                         /\ Append(mail[u], Udp!Answer(w))[1] = Udp!Answer(w)
    <3>1. w # "" => Udp!Answer(w) \in Answers /\ Udp!Right(w, Udp!Answer(w))
      BY <1>0, AnswerRight
    <3>2. mail[u] \in Seq(Answers)
      BY <1>0, UdpFacts
    <3>3. ASSUME NEW a \in Answers
          PROVE  /\ Append(mail[u], a) \in Seq(Answers)
                 /\ Len(mail[u]) = 0 => Len(Append(mail[u], a)) = 1 /\ Append(mail[u], a)[1] = a
      BY <3>2
    <3> QED
      BY <3>1, <3>3, Zenon
  <2>6. UdpTyped'
    <3>1. mail' \in [Clients -> Seq(Answers)]
      BY <1>0, <2>4, <2>5, Zenon DEF UdpTyped
    <3> QED
      BY <1>0, <2>1, <2>2, <3>1 DEF UdpTyped
  <2>7. /\ \A v \in Clients \ {u} : mail'[v] = mail[v]
        /\ (mail'[u] = mail[u]) \/ (w # "" /\ mail'[u] = Append(mail[u], Udp!Answer(w)))
    BY <1>0, <2>4, Zenon DEF UdpTyped
  <2>8. ASSUME NEW v \in Clients \ copied
        PROVE  /\ Once(wire', v, Latest(v)) /\ Once(inbox', v, Latest(v))
               /\ Holds(wire', v) => Holds(wire, v)
               /\ Holds(inbox', v) => Holds(inbox, v)
               /\ v = u => ~Holds(inbox', v) /\ w = Latest(v) /\ Holds(inbox, v)
    <3>1. Once(wire, v, Latest(v)) /\ Once(inbox, v, Latest(v))
      BY <1>0 DEF UserInv
    <3>2. /\ Once(inbox', v, Latest(v)) /\ (Holds(inbox', v) => Holds(inbox, v))
          /\ v = u => ~Holds(inbox', v)
      BY <1>0, <2>1, <2>2, <2>3, <3>1, Withdrawn
    <3>3. 1 \in DOMAIN inbox
      BY <1>0, <2>2, LenProperties
    <3>4. v = u => w = Latest(v) /\ Holds(inbox, v)
      BY <2>3, <3>1, <3>3, Zenon DEF Once, Holds
    <3> QED
      BY <2>1, <3>1, <3>2, <3>4
  <2>9. ASSUME NEW v \in Clients \ copied, mail'[v] = mail[v] PROVE UserInv(v)'
    BY <1>0, <2>1, <2>8, <2>9, UserKept
  <2>10. ASSUME u \notin copied, w # "", mail'[u] = Append(mail[u], Udp!Answer(w)) PROVE UserInv(u)'
    <3>1. UserInv(u)
      BY <1>0, <2>10
    <3>2. /\ Once(wire', u, Latest(u)) /\ Once(inbox', u, Latest(u))
          /\ ~Holds(inbox', u) /\ w = Latest(u) /\ Holds(inbox, u)
      BY <2>8, <2>10
    <3>3. /\ Len(mail[u]) = 0 /\ ~Holds(wire, u) /\ user[u] = "waiting"
          /\ Len(said[u]) = Len(heard[u]) + 1
          /\ \A k \in DOMAIN heard[u] : Udp!Right(said[u][k], heard[u][k])
      <4>1. user[u] \in {"prompt", "waiting", "left"}
        BY <1>0 DEF UdpTyped
      <4> QED
        BY <2>10, <3>1, <3>2, <4>1 DEF UserInv, NoText
    <3>4. Len(mail'[u]) = 1 /\ mail'[u][1] = Udp!Answer(w) /\ Udp!Right(w, Udp!Answer(w))
      BY <2>5, <2>10, <3>3
    <3>5. Latest(u)' = Latest(u) /\ wire' = wire /\ user'[u] = user[u] /\ said'[u] = said[u]
          /\ heard'[u] = heard[u]
      BY <2>1 DEF Latest
    <3>6. \A x, a : Udp!Right(x, a)' <=> Udp!Right(x, a)
      BY <2>1 DEF Udp!Right
    <3> QED
      BY <3>2, <3>3, <3>4, <3>5, <3>6 DEF UserInv
  <2> QED
    BY <2>1, <2>6, <2>7, <2>9, <2>10 DEF UdpInv
<1> QED
  BY <1>1, <1>2, <1>3, <1>4, Zenon DEF Udp!Next, Udp!Network, Udp!Start, Udp!EchoStart, Udp!DictStart
-----------------------------------------------------------------------------
(* The programs together. A program that does not run keeps its invariant. *)
LEMMA HttpSame == HttpInv /\ UNCHANGED httpVars => HttpInv'
<1> SUFFICES ASSUME HttpInv, UNCHANGED httpVars PROVE HttpInv'
  OBVIOUS
<1>1. UNCHANGED <<conn, request, cut, arrived, whole, got, mime, damaged, answer, seen, alive>>
  BY DEF httpVars
<1>2. Http!TypeOK'
  BY <1>1, Zenon DEF HttpInv, Http!TypeOK
<1>3. \A b \in Clients :
        /\ FilesOnly(b)' <=> FilesOnly(b)
        /\ Understood(b)' <=> Understood(b)
        /\ AfterRecv(b)' <=> AfterRecv(b)
  BY <1>1 DEF FilesOnly, Understood, AfterRecv
<1>4. \A b \in Clients : Http!EntryOf(b)' = Http!EntryOf(b)
  BY <1>1 DEF Http!EntryOf
<1> QED
  BY <1>1, <1>2, <1>3, <1>4, Zenon DEF HttpInv

LEMMA UdpSame == UdpInv /\ UNCHANGED udpVars => UdpInv'
<1> SUFFICES ASSUME UdpInv, UNCHANGED udpVars PROVE UdpInv'
  OBVIOUS
<1>1. UNCHANGED <<server, user, said, heard, wire, inbox, mail, lost, copied>>
  BY DEF udpVars
<1>2. UdpTyped'
  BY <1>1 DEF UdpInv, UdpTyped
<1>3. ASSUME NEW u \in Clients \ copied PROVE UserInv(u)'
  <2>1. UserInv(u)
    BY DEF UdpInv
  <2>2. Once(wire', u, Latest(u)) /\ Once(inbox', u, Latest(u))
    BY <1>1, <2>1 DEF UserInv
  <2> QED
    BY <1>1, <2>1, <2>2, UserKept
<1> QED
  BY <1>1, <1>2, <1>3 DEF UdpInv

LEMMA PortSame == PortInv /\ UNCHANGED portVars => PortInv'
<1> SUFFICES ASSUME PortInv, UNCHANGED portVars PROVE PortInv'
  OBVIOUS
<1>1. UNCHANGED <<kind, step, option, exitCode, runs, dialled, linger>>
  BY DEF portVars
<1>2. Port!PortsKept'
  BY <1>1, Zenon DEF PortInv, Port!PortsKept, Port!Bound
<1>3. \A p \in Clients : Past(p)' = Past(p)
  BY <1>1 DEF Past
<1> QED
  BY <1>1, <1>2, <1>3, Zenon DEF PortInv, PortTypes

(* Each client of the HTTP server, of the TCP echo server and of the UDP   *)
(* servers gets what belongs to its own request, and is connected with a   *)
(* server that has the port: HandlerRequest (Http.hpp), main of tcpClient, *)
(* udpClient and dictClient, CreateBindOrDie (Socket.hpp); for every set   *)
(* of clients.                                                             *)
THEOREM EachServedRight == ServicesSpec => []ClientsServedRight
<1> DEFINE Inv == HttpInv /\ EchoInv /\ UdpInv /\ PortInv
<1>1. ServicesInit => Inv
  BY HttpInit, EchoInit, UdpInit, PortInit
<1>2. Inv /\ [ServicesNext]_allVars => Inv'
  <2> SUFFICES ASSUME Inv, [ServicesNext]_allVars PROVE Inv'
    OBVIOUS
  <2>1. /\ Http!Next \/ UNCHANGED httpVars
        /\ Echo!Next \/ UNCHANGED echoVars
        /\ Udp!Next \/ UNCHANGED udpVars
        /\ Port!Next \/ UNCHANGED portVars
    BY Zenon DEF ServicesNext, Calc, InHttp, InEcho, InUdp, InPort, Only, allVars
  <2>2. HttpInv'
    BY <2>1, HttpStep, HttpSame
  <2>3. EchoInv'
    BY <2>1, EchoStep, EchoSame DEF echoVars
  <2>4. UdpInv'
    BY <2>1, UdpStep, UdpSame
  <2>5. PortInv'
    BY <2>1, PortStep, PortSame
  <2> QED
    BY <2>2, <2>3, <2>4, <2>5
<1>3. Inv => ClientsServedRight
  BY HttpRight, EchoRight, UdpRight, Zenon DEF ClientsServedRight, PortInv
<1> QED
  BY <1>1, <1>2, <1>3, PTL DEF ServicesSpec
=============================================================================
