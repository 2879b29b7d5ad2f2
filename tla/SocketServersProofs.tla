------------------------ MODULE SocketServersProofs -----------------------
(* Safety of the three event loops and of the command server, for every    *)
(* number of clients, requests and descriptors, every size of the arrays,  *)
(* and also with pipelining except where a theorem says otherwise.         *)
EXTENDS MCEventServers, CommandServer, FiniteSetTheorems, TLAPS

(* A finite nonempty set of integers has a least element: without one,     *)
(* every element has a rank from 1 on, which leaves too few for them all.  *)
LEMMA LeastExists ==
  ASSUME NEW S \in SUBSET Int, IsFiniteSet(S), S # {}
  PROVE  \E x \in S : \A y \in S : x <= y
<1> SUFFICES ASSUME \A x \in S : \E y \in S : y < x
             PROVE  FALSE
  OBVIOUS
<1> DEFINE below(x) == {y \in S : y < x}
<1>1. ASSUME NEW x \in S
      PROVE  IsFiniteSet(below(x)) /\ Cardinality(below(x)) \in 1 .. Cardinality(S) - 1
  <2>1. below(x) \subseteq S /\ x \in S \ below(x) /\ below(x) # {}
    OBVIOUS
  <2>2. IsFiniteSet(below(x)) /\ Cardinality(below(x)) <= Cardinality(S) /\ Cardinality(below(x)) # Cardinality(S)
    BY <2>1, FS_Subset
  <2>3. Cardinality(below(x)) \in Nat /\ Cardinality(S) \in Nat /\ Cardinality(below(x)) # 0
    BY <2>1, <2>2, FS_CardinalityType, FS_EmptySet
  <2> QED
    BY <2>2, <2>3
<1>2. ASSUME NEW x \in S, NEW y \in S, x < y
      PROVE  Cardinality(below(x)) # Cardinality(below(y))
  <2>1. below(x) \subseteq below(y)
    <3> SUFFICES ASSUME NEW z \in S, z < x PROVE z < y
      OBVIOUS
    <3> QED
      BY <1>2, S \subseteq Int, x \in Int, y \in Int, z \in Int
  <2>2. x \in below(y) /\ x \notin below(x)
    BY <1>2, x \in Int
  <2> QED
    BY <2>1, <2>2, <1>1, FS_Subset
<1> DEFINE rank == [x \in S |-> Cardinality(below(x))]
<1>3. rank \in [S -> 1 .. Cardinality(S) - 1]
  BY <1>1
<1>4. IsFiniteSet(1 .. Cardinality(S) - 1)
      /\ Cardinality(1 .. Cardinality(S) - 1) < Cardinality(S)
  <2>1. Cardinality(S) \in Nat /\ Cardinality(S) # 0
    BY FS_CardinalityType, FS_EmptySet
  <2>2. 1 \in Int /\ Cardinality(S) - 1 \in Int
    BY <2>1
  <2>3. IsFiniteSet(1 .. Cardinality(S) - 1)
        /\ Cardinality(1 .. Cardinality(S) - 1)
             = IF 1 > Cardinality(S) - 1 THEN 0 ELSE Cardinality(S) - 1 - 1 + 1
    BY <2>2, FS_Interval
  <2> QED
    BY <2>1, <2>3
<1>5. PICK x, y \in S : x # y /\ rank[x] = rank[y]
  <2> HIDE DEF rank
  <2> QED
    BY <1>3, <1>4, FS_PigeonHole
<1>6. x < y \/ y < x
  BY <1>5
<1> QED
  BY <1>2, <1>5, <1>6

LEMMA MinIsLeast ==
  ASSUME NEW S \in SUBSET Int, IsFiniteSet(S), S # {}
  PROVE  Min(S) \in S /\ \A m \in S : Min(S) <= m
BY LeastExists DEF Min
-----------------------------------------------------------------------------
(* The kernel's side, whatever the server: a connection waits for accept   *)
(* or has one descriptor, and the numbers up to that of the listening      *)
(* socket never change hands.                                              *)
KernelInv ==
  /\ SocketsTypeOK
  /\ \A c \in Clients : unread[c] <= asked[c]
  /\ \A f \in Fd : fds[f] = "listen" <=> f = ListenFd
  /\ \A f \in 0 .. ListenFd - 1 : fds[f] = "own"
  /\ \A f, g \in Fd : fds[f] = fds[g] /\ fds[f] \in Clients => f = g
  /\ \A k, l \in DOMAIN backlog : backlog[k] = backlog[l] => k = l
  /\ \A c \in Clients : Queued(c) => ~Held(c)
  /\ \A c \in Clients : Queued(c) \/ Held(c) => peer[c] # "away"

(* Of what c has sent, each of these had no reply that it got: what is     *)
(* still to be received, what a thread or loop is answering, for c in      *)
(* "busy", and what was answered when c was gone, for which c sent RST.    *)
One(b) == IF b THEN 1 ELSE 0
Owed(busy) ==
  \A c \in Clients :
    unread[c] + One(c \in busy) + One(c \in reset) <= asked[c] - replies[c]

LEMMA NewFdIsFree == FreeFds # {} => NewFd \in FreeFds
<1>1. IsFiniteSet(Fd)
  BY SocketsAssumption, FS_Interval DEF Fd
<1>2. FreeFds \in SUBSET Int /\ IsFiniteSet(FreeFds)
  BY <1>1, FS_Subset, SocketsAssumption DEF FreeFds, Fd
<1> QED
  BY <1>2, MinIsLeast DEF NewFd

LEMMA InitKernel ==
  ASSUME NEW own, SocketsInit(own)
  PROVE  KernelInv /\ Owed({}) /\ Connections = {} /\ Fd \cap {ListenFd} = {ListenFd}
<1> USE SocketsAssumption DEF SocketsInit, ListenFd, Fd
<1>1. SocketsTypeOK
  BY DEF SocketsTypeOK
<1>2. \A f \in Fd : fds[f] \notin Clients /\ (fds[f] = "listen" <=> f = ListenFd)
  OBVIOUS
<1>3. \A f \in 0 .. ListenFd - 1 : fds[f] = "own"
  OBVIOUS
<1>4. KernelInv
  BY <1>1, <1>2, <1>3 DEF KernelInv, Queued, Held
<1> QED
  BY <1>2, <1>4 DEF Owed, One, Connections

LEMMA ConnectQueued ==
  ASSUME KernelInv, NEW c \in Clients, Connect(c)
  PROVE  /\ ~Queued(c) /\ ~Held(c)
         /\ \A d : Queued(d)' <=> Queued(d) \/ d = c
         /\ \A k, l \in DOMAIN backlog' : backlog'[k] = backlog'[l] => k = l
<1> USE DEF Connect, KernelInv
<1>1. ~Queued(c) /\ ~Held(c)
  OBVIOUS
<1>2. /\ Len(backlog) \in Nat /\ Len(backlog') = Len(backlog) + 1
      /\ DOMAIN backlog = 1 .. Len(backlog) /\ DOMAIN backlog' = 1 .. Len(backlog) + 1
      /\ \A k \in DOMAIN backlog : backlog'[k] = backlog[k]
      /\ backlog'[Len(backlog) + 1] = c
  BY DEF SocketsTypeOK
<1>3. \A k, l \in DOMAIN backlog' : backlog'[k] = backlog'[l] => k = l
  BY <1>1, <1>2 DEF Queued
<1>4. \A d : Queued(d)' <=> Queued(d) \/ d = c
  BY <1>2 DEF Queued
<1> QED
  BY <1>1, <1>3, <1>4

LEMMA ClientKernel ==
  ASSUME KernelInv, NEW c \in Clients, ClientStep(c)
  PROVE  KernelInv'
<1> USE SocketsAssumption DEF KernelInv
<1>1. CASE Connect(c)
  <2> USE <1>1 DEF Connect
  <2>1. SocketsTypeOK'
    BY DEF SocketsTypeOK
  <2>2. /\ ~Queued(c) /\ ~Held(c)
        /\ \A d : Queued(d)' <=> Queued(d) \/ d = c
        /\ \A k, l \in DOMAIN backlog' : backlog'[k] = backlog'[l] => k = l
    BY ConnectQueued
  <2>3. \A d \in Clients : (Held(d)' <=> Held(d)) /\ (d # c => peer'[d] = peer[d]) /\ peer'[c] = "open"
    BY DEF Held, SocketsTypeOK
  <2> QED
    BY <2>1, <2>2, <2>3
<1>2. CASE Request(c)
  <2> USE <1>2 DEF Request
  <2>1. asked[c] \in Nat /\ unread[c] \in Nat /\ unread[c] <= asked[c]
    BY DEF SocketsTypeOK
  <2>2. SocketsTypeOK' /\ \A d \in Clients : unread'[d] <= asked'[d]
    BY <2>1 DEF SocketsTypeOK
  <2> QED
    BY <2>2 DEF Queued, Held
<1>3. CASE HangUp(c)
  <2> USE <1>3 DEF HangUp
  <2>1. SocketsTypeOK'
    BY DEF SocketsTypeOK
  <2>2. \A d \in Clients : peer'[d] = "away" => peer[d] = "away"
    BY DEF SocketsTypeOK
  <2> QED
    BY <2>1, <2>2 DEF Queued, Held
<1> QED
  BY <1>1, <1>2, <1>3 DEF ClientStep

(* What a client sends is still to be received.                            *)
LEMMA ClientOwed ==
  ASSUME KernelInv, NEW c \in Clients, ClientStep(c), NEW busy, Owed(busy)
  PROVE  Owed(busy)'
<1> USE DEF KernelInv, SocketsTypeOK, Owed, One
<1>1. CASE Connect(c)
  BY <1>1 DEF Connect
<1>2. CASE Request(c)
  <2>1. asked[c] \in Nat /\ unread[c] \in Nat /\ replies[c] \in Nat
    BY <1>2 DEF Request
  <2>2. asked'[c] = asked[c] + 1 /\ unread'[c] = unread[c] + 1 /\ replies' = replies /\ reset' = reset
    BY <1>2 DEF Request
  <2>3. \A d \in Clients : d # c => asked'[d] = asked[d] /\ unread'[d] = unread[d]
    BY <1>2 DEF Request
  <2>4. unread'[c] + One(c \in busy) + One(c \in reset') <= asked'[c] - replies'[c]
    BY <2>1, <2>2
  <2>5. ASSUME NEW d \in Clients, d # c
        PROVE  unread'[d] + One(d \in busy) + One(d \in reset') <= asked'[d] - replies'[d]
    BY <2>2, <2>3, <2>5
  <2> QED
    BY <2>4, <2>5
<1>3. CASE HangUp(c)
  BY <1>3 DEF HangUp
<1> QED
  BY <1>1, <1>2, <1>3 DEF ClientStep

LEMMA ClientReadable ==
  ASSUME KernelInv, NEW c \in Clients, ClientStep(c),
         NEW f \in Connections \cup {ListenFd}, Readable(f)
  PROVE  Readable(f)'
<1> USE SocketsAssumption DEF KernelInv, SocketsTypeOK
<1>1. fds' = fds /\ (backlog # <<>> => backlog' # <<>>)
  BY DEF ClientStep, Connect, Request, HangUp
<1>2. CASE f = ListenFd
  <2>1. fds[f] = "listen"
    BY <1>2 DEF ListenFd, Fd
  <2> QED
    BY <1>1, <2>1 DEF Readable
<1>3. CASE f \in Connections
  <2>1. PICK d \in Clients : fds[f] = d /\ d # "listen"
    BY <1>3 DEF Connections
  <2>2. DataOrEnd(d)
    BY <2>1 DEF Readable
  <2>3. DataOrEnd(d)'
    <3>1. unread[d] \in Nat
      OBVIOUS
    <3>2. unread'[d] \in {unread[d], unread[d] + 1} /\ (peer[d] = "closed" => peer'[d] = "closed")
      BY DEF ClientStep, Connect, Request, HangUp
    <3> QED
      BY <2>2, <3>1, <3>2 DEF DataOrEnd
  <2> QED
    BY <1>1, <2>1, <2>3 DEF Readable
<1> QED
  BY <1>2, <1>3
-----------------------------------------------------------------------------
(* What the handlers do, whichever loop calls them.                        *)
LEMMA TailQueued ==
  ASSUME KernelInv, backlog # <<>>, backlog' = Tail(backlog)
  PROVE  /\ Head(backlog) \in Clients /\ Queued(Head(backlog)) /\ backlog' \in Seq(Clients)
         /\ \A k, l \in DOMAIN backlog' : backlog'[k] = backlog'[l] => k = l
         /\ \A d : Queued(d)' <=> Queued(d) /\ d # Head(backlog)
<1> DEFINE c == Head(backlog)
<1>1. /\ c \in Clients /\ backlog' \in Seq(Clients)
      /\ Len(backlog) \in Nat \ {0} /\ c = backlog[1] /\ 1 \in DOMAIN backlog
      /\ DOMAIN backlog = 1 .. Len(backlog) /\ DOMAIN backlog' = 1 .. Len(backlog) - 1
      /\ \A k \in DOMAIN backlog' : backlog'[k] = backlog[k + 1]
  BY DEF KernelInv, SocketsTypeOK
<1> HIDE DEF c
<1>2. \A k \in DOMAIN backlog' : k \in Int /\ k + 1 \in DOMAIN backlog /\ k + 1 # 1
  <2> SUFFICES ASSUME NEW k \in DOMAIN backlog'
               PROVE  k \in Int /\ k + 1 \in DOMAIN backlog /\ k + 1 # 1
    OBVIOUS
  <2>1. k \in 1 .. Len(backlog) - 1 /\ Len(backlog) \in Nat /\ DOMAIN backlog = 1 .. Len(backlog)
    BY <1>1
  <2> QED
    BY <2>1
<1>3. \A k, l \in DOMAIN backlog' : backlog'[k] = backlog'[l] => k = l
  <2> SUFFICES ASSUME NEW k \in DOMAIN backlog', NEW l \in DOMAIN backlog', backlog'[k] = backlog'[l]
               PROVE  k = l
    OBVIOUS
  <2>1. backlog[k + 1] = backlog[l + 1]
    BY <1>1
  <2>2. k + 1 = l + 1
    BY <1>2, <2>1 DEF KernelInv
  <2> QED
    BY <1>2, <2>2
<1>4. \A d : Queued(d)' => Queued(d) /\ d # c
  <2> SUFFICES ASSUME NEW k \in DOMAIN backlog' PROVE Queued(backlog'[k]) /\ backlog'[k] # c
    BY DEF Queued
  <2>1. backlog'[k] = backlog[k + 1] /\ backlog[1] = c /\ 1 \in DOMAIN backlog
    BY <1>1
  <2>2. backlog[k + 1] # backlog[1]
    BY <1>2, <2>1 DEF KernelInv
  <2> QED
    BY <1>2, <2>1, <2>2 DEF Queued
<1>5. \A d : Queued(d) /\ d # c => Queued(d)'
  <2> SUFFICES ASSUME NEW d, Queued(d), d # c PROVE Queued(d)'
    OBVIOUS
  <2>1. PICK k \in DOMAIN backlog : backlog[k] = d
    BY DEF Queued
  <2>2. k \in 1 .. Len(backlog) /\ k # 1 /\ Len(backlog) \in Nat
    BY <1>1, <2>1
  <2>3. k - 1 \in 1 .. Len(backlog) - 1 /\ k - 1 + 1 = k
    BY <2>2
  <2>4. k - 1 \in DOMAIN backlog' /\ backlog'[k - 1] = d
    BY <1>1, <2>1, <2>3
  <2> QED
    BY <2>4 DEF Queued
<1> QED
  BY <1>1, <1>3, <1>4, <1>5 DEF c, Queued

LEMMA AcceptKernel ==
  ASSUME KernelInv, AcceptOne
  PROVE  /\ KernelInv'
         /\ FreeFds = {} => Connections' = Connections
         /\ FreeFds # {} => /\ NewFd \in Fd \ (Connections \cup (0 .. ListenFd))
                            /\ Connections' = Connections \cup {NewFd}
         /\ \A f \in Connections : Readable(f)' <=> Readable(f)
<1> USE SocketsAssumption DEF KernelInv, SocketsTypeOK
<1>1. CASE FreeFds = {}
  <2>1. UNCHANGED sockets
    BY <1>1 DEF AcceptOne, sockets
  <2> QED
    BY <1>1, <2>1 DEF sockets, Connections, Readable, DataOrEnd, Queued, Held
<1>2. CASE FreeFds # {}
  <2> DEFINE c == Head(backlog)
  <2>1. /\ backlog # <<>> /\ backlog' = Tail(backlog) /\ fds' = [fds EXCEPT ![NewFd] = c]
        /\ UNCHANGED <<peer, asked, unread, replies, reset>>
    BY <1>2 DEF AcceptOne, Open
  <2>2. /\ c \in Clients /\ Queued(c) /\ backlog' \in Seq(Clients)
        /\ \A k, l \in DOMAIN backlog' : backlog'[k] = backlog'[l] => k = l
        /\ \A d : Queued(d)' => Queued(d) /\ d # c
    BY <2>1, TailQueued
  <2>3. NewFd \in Fd /\ fds[NewFd] = "free"
    BY <1>2, NewFdIsFree DEF FreeFds
  <2>4. ~Held(c) /\ c \notin {"free", "own", "listen", "pipe"}
    BY <2>2
  <2> HIDE DEF c
  <2>5. SocketsTypeOK'
    BY <2>1, <2>2, <2>3
  <2>6. \A f \in Fd : fds'[f] = IF f = NewFd THEN c ELSE fds[f]
    BY <2>1, <2>3
  <2>7. NewFd # ListenFd /\ NewFd \notin 0 .. ListenFd - 1 /\ NewFd \notin Connections
    BY <2>3 DEF Fd, ListenFd, Connections
  <2>8. NewFd \notin 0 .. ListenFd
    BY <2>7, <2>3 DEF ListenFd, Fd
  <2>9. Connections' = Connections \cup {NewFd}
    BY <2>6, <2>3, <2>2 DEF Connections
  <2>10. \A f \in Connections : Readable(f)' <=> Readable(f)
    BY <2>1, <2>6, <2>7 DEF Readable, DataOrEnd, Connections
  <2>11. /\ \A f \in Fd : fds'[f] = "listen" <=> f = ListenFd
         /\ \A f \in 0 .. ListenFd - 1 : fds'[f] = "own"
    <3>1. 0 .. ListenFd - 1 \subseteq Fd
      BY DEF ListenFd, Fd
    <3> QED
      BY <3>1, <2>4, <2>6, <2>7
  <2>12. \A f, g \in Fd : fds'[f] = fds'[g] /\ fds'[f] \in Clients => f = g
    BY <2>4, <2>6 DEF Held
  <2>13. \A d \in Clients : Held(d)' <=> Held(d) \/ d = c
    BY <2>3, <2>4, <2>6 DEF Held
  <2>14. KernelInv'
    BY <2>1, <2>2, <2>4, <2>5, <2>11, <2>12, <2>13
  <2> QED
    BY <1>2, <2>3, <2>8, <2>7, <2>9, <2>10, <2>14
<1> QED
  BY <1>1, <1>2

LEMMA RecvKernel ==
  ASSUME KernelInv, NEW f \in Connections, RecvSome(f),
         NEW rest, fds[f] \notin rest, NEW busy, busy = rest \cup {fds[f]}
  PROVE  /\ KernelInv' /\ UNCHANGED <<peer, backlog, fds, asked, replies, reset>>
         /\ Connections' = Connections
         /\ \A g \in (Connections \cup {ListenFd}) \ {f} : Readable(g)' <=> Readable(g)
         /\ Owed(rest) => Owed(busy)'
<1> USE SocketsAssumption DEF KernelInv, SocketsTypeOK
<1> DEFINE c == fds[f]
<1>1. c \in Clients /\ UNCHANGED <<peer, backlog, fds, asked, replies, reset>>
  BY DEF RecvSome
<1>2. PICK k \in 1 .. unread[c] : unread' = [unread EXCEPT ![c] = @ - k]
  BY DEF RecvSome
<1>3. unread[c] \in Nat /\ k \in Nat \ {0} /\ k <= unread[c] /\ unread'[c] = unread[c] - k
  BY <1>1, <1>2
<1> HIDE DEF c
<1>4. \A d \in Clients \ {c} : unread'[d] = unread[d]
  BY <1>2
<1>5. KernelInv'
  <2>1. unread' \in [Clients -> Nat] /\ \A d \in Clients : unread'[d] <= asked'[d]
    BY <1>1, <1>2, <1>3, <1>4
  <2> QED
    BY <1>1, <2>1 DEF Queued, Held
<1>6. Connections' = Connections
  BY <1>1 DEF Connections
<1>7. \A g \in (Connections \cup {ListenFd}) \ {f} : Readable(g)' <=> Readable(g)
  <2> SUFFICES ASSUME NEW g \in (Connections \cup {ListenFd}) \ {f}
               PROVE  Readable(g)' <=> Readable(g)
    OBVIOUS
  <2>1. g \in Fd /\ f \in Fd
    BY DEF Connections, ListenFd, Fd
  <2>2. CASE fds[g] = "listen"
    BY <1>1, <2>2 DEF Readable
  <2>3. CASE fds[g] # "listen"
    <3>1. fds[g] \in Clients \ {c}
      BY <2>1, <2>3 DEF Connections, c
    <3> QED
      BY <1>1, <1>4, <3>1, <2>3 DEF Readable, DataOrEnd
  <2> QED
    BY <2>2, <2>3
<1>8. ASSUME Owed(rest) PROVE Owed(busy)'
  <2> SUFFICES ASSUME NEW d \in Clients
               PROVE  unread'[d] + One(d \in busy) + One(d \in reset') <= asked'[d] - replies'[d]
    BY DEF Owed, One
  <2>1. /\ unread[d] + One(d \in rest) + One(d \in reset) <= asked[d] - replies[d]
        /\ asked[d] \in Nat /\ replies[d] \in Nat /\ unread[d] \in Nat
    BY <1>8 DEF Owed, One
  <2>2. d \in busy <=> d \in rest \/ d = c
    BY DEF c
  <2>3. CASE d = c
    BY <2>1, <2>2, <2>3, <1>1, <1>3 DEF One, c
  <2>4. CASE d # c
    BY <2>1, <2>2, <2>4, <1>1, <1>4 DEF One
  <2> QED
    BY <2>3, <2>4
<1> QED
  BY <1>1, <1>5, <1>6, <1>7, <1>8

(* A client whose answer would raise SIGPIPE is owed another one.          *)
LEMMA OwedBroken ==
  ASSUME KernelInv, NEW busy, Owed(busy), NEW c \in Clients, c \in busy, Broken(c)
  PROVE  LeftBehind(c)
<1>1. /\ unread[c] + 1 + One(c \in reset) <= asked[c] - replies[c]
      /\ asked[c] \in Nat /\ replies[c] \in Nat /\ unread[c] \in Nat
  BY DEF KernelInv, SocketsTypeOK, Owed, One
<1> QED
  BY <1>1 DEF One, Broken, LeftBehind

(* One who has left stays so.                                              *)
LEMMA LeftStays ==
  ASSUME NEW c, LeftBehind(c), reset \subseteq reset',
         peer[c] = "closed" => peer'[c] = peer[c] /\ asked'[c] = asked[c] /\ replies'[c] = replies[c]
  PROVE  LeftBehind(c)'
BY DEF LeftBehind

LEMMA ClientLeft ==
  ASSUME NEW c \in Clients, ClientStep(c), NEW d \in Clients, KernelInv, LeftBehind(d)
  PROVE  LeftBehind(d)'
<1>1. reset' = reset /\ replies' = replies
  BY DEF ClientStep, Connect, Request, HangUp
<1>2. peer[d] = "closed" => peer'[d] = peer[d] /\ asked'[d] = asked[d]
  BY DEF ClientStep, Connect, Request, HangUp, KernelInv, SocketsTypeOK
<1> QED
  BY <1>1, <1>2, LeftStays

LEMMA DeliverLeft ==
  ASSUME NEW c \in Clients, Deliver(c), UNCHANGED <<peer, asked>>, NEW d \in Clients, KernelInv, LeftBehind(d)
  PROVE  LeftBehind(d)'
<1>1. reset \subseteq reset'
  BY DEF Deliver
<1>2. peer[d] = "closed" => replies'[d] = replies[d]
  BY DEF Deliver, KernelInv, SocketsTypeOK
<1> QED
  BY <1>1, <1>2, LeftStays

LEMMA DeliverKernel ==
  ASSUME KernelInv, NEW c \in Clients, Held(c), Deliver(c),
         UNCHANGED <<peer, backlog, fds, asked, unread>>,
         NEW rest, c \notin rest, NEW busy, busy = rest \cup {c}
  PROVE  KernelInv' /\ (Owed(busy) => Owed(rest)')
<1> USE SocketsAssumption DEF KernelInv, SocketsTypeOK
<1>1. KernelInv'
  <2>1. replies' \in [Clients -> Nat] /\ reset' \subseteq Clients
    BY DEF Deliver
  <2> QED
    BY <2>1 DEF Queued, Held
<1>2. ASSUME Owed(busy) PROVE Owed(rest)'
  <2>1. /\ unread[c] + 1 + One(c \in reset) <= asked[c] - replies[c]
        /\ asked[c] \in Nat /\ replies[c] \in Nat /\ unread[c] \in Nat
    BY <1>2 DEF Owed, One
  <2>2. peer[c] \in {"open", "closed"}
    OBVIOUS
  <2>3. \A d \in Clients \ {c} : replies'[d] = replies[d] /\ (d \in reset' <=> d \in reset)
    BY <2>2 DEF Deliver
  <2>4. \/ replies'[c] = replies[c] + 1 /\ (c \in reset' <=> c \in reset)
        \/ replies'[c] = replies[c] /\ c \in reset'
    BY <2>1, <2>2 DEF Deliver
  <2> SUFFICES ASSUME NEW d \in Clients
               PROVE  unread'[d] + One(d \in rest) + One(d \in reset') <= asked'[d] - replies'[d]
    BY DEF Owed, One
  <2>5. CASE d = c
    BY <2>1, <2>4, <2>5 DEF One
  <2>6. CASE d # c
    <3>1. /\ unread[d] + One(d \in busy) + One(d \in reset) <= asked[d] - replies[d]
      BY <1>2 DEF Owed, One
    <3>2. d \in busy <=> d \in rest
      BY <2>6
    <3> QED
      BY <2>3, <2>6, <3>1, <3>2 DEF One
  <2> QED
    BY <2>5, <2>6
<1> QED
  BY <1>1, <1>2

LEMMA SendKernel ==
  ASSUME KernelInv, NEW f \in Connections, SendTo(f)
  PROVE  /\ KernelInv' /\ UNCHANGED <<peer, backlog, fds, unread>>
         /\ Connections' = Connections
         /\ pc' \in {"killed", "dispatch"}
         /\ \A g \in Connections \cup {ListenFd} : Readable(g)' <=> Readable(g)
         /\ \A d \in Clients : LeftBehind(d) => LeftBehind(d)'
         /\ Owed({fds[f]}) => Owed({})' /\ (pc' = "killed" => \E d \in Clients : LeftBehind(d)')
<1>1. PICK c \in Clients : c = fds[f]
  BY DEF Connections
<1>2. Held(c) /\ UNCHANGED <<peer, backlog, fds, asked, unread>>
  BY <1>1 DEF SendTo, Connections, Held
<1>3. pc' \in {"killed", "dispatch"} /\ (pc' = "dispatch" => Deliver(c))
  BY <1>1 DEF SendTo
<1>4. PICK rest, busy : rest = {} /\ busy = rest \cup {c}
  OBVIOUS
<1>5. CASE Broken(c)
  <2>1. UNCHANGED <<replies, reset>>
    BY <1>1, <1>5 DEF SendTo
  <2>2. KernelInv'
    BY <1>1, <1>2, <1>5 DEF SendTo, KernelInv, SocketsTypeOK, Queued, Held
  <2>3. ASSUME Owed({c}) PROVE LeftBehind(c)' /\ Owed({})'
    <3>1. LeftBehind(c)
      BY <1>5, <2>3, OwedBroken
    <3>2. Owed({})
      <4> SUFFICES ASSUME NEW d \in Clients
                   PROVE  unread[d] + One(d \in {}) + One(d \in reset) <= asked[d] - replies[d]
        BY DEF Owed, One
      <4>1. unread[d] + One(d \in {c}) + One(d \in reset) <= asked[d] - replies[d]
        BY <2>3 DEF Owed, One
      <4>2. unread[d] \in Nat /\ asked[d] \in Nat /\ replies[d] \in Nat
        BY DEF KernelInv, SocketsTypeOK
      <4> QED
        BY <4>1, <4>2 DEF One
    <3> QED
      BY <1>2, <2>1, <3>1, <3>2 DEF LeftBehind, Owed, One
  <2>4. \A d \in Clients : LeftBehind(d) => LeftBehind(d)'
    BY <1>2, <2>1 DEF LeftBehind
  <2> QED
    BY <1>1, <1>2, <1>3, <2>2, <2>3, <2>4 DEF Connections, Readable, DataOrEnd
<1>6. CASE ~Broken(c)
  <2>1. pc' = "dispatch" /\ Deliver(c)
    BY <1>1, <1>6 DEF SendTo
  <2>2. KernelInv' /\ (Owed(busy) => Owed(rest)')
    BY <1>2, <1>4, <2>1, DeliverKernel
  <2>3. Owed({fds[f]}) => Owed({})'
    BY <1>1, <1>4, <2>2
  <2>4. \A d \in Clients : LeftBehind(d) => LeftBehind(d)'
    BY <1>2, <2>1, DeliverLeft
  <2> QED
    BY <1>2, <2>1, <2>2, <2>3, <2>4 DEF Connections, Readable, DataOrEnd
<1> QED
  BY <1>5, <1>6

LEMMA CloseKernel ==
  ASSUME KernelInv, NEW f \in Connections, Close(f),
         UNCHANGED <<peer, backlog, asked, unread, replies, reset>>
  PROVE  /\ KernelInv'
         /\ Connections' = Connections \ {f}
         /\ \A g \in (Connections \cup {ListenFd}) \ {f} : Readable(g)' <=> Readable(g)
<1> USE SocketsAssumption DEF KernelInv, SocketsTypeOK
<1>1. /\ fds' = [fds EXCEPT ![f] = "free"]
      /\ UNCHANGED <<peer, backlog, asked, unread, replies, reset>>
  BY DEF Close
<1>2. f \in Fd /\ fds[f] \in Clients /\ "free" \notin Clients
  BY DEF Connections
<1>3. \A g \in Fd : fds'[g] = IF g = f THEN "free" ELSE fds[g]
  BY <1>1, <1>2
<1>4. f \notin 0 .. ListenFd /\ 0 .. ListenFd \subseteq Fd
  BY <1>2 DEF ListenFd, Fd
<1>5. SocketsTypeOK'
  BY <1>1, <1>2
<1>6. \A d \in Clients : Held(d)' => Held(d)
  BY <1>2, <1>3 DEF Held
<1>7. /\ \A g \in Fd : fds'[g] = "listen" <=> g = ListenFd
      /\ \A g \in 0 .. ListenFd - 1 : fds'[g] = "own"
      /\ \A g, h \in Fd : fds'[g] = fds'[h] /\ fds'[g] \in Clients => g = h
  BY <1>2, <1>3, <1>4 DEF ListenFd
<1>8. KernelInv'
  BY <1>1, <1>5, <1>6, <1>7 DEF Queued
<1>9. Connections' = Connections \ {f}
  BY <1>2, <1>3 DEF Connections
<1>10. \A g \in (Connections \cup {ListenFd}) \ {f} : Readable(g)' <=> Readable(g)
  BY <1>1, <1>3, <1>4 DEF Connections, ListenFd, Readable, DataOrEnd
<1> QED
  BY <1>1, <1>8, <1>9, <1>10
-----------------------------------------------------------------------------
(* The loops. NextPos is the first position the pass has still to look at. *)
NextPos == IF pc = "reply" THEN i + 1 ELSE i
Labels == {"loop", "dispatch", "reply", "killed"}

(* What is owed while descriptor f is replied to, and whose fault it is    *)
(* that the server was killed.                                             *)
Unharmed(f) ==
  /\ Owed(IF pc = "reply" THEN {fds[f]} ELSE {})
  /\ pc = "killed" => \E c \in Clients : LeftBehind(c)

SelectInv ==
  /\ fd_array \in [Pos -> Fd \cup {gdefaultfd}] /\ fd_array[0] = ListenFd
  /\ WatchesWhatIsOpen
  /\ i \in Nat /\ pc \in Labels
  /\ pc = "dispatch" /\ i = 0 => rfds \subseteq watched
  /\ pc = "reply" => i \in Pos /\ fd_array[i] \in Connections
  /\ n # -1 /\ pc \in {"dispatch", "reply"} =>
       \A p \in Pos, f \in rfds \ {gdefaultfd} :
         p >= NextPos /\ fd_array[p] = f => Readable(f)
  /\ Unharmed(fd_array[i])

PollPos == 0 .. PollSize - 1
PollInv ==
  /\ fd_events \in [PollPos -> [fd : Fd \cup {gdefaultfd}, revents : BOOLEAN]]
  /\ Poll!WatchesWhatIsOpen
  /\ i \in Nat /\ pc \in Labels
  /\ \A p \in PollPos : fd_events[p].fd = gdefaultfd => ~fd_events[p].revents
  /\ pc = "reply" => i \in PollPos /\ fd_events[i].fd \in Connections
  /\ n # -1 /\ pc \in {"dispatch", "reply"} =>
       \A p \in PollPos, f \in Fd :
         p >= NextPos /\ fd_events[p] = [fd |-> f, revents |-> TRUE] => Readable(f)
  /\ Unharmed(fd_events[i].fd)

EpollInv ==
  /\ Epoll!WatchesWhatIsOpen
  /\ pc \in Labels
  /\ revs \subseteq interest
  /\ pc = "reply" => fd \in Connections
  /\ pc \in {"dispatch", "reply"} => \A f \in revs : Readable(f)
  /\ Unharmed(fd)

IInv ==
  /\ KernelInv
  /\ \/ mux = "select" /\ SelectInv
     \/ mux = "poll" /\ PollInv
     \/ mux = "epoll" /\ EpollInv
-----------------------------------------------------------------------------
LEMMA OwedSame ==
  ASSUME NEW busy, Owed(busy), UNCHANGED <<asked, unread, replies, reset>>
  PROVE  Owed(busy)'
BY DEF Owed, One

LEMMA LeftSame ==
  ASSUME NEW c, LeftBehind(c), UNCHANGED <<peer, asked, replies, reset>>
  PROVE  LeftBehind(c)'
BY DEF LeftBehind

(* Unharmed in the next state, from the label and whom a reply is for.     *)
LEMMA NextUnharmed ==
  ASSUME NEW f, NEW busy, Owed(busy)', pc' = "killed" => \E c \in Clients : LeftBehind(c)',
         busy = IF pc' = "reply" THEN {fds'[f]} ELSE {}
  PROVE  Unharmed(f)'
BY DEF Unharmed, Owed, One

LEMMA Unreplied ==
  ASSUME NEW f, Unharmed(f), pc # "reply"
  PROVE  Owed({})
BY DEF Unharmed

LEMMA ClientUnharmed ==
  ASSUME KernelInv, NEW c \in Clients, ClientStep(c), UNCHANGED pc, NEW f, Unharmed(f)
  PROVE  Unharmed(f)'
<1> DEFINE b == IF pc = "reply" THEN {fds[f]} ELSE {}
<1>1. PICK busy : busy = b
  OBVIOUS
<1>2. /\ fds' = fds /\ pc' = pc /\ Owed(busy)
      /\ pc = "killed" => \E d \in Clients : LeftBehind(d)
  BY <1>1 DEF ClientStep, Connect, Request, HangUp, Unharmed
<1>3. Owed(busy)'
  BY <1>2, ClientOwed
<1>4. pc' = "killed" => \E d \in Clients : LeftBehind(d)'
  BY <1>2, ClientLeft
<1> QED
  BY <1>1, <1>2, <1>3, <1>4, NextUnharmed

LEMMA PositionsFinite ==
  ASSUME NEW m \in Nat
  PROVE  IsFiniteSet(0 .. m - 1) /\ Cardinality(0 .. m - 1) = m
BY FS_Interval, m - 1 \in Int, 0 \in Int

LEMMA TurnFirst ==
  ASSUME Ready # {}
  PROVE  Turn \in Ready /\ \A p \in Ready : Turn <= p
<1>1. Ready \subseteq Pos /\ IsFiniteSet(Pos) /\ Pos \subseteq Int
  BY SelectAssumption, PositionsFinite DEF Ready, Pos
<1>2. IsFiniteSet(Ready) /\ Ready \in SUBSET Int
  BY <1>1, FS_Subset
<1> QED
  BY <1>2, MinIsLeast DEF Turn

(* Every watched number is one position's, and the numbers below that of   *)
(* the listening socket are nobody's, so one position at least is free.    *)
LEMMA RoomForOne ==
  ASSUME KernelInv, SelectInv
  PROVE  Min(freePositions) \in Pos \ {0} /\ fd_array[Min(freePositions)] = gdefaultfd
<1>1. IsFiniteSet(Pos) /\ Cardinality(Pos) = gnum /\ Pos \subseteq Int
  BY SelectAssumption, PositionsFinite DEF Pos
<1>2. freePositions # {}
  <2> SUFFICES ASSUME freePositions = {} PROVE FALSE
    OBVIOUS
  <2> DEFINE T == ListenFd .. FdLimit - 1
  <2>1. watched \subseteq T
    <3>1. \A f \in Connections : f \in Fd /\ f \notin 0 .. ListenFd - 1
      BY SocketsAssumption DEF KernelInv, Connections
    <3> QED
      BY <3>1, SocketsAssumption DEF SelectInv, WatchesWhatIsOpen, Fd, ListenFd
  <2>2. \A p \in Pos : fd_array[p] \in watched
    BY DEF SelectInv, watched, freePositions, Pos, ListenFd, gdefaultfd
  <2>3. fd_array \in [Pos -> T]
    BY <2>1, <2>2 DEF SelectInv
  <2>4. IsFiniteSet(T) /\ Cardinality(T) < Cardinality(Pos)
    <3>1. FdLimit - 1 \in Int /\ ListenFd \in Int /\ gnum \in Int
      BY SocketsAssumption, SelectAssumption DEF ListenFd
    <3>2. IsFiniteSet(T) /\ Cardinality(T) = IF ListenFd > FdLimit - 1 THEN 0 ELSE FdLimit - 1 - ListenFd + 1
      BY <3>1, FS_Interval
    <3> QED
      BY <1>1, <3>2, SocketsAssumption, SelectAssumption DEF ListenFd
  <2>5. PICK p, q \in Pos : p # q /\ fd_array[p] = fd_array[q]
    <3> HIDE DEF T
    <3> QED
      BY <1>1, <2>3, <2>4, FS_PigeonHole
  <2>6. fd_array[p] # gdefaultfd
    BY <2>2 DEF watched
  <2> QED
    BY <2>5, <2>6 DEF SelectInv, WatchesWhatIsOpen
<1>3. IsFiniteSet(freePositions) /\ freePositions \in SUBSET Int
  <2>1. freePositions \subseteq Pos
    BY SelectAssumption DEF freePositions, Pos
  <2> QED
    BY <1>1, <2>1, FS_Subset
<1>4. Min(freePositions) \in freePositions
  BY <1>2, <1>3, MinIsLeast
<1> QED
  BY <1>4 DEF freePositions, Pos

LEMMA SelectWait ==
  ASSUME KernelInv, SelectInv, Select \/ SelectFails
  PROVE  KernelInv' /\ SelectInv'
<1>1. /\ UNCHANGED <<sockets, fd_array>> /\ pc = "loop" /\ pc' = "dispatch" /\ i' = 0
      /\ rfds' \subseteq watched
      /\ n' # -1 => rfds' = {f \in watched : Readable(f)}
  BY DEF Select, SelectFails
<1>2. KernelInv' /\ Connections' = Connections /\ watched' = watched
  BY <1>1 DEF sockets, KernelInv, SocketsTypeOK, Queued, Held, Connections, watched
<1>3. WatchesWhatIsOpen'
  BY <1>1, <1>2 DEF SelectInv, WatchesWhatIsOpen
<1>4. \A f \in Fd : Readable(f)' <=> Readable(f)
  BY <1>1 DEF sockets, Readable, DataOrEnd
<1>5. n' # -1 => \A f \in rfds' \ {gdefaultfd} : Readable(f)'
  BY <1>1, <1>4 DEF SelectInv, WatchesWhatIsOpen, watched
<1>6. Unharmed(fd_array[i])'
  BY <1>1, Unreplied, OwedSame, LeftSame DEF SelectInv, sockets, Unharmed
<1> QED
  BY <1>1, <1>2, <1>3, <1>5, <1>6 DEF SelectInv, Labels

(* The connection event comes first in a pass, for the listening socket is *)
(* at position 0: nothing was closed in this pass, so the number of a new  *)
(* connection is not one that select has announced.                        *)
LEMMA SelectAccept ==
  ASSUME KernelInv, SelectInv, Acceptor
  PROVE  KernelInv' /\ SelectInv'
<1>1. /\ Handling(ListenFd) /\ AcceptOne /\ i' = Turn + 1 /\ UNCHANGED <<pc, n, rfds>>
      /\ fd_array' = IF FreeFds = {} THEN fd_array ELSE [fd_array EXCEPT ![Min(freePositions)] = NewFd]
  BY DEF Acceptor
<1>2. pc = "dispatch" /\ Turn \in Pos /\ Turn >= i /\ fd_array[Turn] = ListenFd
  BY <1>1, TurnFirst DEF Handling, Ready
<1>3. Turn = 0 /\ i = 0 /\ 0 \in Pos /\ Pos \subseteq Nat
  BY <1>2, SelectAssumption DEF SelectInv, WatchesWhatIsOpen, ListenFd, gdefaultfd, Pos
<1>4. /\ KernelInv'
      /\ FreeFds = {} => Connections' = Connections
      /\ FreeFds # {} => NewFd \in Fd \ (Connections \cup (0 .. ListenFd)) /\ Connections' = Connections \cup {NewFd}
      /\ \A f \in Connections : Readable(f)' <=> Readable(f)
  BY <1>1, AcceptKernel
<1> DEFINE s == Min(freePositions)
<1>5. s \in Pos \ {0} /\ fd_array[s] = gdefaultfd
  BY RoomForOne
<1>6. gdefaultfd \notin Fd /\ ListenFd \in Fd /\ ListenFd \in 0 .. ListenFd
  BY SocketsAssumption DEF gdefaultfd, Fd, ListenFd
<1> HIDE DEF s
<1>7. \A p \in Pos : fd_array'[p] = IF FreeFds # {} /\ p = s THEN NewFd ELSE fd_array[p]
  BY <1>1, <1>5 DEF SelectInv, s
<1>8. fd_array' \in [Pos -> Fd \cup {gdefaultfd}] /\ fd_array'[0] = ListenFd
  BY <1>1, <1>3, <1>4, <1>5, <1>7 DEF SelectInv, s
<1>9. watched' = Connections' \cup {ListenFd}
  <2>1. watched = Connections \cup {ListenFd}
    BY DEF SelectInv, WatchesWhatIsOpen
  <2>2. watched' = IF FreeFds = {} THEN watched ELSE watched \cup {NewFd}
    BY <1>4, <1>5, <1>6, <1>7 DEF watched
  <2> QED
    BY <1>4, <2>1, <2>2
<1>10. WatchesWhatIsOpen'
  <2>1. \A p, q \in Pos : fd_array'[p] = fd_array'[q] /\ fd_array'[p] # gdefaultfd => p = q
    <3>1. \A p \in Pos : fd_array[p] \in Connections \cup {ListenFd, gdefaultfd}
      BY DEF SelectInv, WatchesWhatIsOpen, watched
    <3>2. FreeFds # {} => \A p \in Pos : fd_array[p] # NewFd
      BY <1>4, <1>6, <3>1
    <3> QED
      BY <1>5, <1>7, <3>2 DEF SelectInv, WatchesWhatIsOpen
  <2>2. \A f \in watched' : f < gnum
    BY <1>4, <1>9, SelectAssumption, SocketsAssumption DEF Connections, Fd, ListenFd
  <2> QED
    BY <1>9, <2>1, <2>2 DEF WatchesWhatIsOpen
<1>11. ASSUME n # -1, NEW p \in Pos, p >= 1, NEW f \in rfds \ {gdefaultfd}, fd_array'[p] = f
       PROVE  Readable(f)'
  <2>1. rfds \subseteq Connections \cup {ListenFd}
    BY <1>2, <1>3 DEF SelectInv, WatchesWhatIsOpen
  <2>2. fd_array'[p] = fd_array[p]
    BY <1>4, <1>6, <1>7, <1>11, <2>1
  <2>3. Readable(f)
    BY <1>2, <1>3, <1>11, <2>2 DEF SelectInv, NextPos
  <2>4. f # ListenFd
    BY <1>3, <1>6, <1>11, <2>2 DEF SelectInv, WatchesWhatIsOpen, gdefaultfd, ListenFd
  <2>5. f \in Connections
    BY <1>11, <2>1, <2>4
  <2> QED
    BY <1>4, <2>3, <2>5
<1>12. Unharmed(fd_array[i])'
  BY <1>1, <1>2, Unreplied, OwedSame, LeftSame DEF AcceptOne, SelectInv, Unharmed
<1> QED
  BY <1>1, <1>2, <1>3, <1>4, <1>8, <1>10, <1>11, <1>12 DEF SelectInv, NextPos

LEMMA SelectReceive ==
  ASSUME KernelInv, SelectInv, Receive
  PROVE  KernelInv' /\ SelectInv'
<1>1. PICK f \in Connections : Handling(f) /\ RecvSome(f)
  BY DEF Receive
<1>2. pc = "dispatch" /\ Turn \in Pos /\ Turn >= i /\ fd_array[Turn] = f
  BY <1>1, TurnFirst DEF Handling, Ready
<1>3. i' = Turn /\ pc' = "reply" /\ UNCHANGED <<n, fd_array, rfds>>
  BY DEF Receive
<1>4. PICK rest, busy : rest = {} /\ busy = {fds[f]}
  OBVIOUS
<1>5. /\ KernelInv' /\ UNCHANGED <<peer, backlog, fds, asked, replies, reset>>
      /\ Connections' = Connections
      /\ \A g \in (Connections \cup {ListenFd}) \ {f} : Readable(g)' <=> Readable(g)
      /\ Owed({}) => Owed(busy)'
  BY <1>1, <1>4, {} \cup {fds[f]} = {fds[f]}, RecvKernel
<1>6. watched' = watched /\ WatchesWhatIsOpen'
  BY <1>3, <1>5 DEF SelectInv, WatchesWhatIsOpen, watched
<1>7. ASSUME n # -1, NEW p \in Pos, p >= Turn + 1, NEW g \in rfds \ {gdefaultfd}, fd_array[p] = g
      PROVE  Readable(g)'
  <2>1. p >= i /\ p # Turn
    BY <1>2, <1>7, SelectAssumption DEF Pos, SelectInv
  <2>2. Readable(g)
    BY <1>2, <1>7, <2>1 DEF SelectInv, NextPos
  <2>3. g \in Connections \cup {ListenFd} /\ g # f
    BY <1>2, <1>7, <2>1 DEF SelectInv, WatchesWhatIsOpen, watched
  <2> QED
    BY <1>5, <2>2, <2>3
<1>9. Unharmed(fd_array[i])'
  <2>1. Owed(busy)'
    BY <1>2, <1>5, Unreplied DEF SelectInv
  <2> QED
    BY <1>2, <1>3, <1>4, <1>5, <2>1 DEF Unharmed, Owed, One
<1> QED
  BY <1>1, <1>2, <1>3, <1>5, <1>6, <1>7, <1>9, SelectAssumption DEF SelectInv, NextPos, Labels, Pos

LEMMA SelectReply ==
  ASSUME KernelInv, SelectInv, Reply
  PROVE  KernelInv' /\ SelectInv'
<1> DEFINE f == fd_array[i]
<1>1. pc = "reply" /\ SendTo(f) /\ i' = i + 1 /\ UNCHANGED <<n, fd_array, rfds>>
  BY DEF Reply
<1>2. f \in Connections /\ i \in Pos
  BY <1>1 DEF SelectInv
<1> HIDE DEF f
<1>3. /\ KernelInv' /\ UNCHANGED <<peer, backlog, fds, unread>>
      /\ Connections' = Connections /\ pc' \in {"killed", "dispatch"}
      /\ \A g \in Connections \cup {ListenFd} : Readable(g)' <=> Readable(g)
      /\ Owed({fds[f]}) => Owed({})' /\ (pc' = "killed" => \E d \in Clients : LeftBehind(d)')
  BY <1>1, <1>2, SendKernel
<1>4. watched' = watched /\ WatchesWhatIsOpen'
  BY <1>1, <1>3 DEF SelectInv, WatchesWhatIsOpen, watched
<1>5. ASSUME n # -1, NEW p \in Pos, p >= i + 1, NEW g \in rfds \ {gdefaultfd}, fd_array[p] = g
      PROVE  Readable(g)'
  <2>1. Readable(g)
    BY <1>1, <1>5 DEF SelectInv, NextPos
  <2>2. g \in Connections \cup {ListenFd}
    BY <1>5 DEF SelectInv, WatchesWhatIsOpen, watched
  <2> QED
    BY <1>3, <2>1, <2>2
<1>6. Unharmed(fd_array[i])'
  BY <1>1, <1>3 DEF SelectInv, Unharmed, f
<1> QED
  BY <1>1, <1>2, <1>3, <1>4, <1>5, <1>6, SelectAssumption DEF SelectInv, NextPos, Labels, Pos

LEMMA SelectDrop ==
  ASSUME KernelInv, SelectInv, Drop
  PROVE  KernelInv' /\ SelectInv'
<1>1. PICK f \in Connections : Handling(f) /\ CloseEnded(f)
  BY DEF Drop
<1>2. pc = "dispatch" /\ Turn \in Pos /\ Turn >= i /\ fd_array[Turn] = f
  BY <1>1, TurnFirst DEF Handling, Ready
<1>3. /\ fd_array' = [fd_array EXCEPT ![Turn] = gdefaultfd]
      /\ i' = Turn + 1 /\ UNCHANGED <<pc, n, rfds>>
  BY DEF Drop
<1>4. /\ KernelInv' /\ UNCHANGED <<peer, backlog, asked, unread, replies, reset>>
      /\ Connections' = Connections \ {f}
      /\ \A g \in (Connections \cup {ListenFd}) \ {f} : Readable(g)' <=> Readable(g)
  BY <1>1, CloseKernel DEF CloseEnded
<1>5. \A p \in Pos : fd_array'[p] = IF p = Turn THEN gdefaultfd ELSE fd_array[p]
  BY <1>2, <1>3 DEF SelectInv
<1>6. f # ListenFd /\ f # gdefaultfd /\ 0 \in Pos
  BY SocketsAssumption, SelectAssumption DEF KernelInv, Connections, ListenFd, gdefaultfd, Fd, Pos
<1>7. \A p, q \in Pos : fd_array[p] = fd_array[q] /\ fd_array[p] # gdefaultfd => p = q
  BY DEF SelectInv, WatchesWhatIsOpen
<1>8. fd_array' \in [Pos -> Fd \cup {gdefaultfd}] /\ fd_array'[0] = ListenFd
  BY <1>2, <1>3, <1>5, <1>6 DEF SelectInv
<1>9. watched' = watched \ {f}
  BY <1>2, <1>5, <1>6, <1>7 DEF watched
<1>10. WatchesWhatIsOpen'
  BY <1>4, <1>5, <1>6, <1>7, <1>9 DEF SelectInv, WatchesWhatIsOpen
<1>11. ASSUME n # -1, NEW p \in Pos, p >= Turn + 1, NEW g \in rfds \ {gdefaultfd}, fd_array'[p] = g
       PROVE  Readable(g)'
  <2>1. p >= i /\ p # Turn /\ fd_array[p] = g
    BY <1>2, <1>5, <1>11, SelectAssumption DEF Pos, SelectInv
  <2>2. Readable(g)
    BY <1>2, <1>11, <2>1 DEF SelectInv, NextPos
  <2>3. g \in (Connections \cup {ListenFd}) \ {f}
    BY <1>2, <1>7, <1>11, <2>1 DEF SelectInv, WatchesWhatIsOpen, watched
  <2> QED
    BY <1>4, <2>1, <2>2, <2>3
<1>12. Unharmed(fd_array[i])'
  BY <1>2, <1>3, <1>4, Unreplied, OwedSame, LeftSame DEF SelectInv, Unharmed
<1> QED
  BY <1>2, <1>3, <1>4, <1>8, <1>10, <1>11, <1>12, SelectAssumption DEF SelectInv, NextPos, Labels, Pos

LEMMA SelectEndPass ==
  ASSUME KernelInv, SelectInv, EndPass
  PROVE  KernelInv' /\ SelectInv'
<1>1. /\ pc = "dispatch" /\ pc' = "loop" /\ i' = 0 /\ UNCHANGED <<sockets, fd_array>>
  BY DEF EndPass
<1>2. KernelInv' /\ Connections' = Connections /\ watched' = watched
  BY <1>1 DEF sockets, KernelInv, SocketsTypeOK, Queued, Held, Connections, watched
<1>3. WatchesWhatIsOpen'
  BY <1>1, <1>2 DEF SelectInv, WatchesWhatIsOpen
<1>4. Unharmed(fd_array[i])'
  BY <1>1, Unreplied, OwedSame, LeftSame DEF SelectInv, sockets, Unharmed
<1> QED
  BY <1>1, <1>2, <1>3, <1>4 DEF SelectInv, Labels

LEMMA SelectClient ==
  ASSUME KernelInv, SelectInv, NEW c \in Clients, ClientStep(c), UNCHANGED server
  PROVE  KernelInv' /\ SelectInv'
<1>1. UNCHANGED <<pc, n, fd_array, rfds, i, fds>>
  BY DEF server, ClientStep, Connect, Request, HangUp
<1>2. KernelInv' /\ Connections' = Connections /\ watched' = watched /\ NextPos' = NextPos
  BY <1>1, ClientKernel DEF Connections, watched, NextPos
<1>3. WatchesWhatIsOpen'
  BY <1>1, <1>2 DEF SelectInv, WatchesWhatIsOpen
<1>4. \A f \in watched : Readable(f) => Readable(f)'
  BY ClientReadable DEF SelectInv, WatchesWhatIsOpen
<1>5. ASSUME n # -1, pc \in {"dispatch", "reply"}, NEW p \in Pos, p >= NextPos,
             NEW g \in rfds \ {gdefaultfd}, fd_array[p] = g
      PROVE  Readable(g)'
  BY <1>4, <1>5 DEF SelectInv, watched
<1>6. Unharmed(fd_array[i])'
  <2>1. PICK f : f = fd_array[i]
    OBVIOUS
  <2>2. Unharmed(f)'
    BY <1>1, <2>1, ClientUnharmed DEF SelectInv
  <2> QED
    BY <1>1, <2>1, <2>2 DEF Unharmed
<1> QED
  BY <1>1, <1>2, <1>3, <1>5, <1>6 DEF SelectInv
-----------------------------------------------------------------------------
(* The operators of the poll server's instance are those of this module.   *)
LEMMA PollSame ==
  /\ Poll!Connections = Connections /\ Poll!FreeFds = FreeFds /\ Poll!NewFd = NewFd
  /\ Poll!Pos = PollPos /\ Poll!AcceptOne = AcceptOne
  /\ \A S : Poll!Min(S) = Min(S)
  /\ \A f : /\ Poll!Readable(f) = Readable(f) /\ Poll!RecvSome(f) = RecvSome(f)
            /\ Poll!SendTo(f) = SendTo(f) /\ Poll!CloseEnded(f) = CloseEnded(f)
<1>1. Poll!Connections = Connections /\ Poll!FreeFds = FreeFds /\ Poll!Pos = PollPos
  BY DEF Poll!Connections, Connections, Poll!FreeFds, FreeFds, Poll!Pos, PollPos, Poll!Fd, Fd
<1>2. \A S : Poll!Min(S) = Min(S)
  BY DEF Poll!Min, Min
<1>3. Poll!NewFd = NewFd
  BY <1>1, <1>2 DEF Poll!NewFd, NewFd
<1>4. Poll!AcceptOne = AcceptOne
  BY <1>1, <1>3 DEF Poll!AcceptOne, AcceptOne, Poll!Open, Open
<1>5. \A f : Poll!Readable(f) = Readable(f)
  BY DEF Poll!Readable, Readable, Poll!DataOrEnd, DataOrEnd
<1>6. \A f : Poll!RecvSome(f) = RecvSome(f)
  BY DEF Poll!RecvSome, RecvSome
<1>7. \A f : Poll!SendTo(f) = SendTo(f)
  BY DEF Poll!SendTo, SendTo, Poll!Broken, Broken, Poll!Deliver, Deliver
<1>8. \A f : Poll!CloseEnded(f) = CloseEnded(f)
  BY DEF Poll!CloseEnded, CloseEnded, Poll!Close, Close
<1> QED
  BY <1>1, <1>2, <1>3, <1>4, <1>5, <1>6, <1>7, <1>8

LEMMA PollPositions == IsFiniteSet(PollPos) /\ PollPos \subseteq Int
<1>1. PollSize \in Nat
  BY PollAssumption, SocketsAssumption
<1>2. IsFiniteSet(0 .. PollSize - 1)
  BY <1>1, PositionsFinite, Zenon
<1>3. 0 .. PollSize - 1 \subseteq Int
  BY <1>1
<1> QED
  BY <1>2, <1>3, Zenon DEF PollPos

LEMMA PollTurnFirst ==
  ASSUME Poll!Ready # {}
  PROVE  Poll!Turn \in Poll!Ready /\ \A p \in Poll!Ready : Poll!Turn <= p
<1>1. IsFiniteSet(PollPos) /\ PollPos \subseteq Int
  BY PollPositions
<1>2. Poll!Ready \subseteq PollPos
  BY PollSame DEF Poll!Ready
<1>3. IsFiniteSet(Poll!Ready) /\ Poll!Ready \in SUBSET Int
  BY <1>1, <1>2, FS_Subset
<1> QED
  BY <1>3, PollSame, MinIsLeast DEF Poll!Turn

LEMMA PollFreePosition ==
  ASSUME Poll!freePositions # {}
  PROVE  Min(Poll!freePositions) \in PollPos /\ fd_events[Min(Poll!freePositions)].fd = gdefaultfd
<1>1. IsFiniteSet(PollPos) /\ PollPos \subseteq Int
  BY PollPositions
<1>2. Poll!freePositions \subseteq PollPos
  BY PollAssumption, SocketsAssumption DEF Poll!freePositions, PollPos
<1>3. IsFiniteSet(Poll!freePositions) /\ Poll!freePositions \in SUBSET Int
  BY <1>1, <1>2, FS_Subset
<1>4. Min(Poll!freePositions) \in Poll!freePositions
  BY <1>3, MinIsLeast
<1> QED
  BY <1>2, <1>4 DEF Poll!freePositions, Poll!gdefaultfd, gdefaultfd

(* The handler's position, and what it finds there.                        *)
LEMMA PollHandling ==
  ASSUME PollInv, NEW f \in Fd, Poll!Handling(f)
  PROVE  /\ pc = "dispatch" /\ Poll!Turn \in PollPos /\ Poll!Turn >= i /\ i \in Nat
         /\ fd_events[Poll!Turn] = [fd |-> f, revents |-> TRUE]
<1>1. pc = "dispatch" /\ Poll!Turn \in Poll!Ready /\ fd_events[Poll!Turn].fd = f
  BY PollTurnFirst DEF Poll!Handling
<1>2. Poll!Turn \in PollPos /\ Poll!Turn >= i /\ fd_events[Poll!Turn].revents
  BY <1>1, PollSame DEF Poll!Ready
<1> QED
  BY <1>1, <1>2 DEF PollInv

LEMMA PollWait ==
  ASSUME KernelInv, PollInv, Poll!Poll \/ Poll!TimeOut \/ Poll!PollFails
  PROVE  KernelInv' /\ PollInv'
<1>1. /\ UNCHANGED sockets /\ pc = "loop" /\ i' \in {0, i} /\ pc' \in {"loop", "dispatch"}
      /\ \/ fd_events' = fd_events /\ n' = -1
         \/ fd_events' = Poll!Marked({})
         \/ fd_events' = Poll!Marked({f \in Poll!watched : Readable(f)})
  BY PollSame DEF Poll!Poll, Poll!TimeOut, Poll!PollFails, sockets, Poll!sockets
<1>2. KernelInv' /\ Connections' = Connections
  BY <1>1 DEF sockets, KernelInv, SocketsTypeOK, Queued, Held, Connections
<1>3. \A f \in Fd : Readable(f)' <=> Readable(f)
  BY <1>1 DEF sockets, Readable, DataOrEnd
<1>4. PICK ready : /\ ready \subseteq {f \in Poll!watched : Readable(f)}
                   /\ \/ fd_events' = fd_events /\ n' = -1
                      \/ fd_events' = [p \in PollPos |-> [fd_events[p] EXCEPT !.revents = fd_events[p].fd \in ready]]
  BY <1>1, PollSame DEF Poll!Marked
<1>5. \A p \in PollPos : /\ fd_events'[p] \in [fd : Fd \cup {gdefaultfd}, revents : BOOLEAN]
                         /\ fd_events'[p].fd = fd_events[p].fd
                         /\ n' # -1 => (fd_events'[p].revents <=> fd_events[p].fd \in ready)
                         /\ fd_events'[p].fd = gdefaultfd => ~fd_events'[p].revents
  <2>1. gdefaultfd \notin ready
    BY <1>4 DEF Poll!watched, Poll!gdefaultfd, gdefaultfd
  <2>2. \A p \in PollPos : fd_events[p] \in [fd : Fd \cup {gdefaultfd}, revents : BOOLEAN]
    BY DEF PollInv
  <2>3. CASE fd_events' = fd_events /\ n' = -1
    BY <2>2, <2>3 DEF PollInv
  <2>4. CASE fd_events' = [p \in PollPos |-> [fd_events[p] EXCEPT !.revents = fd_events[p].fd \in ready]]
    <3> SUFFICES ASSUME NEW p \in PollPos
                 PROVE  /\ fd_events'[p] \in [fd : Fd \cup {gdefaultfd}, revents : BOOLEAN]
                        /\ fd_events'[p].fd = fd_events[p].fd
                        /\ fd_events'[p].revents <=> fd_events[p].fd \in ready
      BY <2>1
    <3>1. fd_events'[p] = [fd_events[p] EXCEPT !.revents = fd_events[p].fd \in ready]
      BY <2>4
    <3>2. fd_events[p] \in [fd : Fd \cup {gdefaultfd}, revents : BOOLEAN]
      BY <2>2
    <3>3. CASE fd_events[p].fd \in ready
      BY <3>1, <3>2, <3>3
    <3>4. CASE fd_events[p].fd \notin ready
      <4>1. (fd_events[p].fd \in ready) = FALSE
        BY <3>4
      <4>2. fd_events'[p] = [fd_events[p] EXCEPT !.revents = FALSE]
        BY <3>1, <4>1, Zenon
      <4>3. fd_events'[p] = [fd |-> fd_events[p].fd, revents |-> FALSE]
        BY <3>2, <4>2
      <4>4. fd_events'[p].fd = fd_events[p].fd /\ fd_events'[p].revents = FALSE
        BY <4>3
      <4>5. fd_events'[p] \in [fd : Fd \cup {gdefaultfd}, revents : BOOLEAN]
        BY <3>2, <4>3
      <4> QED
        BY <3>4, <4>4, <4>5
    <3> QED
      BY <3>3, <3>4
  <2> QED
    BY <1>4, <2>3, <2>4
<1>6. fd_events' \in [PollPos -> [fd : Fd \cup {gdefaultfd}, revents : BOOLEAN]]
  BY <1>4, <1>5 DEF PollInv
<1>7. Poll!WatchesWhatIsOpen'
  <2>1. Poll!watched' = Poll!watched /\ Poll!Connections' = Poll!Connections
    BY <1>1, <1>5, PollSame DEF Poll!watched, sockets, Poll!Connections
  <2> QED
    BY <1>5, <2>1, PollSame DEF PollInv, Poll!WatchesWhatIsOpen
<1>8. n' # -1 => \A p \in PollPos, f \in Fd : fd_events'[p] = [fd |-> f, revents |-> TRUE] => Readable(f)'
  BY <1>3, <1>4, <1>5
<1>9. Unharmed(fd_events[i].fd)'
  BY <1>1, Unreplied, OwedSame, LeftSame DEF PollInv, sockets, Unharmed
<1> QED
  BY <1>1, <1>2, <1>5, <1>6, <1>7, <1>8, <1>9 DEF PollInv, Labels

(* Refused for want of a position: the connection leaves the backlog.      *)
LEMMA RefuseKernel ==
  ASSUME KernelInv, backlog # <<>>, backlog' \in {backlog, Tail(backlog)},
         UNCHANGED <<peer, fds, asked, unread, replies, reset>>
  PROVE  /\ KernelInv' /\ Connections' = Connections
         /\ \A f \in Connections : Readable(f)' <=> Readable(f)
<1> USE SocketsAssumption DEF KernelInv, SocketsTypeOK
<1>1. \A f \in Connections : Readable(f)' <=> Readable(f)
  BY DEF Connections, Readable, DataOrEnd
<1>2. /\ backlog' \in Seq(Clients) /\ \A d : Queued(d)' => Queued(d)
      /\ \A k, l \in DOMAIN backlog' : backlog'[k] = backlog'[l] => k = l
  BY TailQueued DEF Queued
<1>3. KernelInv'
  BY <1>2 DEF Held
<1> QED
  BY <1>1, <1>3 DEF Connections

LEMMA PollAccept ==
  ASSUME KernelInv, PollInv, Poll!Acceptor
  PROVE  KernelInv' /\ PollInv'
<1> DEFINE s == Min(Poll!freePositions)
           added == Poll!freePositions # {} /\ FreeFds # {}
<1>1. /\ Poll!Handling(ListenFd) /\ i' = Poll!Turn + 1 /\ UNCHANGED <<pc, n, asked, unread, replies, reset>>
      /\ IF Poll!freePositions = {}
         THEN /\ backlog # <<>> /\ backlog' \in {backlog, Tail(backlog)} /\ UNCHANGED <<peer, fds, fd_events>>
         ELSE /\ AcceptOne
              /\ fd_events' = IF FreeFds = {} THEN fd_events ELSE [fd_events EXCEPT ![s].fd = NewFd]
  <2>1. Poll!ListenFd = ListenFd
    BY DEF Poll!ListenFd, ListenFd
  <2> QED
    BY <2>1, PollSame DEF Poll!Acceptor, AcceptOne
<1>2. gdefaultfd \notin Fd /\ ListenFd \in Fd /\ ListenFd \in 0 .. ListenFd
  BY SocketsAssumption DEF gdefaultfd, Fd, ListenFd
<1>3. /\ pc = "dispatch" /\ Poll!Turn \in PollPos /\ Poll!Turn >= i /\ i \in Nat
      /\ fd_events[Poll!Turn] = [fd |-> ListenFd, revents |-> TRUE]
  BY <1>1, <1>2, PollHandling
<1>4. /\ KernelInv'
      /\ ~added => Connections' = Connections
      /\ added => NewFd \in Fd \ (Connections \cup (0 .. ListenFd)) /\ Connections' = Connections \cup {NewFd}
      /\ \A f \in Connections : Readable(f)' <=> Readable(f)
  <2>1. CASE Poll!freePositions = {}
    BY <1>1, <2>1, RefuseKernel
  <2>2. CASE Poll!freePositions # {}
    BY <1>1, <2>2, AcceptKernel
  <2> QED
    BY <2>1, <2>2
<1>5. added => s \in PollPos /\ fd_events[s].fd = gdefaultfd
  BY PollFreePosition
<1>6. \A p \in PollPos : fd_events[p] \in [fd : Fd \cup {gdefaultfd}, revents : BOOLEAN]
  BY DEF PollInv
<1>7. fd_events' = IF added THEN [fd_events EXCEPT ![s].fd = NewFd] ELSE fd_events
  BY <1>1
<1> HIDE DEF s, added
<1>8. \A p \in PollPos : fd_events'[p] = IF added /\ p = s THEN [fd |-> NewFd, revents |-> FALSE] ELSE fd_events[p]
  <2>1. CASE added
    <3>1. s \in PollPos /\ fd_events[s] = [fd |-> gdefaultfd, revents |-> FALSE]
      BY <1>5, <1>6, <2>1 DEF PollInv
    <3>2. fd_events' = [fd_events EXCEPT ![s] = [fd_events[s] EXCEPT !.fd = NewFd]]
      BY <1>7, <2>1
    <3>3. [fd_events[s] EXCEPT !.fd = NewFd] = [fd |-> NewFd, revents |-> FALSE]
      <4>1. fd_events[s] \in [fd : Fd \cup {gdefaultfd}, revents : BOOLEAN]
        BY <1>6, <3>1
      <4>2. [fd_events[s] EXCEPT !.fd = NewFd] = [fd |-> NewFd, revents |-> fd_events[s].revents]
        BY <4>1
      <4> QED
        BY <3>1, <4>2
    <3>4. DOMAIN fd_events = PollPos
      BY DEF PollInv
    <3> QED
      BY <2>1, <3>1, <3>2, <3>3, <3>4
  <2>2. CASE ~added
    BY <1>7, <2>2
  <2> QED
    BY <2>1, <2>2
<1>9. fd_events' \in [PollPos -> [fd : Fd \cup {gdefaultfd}, revents : BOOLEAN]]
  <2>1. \A p \in PollPos : fd_events'[p] \in [fd : Fd \cup {gdefaultfd}, revents : BOOLEAN]
    <3> SUFFICES ASSUME NEW p \in PollPos
                 PROVE  fd_events'[p] \in [fd : Fd \cup {gdefaultfd}, revents : BOOLEAN]
      OBVIOUS
    <3>1. CASE added /\ p = s
      <4>1. fd_events'[p] = [fd |-> NewFd, revents |-> FALSE] /\ NewFd \in Fd
        BY <1>4, <1>8, <3>1
      <4> QED
        BY <4>1
    <3>2. CASE ~(added /\ p = s)
      BY <1>6, <1>8, <3>2
    <3> QED
      BY <3>1, <3>2
  <2>2. fd_events' = [p \in PollPos |-> fd_events'[p]]
    <3>1. fd_events = [p \in PollPos |-> fd_events[p]]
      BY DEF PollInv
    <3> QED
      BY <1>7, <3>1
  <2> QED
    BY <2>1, <2>2
<1>10. \A p \in PollPos : fd_events[p].fd \in Connections \cup {ListenFd, gdefaultfd}
  BY PollSame DEF PollInv, Poll!WatchesWhatIsOpen, Poll!watched, Poll!gdefaultfd, gdefaultfd, Poll!ListenFd, ListenFd
<1>11. Poll!WatchesWhatIsOpen'
  <2> USE DEF Poll!gdefaultfd, gdefaultfd
  <2>1. Poll!watched = Connections \cup {ListenFd}
    BY PollSame DEF PollInv, Poll!WatchesWhatIsOpen, Poll!ListenFd, ListenFd
  <2>2. Poll!watched' = IF added THEN Poll!watched \cup {NewFd} ELSE Poll!watched
    BY <1>2, <1>4, <1>5, <1>8, PollSame DEF Poll!watched
  <2>3. Poll!watched' = Connections' \cup {ListenFd}
    BY <1>4, <2>1, <2>2
  <2>4. \A p, q \in PollPos :
          fd_events'[p].fd = fd_events'[q].fd /\ fd_events'[p].fd # gdefaultfd => p = q
    <3>1. added => \A p \in PollPos : fd_events[p].fd # NewFd
      BY <1>2, <1>4, <1>10
    <3>2. \A p, q \in PollPos : fd_events[p].fd = fd_events[q].fd /\ fd_events[p].fd # gdefaultfd => p = q
      BY PollSame DEF PollInv, Poll!WatchesWhatIsOpen
    <3> QED
      BY <1>8, <3>1, <3>2
  <2>5. Poll!Connections' = Connections'
    BY DEF Poll!Connections, Connections, Poll!Fd, Fd
  <2> QED
    BY <2>3, <2>4, <2>5, PollSame DEF Poll!WatchesWhatIsOpen, Poll!ListenFd, ListenFd
<1>12. ASSUME n # -1, NEW p \in PollPos, p >= Poll!Turn + 1, NEW f \in Fd,
              fd_events'[p] = [fd |-> f, revents |-> TRUE]
       PROVE  Readable(f)'
  <2>1. fd_events[p] = [fd |-> f, revents |-> TRUE]
    BY <1>8, <1>12
  <2>2. p >= i /\ p # Poll!Turn
    BY <1>3, <1>12, PollAssumption, SocketsAssumption DEF PollPos
  <2>3. Readable(f)
    BY <1>3, <1>12, <2>1, <2>2 DEF PollInv, NextPos
  <2>4. f # ListenFd
    BY <1>2, <1>3, <2>1, <2>2, PollSame DEF PollInv, Poll!WatchesWhatIsOpen, Poll!gdefaultfd, gdefaultfd
  <2>5. f \in Connections
    BY <1>2, <1>10, <2>1, <2>4
  <2> QED
    BY <1>4, <2>3, <2>5
<1>13. Unharmed(fd_events[i].fd)'
  BY <1>1, <1>3, Unreplied, OwedSame, LeftSame DEF PollInv, Unharmed
<1>14. \A p \in PollPos : fd_events'[p].fd = gdefaultfd => ~fd_events'[p].revents
  BY <1>2, <1>4, <1>8 DEF PollInv
<1>15. i' \in Nat
  BY <1>1, <1>3, PollAssumption, SocketsAssumption DEF PollPos
<1> QED
  BY <1>1, <1>3, <1>4, <1>9, <1>11, <1>12, <1>13, <1>14, <1>15 DEF PollInv, NextPos

LEMMA PollReceive ==
  ASSUME KernelInv, PollInv, Poll!Receive
  PROVE  KernelInv' /\ PollInv'
<1>1. PICK f \in Connections : Poll!Handling(f) /\ RecvSome(f)
  BY PollSame DEF Poll!Receive
<1>2. /\ pc = "dispatch" /\ Poll!Turn \in PollPos /\ Poll!Turn >= i /\ i \in Nat
      /\ fd_events[Poll!Turn] = [fd |-> f, revents |-> TRUE]
  BY <1>1, PollHandling DEF Connections
<1>3. i' = Poll!Turn /\ pc' = "reply" /\ UNCHANGED <<n, fd_events>>
  BY DEF Poll!Receive
<1>4. PICK rest, busy : rest = {} /\ busy = {fds[f]}
  OBVIOUS
<1>5. /\ KernelInv' /\ UNCHANGED <<peer, backlog, fds, asked, replies, reset>>
      /\ Connections' = Connections
      /\ \A g \in (Connections \cup {ListenFd}) \ {f} : Readable(g)' <=> Readable(g)
      /\ Owed({}) => Owed(busy)'
  BY <1>1, <1>4, {} \cup {fds[f]} = {fds[f]}, RecvKernel
<1>6. Poll!WatchesWhatIsOpen'
  BY <1>3, <1>5 DEF PollInv, Poll!WatchesWhatIsOpen, Poll!watched, Poll!Connections
<1>7. ASSUME n # -1, NEW p \in PollPos, p >= Poll!Turn + 1, NEW g \in Fd,
             fd_events[p] = [fd |-> g, revents |-> TRUE]
      PROVE  Readable(g)'
  <2>1. p >= i /\ p # Poll!Turn
    BY <1>2, <1>7, PollAssumption, SocketsAssumption DEF PollPos
  <2>2. Readable(g)
    BY <1>2, <1>7, <2>1 DEF PollInv, NextPos
  <2>3. gdefaultfd \notin Fd
    BY SocketsAssumption DEF gdefaultfd, Fd
  <2>4. g \in Connections \cup {ListenFd}
    BY <1>7, <2>3, PollSame DEF PollInv, Poll!WatchesWhatIsOpen, Poll!watched, Poll!gdefaultfd, gdefaultfd, Poll!ListenFd, ListenFd
  <2>5. g # f
    BY <1>2, <1>7, <2>1, <2>3, PollSame DEF PollInv, Poll!WatchesWhatIsOpen, Poll!gdefaultfd, gdefaultfd
  <2> QED
    BY <1>5, <2>2, <2>4, <2>5
<1>9. Unharmed(fd_events[i].fd)'
  <2>1. Owed(busy)'
    BY <1>2, <1>5, Unreplied DEF PollInv
  <2> QED
    BY <1>2, <1>3, <1>4, <1>5, <2>1 DEF Unharmed, Owed, One
<1>10. Poll!Turn \in Nat
  BY <1>2, PollAssumption, SocketsAssumption DEF PollPos
<1> QED
  BY <1>1, <1>2, <1>3, <1>5, <1>6, <1>7, <1>9, <1>10 DEF PollInv, NextPos, Labels

LEMMA PollReply ==
  ASSUME KernelInv, PollInv, Poll!Reply
  PROVE  KernelInv' /\ PollInv'
<1> DEFINE f == fd_events[i].fd
<1>1. pc = "reply" /\ SendTo(f) /\ i' = i + 1 /\ UNCHANGED <<n, fd_events>>
  BY PollSame DEF Poll!Reply
<1>2. f \in Connections /\ i \in PollPos
  BY <1>1 DEF PollInv
<1> HIDE DEF f
<1>3. /\ KernelInv' /\ UNCHANGED <<peer, backlog, fds, unread>>
      /\ Connections' = Connections /\ pc' \in {"killed", "dispatch"}
      /\ \A g \in Connections \cup {ListenFd} : Readable(g)' <=> Readable(g)
      /\ Owed({fds[f]}) => Owed({})' /\ (pc' = "killed" => \E d \in Clients : LeftBehind(d)')
  BY <1>1, <1>2, SendKernel
<1>4. Poll!WatchesWhatIsOpen'
  BY <1>1, <1>3 DEF PollInv, Poll!WatchesWhatIsOpen, Poll!watched, Poll!Connections
<1>5. ASSUME n # -1, NEW p \in PollPos, p >= i + 1, NEW g \in Fd,
             fd_events[p] = [fd |-> g, revents |-> TRUE]
      PROVE  Readable(g)'
  <2>1. Readable(g)
    BY <1>1, <1>5 DEF PollInv, NextPos
  <2>2. gdefaultfd \notin Fd
    BY SocketsAssumption DEF gdefaultfd, Fd
  <2>3. g \in Connections \cup {ListenFd}
    BY <1>5, <2>2, PollSame DEF PollInv, Poll!WatchesWhatIsOpen, Poll!watched, Poll!gdefaultfd, gdefaultfd, Poll!ListenFd, ListenFd
  <2> QED
    BY <1>3, <2>1, <2>3
<1>6. Unharmed(fd_events[i].fd)'
  BY <1>1, <1>3 DEF PollInv, Unharmed, f
<1>7. i + 1 \in Nat
  BY DEF PollInv
<1> QED
  BY <1>1, <1>2, <1>3, <1>4, <1>5, <1>6, <1>7 DEF PollInv, NextPos, Labels

LEMMA PollDrop ==
  ASSUME KernelInv, PollInv, Poll!Drop
  PROVE  KernelInv' /\ PollInv'
<1>1. PICK f \in Connections : Poll!Handling(f) /\ CloseEnded(f)
  BY PollSame DEF Poll!Drop
<1>2. /\ pc = "dispatch" /\ Poll!Turn \in PollPos /\ Poll!Turn >= i /\ i \in Nat
      /\ fd_events[Poll!Turn] = [fd |-> f, revents |-> TRUE]
  BY <1>1, PollHandling DEF Connections
<1>3. /\ fd_events' = [fd_events EXCEPT ![Poll!Turn] = [fd |-> gdefaultfd, revents |-> FALSE]]
      /\ i' = Poll!Turn + 1 /\ UNCHANGED <<pc, n>>
  BY DEF Poll!Drop, Poll!unused, Poll!gdefaultfd, gdefaultfd
<1>4. /\ KernelInv' /\ UNCHANGED <<peer, backlog, asked, unread, replies, reset>>
      /\ Connections' = Connections \ {f}
      /\ \A g \in (Connections \cup {ListenFd}) \ {f} : Readable(g)' <=> Readable(g)
  BY <1>1, CloseKernel DEF CloseEnded
<1>5. \A p \in PollPos : fd_events'[p] = IF p = Poll!Turn THEN [fd |-> gdefaultfd, revents |-> FALSE] ELSE fd_events[p]
  BY <1>2, <1>3 DEF PollInv
<1>6. f # ListenFd /\ f # gdefaultfd /\ gdefaultfd \notin Fd
  BY SocketsAssumption DEF KernelInv, Connections, ListenFd, gdefaultfd, Fd
<1>7. /\ Poll!watched = Connections \cup {ListenFd}
      /\ \A p, q \in PollPos : fd_events[p].fd = fd_events[q].fd /\ fd_events[p].fd # gdefaultfd => p = q
  BY PollSame DEF PollInv, Poll!WatchesWhatIsOpen, Poll!gdefaultfd, gdefaultfd, Poll!ListenFd, ListenFd
<1>8. fd_events' \in [PollPos -> [fd : Fd \cup {gdefaultfd}, revents : BOOLEAN]]
  BY <1>2, <1>3 DEF PollInv
<1>9. Poll!watched' = Poll!watched \ {f}
  BY <1>2, <1>5, <1>6, <1>7, PollSame DEF Poll!watched, Poll!gdefaultfd, gdefaultfd
<1>10. Poll!WatchesWhatIsOpen'
  <2>1. Poll!Connections' = Connections'
    BY DEF Poll!Connections, Connections, Poll!Fd, Fd
  <2>2. \A p, q \in PollPos : fd_events'[p].fd = fd_events'[q].fd /\ fd_events'[p].fd # gdefaultfd => p = q
    BY <1>5, <1>7
  <2>3. Poll!watched' = Connections' \cup {ListenFd}
    BY <1>4, <1>6, <1>7, <1>9
  <2> QED
    BY <2>1, <2>2, <2>3, PollSame DEF Poll!WatchesWhatIsOpen, Poll!gdefaultfd, gdefaultfd, Poll!ListenFd, ListenFd
<1>11. ASSUME n # -1, NEW p \in PollPos, p >= Poll!Turn + 1, NEW g \in Fd,
              fd_events'[p] = [fd |-> g, revents |-> TRUE]
       PROVE  Readable(g)'
  <2>1. p >= i /\ p # Poll!Turn
    BY <1>2, <1>11, PollAssumption, SocketsAssumption DEF PollPos
  <2>2. fd_events[p] = [fd |-> g, revents |-> TRUE]
    BY <1>5, <1>11, <2>1
  <2>3. Readable(g)
    BY <1>2, <1>11, <2>1, <2>2 DEF PollInv, NextPos
  <2>4. g \in Connections \cup {ListenFd}
    BY <1>6, <1>7, <2>2 DEF Poll!watched, Poll!Pos, PollPos, Poll!gdefaultfd, gdefaultfd
  <2>5. g # f
    BY <1>2, <1>6, <1>7, <2>1, <2>2
  <2> QED
    BY <1>4, <2>3, <2>4, <2>5
<1>12. Unharmed(fd_events[i].fd)'
  BY <1>2, <1>3, <1>4, Unreplied, OwedSame, LeftSame DEF PollInv, Unharmed
<1>13. \A p \in PollPos : fd_events'[p].fd = gdefaultfd => ~fd_events'[p].revents
  BY <1>5 DEF PollInv
<1>14. i' \in Nat
  BY <1>2, <1>3, PollAssumption, SocketsAssumption DEF PollPos
<1> QED
  BY <1>2, <1>3, <1>4, <1>8, <1>10, <1>11, <1>12, <1>13, <1>14 DEF PollInv, NextPos, Labels

LEMMA PollEndPass ==
  ASSUME KernelInv, PollInv, Poll!EndPass
  PROVE  KernelInv' /\ PollInv'
<1>1. pc = "dispatch" /\ pc' = "loop" /\ i' = 0 /\ UNCHANGED <<sockets, fd_events>>
  BY DEF Poll!EndPass, Poll!sockets, sockets
<1>2. KernelInv' /\ Connections' = Connections
  BY <1>1 DEF sockets, KernelInv, SocketsTypeOK, Queued, Held, Connections
<1>3. Poll!WatchesWhatIsOpen'
  BY <1>1, <1>2 DEF PollInv, Poll!WatchesWhatIsOpen, Poll!watched, Poll!Connections, sockets
<1>4. Unharmed(fd_events[i].fd)'
  BY <1>1, Unreplied, OwedSame, LeftSame DEF PollInv, sockets, Unharmed
<1> QED
  BY <1>1, <1>2, <1>3, <1>4 DEF PollInv, Labels

LEMMA PollClient ==
  ASSUME KernelInv, PollInv, NEW c \in Clients, ClientStep(c), UNCHANGED <<pc, n, i, fd_events>>
  PROVE  KernelInv' /\ PollInv'
<1>1. UNCHANGED fds
  BY DEF ClientStep, Connect, Request, HangUp
<1>2. KernelInv' /\ Connections' = Connections /\ NextPos' = NextPos
  BY <1>1, ClientKernel DEF Connections, NextPos
<1>3. Poll!WatchesWhatIsOpen'
  BY <1>1, <1>2 DEF PollInv, Poll!WatchesWhatIsOpen, Poll!watched, Poll!Connections
<1>4. ASSUME n # -1, pc \in {"dispatch", "reply"}, NEW p \in PollPos, p >= NextPos, NEW g \in Fd,
             fd_events[p] = [fd |-> g, revents |-> TRUE]
      PROVE  Readable(g)'
  <2>1. gdefaultfd \notin Fd
    BY SocketsAssumption DEF gdefaultfd, Fd
  <2>2. g \in Connections \cup {ListenFd}
    BY <1>4, <2>1, PollSame DEF PollInv, Poll!WatchesWhatIsOpen, Poll!watched, Poll!gdefaultfd, gdefaultfd, Poll!ListenFd, ListenFd
  <2>3. Readable(g)
    BY <1>4 DEF PollInv
  <2> QED
    BY <2>2, <2>3, ClientReadable
<1>5. Unharmed(fd_events[i].fd)'
  <2>1. PICK f : f = fd_events[i].fd
    OBVIOUS
  <2>2. Unharmed(f)'
    BY <2>1, ClientUnharmed DEF PollInv
  <2> QED
    BY <1>1, <2>1, <2>2 DEF Unharmed
<1> QED
  BY <1>1, <1>2, <1>3, <1>4, <1>5 DEF PollInv
-----------------------------------------------------------------------------
LEMMA EpollSame ==
  /\ Epoll!Connections = Connections /\ Epoll!FreeFds = FreeFds /\ Epoll!NewFd = NewFd
  /\ Epoll!ListenFd = ListenFd /\ Epoll!AcceptOne = AcceptOne
  /\ \A f : /\ Epoll!Readable(f) = Readable(f) /\ Epoll!RecvSome(f) = RecvSome(f)
            /\ Epoll!SendTo(f) = SendTo(f) /\ Epoll!CloseEnded(f) = CloseEnded(f)
<1>1. Epoll!Connections = Connections /\ Epoll!FreeFds = FreeFds /\ Epoll!ListenFd = ListenFd
  BY DEF Epoll!Connections, Connections, Epoll!FreeFds, FreeFds, Epoll!Fd, Fd, Epoll!ListenFd, ListenFd
<1>2. Epoll!NewFd = NewFd
  BY <1>1 DEF Epoll!NewFd, NewFd, Epoll!Min, Min
<1>3. Epoll!AcceptOne = AcceptOne
  BY <1>1, <1>2 DEF Epoll!AcceptOne, AcceptOne, Epoll!Open, Open
<1>4. \A f : Epoll!Readable(f) = Readable(f)
  BY DEF Epoll!Readable, Readable, Epoll!DataOrEnd, DataOrEnd
<1>5. \A f : Epoll!RecvSome(f) = RecvSome(f)
  BY DEF Epoll!RecvSome, RecvSome
<1>6. \A f : Epoll!SendTo(f) = SendTo(f)
  BY DEF Epoll!SendTo, SendTo, Epoll!Broken, Broken, Epoll!Deliver, Deliver
<1>7. \A f : Epoll!CloseEnded(f) = CloseEnded(f)
  BY DEF Epoll!CloseEnded, CloseEnded, Epoll!Close, Close
<1> QED
  BY <1>1, <1>2, <1>3, <1>4, <1>5, <1>6, <1>7

(* What the instance says of the watches, in the operators of this module. *)
LEMMA EpollWatches ==
  /\ Epoll!WatchesWhatIsOpen <=>
       interest \cup unwatched = Connections \cup {ListenFd} /\ interest \cap unwatched = {}
  /\ Epoll!WatchesWhatIsOpen' <=>
       interest' \cup unwatched' = Connections' \cup {ListenFd} /\ interest' \cap unwatched' = {}
BY DEF Epoll!WatchesWhatIsOpen, Epoll!Connections, Connections, Epoll!Fd, Fd, Epoll!ListenFd, ListenFd

LEMMA EpollWait ==
  ASSUME KernelInv, EpollInv, Epoll!Wait \/ Epoll!EndPass
  PROVE  KernelInv' /\ EpollInv'
<1>1. /\ UNCHANGED <<sockets, interest, unwatched>> /\ pc \in {"loop", "dispatch"} /\ pc' \in {"loop", "dispatch"}
      /\ revs' \subseteq {f \in interest : Readable(f)}
  BY EpollSame DEF Epoll!Wait, Epoll!EndPass, Epoll!sockets, sockets
<1>2. KernelInv' /\ Connections' = Connections
  BY <1>1 DEF sockets, KernelInv, SocketsTypeOK, Queued, Held, Connections
<1>3. Epoll!WatchesWhatIsOpen'
  BY <1>1, <1>2, EpollWatches DEF EpollInv
<1>4. \A f \in revs' : Readable(f)'
  BY <1>1 DEF sockets, Readable, DataOrEnd
<1>5. Unharmed(fd)'
  BY <1>1, Unreplied, OwedSame, LeftSame DEF EpollInv, sockets, Unharmed
<1> QED
  BY <1>1, <1>2, <1>3, <1>4, <1>5 DEF EpollInv, Labels

LEMMA EpollAccept ==
  ASSUME KernelInv, EpollInv, Epoll!Acceptor
  PROVE  KernelInv' /\ EpollInv'
<1>1. /\ pc = "dispatch" /\ AcceptOne /\ revs' = revs \ {ListenFd} /\ UNCHANGED <<pc, n, fd>>
      /\ IF FreeFds = {} THEN UNCHANGED <<interest, unwatched>>
         ELSE \/ interest' = interest \cup {NewFd} /\ UNCHANGED unwatched
              \/ unwatched' = unwatched \cup {NewFd} /\ UNCHANGED interest
  BY EpollSame DEF Epoll!Acceptor, Epoll!Handling
<1>2. /\ KernelInv'
      /\ FreeFds = {} => Connections' = Connections
      /\ FreeFds # {} => NewFd \in Fd \ (Connections \cup (0 .. ListenFd)) /\ Connections' = Connections \cup {NewFd}
      /\ \A f \in Connections : Readable(f)' <=> Readable(f)
  BY <1>1, AcceptKernel
<1>3. /\ interest \cup unwatched = Connections \cup {ListenFd} /\ interest \cap unwatched = {}
      /\ ListenFd \in 0 .. ListenFd
  BY EpollWatches DEF EpollInv, ListenFd
<1>4. Epoll!WatchesWhatIsOpen'
  <2>1. interest' \cup unwatched' = Connections' \cup {ListenFd} /\ interest' \cap unwatched' = {}
    BY <1>1, <1>2, <1>3
  <2> QED
    BY <2>1, EpollWatches
<1>5. revs' \subseteq interest' /\ \A f \in revs' : Readable(f)'
  BY <1>1, <1>2, <1>3 DEF EpollInv
<1>6. Unharmed(fd)'
  BY <1>1, Unreplied, OwedSame, LeftSame DEF AcceptOne, EpollInv, Unharmed
<1> QED
  BY <1>1, <1>2, <1>4, <1>5, <1>6 DEF EpollInv

LEMMA EpollReceive ==
  ASSUME KernelInv, EpollInv, Epoll!Receive
  PROVE  KernelInv' /\ EpollInv'
<1>1. PICK f \in Connections :
        pc = "dispatch" /\ f \in revs /\ RecvSome(f) /\ fd' = f /\ revs' = revs \ {f}
  BY EpollSame DEF Epoll!Receive, Epoll!Handling
<1>2. pc' = "reply" /\ UNCHANGED <<n, interest, unwatched>>
  BY DEF Epoll!Receive
<1>3. PICK rest, busy : rest = {} /\ busy = {fds[f]}
  OBVIOUS
<1>4. /\ KernelInv' /\ UNCHANGED <<peer, backlog, fds, asked, replies, reset>>
      /\ Connections' = Connections
      /\ \A g \in (Connections \cup {ListenFd}) \ {f} : Readable(g)' <=> Readable(g)
      /\ Owed({}) => Owed(busy)'
  BY <1>1, <1>3, {} \cup {fds[f]} = {fds[f]}, RecvKernel
<1>5. Epoll!WatchesWhatIsOpen'
  BY <1>2, <1>4, EpollWatches DEF EpollInv
<1>6. \A g \in revs' : Readable(g)'
  BY <1>1, <1>4, EpollWatches DEF EpollInv
<1>8. Unharmed(fd)'
  <2>1. Owed(busy)'
    BY <1>1, <1>4, Unreplied DEF EpollInv
  <2> QED
    BY <1>1, <1>2, <1>3, <1>4, <2>1 DEF Unharmed, Owed, One
<1> QED
  BY <1>1, <1>2, <1>4, <1>5, <1>6, <1>8 DEF EpollInv, Labels

LEMMA EpollReply ==
  ASSUME KernelInv, EpollInv, Epoll!Reply
  PROVE  KernelInv' /\ EpollInv'
<1>1. pc = "reply" /\ SendTo(fd) /\ UNCHANGED <<n, interest, revs, fd, unwatched>>
  BY EpollSame DEF Epoll!Reply
<1>2. fd \in Connections
  BY <1>1 DEF EpollInv
<1>3. /\ KernelInv' /\ UNCHANGED <<peer, backlog, fds, unread>>
      /\ Connections' = Connections /\ pc' \in {"killed", "dispatch"}
      /\ \A g \in Connections \cup {ListenFd} : Readable(g)' <=> Readable(g)
      /\ Owed({fds[fd]}) => Owed({})' /\ (pc' = "killed" => \E d \in Clients : LeftBehind(d)')
  BY <1>1, <1>2, SendKernel
<1>4. Epoll!WatchesWhatIsOpen'
  BY <1>1, <1>3, EpollWatches DEF EpollInv
<1>5. \A g \in revs' : Readable(g)'
  BY <1>1, <1>3, EpollWatches DEF EpollInv
<1>6. Unharmed(fd)'
  BY <1>1, <1>3 DEF EpollInv, Unharmed
<1> QED
  BY <1>1, <1>3, <1>4, <1>5, <1>6 DEF EpollInv, Labels

LEMMA EpollDrop ==
  ASSUME KernelInv, EpollInv, Epoll!Drop
  PROVE  KernelInv' /\ EpollInv'
<1>1. PICK f \in Connections :
        pc = "dispatch" /\ f \in revs /\ CloseEnded(f) /\ revs' = revs \ {f} /\ interest' = interest \ {f}
  BY EpollSame DEF Epoll!Drop, Epoll!Handling
<1>2. UNCHANGED <<pc, n, fd, unwatched>>
  BY DEF Epoll!Drop
<1>3. /\ KernelInv' /\ UNCHANGED <<peer, backlog, asked, unread, replies, reset>>
      /\ Connections' = Connections \ {f}
      /\ \A g \in (Connections \cup {ListenFd}) \ {f} : Readable(g)' <=> Readable(g)
  BY <1>1, CloseKernel DEF CloseEnded
<1>4. f # ListenFd
  BY SocketsAssumption DEF KernelInv, Connections
<1>5. Epoll!WatchesWhatIsOpen'
  BY <1>1, <1>2, <1>3, <1>4, EpollWatches DEF EpollInv
<1>6. revs' \subseteq interest' /\ \A g \in revs' : Readable(g)'
  BY <1>1, <1>3, EpollWatches DEF EpollInv
<1>7. Unharmed(fd)'
  BY <1>1, <1>2, <1>3, Unreplied, OwedSame, LeftSame DEF EpollInv, Unharmed
<1> QED
  BY <1>1, <1>2, <1>3, <1>5, <1>6, <1>7 DEF EpollInv

LEMMA EpollClient ==
  ASSUME KernelInv, EpollInv, NEW c \in Clients, ClientStep(c), UNCHANGED <<pc, interest, revs, fd, unwatched>>
  PROVE  KernelInv' /\ EpollInv'
<1>1. UNCHANGED fds
  BY DEF ClientStep, Connect, Request, HangUp
<1>2. KernelInv' /\ Connections' = Connections
  BY <1>1, ClientKernel DEF Connections
<1>3. Epoll!WatchesWhatIsOpen'
  BY <1>2, EpollWatches DEF EpollInv
<1>4. pc \in {"dispatch", "reply"} => \A g \in revs : Readable(g)'
  BY ClientReadable, EpollWatches DEF EpollInv
<1>5. Unharmed(fd)'
  <2>1. PICK f : f = fd
    OBVIOUS
  <2>2. Unharmed(f)'
    BY <2>1, ClientUnharmed DEF EpollInv
  <2> QED
    BY <1>1, <2>1, <2>2 DEF Unharmed
<1> QED
  BY <1>1, <1>2, <1>3, <1>4, <1>5 DEF EpollInv
-----------------------------------------------------------------------------
LEMMA InitIInv == MuxInit => IInv
<1> SUFFICES ASSUME MuxInit PROVE IInv
  OBVIOUS
<1> USE SocketsAssumption
<1>1. CASE mux = "select" /\ Init
  <2>1. SocketsInit(Inherited)
    BY <1>1 DEF Init, BuildListenSocket
  <2>2. KernelInv /\ Owed({}) /\ Connections = {}
    BY <2>1, InitKernel
  <2>3. 0 \in Pos /\ \A p \in Pos : fd_array[p] = IF p = 0 THEN ListenFd ELSE gdefaultfd
    <3>1. 0 \in Pos
      BY SelectAssumption DEF Pos, ListenFd
    <3> QED
      BY <1>1, <3>1 DEF Init
  <2>4. ListenFd \in Fd /\ ListenFd # gdefaultfd /\ ListenFd < gnum
    BY SelectAssumption DEF ListenFd, Fd, gdefaultfd
  <2>5. watched = {ListenFd}
    BY <2>3, <2>4 DEF watched
  <2>6. WatchesWhatIsOpen
    BY <2>2, <2>3, <2>4, <2>5 DEF WatchesWhatIsOpen
  <2>7. SelectInv
    BY <1>1, <2>2, <2>3, <2>4, <2>6 DEF Init, SelectInv, Unharmed, Labels
  <2> QED
    BY <1>1, <2>2, <2>7 DEF IInv
<1>2. CASE mux = "poll" /\ Poll!Init
  <2>1. SocketsInit({})
    BY <1>2 DEF Poll!Init, Poll!BuildListenSocket, Poll!SocketsInit, SocketsInit, Poll!Fd, Fd, Poll!ListenFd, ListenFd
  <2>2. KernelInv /\ Owed({}) /\ Connections = {}
    BY <2>1, InitKernel
  <2>3. /\ 0 \in PollPos
        /\ \A p \in PollPos : fd_events[p] = [fd |-> IF p = 0 THEN ListenFd ELSE gdefaultfd, revents |-> FALSE]
        /\ DOMAIN fd_events = PollPos /\ fd_events = [p \in PollPos |-> fd_events[p]]
    <3>1. fd_events = [p \in PollPos |-> IF p = 0 THEN [Poll!unused EXCEPT !.fd = ListenFd] ELSE Poll!unused]
      BY <1>2, PollSame DEF Poll!Init, Poll!InitServer, Poll!ListenFd, ListenFd
    <3>2. Poll!unused = [fd |-> gdefaultfd, revents |-> FALSE] /\ Poll!unused \in [fd : {gdefaultfd}, revents : BOOLEAN]
      BY DEF Poll!unused, Poll!gdefaultfd, gdefaultfd
    <3>3. ASSUME NEW r \in [fd : {gdefaultfd}, revents : BOOLEAN]
          PROVE  [r EXCEPT !.fd = ListenFd] = [fd |-> ListenFd, revents |-> r.revents]
      OBVIOUS
    <3>4. [Poll!unused EXCEPT !.fd = ListenFd] = [fd |-> ListenFd, revents |-> FALSE]
      BY <3>2, <3>3
    <3>5. 0 \in PollPos
      BY PollAssumption DEF PollPos
    <3> QED
      BY <3>1, <3>2, <3>4, <3>5
  <2>4. ListenFd \in Fd /\ ListenFd # gdefaultfd
    BY DEF ListenFd, Fd, gdefaultfd
  <2>5. Poll!WatchesWhatIsOpen
    <3>1. Poll!watched = {ListenFd}
      BY <2>3, <2>4, PollSame DEF Poll!watched, Poll!gdefaultfd, gdefaultfd
    <3> QED
      BY <2>2, <2>3, <2>4, <3>1, PollSame DEF Poll!WatchesWhatIsOpen, Poll!gdefaultfd, gdefaultfd, Poll!ListenFd, ListenFd
  <2>6. fd_events \in [PollPos -> [fd : Fd \cup {gdefaultfd}, revents : BOOLEAN]]
    <3>1. \A f \in Fd \cup {gdefaultfd} :
            [fd |-> f, revents |-> FALSE] \in [fd : Fd \cup {gdefaultfd}, revents : BOOLEAN]
      OBVIOUS
    <3>2. \A p \in PollPos : fd_events[p] \in [fd : Fd \cup {gdefaultfd}, revents : BOOLEAN]
      <4> SUFFICES ASSUME NEW p \in PollPos
                   PROVE  fd_events[p] \in [fd : Fd \cup {gdefaultfd}, revents : BOOLEAN]
        OBVIOUS
      <4>1. PICK f \in Fd \cup {gdefaultfd} : fd_events[p] = [fd |-> f, revents |-> FALSE]
        BY <2>3, <2>4
      <4> QED
        BY <3>1, <4>1
    <3> QED
      BY <2>3, <3>2
  <2>7. PollInv
    BY <1>2, <2>2, <2>3, <2>5, <2>6 DEF Poll!Init, PollInv, Unharmed, Labels
  <2> QED
    BY <1>2, <2>2, <2>7 DEF IInv
<1>3. CASE mux = "epoll" /\ Epoll!Init
  <2>1. PICK own : SocketsInit(own)
    BY <1>3 DEF Epoll!Init, Epoll!BuildListenSocket, Epoll!SocketsInit, SocketsInit, Epoll!Fd, Fd, Epoll!ListenFd, ListenFd
  <2>2. KernelInv /\ Owed({}) /\ Connections = {}
    BY <2>1, InitKernel
  <2>3. interest = {ListenFd} /\ unwatched = {} /\ revs = {} /\ pc = "loop"
    BY <1>3, EpollSame DEF Epoll!Init
  <2>4. EpollInv
    BY <2>2, <2>3, EpollWatches DEF EpollInv, Unharmed, Labels
  <2> QED
    BY <1>3, <2>2, <2>4 DEF IInv
<1> QED
  BY <1>1, <1>2, <1>3 DEF MuxInit

LEMMA NextIInv == IInv /\ [MuxNext]_all => IInv'
<1> SUFFICES ASSUME IInv, [MuxNext]_all PROVE IInv'
  OBVIOUS
<1>1. CASE SelectOnly /\ Loop
  <2>1. mux = "select" /\ mux' = mux /\ KernelInv /\ SelectInv
    BY <1>1 DEF SelectOnly, IInv
  <2>2. KernelInv' /\ SelectInv'
    BY <1>1, <2>1, SelectWait, SelectAccept, SelectReceive, SelectReply, SelectDrop, SelectEndPass
       DEF Loop, HandlerEvent, HandlerIO
  <2> QED
    BY <2>1, <2>2 DEF IInv
<1>2. CASE PollOnly /\ Poll!Loop
  <2>1. mux = "poll" /\ mux' = mux /\ KernelInv /\ PollInv
    BY <1>2 DEF PollOnly, IInv
  <2>2. KernelInv' /\ PollInv'
    BY <1>2, <2>1, PollWait, PollAccept, PollReceive, PollReply, PollDrop, PollEndPass
       DEF Poll!Loop, Poll!HandlerEvent, Poll!HandlerIO
  <2> QED
    BY <2>1, <2>2 DEF IInv
<1>3. CASE EpollOnly /\ Epoll!Loop
  <2>1. mux = "epoll" /\ mux' = mux /\ KernelInv /\ EpollInv
    BY <1>3 DEF EpollOnly, IInv
  <2>2. KernelInv' /\ EpollInv'
    BY <1>3, <2>1, EpollWait, EpollAccept, EpollReceive, EpollReply, EpollDrop
       DEF Epoll!Loop, Epoll!HandlerEvents, Epoll!HandlerIO
  <2> QED
    BY <2>1, <2>2 DEF IInv
<1>4. CASE \E c \in Clients : ClientStep(c) /\ UNCHANGED <<server, mux, poll, epoll>>
  <2>1. PICK c \in Clients : ClientStep(c) /\ UNCHANGED <<server, mux, poll, epoll>>
    BY <1>4
  <2>2. UNCHANGED <<pc, n, fd_array, rfds, i, mux, fd_events, interest, revs, fd, unwatched>> /\ UNCHANGED server
    BY <2>1 DEF server, poll, epoll
  <2>3. CASE mux = "select" /\ SelectInv
    BY <2>1, <2>2, <2>3, SelectClient DEF IInv
  <2>4. CASE mux = "poll" /\ PollInv
    BY <2>1, <2>2, <2>4, PollClient DEF IInv
  <2>5. CASE mux = "epoll" /\ EpollInv
    BY <2>1, <2>2, <2>5, EpollClient DEF IInv
  <2> QED
    BY <2>3, <2>4, <2>5 DEF IInv
<1>5. CASE UNCHANGED all
  <2>1. UNCHANGED <<pc, n, fd_array, rfds, i, mux, fd_events, interest, revs, fd, unwatched>> /\ UNCHANGED sockets
    BY <1>5 DEF all, vars, server, poll, epoll
  <2>2. KernelInv' /\ Connections' = Connections /\ NextPos' = NextPos
    <3>1. KernelInv
      BY DEF IInv
    <3>2. KernelInv'
      BY <2>1, <3>1 DEF sockets, KernelInv, SocketsTypeOK, Queued, Held
    <3> QED
      BY <2>1, <3>2 DEF sockets, Connections, NextPos
  <2>3. \A f : Readable(f)' <=> Readable(f)
    BY <2>1 DEF sockets, Readable, DataOrEnd
  <2>4. (\E c \in Clients : LeftBehind(c)) => \E c \in Clients : LeftBehind(c)'
    BY <2>1, LeftSame DEF sockets
  <2>5. CASE mux = "select" /\ SelectInv
    <3>0. Unharmed(fd_array[i])'
      BY <2>1, <2>4, <2>5 DEF sockets, SelectInv, Unharmed, Owed
    <3>1. SelectInv'
      BY <2>1, <2>2, <2>3, <2>5, <3>0 DEF sockets, SelectInv, WatchesWhatIsOpen, watched
    <3> QED
      BY <2>1, <2>2, <2>5, <3>1 DEF IInv
  <2>6. CASE mux = "poll" /\ PollInv
    <3>0. Unharmed(fd_events[i].fd)'
      BY <2>1, <2>4, <2>6 DEF sockets, PollInv, Unharmed, Owed
    <3>1. PollInv'
      BY <2>1, <2>2, <2>3, <2>6, <3>0 DEF sockets, PollInv, Poll!WatchesWhatIsOpen, Poll!watched, Poll!Connections
    <3> QED
      BY <2>1, <2>2, <2>6, <3>1 DEF IInv
  <2>7. CASE mux = "epoll" /\ EpollInv
    <3>0. Unharmed(fd)'
      BY <2>1, <2>4, <2>7 DEF sockets, EpollInv, Unharmed, Owed
    <3>1. EpollInv'
      BY <2>1, <2>2, <2>3, <2>7, <3>0, EpollWatches DEF sockets, EpollInv
    <3> QED
      BY <2>1, <2>2, <2>7, <3>1 DEF IInv
  <2> QED
    BY <2>5, <2>6, <2>7 DEF IInv
<1> QED
  BY <1>1, <1>2, <1>3, <1>4, <1>5 DEF MuxNext, ServerStep

THEOREM IInvHolds == MuxSpec => []IInv
BY InitIInv, NextIInv, PTL DEF MuxSpec

(* Whatever the loop, the number of clients, the limit on descriptors and  *)
(* the size of the array: what is watched is what is open, each once.      *)
THEOREM EveryOpenOneIsWatched == MuxSpec => []EveryOpenOneWatched
<1>1. IInv => EveryOpenOneWatched
  BY DEF IInv, EveryOpenOneWatched, SelectInv, PollInv, EpollInv
<1> QED
  BY <1>1, IInvHolds, PTL

(* A handler waits only after select or poll has failed.                   *)
THEOREM WhatIsReadyStaysReady == MuxSpec => []ReadyStaysReady
<1>1. IInv => ReadyStaysReady
  <2> SUFFICES ASSUME IInv, Waits PROVE n = -1 /\ mux # "epoll"
    BY DEF ReadyStaysReady
  <2>1. CASE mux = "select" /\ Blocked
    <3>1. SelectInv /\ pc = "dispatch" /\ Turn \in Ready /\ ~Readable(fd_array[Turn])
      BY <2>1, TurnFirst DEF IInv, Blocked
    <3> QED
      BY <2>1, <3>1 DEF SelectInv, Ready, NextPos
  <2>2. CASE mux = "poll" /\ Poll!Blocked
    <3>1. PollInv /\ pc = "dispatch" /\ Poll!Turn \in Poll!Ready /\ ~Readable(fd_events[Poll!Turn].fd)
      BY <2>2, PollTurnFirst, PollSame DEF IInv, Poll!Blocked
    <3>2. PICK e : e = fd_events[Poll!Turn]
      OBVIOUS
    <3>3. Poll!Turn \in PollPos /\ Poll!Turn >= i /\ e.fd # gdefaultfd /\ e.revents
      BY <3>1, <3>2, PollSame DEF Poll!Ready, Poll!gdefaultfd, gdefaultfd
    <3>4. e.fd \in Fd /\ e = [fd |-> e.fd, revents |-> TRUE]
      BY <3>1, <3>2, <3>3 DEF PollInv
    <3> QED
      BY <2>2, <3>1, <3>2, <3>3, <3>4 DEF PollInv, NextPos
  <2>3. CASE mux = "epoll" /\ Epoll!Blocked
    BY <2>3, EpollSame DEF IInv, EpollInv, Epoll!Blocked
  <2> QED
    BY <2>1, <2>2, <2>3 DEF Waits
<1> QED
  BY <1>1, IInvHolds, PTL

(* Only a client that hangs up with two pieces or more unanswered brings   *)
(* the server down, however its requests and those of others are torn.     *)
THEOREM ServerSurvives == MuxSpec => []Survives
<1>1. IInv => Survives
  BY DEF IInv, SelectInv, PollInv, EpollInv, Unharmed, Survives
<1> QED
  BY <1>1, IInvHolds, PTL
-----------------------------------------------------------------------------
(* The command server, whose threads are its own: where each of them is,   *)
(* and the descriptors it keeps.                                           *)
(* A thread in Serving has its connection open; one in Answering has taken *)
(* a command and not answered it yet.                                      *)
Serving == {"recv", "waiting", "execute", "output", "send", "close"}
Answering == {t \in Clients : where[t] \in {"execute", "output", "send"}}
Pipes == {f \in Fd : fds[f] = "pipe"}
Spared == alive \/ \E c \in Clients : LeftBehind(c)

CommandTypeOK ==
  /\ where \in [Clients -> Serving \cup {"none", "close again", "done"}]
  /\ sockfd \in [Clients -> Fd]
  /\ inRecv \in [Clients -> Clients \cup {None}]
  /\ pipefd \in [Clients -> Fd]
  /\ ran \in Nat

(* Thread t works on the connection of t alone, and ends when t has quit;  *)
(* between its two closes the number it closes stays free.                 *)
ThreadInv(t) ==
  /\ where[t] = "none" => ~Accepted(t)
  /\ where[t] \in Serving => fds[sockfd[t]] = t
  /\ where[t] = "waiting" => inRecv[t] = t
  /\ where[t] = "output" => fds[pipefd[t]] = "pipe"
  /\ where[t] \in {"close", "close again", "done"} => peer[t] = "closed"
  /\ where[t] = "close again" => fds[sockfd[t]] = "free"
  /\ where[t] \in {"close again", "done"} => Accepted(t) /\ ~Held(t)

CommandInv ==
  /\ KernelInv
  /\ CommandTypeOK
  /\ \A t \in Clients : ThreadInv(t)
  /\ Cardinality(Pipes) = ran
  /\ Owed(Answering)
  /\ Spared

(* Nothing is claimed of a descriptor given out between two closes.        *)
CommandIInv == raced \/ CommandInv

(* A thread that does not move, and whose connection and descriptors stay  *)
(* what they were.                                                         *)
LEMMA ThreadStays ==
  ASSUME NEW t, ThreadInv(t),
         where'[t] = where[t], inRecv'[t] = inRecv[t], sockfd'[t] = sockfd[t], pipefd'[t] = pipefd[t],
         Accepted(t)' <=> Accepted(t), peer[t] = "closed" => peer'[t] = "closed",
         Held(t)' => Held(t),
         where[t] \in Serving => fds'[sockfd[t]] = fds[sockfd[t]],
         where[t] = "output" => fds'[pipefd[t]] = fds[pipefd[t]],
         where[t] = "close again" => fds'[sockfd[t]] = fds[sockfd[t]]
  PROVE  ThreadInv(t)'
<1>1. where'[t] = "none" => ~Accepted(t)'
  BY DEF ThreadInv
<1>2. where'[t] \in Serving => fds'[sockfd'[t]] = t
  BY DEF ThreadInv
<1>3. where'[t] \in {"close again", "done"} => Accepted(t)' /\ ~Held(t)'
  BY DEF ThreadInv
<1> QED
  BY <1>1, <1>2, <1>3 DEF ThreadInv

LEMMA AnsweringNext ==
  ASSUME NEW busy, Owed(busy)', Answering' = busy
  PROVE  Owed(Answering)'
BY DEF Owed, One

LEMMA SparedStays ==
  ASSUME Spared, UNCHANGED <<alive, peer, asked, replies, reset>>
  PROVE  Spared'
BY LeftSame DEF Spared

(* A thread that has its connection open.                                  *)
LEMMA ServesItsOwn ==
  ASSUME CommandInv, NEW t \in Clients, where[t] \in Serving
  PROVE  /\ sockfd[t] \in Connections /\ fds[sockfd[t]] = t /\ Held(t) /\ ~Queued(t)
         /\ peer[t] # "away" /\ Accepted(t)
<1>1. sockfd[t] \in Fd /\ fds[sockfd[t]] = t
  BY DEF CommandInv, CommandTypeOK, ThreadInv
<1>2. Held(t)
  BY <1>1 DEF Held
<1> QED
  BY <1>1, <1>2 DEF CommandInv, KernelInv, Connections, Accepted

(* The steps of thread t that neither open nor close a descriptor.         *)
LEMMA OwnStep ==
  ASSUME CommandInv, NEW t \in Clients, KernelInv',
         UNCHANGED <<peer, backlog, fds, sockfd, pipefd, ran>>,
         NEW label \in Serving \cup {"none", "close again", "done"},
         where' = [where EXCEPT ![t] = label],
         inRecv' \in [Clients -> Clients \cup {None}],
         \A u \in Clients \ {t} : inRecv'[u] = inRecv[u],
         ThreadInv(t)', Owed(Answering)' /\ Spared'
  PROVE  CommandInv'
<1>1. CommandTypeOK'
  BY DEF CommandInv, CommandTypeOK
<1>2. \A u \in Clients \ {t} : ThreadInv(u)'
  <2> SUFFICES ASSUME NEW u \in Clients \ {t} PROVE ThreadInv(u)'
    OBVIOUS
  <2>1. where'[u] = where[u] /\ inRecv'[u] = inRecv[u] /\ ThreadInv(u)
    BY DEF CommandInv, CommandTypeOK
  <2>2. (Accepted(u)' <=> Accepted(u)) /\ (Held(u)' <=> Held(u))
    BY DEF Accepted, Held, Queued
  <2> QED
    BY <2>1, <2>2, ThreadStays
<1>3. Cardinality(Pipes)' = ran'
  BY DEF CommandInv, Pipes
<1> QED
  BY <1>1, <1>2, <1>3 DEF CommandInv

LEMMA CommandEnterRecv ==
  ASSUME CommandInv, NEW t \in Clients, EnterRecv(t)
  PROVE  CommandInv'
<1>1. /\ where[t] = "recv" /\ UNCHANGED sockets /\ UNCHANGED <<sockfd, pipefd, ran, alive>>
      /\ IF fds[sockfd[t]] \in Clients
         THEN inRecv' = [inRecv EXCEPT ![t] = fds[sockfd[t]]] /\ where' = [where EXCEPT ![t] = "waiting"]
         ELSE where' = [where EXCEPT ![t] = "close"] /\ UNCHANGED inRecv
  BY DEF EnterRecv, Mine, Goto, sockets, sockets, counts
<1>2. fds[sockfd[t]] = t
  BY <1>1, ServesItsOwn DEF Serving
<1>3. /\ inRecv' = [inRecv EXCEPT ![t] = t] /\ where' = [where EXCEPT ![t] = "waiting"]
      /\ UNCHANGED <<peer, backlog, fds, asked, unread, replies, reset, sockfd, pipefd, ran, alive>>
  BY <1>1, <1>2 DEF sockets
<1>4. inRecv'[t] = t /\ where'[t] = "waiting" /\ Answering' = Answering
  BY <1>1, <1>3 DEF CommandInv, CommandTypeOK, Answering
<1>5. KernelInv'
  BY <1>3 DEF CommandInv, KernelInv, SocketsTypeOK, Queued, Held
<1>6. ThreadInv(t)'
  BY <1>2, <1>3, <1>4 DEF ThreadInv, Serving
<1>7. Owed(Answering)' /\ Spared'
  BY <1>3, <1>4, SparedStays DEF CommandInv, Owed, One
<1>8. /\ inRecv' \in [Clients -> Clients \cup {None}]
      /\ \A u \in Clients \ {t} : inRecv'[u] = inRecv[u]
  BY <1>3 DEF CommandInv, CommandTypeOK
<1> QED
  BY <1>3, <1>5, <1>6, <1>7, <1>8, OwnStep DEF Serving

LEMMA CommandRecvCommand ==
  ASSUME CommandInv, NEW t \in Clients, RecvCommand(t)
  PROVE  CommandInv'
<1>1. where[t] = "waiting" /\ inRecv[t] = t
  BY DEF RecvCommand, CommandInv, ThreadInv
<1>2. PICK f : f = sockfd[t]
  OBVIOUS
<1>3. f \in Connections /\ fds[f] = t
  BY <1>1, <1>2, ServesItsOwn DEF Serving
<1>4. RecvSome(f)
  BY <1>1, <1>3 DEF RecvCommand, RecvSome
<1>5. PICK rest, busy : rest = Answering /\ busy = rest \cup {t}
  OBVIOUS
<1>6. fds[f] \notin rest
  BY <1>1, <1>3, <1>5 DEF Answering
<1>7. KernelInv' /\ (Owed(rest) => Owed(busy)')
  BY <1>3, <1>4, <1>5, <1>6, RecvKernel DEF CommandInv
<1>8. /\ UNCHANGED <<peer, backlog, fds, sockfd, pipefd, ran, alive>>
      /\ inRecv' = [inRecv EXCEPT ![t] = None] /\ where' = [where EXCEPT ![t] = "execute"]
  BY DEF RecvCommand, Goto, counts
<1>9. where'[t] = "execute" /\ Answering' = busy
  BY <1>5, <1>8 DEF CommandInv, CommandTypeOK, Answering
<1>10. ThreadInv(t)'
  BY <1>2, <1>3, <1>8, <1>9 DEF ThreadInv, Serving
<1>11. Owed(Answering)' /\ Spared'
  <2>1. Spared'
    BY <1>8, LeftStays DEF CommandInv, Spared, RecvCommand
  <2> QED
    BY <1>5, <1>7, <1>9, <2>1, AnsweringNext DEF CommandInv
<1>12. /\ inRecv' \in [Clients -> Clients \cup {None}]
       /\ \A u \in Clients \ {t} : inRecv'[u] = inRecv[u]
  BY <1>8 DEF CommandInv, CommandTypeOK
<1> QED
  BY <1>7, <1>8, <1>10, <1>11, <1>12, OwnStep DEF Serving

LEMMA CommandRecvEnd ==
  ASSUME CommandInv, NEW t \in Clients, RecvEnd(t)
  PROVE  CommandInv'
<1>1. where[t] = "waiting" /\ inRecv[t] = t /\ peer[t] = "closed"
  BY DEF RecvEnd, CommandInv, ThreadInv
<1>2. /\ UNCHANGED <<peer, backlog, fds, asked, unread, replies, reset, sockfd, pipefd, ran, alive>>
      /\ inRecv' = [inRecv EXCEPT ![t] = None] /\ where' = [where EXCEPT ![t] = "close"]
  BY DEF RecvEnd, Goto, counts, sockets
<1>3. fds[sockfd[t]] = t
  BY <1>1, ServesItsOwn DEF Serving
<1>4. where'[t] = "close" /\ Answering' = Answering
  BY <1>1, <1>2 DEF CommandInv, CommandTypeOK, Answering
<1>5. KernelInv'
  BY <1>2 DEF CommandInv, KernelInv, SocketsTypeOK, Queued, Held
<1>6. ThreadInv(t)'
  BY <1>1, <1>2, <1>3, <1>4 DEF ThreadInv, Serving
<1>7. Owed(Answering)' /\ Spared'
  BY <1>2, <1>4, SparedStays DEF CommandInv, Owed, One
<1>8. /\ inRecv' \in [Clients -> Clients \cup {None}]
      /\ \A u \in Clients \ {t} : inRecv'[u] = inRecv[u]
  BY <1>2 DEF CommandInv, CommandTypeOK
<1> QED
  BY <1>2, <1>5, <1>6, <1>7, <1>8, OwnStep DEF Serving

(* A command is refused, or its output has been read; the pipe of a        *)
(* command never is a connection while no number was given out in a race.  *)
LEMMA CommandToSend ==
  ASSUME CommandInv, NEW t \in Clients,
         Refuse(t) \/ ReadOutput(t) \/ ReadStranger(t)
  PROVE  CommandInv'
<1>1. ~ReadStranger(t)
  <2>1. where[t] = "output" => fds[pipefd[t]] \notin Clients
    BY SocketsAssumption DEF CommandInv, ThreadInv
  <2> QED
    BY <2>1 DEF ReadStranger
<1>2. /\ where[t] \in {"execute", "output"} /\ where' = [where EXCEPT ![t] = "send"]
      /\ UNCHANGED <<peer, backlog, fds, asked, unread, replies, reset>>
      /\ UNCHANGED <<sockfd, inRecv, pipefd, ran, alive>>
  BY <1>1 DEF Refuse, ReadOutput, Goto, counts, threads, sockets
<1>3. fds[sockfd[t]] = t
  BY <1>2, ServesItsOwn DEF Serving
<1>4. where'[t] = "send" /\ Answering' = Answering
  BY <1>2 DEF CommandInv, CommandTypeOK, Answering
<1>5. KernelInv'
  BY <1>2 DEF CommandInv, KernelInv, SocketsTypeOK, Queued, Held
<1>6. ThreadInv(t)'
  BY <1>2, <1>3, <1>4 DEF ThreadInv, Serving
<1>7. Owed(Answering)' /\ Spared'
  BY <1>2, <1>4, SparedStays DEF CommandInv, Owed, One
<1>8. inRecv' \in [Clients -> Clients \cup {None}]
  BY <1>2 DEF CommandInv, CommandTypeOK
<1> QED
  BY <1>2, <1>5, <1>6, <1>7, <1>8, OwnStep DEF Serving

LEMMA CommandSend ==
  ASSUME CommandInv, NEW t \in Clients, Send(t)
  PROVE  CommandInv'
<1>1. where[t] = "send" /\ fds[sockfd[t]] = t /\ Held(t)
  BY ServesItsOwn DEF Send, Serving
<1>2. /\ UNCHANGED <<peer, backlog, fds, asked, unread, sockfd, inRecv, pipefd, ran>>
      /\ IF Broken(t)
         THEN alive' = FALSE /\ UNCHANGED <<replies, reset, where>>
         ELSE Deliver(t) /\ where' = [where EXCEPT ![t] = "recv"] /\ UNCHANGED alive
  BY <1>1 DEF Send, Mine, Goto, counts, threads
<1>3. PICK rest, busy : rest = Answering \ {t} /\ busy = rest \cup {t}
  OBVIOUS
<1>4. busy = Answering
  BY <1>1, <1>3 DEF Answering
<1>5. inRecv' \in [Clients -> Clients \cup {None}]
  BY <1>2 DEF CommandInv, CommandTypeOK
<1>6. CASE Broken(t)
  <2>1. LeftBehind(t)
    BY <1>3, <1>4, <1>6, OwedBroken DEF CommandInv
  <2>3. UNCHANGED <<peer, backlog, fds, asked, unread, replies, reset, where, sockfd, inRecv, pipefd, ran>>
    BY <1>2, <1>6
  <2>4. KernelInv'
    BY <2>3 DEF CommandInv, KernelInv, SocketsTypeOK, Queued, Held
  <2>5. where' = [where EXCEPT ![t] = "send"]
    BY <1>1, <2>3 DEF CommandInv, CommandTypeOK
  <2>2. Owed(Answering)' /\ Spared'
    <3>1. Answering' = Answering
      BY <2>3 DEF Answering
    <3>2. LeftBehind(t)'
      BY <2>1, <2>3, LeftSame
    <3> QED
      BY <2>3, <3>1, <3>2 DEF CommandInv, Owed, One, Spared
  <2>6. ThreadInv(t)'
    BY <1>1, <2>3 DEF ThreadInv, Serving
  <2> QED
    BY <2>2, <2>3, <2>4, <2>5, <2>6, <1>5, OwnStep DEF Serving
<1>7. CASE ~Broken(t)
  <2>1. Deliver(t) /\ where' = [where EXCEPT ![t] = "recv"] /\ UNCHANGED alive
    BY <1>2, <1>7
  <2>2. KernelInv' /\ (Owed(busy) => Owed(rest)')
    BY <1>1, <1>2, <1>3, <2>1, DeliverKernel DEF CommandInv
  <2>3. where'[t] = "recv" /\ Answering' = rest
    BY <1>3, <2>1 DEF CommandInv, CommandTypeOK, Answering
  <2>4. ThreadInv(t)'
    BY <1>1, <1>2, <2>3 DEF ThreadInv, Serving
  <2>5. Owed(Answering)' /\ Spared'
    <3>1. Spared'
      BY <1>2, <2>1, DeliverLeft DEF CommandInv, Spared
    <3> QED
      BY <1>4, <2>2, <2>3, <3>1, AnsweringNext DEF CommandInv
  <2> QED
    BY <1>2, <1>5, <2>1, <2>2, <2>4, <2>5, OwnStep DEF Serving
<1> QED
  BY <1>6, <1>7

(* The descriptor a thread closes first is its own, and nobody else's.     *)
LEMMA CommandClose ==
  ASSUME CommandInv, NEW t \in Clients, CloseInHandler(t)
  PROVE  CommandInv'
<1>1. PICK f : f = sockfd[t]
  OBVIOUS
<1>2. /\ where[t] = "close" /\ where' = [where EXCEPT ![t] = "close again"] /\ Close(f)
      /\ UNCHANGED <<peer, backlog, asked, unread, replies, reset>>
      /\ UNCHANGED <<sockfd, inRecv, pipefd, ran, alive>>
  BY <1>1 DEF CloseInHandler, Goto, counts, threads
<1>3. f \in Connections /\ fds[f] = t /\ Accepted(t) /\ f \in Fd
  BY <1>1, <1>2, ServesItsOwn DEF Serving, Connections
<1>4. KernelInv'
  BY <1>2, <1>3, CloseKernel DEF CommandInv
<1>5. \A g \in Fd : fds'[g] = IF g = f THEN "free" ELSE fds[g]
  BY <1>2, <1>3 DEF Close, CommandInv, KernelInv, SocketsTypeOK
<1>6. t \notin {"free", "own", "listen", "pipe"} /\ \A u \in Clients : u # "pipe" /\ u # "free"
  BY SocketsAssumption
<1>7. CommandTypeOK'
  BY <1>2 DEF CommandInv, CommandTypeOK, Serving
<1>8. \A u \in Clients : Accepted(u)' <=> Accepted(u)
  BY <1>2 DEF Accepted, Queued
<1>9. \A u \in Clients : Held(u)' => Held(u) /\ u # t
  BY <1>3, <1>5, <1>6 DEF Held, CommandInv, KernelInv
<1>10. ThreadInv(t)'
  <2>1. where'[t] = "close again" /\ fds'[sockfd'[t]] = "free" /\ peer'[t] = "closed"
    <3>1. where'[t] = "close again"
      BY <1>2 DEF CommandInv, CommandTypeOK
    <3>2. peer[t] = "closed"
      BY <1>2 DEF CommandInv, ThreadInv
    <3> QED
      BY <1>1, <1>2, <1>3, <1>5, <3>1, <3>2
  <2>2. Accepted(t)' /\ ~Held(t)'
    BY <1>3, <1>8, <1>9
  <2> QED
    BY <2>1, <2>2 DEF ThreadInv, Serving
<1>11. \A u \in Clients \ {t} : ThreadInv(u)'
  <2> SUFFICES ASSUME NEW u \in Clients \ {t} PROVE ThreadInv(u)'
    OBVIOUS
  <2>1. ThreadInv(u) /\ sockfd[u] \in Fd /\ pipefd[u] \in Fd
    BY DEF CommandInv, CommandTypeOK
  <2>2. where[u] \in Serving => fds'[sockfd[u]] = fds[sockfd[u]]
    BY <1>3, <1>5, <2>1 DEF ThreadInv
  <2>3. where[u] = "output" => fds'[pipefd[u]] = fds[pipefd[u]]
    BY <1>3, <1>5, <1>6, <2>1 DEF ThreadInv
  <2>4. where[u] = "close again" => fds'[sockfd[u]] = fds[sockfd[u]]
    BY <1>3, <1>5, <1>6, <2>1 DEF ThreadInv
  <2>5. where'[u] = where[u] /\ inRecv'[u] = inRecv[u] /\ sockfd'[u] = sockfd[u] /\ pipefd'[u] = pipefd[u]
    BY <1>2 DEF CommandInv, CommandTypeOK
  <2> QED
    BY <1>2, <1>8, <1>9, <2>1, <2>2, <2>3, <2>4, <2>5, ThreadStays
<1>12. Cardinality(Pipes)' = ran'
  <2>1. Pipes' = Pipes
    BY <1>3, <1>5, <1>6 DEF Pipes
  <2> QED
    BY <1>2, <2>1 DEF CommandInv
<1>13. Owed(Answering)' /\ Spared'
  <2>1. Answering' = Answering
    BY <1>2 DEF CommandInv, CommandTypeOK, Answering
  <2> QED
    BY <1>2, <2>1, SparedStays DEF CommandInv, Owed, One
<1> QED
  BY <1>4, <1>7, <1>10, <1>11, <1>12, <1>13 DEF CommandInv

(* The second close finds the number still free, and changes nothing.      *)
LEMMA CommandCloseAgain ==
  ASSUME CommandInv, NEW t \in Clients, CloseInExecute(t)
  PROVE  CommandInv'
<1>1. PICK f : f = sockfd[t]
  OBVIOUS
<1>2. /\ where[t] = "close again" /\ where' = [where EXCEPT ![t] = "done"] /\ Close(f)
      /\ UNCHANGED <<peer, backlog, asked, unread, replies, reset>>
      /\ UNCHANGED <<sockfd, inRecv, pipefd, ran, alive>>
  BY <1>1 DEF CloseInExecute, Goto, counts, threads
<1>3. fds[f] = "free" /\ f \in Fd /\ Accepted(t) /\ ~Held(t) /\ peer[t] = "closed"
  BY <1>1, <1>2 DEF CommandInv, CommandTypeOK, ThreadInv
<1>4. fds' = fds
  BY <1>2, <1>3 DEF Close, CommandInv, KernelInv, SocketsTypeOK
<1>5. KernelInv'
  BY <1>2, <1>4 DEF CommandInv, KernelInv, SocketsTypeOK, Queued, Held
<1>6. where'[t] = "done" /\ Answering' = Answering
  BY <1>2 DEF CommandInv, CommandTypeOK, Answering
<1>7. ThreadInv(t)'
  BY <1>2, <1>3, <1>4, <1>6 DEF ThreadInv, Serving, Accepted, Queued, Held
<1>8. Owed(Answering)' /\ Spared'
  BY <1>2, <1>6, SparedStays DEF CommandInv, Owed, One
<1>9. inRecv' \in [Clients -> Clients \cup {None}]
  BY <1>2 DEF CommandInv, CommandTypeOK
<1> QED
  BY <1>2, <1>4, <1>5, <1>7, <1>8, <1>9, OwnStep

(* A free descriptor is given out while no thread is between its closes:   *)
(* none of the threads has kept its number.                                *)
LEMMA CommandOpen ==
  ASSUME CommandInv, NEW d \in Fd, fds[d] = "free", NEW what, fds' = [fds EXCEPT ![d] = what],
         BetweenCloses = {}, NEW u \in Clients
  PROVE  /\ where[u] \in Serving => fds'[sockfd[u]] = fds[sockfd[u]]
         /\ where[u] = "output" => fds'[pipefd[u]] = fds[pipefd[u]]
         /\ where[u] # "close again"
<1>1. \A g \in Fd : fds'[g] = IF g = d THEN what ELSE fds[g]
  BY DEF CommandInv, KernelInv, SocketsTypeOK
<1>2. ThreadInv(u) /\ sockfd[u] \in Fd /\ pipefd[u] \in Fd /\ u # "free"
  BY SocketsAssumption DEF CommandInv, CommandTypeOK
<1> QED
  BY <1>1, <1>2 DEF ThreadInv, BetweenCloses

LEMMA CommandAccept ==
  ASSUME CommandInv, Accept, ~raced'
  PROVE  CommandInv'
<1>1. PICK c, d : c = Head(backlog) /\ d = NewFd
  OBVIOUS
<1>2. /\ backlog # <<>> /\ FreeFds # {} /\ backlog' = Tail(backlog)
      /\ fds' = [fds EXCEPT ![d] = c] /\ sockfd' = [sockfd EXCEPT ![c] = d]
      /\ where' = [where EXCEPT ![c] = "recv"] /\ BetweenCloses = {}
      /\ UNCHANGED <<peer, asked, unread, replies, reset, alive, inRecv, pipefd, ran>>
  BY <1>1 DEF Accept, Goto, Race, Open
<1>3. /\ c \in Clients /\ Queued(c)
      /\ \A u : Queued(u)' <=> Queued(u) /\ u # c
  BY <1>1, <1>2, TailQueued DEF CommandInv
<1>4. d \in Fd /\ fds[d] = "free"
  BY <1>1, <1>2, NewFdIsFree DEF FreeFds
<1>5. AcceptOne
  BY <1>1, <1>2 DEF AcceptOne, Open
<1>6. KernelInv'
  BY <1>5, AcceptKernel DEF CommandInv
<1>7. where[c] = "none"
  <2>1. where[c] \notin Serving
    BY <1>3, ServesItsOwn
  <2>2. where[c] \notin {"close again", "done"}
    BY <1>3 DEF CommandInv, ThreadInv, Accepted
  <2> QED
    BY <1>3, <2>1, <2>2 DEF CommandInv, CommandTypeOK
<1>8. \A g \in Fd : fds'[g] = IF g = d THEN c ELSE fds[g]
  BY <1>2, <1>4 DEF CommandInv, KernelInv, SocketsTypeOK
<1>9. CommandTypeOK'
  BY <1>2, <1>3, <1>4 DEF CommandInv, CommandTypeOK, Serving
<1>10. ThreadInv(c)'
  <2>1. where'[c] = "recv" /\ sockfd'[c] = d /\ fds'[d] = c
    BY <1>2, <1>3, <1>4, <1>8 DEF CommandInv, CommandTypeOK
  <2> QED
    BY <2>1 DEF ThreadInv, Serving
<1>11. \A u \in Clients \ {c} : ThreadInv(u)'
  <2> SUFFICES ASSUME NEW u \in Clients \ {c} PROVE ThreadInv(u)'
    OBVIOUS
  <2>1. /\ where[u] \in Serving => fds'[sockfd[u]] = fds[sockfd[u]]
        /\ where[u] = "output" => fds'[pipefd[u]] = fds[pipefd[u]]
        /\ where[u] # "close again"
    BY <1>2, <1>4, CommandOpen
  <2>2. where'[u] = where[u] /\ inRecv'[u] = inRecv[u] /\ sockfd'[u] = sockfd[u] /\ pipefd'[u] = pipefd[u]
    BY <1>2 DEF CommandInv, CommandTypeOK
  <2>3. (Accepted(u)' <=> Accepted(u)) /\ (Held(u)' => Held(u)) /\ ThreadInv(u)
    BY <1>2, <1>3, <1>8 DEF Accepted, Held, CommandInv
  <2> QED
    BY <1>2, <2>1, <2>2, <2>3, ThreadStays
<1>12. Cardinality(Pipes)' = ran'
  <2>1. c # "pipe"
    BY <1>3, SocketsAssumption
  <2>2. Pipes' = Pipes
    BY <1>4, <1>8, <2>1 DEF Pipes
  <2> QED
    BY <1>2, <2>2 DEF CommandInv
<1>13. Owed(Answering)' /\ Spared'
  <2>1. Answering' = Answering
    BY <1>2, <1>7 DEF CommandInv, CommandTypeOK, Answering
  <2> QED
    BY <1>2, <2>1, SparedStays DEF CommandInv, Owed, One
<1> QED
  BY <1>6, <1>9, <1>10, <1>11, <1>12, <1>13 DEF CommandInv

LEMMA CommandPopen ==
  ASSUME CommandInv, NEW t \in Clients, Popen(t), ~raced'
  PROVE  CommandInv'
<1>1. PICK d : d = NewFd
  OBVIOUS
<1>2. /\ where[t] = "execute" /\ Cardinality(FreeFds) >= 2
      /\ fds' = [fds EXCEPT ![d] = "pipe"] /\ pipefd' = [pipefd EXCEPT ![t] = d] /\ ran' = ran + 1
      /\ where' = [where EXCEPT ![t] = "output"] /\ BetweenCloses = {}
      /\ UNCHANGED <<peer, backlog, asked, unread, replies, reset, alive, sockfd, inRecv>>
  <2>1. Open("pipe") /\ Cardinality(FreeFds) >= 2 /\ pipefd' = [pipefd EXCEPT ![t] = d]
    BY <1>1 DEF Popen
  <2>2. raced' = (raced \/ BetweenCloses # {})
    BY DEF Popen, Race
  <2> QED
    BY <1>1, <2>1, <2>2 DEF Popen, Goto, Open
<1>3. FreeFds # {}
  BY <1>2, FS_EmptySet
<1>4. d \in Fd /\ fds[d] = "free"
  BY <1>1, <1>3, NewFdIsFree DEF FreeFds
<1>5. \A g \in Fd : fds'[g] = IF g = d THEN "pipe" ELSE fds[g]
  BY <1>2, <1>4 DEF CommandInv, KernelInv, SocketsTypeOK
<1>6. "pipe" \notin Clients /\ "free" \notin Clients
  BY SocketsAssumption
<1>7. \A u \in Clients : Held(u)' <=> Held(u)
  BY <1>4, <1>5, <1>6 DEF Held
<1>8. \A u \in Clients : (Accepted(u)' <=> Accepted(u)) /\ (Queued(u)' <=> Queued(u))
  BY <1>2 DEF Accepted, Queued
<1>9. KernelInv'
  <2>1. SocketsTypeOK'
    BY <1>2 DEF CommandInv, KernelInv, SocketsTypeOK
  <2>2. d # ListenFd /\ d \notin 0 .. ListenFd - 1 /\ 0 .. ListenFd - 1 \subseteq Fd
    BY <1>4, SocketsAssumption DEF CommandInv, KernelInv, ListenFd, Fd
  <2>3. /\ \A g \in Fd : fds'[g] = "listen" <=> g = ListenFd
        /\ \A g \in 0 .. ListenFd - 1 : fds'[g] = "own"
        /\ \A g, h \in Fd : fds'[g] = fds'[h] /\ fds'[g] \in Clients => g = h
    BY <1>5, <1>6, <2>2 DEF CommandInv, KernelInv
  <2> QED
    BY <1>2, <1>7, <1>8, <2>1, <2>3 DEF CommandInv, KernelInv
<1>10. CommandTypeOK'
  <2>1. ran' \in Nat
    <3>1. ran \in Nat /\ ran' = ran + 1
      BY <1>2 DEF CommandInv, CommandTypeOK
    <3> QED
      BY <3>1
  <2> QED
    BY <1>2, <1>4, <2>1 DEF CommandInv, CommandTypeOK, Serving
<1>11. ThreadInv(t)'
  <2>1. fds'[sockfd[t]] = t /\ fds'[d] = "pipe"
    <3>1. where[t] \in Serving
      BY <1>2 DEF Serving
    <3>2. fds'[sockfd[t]] = fds[sockfd[t]]
      BY <1>2, <1>4, <3>1, CommandOpen
    <3> QED
      BY <1>4, <1>5, <3>1, <3>2 DEF CommandInv, ThreadInv
  <2>2. where'[t] = "output" /\ pipefd'[t] = d /\ sockfd' = sockfd
    BY <1>2 DEF CommandInv, CommandTypeOK
  <2> QED
    BY <2>1, <2>2 DEF ThreadInv, Serving
<1>12. \A u \in Clients \ {t} : ThreadInv(u)'
  <2> SUFFICES ASSUME NEW u \in Clients \ {t} PROVE ThreadInv(u)'
    OBVIOUS
  <2>1. /\ where[u] \in Serving => fds'[sockfd[u]] = fds[sockfd[u]]
        /\ where[u] = "output" => fds'[pipefd[u]] = fds[pipefd[u]]
        /\ where[u] # "close again"
    BY <1>2, <1>4, CommandOpen
  <2>2. where'[u] = where[u] /\ inRecv'[u] = inRecv[u] /\ sockfd'[u] = sockfd[u] /\ pipefd'[u] = pipefd[u]
    BY <1>2 DEF CommandInv, CommandTypeOK
  <2>3. ThreadInv(u)
    BY DEF CommandInv
  <2> QED
    BY <1>2, <1>7, <1>8, <2>1, <2>2, <2>3, ThreadStays
<1>13. Cardinality(Pipes)' = ran'
  <2>1. PICK S, T : S = Pipes /\ T = Pipes'
    OBVIOUS
  <2>2. T = S \cup {d} /\ d \notin S
    BY <1>4, <1>5, <2>1 DEF Pipes
  <2>3. IsFiniteSet(S)
    <3>1. IsFiniteSet(Fd)
      BY SocketsAssumption, FS_Interval DEF Fd
    <3> QED
      BY <2>1, <3>1, FS_Subset DEF Pipes
  <2>4. Cardinality(T) = Cardinality(S) + 1
    BY <2>2, <2>3, FS_AddElement
  <2> QED
    BY <1>2, <2>1, <2>4 DEF CommandInv
<1>14. Owed(Answering)' /\ Spared'
  <2>1. Answering' = Answering
    BY <1>2 DEF CommandInv, CommandTypeOK, Answering
  <2> QED
    BY <1>2, <2>1, SparedStays DEF CommandInv, Owed, One
<1> QED
  BY <1>9, <1>10, <1>11, <1>12, <1>13, <1>14 DEF CommandInv

LEMMA CommandClient ==
  ASSUME CommandInv, NEW c \in Clients, ClientStep(c),
         UNCHANGED <<alive, where, sockfd, inRecv, pipefd, ran>>
  PROVE  CommandInv'
<1>1. KernelInv' /\ fds' = fds
  BY ClientKernel DEF CommandInv, ClientStep, Connect, Request, HangUp
<1>2. \A u \in Clients : Held(u)' <=> Held(u)
  BY <1>1 DEF Held
<1>3. \A u \in Clients : ThreadInv(u) /\ (peer[u] = "closed" => peer'[u] = "closed")
  BY DEF CommandInv, KernelInv, SocketsTypeOK, ClientStep, Connect, Request, HangUp
<1>4. \A u \in Clients : Accepted(u)' <=> Accepted(u)
  <2>1. CASE Connect(c)
    <3>1. ~Queued(c) /\ \A u : Queued(u)' <=> Queued(u) \/ u = c
      BY <2>1, ConnectQueued DEF CommandInv
    <3>2. peer[c] = "away" /\ \A u \in Clients \ {c} : peer'[u] = peer[u]
      BY <2>1 DEF Connect, CommandInv, KernelInv, SocketsTypeOK
    <3> QED
      BY <3>1, <3>2 DEF Accepted
  <2>2. CASE Request(c)
    BY <2>2 DEF Request, Accepted, Queued
  <2>3. CASE HangUp(c)
    <3>1. \A u \in Clients : Queued(u)' <=> Queued(u)
      BY <2>3 DEF HangUp, Queued
    <3>2. \A u \in Clients : peer'[u] = "away" <=> peer[u] = "away"
      BY <2>3 DEF HangUp, CommandInv, KernelInv, SocketsTypeOK
    <3> QED
      BY <3>1, <3>2 DEF Accepted
  <2> QED
    BY <2>1, <2>2, <2>3 DEF ClientStep
<1>5. \A u \in Clients : ThreadInv(u)'
  BY <1>1, <1>2, <1>3, <1>4, ThreadStays
<1>6. CommandTypeOK' /\ Cardinality(Pipes)' = ran'
  BY <1>1 DEF CommandInv, CommandTypeOK, Pipes
<1>7. Owed(Answering)' /\ Spared'
  <2>1. PICK busy : busy = Answering
    OBVIOUS
  <2>2. Answering' = busy
    BY <2>1 DEF Answering
  <2>3. Owed(busy)'
    BY <2>1, ClientOwed DEF CommandInv
  <2>4. Spared'
    BY ClientLeft DEF CommandInv, Spared
  <2> QED
    BY <2>2, <2>3, <2>4, AnsweringNext
<1> QED
  BY <1>1, <1>5, <1>6, <1>7 DEF CommandInv

LEMMA InitCommandIInv == CommandInit => CommandIInv
<1> SUFFICES ASSUME CommandInit PROVE CommandInv
  BY DEF CommandIInv
<1>1. SocketsInit({})
  BY DEF CommandInit
<1>2. KernelInv /\ Owed({}) /\ Connections = {}
  BY <1>1, InitKernel
<1>3. CommandTypeOK /\ Answering = {} /\ alive
  BY SocketsAssumption DEF CommandInit, CommandTypeOK, Answering, Serving, ListenFd, Fd
<1>4. \A t \in Clients : where[t] = "none" /\ ~Accepted(t)
  BY <1>1 DEF CommandInit, Accepted, SocketsInit
<1>5. \A t \in Clients : ThreadInv(t)
  BY <1>4 DEF ThreadInv, Serving
<1>6. Cardinality(Pipes) = ran
  <2>1. Pipes = {}
    BY <1>1 DEF SocketsInit, Pipes
  <2> QED
    BY <2>1, FS_EmptySet DEF CommandInit
<1>7. Owed(Answering) /\ Spared
  BY <1>2, <1>3 DEF Spared
<1> QED
  BY <1>2, <1>3, <1>5, <1>6, <1>7 DEF CommandInv

LEMMA NextCommandIInv == CommandIInv /\ [CommandNext]_(commandVars) => CommandIInv'
<1> SUFFICES ASSUME CommandIInv, [CommandNext]_(commandVars), ~raced' PROVE CommandInv'
  BY DEF CommandIInv
<1>1. ~raced
  BY DEF CommandNext, Start, Accept, Race, Thread, Execute,
         HandlerCommand, EnterRecv, RecvCommand, RecvEnd,
         Refuse, Popen, ReadOutput, ReadStranger, Send,
         CloseInHandler, CloseInExecute, commandVars, counts
<1>2. CommandInv
  BY <1>1 DEF CommandIInv
<1>3. CASE Start
  BY <1>2, <1>3, CommandAccept DEF Start
<1>4. ASSUME NEW t \in Clients, Thread(t) PROVE CommandInv'
  BY <1>2, <1>4, CommandEnterRecv, CommandRecvCommand, CommandRecvEnd, CommandToSend, CommandPopen,
     CommandSend, CommandClose, CommandCloseAgain
     DEF Thread, Execute, HandlerCommand
<1>5. ASSUME NEW c \in Clients,
             ClientStep(c) /\ UNCHANGED <<alive, where, threads, counts>>
      PROVE  CommandInv'
  BY <1>2, <1>5, CommandClient DEF threads, counts
<1>6. CASE UNCHANGED commandVars
  <2>1. UNCHANGED <<peer, backlog, fds, asked, unread, replies, reset>>
        /\ UNCHANGED <<alive, where, sockfd, inRecv, pipefd, ran>>
    BY <1>6 DEF commandVars, sockets, threads, counts
  <2>2. KernelInv'
    BY <1>2, <2>1 DEF CommandInv, KernelInv, SocketsTypeOK, Queued, Held
  <2>3. \A t \in Clients : ThreadInv(t)'
    <3> SUFFICES ASSUME NEW t \in Clients PROVE ThreadInv(t)'
      OBVIOUS
    <3>1. ThreadInv(t) /\ (Accepted(t)' <=> Accepted(t)) /\ (Held(t)' <=> Held(t))
      BY <1>2, <2>1 DEF CommandInv, Queued, Held, Accepted
    <3> QED
      BY <2>1, <3>1, ThreadStays
  <2>4. Spared'
    BY <1>2, <2>1, SparedStays DEF CommandInv
  <2> QED
    BY <1>2, <2>1, <2>2, <2>3, <2>4 DEF CommandInv, CommandTypeOK, Answering, Pipes, Owed
<1> QED
  BY <1>3, <1>4, <1>5, <1>6 DEF CommandNext

(* However many clients come and go: as long as no descriptor is given out *)
(* between the two closes of a thread, each thread works on the connection *)
(* it was started for.                                                     *)
THEOREM CommandIInvHolds == CommandSpec => []CommandIInv
BY InitCommandIInv, NextCommandIInv, PTL DEF CommandSpec

(* What the server leaves open after its threads is at most the pipes of   *)
(* the commands that were run: a thread that has ended has closed its      *)
(* connection.                                                             *)
THEOREM OnlyPipesLeakHolds == CommandSpec => [](OnlyPipesLeak)
<1>1. CommandIInv => OnlyPipesLeak
  <2> SUFFICES ASSUME CommandInv
               PROVE  /\ Cardinality(Pipes) <= ran
                      /\ \A f \in Fd : fds[f] \in Clients => where[fds[f]] # "done"
    BY DEF CommandIInv, OnlyPipesLeak, Pipes
  <2>1. Cardinality(Pipes) = ran /\ ran \in Nat
    BY DEF CommandInv, CommandTypeOK
  <2>2. ASSUME NEW f \in Fd, fds[f] \in Clients PROVE where[fds[f]] # "done"
    <3>1. Held(fds[f]) /\ ThreadInv(fds[f])
      BY <2>2 DEF CommandInv, Held
    <3> QED
      BY <2>2, <3>1 DEF ThreadInv
  <2> QED
    BY <2>1, <2>2
<1> QED
  BY <1>1, CommandIInvHolds, PTL

(* Clients are never cut off before they quit unless a descriptor was      *)
(* given out between the two closes of a thread; and but for that, only    *)
(* one that quits with two commands or pieces unanswered brings the server *)
(* down.                                                                   *)
THEOREM OnlyTheRaceEndsEarly == CommandSpec => [](EndedEarlyOnlyByRace)
<1>1. CommandIInv => EndedEarlyOnlyByRace
  <2> SUFFICES ASSUME CommandInv
               PROVE  Spared /\ \A c \in Clients : Ended(c) => peer[c] = "closed"
    BY DEF CommandIInv, EndedEarlyOnlyByRace, EndedOnlyAfterQuit, Spared
  <2> SUFFICES ASSUME NEW c \in Clients, Accepted(c), ~Held(c) PROVE peer[c] = "closed"
    BY DEF CommandInv, Ended
  <2>1. where[c] \notin Serving
    BY ServesItsOwn
  <2>2. where[c] # "none" /\ ThreadInv(c)
    BY DEF CommandInv, ThreadInv
  <2>3. where[c] \in {"close", "close again", "done"}
    BY <2>1, <2>2 DEF CommandInv, CommandTypeOK
  <2> QED
    BY <2>2, <2>3 DEF ThreadInv
<1> QED
  BY <1>1, CommandIInvHolds, PTL
=============================================================================
