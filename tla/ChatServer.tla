----------------------------- MODULE ChatServer -----------------------------
(* NetCode/3.chatServer (and _3.test): the main thread receives datagrams, *)
(* keeps the list of online users and pushes one task per message into the *)
(* thread pool, whose workers forward the message to everyone else. Both   *)
(* take the route's mutex for the list. The pool appears here as what      *)
(* TaskPool promises, which ThreadPool is checked to keep.                 *)
EXTENDS Integers, Sequences, FiniteSets, SequencesExt, TLAPS

CONSTANTS
  Users,
  Messages, From,   \* the messages that are sent, From[m] sends m
  Quits,            \* those that say QUIT
  Workers           \* number of workers of the pool

ASSUME ChatAssumption ==
  /\ From \in [Messages -> Users] /\ Quits \subseteq Messages
  /\ Workers \in Nat \ {0}

VARIABLES
  net,         \* datagrams the server may yet receive
  at,          \* where main is: "recv", "check", "offline", "push"
  message,     \* the message main handles; any, at "recv"
  onlineUser,  \* _onlineUser
  mutex,       \* Route::_mutex: the forwarding tasks that hold it
  iter,        \* iter[m]: the position ForwardHelper(m) is at, 0 before its loop
  got,         \* got[u][m]: how often u received m
  open, pending, running, finished, refused   \* the pool

Pool == INSTANCE TaskPool WITH Tasks <- Messages, MaxRunning <- Workers

pool == <<open, pending, running, finished, refused>>
main == <<at, message>>
vars == <<net, main, onlineUser, mutex, iter, got, pool>>

Init ==
  /\ net = Messages
  /\ at = "recv" /\ message \in Messages
  /\ onlineUser = <<>> /\ mutex = {}
  /\ iter = [m \in Messages |-> 0]
  /\ got = [u \in Users |-> [m \in Messages |-> 0]]
  /\ Pool!Init

Online == ToSet(onlineUser)
who == From[message]
-----------------------------------------------------------------------------
(* Clients and network: datagrams are sent at any time, may be lost, and   *)
(* overtake each other, so a datagram counts as on its way from the start. *)
Lose(m) ==
  /\ m \in net /\ net' = net \ {m}
  /\ UNCHANGED <<main, onlineUser, mutex, iter, got, pool>>
-----------------------------------------------------------------------------
(* Main.                                                                   *)
Receive ==
  /\ at = "recv"
  /\ \E m \in net : message' = m /\ net' = net \ {m}
  /\ at' = "check"
  /\ UNCHANGED <<onlineUser, mutex, iter, got, pool>>

CheckOnlineUser ==
  /\ at = "check" /\ mutex = {}
  /\ onlineUser' = IF who \in Online THEN onlineUser ELSE Append(onlineUser, who)
  /\ at' = IF message \in Quits THEN "offline" ELSE "push"
  /\ UNCHANGED <<net, message, mutex, iter, got, pool>>

(* The list without the first entry for u, if there is one.                *)
Without(u) ==
  IF u \in Online
  THEN RemoveAt(onlineUser, CHOOSE k \in DOMAIN onlineUser :
                              onlineUser[k] = u /\ \A j \in 1 .. k - 1 : onlineUser[j] # u)
  ELSE onlineUser

(* MUTANT of Offline: the list is changed without the mutex. *)
Offline_Unlocked ==
  /\ at = "offline"
  /\ onlineUser' = Without(who)
  /\ at' = "push"
  /\ UNCHANGED <<net, message, mutex, iter, got, pool>>

Offline ==
  /\ at = "offline" /\ mutex = {}
  /\ onlineUser' = Without(who)
  /\ at' = "push"
  /\ UNCHANGED <<net, message, mutex, iter, got, pool>>

(* GetInstance opens the pool on first use. *)
GetInstance ==
  /\ at = "push" /\ Pool!Open
  /\ UNCHANGED <<net, main, onlineUser, mutex, iter, got>>

Push ==
  /\ at = "push" /\ Pool!Accept(message)
  /\ at' = "recv"
  /\ UNCHANGED <<net, message, onlineUser, mutex, iter, got>>
-----------------------------------------------------------------------------
(* The workers.                                                            *)
TakeTask ==
  /\ Pool!Begin
  /\ UNCHANGED <<net, main, onlineUser, mutex, iter, got>>

(* ForwardHelper(m) by a worker. *)
LockRoute(m) ==
  /\ m \in running /\ iter[m] = 0 /\ mutex = {}
  /\ mutex' = {m} /\ iter' = [iter EXCEPT ![m] = 1]
  /\ UNCHANGED <<net, main, onlineUser, got, pool>>

(* MUTANT of SendTo: the task refers to main's buffer instead of a copy of *)
(* the message.                                                            *)
SendTo_ByReference(m) ==
  /\ iter[m] \in 1 .. Len(onlineUser)
  /\ LET user == onlineUser[iter[m]] IN
       got' = IF user = From[m] THEN got ELSE [got EXCEPT ![user][message] = @ + 1]
  /\ iter' = [iter EXCEPT ![m] = @ + 1]
  /\ UNCHANGED <<net, main, onlineUser, mutex, pool>>

(* MUTANT of SendTo: the loop ends where it should skip the sender. *)
SendTo_BreakAtSender(m) ==
  /\ iter[m] \in 1 .. Len(onlineUser)
  /\ LET user == onlineUser[iter[m]] IN
       IF user = From[m]
       THEN got' = got /\ iter' = [iter EXCEPT ![m] = Len(onlineUser) + 1]
       ELSE got' = [got EXCEPT ![user][m] = @ + 1] /\ iter' = [iter EXCEPT ![m] = @ + 1]
  /\ UNCHANGED <<net, main, onlineUser, mutex, pool>>

SendTo(m) ==
  /\ iter[m] \in 1 .. Len(onlineUser)
  /\ LET user == onlineUser[iter[m]] IN
       got' = IF user = From[m] THEN got ELSE [got EXCEPT ![user][m] = @ + 1]
  /\ iter' = [iter EXCEPT ![m] = @ + 1]
  /\ UNCHANGED <<net, main, onlineUser, mutex, pool>>

EndForward(m) ==
  /\ iter[m] = Len(onlineUser) + 1 /\ m \in mutex
  /\ mutex' = {} /\ iter' = [iter EXCEPT ![m] = 0]
  /\ Pool!Finish(m)
  /\ UNCHANGED <<net, main, onlineUser, got>>
-----------------------------------------------------------------------------
Forward == CheckOnlineUser \/ Offline \/ GetInstance \/ Push
Main == Receive \/ Forward
ForwardHelper(m) == LockRoute(m) \/ SendTo(m) \/ EndForward(m)

Next ==
  \/ Main \/ TakeTask
  \/ \E m \in Messages : Lose(m) \/ ForwardHelper(m)

Spec == Init /\ [][Next]_vars

(* Every thread is scheduled; the clients and the network owe nothing. The *)
(* messages are finitely many, so who waits for the mutex finds it free.   *)
FairSpec ==
  /\ Spec
  /\ WF_vars(Main) /\ WF_vars(TakeTask)
  /\ \A m \in Messages : WF_vars(ForwardHelper(m))
-----------------------------------------------------------------------------
(* Nobody receives a message twice or hears himself, whatever messages are *)
(* received and forwarded at the same time, and nobody is listed twice.    *)
AtMostOnce ==
  /\ IsInjective(onlineUser)
  /\ \A u \in Users, m \in Messages : got[u][m] <= IF From[m] = u THEN 0 ELSE 1

(* A worker forwards to one unchanging list: nobody joins or leaves it     *)
(* between the first user and the last.                                    *)
ListStandsStill == [][(\E m \in Messages : iter[m] > 0) => UNCHANGED onlineUser]_vars

(* A message that is pushed reaches every other user who is on the list    *)
(* and stays there.                                                        *)
Delivered ==
  \A m \in Messages : \A u \in Users \ {From[m]} :
    at = "push" /\ message = m /\ u \in Online ~> got[u][m] > 0 \/ u \notin Online
-----------------------------------------------------------------------------
(* Whoever is between the first user and the last holds the route's mutex, *)
(* alone, and has reached nobody but those it has passed, each once. What  *)
(* waits in the pool has not been forwarded, and is not forwarded again.   *)
TypeOK ==
  /\ net \subseteq Messages /\ message \in Messages
  /\ onlineUser \in Seq(Users)
  /\ iter \in [Messages -> Nat]
  /\ got \in [Users -> [Messages -> Nat]]
  /\ pending \in Seq(Messages) /\ running \subseteq Messages /\ finished \subseteq Messages

PoolInv ==
  /\ \A k, l \in DOMAIN pending : pending[k] = pending[l] => k = l
  /\ \A k \in DOMAIN pending : pending[k] \notin running \cup finished
  /\ running \cap finished = {}

Passed(m, u) == \E k \in DOMAIN onlineUser : k < iter[m] /\ onlineUser[k] = u

ForwardInv(m) ==
  /\ iter[m] > 0 => mutex = {m} /\ m \in running
  /\ m \notin finished /\ iter[m] = 0 => \A u \in Users : got[u][m] = 0
  /\ iter[m] > 0 => \A u \in Users : got[u][m] > 0 => Passed(m, u)
  /\ \A u \in Users : got[u][m] <= IF From[m] = u THEN 0 ELSE 1

ChatInv ==
  /\ TypeOK
  /\ PoolInv
  /\ IsInjective(onlineUser)
  /\ \A m \in Messages : ForwardInv(m)

LEMMA RemoveAtInjective ==
  ASSUME NEW S, NEW s \in Seq(S), NEW k \in DOMAIN s, IsInjective(s)
  PROVE  RemoveAt(s, k) \in Seq(S) /\ IsInjective(RemoveAt(s, k))
<1> DEFINE t == RemoveAt(s, k)
<1>1. Len(s) \in Nat /\ DOMAIN s = 1 .. Len(s) /\ k \in 1 .. Len(s)
  OBVIOUS
<1>2. t \in Seq(S) /\ Len(t) = Len(s) - 1
  BY <1>1 DEF RemoveAt
<1>3. \A j \in 1 .. Len(s) - 1 : t[j] = IF j < k THEN s[j] ELSE s[j + 1]
  <2> DEFINE a == SubSeq(s, 1, k - 1)
             b == SubSeq(s, k + 1, Len(s))
  <2>1. a \in Seq(S) /\ Len(a) = k - 1 /\ \A j \in 1 .. k - 1 : a[j] = s[j]
    BY <1>1
  <2>2. b \in Seq(S) /\ Len(b) = Len(s) - k /\ \A j \in 1 .. Len(s) - k : b[j] = s[k + j]
    BY <1>1
  <2>3. t = a \o b
    BY DEF RemoveAt
  <2> HIDE DEF a, b, t
  <2> SUFFICES ASSUME NEW j \in 1 .. Len(s) - 1 PROVE t[j] = IF j < k THEN s[j] ELSE s[j + 1]
    OBVIOUS
  <2>4. CASE j < k
    <3>1. j \in 1 .. k - 1
      BY <1>1, <2>4
    <3> QED
      BY <2>1, <2>2, <2>3, <2>4, <3>1
  <2>5. CASE ~(j < k)
    <3>1. j - (k - 1) \in 1 .. Len(s) - k /\ k + (j - (k - 1)) = j + 1
      BY <1>1, <2>5
    <3>2. t[j] = b[j - (k - 1)]
      BY <1>1, <2>1, <2>2, <2>3, <2>5
    <3> QED
      BY <2>2, <2>5, <3>1, <3>2
  <2> QED
    BY <2>4, <2>5
<1>4. DOMAIN t = 1 .. Len(s) - 1
  BY <1>1, <1>2
<1> HIDE DEF t
<1>5. ASSUME NEW a \in DOMAIN t, NEW b \in DOMAIN t, t[a] = t[b] PROVE a = b
  <2> DEFINE p(j) == IF j < k THEN j ELSE j + 1
  <2>1. /\ p(a) \in DOMAIN s /\ p(b) \in DOMAIN s /\ t[a] = s[p(a)] /\ t[b] = s[p(b)]
        /\ a \in Int /\ b \in Int /\ k \in Int
    BY <1>1, <1>3, <1>4
  <2>2. p(a) = p(b)
    BY <1>5, <2>1 DEF IsInjective
  <2> QED
    BY <2>1, <2>2
<1>6. IsInjective(t)
  BY <1>5 DEF IsInjective
<1> QED
  BY <1>2, <1>6 DEF t

LEMMA WithoutInjective ==
  ASSUME onlineUser \in Seq(Users), IsInjective(onlineUser), NEW u
  PROVE  Without(u) \in Seq(Users) /\ IsInjective(Without(u))
<1> DEFINE Q(k) == onlineUser[k] = u /\ \A j \in 1 .. k - 1 : onlineUser[j] # u
<1>1. CASE u \in Online
  <2>1. PICK k \in DOMAIN onlineUser : onlineUser[k] = u
    BY <1>1 DEF Online, ToSet
  <2>2. Q(k)
    <3>1. \A j \in 1 .. k - 1 : j \in DOMAIN onlineUser /\ j # k
      OBVIOUS
    <3> QED
      BY <2>1, <3>1 DEF IsInjective
  <2>3. (CHOOSE l \in DOMAIN onlineUser : Q(l)) \in DOMAIN onlineUser
    BY <2>2
  <2>4. Without(u) = RemoveAt(onlineUser, CHOOSE l \in DOMAIN onlineUser : Q(l))
    BY <1>1 DEF Without
  <2> QED
    BY <2>3, <2>4, RemoveAtInjective
<1>2. CASE u \notin Online
  BY <1>2 DEF Without
<1> QED
  BY <1>1, <1>2

LEMMA AppendNew ==
  ASSUME NEW S, NEW s \in Seq(S), IsInjective(s), NEW u \in S, u \notin ToSet(s)
  PROVE  Append(s, u) \in Seq(S) /\ IsInjective(Append(s, u))
<1> DEFINE t == Append(s, u)
<1>1. /\ t \in Seq(S) /\ Len(s) \in Nat /\ DOMAIN s = 1 .. Len(s)
      /\ DOMAIN t = 1 .. Len(s) + 1 /\ t[Len(s) + 1] = u
      /\ \A k \in DOMAIN s : t[k] = s[k]
  OBVIOUS
<1> HIDE DEF t
<1>2. \A k \in DOMAIN s : s[k] # u
  BY DEF ToSet
<1>3. \A k \in DOMAIN t : k \in DOMAIN s \/ k = Len(s) + 1
  BY <1>1
<1>4. IsInjective(t)
  BY <1>1, <1>2, <1>3 DEF IsInjective
<1> QED
  BY <1>1, <1>4 DEF t

(* A step that leaves the tasks where they are and what was received.      *)
LEMMA ForwardsStay ==
  ASSUME ChatInv, UNCHANGED <<iter, got, pool>>,
         onlineUser' \in Seq(Users), IsInjective(onlineUser'), message' \in Messages, net' \subseteq net,
         mutex' = mutex, mutex = {} \/ onlineUser' = onlineUser
  PROVE  ChatInv'
<1> USE DEF ChatInv, pool
<1>1. TypeOK' /\ PoolInv'
  BY DEF TypeOK, PoolInv
<1>2. \A m \in Messages : ForwardInv(m)'
  <2> SUFFICES ASSUME NEW m \in Messages PROVE ForwardInv(m)'
    OBVIOUS
  <2>1. ForwardInv(m) /\ (iter[m] > 0 => onlineUser' = onlineUser)
    BY DEF ForwardInv
  <2> QED
    BY <2>1 DEF ForwardInv, Passed
<1> QED
  BY <1>1, <1>2

LEMMA ChatPush ==
  ASSUME ChatInv, Push
  PROVE  ChatInv'
<1> USE DEF ChatInv
<1>1. /\ message \notin Pool!Seen /\ pending' = Append(pending, message)
      /\ UNCHANGED <<net, message, running, finished, onlineUser, mutex, iter, got>>
  BY DEF Push, Pool!Accept
<1>2. /\ pending \in Seq(Messages) /\ message \in Messages /\ DOMAIN pending = 1 .. Len(pending)
      /\ Len(pending) \in Nat
  BY DEF TypeOK
<1>3. /\ pending' \in Seq(Messages) /\ DOMAIN pending' = 1 .. Len(pending) + 1
      /\ pending'[Len(pending) + 1] = message
      /\ \A k \in DOMAIN pending : pending'[k] = pending[k]
  BY <1>1, <1>2
<1>4. message \notin running \cup finished /\ \A k \in DOMAIN pending : pending[k] # message
  BY <1>1 DEF Pool!Seen
<1>5. PoolInv'
  BY <1>1, <1>2, <1>3, <1>4 DEF PoolInv
<1>6. TypeOK' /\ \A m \in Messages : ForwardInv(m)'
  BY <1>1, <1>3 DEF TypeOK, ForwardInv, Passed
<1> QED
  BY <1>1, <1>5, <1>6

LEMMA ChatTakeTask ==
  ASSUME ChatInv, TakeTask
  PROVE  ChatInv'
<1> USE DEF ChatInv
<1>1. PICK m : m = Head(pending)
  OBVIOUS
<1>2. /\ pending # <<>> /\ running' = running \cup {m} /\ pending' = Tail(pending)
      /\ UNCHANGED <<net, message, finished, onlineUser, mutex, iter, got>>
  BY <1>1 DEF TakeTask, Pool!Begin, main
<1>3. /\ pending \in Seq(Messages) /\ DOMAIN pending = 1 .. Len(pending) /\ Len(pending) \in Nat \ {0}
  BY <1>2 DEF TypeOK
<1>4. /\ pending' \in Seq(Messages) /\ DOMAIN pending' = 1 .. Len(pending) - 1
      /\ \A k \in DOMAIN pending' : pending'[k] = pending[k + 1]
      /\ m = pending[1] /\ m \in Messages
  BY <1>1, <1>2, <1>3
<1>5. \A k \in DOMAIN pending' : k + 1 \in DOMAIN pending /\ k + 1 # 1 /\ k \in Int
  BY <1>3, <1>4
<1>6. 1 \in DOMAIN pending /\ m \notin running \cup finished
  BY <1>3, <1>4 DEF PoolInv
<1>7. \A k \in DOMAIN pending' : pending'[k] \notin running' \cup finished'
  <2> SUFFICES ASSUME NEW k \in DOMAIN pending' PROVE pending'[k] \notin running' \cup finished'
    OBVIOUS
  <2>1. pending[k + 1] \notin running \cup finished /\ pending[k + 1] # pending[1]
    BY <1>5, <1>6 DEF PoolInv
  <2> QED
    BY <1>2, <1>4, <2>1
<1>8. \A k, l \in DOMAIN pending' : pending'[k] = pending'[l] => k = l
  <2> SUFFICES ASSUME NEW k \in DOMAIN pending', NEW l \in DOMAIN pending', pending'[k] = pending'[l]
               PROVE  k = l
    OBVIOUS
  <2>1. k + 1 = l + 1
    BY <1>4, <1>5 DEF PoolInv
  <2> QED
    BY <1>5, <2>1
<1>9. PoolInv'
  BY <1>2, <1>6, <1>7, <1>8 DEF PoolInv
<1>10. TypeOK' /\ \A k \in Messages : ForwardInv(k)'
  BY <1>2, <1>4 DEF TypeOK, ForwardInv, Passed
<1> QED
  BY <1>2, <1>9, <1>10

LEMMA ChatLockRoute ==
  ASSUME ChatInv, NEW m \in Messages, LockRoute(m)
  PROVE  ChatInv'
<1> USE DEF ChatInv
<1>1. /\ m \in running /\ iter[m] = 0 /\ mutex = {} /\ mutex' = {m} /\ iter' = [iter EXCEPT ![m] = 1]
      /\ UNCHANGED <<net, message, onlineUser, got, pending, running, finished>>
  BY DEF LockRoute, pool, main
<1>2. TypeOK' /\ PoolInv'
  BY <1>1 DEF TypeOK, PoolInv
<1>3. \A k \in Messages : iter'[k] = IF k = m THEN 1 ELSE iter[k]
  BY <1>1 DEF TypeOK
<1>4. \A k \in Messages : iter[k] = 0
  BY <1>1 DEF ForwardInv, TypeOK
<1>5. m \notin finished /\ \A u \in Users : got[u][m] = 0
  BY <1>1 DEF PoolInv, ForwardInv
<1>6. \A k \in Messages : ForwardInv(k)'
  BY <1>1, <1>3, <1>4, <1>5 DEF ForwardInv
<1> QED
  BY <1>1, <1>2, <1>6

(* The user at the position has not been passed before, for he is listed   *)
(* once: he has not received the message yet.                              *)
LEMMA ChatSendTo ==
  ASSUME ChatInv, NEW m \in Messages, SendTo(m)
  PROVE  ChatInv'
<1> USE DEF ChatInv
<1>1. PICK p, user : p = iter[m] /\ user = onlineUser[p]
  OBVIOUS
<1>2. /\ p \in 1 .. Len(onlineUser) /\ iter' = [iter EXCEPT ![m] = p + 1]
      /\ got' = IF user = From[m] THEN got ELSE [got EXCEPT ![user][m] = @ + 1]
      /\ UNCHANGED <<net, message, onlineUser, mutex, pending, running, finished>>
  BY <1>1 DEF SendTo, pool, main
<1>3. p \in DOMAIN onlineUser /\ p \in Nat \ {0} /\ user \in Users
  BY <1>1, <1>2 DEF TypeOK
<1>4. ForwardInv(m) /\ iter[m] > 0 /\ iter'[m] = p + 1 /\ \A k \in Messages \ {m} : iter'[k] = iter[k]
  BY <1>1, <1>2, <1>3 DEF TypeOK
<1>5. m \in running /\ m \notin finished
  BY <1>4 DEF ForwardInv, PoolInv
<1>6. ~Passed(m, user)
  BY <1>1, <1>3 DEF Passed, IsInjective, TypeOK
<1>7. got[user][m] = 0
  BY <1>3, <1>4, <1>6 DEF ForwardInv, TypeOK
<1>8. \A u \in Users, k \in Messages :
        got'[u][k] = IF u = user /\ k = m /\ user # From[m] THEN 1 ELSE got[u][k]
  <2>1. CASE user = From[m]
    BY <1>2, <2>1
  <2>2. CASE user # From[m]
    <3>1. got' = [got EXCEPT ![user] = [got[user] EXCEPT ![m] = got[user][m] + 1]]
      BY <1>2, <2>2
    <3>2. \A u \in Users : got'[u] = IF u = user THEN [got[user] EXCEPT ![m] = 1] ELSE got[u]
      BY <1>3, <1>7, <3>1 DEF TypeOK
    <3>3. got[user] \in [Messages -> Nat]
      BY <1>3 DEF TypeOK
    <3>4. \A k \in Messages : [got[user] EXCEPT ![m] = 1][k] = IF k = m THEN 1 ELSE got[user][k]
      BY <3>3
    <3> QED
      BY <2>2, <3>2, <3>4
  <2> QED
    BY <2>1, <2>2
<1>9. TypeOK'
  <2>1. got' \in [Users -> [Messages -> Nat]]
    BY <1>2, <1>3, <1>7 DEF TypeOK
  <2>2. iter' \in [Messages -> Nat]
    BY <1>2, <1>3 DEF TypeOK
  <2> QED
    BY <1>2, <2>1, <2>2 DEF TypeOK
<1>10. PoolInv'
  BY <1>2 DEF PoolInv
<1>11. ForwardInv(m)'
  <2>1. \A u \in Users : got'[u][m] > 0 => Passed(m, u)'
    <3> SUFFICES ASSUME NEW u \in Users, got'[u][m] > 0 PROVE Passed(m, u)'
      OBVIOUS
    <3>1. CASE u = user
      BY <1>1, <1>2, <1>3, <1>4, <3>1 DEF Passed
    <3>2. CASE u # user
      <4>1. PICK k \in DOMAIN onlineUser : k < p /\ onlineUser[k] = u
        BY <1>1, <1>4, <1>8, <3>2 DEF ForwardInv, Passed
      <4>2. k < p + 1
        BY <1>3, <4>1 DEF TypeOK
      <4> QED
        BY <1>2, <1>4, <4>1, <4>2 DEF Passed
    <3> QED
      BY <3>1, <3>2
  <2>2. \A u \in Users : got'[u][m] <= IF From[m] = u THEN 0 ELSE 1
    BY <1>4, <1>8 DEF ForwardInv
  <2>3. iter'[m] # 0
    BY <1>3, <1>4
  <2> QED
    BY <1>2, <1>4, <2>1, <2>2, <2>3 DEF ForwardInv
<1>12. \A k \in Messages \ {m} : ForwardInv(k)'
  BY <1>2, <1>4, <1>8 DEF ForwardInv, Passed
<1> QED
  BY <1>2, <1>9, <1>10, <1>11, <1>12

LEMMA ChatEndForward ==
  ASSUME ChatInv, NEW m \in Messages, EndForward(m)
  PROVE  ChatInv'
<1> USE DEF ChatInv
<1>1. /\ iter[m] = Len(onlineUser) + 1 /\ mutex' = {} /\ iter' = [iter EXCEPT ![m] = 0]
      /\ m \in running /\ running' = running \ {m} /\ finished' = finished \cup {m}
      /\ UNCHANGED <<net, message, onlineUser, got, pending>>
  BY DEF EndForward, Pool!Finish, main
<1>2. TypeOK'
  BY <1>1 DEF TypeOK
<1>3. PoolInv'
  BY <1>1 DEF PoolInv
<1>4. iter[m] > 0
  BY <1>1 DEF TypeOK
<1>5. \A k \in Messages \ {m} : ~(iter[k] > 0)
  BY <1>4 DEF ForwardInv
<1>6. \A k \in Messages : iter'[k] = IF k = m THEN 0 ELSE iter[k]
  BY <1>1 DEF TypeOK
<1>7. \A k \in Messages : ForwardInv(k)'
  BY <1>1, <1>5, <1>6 DEF ForwardInv
<1> QED
  BY <1>1, <1>2, <1>3, <1>7

LEMMA InitChatInv == Init => ChatInv
<1> SUFFICES ASSUME Init PROVE ChatInv
  OBVIOUS
<1>1. TypeOK /\ PoolInv
  BY DEF Init, TypeOK, PoolInv, Pool!Init
<1>2. IsInjective(onlineUser)
  BY DEF Init, IsInjective
<1>3. \A m \in Messages : ForwardInv(m)
  BY DEF Init, ForwardInv
<1> QED
  BY <1>1, <1>2, <1>3 DEF ChatInv

LEMMA NextChatInv == ChatInv /\ [Next]_vars => ChatInv'
<1> SUFFICES ASSUME ChatInv, [Next]_vars PROVE ChatInv'
  OBVIOUS
<1>1. onlineUser \in Seq(Users) /\ IsInjective(onlineUser) /\ message \in Messages /\ who \in Users
  BY ChatAssumption DEF ChatInv, TypeOK, who
<1>2. CASE Receive
  <2>1. message' \in Messages /\ net' \subseteq net
    BY <1>2 DEF Receive, ChatInv, TypeOK
  <2> QED
    BY <1>1, <1>2, <2>1, ForwardsStay DEF Receive
<1>3. CASE CheckOnlineUser
  <2>1. onlineUser' \in Seq(Users) /\ IsInjective(onlineUser')
    <3>1. CASE who \in Online
      BY <1>1, <1>3, <3>1 DEF CheckOnlineUser
    <3>2. CASE who \notin Online
      <4>1. onlineUser' = Append(onlineUser, who) /\ who \notin ToSet(onlineUser)
        BY <1>3, <3>2 DEF CheckOnlineUser, Online
      <4> QED
        BY <1>1, <4>1, AppendNew
    <3> QED
      BY <3>1, <3>2
  <2> QED
    BY <1>1, <1>3, <2>1, ForwardsStay DEF CheckOnlineUser
<1>4. CASE Offline
  <2>1. onlineUser' \in Seq(Users) /\ IsInjective(onlineUser')
    BY <1>1, <1>4, WithoutInjective DEF Offline
  <2> QED
    BY <1>1, <1>4, <2>1, ForwardsStay DEF Offline
<1>5. CASE GetInstance
  <2>1. UNCHANGED <<net, message, onlineUser, mutex, iter, got, pending, running, finished>>
    BY <1>5 DEF GetInstance, Pool!Open, main
  <2> QED
    BY <2>1 DEF ChatInv, TypeOK, PoolInv, ForwardInv, Passed
<1>6. CASE Push
  BY <1>6, ChatPush
<1>7. CASE TakeTask
  BY <1>7, ChatTakeTask
<1>8. ASSUME NEW m \in Messages, Lose(m) PROVE ChatInv'
  BY <1>1, <1>8, ForwardsStay DEF Lose, main
<1>9. ASSUME NEW m \in Messages, ForwardHelper(m) PROVE ChatInv'
  BY <1>9, ChatLockRoute, ChatSendTo, ChatEndForward DEF ForwardHelper
<1>10. CASE UNCHANGED vars
  BY <1>1, <1>10, ForwardsStay DEF vars, main
<1> QED
  BY <1>2, <1>3, <1>4, <1>5, <1>6, <1>7, <1>8, <1>9, <1>10 DEF Next, Main, Forward

THEOREM ChatInvariant == Spec => []ChatInv
BY InitChatInv, NextChatInv, PTL DEF Spec

(* However many users talk at the same time and however many workers       *)
(* forward: nobody is listed twice, and nobody receives a message twice or *)
(* his own.                                                                *)
THEOREM NobodyHearsTwice == Spec => []AtMostOnce
<1>1. ChatInv => AtMostOnce
  BY DEF ChatInv, ForwardInv, AtMostOnce
<1> QED
  BY <1>1, ChatInvariant, PTL

(* The list of users does not change while a worker walks it, however many *)
(* workers and messages there are: who changes it finds the mutex free.    *)
THEOREM WorkersSeeOneList == Spec => ListStandsStill
<1>1. ChatInv /\ [Next]_vars => [(\E m \in Messages : iter[m] > 0) => UNCHANGED onlineUser]_vars
  <2> SUFFICES ASSUME ChatInv, Next, NEW w \in Messages, iter[w] > 0
               PROVE  UNCHANGED onlineUser
    BY DEF vars
  <2>1. mutex # {}
    BY DEF ChatInv, ForwardInv
  <2>2. CASE Main
    BY <2>1, <2>2 DEF Main, Receive, Forward, CheckOnlineUser, Offline, GetInstance, Push
  <2>3. CASE TakeTask
    BY <2>3 DEF TakeTask
  <2>4. ASSUME NEW m \in Messages, Lose(m) \/ ForwardHelper(m) PROVE UNCHANGED onlineUser
    BY <2>4 DEF Lose, ForwardHelper, LockRoute, SendTo, EndForward
  <2> QED
    BY <2>2, <2>3, <2>4 DEF Next
<1> QED
  BY <1>1, ChatInvariant, PTL DEF Spec, ListStandsStill
=============================================================================
