------------------------- MODULE WorldSessions_proofs -------------------------
(***************************************************************************)
(* Proofs about WorldSessions for all sessions, accounts and limits: the   *)
(* types, that no session is reached after it was deleted, and that the    *)
(* queue holds live sessions that wait.                                    *)
(***************************************************************************)
EXTENDS WorldSessions, DataFacts, TLAPS

\* A session is listed under its own account.
OwnAccount ==
  \A a \in Account : m_sessions[a] # NoSession => AccountOf[m_sessions[a]] = a

\* Before it is listed a session has begun nothing.
Fresh ==
  \A s \in Session :
    place[s] \in {"new", "submitted"} => phase[s] = "no" /\ player[s] = "none"

\* UpdateSessions visits listed sessions, each once.
Control ==
  /\ toVisit \subseteq Listed
  /\ world \in {"packets", "callbacks", "cleanup"} =>
       cur \in Session /\ m_sessions[AccountOf[cur]] = cur /\ AccountOf[cur] \notin toVisit

IInv == TypeOK /\ SessionsAreOwned /\ QueueIsLive /\ OwnAccount /\ Fresh /\ Control

-----------------------------------------------------------------------------
(* The queue *)

\* Erasing one element of a sequence without duplicates.
LEMMA RemoveAtIs ==
  ASSUME NEW q \in Seq(Session), IsInjective(q), NEW i \in 1..Len(q)
  PROVE  /\ RemoveAt(q, i) \in Seq(Session)
         /\ IsInjective(RemoveAt(q, i))
         /\ Range(RemoveAt(q, i)) = Range(q) \ {q[i]}
<1> DEFINE r == RemoveAt(q, i)
           n == Len(q)
           at(k) == IF k < i THEN k ELSE k + 1
<1>1. /\ r \in Seq(Session) /\ Len(r) = n - 1
      /\ \A k \in 1..(n - 1) : at(k) \in 1..n /\ r[k] = q[at(k)]
  <2> DEFINE front == SubSeq(q, 1, i - 1)
             back == SubSeq(q, i + 1, n)
  <2>1. n \in Nat /\ i \in 1..n
    OBVIOUS
  <2>2. /\ front \in Seq(Session) /\ Len(front) = i - 1
        /\ \A k \in 1..(i - 1) : front[k] = q[k]
    BY <2>1
  <2>3. /\ back \in Seq(Session) /\ Len(back) = n - i
        /\ \A k \in 1..(n - i) : back[k] = q[i + k]
    BY <2>1
  <2>4. r = front \o back
    BY DEF RemoveAt
  <2> HIDE DEF front, back, r
  <2>4a. ASSUME NEW f \in Seq(Session), NEW b \in Seq(Session)
        PROVE  /\ f \o b \in Seq(Session) /\ Len(f \o b) = Len(f) + Len(b)
               /\ \A k \in 1..(Len(f) + Len(b)) :
                    (f \o b)[k] = IF k <= Len(f) THEN f[k] ELSE b[k - Len(f)]
    OBVIOUS
  <2>5. /\ r \in Seq(Session) /\ Len(r) = Len(front) + Len(back)
        /\ \A k \in 1..(Len(front) + Len(back)) :
             r[k] = IF k <= Len(front) THEN front[k] ELSE back[k - Len(front)]
    BY <2>2, <2>3, <2>4, <2>4a, Zenon
  <2>6. Len(r) = n - 1
    BY <2>1, <2>2, <2>3, <2>5
  <2>7. ASSUME NEW k \in 1..(n - 1)
        PROVE  at(k) \in 1..n /\ r[k] = q[at(k)]
    <3>1. CASE k < i
      <4>1. k \in 1..(i - 1) /\ k \in 1..(Len(front) + Len(back)) /\ k <= Len(front)
        BY <3>1, <2>1, <2>2, <2>3
      <4>2. r[k] = front[k]
        BY <4>1, <2>5
      <4> QED  BY <3>1, <4>1, <4>2, <2>1, <2>2
    <3>2. CASE k >= i
      <4>1. k - (i - 1) \in 1..(n - i) /\ k \in 1..(Len(front) + Len(back)) /\ ~(k <= Len(front))
        BY <3>2, <2>1, <2>2, <2>3
      <4>2. r[k] = back[k - (i - 1)]
        BY <4>1, <2>2, <2>5
      <4>3. r[k] = q[i + (k - (i - 1))]
        BY <4>1, <4>2, <2>3
      <4> QED  BY <3>2, <4>3, <2>1
    <3> QED  BY <3>1, <3>2, <2>1
  <2> QED  BY <2>5, <2>6, <2>7
<1>2. \A j, k \in 1..n : q[j] = q[k] => j = k
  BY DEF IsInjective
<1>3. IsInjective(r)
  <2> SUFFICES ASSUME NEW j \in 1..(n - 1), NEW k \in 1..(n - 1), r[j] = r[k]
               PROVE  j = k
    BY <1>1 DEF IsInjective
  <2>1. at(j) = at(k)
    BY <1>1, <1>2
  <2> QED  BY <2>1
<1>4. Range(r) \subseteq Range(q) \ {q[i]}
  <2> SUFFICES ASSUME NEW k \in 1..(n - 1)
               PROVE  r[k] \in Range(q) /\ r[k] # q[i]
    BY <1>1 DEF Range
  <2>1. at(k) \in 1..n /\ r[k] = q[at(k)] /\ at(k) # i
    BY <1>1
  <2> QED  BY <2>1, <1>2 DEF Range
<1>5. Range(q) \ {q[i]} \subseteq Range(r)
  <2> SUFFICES ASSUME NEW j \in 1..n, j # i
               PROVE  q[j] \in Range(r)
    BY DEF Range
  <2>1. CASE j < i
    <3>1. j \in 1..(n - 1) /\ at(j) = j
      BY <2>1
    <3> QED  BY <3>1, <1>1 DEF Range
  <2>2. CASE j > i
    <3>1. j - 1 \in 1..(n - 1) /\ at(j - 1) = j
      BY <2>2
    <3>2. r[j - 1] = q[j] /\ j - 1 \in DOMAIN r
      BY <3>1, <1>1
    <3> HIDE DEF r
    <3> QED  BY <3>2 DEF Range
  <2> QED  BY <2>1, <2>2
<1> QED  BY <1>1, <1>3, <1>4, <1>5

\* A session taken off the queue, and nobody else.
LEMMA WithoutIs ==
  ASSUME NEW q \in Seq(Session), IsInjective(q), NEW s
  PROVE  /\ Without(q, s) \in Seq(Session) /\ IsInjective(Without(q, s))
         /\ Range(Without(q, s)) = Range(q) \ {s}
<1>1. CASE s \in Range(q)
  <2>1. PICK n \in 1..Len(q) : q[n] = s
    BY <1>1 DEF Range
  <2>2. Position(q, s) \in 1..Len(q) /\ q[Position(q, s)] = s
    BY <2>1 DEF Position
  <2> QED  BY <1>1, <2>2, RemoveAtIs DEF Without
<1>2. CASE s \notin Range(q)
  BY <1>2 DEF Without
<1> QED  BY <1>1, <1>2

\* RemoveQueuedPlayer may pop one more session, and adds none.
LEMMA RemoveQueuedIs ==
  ASSUME NEW q \in Seq(Session), IsInjective(q), NEW s
  PROVE  /\ RemoveQueued(q, s) \in Seq(Session) /\ IsInjective(RemoveQueued(q, s))
         /\ Range(RemoveQueued(q, s)) \subseteq Range(q) \ {s}
<1> DEFINE rest == Without(q, s)
<1>1. rest \in Seq(Session) /\ IsInjective(rest) /\ Range(rest) = Range(q) \ {s}
  BY WithoutIs
<1>2. rest # <<>> => /\ Tail(rest) \in Seq(Session) /\ IsInjective(Tail(rest))
                     /\ Range(Tail(rest)) \subseteq Range(rest)
  <2> HIDE DEF rest
  <2> QED  BY <1>1, RangeTail, InjectiveTail
<1>3. RemoveQueued(q, s) \in {rest, Tail(rest)}
      /\ (RemoveQueued(q, s) # rest => rest # <<>>)
  BY DEF RemoveQueued, Pop
<1> QED
  <2> HIDE DEF rest
  <2> QED  BY <1>1, <1>2, <1>3
-----------------------------------------------------------------------------
(* The initial states *)

\* The invariant holds before anybody has connected.
LEMMA Initially == Init => IInv
<1> SUFFICES ASSUME Init PROVE IInv
  OBVIOUS
<1> USE SessionAssumption
<1>1. TypeOK
  <2>1. <<>> \in Seq(Session)
    OBVIOUS
  <2>2. [s \in Session |-> Linger] \in [Session -> 0..Linger]
    OBVIOUS
  <2>3. m_disconnects \in [Account -> {Never} \cup 0..MaxTime] /\ now \in 0..MaxTime
    BY DEF Init
  <2>4. m_sessions \in [Account -> Session \cup {NoSession}]
    BY DEF Init
  <2> QED  BY <2>1, <2>2, <2>3, <2>4 DEF Init, TypeOK
<1>2. SessionsAreOwned
  BY EmptySequence DEF Init, SessionsAreOwned
<1>3. QueueIsLive
  BY EmptySequence DEF Init, QueueIsLive, Queued
<1>4. OwnAccount /\ Fresh /\ Control
  BY DEF Init, OwnAccount, Fresh, Control
<1> QED  BY <1>1, <1>2, <1>3, <1>4 DEF IInv
-----------------------------------------------------------------------------
(* Steps that leave the lists alone *)

\* The other parts of the invariant follow from what they read.
LEMMA ControlKeeps ==
  ASSUME IInv, TypeOK', Control',
         UNCHANGED <<place, m_inQueue, phase, player, addSessQueue, m_sessions, m_QueuedPlayer>>
  PROVE  IInv'
<1>1. SessionsAreOwned'
  BY DEF IInv, SessionsAreOwned
<1>2. QueueIsLive'
  BY DEF IInv, QueueIsLive, Queued
<1>3. OwnAccount' /\ Fresh'
  BY DEF IInv, OwnAccount, Fresh
<1> QED  BY <1>1, <1>2, <1>3 DEF IInv

\* Sockets, limits and time are not what the invariant is about.
LEMMA ElsewhereKeeps ==
  ASSUME IInv, TypeOK',
         UNCHANGED <<place, m_inQueue, phase, player, addSessQueue, m_sessions,
                     m_QueuedPlayer, thread>>
  PROVE  IInv'
<1>1. Control'
  BY DEF IInv, Control, Listed, thread
<1> QED  BY <1>1, ControlKeeps

\* A network thread hands a session over.
LEMMA SubmitKeeps ==
  ASSUME IInv, NEW s \in Session, AddSession(s)
  PROVE  IInv'
<1> USE SessionAssumption
<1>1. /\ Range(addSessQueue') = Range(addSessQueue) \cup {s}
      /\ IsInjective(addSessQueue') /\ addSessQueue' \in Seq(Session)
  <2>1. s \notin Range(addSessQueue) /\ addSessQueue \in Seq(Session) /\ IsInjective(addSessQueue)
    BY DEF IInv, SessionsAreOwned, AddSession, TypeOK
  <2> QED  BY <2>1, RangeAppend, InjectiveAppend DEF AddSession
<1>2. place' = [place EXCEPT ![s] = "submitted"] /\ place[s] = "new"
  BY DEF AddSession
<1>3. TypeOK'
  <2>1. place' \in [Session -> {"new", "submitted", "listed", "deleted"}]
    BY <1>2 DEF IInv, TypeOK
  <2>2. open' \in [Session -> BOOLEAN]
    BY DEF IInv, TypeOK, AddSession
  <2> QED  BY <1>1, <2>1, <2>2 DEF IInv, TypeOK, AddSession, thread
<1>4. SessionsAreOwned'
  BY <1>1, <1>2 DEF IInv, TypeOK, SessionsAreOwned, AddSession
<1>5. QueueIsLive'
  BY DEF IInv, QueueIsLive, Queued, AddSession
<1>6. OwnAccount' /\ Control'
  BY DEF IInv, OwnAccount, Control, Listed, AddSession, thread
<1>7. Fresh'
  BY <1>2 DEF IInv, TypeOK, Fresh, AddSession
<1> QED  BY <1>3, <1>4, <1>5, <1>6, <1>7 DEF IInv
-----------------------------------------------------------------------------
(* AddSession_ *)

\* What every step of adding knows of the session handed over.
LEMMA NewcomerIs ==
  ASSUME IInv, addSessQueue # <<>>, NEW s, s = Head(addSessQueue)
  PROVE  /\ s \in Session /\ place[s] = "submitted" /\ AccountOf[s] \in Account
         /\ Tail(addSessQueue) \in Seq(Session) /\ IsInjective(Tail(addSessQueue))
         /\ Range(addSessQueue) = Range(Tail(addSessQueue)) \cup {s}
         /\ s \notin Range(Tail(addSessQueue))
         /\ s \notin Queued /\ phase[s] = "no" /\ player[s] = "none"
<1> USE SessionAssumption
<1>1. addSessQueue \in Seq(Session) /\ IsInjective(addSessQueue)
  BY DEF IInv, TypeOK, SessionsAreOwned
<1>2. /\ s \in Session
      /\ Tail(addSessQueue) \in Seq(Session) /\ IsInjective(Tail(addSessQueue))
      /\ Range(addSessQueue) = Range(Tail(addSessQueue)) \cup {s}
      /\ s \notin Range(Tail(addSessQueue))
  BY <1>1, RangeTail, InjectiveTail
<1>3. place[s] = "submitted"
  BY <1>2 DEF IInv, SessionsAreOwned
<1>4. phase[s] = "no" /\ player[s] = "none"
  BY <1>2, <1>3 DEF IInv, Fresh
<1>5. Queued \subseteq Session
  BY RangeType DEF IInv, TypeOK, Queued
<1>6. s \notin Queued
  BY <1>2, <1>3, <1>5 DEF IInv, QueueIsLive, SessionsAreOwned
<1> QED  BY <1>2, <1>3, <1>4, <1>6

\* The session the newcomer replaces is listed under his account alone.
LEMMA ReplacedIs ==
  ASSUME IInv, NEW a \in Account, m_sessions[a] # NoSession
  PROVE  /\ m_sessions[a] \in Session /\ place[m_sessions[a]] = "listed"
         /\ m_sessions[a] \notin Range(addSessQueue)
         /\ AccountOf[m_sessions[a]] = a
<1>1. m_sessions[a] \in Session /\ AccountOf[m_sessions[a]] = a
  BY DEF IInv, TypeOK, OwnAccount
<1>2. place[m_sessions[a]] = "listed"
  BY <1>1 DEF IInv, SessionsAreOwned
<1> QED  BY <1>1, <1>2 DEF IInv, SessionsAreOwned

\* What is deleted, and what is not, keeps its type.
LEMMA DeletedTypes ==
  ASSUME TypeOK, NEW S, Deleted(S)
  PROVE  /\ open' \in [Session -> BOOLEAN] /\ forceExit' \in [Session -> BOOLEAN]
         /\ lingering' \in [Session -> 0..Linger]
         /\ player' \in [Session -> {"none", "chars", "loading", "refused", "in"}]
         /\ \A s \in Session : s \notin S => player'[s] = player[s]
<1> USE SessionAssumption
<1>1. open' \in [Session -> BOOLEAN] /\ forceExit' \in [Session -> BOOLEAN]
  BY DEF Deleted
<1>2. lingering' \in [Session -> 0..Linger]
  BY DEF Deleted, TypeOK
<1>3. /\ player' \in [Session -> {"none", "chars", "loading", "refused", "in"}]
      /\ \A s \in Session : s \notin S => player'[s] = player[s]
  BY DEF Deleted, TypeOK
<1> QED  BY <1>1, <1>2, <1>3

\* A session is refused and deleted.
LEMMA RejectKeeps ==
  ASSUME IInv, RejectSession
  PROVE  IInv'
<1> DEFINE s == Head(addSessQueue)
<1>1. /\ s \in Session /\ place[s] = "submitted"
      /\ Tail(addSessQueue) \in Seq(Session) /\ IsInjective(Tail(addSessQueue))
      /\ Range(addSessQueue) = Range(Tail(addSessQueue)) \cup {s}
      /\ s \notin Range(Tail(addSessQueue)) /\ s \notin Queued
  BY NewcomerIs DEF RejectSession
<1>2. /\ addSessQueue' = Tail(addSessQueue)
      /\ place' = [place EXCEPT ![s] = "deleted"] /\ Deleted({s})
      /\ UNCHANGED <<m_inQueue, phase, m_sessions, m_QueuedPlayer, m_disconnects,
                     m_playerLimit, thread, stage, now>>
  BY DEF RejectSession
<1> HIDE DEF s
<1>3. TypeOK'
  <2>1. place' \in [Session -> {"new", "submitted", "listed", "deleted"}]
    BY <1>2 DEF IInv, TypeOK
  <2> QED  BY <2>1, <1>1, <1>2, DeletedTypes DEF IInv, TypeOK, thread
<1>4. SessionsAreOwned'
  BY <1>1, <1>2 DEF IInv, TypeOK, SessionsAreOwned
<1>5. \A x \in Session : x # s => player'[x] = player[x]
  BY <1>2, DeletedTypes DEF IInv
<1>6. QueueIsLive'
  <2>1. Queued \subseteq Session
    BY RangeType DEF IInv, TypeOK, Queued
  <2> QED  BY <2>1, <1>1, <1>2, <1>5 DEF IInv, QueueIsLive, Queued
<1>7. OwnAccount' /\ Control'
  BY <1>2 DEF IInv, OwnAccount, Control, Listed, thread
<1>8. Fresh'
  BY <1>1, <1>2, <1>5 DEF IInv, TypeOK, Fresh
<1> QED  BY <1>3, <1>4, <1>6, <1>7, <1>8 DEF IInv

\* Of the queue, the replaced session is gone, and nobody has come.
LEMMA QueueWithoutIs ==
  ASSUME IInv, NEW old
  PROVE  /\ QueueWithout(old) \in Seq(Session) /\ IsInjective(QueueWithout(old))
         /\ Range(QueueWithout(old)) \subseteq Queued \ {old}
<1> USE SessionAssumption
<1>1. m_QueuedPlayer \in Seq(Session) /\ IsInjective(m_QueuedPlayer)
  BY DEF IInv, TypeOK, QueueIsLive
<1>2. NoSession \notin Queued
  BY <1>1, RangeType DEF Queued
<1> QED  BY <1>1, <1>2, RemoveQueuedIs DEF QueueWithout, Queued

\* A session is added in the place of the one its account had, or as its first.
LEMMA AddKeeps ==
  ASSUME IInv, AddSession_
  PROVE  IInv'
<1> DEFINE s == Head(addSessQueue)
           a == AccountOf[s]
           old == m_sessions[a]
           queue == QueueWithout(old)
           popped == Range(m_QueuedPlayer) \ (Range(queue) \cup {old})
           waits == Full(a, old) /\ a \notin Privileged /\ ~RecentlyDisconnected(a)
<1> USE SessionAssumption
<1>1. /\ s \in Session /\ place[s] = "submitted" /\ a \in Account
      /\ Tail(addSessQueue) \in Seq(Session) /\ IsInjective(Tail(addSessQueue))
      /\ Range(addSessQueue) = Range(Tail(addSessQueue)) \cup {s}
      /\ s \notin Range(Tail(addSessQueue)) /\ s \notin Queued
      /\ phase[s] = "no" /\ player[s] = "none"
  BY NewcomerIs DEF AddSession_
<1>2. /\ world = "add"
      /\ addSessQueue' = Tail(addSessQueue)
      /\ m_sessions' = [m_sessions EXCEPT ![a] = s]
      /\ place' = [x \in Session |->
                     IF x = s THEN "listed" ELSE IF x = old THEN "deleted" ELSE place[x]]
      /\ Deleted({old})
      /\ m_QueuedPlayer' = IF waits THEN Append(queue, s) ELSE queue
      /\ m_inQueue' = [x \in Session |-> IF x = s THEN waits ELSE x # old /\ m_inQueue[x]]
      /\ phase' = Initialized(IF waits THEN popped ELSE popped \cup {s}, old)
      /\ UNCHANGED <<m_disconnects, m_playerLimit, thread, stage, now>>
  BY DEF AddSession_
<1>3. /\ queue \in Seq(Session) /\ IsInjective(queue) /\ Range(queue) \subseteq Queued \ {old}
  BY QueueWithoutIs
<1>4. old # NoSession => /\ old \in Session /\ place[old] = "listed"
                         /\ old \notin Range(addSessQueue) /\ AccountOf[old] = a
  BY <1>1, ReplacedIs
<1>5. old # s
  BY <1>1, <1>4
<1>6. Queued \subseteq Session /\ popped \subseteq Queued
      /\ \A x \in Queued : /\ m_sessions[AccountOf[x]] = x /\ place[x] = "listed"
                           /\ m_inQueue[x] /\ phase[x] = "no" /\ player[x] = "none"
  <2>1. Queued \subseteq Session
    BY RangeType DEF IInv, TypeOK, Queued
  <2> QED  BY <2>1 DEF IInv, QueueIsLive, SessionsAreOwned, Queued
<1>7. waits \in BOOLEAN
  BY Zenon
<1>8. \A x \in Range(queue) : x \notin popped
  OBVIOUS
<1>9. m_sessions \in [Account -> Session \cup {NoSession}]
  BY DEF IInv, TypeOK
<1> HIDE DEF s, a, queue, popped, waits
<1>10. /\ m_QueuedPlayer' \in Seq(Session) /\ IsInjective(m_QueuedPlayer')
       /\ Queued' = IF waits THEN Range(queue) \cup {s} ELSE Range(queue)
  <2>1. CASE waits
    BY <2>1, <1>1, <1>2, <1>3, RangeAppend, InjectiveAppend DEF Queued
  <2>2. CASE ~waits
    BY <2>2, <1>2, <1>3 DEF Queued
  <2> QED  BY <2>1, <2>2
<1>11. /\ \A x \in Session : x # old => player'[x] = player[x]
       /\ \A x \in Session :
            phase'[x] = IF x \in popped \/ (x = s /\ ~waits) THEN "begun"
                        ELSE IF x = old THEN "no" ELSE phase[x]
  <2>1. \A x \in Session : x # old => player'[x] = player[x]
    BY <1>2, DeletedTypes DEF IInv
  <2> QED  BY <2>1, <1>2 DEF Initialized
<1>12. TypeOK'
  <2>1. place' \in [Session -> {"new", "submitted", "listed", "deleted"}]
    BY <1>2 DEF IInv, TypeOK
  <2>2. m_inQueue' \in [Session -> BOOLEAN]
    <3>1. \A x \in Session : m_inQueue[x] \in BOOLEAN
      BY DEF IInv, TypeOK
    <3> QED  BY <3>1, <1>2, <1>7, Zenon
  <2>3. phase' \in [Session -> {"no", "begun", "done"}]
    BY <1>2 DEF IInv, TypeOK, Initialized
  <2>4. m_sessions' \in [Account -> Session \cup {NoSession}]
    BY <1>1, <1>2, <1>9
  <2>5. /\ open' \in [Session -> BOOLEAN] /\ forceExit' \in [Session -> BOOLEAN]
        /\ lingering' \in [Session -> 0..Linger]
        /\ player' \in [Session -> {"none", "chars", "loading", "refused", "in"}]
    BY <1>2, DeletedTypes DEF IInv
  <2>6. addSessQueue' \in Seq(Session)
    BY <1>1, <1>2
  <2> QED  BY <2>1, <2>2, <2>3, <2>4, <2>5, <2>6, <1>2, <1>10 DEF IInv, TypeOK, thread
<1>13. SessionsAreOwned'
  <2>1. ASSUME NEW x \in Session
        PROVE  place'[x] = "listed" <=> m_sessions'[AccountOf[x]] = x
    <3>1. place[x] = "listed" <=> m_sessions[AccountOf[x]] = x
      BY DEF IInv, SessionsAreOwned
    <3>2. AccountOf[x] \in Account
      OBVIOUS
    <3>3. m_sessions'[AccountOf[x]] = IF AccountOf[x] = a THEN s ELSE m_sessions[AccountOf[x]]
      BY <1>2, <1>9, <3>2
    <3>4. CASE x = s
      BY <3>4, <3>3, <1>2 DEF a
    <3>5. CASE x # s /\ x = old
      BY <3>5, <3>3, <1>2, <1>4
    <3>6. CASE x # s /\ x # old
      BY <3>6, <3>1, <3>3, <1>2
    <3> QED  BY <3>4, <3>5, <3>6
  <2>2. ASSUME NEW x \in Session
        PROVE  place'[x] = "submitted" <=> x \in Range(addSessQueue')
    <3>1. place[x] = "submitted" <=> x \in Range(addSessQueue)
      BY DEF IInv, SessionsAreOwned
    <3>2. NoSession # x
      OBVIOUS
    <3> QED  BY <3>1, <3>2, <1>1, <1>2, <1>4
  <2> QED  BY <2>1, <2>2, <1>1, <1>2 DEF SessionsAreOwned
<1>14. QueueIsLive'
  <2>1. ASSUME NEW x \in Range(queue)
        PROVE  /\ m_sessions'[AccountOf[x]] = x
               /\ m_inQueue'[x] /\ phase'[x] = "no" /\ player'[x] = "none"
    <3>1. x \in Queued /\ x # old /\ x \in Session /\ x # s /\ x \notin popped
      BY <1>1, <1>3, <1>6, <1>8
    <3>2. AccountOf[x] # a
      BY <3>1, <1>6
    <3> QED  BY <3>1, <3>2, <1>2, <1>6, <1>9, <1>11
  <2>2. /\ m_sessions'[AccountOf[s]] = s /\ player'[s] = "none"
        /\ waits => m_inQueue'[s] /\ phase'[s] = "no"
    <3>1. s \notin popped
      BY <1>1, <1>6
    <3> QED  BY <3>1, <1>1, <1>2, <1>5, <1>9, <1>11 DEF a
  <2> QED  BY <2>1, <2>2, <1>10 DEF QueueIsLive
<1>15. OwnAccount'
  BY <1>1, <1>2, <1>9 DEF IInv, OwnAccount, a
<1>16. Fresh'
  <2> SUFFICES ASSUME NEW x \in Session, place'[x] \in {"new", "submitted"}
               PROVE  phase'[x] = "no" /\ player'[x] = "none"
    BY DEF Fresh
  <2>1. x # s /\ x # old /\ place[x] \in {"new", "submitted"}
    BY <1>2
  <2>2. x \notin popped
    BY <2>1, <1>6
  <2> QED  BY <2>1, <2>2, <1>11 DEF IInv, Fresh
<1>17. Control'
  <2>1. Listed \subseteq Listed'
    BY <1>1, <1>2, <1>9 DEF Listed
  <2> QED  BY <2>1, <1>2 DEF IInv, Control, thread
<1> QED  BY <1>12, <1>13, <1>14, <1>15, <1>16, <1>17 DEF IInv
-----------------------------------------------------------------------------
(* Updating the sessions *)

\* Steps that only move the world's thread on, from one part of the update to
\* the next.
LEMMA MovingOnKeeps ==
  ASSUME IInv,
         \/ BeginUpdateSessions \/ AddDone \/ OtherPackets \/ KeepSession \/ UpdateDone
         \/ \E a \in Account, silent \in BOOLEAN : Visit(a, silent)
  PROVE  IInv'
<1> USE SessionAssumption
<1>1. CASE BeginUpdateSessions
  <2>1. TypeOK'
    BY <1>1 DEF IInv, TypeOK, BeginUpdateSessions, session, lists
  <2>2. Control'
    BY <1>1 DEF IInv, Control, Listed, BeginUpdateSessions, session, lists
  <2> QED  BY <1>1, <2>1, <2>2, ControlKeeps DEF BeginUpdateSessions, session, lists
<1>2. CASE AddDone
  <2>1. TypeOK'
    BY <1>2 DEF IInv, TypeOK, Listed, AddDone, session, lists
  <2>2. Control'
    BY <1>2 DEF IInv, Control, Listed, AddDone, session, lists
  <2> QED  BY <1>2, <2>1, <2>2, ControlKeeps DEF AddDone, session, lists
<1>3. CASE OtherPackets
  <2>1. TypeOK'
    BY <1>3 DEF IInv, TypeOK, OtherPackets, session, lists
  <2>2. Control'
    BY <1>3 DEF IInv, Control, Listed, OtherPackets, session, lists
  <2> QED  BY <1>3, <2>1, <2>2, ControlKeeps DEF OtherPackets, session, lists
<1>4. CASE KeepSession
  <2>1. lingering' \in [Session -> 0..Linger]
    <3>1. lingering \in [Session -> 0..Linger]
      BY DEF IInv, TypeOK
    <3> DEFINE less == [lingering EXCEPT ![cur] = IF @ > 0 THEN @ - 1 ELSE 0]
    <3>2. less \in [Session -> 0..Linger]
      <4>1. \A n \in 0..Linger : n > 0 => n - 1 \in 0..Linger
        OBVIOUS
      <4>2. 0 \in 0..Linger
        OBVIOUS
      <4>3. ASSUME NEW l \in 0..Linger
            PROVE  (IF l > 0 THEN l - 1 ELSE 0) \in 0..Linger
        BY <4>1, <4>2
      <4> QED  BY <3>1, <4>3
    <3>3. lingering' = IF open[cur] THEN lingering ELSE less
      BY <1>4 DEF KeepSession
    <3> HIDE DEF less
    <3> QED  BY <3>1, <3>2, <3>3
  <2>2. TypeOK'
    BY <1>4, <2>1 DEF IInv, TypeOK, KeepSession, lists
  <2>3. Control'
    BY <1>4 DEF IInv, Control, Listed, KeepSession, lists
  <2> QED  BY <1>4, <2>2, <2>3, ControlKeeps DEF KeepSession, lists
<1>5. CASE UpdateDone
  <2>1. TypeOK'
    BY <1>5 DEF IInv, TypeOK, UpdateDone, session, lists
  <2>2. Control'
    BY <1>5 DEF IInv, Control, Listed, UpdateDone, session, lists
  <2> QED  BY <1>5, <2>1, <2>2, ControlKeeps DEF UpdateDone, session, lists
<1>6. ASSUME NEW a \in Account, NEW silent \in BOOLEAN, Visit(a, silent)
      PROVE  IInv'
  <2>1. /\ m_sessions[a] \in Session /\ AccountOf[m_sessions[a]] = a
        /\ a \in toVisit
    BY <1>6, ReplacedIs DEF IInv, Control, Listed, Visit
  <2>2. open' \in [Session -> BOOLEAN]
    <3>1. open \in [Session -> BOOLEAN]
      BY DEF IInv, TypeOK
    <3>2. [open EXCEPT ![m_sessions[a]] = FALSE] \in [Session -> BOOLEAN]
      BY <3>1
    <3> QED  BY <1>6, <3>1, <3>2 DEF Visit
  <2>3. TypeOK'
    BY <1>6, <2>1, <2>2 DEF IInv, TypeOK, Visit, lists
  <2>4. Control'
    BY <1>6, <2>1 DEF IInv, Control, Listed, Visit, lists
  <2> QED  BY <1>6, <2>3, <2>4, ControlKeeps DEF Visit, lists
<1> QED  BY <1>1, <1>2, <1>3, <1>4, <1>5, <1>6

\* What a session that does not wait in the queue goes through while it is
\* visited concerns nobody else.
LEMMA VisitedKeeps ==
  ASSUME IInv, TypeOK', world \in {"packets", "callbacks", "cleanup"}, cur \notin Queued,
         UNCHANGED <<place, addSessQueue, m_sessions, m_QueuedPlayer, toVisit, cur>>,
         \A x \in Session : x # cur => /\ m_inQueue'[x] = m_inQueue[x]
                                       /\ phase'[x] = phase[x] /\ player'[x] = player[x]
  PROVE  IInv'
<1>1. /\ cur \in Session /\ m_sessions[AccountOf[cur]] = cur /\ AccountOf[cur] \notin toVisit
      /\ place[cur] = "listed"
  BY DEF IInv, Control, SessionsAreOwned
<1>2. SessionsAreOwned' /\ OwnAccount'
  BY DEF IInv, SessionsAreOwned, OwnAccount
<1>3. QueueIsLive'
  <2>1. Queued \subseteq Session
    BY RangeType DEF IInv, TypeOK, Queued
  <2> QED  BY <2>1 DEF IInv, QueueIsLive, Queued
<1>4. Fresh'
  BY <1>1 DEF IInv, Fresh
<1>5. Control'
  BY <1>1 DEF IInv, Control, Listed
<1> QED  BY <1>2, <1>3, <1>4, <1>5 DEF IInv

\* A session that is kicked keeps its type.
LEMMA KickTypes ==
  ASSUME TypeOK, NEW s, Kick(s)
  PROVE  open' \in [Session -> BOOLEAN] /\ forceExit' \in [Session -> BOOLEAN]
BY DEF TypeOK, Kick

\* The packets of a session: its character is asked for only by one that does
\* not wait.
LEMMA LoginKeeps ==
  ASSUME IInv, NEW legit \in BOOLEAN, PlayerLogin(legit)
  PROVE  IInv'
<1>1. /\ world = "packets" /\ world' = "callbacks" /\ ~m_inQueue[cur]
      /\ UNCHANGED <<place, lingering, m_inQueue, phase, lists, m_playerLimit,
                     toVisit, cur, stage, now>>
  BY DEF PlayerLogin, Handled
<1>2. cur \notin Queued
  BY <1>1 DEF IInv, QueueIsLive
<1>3. open' \in [Session -> BOOLEAN] /\ forceExit' \in [Session -> BOOLEAN]
  <2>1. Kick(cur) \/ UNCHANGED <<open, forceExit>>
    BY DEF PlayerLogin
  <2> QED  BY <2>1, KickTypes DEF IInv, TypeOK
<1>4. /\ player' \in [Session -> {"none", "chars", "loading", "refused", "in"}]
      /\ \A x \in Session : x # cur => player'[x] = player[x]
  <2>1. \/ player' = player \/ player' = [player EXCEPT ![cur] = "loading"]
        \/ player' = [player EXCEPT ![cur] = "refused"]
    BY DEF PlayerLogin
  <2> QED  BY <2>1 DEF IInv, TypeOK
<1>5. TypeOK'
  BY <1>1, <1>3, <1>4 DEF IInv, TypeOK, lists
<1> QED  BY <1>1, <1>2, <1>4, <1>5, VisitedKeeps DEF lists

\* The results that have come for a session.
LEMMA CallbacksKeep ==
  ASSUME IInv, NEW done \in SUBSET {"init", "enum", "login", "failed"},
         ProcessQueryCallbacks(done)
  PROVE  IInv'
<1>1. /\ world = "callbacks" /\ world' = "cleanup"
      /\ "init" \in done => phase[cur] = "begun"
      /\ "enum" \in done => player[cur] = "none" /\ ~m_inQueue[cur]
      /\ {"login", "failed"} \cap done # {} => player[cur] = "loading"
      /\ UNCHANGED <<place, lingering, lists, m_playerLimit, toVisit, cur, stage, now>>
  BY DEF ProcessQueryCallbacks
<1>2. CASE done = {}
  <2>1. UNCHANGED <<phase, m_inQueue, player, open, forceExit>>
    BY <1>2 DEF ProcessQueryCallbacks
  <2>2. TypeOK'
    BY <1>1, <2>1 DEF IInv, TypeOK, lists
  <2>3. Control'
    BY <1>1 DEF IInv, Control, Listed, lists
  <2> QED  BY <1>1, <2>1, <2>2, <2>3, ControlKeeps DEF lists
<1>3. CASE done # {}
  <2>1. cur \notin Queued
    BY <1>1, <1>3 DEF IInv, QueueIsLive
  <2>2. /\ phase' \in [Session -> {"no", "begun", "done"}]
        /\ m_inQueue' \in [Session -> BOOLEAN]
        /\ \A x \in Session : x # cur => phase'[x] = phase[x] /\ m_inQueue'[x] = m_inQueue[x]
    <3>1. \/ UNCHANGED <<phase, m_inQueue>>
          \/ /\ phase' = [phase EXCEPT ![cur] = "done"]
             /\ m_inQueue' = [m_inQueue EXCEPT ![cur] = FALSE]
      BY DEF ProcessQueryCallbacks
    <3>2. phase \in [Session -> {"no", "begun", "done"}] /\ m_inQueue \in [Session -> BOOLEAN]
      BY DEF IInv, TypeOK
    <3> QED  BY <3>1, <3>2
  <2>3. /\ player' \in [Session -> {"none", "chars", "loading", "refused", "in"}]
        /\ \A x \in Session : x # cur => player'[x] = player[x]
    <3>1. \/ player' = player \/ player' = [player EXCEPT ![cur] = "chars"]
          \/ player' = [player EXCEPT ![cur] = "in"]
      BY DEF ProcessQueryCallbacks
    <3> QED  BY <3>1 DEF IInv, TypeOK
  <2>4. open' \in [Session -> BOOLEAN] /\ forceExit' \in [Session -> BOOLEAN]
    <3>1. Kick(cur) \/ UNCHANGED <<open, forceExit>>
      BY DEF ProcessQueryCallbacks
    <3> QED  BY <3>1, KickTypes DEF IInv, TypeOK
  <2>5. TypeOK'
    BY <1>1, <2>2, <2>3, <2>4 DEF IInv, TypeOK, lists
  <2> QED  BY <1>1, <2>1, <2>2, <2>3, <2>5, VisitedKeeps DEF lists
<1> QED  BY <1>2, <1>3

\* A player who is in the world does not wait.
LEMMA LogoutKeeps ==
  ASSUME IInv, LogoutPlayer
  PROVE  IInv'
<1>1. cur \notin Queued
  BY DEF IInv, QueueIsLive, LogoutPlayer
<1>2. TypeOK'
  BY DEF IInv, TypeOK, LogoutPlayer, lists, thread
<1>3. \A x \in Session : x # cur => player'[x] = player[x]
  BY DEF IInv, TypeOK, LogoutPlayer
<1> QED  BY <1>1, <1>2, <1>3, VisitedKeeps DEF LogoutPlayer, lists, thread

\* A session that is over leaves the queue, though it may hold no place there,
\* the list and the world.
LEMMA RemoveKeeps ==
  ASSUME IInv, RemoveOver
  PROVE  IInv'
<1> DEFINE a == AccountOf[cur]
           queue == QueueAfter(cur)
           popped == Range(m_QueuedPlayer) \ (Range(queue) \cup {cur})
<1> USE SessionAssumption
<1>1. /\ world = "cleanup" /\ world' = "next" /\ cur' = NoSession
      /\ m_QueuedPlayer' = queue
      /\ phase' = Initialized(popped, cur)
      /\ m_inQueue' = [m_inQueue EXCEPT ![cur] = FALSE]
      /\ m_disconnects' = m_disconnects \/ m_disconnects' = [m_disconnects EXCEPT ![a] = now]
      /\ m_sessions' = [m_sessions EXCEPT ![a] = NoSession]
      /\ place' = [place EXCEPT ![cur] = "deleted"]
      /\ Deleted({cur})
      /\ UNCHANGED <<addSessQueue, m_playerLimit, toVisit, stage, now>>
  BY DEF RemoveOver, Erase, DisconnectTime
<1>2. /\ cur \in Session /\ m_sessions[a] = cur /\ a \notin toVisit /\ toVisit \subseteq Listed
      /\ place[cur] = "listed" /\ cur \notin Range(addSessQueue) /\ a \in Account
  BY <1>1 DEF IInv, Control, SessionsAreOwned
<1>3. /\ queue \in Seq(Session) /\ IsInjective(queue) /\ Range(queue) \subseteq Queued \ {cur}
  <2>1. m_QueuedPlayer \in Seq(Session) /\ IsInjective(m_QueuedPlayer)
    BY DEF IInv, TypeOK, QueueIsLive
  <2> DEFINE once == RemoveQueued(m_QueuedPlayer, cur)
  <2>2. once \in Seq(Session) /\ IsInjective(once) /\ Range(once) \subseteq Queued \ {cur}
    BY <2>1, RemoveQueuedIs DEF Queued
  <2>3. queue = RemoveQueued(once, cur)
    BY DEF QueueAfter
  <2> HIDE DEF once, queue
  <2> QED  BY <2>2, <2>3, RemoveQueuedIs
<1>4. popped \subseteq Queued /\ \A x \in Range(queue) : x \notin popped
  BY DEF Queued
<1>5. Queued \subseteq Session
      /\ \A x \in Queued : /\ m_sessions[AccountOf[x]] = x /\ place[x] = "listed"
                           /\ m_inQueue[x] /\ phase[x] = "no" /\ player[x] = "none"
  <2>1. Queued \subseteq Session
    BY RangeType DEF IInv, TypeOK, Queued
  <2> QED  BY <2>1 DEF IInv, QueueIsLive, SessionsAreOwned, Queued
<1>6. m_sessions \in [Account -> Session \cup {NoSession}]
  BY DEF IInv, TypeOK
<1> HIDE DEF a, queue, popped
<1>7. /\ \A x \in Session : x # cur => player'[x] = player[x]
      /\ \A x \in Session : phase'[x] = IF x \in popped THEN "begun"
                                        ELSE IF x = cur THEN "no" ELSE phase[x]
  <2>1. \A x \in Session : x # cur => player'[x] = player[x]
    BY <1>1, DeletedTypes DEF IInv
  <2> QED  BY <2>1, <1>1 DEF Initialized
<1>8. TypeOK'
  <2>1. place' \in [Session -> {"new", "submitted", "listed", "deleted"}]
    BY <1>1 DEF IInv, TypeOK
  <2>2. m_inQueue' \in [Session -> BOOLEAN]
    BY <1>1 DEF IInv, TypeOK
  <2>3. phase' \in [Session -> {"no", "begun", "done"}]
    BY <1>1 DEF IInv, TypeOK, Initialized
  <2>4. m_sessions' \in [Account -> Session \cup {NoSession}]
    BY <1>1, <1>6
  <2>5. /\ open' \in [Session -> BOOLEAN] /\ forceExit' \in [Session -> BOOLEAN]
        /\ lingering' \in [Session -> 0..Linger]
        /\ player' \in [Session -> {"none", "chars", "loading", "refused", "in"}]
    BY <1>1, DeletedTypes DEF IInv
  <2>6. m_disconnects' \in [Account -> {Never} \cup 0..MaxTime]
    BY <1>1 DEF IInv, TypeOK
  <2>7. m_QueuedPlayer' \in Seq(Session)
    BY <1>1, <1>3
  <2> QED  BY <2>1, <2>2, <2>3, <2>4, <2>5, <2>6, <2>7, <1>1 DEF IInv, TypeOK
<1>9. SessionsAreOwned'
  <2>1. ASSUME NEW x \in Session
        PROVE  /\ place'[x] = "listed" <=> m_sessions'[AccountOf[x]] = x
               /\ place'[x] = "submitted" <=> x \in Range(addSessQueue')
    <3>1. /\ place[x] = "listed" <=> m_sessions[AccountOf[x]] = x
          /\ place[x] = "submitted" <=> x \in Range(addSessQueue)
          /\ place'[x] = IF x = cur THEN "deleted" ELSE place[x]
      BY <1>1 DEF IInv, SessionsAreOwned, TypeOK
    <3>2. m_sessions'[AccountOf[x]] = IF AccountOf[x] = a THEN NoSession ELSE m_sessions[AccountOf[x]]
      BY <1>1, <1>6
    <3>3. NoSession # x
      OBVIOUS
    <3>4. CASE x = cur
      BY <3>1, <3>2, <3>3, <3>4, <1>1, <1>2 DEF a
    <3>5. CASE x # cur
      BY <3>1, <3>2, <3>3, <3>5, <1>1, <1>2
    <3> QED  BY <3>4, <3>5
  <2> QED  BY <2>1, <1>1 DEF IInv, SessionsAreOwned
<1>10. QueueIsLive'
  <2>1. ASSUME NEW x \in Range(queue)
        PROVE  /\ m_sessions'[AccountOf[x]] = x
               /\ m_inQueue'[x] /\ phase'[x] = "no" /\ player'[x] = "none"
    <3>1. x \in Queued /\ x # cur /\ x \in Session /\ x \notin popped
      BY <1>3, <1>4, <1>5
    <3>2. AccountOf[x] # a
      BY <3>1, <1>2, <1>5
    <3>3. m_inQueue'[x]
      BY <3>1, <1>1, <1>5 DEF IInv, TypeOK
    <3> QED  BY <3>1, <3>2, <3>3, <1>1, <1>5, <1>6, <1>7
  <2> QED  BY <2>1, <1>1, <1>3 DEF QueueIsLive, Queued
<1>11. OwnAccount'
  BY <1>1, <1>6 DEF IInv, OwnAccount
<1>12. Fresh'
  <2> SUFFICES ASSUME NEW x \in Session, place'[x] \in {"new", "submitted"}
               PROVE  phase'[x] = "no" /\ player'[x] = "none"
    BY DEF Fresh
  <2>1. x # cur /\ place[x] \in {"new", "submitted"}
    BY <1>1 DEF IInv, TypeOK
  <2>2. x \notin popped
    BY <2>1, <1>4, <1>5
  <2> QED  BY <2>1, <2>2, <1>7 DEF IInv, Fresh
<1>13. Control'
  BY <1>1, <1>2, <1>6 DEF Control, Listed
<1> QED  BY <1>8, <1>9, <1>10, <1>11, <1>12, <1>13 DEF IInv
-----------------------------------------------------------------------------
(* Sockets, time, commands *)

\* Closing sockets, also all at the end when the queue is emptied, kicking, a
\* new limit and the clock.
LEMMA OutsideKeeps ==
  ASSUME IInv,
         \/ \E s \in Session : CloseSocket(s) \/ KickPlayer(s)
         \/ Tick \/ \E n \in Limits : SetPlayerAmountLimit(n)
  PROVE  IInv'
<1> USE SessionAssumption
<1>1. ASSUME NEW s \in Session, CloseSocket(s)
      PROVE  IInv'
  <2>1. TypeOK'
    BY <1>1 DEF IInv, TypeOK, CloseSocket, lists, thread
  <2> QED  BY <1>1, <2>1, ElsewhereKeeps DEF CloseSocket, lists
<1>2. ASSUME NEW s \in Session, KickPlayer(s)
      PROVE  IInv'
  <2>1. open' \in [Session -> BOOLEAN] /\ forceExit' \in [Session -> BOOLEAN]
    BY <1>2, KickTypes DEF IInv, KickPlayer
  <2>2. TypeOK'
    BY <1>2, <2>1 DEF IInv, TypeOK, KickPlayer, lists, thread
  <2> QED  BY <1>2, <2>2, ElsewhereKeeps DEF KickPlayer, lists
<1>3. CASE Tick
  <2>1. now' \in 0..MaxTime
    BY <1>3 DEF IInv, TypeOK, Tick
  <2>2. TypeOK'
    BY <1>3, <2>1 DEF IInv, TypeOK, Tick, session, lists, thread
  <2> QED  BY <1>3, <2>2, ElsewhereKeeps DEF Tick, session, lists
<1>4. ASSUME NEW n \in Limits, SetPlayerAmountLimit(n)
      PROVE  IInv'
  <2>1. TypeOK'
    BY <1>4 DEF IInv, TypeOK, SetPlayerAmountLimit, session, lists, thread
  <2> QED  BY <1>4, <2>1, ElsewhereKeeps DEF SetPlayerAmountLimit, session, lists
<1> QED  BY <1>1, <1>2, <1>3, <1>4

\* The end of everything empties the queue.
LEMMA KickAllKeeps ==
  ASSUME IInv, KickAll
  PROVE  IInv'
<1>1. TypeOK'
  <2>1. <<>> \in Seq(Session)
    OBVIOUS
  <2>2. open' \in [Session -> BOOLEAN] /\ forceExit' \in [Session -> BOOLEAN]
    <3>1. open' \in [Session -> BOOLEAN]
      BY DEF IInv, TypeOK, KickAll, KickEach
    <3>2. forceExit' \in [Session -> BOOLEAN]
      BY DEF IInv, TypeOK, KickAll, KickEach
    <3> QED  BY <3>1, <3>2
  <2> QED  BY <2>1, <2>2 DEF IInv, TypeOK, KickAll, thread
<1>2. SessionsAreOwned' /\ OwnAccount' /\ Fresh'
  BY DEF IInv, SessionsAreOwned, OwnAccount, Fresh, KickAll
<1>3. QueueIsLive'
  BY EmptySequence DEF KickAll, QueueIsLive, Queued
<1>4. Control'
  BY DEF IInv, Control, Listed, KickAll, thread
<1> QED  BY <1>1, <1>2, <1>3, <1>4 DEF IInv
-----------------------------------------------------------------------------
(* The theorems *)

\* No step of the world or of the network breaks the invariant.
LEMMA NextKeeps == IInv /\ [Next]_vars => IInv'
<1> SUFFICES ASSUME IInv, [Next]_vars PROVE IInv'
  OBVIOUS
<1>1. ASSUME NEW s \in Session, AddSession(s)
      PROVE  IInv'
  BY <1>1, SubmitKeeps
<1>2. CASE \/ \E s \in Session : CloseSocket(s) \/ KickPlayer(s)
           \/ Tick \/ \E n \in Limits : SetPlayerAmountLimit(n)
  BY <1>2, OutsideKeeps
<1>3. CASE KickAll
  BY <1>3, KickAllKeeps
<1>4. CASE UpdateSessions
  <2>1. CASE \/ BeginUpdateSessions \/ AddDone \/ OtherPackets \/ KeepSession \/ UpdateDone
             \/ \E a \in Account, silent \in BOOLEAN : Visit(a, silent)
    BY <2>1, MovingOnKeeps
  <2>2. CASE RejectSession
    BY <2>2, RejectKeeps
  <2>3. CASE AddSession_
    BY <2>3, AddKeeps
  <2>4. CASE \E legit \in BOOLEAN : PlayerLogin(legit)
    BY <2>4, LoginKeeps
  <2>5. CASE \E done \in SUBSET {"init", "enum", "login", "failed"} : ProcessQueryCallbacks(done)
    BY <2>5, CallbacksKeep
  <2>6. CASE LogoutPlayer
    BY <2>6, LogoutKeeps
  <2>7. CASE RemoveOver
    BY <2>7, RemoveKeeps
  <2> QED  BY <1>4, <2>1, <2>2, <2>3, <2>4, <2>5, <2>6, <2>7 DEF UpdateSessions
<1>5. CASE UNCHANGED vars
  <2>1. TypeOK'
    BY <1>5 DEF IInv, TypeOK, vars, session, lists, thread
  <2> QED  BY <1>5, <2>1, ElsewhereKeeps DEF vars, session, lists
<1> QED  BY <1>1, <1>2, <1>3, <1>4, <1>5 DEF Next

\* The inductive invariant.
THEOREM Invariant == Spec => []IInv
<1>1. Init => IInv
  BY Initially
<1>2. IInv /\ [Next]_vars => IInv'
  BY NextKeeps
<1> QED  BY <1>1, <1>2, PTL DEF Spec

\* World, sessions and queue keep their types.
THEOREM Types == Spec => []TypeOK
<1>1. IInv => TypeOK
  BY DEF IInv
<1> QED  BY <1>1, Invariant, PTL

\* However many clients log in, lose their sockets, are replaced and removed
\* while others wait: a session is listed under its account, or handed over, or
\* gone; no list of the world reaches one that was deleted.
THEOREM NothingDeletedIsReached == Spec => []SessionsAreOwned
<1>1. IInv => SessionsAreOwned
  BY DEF IInv
<1> QED  BY <1>1, Invariant, PTL

\* The queue holds each waiting session once, none that is gone, and nobody who
\* waits has been initialized or has come by a character.
THEOREM TheQueueHoldsWhoWaits == Spec => []QueueIsLive
<1>1. IInv => QueueIsLive
  BY DEF IInv
<1> QED  BY <1>1, Invariant, PTL

\* For any number of sessions, accounts and slots neither the world's map, nor
\* the sessions handed over, nor the login queue lead to one that is deleted.
THEOREM NoListDangles == Spec => []NothingDangles
<1>1. IInv => NothingDangles
  BY DEF IInv, NothingDangles
<1> QED  BY <1>1, Invariant, PTL
-----------------------------------------------------------------------------
(* The end of the world *)

\* Nothing is left in a deleted session.
DeletedIsIdle ==
  \A s \in Session : place[s] = "deleted" => ~open[s] /\ player[s] = "none"

\* Between two visits no session is the one visited.
Resting == world \in {"idle", "add", "next"} => cur = NoSession

\* The present pass of UpdateSessions has yet to come to the session.
Unvisited(s) == world \in {"idle", "add"} \/ AccountOf[s] \in toVisit

\* Once everybody was kicked a session is one of those that leave at their
\* visit, or has come later; who comes later gets as far as the list of
\* characters in the one pass that is left, and no further.
LastPass ==
  stage = "kicked" => \A s \in Session : place[s] = "listed" =>
    \/ player[s] = "none"
    \/ ~open[s] /\ forceExit[s] /\ (Unvisited(s) \/ s = cur)
    \/ player[s] = "refused" /\ ~Unvisited(s) /\ (s = cur => world # "packets")
    \/ player[s] = "chars" /\ ~Unvisited(s) /\ (s = cur => world = "cleanup")

\* After it, the world's thread does nothing more.
Saved == stage = "stopped" => world = "idle" /\ \A s \in Session : player[s] # "in"

EInv == DeletedIsIdle /\ Resting /\ LastPass /\ Saved

\* It begins so.
LEMMA EndInitially == Init => EInv
BY DEF Init, EInv, DeletedIsIdle, Resting, LastPass, Saved

\* What is deleted is closed, and its character is nobody's.
LEMMA DeletedIs ==
  ASSUME NEW S, Deleted(S)
  PROVE  \A s \in Session :
           /\ open'[s] <=> open[s] /\ s \notin S
           /\ forceExit'[s] <=> forceExit[s] /\ s \notin S
           /\ player'[s] = IF s \in S THEN "none" ELSE player[s]
<1>1. \A s \in Session : open'[s] <=> open[s] /\ s \notin S
  BY DEF Deleted
<1>2. \A s \in Session : forceExit'[s] <=> forceExit[s] /\ s \notin S
  BY DEF Deleted
<1> QED  BY <1>1, <1>2 DEF Deleted

\* A session handed over is new to the last pass.
LEMMA EndWhenAdding ==
  ASSUME IInv, EInv, BeginUpdateSessions \/ RejectSession \/ AddSession_ \/ AddDone
  PROVE  EInv'
<1> USE SessionAssumption
<1>1. CASE BeginUpdateSessions
  BY <1>1 DEF EInv, DeletedIsIdle, Resting, LastPass, Unvisited, Saved, BeginUpdateSessions,
              session, lists
<1>2. CASE RejectSession
  <2> DEFINE s == Head(addSessQueue)
  <2>1. /\ s \in Session /\ place[s] = "submitted" /\ place' = [place EXCEPT ![s] = "deleted"]
        /\ world = "add" /\ UNCHANGED <<thread, stage>>
    BY <1>2, NewcomerIs DEF RejectSession
  <2>2. \A x \in Session : /\ open'[x] <=> open[x] /\ x # s
                           /\ forceExit'[x] <=> forceExit[x] /\ x # s
                           /\ player'[x] = IF x = s THEN "none" ELSE player[x]
    BY <1>2, DeletedIs DEF RejectSession
  <2>3. \A x \in Session : place'[x] = IF x = s THEN "deleted" ELSE place[x]
    BY <2>1 DEF IInv, TypeOK
  <2> HIDE DEF s
  <2> QED  BY <2>1, <2>2, <2>3 DEF EInv, DeletedIsIdle, Resting, LastPass, Unvisited, Saved, thread
<1>3. CASE AddSession_
  <2> DEFINE s == Head(addSessQueue)
             old == m_sessions[AccountOf[s]]
  <2>1. /\ s \in Session /\ place[s] = "submitted" /\ player[s] = "none"
        /\ AccountOf[s] \in Account /\ world = "add" /\ UNCHANGED <<thread, stage>>
    BY <1>3, NewcomerIs DEF AddSession_
  <2>2. old # s
    BY <2>1, ReplacedIs
  <2>3. \A x \in Session : /\ open'[x] <=> open[x] /\ x # old
                           /\ forceExit'[x] <=> forceExit[x] /\ x # old
                           /\ player'[x] = IF x = old THEN "none" ELSE player[x]
    BY <1>3, DeletedIs DEF AddSession_
  <2>4. \A x \in Session :
          place'[x] = IF x = s THEN "listed" ELSE IF x = old THEN "deleted" ELSE place[x]
    BY <1>3 DEF AddSession_
  <2> HIDE DEF s, old
  <2> QED  BY <2>1, <2>2, <2>3, <2>4
           DEF EInv, DeletedIsIdle, Resting, LastPass, Unvisited, Saved, thread
<1>4. CASE AddDone
  <2>1. \A s \in Session : place[s] = "listed" => AccountOf[s] \in toVisit'
    BY <1>4 DEF IInv, SessionsAreOwned, AddDone, Listed
  <2> QED  BY <1>4, <2>1 DEF EInv, DeletedIsIdle, Resting, LastPass, Unvisited, Saved, AddDone,
                             session, lists
<1> QED  BY <1>1, <1>2, <1>3, <1>4

\* Being visited, a session that was kicked loses nothing of that, and one that
\* came later makes one step only at each of the visit's parts.
LEMMA EndWhenVisiting ==
  ASSUME IInv, EInv,
         \/ \E a \in Account, silent \in BOOLEAN : Visit(a, silent)
         \/ \E legit \in BOOLEAN : PlayerLogin(legit)
         \/ OtherPackets
         \/ \E done \in SUBSET {"init", "enum", "login", "failed"} : ProcessQueryCallbacks(done)
         \/ LogoutPlayer
  PROVE  EInv'
<1> USE SessionAssumption
<1>0. /\ open \in [Session -> BOOLEAN] /\ forceExit \in [Session -> BOOLEAN]
      /\ player \in [Session -> {"none", "chars", "loading", "refused", "in"}]
  BY DEF IInv, TypeOK
<1>1. ASSUME NEW a \in Account, NEW silent \in BOOLEAN, Visit(a, silent)
      PROVE  EInv'
  <2>1. /\ m_sessions[a] \in Session /\ AccountOf[m_sessions[a]] = a
        /\ \A s \in Session : place[s] = "listed" /\ AccountOf[s] = a => s = m_sessions[a]
    BY <1>1, ReplacedIs DEF IInv, Control, Listed, SessionsAreOwned, Visit
  <2>2. \A s \in Session : open'[s] => open[s]
    <3>1. open' = open \/ open' = [open EXCEPT ![m_sessions[a]] = FALSE]
      BY <1>1 DEF Visit
    <3> QED  BY <3>1, <1>0
  <2>3. /\ cur' = m_sessions[a] /\ toVisit' = toVisit \ {a} /\ world = "next" /\ world' = "packets"
        /\ a \in toVisit
        /\ UNCHANGED <<place, forceExit, player, stage>>
    BY <1>1 DEF Visit
  <2>4. cur = NoSession
    BY <2>3 DEF EInv, Resting
  <2> QED  BY <2>1, <2>2, <2>3, <2>4 DEF EInv, DeletedIsIdle, Resting, LastPass, Unvisited, Saved
<1>a. world \in {"packets", "callbacks", "cleanup"} =>
        cur \in Session /\ place[cur] = "listed" /\ ~Unvisited(cur)
  BY DEF IInv, Control, SessionsAreOwned, Unvisited
<1>b. ASSUME NEW s, Kick(s)
      PROVE  \A x \in Session : (open'[x] => open[x]) /\ (forceExit[x] => forceExit'[x])
  BY <1>0, <1>b DEF Kick
<1>2. ASSUME NEW legit \in BOOLEAN, PlayerLogin(legit)
      PROVE  EInv'
  <2>1. /\ world = "packets" /\ world' = "callbacks"
        /\ UNCHANGED <<place, toVisit, cur, stage>>
        /\ \/ player' = player
           \/ player[cur] = "chars" /\ player' = [player EXCEPT ![cur] = "loading"]
           \/ player' = [player EXCEPT ![cur] = "refused"]
    BY <1>2 DEF PlayerLogin
  <2>2. \A x \in Session : (open'[x] => open[x]) /\ (forceExit[x] => forceExit'[x])
    <3>1. Kick(cur) \/ UNCHANGED <<open, forceExit>>
      BY <1>2 DEF PlayerLogin
    <3> QED  BY <3>1, <1>b
  <2>3. /\ \A x \in Session : x # cur => player'[x] = player[x]
        /\ \/ player'[cur] \in {player[cur], "refused"}
           \/ player[cur] = "chars" /\ player'[cur] = "loading"
    BY <1>0, <2>1
  <2> QED  BY <2>1, <2>2, <2>3, <1>a DEF EInv, DeletedIsIdle, Resting, LastPass, Unvisited, Saved
<1>3. CASE OtherPackets
  BY <1>3 DEF EInv, DeletedIsIdle, Resting, LastPass, Unvisited, Saved, OtherPackets, session, lists
<1>4. ASSUME NEW done \in SUBSET {"init", "enum", "login", "failed"}, ProcessQueryCallbacks(done)
      PROVE  EInv'
  <2>1. /\ world = "callbacks" /\ world' = "cleanup"
        /\ UNCHANGED <<place, toVisit, cur, stage>>
        /\ \/ player' = player
           \/ player[cur] = "none" /\ player' = [player EXCEPT ![cur] = "chars"]
           \/ player[cur] = "loading" /\ player' = [player EXCEPT ![cur] = "in"]
           \/ player[cur] = "loading" /\ player' = [player EXCEPT ![cur] = "chars"]
    BY <1>4 DEF ProcessQueryCallbacks
  <2>2. \A x \in Session : (open'[x] => open[x]) /\ (forceExit[x] => forceExit'[x])
    <3>1. Kick(cur) \/ UNCHANGED <<open, forceExit>>
      BY <1>4 DEF ProcessQueryCallbacks
    <3> QED  BY <3>1, <1>b
  <2>3. /\ \A x \in Session : x # cur => player'[x] = player[x]
        /\ \/ player'[cur] = player[cur]
           \/ player[cur] = "none" /\ player'[cur] = "chars"
           \/ player[cur] = "loading"
    BY <1>0, <2>1
  <2> QED  BY <2>1, <2>2, <2>3, <1>a DEF EInv, DeletedIsIdle, Resting, LastPass, Unvisited, Saved
<1>5. CASE LogoutPlayer
  <2>1. /\ world = "cleanup" /\ player[cur] = "in"
        /\ UNCHANGED <<place, open, forceExit, thread, stage>>
        /\ \A x \in Session : player'[x] = IF x = cur THEN "chars" ELSE player[x]
    BY <1>0, <1>5 DEF LogoutPlayer
  <2> QED  BY <2>1, <1>a DEF EInv, DeletedIsIdle, Resting, LastPass, Unvisited, Saved, thread
<1> QED  BY <1>1, <1>2, <1>3, <1>4, <1>5

\* At the end of its visit a session that was kicked is removed.
LEMMA EndWhenRemoving ==
  ASSUME IInv, EInv, KeepSession \/ RemoveOver \/ UpdateDone
  PROVE  EInv'
<1> USE SessionAssumption
<1>1. world = "cleanup" =>
        cur \in Session /\ place[cur] = "listed" /\ ~Unvisited(cur)
  BY DEF IInv, Control, SessionsAreOwned, Unvisited
<1>2. CASE KeepSession
  <2>1. world = "cleanup" /\ (open[cur] \/ ~forceExit[cur])
    BY <1>2 DEF KeepSession, Over
  <2>2. /\ UNCHANGED <<place, open, forceExit, player, toVisit, stage>>
        /\ world' = "next" /\ cur' = NoSession
    BY <1>2 DEF KeepSession
  <2> QED  BY <1>1, <2>1, <2>2 DEF EInv, DeletedIsIdle, Resting, LastPass, Unvisited, Saved
<1>3. CASE RemoveOver
  <2>1. /\ world = "cleanup" /\ world' = "next" /\ cur' = NoSession
        /\ UNCHANGED <<toVisit, stage>>
        /\ \A x \in Session : place'[x] = IF x = cur THEN "deleted" ELSE place[x]
    BY <1>3 DEF IInv, TypeOK, RemoveOver
  <2>2. \A x \in Session : /\ open'[x] <=> open[x] /\ x # cur
                           /\ forceExit'[x] <=> forceExit[x] /\ x # cur
                           /\ player'[x] = IF x = cur THEN "none" ELSE player[x]
    BY <1>3, DeletedIs DEF RemoveOver
  <2> QED  BY <1>1, <2>1, <2>2 DEF EInv, DeletedIsIdle, Resting, LastPass, Unvisited, Saved
<1>4. CASE UpdateDone
  <2>1. /\ world = "next" /\ toVisit = {} /\ world' = "idle"
        /\ stage' = IF stage = "kicked" THEN "stopped" ELSE stage
        /\ UNCHANGED <<place, open, forceExit, player, toVisit, cur>>
    BY <1>4 DEF UpdateDone, session
  <2>2. cur = NoSession /\ stage # "stopped"
    BY <2>1 DEF EInv, Resting, Saved
  <2>3. ASSUME stage = "kicked", NEW s \in Session
        PROVE  player[s] # "in"
    <3>1. CASE place[s] = "listed"
      BY <2>1, <2>2, <2>3, <3>1 DEF EInv, LastPass, Unvisited
    <3>2. CASE place[s] = "deleted"
      BY <3>2 DEF EInv, DeletedIsIdle
    <3>3. CASE place[s] \in {"new", "submitted"}
      BY <3>3 DEF IInv, Fresh
    <3> QED  BY <3>1, <3>2, <3>3 DEF IInv, TypeOK
  <2>4. stage' # "kicked"
    BY <2>1
  <2> QED  BY <2>1, <2>2, <2>3, <2>4 DEF EInv, DeletedIsIdle, Resting, LastPass, Saved
<1> QED  BY <1>2, <1>3, <1>4

\* Sockets close, sessions are handed over and kicked: what is said of them
\* still holds; and KickAll kicks them all.
LEMMA EndOutside ==
  ASSUME IInv, EInv,
         \/ \E s \in Session : AddSession(s) \/ CloseSocket(s) \/ KickPlayer(s)
         \/ Tick \/ KickAll \/ \E n \in Limits : SetPlayerAmountLimit(n)
  PROVE  EInv'
<1> USE SessionAssumption
<1>0. /\ open \in [Session -> BOOLEAN] /\ forceExit \in [Session -> BOOLEAN]
  BY DEF IInv, TypeOK
<1>1. ASSUME NEW s \in Session, AddSession(s)
      PROVE  EInv'
  <2>1. /\ \A x \in Session : place'[x] = IF x = s THEN "submitted" ELSE place[x]
        /\ \A x \in Session : open'[x] = IF x = s THEN TRUE ELSE open[x]
        /\ place[s] = "new"
        /\ UNCHANGED <<forceExit, player, thread, stage>>
    BY <1>0, <1>1 DEF AddSession, IInv, TypeOK
  <2> QED  BY <2>1 DEF EInv, DeletedIsIdle, Resting, LastPass, Unvisited, Saved, thread
<1>2. ASSUME NEW s \in Session, CloseSocket(s) \/ KickPlayer(s)
      PROVE  EInv'
  <2>1. /\ \A x \in Session : (open'[x] => open[x]) /\ (forceExit[x] => forceExit'[x])
        /\ UNCHANGED <<place, player, thread, stage>>
    BY <1>0, <1>2 DEF CloseSocket, KickPlayer, Kick
  <2> QED  BY <2>1 DEF EInv, DeletedIsIdle, Resting, LastPass, Unvisited, Saved, thread
<1>3. CASE Tick \/ \E n \in Limits : SetPlayerAmountLimit(n)
  BY <1>3 DEF EInv, DeletedIsIdle, Resting, LastPass, Unvisited, Saved, Tick,
              SetPlayerAmountLimit, session, thread
<1>4. CASE KickAll
  <2>1. /\ world = "idle" /\ stage' = "kicked"
        /\ UNCHANGED <<place, player, thread>>
    BY <1>4 DEF KickAll
  <2>2. \A s \in Session : place[s] = "listed" => s \in {m_sessions[a] : a \in Listed}
    BY DEF IInv, SessionsAreOwned, Listed
  <2>3. \A s \in Session : /\ open'[s] => open[s]
                           /\ place[s] = "listed" => ~open'[s] /\ forceExit'[s]
    <3>1. \A s \in Session : open'[s] <=> open[s] /\ s \notin {m_sessions[a] : a \in Listed}
      BY <1>4 DEF KickAll, KickEach
    <3>2. \A s \in Session : forceExit'[s] <=> forceExit[s] \/ s \in {m_sessions[a] : a \in Listed}
      BY <1>4 DEF KickAll, KickEach
    <3> QED  BY <2>2, <3>1, <3>2
  <2> QED  BY <2>1, <2>3 DEF EInv, DeletedIsIdle, Resting, LastPass, Unvisited, Saved, thread
<1> QED  BY <1>1, <1>2, <1>3, <1>4

\* No step breaks what is said of the end.
LEMMA EndKeeps == IInv /\ EInv /\ [Next]_vars => EInv'
<1> SUFFICES ASSUME IInv, EInv, [Next]_vars PROVE EInv'
  OBVIOUS
<1>1. CASE UpdateSessions
  BY <1>1, EndWhenAdding, EndWhenVisiting, EndWhenRemoving DEF UpdateSessions
<1>2. CASE \/ \E s \in Session : AddSession(s) \/ CloseSocket(s) \/ KickPlayer(s)
           \/ Tick \/ KickAll \/ \E n \in Limits : SetPlayerAmountLimit(n)
  BY <1>2, EndOutside
<1>3. CASE UNCHANGED vars
  BY <1>3 DEF EInv, DeletedIsIdle, Resting, LastPass, Unvisited, Saved, vars, session, thread
<1> QED  BY <1>1, <1>2, <1>3 DEF Next

\* The invariant of the end is inductive together with the first one.
THEOREM EndInvariant == Spec => []EInv
<1>1. Init => EInv
  BY EndInitially
<1>2. IInv /\ EInv /\ [Next]_vars => EInv'
  BY EndKeeps
<1> QED  BY <1>1, <1>2, Invariant, PTL DEF Spec

\* KickAll and one more UpdateSessions are enough: however many clients connect
\* or are being loaded meanwhile, when the network stops nobody is in the world.
THEOREM NobodyIsLeft == Spec => []EveryoneIsSaved
<1>1. EInv => EveryoneIsSaved
  BY DEF EInv, Saved, EveryoneIsSaved
<1> QED  BY <1>1, EndInvariant, PTL

\* A session whose character is being loaded loses its socket before it is
\* deleted: no second login of the account replaces it.
THEOREM LoadingIsLeftAlone == Spec => LoadingIsNotReplaced
<1> DEFINE Step == \A s \in Session : player[s] \in Loading /\ place'[s] = "deleted" => ~open[s]
<1>1. IInv /\ EInv /\ [Next]_vars => [Step]_vars
  <2> SUFFICES ASSUME IInv, EInv, Next, NEW s \in Session,
                      player[s] \in Loading, place'[s] = "deleted"
               PROVE  ~open[s]
    OBVIOUS
  <2> USE SessionAssumption
  <2>1. place[s] # "deleted"
    BY DEF EInv, DeletedIsIdle, Loading
  <2>2. place[s] = "submitted" => player[s] = "none"
    BY DEF IInv, Fresh
  <2>3. \/ RejectSession \/ AddSession_ \/ RemoveOver
        \/ UNCHANGED place \/ \E x \in Session : AddSession(x)
    BY DEF Next, UpdateSessions, CloseSocket, KickPlayer, Tick, KickAll, SetPlayerAmountLimit,
           BeginUpdateSessions, AddDone, Visit, PlayerLogin, OtherPackets, ProcessQueryCallbacks,
           LogoutPlayer, KeepSession, UpdateDone, session
  <2>4. CASE RejectSession
    <3>1. place[Head(addSessQueue)] = "submitted" /\ Head(addSessQueue) \in Session
      BY <2>4, NewcomerIs DEF RejectSession
    <3>2. place' = [place EXCEPT ![Head(addSessQueue)] = "deleted"]
      BY <2>4 DEF RejectSession
    <3>3. s = Head(addSessQueue)
      BY <2>1, <3>2 DEF IInv, TypeOK
    <3> QED  BY <2>2, <3>1, <3>3 DEF Loading
  <2>5. CASE AddSession_
    <3>1. s = m_sessions[AccountOf[Head(addSessQueue)]]
      BY <2>1, <2>5 DEF AddSession_
    <3> QED  BY <2>5, <3>1 DEF AddSession_, Replaceable
  <2>6. CASE RemoveOver
    <3>1. s = cur
      BY <2>1, <2>6 DEF RemoveOver, IInv, TypeOK
    <3> QED  BY <2>6, <3>1 DEF RemoveOver, Over
  <2>7. CASE UNCHANGED place
    BY <2>1, <2>7
  <2>8. ASSUME NEW x \in Session, AddSession(x)
        PROVE  FALSE
    BY <2>1, <2>8 DEF AddSession, IInv, TypeOK
  <2> QED  BY <2>3, <2>4, <2>5, <2>6, <2>7, <2>8
<1> QED  BY <1>1, Invariant, EndInvariant, PTL DEF Spec, LoadingIsNotReplaced
-----------------------------------------------------------------------------
(* The slots *)

ListedSessions == {s \in Session : place[s] = "listed"}

\* The active sessions and the queued ones are all that m_sessions counts.
LEMMA Counts ==
  ASSUME IInv
  PROVE  /\ Queued \subseteq ListedSessions /\ Active = ListedSessions \ Queued
         /\ IsFiniteSet(Listed) /\ IsFiniteSet(Active)
         /\ Cardinality(Active) \in Nat /\ Len(m_QueuedPlayer) \in Nat
         /\ SessionCount = Cardinality(Active) + Len(m_QueuedPlayer)
<1> USE SessionAssumption
<1>1. /\ m_QueuedPlayer \in Seq(Session) /\ IsInjective(m_QueuedPlayer)
      /\ m_sessions \in [Account -> Session \cup {NoSession}]
  BY DEF IInv, TypeOK, QueueIsLive
<1>2. Queued \subseteq ListedSessions
  BY <1>1, RangeType DEF IInv, QueueIsLive, SessionsAreOwned, Queued, ListedSessions
<1>3. Active = ListedSessions \ Queued
  BY DEF Active, ListedSessions
<1>4. IsFiniteSet(Listed)
  BY FS_Subset DEF Listed
<1>5. ExistsBijection(Listed, ListedSessions)
  <2> DEFINE f == [a \in Listed |-> m_sessions[a]]
  <2>1. \A a \in Listed : m_sessions[a] \in ListedSessions /\ AccountOf[m_sessions[a]] = a
    BY <1>1 DEF IInv, OwnAccount, SessionsAreOwned, Listed, ListedSessions
  <2>2. \A s \in ListedSessions : AccountOf[s] \in Listed /\ m_sessions[AccountOf[s]] = s
    BY DEF IInv, SessionsAreOwned, Listed, ListedSessions
  <2>3. f \in [Listed -> ListedSessions]
    BY <2>1
  <2>4. \A a, b \in Listed : f[a] = f[b] => a = b
    BY <2>1
  <2>5. \A s \in ListedSessions : \E a \in Listed : f[a] = s
    BY <2>2
  <2> HIDE DEF f
  <2>6. f \in Bijection(Listed, ListedSessions)
    BY <2>3, <2>4, <2>5 DEF Bijection, Injection, Surjection, IsInjective
  <2> QED  BY <2>6 DEF ExistsBijection
<1>6. IsFiniteSet(ListedSessions) /\ Cardinality(ListedSessions) = SessionCount
  BY <1>4, <1>5, FS_Bijection DEF SessionCount
<1>7. Cardinality(Queued) = Len(m_QueuedPlayer) /\ Len(m_QueuedPlayer) \in Nat
  BY <1>1, LengthIsCardinality DEF Queued
<1>8. /\ IsFiniteSet(Active)
      /\ Cardinality(Active) = Cardinality(ListedSessions) - Cardinality(Queued)
  <2>1. ListedSessions \cap Queued = Queued
    BY <1>2
  <2> QED  BY <1>3, <1>6, <2>1, FS_Difference
<1>9. Cardinality(Active) \in Nat /\ Cardinality(ListedSessions) \in Nat
  BY <1>6, <1>8, FS_CardinalityType
<1> QED  BY <1>2, <1>3, <1>4, <1>6, <1>7, <1>8, <1>9

\* What RemoveQueuedPlayer leaves, as long as nobody waits in vain: if the
\* session was queued nobody passes; if it was active, and not one too many, the
\* first does.
Passes(s, rest) ==
  \/ s \in Queued /\ rest = Without(m_QueuedPlayer, s)
  \/ s \notin Queued /\ rest = m_QueuedPlayer
     /\ (rest # <<>> => Cardinality(Active) > m_playerLimit)
  \/ s \notin Queued /\ m_QueuedPlayer # <<>> /\ rest = Tail(m_QueuedPlayer)
     /\ Cardinality(Active) = m_playerLimit

LEMMA RemovingPasses ==
  ASSUME IInv, NoIdleSlot, NEW s \in ListedSessions
  PROVE  /\ Passes(s, RemoveQueued(m_QueuedPlayer, s))
         /\ RemoveQueued(RemoveQueued(m_QueuedPlayer, s), s) = RemoveQueued(m_QueuedPlayer, s)
<1> USE SessionAssumption
<1> DEFINE q == m_QueuedPlayer
           n == Len(q)
           A == Cardinality(Active)
           once == RemoveQueued(q, s)
<1>1. /\ q \in Seq(Session) /\ IsInjective(q) /\ m_playerLimit \in Nat
  BY DEF IInv, TypeOK, QueueIsLive
<1>2. A \in Nat /\ n \in Nat /\ SessionCount = A + n
  BY Counts
<1>3. q # <<>> => m_playerLimit > 0 /\ A >= m_playerLimit
  BY DEF NoIdleSlot
<1>4. s \notin Queued => A > 0
  <2>1. s \notin Queued => s \in Active
    BY Counts
  <2> QED  BY <2>1, Counts, FS_EmptySet, <1>2
<1>5. ASSUME NEW r \in Seq(Session), IsInjective(r), s \notin Range(r)
      PROVE  RemoveQueued(r, s) =
               IF /\ m_playerLimit = 0
                     \/ (IF SessionCount - Len(r) = 0 THEN 0 ELSE SessionCount - Len(r) - 1)
                          < m_playerLimit
                  /\ r # <<>>
               THEN Tail(r) ELSE r
  BY <1>5 DEF RemoveQueued, Without, Counted, Pop
<1>6. CASE s \in Queued
  <2> DEFINE rest == Without(q, s)
  <2>1. rest \in Seq(Session) /\ IsInjective(rest) /\ Range(rest) = Queued \ {s}
    BY <1>1, WithoutIs DEF Queued
  <2>2. q # <<>>
    BY <1>6, EmptySequence DEF Queued
  <2>3. Len(rest) = n - 1
    <3>1. IsFiniteSet(Queued) /\ Cardinality(Queued) = n
      BY <1>1, LengthIsCardinality DEF Queued
    <3>2. Cardinality(Queued \ {s}) = n - 1
      BY <3>1, <1>6, FS_RemoveElement
    <3> HIDE DEF rest
    <3> QED  BY <2>1, <3>2, LengthIsCardinality
  <2>4. once = rest
    <3>1. Counted(q, s) = A
      BY <1>2, <1>6 DEF Counted, Queued
    <3> QED  BY <1>2, <1>1, <1>3, <2>2, <3>1 DEF RemoveQueued
  <2>5. RemoveQueued(rest, s) = rest
    <3> HIDE DEF rest
    <3>1. s \notin Range(rest) /\ SessionCount - Len(rest) = A + 1
      BY <2>1, <2>3, <1>2
    <3> QED  BY <3>1, <2>1, <1>1, <1>2, <1>3, <1>5, <2>2
  <2> QED  BY <1>6, <2>4, <2>5 DEF Passes
<1>7. CASE s \notin Queued
  <2>1. s \notin Range(q)
    BY <1>7 DEF Queued
  <2>2. SessionCount - n = A
    BY <1>2
  <2>3. once = IF (m_playerLimit = 0 \/ A - 1 < m_playerLimit) /\ q # <<>> THEN Tail(q) ELSE q
    BY <1>1, <1>2, <1>4, <1>5, <1>7, <2>1, <2>2
  <2>4. CASE q = <<>>
    BY <2>4, <2>3, <1>7 DEF Passes
  <2>5. CASE q # <<>> /\ A > m_playerLimit
    BY <2>5, <2>3, <1>1, <1>2, <1>3, <1>7 DEF Passes
  <2>6. CASE q # <<>> /\ A = m_playerLimit
    <3>1. once = Tail(q)
      BY <2>6, <2>3, <1>1, <1>2
    <3>2. /\ Tail(q) \in Seq(Session) /\ IsInjective(Tail(q)) /\ s \notin Range(Tail(q))
          /\ Len(Tail(q)) = n - 1
      <4>1. Range(Tail(q)) \subseteq Range(q) /\ Tail(q) \in Seq(Session)
        BY <1>1, <2>6, RangeTail
      <4>2. Len(Tail(q)) = n - 1
        BY <1>1, <2>6
      <4>3. IsInjective(Tail(q))
        BY <1>1, <2>6, InjectiveTail
      <4> QED  BY <2>1, <4>1, <4>2, <4>3, Zenon
    <3>3. SessionCount - Len(Tail(q)) = A + 1
      BY <3>2, <1>2
    <3>4. RemoveQueued(Tail(q), s) = Tail(q)
      <4> DEFINE c == SessionCount - Len(Tail(q))
                 counted == IF c = 0 THEN 0 ELSE c - 1
      <4>1. RemoveQueued(Tail(q), s) =
              IF (m_playerLimit = 0 \/ counted < m_playerLimit) /\ Tail(q) # <<>>
              THEN Tail(Tail(q)) ELSE Tail(q)
        BY <3>2, <1>5, Zenon
      <4>2. m_playerLimit # 0 /\ ~(counted < m_playerLimit)
        BY <3>3, <1>1, <1>2, <1>3, <2>6
      <4> HIDE DEF counted
      <4> QED  BY <4>1, <4>2
    <3> QED  BY <1>7, <2>6, <3>1, <3>4 DEF Passes
  <2> QED  BY <2>4, <2>5, <2>6, <1>1, <1>2, <1>3
<1> QED  BY <1>6, <1>7

\* Who is active then: those who were, without the session, and who passes.
ActiveThen(s, rest) == (Active \ {s}) \cup (Queued \ (Range(rest) \cup {s}))

\* Whoever passes takes a slot that was freed: while somebody waits the slots
\* stay full, and they are never more than they were, or than there may be.
LEMMA SlotsAfterPassing ==
  ASSUME IInv, NoIdleSlot, NEW s \in ListedSessions,
         NEW rest, Passes(s, rest), Range(rest) \subseteq Queued \ {s}
  PROVE  /\ IsFiniteSet(ActiveThen(s, rest)) /\ Cardinality(ActiveThen(s, rest)) \in Nat
         /\ m_QueuedPlayer # <<>> =>
              m_playerLimit > 0 /\ Cardinality(ActiveThen(s, rest)) >= m_playerLimit
         /\ m_QueuedPlayer = <<>> => Cardinality(ActiveThen(s, rest)) = Cardinality(Active) - 1
         /\ \/ ActiveThen(s, rest) \subseteq Active
            \/ Cardinality(ActiveThen(s, rest)) <= m_playerLimit
<1> USE SessionAssumption
<1> DEFINE q == m_QueuedPlayer
           A == Cardinality(Active)
<1>1. /\ q \in Seq(Session) /\ IsInjective(q) /\ m_playerLimit \in Nat
  BY DEF IInv, TypeOK, QueueIsLive
<1>2. A \in Nat /\ IsFiniteSet(Active) /\ Active = ListedSessions \ Queued
  BY Counts
<1>3. q # <<>> => m_playerLimit > 0 /\ A >= m_playerLimit
  BY DEF NoIdleSlot
<1>4. /\ IsFiniteSet(Active \ {s})
      /\ s \notin Queued => Cardinality(Active \ {s}) = A - 1 /\ A > 0
  <2>1. s \notin Queued => s \in Active
    BY <1>2
  <2>2. s \notin Queued => Cardinality(Active \ {s}) = A - 1
    BY <1>2, <2>1, FS_RemoveElement
  <2>3. IsFiniteSet(Active \ {s})
    BY <1>2, FS_RemoveElement
  <2>4. Cardinality(Active \ {s}) \in Nat
    BY <2>3, FS_CardinalityType
  <2> QED  BY <1>2, <2>2, <2>3, <2>4
<1>5. CASE s \in Queued /\ rest = Without(q, s)
  <2>1. Range(rest) = Queued \ {s}
    BY <1>1, <1>5, WithoutIs DEF Queued
  <2>2. ActiveThen(s, rest) = Active
    BY <1>2, <1>5, <2>1 DEF ActiveThen
  <2>3. q # <<>>
    BY <1>5, EmptySequence DEF Queued
  <2> QED  BY <1>2, <1>3, <2>2, <2>3
<1>6. CASE s \notin Queued /\ rest = q /\ (rest # <<>> => A > m_playerLimit)
  <2>1. ActiveThen(s, rest) = Active \ {s}
    BY <1>6 DEF ActiveThen, Queued
  <2> QED  BY <1>1, <1>2, <1>3, <1>4, <1>6, <2>1
<1>7. CASE s \notin Queued /\ q # <<>> /\ rest = Tail(q) /\ A = m_playerLimit
  <2>1. Queued = {Head(q)} \cup Range(rest) /\ Head(q) \notin Range(rest)
    BY <1>1, <1>7, RangeTail, InjectiveTail DEF Queued
  <2>2. ActiveThen(s, rest) = (Active \ {s}) \cup {Head(q)} /\ Head(q) \notin Active
    BY <1>2, <1>7, <2>1 DEF ActiveThen
  <2>3. IsFiniteSet(ActiveThen(s, rest)) /\ Cardinality(ActiveThen(s, rest)) = A - 1 + 1
    <3> DEFINE C == Active \ {s}
    <3>1. IsFiniteSet(C) /\ Cardinality(C) = A - 1 /\ Head(q) \notin C
      BY <1>4, <1>7, <2>2
    <3>2. ActiveThen(s, rest) = C \cup {Head(q)}
      BY <2>2
    <3> HIDE DEF C, q, A
    <3> QED  BY <3>1, <3>2, FS_AddElement
  <2> QED  BY <1>1, <1>2, <1>3, <1>7, <2>3
<1> QED  BY <1>5, <1>6, <1>7 DEF Passes

\* A session is removed.
LEMMA SlotsAfterRemoving ==
  ASSUME IInv, NoIdleSlot, RemoveOver
  PROVE  \E rest : /\ m_QueuedPlayer' = rest /\ Range(rest) \subseteq Queued \ {cur}
                   /\ cur \in ListedSessions /\ Passes(cur, rest)
                   /\ Active' = ActiveThen(cur, rest)
<1> DEFINE rest == RemoveQueued(m_QueuedPlayer, cur)
<1>1. cur \in ListedSessions
  BY DEF IInv, Control, SessionsAreOwned, ListedSessions, RemoveOver
<1>2. Passes(cur, rest) /\ QueueAfter(cur) = rest
  BY <1>1, RemovingPasses DEF QueueAfter
<1>3. Range(rest) \subseteq Queued \ {cur}
  BY RemoveQueuedIs DEF IInv, TypeOK, QueueIsLive, Queued
<1>4. m_QueuedPlayer' = rest
  BY <1>2 DEF RemoveOver
<1>5. \A x \in Session : place'[x] = IF x = cur THEN "deleted" ELSE place[x]
  BY DEF RemoveOver, IInv, TypeOK
<1> HIDE DEF rest
<1>6. Active' = {x \in Session : place[x] = "listed" /\ x # cur /\ x \notin Range(rest)}
  BY <1>4, <1>5 DEF Active, Queued
<1>7. Queued \subseteq ListedSessions /\ Active = ListedSessions \ Queued
  BY Counts
<1>8. Active' = ActiveThen(cur, rest)
  BY <1>3, <1>6, <1>7 DEF ActiveThen, ListedSessions
<1> QED  BY <1>1, <1>2, <1>3, <1>4, <1>8

\* A session is added: it waits if the world is full without it, or is active.
LEMMA SlotsAfterAdding ==
  ASSUME IInv, NoIdleSlot, AddSession_, NEW s, s = Head(addSessQueue)
  PROVE  \E B, rest : \E waits \in BOOLEAN :
           /\ s \in Session /\ s \notin B
           /\ IsFiniteSet(B) /\ Cardinality(B) \in Nat
           /\ m_QueuedPlayer' = (IF waits THEN Append(rest, s) ELSE rest)
           /\ Active' = (IF waits THEN B ELSE B \cup {s})
           /\ rest # <<>> \/ waits => m_playerLimit > 0 /\ Cardinality(B) >= m_playerLimit
           /\ B \subseteq Active \/ Cardinality(B) <= m_playerLimit
           /\ \/ waits \/ m_playerLimit = 0 \/ Cardinality(B) < m_playerLimit
              \/ AccountOf[s] \in Privileged \/ RecentlyDisconnected(AccountOf[s])
<1> DEFINE q == m_QueuedPlayer
           A == Cardinality(Active)
           a == AccountOf[s]
           old == m_sessions[a]
           rest == QueueWithout(old)
           waits == Full(a, old) /\ a \notin Privileged /\ ~RecentlyDisconnected(a)
           B == IF old = NoSession THEN Active ELSE ActiveThen(old, rest)
<1> USE SessionAssumption
<1>1. /\ s \in Session /\ place[s] = "submitted" /\ a \in Account /\ s \notin Queued
  BY NewcomerIs DEF AddSession_
<1>2. /\ A \in Nat /\ IsFiniteSet(Active) /\ Active = ListedSessions \ Queued
      /\ Queued \subseteq ListedSessions /\ Len(q) \in Nat /\ SessionCount = A + Len(q)
      /\ IsFiniteSet(Listed)
  BY Counts
<1>3. /\ m_QueuedPlayer' = (IF waits THEN Append(rest, s) ELSE rest)
      /\ \A x \in Session :
           place'[x] = IF x = s THEN "listed" ELSE IF x = old THEN "deleted" ELSE place[x]
  BY DEF AddSession_
<1>4. rest \in Seq(Session) /\ Range(rest) \subseteq Queued \ {old}
  BY QueueWithoutIs
<1>5. old # NoSession => old \in ListedSessions /\ old # s
  BY <1>1, ReplacedIs DEF ListedSessions
<1>6. q \in Seq(Session) /\ m_playerLimit \in Nat /\ (q # <<>> => Len(q) > 0)
  BY DEF IInv, TypeOK
<1>7. q # <<>> => m_playerLimit > 0 /\ A >= m_playerLimit
  BY DEF NoIdleSlot
<1>8. NoSession \notin Queued
  BY <1>6, RangeType DEF Queued
<1>9. Others(a, old) =
        IF old = NoSession THEN SessionCount
        ELSE IF old \in Queued THEN SessionCount ELSE SessionCount - 1
  <2>1. CASE old = NoSession
    <3>1. a \notin Listed
      BY <2>1 DEF Listed
    <3>2. Cardinality(Listed \cup {a}) = SessionCount + 1
      BY <1>2, <3>1, FS_AddElement DEF SessionCount
    <3> QED  BY <2>1, <3>2, <1>2, <1>8 DEF Others, Queued
  <2>2. CASE old # NoSession
    <3>1. Listed \cup {a} = Listed
      BY <1>1, <2>2 DEF Listed
    <3>2. Cardinality(Listed \cup {a}) = SessionCount
      BY <3>1 DEF SessionCount
    <3> HIDE DEF a, old
    <3> QED  BY <2>2, <3>2, <1>2 DEF Others, Queued
  <2> QED  BY <2>1, <2>2
<1>10. Full(a, old) <=> m_playerLimit > 0 /\ Others(a, old) >= m_playerLimit
  BY DEF Full
<1>11. old # NoSession =>
        /\ Passes(old, rest)
        /\ IsFiniteSet(ActiveThen(old, rest)) /\ Cardinality(ActiveThen(old, rest)) \in Nat
        /\ m_QueuedPlayer # <<>> =>
             m_playerLimit > 0 /\ Cardinality(ActiveThen(old, rest)) >= m_playerLimit
        /\ m_QueuedPlayer = <<>> => Cardinality(ActiveThen(old, rest)) = A - 1
        /\ \/ ActiveThen(old, rest) \subseteq Active
           \/ Cardinality(ActiveThen(old, rest)) <= m_playerLimit
  <2> SUFFICES ASSUME old # NoSession
               PROVE  /\ Passes(old, rest)
                      /\ IsFiniteSet(ActiveThen(old, rest))
                      /\ Cardinality(ActiveThen(old, rest)) \in Nat
                      /\ m_QueuedPlayer # <<>> =>
                           m_playerLimit > 0 /\ Cardinality(ActiveThen(old, rest)) >= m_playerLimit
                      /\ m_QueuedPlayer = <<>> => Cardinality(ActiveThen(old, rest)) = A - 1
                      /\ \/ ActiveThen(old, rest) \subseteq Active
                         \/ Cardinality(ActiveThen(old, rest)) <= m_playerLimit
    BY Zenon
  <2>1. rest = RemoveQueued(q, old) /\ old \in ListedSessions
    BY <1>5 DEF QueueWithout
  <2>2. Passes(old, rest)
    BY <2>1, RemovingPasses
  <2> HIDE DEF rest, old
  <2> QED  BY <1>4, <2>1, <2>2, SlotsAfterPassing
<1>12. old = NoSession => rest = q
  BY DEF QueueWithout
<1>13. rest # <<>> => q # <<>>
  <2>1. q = <<>> => Queued = {}
    BY EmptySequence DEF Queued
  <2> HIDE DEF rest
  <2>2. rest # <<>> => Head(rest) \in Range(rest)
    <3>1. rest # <<>> => Range(rest) = {Head(rest)} \cup Range(Tail(rest))
      BY <1>4, RangeTail
    <3> QED  BY <3>1
  <2> QED  BY <2>1, <2>2, <1>4
<1>14. waits \in BOOLEAN /\ (waits => Full(a, old))
       /\ (~waits => ~Full(a, old) \/ a \in Privileged \/ RecentlyDisconnected(a))
  BY Zenon
<1>15. Active' = {x \in Session : (x = s \/ (place[x] = "listed" /\ x # old))
                                  /\ x \notin Range(m_QueuedPlayer')}
  BY <1>3 DEF Active, Queued
<1>16. Range(m_QueuedPlayer') = IF waits THEN Range(rest) \cup {s} ELSE Range(rest)
  <2> HIDE DEF rest, waits
  <2>1. rest \in Seq(Session)
    BY <1>4
  <2>2. Range(Append(rest, s)) = Range(rest) \cup {s}
    BY <1>1, <2>1, RangeAppend
  <2> QED  BY <1>3, <2>2
<1>17. s \notin ListedSessions /\ s \notin Range(rest)
  BY <1>1, <1>4 DEF ListedSessions
<1> HIDE DEF waits, rest, old, a
<1>18. Active' = IF waits THEN B ELSE B \cup {s}
  <2>1. {x \in Session : place[x] = "listed" /\ x # old /\ x \notin Range(rest)} = B
    <3>1. CASE old = NoSession
      BY <3>1, <1>2, <1>12 DEF ListedSessions, Queued
    <3>2. CASE old # NoSession
      BY <3>2, <1>2, <1>4 DEF ActiveThen, ListedSessions
    <3> QED  BY <3>1, <3>2
  <2> HIDE DEF B
  <2> QED  BY <2>1, <1>1, <1>15, <1>16, <1>17 DEF ListedSessions
<1>19. s \notin B
  BY <1>1, <1>2, <1>17 DEF ActiveThen
<1>20. /\ IsFiniteSet(B) /\ Cardinality(B) \in Nat
       /\ q # <<>> => m_playerLimit > 0 /\ Cardinality(B) >= m_playerLimit
       /\ B \subseteq Active \/ Cardinality(B) <= m_playerLimit
       /\ q = <<>> => Cardinality(B) = IF old = NoSession THEN A ELSE A - 1
  BY <1>2, <1>7, <1>11
<1>21. q = <<>> => Len(q) = 0 /\ Queued = {}
  BY EmptySequence DEF Queued
<1>22. /\ rest # <<>> \/ waits => m_playerLimit > 0 /\ Cardinality(B) >= m_playerLimit
       /\ waits \/ m_playerLimit = 0 \/ Cardinality(B) < m_playerLimit
          \/ a \in Privileged \/ RecentlyDisconnected(a)
  <2> HIDE DEF B, A, q
  <2>1. CASE q # <<>>
    <3>1. Full(a, old)
      BY <2>1, <1>2, <1>6, <1>7, <1>9, <1>10
    <3> QED  BY <2>1, <3>1, <1>14, <1>20
  <2>2. CASE q = <<>>
    <3>1. Others(a, old) = Cardinality(B)
      BY <2>2, <1>2, <1>9, <1>20, <1>21
    <3> QED  BY <2>2, <3>1, <1>6, <1>10, <1>13, <1>14, <1>20
  <2> QED  BY <2>1, <2>2
<1> HIDE DEF B
<1>23. m_QueuedPlayer' = (IF waits THEN Append(rest, s) ELSE rest) /\ waits \in BOOLEAN
  BY <1>3, <1>14
<1>24. B \subseteq Active \/ Cardinality(B) <= m_playerLimit
  BY <1>20
<1> QED  BY <1>1, <1>18, <1>19, <1>20, <1>22, <1>23, <1>24, Zenon DEF a

\* Only adding a session, removing one and the end of the world change who is
\* active or waits; the limit stays as it was configured.
LEMMA OthersKeepSlots ==
  ASSUME IInv, [Next]_vars, m_playerLimit' = m_playerLimit,
         ~AddSession_, ~RemoveOver, ~KickAll
  PROVE  m_QueuedPlayer' = m_QueuedPlayer /\ Active' = Active
<1> USE SessionAssumption DEF IInv, TypeOK
<1>1. ASSUME m_QueuedPlayer' = m_QueuedPlayer, place' = place
      PROVE  Active' = Active
  BY <1>1 DEF Active, Queued
<1>2. ASSUME NEW s \in Session, AddSession(s) \/ CloseSocket(s) \/ KickPlayer(s)
      PROVE  m_QueuedPlayer' = m_QueuedPlayer /\ Active' = Active
  <2>1. CASE AddSession(s)
    <3>1. /\ m_QueuedPlayer' = m_QueuedPlayer
          /\ \A x \in Session : place'[x] = "listed" <=> place[x] = "listed"
      BY <2>1 DEF AddSession
    <3> QED  BY <3>1 DEF Active, Queued
  <2>2. CASE CloseSocket(s)
    BY <2>2, <1>1 DEF CloseSocket, lists, thread
  <2>3. CASE KickPlayer(s)
    BY <2>3, <1>1 DEF KickPlayer, Kick, lists, thread
  <2> QED  BY <1>2, <2>1, <2>2, <2>3
<1>3. CASE RejectSession
  <2>1. place[Head(addSessQueue)] = "submitted"
    BY <1>3, NewcomerIs DEF RejectSession
  <2>2. /\ m_QueuedPlayer' = m_QueuedPlayer
        /\ \A x \in Session : place'[x] = "listed" <=> place[x] = "listed"
    BY <1>3, <2>1 DEF RejectSession
  <2> QED  BY <2>2 DEF Active, Queued
<1>4. CASE Tick \/ BeginUpdateSessions \/ AddDone \/ UpdateDone \/ LogoutPlayer \/ KeepSession
  BY <1>1, <1>4 DEF Tick, BeginUpdateSessions, AddDone, UpdateDone, LogoutPlayer,
                    KeepSession, session, lists, thread
<1>5. ASSUME NEW a \in Account, NEW silent \in BOOLEAN, Visit(a, silent)
      PROVE  m_QueuedPlayer' = m_QueuedPlayer /\ Active' = Active
  BY <1>1, <1>5 DEF Visit, lists
<1>6. ASSUME NEW legit \in BOOLEAN, PlayerLogin(legit)
      PROVE  m_QueuedPlayer' = m_QueuedPlayer /\ Active' = Active
  BY <1>1, <1>6 DEF PlayerLogin, lists
<1>7. CASE OtherPackets
  BY <1>1, <1>7 DEF OtherPackets, session, lists
<1>8. ASSUME NEW done \in SUBSET {"init", "enum", "login", "failed"},
             ProcessQueryCallbacks(done)
      PROVE  m_QueuedPlayer' = m_QueuedPlayer /\ Active' = Active
  BY <1>1, <1>8 DEF ProcessQueryCallbacks, lists
<1>9. ASSUME NEW n \in Limits, SetPlayerAmountLimit(n)
      PROVE  m_QueuedPlayer' = m_QueuedPlayer /\ Active' = Active
  BY <1>1, <1>9 DEF SetPlayerAmountLimit, session, lists
<1>10. CASE UNCHANGED vars
  BY <1>1, <1>10 DEF vars, session, lists
<1> QED
  BY <1>2, <1>3, <1>4, <1>5, <1>6, <1>7, <1>8, <1>9, <1>10 DEF Next, UpdateSessions

\* Every step keeps the slots full while somebody waits, unless the limit is
\* changed: raising it lets nobody in.
LEMMA SlotsKeep ==
  ASSUME IInv, NoIdleSlot, [Next]_vars, m_playerLimit' = m_playerLimit
  PROVE  NoIdleSlot'
<1> USE SessionAssumption
<1>1. CASE AddSession_
  <2> DEFINE s == Head(addSessQueue)
  <2>1. PICK B, rest : \E waits \in BOOLEAN :
          /\ s \in Session /\ s \notin B
          /\ IsFiniteSet(B) /\ Cardinality(B) \in Nat
          /\ m_QueuedPlayer' = (IF waits THEN Append(rest, s) ELSE rest)
          /\ Active' = (IF waits THEN B ELSE B \cup {s})
          /\ rest # <<>> \/ waits => m_playerLimit > 0 /\ Cardinality(B) >= m_playerLimit
    BY <1>1, SlotsAfterAdding
  <2>2. PICK waits \in BOOLEAN :
          /\ s \in Session /\ s \notin B
          /\ IsFiniteSet(B) /\ Cardinality(B) \in Nat
          /\ m_QueuedPlayer' = (IF waits THEN Append(rest, s) ELSE rest)
          /\ Active' = (IF waits THEN B ELSE B \cup {s})
          /\ rest # <<>> \/ waits => m_playerLimit > 0 /\ Cardinality(B) >= m_playerLimit
    BY <2>1
  <2>3. m_playerLimit' = m_playerLimit /\ m_playerLimit \in Nat
    BY <1>1 DEF AddSession_, IInv, TypeOK
  <2> HIDE DEF s
  <2>4. CASE waits
    BY <2>2, <2>3, <2>4 DEF NoIdleSlot
  <2>5. CASE ~waits
    <3>1. Cardinality(B \cup {s}) = Cardinality(B) + 1
      BY <2>2, FS_AddElement
    <3>2. m_QueuedPlayer' = rest /\ Active' = B \cup {s}
      BY <2>2, <2>5
    <3> QED  BY <2>2, <2>3, <3>1, <3>2 DEF NoIdleSlot
  <2> QED  BY <2>4, <2>5
<1>2. CASE RemoveOver
  <2>1. PICK rest : /\ m_QueuedPlayer' = rest /\ Range(rest) \subseteq Queued \ {cur}
                    /\ cur \in ListedSessions /\ Passes(cur, rest)
                    /\ Active' = ActiveThen(cur, rest)
    BY <1>2, SlotsAfterRemoving
  <2>2. m_playerLimit' = m_playerLimit
    BY <1>2 DEF RemoveOver
  <2>3. rest # <<>> => m_QueuedPlayer # <<>>
    BY <2>1, EmptySequence DEF Passes, Queued
  <2>4. m_QueuedPlayer # <<>> =>
          m_playerLimit > 0 /\ Cardinality(ActiveThen(cur, rest)) >= m_playerLimit
    BY <2>1, SlotsAfterPassing
  <2> QED  BY <2>1, <2>2, <2>3, <2>4 DEF NoIdleSlot
<1>3. CASE KickAll
  BY <1>3 DEF KickAll, NoIdleSlot
<1>4. ASSUME m_QueuedPlayer' = m_QueuedPlayer, Active' = Active
      PROVE  NoIdleSlot'
  BY <1>4 DEF NoIdleSlot
<1>5. ASSUME ~AddSession_, ~RemoveOver, ~KickAll
      PROVE  m_QueuedPlayer' = m_QueuedPlayer /\ Active' = Active
  BY <1>5, OthersKeepSlots
<1> QED  BY <1>1, <1>2, <1>3, <1>4, <1>5

\* The world is shut down once.
LEMMA StageIs ==
  ASSUME IInv, [Next]_vars, stage' = "running"
  PROVE  stage = "running"
BY DEF IInv, TypeOK, Next, UpdateSessions, vars, AddSession, CloseSocket, KickPlayer, Tick,
       BeginUpdateSessions, RejectSession, AddSession_, AddDone, Visit, PlayerLogin,
       OtherPackets, ProcessQueryCallbacks, LogoutPlayer, KeepSession, RemoveOver,
       UpdateDone, KickAll, SetPlayerAmountLimit

\* Neither are there more without privilege than the limit allows, as long as
\* nobody is excused for having been there a moment ago.
LEMMA LimitKeeps ==
  ASSUME Tolerance = 0, IInv, NoIdleSlot, WithinLimit, [Next]_vars,
         m_playerLimit' = m_playerLimit
  PROVE  WithinLimit'
<1> USE SessionAssumption
<1> DEFINE Unprivileged(S) == {s \in S : AccountOf[s] \notin Privileged}
<1> SUFFICES ASSUME stage' = "running", m_playerLimit > 0
             PROVE  Cardinality(Unprivileged(Active')) <= m_playerLimit
  BY DEF WithinLimit
<1>1. stage = "running"
  BY StageIs
<1>2. IsFiniteSet(Active) /\ m_playerLimit \in Nat
  BY Counts DEF IInv, TypeOK
<1>3. ASSUME NEW S, IsFiniteSet(S), S \subseteq Active \/ Cardinality(S) <= m_playerLimit
      PROVE  /\ IsFiniteSet(Unprivileged(S)) /\ Cardinality(Unprivileged(S)) \in Nat
             /\ Cardinality(Unprivileged(S)) <= m_playerLimit
             /\ Cardinality(Unprivileged(S)) <= Cardinality(S) /\ Cardinality(S) \in Nat
  <2>1. /\ IsFiniteSet(Unprivileged(S)) /\ Cardinality(Unprivileged(S)) <= Cardinality(S)
        /\ Cardinality(Unprivileged(S)) \in Nat /\ Cardinality(S) \in Nat
    BY <1>3, FS_Subset, FS_CardinalityType
  <2>2. CASE S \subseteq Active
    <3>1. Cardinality(Unprivileged(Active)) <= m_playerLimit
      BY <1>1 DEF WithinLimit
    <3>2. IsFiniteSet(Unprivileged(Active)) /\ Unprivileged(S) \subseteq Unprivileged(Active)
      BY <1>2, <2>2, FS_Subset
    <3>3. /\ Cardinality(Unprivileged(S)) <= Cardinality(Unprivileged(Active))
          /\ Cardinality(Unprivileged(Active)) \in Nat
      BY <3>2, FS_Subset, FS_CardinalityType
    <3> HIDE DEF Unprivileged
    <3> QED  BY <1>2, <2>1, <3>1, <3>3
  <2>3. CASE Cardinality(S) <= m_playerLimit
    <3> HIDE DEF Unprivileged
    <3> QED  BY <1>2, <2>1, <2>3
  <2> QED  BY <1>3, <2>1, <2>2, <2>3
<1>4. CASE AddSession_
  <2> DEFINE s == Head(addSessQueue)
  <2>1. PICK B : \E rest : \E waits \in BOOLEAN :
          /\ IsFiniteSet(B) /\ s \notin B
          /\ Active' = (IF waits THEN B ELSE B \cup {s})
          /\ B \subseteq Active \/ Cardinality(B) <= m_playerLimit
          /\ waits \/ m_playerLimit = 0 \/ Cardinality(B) < m_playerLimit
             \/ AccountOf[s] \in Privileged \/ RecentlyDisconnected(AccountOf[s])
    BY <1>4, SlotsAfterAdding
  <2> HIDE DEF s
  <2>2. IsFiniteSet(B) /\ (B \subseteq Active \/ Cardinality(B) <= m_playerLimit)
    BY <2>1
  <2>3. Cardinality(Unprivileged(B)) <= m_playerLimit
    BY <2>2, <1>3
  <2>4. ~RecentlyDisconnected(AccountOf[s])
    BY DEF RecentlyDisconnected
  <2>5. CASE Active' = B
    BY <2>3, <2>5
  <2>6. CASE Active' = B \cup {s} /\ AccountOf[s] \in Privileged
    <3>1. Unprivileged(Active') = Unprivileged(B)
      BY <2>6
    <3> QED  BY <2>3, <3>1
  <2>7. CASE Active' = B \cup {s} /\ AccountOf[s] \notin Privileged
             /\ Cardinality(B) < m_playerLimit
    <3>1. Unprivileged(Active') = Unprivileged(B) \cup {s} /\ s \notin Unprivileged(B)
      BY <2>1, <2>7
    <3>2. /\ IsFiniteSet(Unprivileged(B)) /\ Cardinality(Unprivileged(B)) \in Nat
          /\ Cardinality(Unprivileged(B)) <= Cardinality(B) /\ Cardinality(B) \in Nat
      BY <2>2, <1>3
    <3> HIDE DEF Unprivileged
    <3>3. Cardinality(Unprivileged(Active')) = Cardinality(Unprivileged(B)) + 1
      BY <3>1, <3>2, FS_AddElement
    <3> QED  BY <1>2, <2>7, <3>2, <3>3
  <2>8. \/ Active' = B
        \/ Active' = B \cup {s} /\ AccountOf[s] \in Privileged
        \/ Active' = B \cup {s} /\ AccountOf[s] \notin Privileged /\ Cardinality(B) < m_playerLimit
    <3>1. m_playerLimit # 0
      BY <1>2
    <3> QED  BY <2>1, <2>4, <3>1, Zenon
  <2> QED  BY <2>5, <2>6, <2>7, <2>8
<1>5. CASE RemoveOver
  <2>1. PICK rest : /\ Range(rest) \subseteq Queued \ {cur}
                    /\ cur \in ListedSessions /\ Passes(cur, rest)
                    /\ Active' = ActiveThen(cur, rest)
    BY <1>5, SlotsAfterRemoving
  <2>2. /\ IsFiniteSet(Active')
        /\ Active' \subseteq Active \/ Cardinality(Active') <= m_playerLimit
    BY <2>1, SlotsAfterPassing
  <2> QED  BY <2>2, <1>3
<1>6. CASE KickAll
  BY <1>6 DEF KickAll
<1>7. ASSUME ~AddSession_, ~RemoveOver, ~KickAll
      PROVE  Active' = Active
  BY <1>7, OthersKeepSlots
<1> QED  BY <1>1, <1>2, <1>3, <1>4, <1>5, <1>6, <1>7

\* However sessions are added, replaced and removed, nobody waits while fewer
\* are active than the limit allows: both subtractions of AddSession_, and
\* RemoveQueuedPlayer called twice by RemoveOver, count the sessions right. The
\* limit is the configured one: SetPlayerAmountLimit lets nobody in by itself.
THEOREM NoSlotIsIdle == Spec /\ [](m_playerLimit = InitialLimit) => []NoIdleSlot
<1>1. Init => NoIdleSlot
  BY DEF Init, NoIdleSlot
<1>2. /\ IInv /\ NoIdleSlot /\ [Next]_vars
      /\ m_playerLimit = InitialLimit /\ (m_playerLimit = InitialLimit)'
      => NoIdleSlot'
  BY SlotsKeep
<1> QED  BY <1>1, <1>2, Invariant, PTL DEF Spec

\* In addition the players without privilege are never more than the limit,
\* when no recently disconnected one is let past the queue.
THEOREM SlotsAreAllUsed ==
  ASSUME Tolerance = 0
  PROVE  Spec /\ [](m_playerLimit = InitialLimit) => []SlotsAreUsed
<1>1. Init => NoIdleSlot /\ WithinLimit
  <2> SUFFICES ASSUME Init PROVE NoIdleSlot /\ WithinLimit
    OBVIOUS
  <2>1. Active = {}
    BY DEF Init, Active
  <2>2. {s \in Active : AccountOf[s] \notin Privileged} = {}
    BY <2>1
  <2>3. m_QueuedPlayer = <<>> /\ m_playerLimit \in Nat
    BY SessionAssumption DEF Init
  <2>4. Cardinality({s \in Active : AccountOf[s] \notin Privileged}) = 0
    BY <2>2, FS_EmptySet
  <2> QED  BY <2>3, <2>4 DEF NoIdleSlot, WithinLimit
<1>2. /\ IInv /\ NoIdleSlot /\ WithinLimit /\ [Next]_vars
      /\ m_playerLimit = InitialLimit /\ (m_playerLimit = InitialLimit)'
      => NoIdleSlot' /\ WithinLimit'
  BY SlotsKeep, LimitKeeps
<1>3. SlotsAreUsed <=> NoIdleSlot /\ WithinLimit
  BY DEF SlotsAreUsed
<1> QED  BY <1>1, <1>2, <1>3, Invariant, PTL DEF Spec

\* Who passes when a session leaves is the first of the queue.
LEMMA TheFirstPasses ==
  ASSUME IInv, NEW s \in ListedSessions, NEW rest, Passes(s, rest),
         NEW x \in Queued, x \notin Range(rest), x # s, NEW t
  PROVE  ~Waits(t, x)
<1> DEFINE q == m_QueuedPlayer
<1>1. q \in Seq(Session) /\ IsInjective(q)
  BY DEF IInv, TypeOK, QueueIsLive
<1>2. rest # q
  BY DEF Queued
<1>3. rest # Without(q, s)
  <2>1. Range(Without(q, s)) = Queued \ {s}
    BY <1>1, WithoutIs DEF Queued
  <2> QED  BY <2>1
<1>4. q # <<>> /\ rest = Tail(q)
  BY <1>2, <1>3 DEF Passes
<1>5. Queued = {Head(q)} \cup Range(Tail(q))
  BY <1>1, <1>4, RangeTail DEF Queued
<1>6. x = q[1]
  BY <1>1, <1>4, <1>5
<1>7. DOMAIN q = 1..Len(q)
  BY <1>1
<1> QED  BY <1>6, <1>7 DEF Waits

\* A step lets nobody in before someone who waits for longer, and goes on
\* waiting.
LEMMA NobodyOvertakes ==
  ASSUME IInv, NoIdleSlot, Next, IInv',
         NEW s \in Session, phase[s] = "no", phase'[s] = "begun",
         AccountOf[s] \notin Privileged, ~RecentlyDisconnected(AccountOf[s]),
         NEW t \in Queued, Waits(t, s)
  PROVE  t \notin Queued'
<1> USE SessionAssumption
<1>1. CASE AddSession_
  <2> DEFINE new == Head(addSessQueue)
             old == m_sessions[AccountOf[new]]
             rest == QueueWithout(old)
  <2>1. s = new \/ s \in Queued \ (Range(rest) \cup {old})
    BY <1>1 DEF AddSession_, Initialized, Queued
  <2>2. CASE s = new
    <3>1. PICK B, over : \E waits \in BOOLEAN :
            /\ IsFiniteSet(B) /\ Cardinality(B) \in Nat
            /\ m_QueuedPlayer' = (IF waits THEN Append(over, s) ELSE over)
            /\ over # <<>> \/ waits => m_playerLimit > 0 /\ Cardinality(B) >= m_playerLimit
            /\ waits \/ m_playerLimit = 0 \/ Cardinality(B) < m_playerLimit
               \/ AccountOf[s] \in Privileged \/ RecentlyDisconnected(AccountOf[s])
      BY <1>1, <2>2, SlotsAfterAdding
    <3>2. PICK waits \in BOOLEAN :
            /\ Cardinality(B) \in Nat
            /\ m_QueuedPlayer' = (IF waits THEN Append(over, s) ELSE over)
            /\ over # <<>> \/ waits => m_playerLimit > 0 /\ Cardinality(B) >= m_playerLimit
            /\ waits \/ m_playerLimit = 0 \/ Cardinality(B) < m_playerLimit
      BY <3>1, Zenon
    <3>3. m_playerLimit \in Nat
      BY DEF IInv, TypeOK
    <3>4. s \notin Queued'
      BY DEF IInv, QueueIsLive
    <3>5. CASE waits
      <4>1. m_QueuedPlayer' = Append(over, s) /\ m_QueuedPlayer' \in Seq(Session)
        BY <3>2, <3>5 DEF IInv, TypeOK
      <4> QED  BY <3>4, <4>1 DEF Queued, Range
    <3>6. CASE ~waits
      <4>1. over = <<>>
        BY <3>2, <3>3, <3>6
      <4>2. m_QueuedPlayer' = <<>>
        BY <3>2, <3>6, <4>1
      <4> QED  BY <4>2, EmptySequence DEF Queued
    <3> QED  BY <3>5, <3>6
  <2>3. CASE s \in Queued \ (Range(rest) \cup {old})
    <3>1. old # NoSession
      BY <2>3 DEF QueueWithout, Queued
    <3>2. old \in ListedSessions
      BY <1>1, <3>1, NewcomerIs, ReplacedIs DEF ListedSessions, AddSession_
    <3>3. Passes(old, rest)
      BY <3>1, <3>2, RemovingPasses DEF QueueWithout
    <3> HIDE DEF old, rest
    <3> QED  BY <2>3, <3>2, <3>3, TheFirstPasses
  <2> QED  BY <2>1, <2>2, <2>3
<1>2. CASE RemoveOver
  <2>1. PICK rest : /\ m_QueuedPlayer' = rest /\ cur \in ListedSessions /\ Passes(cur, rest)
    BY <1>2, SlotsAfterRemoving
  <2>2. s \in Queued \ (Range(QueueAfter(cur)) \cup {cur}) /\ m_QueuedPlayer' = QueueAfter(cur)
    BY <1>2 DEF RemoveOver, Initialized, Queued
  <2> QED  BY <2>1, <2>2, TheFirstPasses
<1>3. ASSUME ~AddSession_, ~RemoveOver
      PROVE  phase'[s] # "begun"
  BY <1>3 DEF IInv, TypeOK, Next, UpdateSessions, AddSession, CloseSocket, KickPlayer, Tick,
       BeginUpdateSessions, RejectSession, AddDone, Visit, PlayerLogin,
       OtherPackets, ProcessQueryCallbacks, LogoutPlayer, KeepSession,
       UpdateDone, KickAll, SetPlayerAmountLimit, session
<1> QED  BY <1>1, <1>2, <1>3

\* Nobody is let in before someone who waited for longer and goes on waiting,
\* the privileged and the recently disconnected excepted, whoever leaves the
\* queue from whatever place.
THEOREM NobodyIsOvertaken == Spec /\ [](m_playerLimit = InitialLimit) => NoOvertaking
<1> DEFINE Fair == \A s \in Session : phase[s] = "no" /\ phase'[s] = "begun" =>
       \/ AccountOf[s] \in Privileged \/ RecentlyDisconnected(AccountOf[s])
       \/ \A t \in Queued : Waits(t, s) => t \notin Queued'
<1>1. IInv /\ IInv' /\ NoIdleSlot /\ [Next]_vars => [Fair]_vars
  BY NobodyOvertakes
<1>2. NoOvertaking <=> [][Fair]_vars
  BY DEF NoOvertaking
<1> QED  BY <1>1, <1>2, Invariant, NoSlotIsIdle, PTL DEF Spec
=============================================================================
