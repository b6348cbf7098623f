--------------------------- MODULE SynchConnections ---------------------------
(***************************************************************************)
(* The synchronous side of DatabaseWorkerPool: any thread that needs an    *)
(* answer at once (Query, DirectExecute, DirectCommitTransaction) spins    *)
(* over the connections until the try_lock of one of them succeeds, uses   *)
(* it and unlocks it. KeepAlive, called by the world's thread, pings those *)
(* connections it can lock and skips the others.                           *)
(***************************************************************************)
EXTENDS Naturals

CONSTANTS
  Caller,       \* the threads: world, map updates, network, console
  SynchThreads, \* how many synchronous connections there are
  World,        \* the thread that calls KeepAlive
  KeepAlives,   \* bound: how often KeepAlive is called, minutes apart
  Indices,      \* bound: how many values the uint8 index takes, 256 in the code
  Nobody

SynchAssumption ==
  /\ SynchThreads \in 1..32 /\ Indices \in Nat /\ Indices >= SynchThreads
  /\ KeepAlives \in Nat
  /\ World \in Caller /\ Nobody \notin Caller

Connection == 0..(SynchThreads - 1)

VARIABLES
  pc,      \* "idle", "spin" (GetFreeConnection), "use", "keep" (KeepAlive), "ping"
  i,       \* the index of GetFreeConnection, the position of KeepAlive
  m_Mutex, \* who holds each connection
  pings    \* calls of KeepAlive so far

vars == <<pc, i, m_Mutex, pings>>

Init ==
  /\ pc = [c \in Caller |-> "idle"]
  /\ i = [c \in Caller |-> 0]
  /\ m_Mutex = [k \in Connection |-> Nobody]
  /\ pings = 0

GetFreeConnection(c) ==
  /\ pc[c] = "idle"
  /\ pc' = [pc EXCEPT ![c] = "spin"] /\ i' = [i EXCEPT ![c] = 0]
  /\ UNCHANGED <<m_Mutex, pings>>

KeepAlive ==
  /\ pc[World] = "idle" /\ pings < KeepAlives
  /\ pings' = pings + 1
  /\ pc' = [pc EXCEPT ![World] = "keep"] /\ i' = [i EXCEPT ![World] = 0]
  /\ UNCHANGED m_Mutex

\* The connection ++i % num_cons, and the one KeepAlive has come to.
NextIndex(c) == (i[c] + 1) % Indices
Candidate(c) == NextIndex(c) % SynchThreads

\* Mutant: the result of try_lock is ignored, as PrepareStatements does.
LockAnyway(c, k) == m_Mutex' = [m_Mutex EXCEPT ![k] = c]

LockIfReady(c, k) ==
  /\ m_Mutex[k] = Nobody
  /\ m_Mutex' = [m_Mutex EXCEPT ![k] = c]

Locked(c) ==
  /\ pc[c] = "spin" /\ LockIfReady(c, Candidate(c))
  /\ pc' = [pc EXCEPT ![c] = "use"] /\ i' = [i EXCEPT ![c] = Candidate(c)]

\* Mutant: the index stays on the first connection tried.
Insist(c) == UNCHANGED i

Advance(c) == i' = [i EXCEPT ![c] = NextIndex(c)]

Busy(c) ==
  /\ pc[c] = "spin" /\ m_Mutex[Candidate(c)] # Nobody
  /\ Advance(c)
  /\ UNCHANGED <<pc, m_Mutex>>

Release(c) == m_Mutex' = [m_Mutex EXCEPT ![i[c]] = Nobody]

Unlock(c) ==
  /\ pc[c] = "use" /\ Release(c)
  /\ pc' = [pc EXCEPT ![c] = "idle"] /\ i' = [i EXCEPT ![c] = 0]

\* KeepAlive's loop: ping what can be locked, and go on.
PingLocked ==
  /\ pc[World] = "keep" /\ i[World] < SynchThreads
  /\ LockIfReady(World, i[World])
  /\ pc' = [pc EXCEPT ![World] = "ping"] /\ UNCHANGED i

PingSkipped ==
  /\ pc[World] = "keep" /\ i[World] < SynchThreads
  /\ m_Mutex[i[World]] # Nobody
  /\ i' = [i EXCEPT ![World] = @ + 1] /\ UNCHANGED <<pc, m_Mutex>>

PingDone ==
  /\ pc[World] = "ping" /\ Release(World)
  /\ pc' = [pc EXCEPT ![World] = "keep"] /\ i' = [i EXCEPT ![World] = @ + 1]

KeepAliveDone ==
  /\ pc[World] = "keep" /\ i[World] = SynchThreads
  /\ pc' = [pc EXCEPT ![World] = "idle"] /\ i' = [i EXCEPT ![World] = 0]
  /\ UNCHANGED m_Mutex

KeepAliveLoop == PingLocked \/ PingSkipped \/ PingDone \/ KeepAliveDone

Running(c) ==
  /\ Locked(c) \/ Busy(c) \/ Unlock(c) \/ (c = World /\ KeepAliveLoop)
  /\ UNCHANGED pings

Next == \E c \in Caller : GetFreeConnection(c) \/ Running(c) \/ (c = World /\ KeepAlive)

Spec == Init /\ [][Next]_vars

\* Threads that have begun a call are scheduled.
FairSpec == Spec /\ \A c \in Caller : WF_vars(Running(c))

-----------------------------------------------------------------------------
(* Properties *)

TypeOK ==
  /\ pc \in [Caller -> {"idle", "spin", "use", "keep", "ping"}]
  /\ i \in [Caller -> 0..Indices]
  /\ m_Mutex \in [Connection -> Caller \cup {Nobody}]
  /\ pings \in 0..KeepAlives

\* A thread that talks to the server holds the lock of its connection, so that
\* no two of them use one m_Mysql; and no lock is left behind.
OneUser ==
  \A c \in Caller :
    /\ pc[c] \in {"use", "ping"} => m_Mutex[i[c]] = c
    /\ pc[c] \in {"idle", "spin", "keep"} => \A k \in Connection : m_Mutex[k] # c

\* With as many connections as threads, spinning always ends, however the
\* index wraps around and whatever KeepAlive has locked.
SpinEnds == \A c \in Caller : []<>(pc[c] # "spin")
=============================================================================
