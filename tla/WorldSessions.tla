----------------------------- MODULE WorldSessions -----------------------------
(***************************************************************************)
(* How World admits, queues, replaces and removes sessions. Network        *)
(* threads hand over sessions whose client has been authenticated          *)
(* (addSessQueue) and may lose their sockets at any moment. The world's    *)
(* thread alone changes m_sessions and the queue of those waiting for a    *)
(* slot: UpdateSessions first adds what was handed over, then updates each *)
(* session (packets, query callbacks, logout, socket cleanup) and removes  *)
(* those that are over. At shutdown KickAll and one more UpdateSessions    *)
(* empty the world.                                                        *)
(***************************************************************************)
EXTENDS Integers, SequencesExt

CONSTANTS
  Session,      \* the WorldSession objects
  Account,
  AccountOf,    \* _accountId of each session
  Privileged,   \* accounts with RBAC_PERM_SKIP_QUEUE
  NoSession,
  InitialLimit, \* PlayerLimit of the configuration, 0 for none
  Limits,       \* bound: what SetPlayerAmountLimit may set later
  Tolerance,    \* DisconnectToleranceInterval, 0 to disable it
  MaxTime,      \* bound: seconds that pass
  Linger        \* updates a player stays in the world after his socket closed

Never == -1

ASSUME SessionAssumption ==
  /\ AccountOf \in [Session -> Account] /\ Privileged \subseteq Account
  /\ NoSession \notin Session
  /\ IsFiniteSet(Account)  \* they are numbered by a uint32
  /\ InitialLimit \in Nat /\ Limits \subseteq Nat
  /\ Tolerance \in Nat /\ MaxTime \in Nat /\ Linger \in Nat

VARIABLES
  place,          \* each session: "new", "submitted", "listed" or "deleted"
  open,           \* is the socket open?
  forceExit,      \* set by KickPlayer
  lingering,      \* updates left of expireTime
  m_inQueue,      \* the session's own flag
  phase,          \* InitializeSession: "no", "begun" or "done"
  player,         \* "none", "chars" (enumerated), "loading", "refused" (still
                  \* marked as loading, nothing under way) or "in" the world
  addSessQueue, m_sessions, m_QueuedPlayer, m_disconnects, m_playerLimit,
  world,          \* control of the world's thread
  toVisit, cur,   \* UpdateSessions: accounts not visited yet, session visited
  stage,          \* "running", "kicked" (after KickAll) or "stopped"
  now

session == <<place, open, forceExit, lingering, m_inQueue, phase, player>>
lists == <<addSessQueue, m_sessions, m_QueuedPlayer, m_disconnects>>
thread == <<world, toVisit, cur>>
vars == <<session, lists, m_playerLimit, thread, stage, now>>

Init ==
  /\ place = [s \in Session |-> "new"] /\ open = [s \in Session |-> FALSE]
  /\ forceExit = [s \in Session |-> FALSE] /\ lingering = [s \in Session |-> Linger]
  /\ m_inQueue = [s \in Session |-> FALSE] /\ phase = [s \in Session |-> "no"]
  /\ player = [s \in Session |-> "none"]
  /\ addSessQueue = <<>> /\ m_sessions = [a \in Account |-> NoSession]
  /\ m_QueuedPlayer = <<>> /\ m_disconnects = [a \in Account |-> Never]
  /\ m_playerLimit = InitialLimit
  /\ world = "idle" /\ toVisit = {} /\ cur = NoSession
  /\ stage = "running" /\ now = 0

Listed == {a \in Account : m_sessions[a] # NoSession}
SessionCount == Cardinality(Listed)

\* m_playerLoading.
Loading == {"loading", "refused"}

-----------------------------------------------------------------------------
(* Network threads, time *)

\* WorldSocket::LoadSessionPermissionsCallback.
AddSession(s) ==
  /\ place[s] = "new" /\ stage # "stopped"
  /\ place' = [place EXCEPT ![s] = "submitted"]
  /\ open' = [open EXCEPT ![s] = TRUE]
  /\ addSessQueue' = Append(addSessQueue, s)
  /\ UNCHANGED <<forceExit, lingering, m_inQueue, phase, player,
                 m_sessions, m_QueuedPlayer, m_disconnects, m_playerLimit, thread, stage, now>>

\* The client disconnects, or breaks the protocol.
CloseSocket(s) ==
  /\ open[s] /\ open' = [open EXCEPT ![s] = FALSE]
  /\ UNCHANGED <<place, forceExit, lingering, m_inQueue, phase, player,
                 lists, m_playerLimit, thread, stage, now>>

Tick ==
  /\ now < MaxTime /\ now' = now + 1
  /\ UNCHANGED <<session, lists, m_playerLimit, thread, stage>>

-----------------------------------------------------------------------------
(* The queue *)

\* Mutant: the departing session is counted too.
CountedWithDeparting(q, s) == SessionCount - Len(q)

\* RemoveQueuedPlayer(s) on queue q: the sessions it counts, s taken away, and
\* the first of the others popped if there is a slot.
Counted(q, s) ==
  LET active == SessionCount - Len(q)
  IN  IF s \in Range(q) \/ active = 0 THEN active ELSE active - 1

\* Where the search finds s: a session is queued once (QueueIsLive).
Position(q, s) == CHOOSE i \in DOMAIN q : q[i] = s

Without(q, s) == IF s \in Range(q) THEN RemoveAt(q, Position(q, s)) ELSE q

\* Mutant: the slot is given to the last of the queue.
PopLast(q) == SubSeq(q, 1, Len(q) - 1)

Pop(q) == Tail(q)

RemoveQueued(q, s) ==
  LET rest == Without(q, s)
  IN  IF (m_playerLimit = 0 \/ Counted(q, s) < m_playerLimit) /\ rest # <<>>
      THEN Pop(rest) ELSE rest

\* InitializeSession of those in S; gone is deleted.
Initialized(S, gone) ==
  [s \in Session |-> IF s \in S THEN "begun" ELSE IF s = gone THEN "no" ELSE phase[s]]

\* As the code has it: the difference is never positive.
RecentlyDisconnected(a) ==
  /\ Tolerance > 0 /\ m_disconnects[a] # Never
  /\ m_disconnects[a] - now < Tolerance

-----------------------------------------------------------------------------
(* AddSession_ *)

\* What a deleted session leaves behind.
Deleted(S) ==
  /\ open' = [s \in Session |-> open[s] /\ s \notin S]
  /\ forceExit' = [s \in Session |-> forceExit[s] /\ s \notin S]
  /\ lingering' = [s \in Session |-> IF s \in S THEN 0 ELSE lingering[s]]
  /\ player' = [s \in Session |-> IF s \in S THEN "none" ELSE player[s]]

BeginUpdateSessions ==
  /\ world = "idle" /\ stage # "stopped"
  /\ world' = "add"
  /\ UNCHANGED <<session, lists, m_playerLimit, toVisit, cur, stage, now>>

\* RemoveSession fails: a character of the account is being loaded.
RejectSession ==
  LET s == Head(addSessQueue)
      old == m_sessions[AccountOf[s]]
  IN /\ world = "add" /\ addSessQueue # <<>>
     /\ old # NoSession /\ player[old] \in Loading
     /\ addSessQueue' = Tail(addSessQueue)
     /\ place' = [place EXCEPT ![s] = "deleted"]
     /\ Deleted({s})
     /\ UNCHANGED <<m_inQueue, phase, m_sessions, m_QueuedPlayer, m_disconnects,
                    m_playerLimit, thread, stage, now>>

\* Mutants: the old session keeps its place in the queue; it is replaced although
\* its character is being loaded.
LeaveInQueue(old) == m_QueuedPlayer
ReplaceLoading(old) == TRUE

QueueWithout(old) ==
  IF old = NoSession THEN m_QueuedPlayer ELSE RemoveQueued(m_QueuedPlayer, old)

Replaceable(old) == old # NoSession => player[old] \notin Loading

\* Sessions as AddSession_ counts them: not the newcomer, unless he replaces a
\* session that was in the queue.
Others(a, old) ==
  Cardinality(Listed \cup {a}) - (IF old \in Range(m_QueuedPlayer) THEN 0 ELSE 1)

Full(a, old) == m_playerLimit > 0 /\ Others(a, old) >= m_playerLimit

AddSession_ ==
  LET s == Head(addSessQueue)
      a == AccountOf[s]
      old == m_sessions[a]
      queue == QueueWithout(old)
      popped == Range(m_QueuedPlayer) \ (Range(queue) \cup {old})
      waits == Full(a, old) /\ a \notin Privileged /\ ~RecentlyDisconnected(a)
  IN /\ world = "add" /\ addSessQueue # <<>> /\ Replaceable(old)
     /\ addSessQueue' = Tail(addSessQueue)
     /\ m_sessions' = [m_sessions EXCEPT ![a] = s]
     /\ place' = [x \in Session |->
                    IF x = s THEN "listed" ELSE IF x = old THEN "deleted" ELSE place[x]]
     /\ Deleted({old})
     /\ m_QueuedPlayer' = IF waits THEN Append(queue, s) ELSE queue
     /\ m_inQueue' = [x \in Session |-> IF x = s THEN waits ELSE x # old /\ m_inQueue[x]]
     /\ phase' = Initialized(IF waits THEN popped ELSE popped \cup {s}, old)
     /\ UNCHANGED <<m_disconnects, m_playerLimit, thread, stage, now>>

AddDone ==
  /\ world = "add" /\ addSessQueue = <<>>
  /\ world' = "next" /\ toVisit' = Listed
  /\ UNCHANGED <<session, lists, m_playerLimit, cur, stage, now>>

-----------------------------------------------------------------------------
(* WorldSession::Update *)

Kick(s) ==
  /\ open' = [open EXCEPT ![s] = FALSE]
  /\ forceExit' = [forceExit EXCEPT ![s] = TRUE]

\* It begins by closing the socket of a client that has been silent too long,
\* unless he is in the queue.
Visit(a, silent) ==
  LET s == m_sessions[a]
  IN /\ world = "next" /\ a \in toVisit
     /\ silent => ~m_inQueue[s]
     /\ cur' = s /\ toVisit' = toVisit \ {a} /\ world' = "packets"
     /\ open' = IF silent THEN [open EXCEPT ![s] = FALSE] ELSE open
     /\ UNCHANGED <<place, forceExit, lingering, m_inQueue, phase, player,
                    lists, m_playerLimit, stage, now>>

\* STATUS_AUTHED: "prevent cheating with skip queue wait".
Handled(s) == ~m_inQueue[s]

\* HandlePlayerLoginOpcode, with a character of the account or not; a client
\* that is refused is kicked and stays marked as loading.
PlayerLogin(legit) ==
  /\ world = "packets" /\ world' = "callbacks"
  /\ Handled(cur)
  /\ legit => player[cur] = "chars"
  /\ IF player[cur] \in Loading \cup {"in"} THEN Kick(cur) /\ UNCHANGED player
     ELSE IF legit
     THEN player' = [player EXCEPT ![cur] = "loading"] /\ UNCHANGED <<open, forceExit>>
     ELSE player' = [player EXCEPT ![cur] = "refused"] /\ Kick(cur)
  /\ UNCHANGED <<place, lingering, m_inQueue, phase, lists, m_playerLimit,
                 toVisit, cur, stage, now>>

OtherPackets ==
  /\ world = "packets" /\ world' = "callbacks"
  /\ UNCHANGED <<session, lists, m_playerLimit, toVisit, cur, stage, now>>

\* ProcessQueryCallbacks: the results that happen to be there.
ProcessQueryCallbacks(done) ==
  /\ world = "callbacks" /\ world' = "cleanup"
  /\ Cardinality(done \ {"init"}) <= 1
  /\ "init" \in done => phase[cur] = "begun"
  /\ "enum" \in done => player[cur] = "none" /\ ~m_inQueue[cur]
  /\ {"login", "failed"} \cap done # {} => player[cur] = "loading"
  /\ IF "init" \in done
     THEN /\ phase' = [phase EXCEPT ![cur] = "done"]
          /\ m_inQueue' = [m_inQueue EXCEPT ![cur] = FALSE]
     ELSE UNCHANGED <<phase, m_inQueue>>
  /\ CASE "enum" \in done -> player' = [player EXCEPT ![cur] = "chars"]
       [] "login" \in done -> player' = [player EXCEPT ![cur] = "in"]
       [] "failed" \in done -> player' = [player EXCEPT ![cur] = "chars"]
       [] OTHER -> UNCHANGED player
  /\ IF "failed" \in done THEN Kick(cur) ELSE UNCHANGED <<open, forceExit>>
  /\ UNCHANGED <<place, lingering, lists, m_playerLimit, toVisit, cur, stage, now>>

\* The logout the player asked for is due.
LogoutPlayer ==
  /\ world = "cleanup" /\ player[cur] = "in"
  /\ player' = [player EXCEPT ![cur] = "chars"]
  /\ UNCHANGED <<place, open, forceExit, lingering, m_inQueue, phase, lists,
                 m_playerLimit, thread, stage, now>>

\* Mutant: a session whose socket has gone waits to be told to exit.
OverIfForced(s) == ~open[s] /\ forceExit[s]

Over(s) == ~open[s] /\ (lingering[s] = 0 \/ forceExit[s] \/ player[s] # "in")

KeepSession ==
  /\ world = "cleanup" /\ ~Over(cur)
  /\ lingering' = IF open[cur] THEN lingering ELSE [lingering EXCEPT ![cur] = IF @ > 0 THEN @ - 1 ELSE 0]
  /\ world' = "next" /\ cur' = NoSession
  /\ UNCHANGED <<place, open, forceExit, m_inQueue, phase, player, lists,
                 m_playerLimit, toVisit, stage, now>>

\* RemoveQueuedPlayer is called twice.
QueueAfter(s) == RemoveQueued(RemoveQueued(m_QueuedPlayer, s), s)

DisconnectTime == now

Erase(s) == m_sessions' = [m_sessions EXCEPT ![AccountOf[s]] = NoSession]

RemoveOver ==
  LET queue == QueueAfter(cur)
      popped == Range(m_QueuedPlayer) \ (Range(queue) \cup {cur})
  IN /\ world = "cleanup" /\ Over(cur)
     /\ m_QueuedPlayer' = queue
     /\ phase' = Initialized(popped, cur)
     /\ m_inQueue' = [m_inQueue EXCEPT ![cur] = FALSE]
     /\ m_disconnects' =
          IF cur \notin Range(m_QueuedPlayer) /\ Tolerance > 0
          THEN [m_disconnects EXCEPT ![AccountOf[cur]] = DisconnectTime] ELSE m_disconnects
     /\ Erase(cur)
     /\ place' = [place EXCEPT ![cur] = "deleted"]
     /\ Deleted({cur})
     /\ world' = "next" /\ cur' = NoSession
     /\ UNCHANGED <<addSessQueue, m_playerLimit, toVisit, stage, now>>

UpdateDone ==
  /\ world = "next" /\ toVisit = {}
  /\ world' = "idle"
  /\ stage' = IF stage = "kicked" THEN "stopped" ELSE stage
  /\ UNCHANGED <<session, lists, m_playerLimit, toVisit, cur, now>>

-----------------------------------------------------------------------------
(* Between the updates: commands and the end *)

KickPlayer(s) ==
  /\ world = "idle" /\ stage = "running" /\ place[s] = "listed"
  /\ Kick(s)
  /\ UNCHANGED <<place, lingering, m_inQueue, phase, player, lists, m_playerLimit,
                 thread, stage, now>>

SetPlayerAmountLimit(n) ==
  /\ world = "idle" /\ stage = "running"
  /\ m_playerLimit' = n
  /\ UNCHANGED <<session, lists, thread, stage, now>>

\* Mutant: sockets are closed, and players linger.
CloseAll(S) ==
  /\ open' = [s \in Session |-> open[s] /\ s \notin S]
  /\ UNCHANGED forceExit

KickEach(S) ==
  /\ open' = [s \in Session |-> open[s] /\ s \notin S]
  /\ forceExit' = [s \in Session |-> forceExit[s] \/ s \in S]

KickAll ==
  /\ world = "idle" /\ stage = "running"
  /\ stage' = "kicked"
  /\ m_QueuedPlayer' = <<>>
  /\ KickEach({m_sessions[a] : a \in Listed})
  /\ UNCHANGED <<place, lingering, m_inQueue, phase, player, addSessQueue, m_sessions,
                 m_disconnects, m_playerLimit, thread, now>>

UpdateSessions ==
  \/ BeginUpdateSessions \/ RejectSession \/ AddSession_ \/ AddDone
  \/ \E a \in Account, silent \in BOOLEAN : Visit(a, silent)
  \/ (\E legit \in BOOLEAN : PlayerLogin(legit)) \/ OtherPackets
  \/ \E done \in SUBSET {"init", "enum", "login", "failed"} : ProcessQueryCallbacks(done)
  \/ LogoutPlayer \/ KeepSession \/ RemoveOver \/ UpdateDone

Next ==
  \/ \E s \in Session : AddSession(s) \/ CloseSocket(s) \/ KickPlayer(s)
  \/ Tick \/ UpdateSessions \/ KickAll
  \/ \E n \in Limits : SetPlayerAmountLimit(n)

Spec == Init /\ [][Next]_vars

\* The world's loop runs; network, clients and console may do nothing.
FairSpec == Spec /\ WF_vars(UpdateSessions)

-----------------------------------------------------------------------------
(* Properties *)

TypeOK ==
  /\ place \in [Session -> {"new", "submitted", "listed", "deleted"}]
  /\ open \in [Session -> BOOLEAN] /\ forceExit \in [Session -> BOOLEAN]
  /\ lingering \in [Session -> 0..Linger]
  /\ m_inQueue \in [Session -> BOOLEAN]
  /\ phase \in [Session -> {"no", "begun", "done"}]
  /\ player \in [Session -> {"none", "chars", "loading", "refused", "in"}]
  /\ addSessQueue \in Seq(Session) /\ m_QueuedPlayer \in Seq(Session)
  /\ m_sessions \in [Account -> Session \cup {NoSession}]
  /\ m_disconnects \in [Account -> {Never} \cup 0..MaxTime]
  /\ m_playerLimit \in {InitialLimit} \cup Limits
  /\ world \in {"idle", "add", "next", "packets", "callbacks", "cleanup"}
  /\ toVisit \subseteq Account /\ cur \in Session \cup {NoSession}
  /\ stage \in {"running", "kicked", "stopped"} /\ now \in 0..MaxTime

Queued == Range(m_QueuedPlayer)
Active == {s \in Session : place[s] = "listed" /\ s \notin Queued}

\* A session exists in one place: what the network handed over and what is
\* listed under its account is all there is, and nothing that was deleted can
\* still be reached (AddSession_ deletes the session it replaces).
SessionsAreOwned ==
  /\ \A s \in Session : place[s] = "listed" <=> m_sessions[AccountOf[s]] = s
  /\ \A s \in Session : place[s] = "submitted" <=> s \in Range(addSessQueue)
  /\ IsInjective(addSessQueue)

\* The queue holds each waiting session once and no session that is gone; who
\* waits there has neither been initialized nor come by a character.
QueueIsLive ==
  /\ IsInjective(m_QueuedPlayer)
  /\ \A s \in Queued : /\ m_sessions[AccountOf[s]] = s
                       /\ m_inQueue[s] /\ phase[s] = "no" /\ player[s] = "none"

\* All of it, and the types: no list leads to a session that is gone.
NothingDangles == TypeOK /\ SessionsAreOwned /\ QueueIsLive

\* "Maximum number of players in the world. Excluding Mods, GMs and Admins."
WithinLimit ==
  stage = "running" /\ m_playerLimit > 0 =>
    Cardinality({s \in Active : AccountOf[s] \notin Privileged}) <= m_playerLimit

\* Nobody waits while a slot is free, after whatever sessions came and went.
NoIdleSlot ==
  m_QueuedPlayer # <<>> => m_playerLimit > 0 /\ Cardinality(Active) >= m_playerLimit

\* Both: the two subtractions in AddSession_ are right.
SlotsAreUsed == WithinLimit /\ NoIdleSlot

\* Nobody is let in before someone who waited for longer, the privileged and
\* the recently disconnected excepted.
Waits(t, s) ==  \* t has waited for longer than s
  \E i \in DOMAIN m_QueuedPlayer :
    m_QueuedPlayer[i] = t /\ \A j \in 1..i : m_QueuedPlayer[j] # s

NoOvertaking ==
  [][\A s \in Session : phase[s] = "no" /\ phase'[s] = "begun" =>
       \/ AccountOf[s] \in Privileged \/ RecentlyDisconnected(AccountOf[s])
       \/ \A t \in Queued : Waits(t, s) => t \notin Queued']_vars

\* A session whose character is being loaded is removed only after it lost its
\* socket, not because the account logged in once more.
LoadingIsNotReplaced ==
  [][\A s \in Session : player[s] \in Loading /\ place'[s] = "deleted" => ~open[s]]_vars

\* "save and kick all players": when the network is stopped nobody is left in
\* the world, whoever connected during the last update.
EveryoneIsSaved == stage = "stopped" => \A s \in Session : player[s] # "in"

\* Sessions handed over are taken on or refused, and those that lost their
\* sockets are removed.
SessionsEnd ==
  <>[](stage = "stopped" \/ \A s \in Session : place[s] # "submitted"
                                            /\ (place[s] = "listed" => open[s]))

\* "Tolerance (in seconds) for disconnected players before reentering the
\* queue": who is let into a full world without privilege has disconnected
\* less than that many seconds ago.
ToleranceExpires ==
  [][\A s \in Session :
       LET a == AccountOf[s]
       IN  /\ place[s] = "submitted" /\ phase'[s] = "begun"
           /\ a \notin Privileged /\ Full(a, m_sessions[a])
           => m_disconnects[a] # Never /\ now - m_disconnects[a] < Tolerance]_vars
=============================================================================
