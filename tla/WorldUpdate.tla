---------------------------- MODULE WorldUpdate ----------------------------
(* One loop of the world after another (World::Update): the sessions are
   updated by the world's thread, then the maps by the map threads, which
   update the sessions of the players they hold; and the end of the world,
   when the sessions are gone and the map threads are stopped.               *)
EXTENDS PacketDispatch, FiniteSets

CONSTANTS BaseMaps, Instances, NoMap

VARIABLES worldPc, toSchedule, queue, pending, cancel, shutdown, worker, updated,
          due      \* threads that have yet to update the session in their present pass

Maps == INSTANCE MapUpdater WITH Workers <- MapThreads

\* An instance belongs to the map it is an instance of, and to no other.
ASSUME MapsAssumption ==
    /\ IsFiniteSet(MapThreads)      \* MapUpdate.Threads of the configuration
    /\ NoMap \notin Maps!AllMaps
    /\ \A m \in BaseMaps :
          /\ Instances[m] \cap BaseMaps = {}
          /\ \A n \in BaseMaps : m # n => Instances[m] \cap Instances[n] = {}

mapVars == <<worldPc, toSchedule, queue, pending, cancel, shutdown, worker, updated>>
vars == <<sessionVars, mapVars, due>>

TypeOK == SessionTypeOK /\ Maps!MapTypeOK /\ due \subseteq Threads

Init == SessionInit /\ Maps!MapInit /\ due = {World}

\* The session is among the players of the map the worker updates.
Holds(w) ==
    worker[w].pc = "updating" /\ player = "inworld" /\ worker[w].map = place

-----------------------------------------------------------------------------
(* The world's thread *)

\* UpdateSessions
BeginSession ==
    /\ worldPc = "sessions" /\ World \in due
    /\ BeginUpdate(World)
    /\ due' = due \ {World}
    /\ UNCHANGED mapVars

WorldHandles == HandlePacket(World) /\ UNCHANGED <<mapVars, due>>

EndSession == EndUpdate(World) /\ UNCHANGED <<mapVars, due>>

SessionsDone == update[World] = NoUpdate /\ (World \in due => socket = "gone")

BeginMaps ==
    /\ SessionsDone
    /\ Maps!BeginMaps
    /\ UNCHANGED <<sessionVars, due>>

ScheduleMaps == (\E m \in BaseMaps : Maps!ScheduleMap(m)) /\ UNCHANGED <<sessionVars, due>>

EndWait == Maps!EndWait /\ due' = due \cup {World} /\ UNCHANGED sessionVars

\* The sessions are gone before the maps are unloaded.
Stop == SessionsDone /\ socket = "gone" /\ Maps!Deactivate /\ UNCHANGED <<sessionVars, due>>

EndStop == (Maps!CancelQueue \/ Maps!Join) /\ UNCHANGED <<sessionVars, due>>

WorldThread ==
    \/ BeginSession \/ WorldHandles \/ EndSession
    \/ BeginMaps \/ ScheduleMaps \/ EndWait
    \/ EndStop

-----------------------------------------------------------------------------
(* A map thread *)

TakeRequest(w) == Maps!Pop(w) /\ UNCHANGED <<sessionVars, due>>

BeginMap(w) == Maps!CheckToken(w) /\ due' = due \cup {w} /\ UNCHANGED sessionVars

\* The loop of Map::Update over its players
BeginPlayer(w) ==
    /\ Holds(w) /\ w \in due
    /\ BeginUpdate(w)
    /\ due' = due \ {w}
    /\ UNCHANGED mapVars

MapHandles(w) == HandlePacket(w) /\ UNCHANGED <<mapVars, due>>

EndPlayer(w) == EndUpdate(w) /\ UNCHANGED <<mapVars, due>>

UpdateMap(w) ==
    /\ update[w] = NoUpdate /\ (w \in due => ~Holds(w))
    /\ Maps!UpdateMap(w)
    /\ due' = due \ {w}
    /\ UNCHANGED sessionVars

FinishMap(w) ==
    /\ (\E i \in Maps!AllMaps : Maps!ScheduleInstance(w, i)) \/ Maps!UpdateFinished(w)
    /\ UNCHANGED <<sessionVars, due>>

MapThread(w) ==
    \/ TakeRequest(w) \/ BeginMap(w)
    \/ BeginPlayer(w) \/ MapHandles(w) \/ EndPlayer(w)
    \/ UpdateMap(w) \/ FinishMap(w)

Network ==
    /\ (\E kind \in Kinds : Receive(kind)) \/ SocketCloses
    /\ UNCHANGED <<mapVars, due>>

\* Another session leaves, in the world's thread between two updates.
OthersLeave ==
    /\ worldPc = "sessions" /\ update[World] = NoUpdate
    /\ PassesQueue
    /\ UNCHANGED <<mapVars, due>>

Next ==
    \/ WorldThread \/ Stop \/ OthersLeave
    \/ \E w \in MapThreads : MapThread(w)
    \/ Network

Spec == Init /\ [][Next]_vars

\* The world's thread loops and the map threads are scheduled; whether the
\* server is stopped, packets come or the queue moves is not fair.
Fairness ==
    /\ WF_vars(WorldThread)
    /\ \A w \in MapThreads : WF_vars(MapThread(w))

FairSpec == Spec /\ Fairness

-----------------------------------------------------------------------------
(* Properties *)

\* A session is updated by one thread at a time, and an update of the world's
\* thread never overlaps with an update of any map.
OneThread ==
    /\ \A t, u \in Threads : update[t] # NoUpdate /\ update[u] # NoUpdate => t = u
    /\ update[World] # NoUpdate =>
          \A w \in MapThreads : worker[w].pc \in {"idle", "ended"}

\* A handler that is not thread-safe runs while no map is updated; one that is
\* runs, for a player in the world, in the thread of the player's own map.
RightThread ==
    [][handled' # handled =>
          /\ handled'.kind \in Unsafe => \A w \in MapThreads : worker[w].pc \in {"idle", "ended"}
          /\ handled'.kind \in Safe => handled'.by # World /\ worker[handled'.by].map = place]_vars

\* The packets for a player in the world that are in front of the i-th of the
\* queue, those included that an update has taken and will put back there.
InFront(i) ==
    LET busy == {t \in Threads : update[t] # NoUpdate}
        held == UNION {{<<t, j>> : j \in DOMAIN update[t].requeue} : t \in busy}
    IN  Cardinality(held) + Cardinality({j \in 1 .. i - 1 : recv[j].kind \in LoggedIn})

\* A login request that has arrived, behind no more packets for a player in the
\* world than one update puts back (Cap, 100 in the code), is taken from the
\* queue, or the session ends: neither what is put back in front of it for ever
\* nor the change of threads holds it up.  Behind more of them it may never be
\* taken: each update ends with packets it puts back to the front
\* (WorldSession.cpp:389-397), and "Any leftover will be processed in next
\* update" is not kept.
LoginTaken ==
    \A n \in 1 .. MaxPackets :
        (\E i \in DOMAIN recv : recv[i].n = n /\ recv[i].kind = "login" /\ InFront(i) <= Cap)
            ~> (socket = "gone" \/ \A i \in DOMAIN recv : recv[i].n # n)

\* Once deactivate is called the wait ends, and every map thread with it: no
\* request is left that a thread took and abandoned.
StopEnds == worldPc = "draining" ~> worldPc = "stopped"

\* Types, and: whatever a thread updates, session, map or request, is its own.
ThreadsApart == TypeOK /\ OneThread /\ Maps!OneWorkerPerMap /\ Maps!NoNullRequest

\* The packets of a session keep their order, and each has its right thread.
InOrderInPlace == InOrder /\ RightThread

\* MapUpdater::wait is a barrier: nothing is updated behind it, and it is not
\* passed before everything was.
WaitIsBarrier ==
    [][/\ Maps!Barrier'
       /\ worldPc = "wait" /\ worldPc' = "sessions" => updated = Maps!AllMaps]_vars
=============================================================================
