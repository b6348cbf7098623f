------------------------- MODULE WorldUpdate_proofs -------------------------
(* The threads of WorldUpdate keep apart, MapUpdater::wait is a barrier, and
   the packets of a session keep their order, for any number of map threads,
   maps, instances and packets.                                              *)
EXTENDS WorldUpdate, DataFacts

-----------------------------------------------------------------------------
(* The maps *)

Holders == {w \in MapThreads : worker[w].map # NoMap}

\* The maps a map's update schedules.
Parts(m) == IF m \in BaseMaps THEN Instances[m] ELSE {}

\* Where the world's thread is tells which flags are set, and what is left to
\* schedule.
Phases ==
  /\ cancel <=> worldPc \in {"draining", "joining", "stopped"}
  /\ shutdown <=> worldPc \in {"joining", "stopped"}
  /\ worldPc # "schedule" => toSchedule = {}

\* Where a worker is tells whether it has a request, whether the map's update
\* is behind it and what it may still schedule.
WorkerPlaces ==
  \A w \in MapThreads :
    LET m == worker[w].map IN
    /\ worker[w].pc \in {"idle", "ended"} => m = NoMap
    /\ worker[w].pc = "popped" => (m = NoMap <=> shutdown)
    /\ worker[w].pc \in {"updating", "nested"} => m # NoMap
    /\ worker[w].pc # "nested" => m \notin updated /\ worker[w].left = {}
    /\ worker[w].pc = "nested" => m \in updated /\ worker[w].left \subseteq Parts(m)

\* pending_requests counts the requests queued and those that workers hold.
PendingCounts == pending = Len(queue) + Cardinality(Holders)

\* Outside MapManager::Update there are none.
Quiet == worldPc \notin {"schedule", "wait"} => queue = <<>> /\ Holders = {}

\* A map waits to be scheduled, is queued, held by one worker or done.
OneRequest ==
  /\ IsInjective(queue)
  /\ Range(queue) \cap (toSchedule \cup updated) = {} /\ toSchedule \cap updated = {}
  /\ \A w \in Holders : worker[w].map \notin Range(queue) \cup toSchedule
  /\ \A v, w \in Holders : worker[v].map = worker[w].map => v = w

\* Nobody has seen an instance before its map is updated, or before the worker
\* that updated the map schedules it.
InstancesFollow ==
  \A m \in BaseMaps : \A i \in Instances[m] :
    m \notin updated \/ (\E w \in MapThreads : i \in worker[w].left) =>
      i \notin Range(queue) \cup updated /\ \A v \in MapThreads : worker[v].map # i

\* In a pass over the maps none is forgotten.
NoneForgotten ==
  worldPc \in {"schedule", "wait"} =>
    /\ \A m \in BaseMaps : \/ m \in toSchedule \cup Range(queue) \cup updated
                           \/ \E w \in MapThreads : worker[w].map = m
    /\ \A m \in BaseMaps \cap updated : \A i \in Instances[m] :
         \/ i \in Range(queue) \cup updated
         \/ \E w \in MapThreads : worker[w].map = i \/ i \in worker[w].left

MapsInv ==
  /\ Maps!MapTypeOK /\ Phases /\ WorkerPlaces /\ PendingCounts /\ Quiet
  /\ OneRequest /\ InstancesFollow /\ NoneForgotten

-----------------------------------------------------------------------------
(* The session *)

\* The world's thread updates the session only between two passes over the
\* maps; a map thread while it updates the map where the player is, or was
\* until a handler of this very update sent him away.
UpdatedWhere ==
  /\ update[World] # NoUpdate => worldPc = "sessions"
  /\ \A w \in MapThreads : update[w] # NoUpdate =>
       /\ worker[w].pc = "updating"
       /\ player = "away" \/ (player = "inworld" /\ place = worker[w].map)
       /\ \A v \in MapThreads : update[v] # NoUpdate => v = w

SessionInv == SessionTypeOK /\ UpdatedWhere /\ due \subseteq Threads

Ascending(q) == \A i, j \in DOMAIN q : i < j => q[i].n < q[j].n

\* The packets put back precede those that wait, all in the order they came.
PacketsAscend ==
  /\ Ascending(recv) /\ \A p \in Range(recv) : p.n <= arrived
  /\ \A t \in Threads : update[t] # NoUpdate =>
       /\ Ascending(update[t].requeue)
       /\ \A p \in Range(update[t].requeue) :
            p.kind \in LoggedIn /\ p.n <= arrived /\ \A r \in Range(recv) : p.n < r.n

\* While an update puts packets back none of their kind is handled.
PutBack ==
  \A t \in Threads : update[t] # NoUpdate /\ update[t].requeue # <<>> => ~HasPlayer /\ ~recently

\* A packet for the player in the world that was handled is behind those to come.
HandledBefore ==
  handled # NoPacket /\ handled.kind \in LoggedIn =>
    /\ handled.n <= arrived
    /\ \A p \in Range(recv) : p.kind \in LoggedIn => p.n > handled.n
    /\ \A t \in Threads : update[t] # NoUpdate =>
         \A p \in Range(update[t].requeue) : p.n > handled.n

IInv == MapsInv /\ SessionInv /\ PacketsAscend /\ PutBack /\ HandledBefore

-----------------------------------------------------------------------------
(* The steps of MapUpdater and MapManager *)

\* Constants and types, as the steps below need them.
LEMMA MapTypes ==
  ASSUME MapsInv
  PROVE  /\ queue \in Seq(Maps!AllMaps) /\ Range(queue) \subseteq Maps!AllMaps
         /\ Len(queue) \in Nat /\ pending \in Nat
         /\ toSchedule \subseteq BaseMaps /\ updated \subseteq Maps!AllMaps
         /\ IsFiniteSet(Holders) /\ Cardinality(Holders) \in Nat
         /\ \A w \in MapThreads :
              /\ worker[w].map \in Maps!AllMaps \cup {NoMap}
              /\ worker[w].left \subseteq Maps!AllMaps
              /\ worker[w].pc \in {"idle", "popped", "updating", "nested", "ended"}
         /\ DOMAIN worker = MapThreads
<1> USE MapsAssumption
<1>1. queue \in Seq(Maps!AllMaps) /\ pending \in Nat /\ toSchedule \subseteq BaseMaps
      /\ updated \subseteq Maps!AllMaps
  BY DEF MapsInv, Maps!MapTypeOK
<1>2. \A w \in MapThreads :
              /\ worker[w].map \in Maps!AllMaps \cup {NoMap}
              /\ worker[w].left \subseteq Maps!AllMaps
              /\ worker[w].pc \in {"idle", "popped", "updating", "nested", "ended"}
  BY DEF MapsInv, Maps!MapTypeOK
<1>3. IsFiniteSet(Holders) /\ Cardinality(Holders) \in Nat
  BY FS_Subset, FS_CardinalityType DEF Holders
<1>4. DOMAIN worker = MapThreads
  BY DEF MapsInv, Maps!MapTypeOK
<1> QED  BY <1>1, <1>2, <1>3, <1>4, RangeType

\* The parts of two maps have nothing in common, nor with the maps.
LEMMA PartsApart ==
  /\ \A m \in Maps!AllMaps : Parts(m) \subseteq Maps!AllMaps /\ Parts(m) \cap BaseMaps = {}
  /\ \A m, n : m # n => Parts(m) \cap Parts(n) = {}
  /\ \A m : Parts(m) # {} => m \in BaseMaps
  /\ \A m \in BaseMaps : m \in Maps!AllMaps /\ Parts(m) = Instances[m]
  /\ \A m : Parts(m) \cap BaseMaps = {}
  /\ NoMap \notin Maps!AllMaps
BY MapsAssumption DEF Parts, Maps!AllMaps

\* A pass over the maps begins.
LEMMA BeginMapsKeeps ==
  ASSUME MapsInv, Maps!BeginMaps
  PROVE  MapsInv'
<1> USE MapTypes, PartsApart
<1>1. /\ worldPc = "sessions" /\ worldPc' = "schedule" /\ toSchedule' = BaseMaps
      /\ updated' = {} /\ queue' = queue /\ pending' = pending /\ worker' = worker
      /\ cancel' = cancel /\ shutdown' = shutdown
  BY DEF Maps!BeginMaps
<1>2. queue = <<>> /\ Holders = {} /\ Holders' = {} /\ ~cancel /\ ~shutdown
  BY <1>1 DEF MapsInv, Quiet, Phases, Holders
<1>3. Range(queue) = {} /\ IsInjective(queue)
  BY <1>2, EmptySequence
<1>4. \A w \in MapThreads : worker[w].map = NoMap
  BY <1>2 DEF Holders
<1>5. Maps!MapTypeOK'
  BY <1>1 DEF MapsInv, Maps!MapTypeOK
<1>6. Phases'
  BY <1>1, <1>2 DEF Phases
<1>7. WorkerPlaces'
  BY <1>1, <1>4 DEF MapsInv, WorkerPlaces
<1>8. PendingCounts'
  BY <1>1, <1>2 DEF MapsInv, PendingCounts
<1>9. Quiet'
  BY <1>1 DEF Quiet
<1>10. OneRequest'
  BY <1>1, <1>2, <1>3 DEF OneRequest
<1>11. InstancesFollow'
  BY <1>1, <1>3, <1>4 DEF InstancesFollow, Maps!AllMaps
<1>12. NoneForgotten'
  BY <1>1 DEF NoneForgotten
<1> QED
  BY <1>5, <1>6, <1>7, <1>8, <1>9, <1>10, <1>11, <1>12 DEF MapsInv

\* A map of the pass is queued.
LEMMA ScheduleMapKeeps ==
  ASSUME MapsInv, NEW m \in BaseMaps, Maps!ScheduleMap(m)
  PROVE  MapsInv'
<1> USE MapTypes, PartsApart
<1>1. /\ worldPc = "schedule" /\ worldPc' = (IF toSchedule = {m} THEN "wait" ELSE worldPc)
      /\ m \in toSchedule /\ toSchedule' = toSchedule \ {m}
      /\ updated' = updated /\ queue' = Append(queue, m) /\ pending' = pending + 1
      /\ worker' = worker /\ cancel' = cancel /\ shutdown' = shutdown
  BY DEF Maps!ScheduleMap, Maps!Schedule
<1>2. Range(queue') = Range(queue) \cup {m} /\ queue' \in Seq(Maps!AllMaps)
      /\ Len(queue') = Len(queue) + 1
  BY <1>1, RangeAppend
<1>3. Holders' = Holders
  BY <1>1 DEF Holders
<1>4. m \notin Range(queue) \cup updated /\ \A w \in Holders : worker[w].map # m
  BY <1>1 DEF MapsInv, OneRequest
<1>5. IsInjective(queue')
  BY <1>1, <1>4, InjectiveAppend DEF MapsInv, OneRequest
<1>6. Maps!MapTypeOK'
  BY <1>1, <1>2 DEF MapsInv, Maps!MapTypeOK
<1>7. Phases'
  BY <1>1 DEF MapsInv, Phases
<1>8. WorkerPlaces'
  BY <1>1 DEF MapsInv, WorkerPlaces
<1>9. PendingCounts'
  BY <1>1, <1>2, <1>3 DEF MapsInv, PendingCounts
<1>10. Quiet'
  BY <1>1 DEF Quiet
<1>11. OneRequest'
  BY <1>1, <1>2, <1>3, <1>4, <1>5 DEF MapsInv, OneRequest
<1>12. InstancesFollow'
  <2>1. \A n \in BaseMaps : m \notin Instances[n]
    BY MapsAssumption
  <2> QED  BY <1>1, <1>2, <2>1 DEF MapsInv, InstancesFollow
<1>13. NoneForgotten'
  <2>1. /\ \A n \in BaseMaps : \/ n \in toSchedule \cup Range(queue) \cup updated
                              \/ \E w \in MapThreads : worker[w].map = n
        /\ \A n \in BaseMaps \cap updated : \A i \in Instances[n] :
             \/ i \in Range(queue) \cup updated
             \/ \E w \in MapThreads : worker[w].map = i \/ i \in worker[w].left
    BY <1>1 DEF MapsInv, NoneForgotten
  <2>2. toSchedule \cup Range(queue) \subseteq toSchedule' \cup Range(queue')
        /\ Range(queue) \subseteq Range(queue')
    BY <1>1, <1>2
  <2> QED  BY <1>1, <2>1, <2>2 DEF NoneForgotten
<1> QED
  BY <1>6, <1>7, <1>8, <1>9, <1>10, <1>11, <1>12, <1>13 DEF MapsInv

\* Nothing is pending any more: nothing is queued, and nobody holds a request.
LEMMA NothingPending ==
  ASSUME MapsInv, pending = 0
  PROVE  queue = <<>> /\ Holders = {} /\ \A w \in MapThreads : worker[w].map = NoMap
<1>1. Len(queue) = 0 /\ Cardinality(Holders) = 0
  BY MapTypes DEF MapsInv, PendingCounts
<1>2. Holders = {}
  BY <1>1, MapTypes, FS_EmptySet
<1> QED  BY <1>1, <1>2, MapTypes DEF Holders

\* The other steps of the world's thread move only itself and the flags.
LEMMA WaitAndStopKeep ==
  ASSUME MapsInv, Maps!EndWait \/ Maps!Deactivate \/ Maps!CancelQueue \/ Maps!Join
  PROVE  MapsInv'
<1> USE MapTypes
<1>1. toSchedule' = toSchedule /\ pending' = pending /\ updated' = updated /\ worker' = worker
  BY DEF Maps!EndWait, Maps!Deactivate, Maps!CancelQueue, Maps!Join
<1>2. worldPc' \notin {"schedule", "wait"} /\ worldPc # "schedule"
      /\ worldPc' \in {"sessions", "draining", "joining", "stopped"}
  BY DEF Maps!EndWait, Maps!Deactivate, Maps!CancelQueue, Maps!Join
<1>3. queue = <<>> /\ Holders = {}
  BY NothingPending DEF MapsInv, Quiet, Maps!EndWait, Maps!Deactivate, Maps!CancelQueue, Maps!Join
<1>4. queue' = queue /\ Holders' = Holders
  BY <1>3, <1>1 DEF Holders, Maps!EndWait, Maps!Deactivate, Maps!CancelQueue, Maps!Join
<1>5. /\ cancel' <=> worldPc' \in {"draining", "joining", "stopped"}
      /\ shutdown' <=> worldPc' \in {"joining", "stopped"}
      /\ cancel' \in BOOLEAN /\ shutdown' \in BOOLEAN
  <2>1. cancel \in BOOLEAN /\ shutdown \in BOOLEAN
    BY DEF MapsInv, Maps!MapTypeOK
  <2>2. /\ cancel <=> worldPc \in {"draining", "joining", "stopped"}
        /\ shutdown <=> worldPc \in {"joining", "stopped"}
    BY DEF MapsInv, Phases
  <2>3. CASE Maps!EndWait
    BY <2>1, <2>2, <2>3 DEF Maps!EndWait
  <2>4. CASE Maps!Deactivate
    BY <2>1, <2>2, <2>4 DEF Maps!Deactivate
  <2>5. CASE Maps!CancelQueue
    BY <2>1, <2>2, <2>5 DEF Maps!CancelQueue
  <2>6. CASE Maps!Join
    BY <2>1, <2>2, <2>6 DEF Maps!Join
  <2> QED  BY <2>3, <2>4, <2>5, <2>6
<1>6. \A w \in MapThreads : worker[w].map = NoMap
  BY <1>3 DEF Holders
<1>7. Maps!MapTypeOK'
  BY <1>1, <1>2, <1>4, <1>5 DEF MapsInv, Maps!MapTypeOK
<1>8. Phases'
  BY <1>1, <1>2, <1>5 DEF MapsInv, Phases
<1>9. shutdown => shutdown'
  BY DEF MapsInv, Maps!MapTypeOK, Maps!EndWait, Maps!Deactivate, Maps!CancelQueue, Maps!Join
<1>10. WorkerPlaces'
  BY <1>1, <1>6, <1>9 DEF MapsInv, WorkerPlaces
<1>11. PendingCounts' /\ Quiet' /\ OneRequest' /\ InstancesFollow' /\ NoneForgotten'
  <2>1. PendingCounts'
    BY <1>1, <1>4 DEF MapsInv, PendingCounts
  <2>2. Quiet'
    BY <1>3, <1>4 DEF Quiet
  <2>3. OneRequest'
    BY <1>1, <1>4 DEF MapsInv, OneRequest
  <2>4. InstancesFollow'
    BY <1>1, <1>4 DEF MapsInv, InstancesFollow
  <2>5. NoneForgotten'
    BY <1>2 DEF NoneForgotten
  <2> QED  BY <2>1, <2>2, <2>3, <2>4, <2>5
<1> QED  BY <1>7, <1>8, <1>10, <1>11 DEF MapsInv

\* A step of worker w that makes r of its record.
Becomes(w, r) ==
  /\ worker' \in [MapThreads -> [pc : {"idle", "popped", "updating", "nested", "ended"},
                                 map : Maps!AllMaps \cup {NoMap}, left : SUBSET Maps!AllMaps]]
  /\ \A v \in MapThreads : worker'[v] = IF v = w THEN r ELSE worker[v]

\* A worker takes the first request.
LEMMA PopKeeps ==
  ASSUME MapsInv, NEW w \in MapThreads, Maps!Pop(w), ~shutdown
  PROVE  MapsInv'
<1> USE MapTypes, PartsApart
<1> DEFINE h == Head(queue)
<1>1. /\ worker[w].pc = "idle" /\ queue # <<>> /\ queue' = Tail(queue)
      /\ worker' = [worker EXCEPT ![w] = [pc |-> "popped", map |-> h, left |-> {}]]
      /\ worldPc' = worldPc /\ toSchedule' = toSchedule /\ pending' = pending
      /\ cancel' = cancel /\ shutdown' = shutdown /\ updated' = updated
  BY DEF Maps!Pop, Maps!At
<1>2. /\ Range(queue) = {h} \cup Range(queue') /\ h \notin Range(queue') /\ h \in Maps!AllMaps
      /\ queue' \in Seq(Maps!AllMaps) /\ IsInjective(queue') /\ Len(queue) = Len(queue') + 1
      /\ Len(queue') \in Nat
  <2>1. IsInjective(queue)
    BY DEF MapsInv, OneRequest
  <2>2. /\ Range(queue) = {h} \cup Range(queue') /\ h \notin Range(queue') /\ h \in Maps!AllMaps
        /\ queue' \in Seq(Maps!AllMaps) /\ IsInjective(queue')
    BY <1>1, <2>1, RangeTail, InjectiveTail
  <2>3. Len(queue) = Len(queue') + 1 /\ Len(queue') \in Nat
    BY <1>1
  <2> QED  BY <2>2, <2>3
<1> HIDE DEF h
<1>3. Becomes(w, [pc |-> "popped", map |-> h, left |-> {}])
  BY <1>1, <1>2 DEF MapsInv, Maps!MapTypeOK, Becomes
<1>4. worker[w].map = NoMap /\ worker[w].left = {} /\ h # NoMap
  BY <1>1, <1>2 DEF MapsInv, WorkerPlaces
<1>5. /\ worker'[w].map = h /\ worker'[w].left = {} /\ worker'[w].pc = "popped"
      /\ \A v \in MapThreads : v # w => worker'[v] = worker[v]
      /\ \A v \in MapThreads : worker'[v].left = worker[v].left
  <2>1. \A v \in MapThreads : worker'[v] =
          IF v = w THEN [pc |-> "popped", map |-> h, left |-> {}] ELSE worker[v]
    BY <1>3, Zenon DEF Becomes
  <2>2. worker'[w] = [pc |-> "popped", map |-> h, left |-> {}]
    BY <2>1
  <2>3. worker'[w].map = h /\ worker'[w].left = {} /\ worker'[w].pc = "popped"
    BY <2>2
  <2> QED  BY <1>4, <2>1, <2>3
<1>6. Holders' = Holders \cup {w} /\ w \notin Holders
  BY <1>4, <1>5 DEF Holders
<1>7. Cardinality(Holders') = Cardinality(Holders) + 1
  BY <1>6, FS_AddElement
<1>8. h \notin toSchedule \cup updated /\ \A v \in Holders : worker[v].map # h
  BY <1>2 DEF MapsInv, OneRequest
<1>9. Maps!MapTypeOK'
  BY <1>1, <1>2, <1>3 DEF MapsInv, Maps!MapTypeOK, Becomes
<1>10. Phases'
  BY <1>1 DEF MapsInv, Phases
<1>11. WorkerPlaces'
  BY <1>1, <1>4, <1>5, <1>8 DEF MapsInv, WorkerPlaces
<1>12. PendingCounts'
  BY <1>1, <1>2, <1>7 DEF MapsInv, PendingCounts
<1>13. Quiet'
  BY <1>1 DEF MapsInv, Quiet
<1>14. OneRequest'
  <2>1. \A v \in Holders' : worker'[v].map \notin Range(queue') \cup toSchedule'
    BY <1>1, <1>2, <1>5, <1>6, <1>8 DEF MapsInv, OneRequest, Holders
  <2>2. \A u, v \in Holders' : worker'[u].map = worker'[v].map => u = v
    BY <1>5, <1>6, <1>8 DEF MapsInv, OneRequest, Holders
  <2> QED  BY <1>1, <1>2, <2>1, <2>2 DEF MapsInv, OneRequest
<1>15. InstancesFollow'
  BY <1>1, <1>2, <1>5 DEF MapsInv, InstancesFollow
<1>16. NoneForgotten'
  <2>1. \A i : i \in Range(queue) => i \in Range(queue') \/ worker'[w].map = i
    BY <1>2, <1>5
  <2>2. \A i \in Maps!AllMaps : \A v \in MapThreads :
          (worker[v].map = i \/ i \in worker[v].left) =>
          (worker'[v].map = i \/ i \in worker'[v].left)
    BY <1>4, <1>5
  <2>3. \A i \in Maps!AllMaps : \A v \in MapThreads : worker[v].map = i => worker'[v].map = i
    BY <1>4, <1>5
  <2>4. \A m \in BaseMaps : m \in Maps!AllMaps /\ Instances[m] \subseteq Maps!AllMaps
    BY DEF Maps!AllMaps
  <2> SUFFICES ASSUME worldPc \in {"schedule", "wait"}
               PROVE  /\ \A m \in BaseMaps : \/ m \in toSchedule \cup Range(queue') \cup updated
                                             \/ \E v \in MapThreads : worker'[v].map = m
                      /\ \A m \in BaseMaps \cap updated : \A i \in Instances[m] :
                           \/ i \in Range(queue') \cup updated
                           \/ \E v \in MapThreads : worker'[v].map = i \/ i \in worker'[v].left
    BY <1>1 DEF NoneForgotten
  <2>5. /\ \A m \in BaseMaps : \/ m \in toSchedule \cup Range(queue) \cup updated
                               \/ \E v \in MapThreads : worker[v].map = m
        /\ \A m \in BaseMaps \cap updated : \A i \in Instances[m] :
             \/ i \in Range(queue) \cup updated
             \/ \E v \in MapThreads : worker[v].map = i \/ i \in worker[v].left
    BY DEF MapsInv, NoneForgotten
  <2>6. ASSUME NEW m \in BaseMaps
        PROVE  \/ m \in toSchedule \cup Range(queue') \cup updated
               \/ \E v \in MapThreads : worker'[v].map = m
    BY <2>1, <2>3, <2>4, <2>5
  <2>7. ASSUME NEW m \in BaseMaps \cap updated, NEW i \in Instances[m]
        PROVE  \/ i \in Range(queue') \cup updated
               \/ \E v \in MapThreads : worker'[v].map = i \/ i \in worker'[v].left
    BY <2>1, <2>2, <2>4, <2>5
  <2> QED  BY <2>6, <2>7
<1> QED
  BY <1>9, <1>10, <1>11, <1>12, <1>13, <1>14, <1>15, <1>16 DEF MapsInv

\* A step of a worker between two places where it holds what it held and has
\* as much left disturbs only what is said of its place.
LEMMA SameHolding ==
  ASSUME MapsInv, NEW w \in MapThreads, NEW r, Becomes(w, r),
         r.map = worker[w].map, r.left = worker[w].left,
         UNCHANGED <<worldPc, toSchedule, queue, pending, cancel, shutdown, updated>>
  PROVE  /\ Maps!MapTypeOK' /\ Phases' /\ PendingCounts' /\ Quiet' /\ OneRequest'
         /\ InstancesFollow' /\ NoneForgotten'
<1> USE MapTypes
<1>1. \A v \in MapThreads : worker'[v].map = worker[v].map /\ worker'[v].left = worker[v].left
  BY DEF Becomes
<1>2. Holders' = Holders
  BY <1>1 DEF Holders
<1>3. Maps!MapTypeOK'
  BY DEF MapsInv, Maps!MapTypeOK, Becomes
<1>4. Phases' /\ PendingCounts' /\ Quiet'
  BY <1>2 DEF MapsInv, Phases, PendingCounts, Quiet
<1>5. OneRequest'
  BY <1>1, <1>2 DEF MapsInv, OneRequest, Holders
<1>6. InstancesFollow'
  BY <1>1 DEF MapsInv, InstancesFollow
<1>7. NoneForgotten'
  BY <1>1 DEF MapsInv, NoneForgotten
<1> QED  BY <1>3, <1>4, <1>5, <1>6, <1>7

\* After Cancel a worker returns from the queue without a request.
LEMMA PopNothingKeeps ==
  ASSUME MapsInv, NEW w \in MapThreads, Maps!Pop(w), shutdown
  PROVE  MapsInv'
<1> USE MapTypes
<1> DEFINE r == [pc |-> "popped", map |-> NoMap, left |-> {}]
<1>1. /\ worker[w].pc = "idle" /\ worker' = [worker EXCEPT ![w] = r]
      /\ UNCHANGED <<worldPc, toSchedule, queue, pending, cancel, shutdown, updated>>
  BY DEF Maps!Pop, Maps!At
<1>2. worker[w].map = NoMap /\ worker[w].left = {}
  BY <1>1 DEF MapsInv, WorkerPlaces
<1>3. Becomes(w, r)
  BY <1>1 DEF MapsInv, Maps!MapTypeOK, Becomes
<1>4. WorkerPlaces'
  BY <1>1, <1>2, <1>3 DEF MapsInv, WorkerPlaces, Becomes
<1> QED  BY <1>1, <1>2, <1>3, <1>4, SameHolding DEF MapsInv

\* The worker reads the token: the world stops, and nobody has a request; or
\* it has one.
LEMMA CheckTokenKeeps ==
  ASSUME MapsInv, NEW w \in MapThreads, Maps!CheckToken(w)
  PROVE  MapsInv'
<1> USE MapTypes
<1> DEFINE r == IF cancel THEN [pc |-> "ended", map |-> NoMap, left |-> {}]
                ELSE [worker[w] EXCEPT !.pc = "updating"]
<1>1. /\ worker[w].pc = "popped" /\ worker' = [worker EXCEPT ![w] = r]
      /\ UNCHANGED <<worldPc, toSchedule, queue, pending, cancel, shutdown, updated>>
  BY DEF Maps!CheckToken, Maps!Ended, Maps!At
<1>2. worker[w].left = {} /\ worker[w].map \notin updated /\ (worker[w].map = NoMap <=> shutdown)
  BY <1>1 DEF MapsInv, WorkerPlaces
<1>3. cancel => worker[w].map = NoMap
  BY DEF MapsInv, Phases, Quiet, Holders
<1>4. ~cancel => ~shutdown
  BY DEF MapsInv, Phases
<1>5. /\ r.map = worker[w].map /\ r.left = worker[w].left
      /\ r.pc = IF cancel THEN "ended" ELSE "updating"
      /\ r \in [pc : {"idle", "popped", "updating", "nested", "ended"},
                map : Maps!AllMaps \cup {NoMap}, left : SUBSET Maps!AllMaps]
  BY <1>2, <1>3 DEF MapsInv, Maps!MapTypeOK
<1> HIDE DEF r
<1>6. Becomes(w, r)
  BY <1>1, <1>5 DEF MapsInv, Maps!MapTypeOK, Becomes
<1>7. WorkerPlaces'
  BY <1>1, <1>2, <1>3, <1>4, <1>5, <1>6 DEF MapsInv, WorkerPlaces, Becomes
<1> QED  BY <1>1, <1>5, <1>6, <1>7, SameHolding DEF MapsInv

\* A worker updates its map, and has the instances of the map to schedule.
LEMMA UpdateMapKeeps ==
  ASSUME MapsInv, NEW w \in MapThreads, Maps!UpdateMap(w)
  PROVE  MapsInv'
<1> USE MapTypes, PartsApart
<1> DEFINE m == worker[w].map
<1>1. /\ worker[w].pc = "updating" /\ m # NoMap /\ updated' = updated \cup {m}
      /\ worker' = [worker EXCEPT ![w] = [pc |-> "nested", map |-> m, left |-> Parts(m)]]
      /\ worldPc' = worldPc /\ toSchedule' = toSchedule /\ queue' = queue /\ pending' = pending
      /\ cancel' = cancel /\ shutdown' = shutdown
  BY DEF Maps!UpdateMap, Maps!At, Parts
<1>2. m \in Maps!AllMaps /\ m \notin updated /\ worker[w].left = {} /\ w \in Holders
  BY <1>1 DEF MapsInv, WorkerPlaces, Holders
<1>3. Becomes(w, [pc |-> "nested", map |-> m, left |-> Parts(m)])
  BY <1>1, <1>2 DEF MapsInv, Maps!MapTypeOK, Becomes
<1>4. /\ worker'[w].pc = "nested" /\ worker'[w].left = Parts(m)
      /\ \A v \in MapThreads : worker'[v].map = worker[v].map
      /\ \A v \in MapThreads : v # w => worker'[v] = worker[v]
  BY <1>3 DEF Becomes
<1>5. Holders' = Holders
  BY <1>4 DEF Holders
<1>6. m \notin Range(queue) \cup toSchedule /\ \A v \in Holders : v # w => worker[v].map # m
  BY <1>2 DEF MapsInv, OneRequest
<1> HIDE DEF m
<1>7. Maps!MapTypeOK'
  BY <1>1, <1>2, <1>3 DEF MapsInv, Maps!MapTypeOK, Becomes
<1>8. Phases' /\ PendingCounts' /\ Quiet'
  BY <1>1, <1>5 DEF MapsInv, Phases, PendingCounts, Quiet
<1>9. WorkerPlaces'
  <2>1. \A v \in MapThreads : v # w => worker[v].map # m
    BY <1>2, <1>6 DEF Holders
  <2>2. worker'[w].map = m
    BY <1>4 DEF m
  <2> QED  BY <1>1, <1>4, <2>1, <2>2 DEF MapsInv, WorkerPlaces
<1>10. OneRequest'
  BY <1>1, <1>4, <1>5, <1>6 DEF MapsInv, OneRequest
<1>11. InstancesFollow'
  <2> SUFFICES ASSUME NEW n \in BaseMaps, NEW i \in Instances[n],
                      n \notin updated' \/ \E v \in MapThreads : i \in worker'[v].left
               PROVE  i \notin Range(queue) \cup updated'
                      /\ \A v \in MapThreads : worker[v].map # i
    BY <1>1, <1>4 DEF InstancesFollow
  <2>1. n \notin updated \/ \E v \in MapThreads : i \in worker[v].left
    <3>1. i \in Parts(m) => n = m
      BY DEF Parts
    <3> QED  BY <1>1, <1>2, <1>4, <3>1
  <2>2. i \notin Range(queue) \cup updated /\ \A v \in MapThreads : worker[v].map # i
    BY <2>1 DEF MapsInv, InstancesFollow
  <2> QED  BY <1>1, <2>2 DEF m
<1>12. NoneForgotten'
  <2>1. \A n \in BaseMaps : n \in updated' => n \in updated \/ n = m
    BY <1>1
  <2>2. \A i \in Parts(m) : i \in worker'[w].left
    BY <1>4
  <2>3. \A v \in MapThreads : \A i : i \in worker[v].left => i \in worker'[v].left
    BY <1>2, <1>4
  <2> SUFFICES ASSUME worldPc \in {"schedule", "wait"}
               PROVE  /\ \A n \in BaseMaps : \/ n \in toSchedule \cup Range(queue) \cup updated'
                                             \/ \E v \in MapThreads : worker'[v].map = n
                      /\ \A n \in BaseMaps \cap updated' : \A i \in Instances[n] :
                           \/ i \in Range(queue) \cup updated'
                           \/ \E v \in MapThreads : worker'[v].map = i \/ i \in worker'[v].left
    BY <1>1 DEF NoneForgotten
  <2>4. \A n \in BaseMaps : \/ n \in toSchedule \cup Range(queue) \cup updated'
                            \/ \E v \in MapThreads : worker'[v].map = n
    BY <1>1, <1>4 DEF MapsInv, NoneForgotten
  <2>5. ASSUME NEW n \in BaseMaps \cap updated', NEW i \in Instances[n]
        PROVE  \/ i \in Range(queue) \cup updated'
               \/ \E v \in MapThreads : worker'[v].map = i \/ i \in worker'[v].left
    <3>1. CASE n = m
      BY <3>1, <2>2
    <3>2. CASE n \in updated
      BY <3>2, <1>1, <1>4, <2>3 DEF MapsInv, NoneForgotten
    <3> QED  BY <2>1, <3>1, <3>2
  <2> QED  BY <2>4, <2>5
<1> QED
  BY <1>7, <1>8, <1>9, <1>10, <1>11, <1>12 DEF MapsInv

\* A worker queues an instance of its map.
LEMMA ScheduleInstanceKeeps ==
  ASSUME MapsInv, NEW w \in MapThreads, NEW i \in Maps!AllMaps, Maps!ScheduleInstance(w, i)
  PROVE  MapsInv'
<1> USE MapTypes, PartsApart
<1> DEFINE r == [worker[w] EXCEPT !.left = @ \ {i}]
           m == worker[w].map
<1>1. /\ worker[w].pc = "nested" /\ i \in worker[w].left
      /\ queue' = Append(queue, i) /\ pending' = pending + 1
      /\ worker' = [worker EXCEPT ![w] = r]
      /\ worldPc' = worldPc /\ toSchedule' = toSchedule /\ updated' = updated
      /\ cancel' = cancel /\ shutdown' = shutdown
  BY DEF Maps!ScheduleInstance, Maps!Schedule
<1>2. /\ r.pc = "nested" /\ r.map = m /\ r.left = worker[w].left \ {i}
      /\ r \in [pc : {"idle", "popped", "updating", "nested", "ended"},
                map : Maps!AllMaps \cup {NoMap}, left : SUBSET Maps!AllMaps]
  BY <1>1 DEF MapsInv, Maps!MapTypeOK
<1> HIDE DEF r
<1>3. Becomes(w, r)
  BY <1>1, <1>2 DEF MapsInv, Maps!MapTypeOK, Becomes
<1>4. /\ worker'[w].pc = "nested" /\ worker'[w].left = worker[w].left \ {i}
      /\ \A v \in MapThreads : worker'[v].map = worker[v].map
      /\ \A v \in MapThreads : v # w => worker'[v] = worker[v]
  BY <1>2, <1>3 DEF Becomes
<1>5. Holders' = Holders
  BY <1>4 DEF Holders
<1>6. /\ m \in BaseMaps /\ m \in updated /\ m # NoMap /\ i \in Instances[m]
      /\ worker[w].left \subseteq Instances[m] /\ i \notin BaseMaps
  BY <1>1 DEF MapsInv, WorkerPlaces
<1>7. i \notin Range(queue) \cup updated \cup toSchedule /\ \A v \in MapThreads : worker[v].map # i
  BY <1>1, <1>6 DEF MapsInv, InstancesFollow
<1>8. \A v \in MapThreads : v # w => i \notin worker[v].left
  <2> SUFFICES ASSUME NEW v \in MapThreads, v # w, i \in worker[v].left
               PROVE  FALSE
    OBVIOUS
  <2>1. worker[v].map # NoMap /\ i \in Parts(worker[v].map)
    BY DEF MapsInv, WorkerPlaces
  <2>2. worker[v].map = m
    BY <1>6, <2>1 DEF Parts
  <2> QED  BY <2>1, <2>2 DEF MapsInv, OneRequest, Holders
<1> HIDE DEF m
<1>9. /\ Range(queue') = Range(queue) \cup {i} /\ queue' \in Seq(Maps!AllMaps)
      /\ Len(queue') = Len(queue) + 1 /\ IsInjective(queue')
  BY <1>1, <1>7, RangeAppend, InjectiveAppend DEF MapsInv, OneRequest
<1>10. Maps!MapTypeOK'
  BY <1>1, <1>3, <1>9 DEF MapsInv, Maps!MapTypeOK, Becomes
<1>11. Phases'
  BY <1>1 DEF MapsInv, Phases
<1>12. WorkerPlaces'
  BY <1>1, <1>4 DEF MapsInv, WorkerPlaces
<1>13. PendingCounts'
  BY <1>1, <1>5, <1>9 DEF MapsInv, PendingCounts
<1>14. Quiet'
  <2>1. w \in Holders
    BY <1>6 DEF Holders, m
  <2> QED  BY <1>1, <2>1 DEF MapsInv, Quiet
<1>15. OneRequest'
  BY <1>1, <1>4, <1>5, <1>7, <1>9 DEF MapsInv, OneRequest, Holders
<1>16. InstancesFollow'
  <2> SUFFICES ASSUME NEW n \in BaseMaps, NEW j \in Instances[n],
                      n \notin updated \/ \E v \in MapThreads : j \in worker'[v].left
               PROVE  j \notin Range(queue') \cup updated
                      /\ \A v \in MapThreads : worker[v].map # j
    BY <1>1, <1>4 DEF InstancesFollow
  <2>1. n \notin updated \/ \E v \in MapThreads : j \in worker[v].left
    BY <1>4
  <2>2. j # i
    <3>1. CASE n \notin updated
      BY <3>1, <1>6
    <3>2. CASE \E v \in MapThreads : j \in worker'[v].left
      BY <3>2, <1>4, <1>8
    <3> QED  BY <3>1, <3>2
  <2> QED  BY <1>9, <2>1, <2>2 DEF MapsInv, InstancesFollow
<1>17. NoneForgotten'
  <2> SUFFICES ASSUME worldPc \in {"schedule", "wait"}
               PROVE  /\ \A n \in BaseMaps : \/ n \in toSchedule \cup Range(queue') \cup updated
                                             \/ \E v \in MapThreads : worker'[v].map = n
                      /\ \A n \in BaseMaps \cap updated : \A j \in Instances[n] :
                           \/ j \in Range(queue') \cup updated
                           \/ \E v \in MapThreads : worker'[v].map = j \/ j \in worker'[v].left
    BY <1>1 DEF NoneForgotten
  <2>1. \A n \in BaseMaps : \/ n \in toSchedule \cup Range(queue') \cup updated
                            \/ \E v \in MapThreads : worker'[v].map = n
    BY <1>4, <1>9 DEF MapsInv, NoneForgotten
  <2>2. \A v \in MapThreads : \A j : j \in worker[v].left => j = i \/ j \in worker'[v].left
    BY <1>4
  <2>3. ASSUME NEW n \in BaseMaps \cap updated, NEW j \in Instances[n]
        PROVE  \/ j \in Range(queue') \cup updated
               \/ \E v \in MapThreads : worker'[v].map = j \/ j \in worker'[v].left
    <3>1. \/ j \in Range(queue) \cup updated
          \/ \E v \in MapThreads : worker[v].map = j \/ j \in worker[v].left
      BY DEF MapsInv, NoneForgotten
    <3> QED  BY <1>4, <1>9, <2>2, <3>1
  <2> QED  BY <2>1, <2>3
<1> QED
  BY <1>10, <1>11, <1>12, <1>13, <1>14, <1>15, <1>16, <1>17 DEF MapsInv

\* A worker is done with its request.
LEMMA UpdateFinishedKeeps ==
  ASSUME MapsInv, NEW w \in MapThreads, Maps!UpdateFinished(w)
  PROVE  MapsInv'
<1> USE MapTypes, PartsApart
<1> DEFINE r == [pc |-> "idle", map |-> NoMap, left |-> {}]
<1>1. /\ worker[w].pc = "nested" /\ worker[w].left = {} /\ pending' = pending - 1
      /\ worker' = [worker EXCEPT ![w] = r]
      /\ worldPc' = worldPc /\ toSchedule' = toSchedule /\ queue' = queue /\ updated' = updated
      /\ cancel' = cancel /\ shutdown' = shutdown
  BY DEF Maps!UpdateFinished, Maps!Idle, Maps!At
<1>2. Becomes(w, r)
  BY <1>1 DEF MapsInv, Maps!MapTypeOK, Becomes
<1>3. /\ worker'[w].pc = "idle" /\ worker'[w].map = NoMap /\ worker'[w].left = {}
      /\ \A v \in MapThreads : v # w => worker'[v] = worker[v]
      /\ \A v \in MapThreads : worker'[v].left = worker[v].left
  BY <1>1, <1>2 DEF Becomes
<1> HIDE DEF r
<1>4. worker[w].map # NoMap /\ worker[w].map \in updated
  BY <1>1 DEF MapsInv, WorkerPlaces
<1>5. w \in Holders /\ Holders' = Holders \ {w}
  BY <1>3, <1>4 DEF Holders
<1>6. Cardinality(Holders') = Cardinality(Holders) - 1 /\ Cardinality(Holders') \in Nat
  <2>1. Cardinality(Holders') = Cardinality(Holders) - 1 /\ IsFiniteSet(Holders')
    BY <1>5, FS_RemoveElement
  <2> QED  BY <2>1, FS_CardinalityType
<1>7. PendingCounts' /\ pending' \in Nat
  BY <1>1, <1>6 DEF MapsInv, PendingCounts
<1>8. Maps!MapTypeOK'
  BY <1>1, <1>2, <1>7 DEF MapsInv, Maps!MapTypeOK, Becomes
<1>9. Phases' /\ Quiet'
  BY <1>1, <1>5 DEF MapsInv, Phases, Quiet
<1>10. WorkerPlaces'
  BY <1>1, <1>3 DEF MapsInv, WorkerPlaces
<1>11. OneRequest'
  BY <1>1, <1>3, <1>5 DEF MapsInv, OneRequest, Holders
<1>12. InstancesFollow'
  <2>1. \A v \in MapThreads : worker'[v].map \in {worker[v].map, NoMap}
    BY <1>3
  <2>2. \A n \in BaseMaps : Instances[n] \subseteq Maps!AllMaps
    BY DEF Maps!AllMaps
  <2> QED  BY <1>1, <1>3, <2>1, <2>2 DEF MapsInv, InstancesFollow
<1>13. NoneForgotten'
  <2>1. \A n : (\E v \in MapThreads : worker[v].map = n)
               => n \in updated \/ \E v \in MapThreads : worker'[v].map = n
    BY <1>3, <1>4
  <2> QED  BY <1>1, <1>3, <2>1 DEF MapsInv, NoneForgotten
<1> QED
  BY <1>7, <1>8, <1>9, <1>10, <1>11, <1>12, <1>13 DEF MapsInv

MapStep ==
  \/ Maps!BeginMaps \/ \E m \in BaseMaps : Maps!ScheduleMap(m)
  \/ Maps!EndWait \/ Maps!Deactivate \/ Maps!CancelQueue \/ Maps!Join
  \/ \E w \in MapThreads :
        \/ Maps!Pop(w) \/ Maps!CheckToken(w) \/ Maps!UpdateMap(w)
        \/ \E i \in Maps!AllMaps : Maps!ScheduleInstance(w, i)
        \/ Maps!UpdateFinished(w)
  \/ UNCHANGED mapVars

\* What is said of the maps is inductive.
LEMMA MapStepKeeps ==
  ASSUME MapsInv, MapStep
  PROVE  MapsInv'
<1>1. CASE UNCHANGED mapVars
  BY <1>1 DEF mapVars, MapsInv, Maps!MapTypeOK, Phases, WorkerPlaces, PendingCounts, Quiet,
              OneRequest, InstancesFollow, NoneForgotten, Holders
<1>2. CASE \E w \in MapThreads : Maps!Pop(w)
  BY <1>2, PopKeeps, PopNothingKeeps
<1> QED
  BY <1>1, <1>2, BeginMapsKeeps, ScheduleMapKeeps, WaitAndStopKeep, CheckTokenKeeps,
     UpdateMapKeeps, ScheduleInstanceKeeps, UpdateFinishedKeeps, Zenon DEF MapStep

\* Every step of the system is one of the map updater or leaves it alone.
LEMMA NextIsMapStep == [Next]_vars => MapStep
<1> SUFFICES ASSUME [Next]_vars PROVE MapStep
  OBVIOUS
<1>1. CASE UNCHANGED vars \/ Network \/ OthersLeave
  BY <1>1 DEF vars, Network, OthersLeave, MapStep
<1>2. CASE WorldThread \/ Stop
  BY <1>2 DEF WorldThread, Stop, BeginSession, WorldHandles, EndSession, BeginMaps, ScheduleMaps,
              EndWait, EndStop, MapStep
<1>3. ASSUME NEW w \in MapThreads, MapThread(w) PROVE MapStep
  BY <1>3 DEF MapThread, TakeRequest, BeginMap, BeginPlayer, MapHandles, EndPlayer, UpdateMap,
              FinishMap, MapStep
<1> QED  BY <1>1, <1>2, <1>3 DEF Next

-----------------------------------------------------------------------------
(* The session's types *)

SessionRecords ==
  [socket : {"open", "closed", "gone"}, player : {"none", "loading", "inworld", "away"},
   place : Places \cup {NoPlace}, recently : BOOLEAN, leaving : BOOLEAN]

SessionStates == {s \in SessionRecords : s.place # NoPlace <=> s.player = "inworld"}

\* The rest of an update leaves a state of the session; a map thread changes
\* nothing of a player who is loaded.
LEMMA FinishedIs ==
  ASSUME SessionTypeOK, NEW t \in Threads, NEW s \in Finished(t)
  PROVE  /\ s \in SessionStates
         /\ t # World /\ player # "loading" => s = State
<1> USE PacketAssumption
<1>1. State \in SessionStates
  BY DEF State, SessionStates, SessionRecords, SessionTypeOK
<1>2. ASSUME NEW c \in SessionStates, NEW d \in AfterCallbacks(c)
      PROVE  d \in SessionStates
  <2>1. c \in SessionRecords /\ (c.place # NoPlace <=> c.player = "inworld")
    BY DEF SessionStates
  <2>2. ASSUME NEW m \in Places, d = [c EXCEPT !.player = "inworld", !.place = m]
        PROVE  d \in SessionStates
    <3>1. d \in SessionRecords /\ d.place = m /\ d.player = "inworld"
      BY <2>1, <2>2 DEF SessionRecords
    <3> QED  BY <3>1 DEF SessionStates
  <2>3. ASSUME d = [c EXCEPT !.player = "none", !.socket = "closed"], c.player = "loading"
        PROVE  d \in SessionStates
    <3>1. d \in SessionRecords /\ d.place = c.place /\ d.player = "none"
      BY <2>1, <2>3 DEF SessionRecords
    <3> QED  BY <2>1, <2>3, <3>1 DEF SessionStates
  <2>4. \/ d = c
        \/ \E m \in Places : d = [c EXCEPT !.player = "inworld", !.place = m]
        \/ d = [c EXCEPT !.player = "none", !.socket = "closed"] /\ c.player = "loading"
    BY <1>2, Zenon DEF AfterCallbacks
  <2> QED  BY <2>2, <2>3, <2>4, Zenon
<1>3. ASSUME NEW c \in SessionStates, NEW d \in AfterLogout(c)
      PROVE  d \in SessionStates
  <2> DEFINE out == [c EXCEPT !.player = "none", !.place = NoPlace, !.recently = TRUE,
                              !.leaving = FALSE]
  <2>1. c \in SessionRecords
    BY DEF SessionStates
  <2>2. out \in SessionRecords /\ out.player = "none" /\ out.place = NoPlace
    BY <2>1 DEF SessionRecords
  <2>3. d \in {c, out}
    BY <1>3 DEF AfterLogout
  <2> HIDE DEF out
  <2> QED  BY <2>2, <2>3 DEF SessionStates
<1>4. ASSUME NEW c \in SessionStates, NEW d \in AfterCleanup(c)
      PROVE  d \in SessionStates
  <2> DEFINE gone == [c EXCEPT !.socket = "gone", !.player = "none", !.place = NoPlace]
  <2>1. c \in SessionRecords
    BY DEF SessionStates
  <2>2. gone \in SessionRecords /\ gone.player = "none" /\ gone.place = NoPlace
    BY <2>1 DEF SessionRecords
  <2>3. d \in {c, gone}
    BY <1>4 DEF AfterCleanup
  <2> HIDE DEF gone
  <2> QED  BY <2>2, <2>3 DEF SessionStates
<1>5. PICK c \in AfterCallbacks(State) :
        s \in (IF t = World THEN UNION {AfterCleanup(l) : l \in AfterLogout(c)} ELSE {c})
  BY DEF Finished
<1>6. c \in SessionStates
  BY <1>1, <1>2, <1>5
<1>7. CASE t = World
  <2>1. PICK l \in AfterLogout(c) : s \in AfterCleanup(l)
    BY <1>5, <1>7
  <2> QED  BY <1>3, <1>4, <1>6, <1>7, <2>1
<1>8. CASE t # World
  <2>1. s = c
    BY <1>5, <1>8
  <2>2. player # "loading" => c = State
    BY <1>5 DEF AfterCallbacks, State
  <2> QED  BY <1>6, <2>1, <2>2
<1> QED  BY <1>7, <1>8

\* A handler leaves a state of the session. Those that are not the world's
\* keep the player where he is, or send him away; and a player who is not
\* there does not come by one, nor does the mark of his logout.
LEMMA EffectIs ==
  ASSUME SessionTypeOK, NEW kind \in AllKinds, Calls(kind), Effect(kind)
  PROVE  /\ socket' \in {"open", "closed", "gone"}
         /\ player' \in {"none", "loading", "inworld", "away"}
         /\ place' \in Places \cup {NoPlace} /\ (place' # NoPlace <=> player' = "inworld")
         /\ recently' \in BOOLEAN /\ leaving' \in BOOLEAN
         /\ kind \notin Unsafe => player' = "away" \/ (player' = player /\ place' = place)
         /\ ~HasPlayer /\ ~recently => ~HasPlayer' /\ ~recently'
<1> USE PacketAssumption DEF SessionTypeOK, HasPlayer
<1>1. CASE kind \in {"trade", "cancel", "move"}
  BY <1>1 DEF Effect
<1>2. CASE kind = "enum"
  BY <1>2 DEF Effect, Unsafe, AllKinds, InPlace, Safe, Authed
<1>3. CASE kind = "login"
  BY <1>3 DEF Effect, Unsafe, AllKinds, InPlace, Safe, Authed
<1>4. CASE kind = "ack"
  BY <1>4 DEF Effect, Unsafe, AllKinds, InPlace, Safe, Appear, Calls, LoggedIn, Authed
<1>5. CASE kind = "area"
  BY <1>5 DEF Effect, Calls, LoggedIn, Authed
<1>6. CASE kind = "logout"
  BY <1>6 DEF Effect, Unsafe, AllKinds, InPlace, Safe, Calls, LoggedIn, Authed, LoggedOut
<1> QED  BY <1>1, <1>2, <1>3, <1>4, <1>5, <1>6 DEF AllKinds, LoggedIn, Authed

SessionStep ==
  \/ \E kind \in Kinds : Receive(kind)
  \/ SocketCloses \/ PassesQueue
  \/ \E t \in Threads : BeginUpdate(t) \/ HandlePacket(t) \/ EndUpdate(t)
  \/ UNCHANGED sessionVars

\* Every step of the system is one of the session or leaves it alone.
LEMMA NextIsSessionStep == [Next]_vars => SessionStep
<1> SUFFICES ASSUME [Next]_vars PROVE SessionStep
  OBVIOUS
<1>1. CASE UNCHANGED vars \/ Network \/ OthersLeave
  BY <1>1 DEF vars, Network, OthersLeave, SessionStep
<1>2. CASE WorldThread \/ Stop
  BY <1>2 DEF WorldThread, Stop, BeginSession, WorldHandles, EndSession, BeginMaps, ScheduleMaps,
              EndWait, EndStop, SessionStep, Threads
<1>3. ASSUME NEW w \in MapThreads, MapThread(w) PROVE SessionStep
  BY <1>3 DEF MapThread, TakeRequest, BeginMap, BeginPlayer, MapHandles, EndPlayer, UpdateMap,
              FinishMap, SessionStep, Threads
<1> QED  BY <1>1, <1>2, <1>3 DEF Next

\* A thread that updates the session has a record of its own.
LEMMA UpdateIs ==
  ASSUME SessionTypeOK, NEW t \in Threads, update[t] # NoUpdate
  PROVE  /\ update[t] \in PacketUpdate /\ update[t].requeue \in Seq(Packet)
         /\ update[t].processed \in 0 .. Cap + 1
         /\ Range(update[t].requeue) \subseteq Packet
<1>1. update[t] \in PacketUpdate
  BY DEF SessionTypeOK
<1>2. update[t].requeue \in Seq(Packet) /\ update[t].processed \in 0 .. Cap + 1
  BY <1>1 DEF PacketUpdate
<1> QED  BY <1>1, <1>2, RangeType

\* The packet that a thread takes, and what becomes of its record.
LEMMA TakenIs ==
  ASSUME SessionTypeOK, NEW t \in Threads, HandlePacket(t)
  PROVE  /\ update[t] # NoUpdate /\ recv # <<>> /\ Head(recv) \in Packet
         /\ Process(t, Head(recv).kind)
         /\ recv' = Tail(recv) /\ recv' \in Seq(Packet) /\ arrived' = arrived
         /\ Range(recv) = {Head(recv)} \cup Range(recv')
         /\ update' \in [Threads -> PacketUpdate \cup {NoUpdate}]
         /\ update'[t] # NoUpdate
         /\ update'[t].requeue = IF Requeues(Head(recv).kind)
                                 THEN Append(update[t].requeue, Head(recv))
                                 ELSE update[t].requeue
         /\ \A u \in Threads : u # t => update'[u] = update[u]
<1> USE PacketAssumption
<1> DEFINE p == Head(recv)
           q == IF Requeues(p.kind) THEN Append(update[t].requeue, p) ELSE update[t].requeue
<1>1. /\ update[t] # NoUpdate /\ recv # <<>> /\ update[t].processed <= Cap
      /\ Process(t, p.kind) /\ recv' = Tail(recv) /\ arrived' = arrived
  BY DEF HandlePacket, TakesMore
<1>2. p \in Packet /\ recv' \in Seq(Packet) /\ Range(recv) = {p} \cup Range(recv')
  BY <1>1, RangeTail DEF SessionTypeOK
<1>3. /\ update[t] \in PacketUpdate /\ update[t].requeue \in Seq(Packet)
      /\ update[t].processed \in 0 .. Cap + 1
  BY <1>1, UpdateIs
<1>4. q \in Seq(Packet)
  BY <1>2, <1>3
<1>5. update' = [update EXCEPT ![t].processed = @ + 1,
                              ![t].requeue = IF Requeues(p.kind) THEN Append(@, p) ELSE @]
  BY DEF HandlePacket
<1>6. update'[t] \in PacketUpdate /\ update'[t].requeue = q
      /\ \A u \in Threads : u # t => update'[u] = update[u]
  <2> DEFINE once == [update EXCEPT ![t].processed = @ + 1]
  <2>1. update' = [once EXCEPT ![t].requeue = IF Requeues(p.kind) THEN Append(@, p) ELSE @]
    BY <1>5
  <2>2. DOMAIN update = Threads
    BY DEF SessionTypeOK
  <2>3. /\ once[t] \in PacketUpdate /\ once[t].requeue = update[t].requeue
        /\ DOMAIN once = Threads /\ \A u \in Threads : u # t => once[u] = update[u]
    BY <1>1, <1>3, <2>2 DEF PacketUpdate
  <2> HIDE DEF once
  <2>4. update'[t] = [once[t] EXCEPT !.requeue = q]
    BY <2>1, <2>3
  <2>5. \A u \in Threads : u # t => update'[u] = update[u]
    BY <2>1, <2>3
  <2> HIDE DEF q
  <2>6. update'[t] \in PacketUpdate /\ update'[t].requeue = q
    BY <1>4, <2>3, <2>4 DEF PacketUpdate
  <2> QED  BY <2>5, <2>6
<1>7. update' \in [Threads -> PacketUpdate \cup {NoUpdate}]
  <2>1. DOMAIN update' = Threads /\ update' = [u \in DOMAIN update' |-> update'[u]]
    BY <1>5 DEF SessionTypeOK
  <2>2. \A u \in Threads : update'[u] \in PacketUpdate \cup {NoUpdate}
    BY <1>6 DEF SessionTypeOK
  <2> QED  BY <2>1, <2>2
<1> HIDE DEF q
<1>8. update'[t] # NoUpdate
  BY <1>6
<1> QED  BY <1>1, <1>2, <1>6, <1>7, <1>8 DEF q

\* The types of the session are kept.
LEMMA SessionTypesKeep ==
  ASSUME SessionTypeOK, SessionStep
  PROVE  SessionTypeOK'
<1> USE PacketAssumption
<1>1. ASSUME NEW kind \in Kinds, Receive(kind)
      PROVE  SessionTypeOK'
  <2>1. [n |-> arrived + 1, kind |-> kind] \in Packet
    BY <1>1 DEF Receive, Packet, SessionTypeOK
  <2>2. recv' \in Seq(Packet) /\ arrived' \in 0 .. MaxPackets
    BY <1>1, <2>1 DEF Receive, SessionTypeOK
  <2> QED  BY <1>1, <2>2 DEF Receive, SessionTypeOK
<1>2. CASE SocketCloses \/ PassesQueue
  BY <1>2 DEF SocketCloses, PassesQueue, SessionTypeOK
<1>3. ASSUME NEW t \in Threads, BeginUpdate(t)
      PROVE  SessionTypeOK'
  <2>1. [requeue |-> <<>>, processed |-> 0] \in PacketUpdate
    BY DEF PacketUpdate
  <2>2. update' \in [Threads -> PacketUpdate \cup {NoUpdate}]
    BY <1>3, <2>1 DEF BeginUpdate, SessionTypeOK
  <2> QED  BY <1>3, <2>2 DEF BeginUpdate, SessionTypeOK
<1>4. ASSUME NEW t \in Threads, HandlePacket(t)
      PROVE  SessionTypeOK'
  <2> DEFINE p == Head(recv)
  <2>1. /\ p \in Packet /\ recv' \in Seq(Packet) /\ arrived' = arrived
        /\ update' \in [Threads -> PacketUpdate \cup {NoUpdate}]
    BY <1>4, TakenIs
  <2>2. inQueue' = inQueue
    BY <1>4 DEF HandlePacket
  <2>3. CASE Calls(p.kind)
    <3>1. Effect(p.kind) /\ handled' = [n |-> p.n, kind |-> p.kind, by |-> t]
      BY <1>4, <2>3 DEF HandlePacket
    <3>2. handled' \in PacketHandled /\ p.kind \in AllKinds
      BY <2>1, <3>1 DEF Packet, PacketHandled
    <3> HIDE DEF p
    <3> QED  BY <2>1, <2>2, <2>3, <3>1, <3>2, EffectIs DEF SessionTypeOK
  <2>4. CASE ~Calls(p.kind)
    <3>1. UNCHANGED <<socket, player, place, recently, leaving, handled>>
      BY <1>4, <2>4 DEF HandlePacket
    <3> QED  BY <2>1, <2>2, <3>1 DEF SessionTypeOK
  <2> QED  BY <2>3, <2>4
<1>5. ASSUME NEW t \in Threads, EndUpdate(t)
      PROVE  SessionTypeOK'
  <2>1. PICK s \in Finished(t) :
          /\ socket' = s.socket /\ player' = s.player /\ place' = s.place
          /\ recently' = s.recently /\ leaving' = s.leaving
    BY <1>5 DEF EndUpdate
  <2>2. s \in SessionStates
    BY <2>1, FinishedIs
  <2>3. update[t] # NoUpdate /\ update' = [update EXCEPT ![t] = NoUpdate]
        /\ recv' = update[t].requeue \o recv
    BY <1>5 DEF EndUpdate, Readded
  <2>4. recv' \in Seq(Packet)
    BY <2>3, UpdateIs, RangeConcat DEF SessionTypeOK
  <2>5. update' \in [Threads -> PacketUpdate \cup {NoUpdate}]
    BY <2>3 DEF SessionTypeOK
  <2>6. arrived' = arrived /\ inQueue' = inQueue /\ handled' = handled
    BY <1>5 DEF EndUpdate
  <2> QED  BY <2>1, <2>2, <2>4, <2>5, <2>6 DEF SessionTypeOK, SessionStates, SessionRecords
<1>6. CASE UNCHANGED sessionVars
  BY <1>6 DEF sessionVars, SessionTypeOK
<1> QED  BY <1>1, <1>2, <1>3, <1>4, <1>5, <1>6 DEF SessionStep

-----------------------------------------------------------------------------
(* Who updates the session *)

\* What is known of the threads leaves one that updates the session.
LEMMA OneThreadIs ==
  ASSUME MapsInv, UpdatedWhere
  PROVE  OneThread
<1> USE MapTypes
<1>1. ASSUME update[World] # NoUpdate, NEW w \in MapThreads
      PROVE  worker[w].pc = "idle" \/ worker[w].pc = "ended"
  <2>1. worldPc = "sessions"
    BY <1>1 DEF UpdatedWhere
  <2>2. worker[w].map = NoMap /\ ~shutdown
    BY <2>1 DEF MapsInv, Quiet, Holders, Phases
  <2> QED  BY <2>2 DEF MapsInv, WorkerPlaces
<1>2. ASSUME NEW w \in MapThreads, update[World] # NoUpdate, update[w] # NoUpdate
      PROVE  FALSE
  BY <1>1, <1>2 DEF UpdatedWhere
<1> QED  BY <1>1, <1>2 DEF OneThread, UpdatedWhere, Threads

\* A step of the world's thread, while no map thread updates the session.
LEMMA WorldThreadUpdates ==
  ASSUME MapsInv, SessionInv, WorldThread \/ Stop
  PROVE  UpdatedWhere' /\ due' \subseteq Threads
<1> USE PacketAssumption
<1>1. OneThread /\ World \in Threads /\ MapThreads \subseteq Threads
  BY OneThreadIs DEF SessionInv, Threads
<1>2. ASSUME BeginSession \/ WorldHandles \/ EndSession
      PROVE  UpdatedWhere' /\ due' \subseteq Threads
  <2>1. /\ worldPc = "sessions" /\ worldPc' = worldPc /\ due' \subseteq due
        /\ DOMAIN update = Threads
    BY <1>2 DEF BeginSession, WorldHandles, EndSession, HandlePacket, TakesMore, EndUpdate,
                SessionInv, SessionTypeOK, UpdatedWhere, mapVars
  <2>2. \A w \in MapThreads : update[w] = NoUpdate
    <3>1. CASE BeginSession
      <4>1. \A w \in MapThreads : worker[w].pc # "updating"
        BY <2>1, MapTypes DEF MapsInv, Quiet, Holders, WorkerPlaces
      <4> QED  BY <4>1 DEF SessionInv, UpdatedWhere
    <3>2. CASE ~BeginSession
      <4>1. update[World] # NoUpdate
        BY <1>2, <3>2 DEF WorldHandles, EndSession, HandlePacket, TakesMore, EndUpdate
      <4> QED  BY <1>1, <4>1 DEF OneThread
    <3> QED  BY <3>1, <3>2
  <2>3. \A w \in MapThreads : update'[w] = update[w]
    <3>1. \A w \in MapThreads : w # World
      OBVIOUS
    <3>2. CASE WorldHandles
      BY <3>1, <3>2, <1>1, TakenIs DEF WorldHandles, SessionInv
    <3>3. CASE BeginSession \/ EndSession
      BY <3>1, <3>3, <2>1, <1>1 DEF BeginSession, EndSession, BeginUpdate, EndUpdate
    <3> QED  BY <1>2, <3>2, <3>3
  <2> QED  BY <2>1, <2>2, <2>3 DEF UpdatedWhere, SessionInv
<1>3. ASSUME BeginMaps \/ ScheduleMaps \/ EndWait \/ EndStop \/ Stop
      PROVE  UpdatedWhere' /\ due' \subseteq Threads
  <2>1. update' = update /\ player' = player /\ place' = place
    BY <1>3 DEF BeginMaps, ScheduleMaps, EndWait, EndStop, Stop, sessionVars
  <2>2. worker' = worker
    BY <1>3 DEF BeginMaps, ScheduleMaps, EndWait, EndStop, Stop, Maps!BeginMaps, Maps!ScheduleMap,
                Maps!EndWait, Maps!CancelQueue, Maps!Join, Maps!Deactivate
  <2>3. due' \subseteq Threads
    BY <1>1, <1>3 DEF BeginMaps, ScheduleMaps, EndWait, EndStop, Stop, SessionInv
  <2>4. update[World] # NoUpdate => worldPc' = "sessions"
    BY <1>3 DEF BeginMaps, ScheduleMaps, EndWait, EndStop, Stop, SessionsDone, SessionInv, UpdatedWhere,
                Maps!ScheduleMap, Maps!EndWait, Maps!CancelQueue, Maps!Join
  <2> QED  BY <2>1, <2>2, <2>3, <2>4 DEF SessionInv, UpdatedWhere
<1> QED  BY <1>2, <1>3 DEF WorldThread

\* A step of map thread w.
LEMMA MapThreadUpdates ==
  ASSUME MapsInv, SessionInv, NEW w \in MapThreads, MapThread(w)
  PROVE  UpdatedWhere' /\ due' \subseteq Threads
<1> USE PacketAssumption
<1>1. /\ OneThread /\ World \in Threads /\ MapThreads \subseteq Threads
      /\ w # World /\ DOMAIN update = Threads /\ DOMAIN worker = MapThreads
  BY OneThreadIs, MapTypes DEF SessionInv, SessionTypeOK, Threads
<1>2. ASSUME TakeRequest(w) \/ BeginMap(w) \/ UpdateMap(w) \/ FinishMap(w)
      PROVE  UpdatedWhere' /\ due' \subseteq Threads
  <2>1. /\ update' = update /\ player' = player /\ place' = place /\ worldPc' = worldPc
        /\ due' \subseteq due \cup {w}
    BY <1>2 DEF TakeRequest, BeginMap, UpdateMap, FinishMap, sessionVars, Maps!Pop, Maps!CheckToken,
                Maps!UpdateMap, Maps!ScheduleInstance, Maps!UpdateFinished
  <2>2. \A v \in MapThreads : v # w => worker'[v] = worker[v]
    BY <1>1, <1>2 DEF TakeRequest, BeginMap, UpdateMap, FinishMap, Maps!Pop, Maps!CheckToken,
                Maps!UpdateMap, Maps!ScheduleInstance, Maps!UpdateFinished
  <2>3. update[w] = NoUpdate
    <3>1. worker[w].pc # "updating" \/ update[w] = NoUpdate
      BY <1>2 DEF TakeRequest, BeginMap, UpdateMap, FinishMap, Maps!Pop, Maps!CheckToken,
                  Maps!ScheduleInstance, Maps!UpdateFinished
    <3> QED  BY <3>1 DEF SessionInv, UpdatedWhere
  <2>4. \A v \in MapThreads : update[v] # NoUpdate => worker'[v] = worker[v]
    BY <2>2, <2>3
  <2> QED  BY <1>1, <2>1, <2>4 DEF SessionInv, UpdatedWhere
<1>3. CASE BeginPlayer(w)
  <2>1. /\ worker[w].pc = "updating" /\ player = "inworld" /\ place = worker[w].map
        /\ update[w] = NoUpdate /\ update' = [update EXCEPT ![w] = [requeue |-> <<>>, processed |-> 0]]
        /\ player' = player /\ place' = place /\ worker' = worker /\ worldPc' = worldPc
        /\ due' \subseteq due
    BY <1>3 DEF BeginPlayer, Holds, BeginUpdate, mapVars
  <2>2. \A v \in MapThreads : v # w => update[v] = NoUpdate
    <3> SUFFICES ASSUME NEW v \in MapThreads, v # w, update[v] # NoUpdate
                 PROVE  FALSE
      OBVIOUS
    <3>1. worker[v].pc = "updating" /\ worker[v].map = worker[w].map
      BY <2>1 DEF SessionInv, UpdatedWhere
    <3>2. worker[w].map # NoMap
      BY <2>1 DEF MapsInv, WorkerPlaces
    <3> QED  BY <3>1, <3>2 DEF MapsInv, OneRequest, Holders
  <2>3. \A t \in Threads : t # w => update'[t] = update[t]
    BY <1>1, <2>1
  <2> QED  BY <1>1, <2>1, <2>2, <2>3 DEF SessionInv, UpdatedWhere
<1>4. CASE MapHandles(w) \/ EndPlayer(w)
  <2>1. /\ update[w] # NoUpdate /\ worker' = worker /\ worldPc' = worldPc /\ due' = due
    BY <1>4 DEF MapHandles, EndPlayer, HandlePacket, TakesMore, EndUpdate, mapVars
  <2>2. \A t \in Threads : t # w => update[t] = NoUpdate
    BY <1>1, <2>1 DEF OneThread
  <2>3. \A t \in Threads : t # w => update'[t] = update[t]
    <3>1. CASE MapHandles(w)
      BY <3>1, <1>1, TakenIs DEF MapHandles, SessionInv
    <3>2. CASE EndPlayer(w)
      BY <3>2, <1>1 DEF EndPlayer, EndUpdate
    <3> QED  BY <1>4, <3>1, <3>2
  <2>4. worker[w].pc = "updating" /\ (player = "away" \/ (player = "inworld" /\ place = worker[w].map))
    BY <2>1 DEF SessionInv, UpdatedWhere
  <2>5. player' = "away" \/ (player' = player /\ place' = place)
    <3>1. CASE MapHandles(w)
      <4> DEFINE kind == Head(recv).kind
      <4>1. Process(w, kind) /\ kind \in AllKinds
        BY <3>1, <1>1, TakenIs DEF MapHandles, SessionInv, Packet
      <4>2. kind \notin Unsafe
        BY <4>1, <1>1 DEF Process, Unsafe
      <4>3. CASE Calls(kind)
        <5>1. Effect(kind)
          BY <3>1, <4>3 DEF MapHandles, HandlePacket
        <5> HIDE DEF kind
        <5> QED  BY <4>1, <4>2, <4>3, <5>1, EffectIs DEF SessionInv
      <4>4. CASE ~Calls(kind)
        BY <3>1, <4>4 DEF MapHandles, HandlePacket
      <4> QED  BY <4>3, <4>4
    <3>2. CASE EndPlayer(w)
      <4>1. PICK s \in Finished(w) : player' = s.player /\ place' = s.place
        BY <3>2 DEF EndPlayer, EndUpdate
      <4>2. s = State
        BY <1>1, <2>4, <4>1, FinishedIs DEF SessionInv
      <4> QED  BY <4>1, <4>2 DEF State
    <3> QED  BY <1>4, <3>1, <3>2
  <2> QED  BY <1>1, <2>1, <2>2, <2>3, <2>4, <2>5 DEF SessionInv, UpdatedWhere
<1> QED  BY <1>2, <1>3, <1>4 DEF MapThread

\* What is said of the session is inductive, given what is said of the maps.
LEMMA SessionKeeps ==
  ASSUME MapsInv, SessionInv, [Next]_vars
  PROVE  SessionInv'
<1>1. SessionTypeOK'
  BY NextIsSessionStep, SessionTypesKeep DEF SessionInv
<1>2. CASE UNCHANGED vars \/ Network \/ OthersLeave
  <2>1. /\ update' = update /\ player' = player /\ place' = place /\ due' = due
        /\ worker' = worker /\ worldPc' = worldPc
    BY <1>2 DEF vars, sessionVars, mapVars, Network, OthersLeave, Receive, SocketCloses, PassesQueue
  <2> QED  BY <1>1, <2>1 DEF SessionInv, UpdatedWhere
<1> QED  BY <1>1, <1>2, WorldThreadUpdates, MapThreadUpdates DEF Next, SessionInv

-----------------------------------------------------------------------------
(* The order of the packets *)

\* The numbers of packets are natural.
LEMMA Numbers ==
  ASSUME NEW q \in Seq(Packet)
  PROVE  /\ \A i \in DOMAIN q : q[i] \in Packet /\ q[i].n \in Nat
         /\ \A p \in Range(q) : p \in Packet /\ p.n \in Nat
<1>1. \A p \in Packet : p.n \in Nat
  BY DEF Packet
<1> QED  BY <1>1 DEF Range

\* The head of an ascending queue precedes the rest, which ascends.
LEMMA AscendingTail ==
  ASSUME NEW q \in Seq(Packet), q # <<>>, Ascending(q)
  PROVE  /\ Ascending(Tail(q))
         /\ \A p \in Range(Tail(q)) : Head(q).n < p.n
<1>1. /\ Len(q) \in Nat \ {0} /\ DOMAIN q = 1 .. Len(q) /\ DOMAIN Tail(q) = 1 .. (Len(q) - 1)
      /\ \A i \in 1 .. (Len(q) - 1) : Tail(q)[i] = q[i + 1] /\ i + 1 \in 1 .. Len(q)
      /\ Head(q) = q[1] /\ 1 \in 1 .. Len(q)
  OBVIOUS
<1>2. Ascending(Tail(q))
  <2> SUFFICES ASSUME NEW i \in DOMAIN Tail(q), NEW j \in DOMAIN Tail(q), i < j
               PROVE  Tail(q)[i].n < Tail(q)[j].n
    BY DEF Ascending
  <2>1. i + 1 \in DOMAIN q /\ j + 1 \in DOMAIN q /\ i + 1 < j + 1
    BY <1>1
  <2>2. q[i + 1].n < q[j + 1].n
    BY <2>1 DEF Ascending
  <2> QED  BY <1>1, <2>2
<1>3. ASSUME NEW p \in Range(Tail(q))
      PROVE  Head(q).n < p.n
  <2>1. PICK i \in DOMAIN Tail(q) : p = Tail(q)[i]
    BY DEF Range
  <2>2. i + 1 \in DOMAIN q /\ 1 < i + 1 /\ 1 \in DOMAIN q
    BY <1>1
  <2>3. q[1].n < q[i + 1].n
    BY <2>2 DEF Ascending
  <2> QED  BY <1>1, <2>1, <2>3
<1> QED  BY <1>2, <1>3

\* Two ascending queues, the first of which precedes the second, ascend as one.
LEMMA AscendingConcat ==
  ASSUME NEW q \in Seq(Packet), NEW r \in Seq(Packet), Ascending(q), Ascending(r),
         \A p \in Range(q) : \A s \in Range(r) : p.n < s.n
  PROVE  Ascending(q \o r)
<1> DEFINE u == q \o r
<1>1. /\ Len(q) \in Nat /\ Len(r) \in Nat /\ DOMAIN q = 1 .. Len(q) /\ DOMAIN r = 1 .. Len(r)
      /\ DOMAIN u = 1 .. (Len(q) + Len(r))
      /\ \A i \in 1 .. Len(q) : u[i] = q[i]
      /\ \A i \in 1 .. (Len(q) + Len(r)) : i > Len(q) =>
           u[i] = r[i - Len(q)] /\ i - Len(q) \in 1 .. Len(r)
  OBVIOUS
<1> HIDE DEF u
<1> SUFFICES ASSUME NEW i \in DOMAIN u, NEW j \in DOMAIN u, i < j
             PROVE  u[i].n < u[j].n
  BY DEF Ascending, u
<1>2. CASE j <= Len(q)
  <2>1. i \in DOMAIN q /\ j \in DOMAIN q /\ u[i] = q[i] /\ u[j] = q[j]
    BY <1>1, <1>2
  <2> QED  BY <2>1 DEF Ascending
<1>3. CASE i > Len(q)
  <2>1. i \in 1 .. (Len(q) + Len(r)) /\ j \in 1 .. (Len(q) + Len(r)) /\ j > Len(q)
    BY <1>1, <1>3
  <2>2. i - Len(q) \in DOMAIN r /\ u[i] = r[i - Len(q)]
    BY <1>1, <1>3, <2>1
  <2>3. j - Len(q) \in DOMAIN r /\ u[j] = r[j - Len(q)]
    BY <1>1, <2>1
  <2>4. i - Len(q) < j - Len(q)
    BY <1>1, <2>1
  <2> QED  BY <2>2, <2>3, <2>4 DEF Ascending
<1>4. CASE i <= Len(q) /\ j > Len(q)
  <2>1. i \in DOMAIN q /\ j - Len(q) \in DOMAIN r /\ u[i] = q[i] /\ u[j] = r[j - Len(q)]
    BY <1>1, <1>4
  <2>2. u[i] \in Range(q) /\ u[j] \in Range(r)
    BY <2>1 DEF Range
  <2> QED  BY <2>2
<1> QED  BY <1>1, <1>2, <1>3, <1>4

\* A packet behind all others.
LEMMA AscendingAppend ==
  ASSUME NEW q \in Seq(Packet), NEW p \in Packet, Ascending(q), \A s \in Range(q) : s.n < p.n
  PROVE  Ascending(Append(q, p))
<1> DEFINE u == Append(q, p)
<1>1. /\ Len(q) \in Nat /\ DOMAIN q = 1 .. Len(q) /\ DOMAIN u = 1 .. (Len(q) + 1)
      /\ \A i \in 1 .. Len(q) : u[i] = q[i]
      /\ u[Len(q) + 1] = p
  OBVIOUS
<1> HIDE DEF u
<1> SUFFICES ASSUME NEW i \in DOMAIN u, NEW j \in DOMAIN u, i < j
             PROVE  u[i].n < u[j].n
  BY DEF Ascending, u
<1>2. i \in DOMAIN q /\ u[i] = q[i] /\ q[i] \in Range(q)
  BY <1>1 DEF Range
<1>3. CASE j = Len(q) + 1
  BY <1>1, <1>2, <1>3
<1>4. CASE j # Len(q) + 1
  <2>1. j \in DOMAIN q /\ u[j] = q[j]
    BY <1>1, <1>4
  <2> QED  BY <1>2, <2>1 DEF Ascending
<1> QED  BY <1>3, <1>4

OrderInv == PacketsAscend /\ PutBack /\ HandledBefore

\* A packet arrives.
LEMMA ReceiveOrders ==
  ASSUME SessionTypeOK, OrderInv, NEW kind \in Kinds, Receive(kind)
  PROVE  OrderInv'
<1> USE PacketAssumption
<1> DEFINE p == [n |-> arrived + 1, kind |-> kind]
<1>1. /\ arrived' = arrived + 1 /\ recv' = Append(recv, p) /\ arrived < MaxPackets
      /\ UNCHANGED <<player, recently, update, handled>>
  BY DEF Receive
<1>2. p \in Packet /\ p.n = arrived + 1 /\ arrived \in Nat /\ recv \in Seq(Packet)
  BY <1>1 DEF Packet, SessionTypeOK
<1> HIDE DEF p
<1>3. Range(recv') = Range(recv) \cup {p}
  BY <1>1, <1>2, RangeAppend
<1>4. \A s \in Range(recv) : s.n \in Nat /\ s.n <= arrived /\ s.n < p.n
  BY <1>2, Numbers DEF OrderInv, PacketsAscend
<1>5. \A t \in Threads : update[t] # NoUpdate =>
        \A s \in Range(update[t].requeue) : s.n \in Nat /\ s.n <= arrived /\ s.n < p.n
  <2> SUFFICES ASSUME NEW t \in Threads, update[t] # NoUpdate, NEW s \in Range(update[t].requeue)
               PROVE  s.n \in Nat /\ s.n <= arrived /\ s.n < p.n
    OBVIOUS
  <2>1. s.n \in Nat
    BY UpdateIs, Numbers
  <2>2. s.n <= arrived
    BY DEF OrderInv, PacketsAscend
  <2> QED  BY <1>2, <2>1, <2>2
<1>6. PacketsAscend'
  <2>1. Ascending(recv')
    BY <1>1, <1>2, <1>4, AscendingAppend DEF OrderInv, PacketsAscend
  <2>2. \A s \in Range(recv') : s.n <= arrived'
    BY <1>1, <1>2, <1>3, <1>4
  <2>3. ASSUME NEW t \in Threads, update[t] # NoUpdate, NEW s \in Range(update[t].requeue)
        PROVE  s.kind \in LoggedIn /\ s.n <= arrived' /\ \A r \in Range(recv') : s.n < r.n
    <3>1. s.kind \in LoggedIn /\ \A r \in Range(recv) : s.n < r.n
      BY <2>3 DEF OrderInv, PacketsAscend
    <3>2. s.n \in Nat /\ s.n <= arrived /\ s.n < p.n
      BY <1>5, <2>3
    <3> QED  BY <1>1, <1>2, <1>3, <3>1, <3>2
  <2> QED  BY <1>1, <2>1, <2>2, <2>3 DEF OrderInv, PacketsAscend
<1>7. PutBack'
  BY <1>1 DEF OrderInv, PutBack, HasPlayer
<1>8. HandledBefore'
  <2> SUFFICES ASSUME handled # NoPacket, handled.kind \in LoggedIn
               PROVE  /\ handled.n <= arrived'
                      /\ \A s \in Range(recv') : s.kind \in LoggedIn => s.n > handled.n
    BY <1>1 DEF HandledBefore, OrderInv
  <2>1. handled.n \in Nat
    BY DEF SessionTypeOK, PacketHandled
  <2>2. handled.n <= arrived /\ \A s \in Range(recv) : s.kind \in LoggedIn => s.n > handled.n
    BY DEF OrderInv, HandledBefore
  <2> QED  BY <1>1, <1>2, <1>3, <2>1, <2>2
<1> QED  BY <1>6, <1>7, <1>8 DEF OrderInv

\* An update begins.
LEMMA BeginUpdateOrders ==
  ASSUME SessionTypeOK, OrderInv, NEW t \in Threads, BeginUpdate(t)
  PROVE  OrderInv'
<1>1. /\ update' = [update EXCEPT ![t] = [requeue |-> <<>>, processed |-> 0]]
      /\ UNCHANGED <<recv, arrived, player, recently, handled>>
  BY DEF BeginUpdate
<1>2. /\ update'[t].requeue = <<>> /\ \A u \in Threads : u # t => update'[u] = update[u]
  BY <1>1 DEF SessionTypeOK
<1>3. Range(<<>>) = {} /\ Ascending(<<>>)
  BY EmptySequence DEF Ascending
<1>4. PacketsAscend'
  BY <1>1, <1>2, <1>3 DEF OrderInv, PacketsAscend
<1>5. PutBack'
  BY <1>1, <1>2 DEF OrderInv, PutBack, HasPlayer
<1>6. HandledBefore'
  BY <1>1, <1>2, <1>3 DEF OrderInv, HandledBefore
<1> QED  BY <1>4, <1>5, <1>6 DEF OrderInv

\* An update ends: what it put back comes first again.
LEMMA EndUpdateOrders ==
  ASSUME SessionTypeOK, OneThread, OrderInv, NEW t \in Threads, EndUpdate(t)
  PROVE  OrderInv'
<1>1. /\ update[t] # NoUpdate /\ recv' = update[t].requeue \o recv
      /\ update' = [update EXCEPT ![t] = NoUpdate] /\ arrived' = arrived /\ handled' = handled
  BY DEF EndUpdate, Readded
<1>2. \A u \in Threads : update'[u] = NoUpdate
  BY <1>1 DEF OneThread, SessionTypeOK
<1>3. recv \in Seq(Packet) /\ update[t].requeue \in Seq(Packet)
  BY <1>1, UpdateIs DEF SessionTypeOK
<1>4. Range(recv') = Range(update[t].requeue) \cup Range(recv)
  BY <1>1, <1>3, RangeConcat
<1>5. Ascending(recv')
  BY <1>1, <1>3, AscendingConcat DEF OrderInv, PacketsAscend
<1>6. PacketsAscend'
  BY <1>1, <1>2, <1>4, <1>5 DEF OrderInv, PacketsAscend
<1>7. PutBack'
  BY <1>2 DEF PutBack
<1>8. HandledBefore'
  BY <1>1, <1>2, <1>4 DEF OrderInv, HandledBefore
<1> QED  BY <1>6, <1>7, <1>8 DEF OrderInv

\* A packet is taken: put back behind those of its kind, or handled when none
\* of its kind was put back.
LEMMA HandlePacketOrders ==
  ASSUME SessionTypeOK, OneThread, OrderInv, NEW t \in Threads, HandlePacket(t)
  PROVE  /\ OrderInv'
         /\ handled # NoPacket /\ handled' # handled
            /\ handled.kind \in LoggedIn /\ handled'.kind \in LoggedIn
            => handled'.n > handled.n
<1> USE PacketAssumption
<1> DEFINE p == Head(recv)
<1>1. /\ update[t] # NoUpdate /\ recv # <<>> /\ p \in Packet /\ recv \in Seq(Packet)
      /\ recv' = Tail(recv) /\ arrived' = arrived
      /\ Range(recv) = {p} \cup Range(recv') /\ update'[t] # NoUpdate
      /\ update'[t].requeue = IF Requeues(p.kind) THEN Append(update[t].requeue, p)
                              ELSE update[t].requeue
      /\ \A u \in Threads : u # t => update'[u] = update[u]
  BY TakenIs DEF SessionTypeOK
<1>2. \A u \in Threads : u # t => update[u] = NoUpdate /\ update'[u] = NoUpdate
  BY <1>1 DEF OneThread
<1>3. update[t].requeue \in Seq(Packet)
  BY <1>1, UpdateIs
<1>4. /\ Ascending(recv') /\ \A s \in Range(recv') : p.n < s.n
  BY <1>1, AscendingTail DEF OrderInv, PacketsAscend
<1>5. \/ Calls(p.kind) /\ Effect(p.kind) /\ handled' = [n |-> p.n, kind |-> p.kind, by |-> t]
      \/ ~Calls(p.kind) /\ UNCHANGED <<player, recently, handled>>
  BY DEF HandlePacket
<1>6. p.kind \in AllKinds /\ p.n \in Nat /\ p.n <= arrived
  BY <1>1, Numbers DEF Packet, OrderInv, PacketsAscend
<1> HIDE DEF p
<1>7. \A s \in Range(update'[t].requeue) :
        s \in Range(update[t].requeue) \/ (s = p /\ Requeues(p.kind))
  BY <1>1, <1>3, RangeAppend
<1>8. PacketsAscend'
  <2>1. Ascending(update'[t].requeue)
    <3>1. Ascending(update[t].requeue) /\ \A s \in Range(update[t].requeue) : s.n < p.n
      BY <1>1 DEF OrderInv, PacketsAscend
    <3> QED  BY <1>1, <1>3, <3>1, AscendingAppend
  <2>2. ASSUME NEW s \in Range(update'[t].requeue)
        PROVE  s.kind \in LoggedIn /\ s.n <= arrived /\ \A r \in Range(recv') : s.n < r.n
    <3>1. CASE s \in Range(update[t].requeue)
      BY <3>1, <1>1 DEF OrderInv, PacketsAscend
    <3>2. CASE s = p /\ Requeues(p.kind)
      BY <3>2, <1>4, <1>6 DEF Requeues
    <3> QED  BY <1>7, <2>2, <3>1, <3>2
  <2>3. \A s \in Range(recv') : s.n <= arrived
    BY <1>1 DEF OrderInv, PacketsAscend
  <2> QED  BY <1>1, <1>2, <1>4, <2>1, <2>2, <2>3 DEF PacketsAscend
<1>9. PutBack'
  <2> SUFFICES ASSUME update'[t].requeue # <<>>
               PROVE  ~HasPlayer' /\ ~recently'
    BY <1>2 DEF PutBack
  <2>1. ~HasPlayer /\ ~recently
    <3>1. CASE Requeues(p.kind)
      BY <3>1 DEF Requeues
    <3>2. CASE ~Requeues(p.kind)
      BY <1>1, <3>2 DEF OrderInv, PutBack
    <3> QED  BY <3>1, <3>2
  <2>2. CASE Calls(p.kind)
    BY <1>5, <1>6, <2>1, <2>2, EffectIs
  <2>3. CASE ~Calls(p.kind)
    BY <1>5, <2>1, <2>3 DEF HasPlayer
  <2> QED  BY <2>2, <2>3
<1>10. CASE Calls(p.kind)
  <2>1. handled' = [n |-> p.n, kind |-> p.kind, by |-> t]
    BY <1>5, <1>10
  <2>2. handled'.n = p.n /\ handled'.kind = p.kind
    BY <2>1
  <2>3. p.kind \in LoggedIn => HasPlayer /\ ~Requeues(p.kind)
    BY <1>10 DEF Calls, HasPlayer, Requeues, LoggedIn, Authed
  <2>4. p.kind \in LoggedIn => update'[t].requeue = <<>>
    BY <1>1, <2>3 DEF OrderInv, PutBack
  <2>5. HandledBefore'
    BY <1>1, <1>2, <1>4, <1>6, <2>2, <2>4, EmptySequence DEF HandledBefore
  <2>6. handled # NoPacket /\ handled.kind \in LoggedIn /\ p.kind \in LoggedIn => p.n > handled.n
    BY <1>1 DEF OrderInv, HandledBefore
  <2> QED  BY <1>8, <1>9, <2>2, <2>5, <2>6 DEF OrderInv
<1>11. CASE ~Calls(p.kind)
  <2>1. handled' = handled
    BY <1>5, <1>11
  <2>2. HandledBefore'
    <3> SUFFICES ASSUME handled # NoPacket, handled.kind \in LoggedIn
                 PROVE  /\ handled.n <= arrived
                        /\ \A s \in Range(recv') : s.kind \in LoggedIn => s.n > handled.n
                        /\ \A s \in Range(update'[t].requeue) : s.n > handled.n
      BY <1>1, <1>2, <2>1 DEF HandledBefore
    <3>1. /\ handled.n <= arrived
          /\ \A s \in Range(recv) : s.kind \in LoggedIn => s.n > handled.n
          /\ \A s \in Range(update[t].requeue) : s.n > handled.n
      BY <1>1 DEF OrderInv, HandledBefore
    <3>2. Requeues(p.kind) => p.n > handled.n
      BY <1>1, <3>1 DEF Requeues
    <3> QED  BY <1>1, <1>7, <3>1, <3>2
  <2> QED  BY <1>8, <1>9, <2>1, <2>2 DEF OrderInv
<1> QED  BY <1>10, <1>11

\* The packets keep their order.
LEMMA OrderKeeps ==
  ASSUME SessionTypeOK, OneThread, OrderInv, SessionStep
  PROVE  /\ OrderInv'
         /\ handled # NoPacket /\ handled' # handled
            /\ handled.kind \in LoggedIn /\ handled'.kind \in LoggedIn
            => handled'.n > handled.n
<1>1. ASSUME UNCHANGED <<recv, arrived, player, recently, update, handled>>
      PROVE  OrderInv'
  BY <1>1 DEF OrderInv, PacketsAscend, PutBack, HandledBefore, HasPlayer
<1>2. CASE SocketCloses \/ PassesQueue \/ UNCHANGED sessionVars
  BY <1>1, <1>2 DEF SocketCloses, PassesQueue, sessionVars
<1>3. ASSUME NEW kind \in Kinds, Receive(kind)
      PROVE  OrderInv' /\ handled' = handled
  BY <1>3, ReceiveOrders DEF Receive
<1>4. ASSUME NEW t \in Threads, BeginUpdate(t)
      PROVE  OrderInv' /\ handled' = handled
  BY <1>4, BeginUpdateOrders DEF BeginUpdate
<1>5. ASSUME NEW t \in Threads, EndUpdate(t)
      PROVE  OrderInv' /\ handled' = handled
  BY <1>5, EndUpdateOrders DEF EndUpdate
<1> QED  BY <1>2, <1>3, <1>4, <1>5, HandlePacketOrders
         DEF SessionStep, SocketCloses, PassesQueue, sessionVars

-----------------------------------------------------------------------------
(* The inductive invariant *)

\* Nothing is queued, held or updated when the world starts.
LEMMA Initially == Init => IInv
<1> SUFFICES ASSUME Init PROVE IInv
  OBVIOUS
<1>1. /\ worldPc = "sessions" /\ toSchedule = {} /\ queue = <<>> /\ pending = 0
      /\ cancel = FALSE /\ shutdown = FALSE /\ updated = {} /\ DOMAIN worker = MapThreads
      /\ \A w \in MapThreads : worker[w] = [pc |-> "idle", map |-> NoMap, left |-> {}]
  BY DEF Init, Maps!MapInit, Maps!Idle, Maps!At
<1>2. /\ recv = <<>> /\ arrived = 0 /\ socket = "open" /\ inQueue \in BOOLEAN
      /\ player = "none" /\ place = NoPlace /\ recently = FALSE /\ leaving = FALSE
      /\ update = [t \in Threads |-> NoUpdate] /\ handled = NoPacket /\ due = {World}
  BY DEF Init, SessionInit
<1>3. Holders = {} /\ Cardinality(Holders) = 0
  <2>1. Holders = {}
    BY <1>1 DEF Holders
  <2> QED  BY <2>1, FS_EmptySet
<1>4. Range(<<>>) = {} /\ IsInjective(<<>>) /\ Len(<<>>) = 0 /\ <<>> \in Seq(Maps!AllMaps)
      /\ <<>> \in Seq(Packet)
  BY EmptySequence
<1>5. Maps!MapTypeOK
  <2>1. worker \in [MapThreads -> [pc : {"idle", "popped", "updating", "nested", "ended"},
                                   map : Maps!AllMaps \cup {NoMap}, left : SUBSET Maps!AllMaps]]
    BY MapsAssumption DEF Init, Maps!MapInit, Maps!Idle, Maps!At
  <2> QED  BY <1>1, <1>4, <2>1 DEF Maps!MapTypeOK
<1>6. Phases /\ WorkerPlaces /\ Quiet /\ NoneForgotten
  <2>1. Phases
    BY <1>1 DEF Phases
  <2>2. WorkerPlaces
    <3> SUFFICES ASSUME NEW w \in MapThreads
                 PROVE  worker[w].pc = "idle" /\ worker[w].map = NoMap /\ worker[w].left = {}
                          /\ worker[w].map \notin updated
      BY DEF WorkerPlaces
    <3> QED  BY <1>1
  <2>3. Quiet /\ NoneForgotten
    BY <1>1, <1>3 DEF Quiet, NoneForgotten
  <2> QED  BY <2>1, <2>2, <2>3
<1>7. PendingCounts /\ OneRequest /\ InstancesFollow
  <2>1. PendingCounts
    BY <1>1, <1>3, <1>4 DEF PendingCounts
  <2>2. OneRequest
    BY <1>1, <1>3, <1>4 DEF OneRequest
  <2>3. InstancesFollow
    <3> SUFFICES ASSUME NEW m \in BaseMaps, NEW i \in Instances[m]
                 PROVE  i \notin Range(queue) \cup updated /\ \A v \in MapThreads : worker[v].map # i
      BY DEF InstancesFollow
    <3> QED  BY <1>1, <1>4, MapsAssumption DEF Maps!AllMaps
  <2> QED  BY <2>1, <2>2, <2>3
<1>8. SessionInv
  <2>1. \A t \in Threads : update[t] = NoUpdate
    BY <1>2
  <2>2. UpdatedWhere /\ due \subseteq Threads
    BY <1>2, <2>1 DEF UpdatedWhere, Threads
  <2>3. SessionTypeOK
    <3>1. recently \in BOOLEAN /\ leaving \in BOOLEAN
      BY <1>2, Zenon
    <3>2. arrived \in 0 .. MaxPackets
      BY <1>2, PacketAssumption
    <3> QED  BY <1>2, <1>4, <3>1, <3>2, PacketAssumption DEF SessionTypeOK
  <2> QED  BY <2>2, <2>3 DEF SessionInv
<1>9. PacketsAscend /\ PutBack /\ HandledBefore
  BY <1>2, <1>4 DEF PacketsAscend, PutBack, HandledBefore, Ascending
<1> QED  BY <1>5, <1>6, <1>7, <1>8, <1>9 DEF IInv, MapsInv

\* Every step keeps the invariant, and the order of what is handled.
LEMMA NextKeeps ==
  ASSUME IInv, [Next]_vars
  PROVE  /\ IInv'
         /\ handled # NoPacket /\ handled' # handled
            /\ handled.kind \in LoggedIn /\ handled'.kind \in LoggedIn
            => handled'.n > handled.n
<1>1. MapsInv'
  BY NextIsMapStep, MapStepKeeps DEF IInv
<1>2. SessionInv'
  BY SessionKeeps DEF IInv
<1>3. SessionTypeOK /\ OneThread /\ OrderInv /\ SessionStep
  BY OneThreadIs, NextIsSessionStep DEF IInv, SessionInv, OrderInv
<1>4. OrderInv' /\ (handled # NoPacket /\ handled' # handled
                       /\ handled.kind \in LoggedIn /\ handled'.kind \in LoggedIn
                       => handled'.n > handled.n)
  BY <1>3, OrderKeeps
<1> QED  BY <1>1, <1>2, <1>4 DEF IInv, OrderInv

\* The invariant holds at all times: requests are counted and none is lost or
\* doubled (MapUpdater), and a session's packets wait in order.
THEOREM Invariant == Spec => []IInv
<1>1. IInv /\ [Next]_vars => IInv'
  BY NextKeeps
<1> QED  BY <1>1, Initially, PTL DEF Spec

-----------------------------------------------------------------------------
(* What follows *)

\* The session, a map and a request have one thread at a time: the session's
\* updates in the world's thread and in the map threads never overlap, no map
\* is updated by two threads or twice in a pass, and no thread updates the
\* request it did not get because the queue was cancelled.
THEOREM ThreadsKeepApart == Spec => []ThreadsApart
<1>1. IInv => ThreadsApart
  <2> SUFFICES ASSUME IInv PROVE ThreadsApart
    OBVIOUS
  <2>1. TypeOK /\ OneThread
    BY OneThreadIs DEF IInv, MapsInv, SessionInv, TypeOK
  <2>2. Maps!OneWorkerPerMap
    <3>1. \A w \in MapThreads : worker[w].pc = "updating" => worker[w].map \notin updated
      BY DEF IInv, MapsInv, WorkerPlaces
    <3>2. \A v, w \in MapThreads :
            v # w /\ worker[v].map = worker[w].map => worker[v].map = NoMap
      BY DEF IInv, MapsInv, OneRequest, Holders
    <3> QED  BY <3>1, <3>2 DEF Maps!OneWorkerPerMap
  <2>3. Maps!NoNullRequest
    BY DEF IInv, MapsInv, WorkerPlaces, Maps!NoNullRequest
  <2> QED  BY <2>1, <2>2, <2>3 DEF ThreadsApart
<1> QED  BY <1>1, Invariant, PTL

\* MapUpdater::wait returns only when every map and every instance was updated
\* in this pass, and from then until the next pass no request is queued and no
\* thread holds one.
THEOREM WaitIsABarrier == Spec => WaitIsBarrier
<1> DEFINE Passed == /\ Maps!Barrier'
                     /\ worldPc = "wait" /\ worldPc' = "sessions" => updated = Maps!AllMaps
<1>1. IInv /\ IInv' /\ [Next]_vars => [Passed]_vars
  <2> SUFFICES ASSUME IInv, IInv', Next PROVE Passed
    BY DEF Passed
  <2>1. Maps!Barrier'
    BY DEF IInv, MapsInv, Quiet, Holders, Maps!Barrier
  <2>2. ASSUME worldPc = "wait", worldPc' = "sessions"
        PROVE  updated = Maps!AllMaps
    <3>1. pending = 0
      <4>1. MapStep
        BY NextIsMapStep
      <4> QED
        BY <2>2, <4>1 DEF MapStep, Maps!BeginMaps, Maps!ScheduleMap, Maps!EndWait, Maps!Deactivate,
           Maps!CancelQueue, Maps!Join, Maps!Pop, Maps!CheckToken, Maps!UpdateMap,
           Maps!ScheduleInstance, Maps!UpdateFinished, mapVars
    <3>2. queue = <<>> /\ \A w \in MapThreads : worker[w].map = NoMap
      BY <3>1, NothingPending DEF IInv
    <3>3. Range(queue) = {} /\ toSchedule = {}
      BY <2>2, <3>2, EmptySequence DEF IInv, MapsInv, Phases
    <3>4. \A w \in MapThreads : worker[w].left = {}
      BY <3>2, PartsApart DEF IInv, MapsInv, WorkerPlaces, Parts
    <3>5. \A m \in BaseMaps : m \in updated
      BY <2>2, <3>2, <3>3, PartsApart DEF IInv, MapsInv, NoneForgotten
    <3>6. \A m \in BaseMaps : \A i \in Instances[m] : i \in updated
      <4> SUFFICES ASSUME NEW m \in BaseMaps, NEW i \in Instances[m] PROVE i \in updated
        OBVIOUS
      <4>1. i \in Maps!AllMaps /\ i # NoMap
        BY PartsApart DEF Maps!AllMaps
      <4>2. \/ i \in Range(queue) \cup updated
            \/ \E w \in MapThreads : worker[w].map = i \/ i \in worker[w].left
        BY <2>2, <3>5 DEF IInv, MapsInv, NoneForgotten
      <4> QED  BY <3>2, <3>3, <3>4, <4>1, <4>2
    <3>7. updated \subseteq Maps!AllMaps
      BY MapTypes DEF IInv
    <3> QED  BY <3>5, <3>6, <3>7 DEF Maps!AllMaps
  <2> QED  BY <2>1, <2>2 DEF Passed
<1>2. WaitIsBarrier <=> [][Passed]_vars
  BY DEF WaitIsBarrier
<1> QED  BY <1>1, <1>2, Invariant, PTL DEF Spec

\* Packets for the player in the world are handled in the order they came,
\* over any number of updates that put some back and whichever thread handles
\* them; a handler that is not thread-safe runs while no map is updated, one
\* that is in the thread of the player's own map.
THEOREM PacketsKeepOrderAndPlace == Spec => InOrderInPlace
<1> DEFINE Ordered ==
             /\ handled # NoPacket /\ handled' # handled
             /\ handled.kind \in LoggedIn /\ handled'.kind \in LoggedIn
             => handled'.n > handled.n
           Placed == handled' # handled =>
              /\ handled'.kind \in Unsafe => \A w \in MapThreads : worker[w].pc \in {"idle", "ended"}
              /\ handled'.kind \in Safe => handled'.by # World /\ worker[handled'.by].map = place
<1>1. IInv /\ [Next]_vars => [Ordered]_sessionVars
  BY NextKeeps
<1>2. IInv /\ [Next]_vars => [Placed]_vars
  <2> SUFFICES ASSUME IInv, [Next]_vars, handled' # handled PROVE Placed
    BY DEF Placed, vars, sessionVars
  <2>1. PICK t \in Threads : HandlePacket(t)
    BY NextIsSessionStep DEF SessionStep, Receive, SocketCloses, PassesQueue, BeginUpdate,
                             EndUpdate, sessionVars
  <2> DEFINE k == Head(recv).kind
  <2>2. Calls(k) /\ handled'.kind = k /\ handled'.by = t
    BY <2>1 DEF HandlePacket
  <2>3. update[t] # NoUpdate /\ Process(t, k)
    BY <2>1 DEF HandlePacket, TakesMore
  <2> HIDE DEF k
  <2>4. CASE k \in Unsafe
    <3>1. t = World /\ k \notin Safe
      BY <2>3, <2>4 DEF Process, Unsafe, InPlace, Safe
    <3>2. OneThread
      BY OneThreadIs DEF IInv, SessionInv
    <3> QED  BY <2>2, <2>3, <3>1, <3>2 DEF OneThread
  <2>5. CASE k \in Safe
    <3>1. player = "inworld" /\ k \notin Unsafe
      BY <2>2, <2>5 DEF Calls, Safe, LoggedIn, Authed, Unsafe
    <3>2. t # World
      BY <2>3, <2>5, <3>1 DEF Process, Safe, InPlace
    <3>3. place = worker[t].map
      BY <2>3, <3>1, <3>2 DEF IInv, SessionInv, UpdatedWhere, Threads
    <3> QED  BY <2>2, <3>1, <3>2, <3>3
  <2> QED  BY <2>2, <2>4, <2>5
<1>3. InOrderInPlace <=> [][Ordered]_sessionVars /\ [][Placed]_vars
  BY Zenon DEF InOrderInPlace, InOrder, RightThread
<1> QED  BY <1>1, <1>2, <1>3, Invariant, PTL DEF Spec
=============================================================================
