----------------------------- MODULE MapUpdater -----------------------------
(* The threads that update the maps: MapUpdater.cpp, with MapManager::Update
   and MapManager::UnloadAll as the world's thread uses it and
   MapInstanced::Update, which schedules the instances of a map from within
   the update of that map.

   A wait on a condition variable is the condition it waits for: every change
   of the condition signals under the lock of the test.                       *)
EXTENDS Naturals, Sequences, FiniteSets

CONSTANTS Workers,     \* MapUpdate.Threads
          BaseMaps,    \* MapManager::i_maps
          Instances,   \* base map -> MapInstanced::m_InstancedMaps
          NoMap

AllMaps == BaseMaps \cup UNION {Instances[m] : m \in BaseMaps}

VARIABLES
    worldPc,      \* where the world's thread is
    toSchedule,   \* base maps the loop of MapManager::Update has yet to schedule
    queue,        \* _queue: the requests
    pending,      \* pending_requests
    cancel,       \* _cancelationToken
    shutdown,     \* _shutdown of the queue
    worker,       \* of each worker: where it is, the map, the instances left
    updated       \* history: maps updated since the world's last pass over the maps began

mapVars == <<worldPc, toSchedule, queue, pending, cancel, shutdown, worker, updated>>

At(pc, map, left) == [pc |-> pc, map |-> map, left |-> left]
Idle  == At("idle", NoMap, {})
Ended == At("ended", NoMap, {})

MapTypeOK ==
    /\ worldPc \in {"sessions", "schedule", "wait", "draining", "joining", "stopped"}
    /\ toSchedule \subseteq BaseMaps
    /\ queue \in Seq(AllMaps)
    /\ pending \in Nat
    /\ cancel \in BOOLEAN /\ shutdown \in BOOLEAN
    /\ worker \in [Workers -> [pc : {"idle", "popped", "updating", "nested", "ended"},
                               map : AllMaps \cup {NoMap}, left : SUBSET AllMaps]]
    /\ updated \subseteq AllMaps

MapInit ==
    /\ worldPc = "sessions" /\ toSchedule = {}
    /\ queue = <<>> /\ pending = 0
    /\ cancel = FALSE /\ shutdown = FALSE
    /\ worker = [w \in Workers |-> Idle]
    /\ updated = {}

-----------------------------------------------------------------------------
(* The world's thread *)

\* MapManager::Update, when its timer has passed.
BeginMaps ==
    /\ worldPc = "sessions"
    /\ worldPc' = "schedule" /\ toSchedule' = BaseMaps /\ updated' = {}
    /\ UNCHANGED <<queue, pending, cancel, shutdown, worker>>

\* MapUpdater::schedule_update
Schedule(m) == pending' = pending + 1 /\ queue' = Append(queue, m)

ScheduleMap(m) ==
    /\ worldPc = "schedule" /\ m \in toSchedule
    /\ Schedule(m)
    /\ toSchedule' = toSchedule \ {m}
    /\ worldPc' = IF toSchedule = {m} THEN "wait" ELSE worldPc
    /\ UNCHANGED <<cancel, shutdown, worker, updated>>

EndWaitOnEmptyQueue ==
    /\ worldPc = "wait" /\ queue = <<>>
    /\ worldPc' = "sessions"
    /\ UNCHANGED <<toSchedule, queue, pending, cancel, shutdown, worker, updated>>

\* MapUpdater::wait, and the delayed updates by the world's thread itself.
EndWait ==
    /\ worldPc = "wait" /\ pending = 0
    /\ worldPc' = "sessions"
    /\ UNCHANGED <<toSchedule, queue, pending, cancel, shutdown, worker, updated>>

\* MapUpdater::deactivate, called by MapManager::UnloadAll.
Deactivate ==
    /\ worldPc = "sessions"
    /\ worldPc' = "draining" /\ cancel' = TRUE
    /\ UNCHANGED <<toSchedule, queue, pending, shutdown, worker, updated>>

CancelQueueSilently ==
    /\ worldPc = "draining" /\ pending = 0
    /\ worldPc' = "joining" /\ queue' = <<>>
    /\ UNCHANGED <<toSchedule, pending, cancel, shutdown, worker, updated>>

\* ... its wait, then ProducerConsumerQueue::Cancel
CancelQueue ==
    /\ worldPc = "draining" /\ pending = 0
    /\ worldPc' = "joining" /\ queue' = <<>> /\ shutdown' = TRUE
    /\ UNCHANGED <<toSchedule, pending, cancel, worker, updated>>

Join ==
    /\ worldPc = "joining" /\ \A w \in Workers : worker[w] = Ended
    /\ worldPc' = "stopped"
    /\ UNCHANGED <<toSchedule, queue, pending, cancel, shutdown, worker, updated>>

-----------------------------------------------------------------------------
(* A worker: MapUpdater::WorkerThread *)

\* ProducerConsumerQueue::WaitAndPop; after Cancel it returns without a request.
Pop(w) ==
    /\ worker[w].pc = "idle"
    /\ \/ /\ ~shutdown /\ queue # <<>>
          /\ worker' = [worker EXCEPT ![w] = At("popped", Head(queue), {})]
          /\ queue' = Tail(queue)
       \/ /\ shutdown
          /\ worker' = [worker EXCEPT ![w] = At("popped", NoMap, {})]
          /\ UNCHANGED queue
    /\ UNCHANGED <<worldPc, toSchedule, pending, cancel, shutdown, updated>>

\* The token is read after the pop: a request popped by then is abandoned.
CheckToken(w) ==
    /\ worker[w].pc = "popped"
    /\ worker' = [worker EXCEPT ![w] = IF cancel THEN Ended ELSE [@ EXCEPT !.pc = "updating"]]
    /\ UNCHANGED <<worldPc, toSchedule, queue, pending, cancel, shutdown, updated>>

\* Map::Update; a MapInstanced goes on with its instances.
UpdateMap(w) ==
    /\ worker[w].pc = "updating" /\ worker[w].map # NoMap
    /\ LET m == worker[w].map
       IN  /\ updated' = updated \cup {m}
           /\ worker' = [worker EXCEPT ![w] =
                            At("nested", m, IF m \in BaseMaps THEN Instances[m] ELSE {})]
    /\ UNCHANGED <<worldPc, toSchedule, queue, pending, cancel, shutdown>>

ScheduleInstanceUncounted(w, i) ==
    /\ worker[w].pc = "nested" /\ i \in worker[w].left
    /\ queue' = Append(queue, i) /\ UNCHANGED pending
    /\ worker' = [worker EXCEPT ![w].left = @ \ {i}]
    /\ UNCHANGED <<worldPc, toSchedule, cancel, shutdown, updated>>

ScheduleInstance(w, i) ==
    /\ worker[w].pc = "nested" /\ i \in worker[w].left
    /\ Schedule(i)
    /\ worker' = [worker EXCEPT ![w].left = @ \ {i}]
    /\ UNCHANGED <<worldPc, toSchedule, cancel, shutdown, updated>>

\* MapUpdater::update_finished
UpdateFinished(w) ==
    /\ worker[w].pc = "nested" /\ worker[w].left = {}
    /\ pending' = pending - 1
    /\ worker' = [worker EXCEPT ![w] = Idle]
    /\ UNCHANGED <<worldPc, toSchedule, queue, cancel, shutdown, updated>>

-----------------------------------------------------------------------------
(* Properties *)

\* While the world's thread updates the sessions (or the maps' delayed part)
\* no request is queued and no worker holds one, however the instances of a
\* map were scheduled: wait() is a barrier.
Barrier ==
    worldPc \in {"sessions", "draining", "joining"} =>
        queue = <<>> /\ \A w \in Workers : worker[w].map = NoMap

\* A map is never updated by two workers, nor again in the same pass.
OneWorkerPerMap ==
    /\ \A v, w \in Workers : v # w /\ worker[v].map = worker[w].map => worker[v].map = NoMap
    /\ \A w \in Workers : worker[w].pc = "updating" => worker[w].map \notin updated

\* No worker calls the request it did not get: when WaitAndPop returns because
\* of Cancel, the token is already set.
NoNullRequest == \A w \in Workers : worker[w].pc = "updating" => worker[w].map # NoMap
=============================================================================
