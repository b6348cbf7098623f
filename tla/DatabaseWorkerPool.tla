-------------------------- MODULE DatabaseWorkerPool --------------------------
(***************************************************************************)
(* The asynchronous half of DatabaseWorkerPool<T>: the shared              *)
(* ProducerConsumerQueue, one DatabaseWorker thread per asynchronous       *)
(* MySQLConnection, and the main thread that opens, closes and destroys    *)
(* the pool (DatabaseLoader, StopDB and the static destructor).            *)
(*                                                                         *)
(* Every critical section of ProducerConsumerQueue::_queueLock is one      *)
(* action: what happens between two of them is visible to other threads.   *)
(* The condition variable is the set of workers whose pc is "wait".        *)
(***************************************************************************)
EXTENDS Naturals, Sequences, FiniteSets, Functions

CONSTANTS
  AsyncThreads,  \* <name>Database.WorkerThreads
  OpenError,     \* how opening a connection may fail
  Op,            \* SQLOperation objects that will ever be created
  NoOp,          \* the null SQLOperation pointer
  Width          \* how many operations may be under way at once

\* The loader refuses another number of threads. "badDb" is ER_BAD_DB_ERROR,
\* "tooOld" the refusal of the server's version, "error" any other error.
ASSUME PoolAssumption ==
  /\ AsyncThreads \in 1..32
  /\ OpenError \subseteq {"badDb", "tooOld", "error"}
  /\ NoOp \notin Op
  /\ Width \in Nat

\* Open is called at most twice (DatabaseLoader::AddDatabase), and every
\* asynchronous connection it creates brings a thread of its own.
Worker == 1 .. 2 * AsyncThreads

VARIABLES
  queue,      \* ProducerConsumerQueue::_queue
  shutdown,   \* ProducerConsumerQueue::_shutdown
  pc,         \* where each worker thread is in WorkerThread
  operation,  \* WorkerThread's local pointer
  cancelationToken,
  usable,     \* connections whose Open succeeded and that are not yet closed
  conns,      \* _connections[IDX_ASYNC]
  fresh,      \* OpenConnections' local connection, as a set of at most one
  opened,     \* connections OpenConnections has appended in this call of Open
  opens,      \* calls of Open so far
  main,       \* what the main thread is doing with the pool
  doomed,     \* connections main is destroying, in order
  step,       \* where main is in ~DatabaseWorker of Head(doomed)
  pushed,     \* history: every operation ever enqueued, in order
  executed    \* history: every operation executed, in order of completion

queueVars  == <<queue, shutdown>>
workerVars == <<pc, operation>>
connVars   == <<usable, conns, fresh, opened, opens>>
mainVars   == <<main, doomed, step>>
history    == <<pushed, executed>>
vars == <<queueVars, workerVars, cancelationToken, connVars, mainVars, history>>

Init ==
  /\ queue = <<>> /\ shutdown = FALSE
  /\ pc = [w \in Worker |-> "unborn"]
  /\ operation = [w \in Worker |-> NoOp]
  /\ cancelationToken = [w \in Worker |-> FALSE]
  /\ usable = {} /\ conns = <<>> /\ fresh = {} /\ opened = 0 /\ opens = 1
  /\ main = "open" /\ doomed = <<>> /\ step = "token"
  /\ pushed = <<>> /\ executed = <<>>

-----------------------------------------------------------------------------
(* ProducerConsumerQueue *)

Waiting == {w \in Worker : pc[w] = "wait"}

\* notify_one: one waiting thread, if there is one, leaves the wait set.
NotifyOne ==
  IF Waiting = {} THEN pc' = pc
  ELSE \E w \in Waiting : pc' = [pc EXCEPT ![w] = "pop"]

NotifyAll == pc' = [w \in Worker |-> IF pc[w] = "wait" THEN "pop" ELSE pc[w]]

\* Mutants, for the runs that show what each property depends on, precede
\* the definition they distort. Here the notification is forgotten.
PushSilently(o) == queue' = Append(queue, o) /\ pc' = pc

Push(o) ==
  /\ queue' = Append(queue, o)
  /\ NotifyOne

\* Mutant: the waiting workers are not told.
CancelSilently == queue' = <<>> /\ shutdown' = TRUE /\ pc' = pc

\* The queued operations are deleted unexecuted, the promises they hold break.
Cancel ==
  /\ queue' = <<>>
  /\ shutdown' = TRUE
  /\ NotifyAll

\* Any thread may enqueue, from the end of StartDB to the destructors that
\* run after StopDB (World::~World deletes sessions, whose destructor does).
Enqueue(o) ==
  /\ main \in {"running", "close", "closed"}
  /\ o \notin Range(pushed)
  /\ Push(o)
  /\ pushed' = Append(pushed, o)
  /\ UNCHANGED <<shutdown, operation, cancelationToken, connVars, mainVars, executed>>

-----------------------------------------------------------------------------
(* DatabaseWorker::WorkerThread *)

\* WaitAndPop finds nothing to do and releases the lock by waiting.
Wait(w) ==
  /\ pc[w] = "pop" /\ queue = <<>> /\ ~shutdown
  /\ pc' = [pc EXCEPT ![w] = "wait"]
  /\ UNCHANGED <<queueVars, operation, cancelationToken, connVars, mainVars, history>>

\* A condition variable may wake without being notified.
SpuriousWakeup(w) ==
  /\ pc[w] = "wait"
  /\ pc' = [pc EXCEPT ![w] = "pop"]
  /\ UNCHANGED <<queueVars, operation, cancelationToken, connVars, mainVars, history>>

Take(w, o, rest) ==
  /\ pc[w] = "pop" /\ queue # <<>> /\ ~shutdown
  /\ operation' = [operation EXCEPT ![w] = o]
  /\ queue' = rest
  /\ pc' = [pc EXCEPT ![w] = "popped"]
  /\ UNCHANGED <<shutdown, cancelationToken, connVars, mainVars, history>>

\* Mutants: the front is removed twice; the back is taken, as a stack would.
PopTwice(w) == Take(w, Head(queue), SubSeq(queue, 3, Len(queue)))
PopBack(w) == Take(w, queue[Len(queue)], SubSeq(queue, 1, Len(queue) - 1))

WaitAndPop(w) == Take(w, Head(queue), Tail(queue))


\* After Cancel WaitAndPop leaves the pointer null, whatever is queued.
PopNothing(w) ==
  /\ pc[w] = "pop" /\ shutdown
  /\ pc' = [pc EXCEPT ![w] = "exited"]
  /\ UNCHANGED <<queueVars, operation, cancelationToken, connVars, mainVars, history>>

\* The token is read outside the lock: the popped operation is dropped.
ObserveToken(w) ==
  /\ pc[w] = "popped" /\ cancelationToken[w]
  /\ pc' = [pc EXCEPT ![w] = "exited"]
  /\ UNCHANGED <<queueVars, operation, cancelationToken, connVars, mainVars, history>>

StartCall(w) ==
  /\ pc[w] = "popped" /\ ~cancelationToken[w]
  /\ pc' = [pc EXCEPT ![w] = "call"]
  /\ UNCHANGED <<queueVars, operation, cancelationToken, connVars, mainVars, history>>

\* operation->call() returns, the operation is deleted.
FinishCall(w) ==
  /\ pc[w] = "call"
  /\ executed' = Append(executed, operation[w])
  /\ operation' = [operation EXCEPT ![w] = NoOp]
  /\ pc' = [pc EXCEPT ![w] = "pop"]
  /\ UNCHANGED <<queueVars, cancelationToken, connVars, mainVars, pushed>>

-----------------------------------------------------------------------------
(* Open: connections are created one by one, each starting its thread       *)
(* in the constructor, before its Open has connected to the server.         *)

NextConnection == (opens - 1) * AsyncThreads + opened + 1

CreateConnection ==
  /\ main = "open" /\ fresh = {} /\ opened < AsyncThreads
  /\ fresh' = {NextConnection}
  /\ pc' = [pc EXCEPT ![NextConnection] = "pop"]
  /\ UNCHANGED <<queueVars, operation, cancelationToken, usable, conns, opened, opens,
                 mainVars, history>>

ConnectSucceeds ==
  /\ main = "open"
  /\ \E w \in fresh : conns' = Append(conns, w)
  /\ usable' = usable \cup fresh
  /\ fresh' = {} /\ opened' = opened + 1
  /\ UNCHANGED <<queueVars, workerVars, cancelationToken, opens, mainVars, history>>

Outcome(error) == IF error = "badDb" THEN "badDb" ELSE "failed"

\* MySQLConnection::Open failed: the connections so far are cleared, then the
\* local unique_ptr destroys this one. A server that is too old clears none.
ConnectFails ==
  /\ main = "open"
  /\ \E w \in fresh, error \in OpenError :
       /\ main' = Outcome(error)
       /\ IF error = "tooOld"
          THEN doomed' = <<w>> /\ UNCHANGED conns
          ELSE doomed' = Append(conns, w) /\ conns' = <<>>
  /\ fresh' = {} /\ step' = "token"
  /\ UNCHANGED <<queueVars, workerVars, cancelationToken, usable, opened, opens, history>>

\* OpenConnections(IDX_SYNCH) comes after all the asynchronous connections.
OpenSynch ==
  /\ main = "open" /\ fresh = {} /\ opened = AsyncThreads
  /\ main' \in {"opened"} \cup {Outcome(error) : error \in OpenError}
  /\ UNCHANGED <<queueVars, workerVars, cancelationToken, connVars, doomed, step, history>>

\* DatabaseLoader: a missing database is created and Open called once more;
\* any other error, or a second one, ends the program.
RetryOpen ==
  /\ main = "badDb" /\ doomed = <<>> /\ opens = 1
  /\ main' = "open" /\ opened' = 0 /\ opens' = 2
  /\ UNCHANGED <<queueVars, workerVars, cancelationToken, usable, conns, fresh, doomed,
                 step, history>>

GiveUp ==
  /\ main \in {"badDb", "failed"} /\ doomed = <<>>
  /\ main' = "exit"
  /\ UNCHANGED <<queueVars, workerVars, cancelationToken, connVars, doomed, step, history>>

\* DatabaseLoader::Load went through: PrepareStatements of every pool succeeded.
Loaded ==
  /\ main = "opened"
  /\ main' = "running"
  /\ UNCHANGED <<queueVars, workerVars, cancelationToken, connVars, doomed, step, history>>

-----------------------------------------------------------------------------
(* Close, and the destructors of the connections it destroys *)

\* Close, called by StopDB, by PrepareStatements when one fails or by
\* DatabaseLoader::Process when another pool did.
Close ==
  /\ main \in {"opened", "running"}
  /\ main' = "close" /\ doomed' = conns /\ conns' = <<>> /\ step' = "token"
  /\ UNCHANGED <<queueVars, workerVars, cancelationToken, usable, fresh, opened, opens, history>>

\* ~DatabaseWorkerPool cancels the queue, then its members are destroyed.
Destroy ==
  /\ main \in {"closed", "exit"}
  /\ main' = "destroy" /\ doomed' = conns /\ conns' = <<>> /\ step' = "token"
  /\ Cancel
  /\ UNCHANGED <<operation, cancelationToken, usable, fresh, opened, opens, history>>

SetToken ==
  /\ doomed # <<>> /\ step = "token"
  /\ cancelationToken' = [cancelationToken EXCEPT ![Head(doomed)] = TRUE]
  /\ step' = "cancel"
  /\ UNCHANGED <<queueVars, workerVars, connVars, main, doomed, history>>

CancelQueue ==
  /\ doomed # <<>> /\ step = "cancel"
  /\ Cancel
  /\ step' = "join"
  /\ UNCHANGED <<operation, cancelationToken, connVars, main, doomed, history>>

\* Mutant: the connection is destroyed without waiting for its thread.
DetachWorker ==
  /\ doomed # <<>> /\ step = "join"
  /\ doomed' = Tail(doomed) /\ step' = "token"
  /\ usable' = usable \ {Head(doomed)}
  /\ UNCHANGED <<queueVars, workerVars, cancelationToken, conns, fresh, opened, opens,
                 main, history>>

\* The thread is joined, then the statements and the MySQL handle go.
JoinWorker ==
  /\ doomed # <<>> /\ step = "join" /\ pc[Head(doomed)] = "exited"
  /\ doomed' = Tail(doomed) /\ step' = "token"
  /\ usable' = usable \ {Head(doomed)}
  /\ UNCHANGED <<queueVars, workerVars, cancelationToken, conns, fresh, opened, opens,
                 main, history>>

Destroyed ==
  /\ doomed = <<>>
  /\ \/ main = "close" /\ main' = "closed"
     \/ main = "destroy" /\ main' = "gone"
  /\ UNCHANGED <<queueVars, workerVars, cancelationToken, connVars, doomed, step, history>>

-----------------------------------------------------------------------------
WorkerStep(w) ==
  \/ Wait(w) \/ WaitAndPop(w) \/ PopNothing(w)
  \/ ObserveToken(w) \/ StartCall(w) \/ FinishCall(w)

Opening ==
  \/ CreateConnection \/ ConnectSucceeds \/ ConnectFails
  \/ OpenSynch \/ RetryOpen \/ GiveUp \/ Loaded

Closing == SetToken \/ CancelQueue \/ JoinWorker \/ Destroyed

\* The process has ended: only now may every thread have stopped.
Ended == main = "gone" /\ UNCHANGED vars

Next ==
  \/ \E o \in Op : Enqueue(o)
  \/ \E w \in Worker : WorkerStep(w) \/ SpuriousWakeup(w)
  \/ Opening \/ Close \/ Destroy \/ Closing \/ Ended

Spec == Init /\ [][Next]_vars

\* Threads are scheduled and a statement sent to the server is answered.
\* Nobody has to enqueue, to stop the server, or to wake spuriously.
Fairness ==
  /\ \A w \in Worker : WF_vars(WorkerStep(w))
  /\ WF_vars(Opening)
  /\ WF_vars(Closing)

FairSpec == Spec /\ Fairness

-----------------------------------------------------------------------------
TypeOK ==
  /\ queue \in Seq(Op) /\ shutdown \in BOOLEAN
  /\ pc \in [Worker -> {"unborn", "pop", "wait", "popped", "call", "exited"}]
  /\ operation \in [Worker -> Op \cup {NoOp}]
  /\ cancelationToken \in [Worker -> BOOLEAN]
  /\ usable \subseteq Worker /\ conns \in Seq(Worker)
  /\ fresh \subseteq Worker /\ opened \in 0..AsyncThreads /\ opens \in 1..2
  /\ main \in {"open", "badDb", "failed", "opened", "running", "close", "closed",
               "exit", "destroy", "gone"}
  /\ doomed \in Seq(Worker) /\ step \in {"token", "cancel", "join"}
  /\ pushed \in Seq(Op) /\ executed \in Seq(Op)

\* The workers that hold an operation nobody else may touch.
Holding == {w \in Worker : pc[w] \in {"popped", "call"}}
Held == {operation[w] : w \in Holding}

\* The pool has begun to close: what is queued may be thrown away.
Stopping == shutdown \/ \E w \in Worker : cancelationToken[w]

\* An operation is in one place only. It is never run again after it was run
\* (and deleted), never run by two workers, never run and still queued: each
\* worker deletes what it runs, so anything else is a double delete.
OwnedOnce ==
  /\ IsInjective(queue) /\ IsInjective(executed)
  /\ \A w, v \in Holding : operation[w] = operation[v] => w = v
  /\ Held \cap Range(queue) = {}
  /\ (Held \cup Range(queue)) \cap Range(executed) = {}

\* Until the pool is closed no operation disappears: what was enqueued is
\* queued, in the hands of a worker, or executed.
LostOnlyByStopping ==
  ~Stopping => Range(pushed) = Range(queue) \cup Held \cup Range(executed)

\* Both: whoever deletes an operation is the only one, and there is always one.
NoneLostOrShared == OwnedOnce /\ LostOnlyByStopping

\* An operation is executed on a connection that Open has connected and
\* Close has not yet destroyed (its worker is joined first).
ConnectionOutlivesCall == \A w \in Worker : pc[w] = "call" => w \in usable

\* Queued work never waits for a wakeup that nobody will send: some worker is
\* awake and will look at the queue again before it waits.
NoLostWakeup ==
  queue # <<>> /\ ~Stopping =>
    \E w \in Worker : pc[w] \in {"pop", "popped", "call"}

\* Every operation enqueued before the pool is closed gets executed; and StopDB
\* returns: the workers see the cancellation and can be joined.
EveryOperationExecuted ==
  \A o \in Op : []<>(o \in Range(pushed) => o \in Range(executed) \/ Stopping)

CloseTerminates == []<>(main # "close")

PoolProgress == EveryOperationExecuted /\ CloseTerminates

-----------------------------------------------------------------------------
\* What callers are promised: operations start in the order they were
\* enqueued, so one may overtake at most the ones other workers are busy with.
Live == Range(queue) \cup Held

Promise == INSTANCE AsyncExecution
  WITH submitted <- pushed, pending <- Live, done <- executed, closing <- Stopping

ImplementsAsyncExecution == Promise!Spec

-----------------------------------------------------------------------------
\* Two statements about the pool that the code does not keep.

\* Main.cpp: "save and kick all players" comes before StopDB; the saves are
\* asynchronous operations, and Close discards those still queued.
SavesSurviveClose ==
  \A o \in Op : main = "running" /\ o \in Range(pushed) ~> o \in Range(executed)

\* DatabaseWorkerPool::Open: "opened successfully, N total connections
\* running".
OpenedConnectionsRun ==
  main \in {"opened", "running"} => \A i \in DOMAIN conns : pc[conns[i]] # "exited"
=============================================================================
