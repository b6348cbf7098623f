--------------------------- MODULE Database_proofs ---------------------------
(* What the database side promises, for any number of connections, threads,
   operations, transactions and statements and every way opening a connection
   may fail: the asynchronous half first, then the synchronous half,
   transactions, and the types of the whole.                                 *)
EXTENDS Database, DataFacts, TLAPS

-----------------------------------------------------------------------------
(* The asynchronous half *)

Alive == {w \in Worker : pc[w] \in {"pop", "wait", "popped", "call"}}

\* What is running or queued was enqueued once, and is not executed yet.
Custody ==
  /\ OwnedOnce
  /\ Held \subseteq Op
  /\ Held \cup Range(queue) \cup Range(executed) \subseteq Range(pushed)

\* Nothing is enqueued before the pool is open, and from then on every living
\* worker has a connected connection.
Connected ==
  /\ main \in {"open", "badDb", "failed", "opened"} => pushed = <<>>
  /\ main \in {"open", "opened", "running"} => doomed = <<>>
  /\ main # "open" => fresh = {}
  /\ fresh # {} => opened < AsyncThreads
  /\ \A w, v \in fresh : w = v
  /\ main \in {"open", "badDb", "failed"} => Alive \subseteq usable \cup fresh \cup Range(doomed)
  /\ main \notin {"open", "badDb", "failed"} => Alive \subseteq usable

\* Workers exit only when told to, and there is a worker once the pool is open.
Staffed ==
  /\ \A w \in Worker : pc[w] = "exited" => Stopping
  /\ opened > 0 \/ fresh # {} => \E w \in Worker : pc[w] # "unborn"
  /\ main \in {"opened", "running", "close", "closed"} => \E w \in Worker : pc[w] # "unborn"

IInv ==
  TypeOK /\ Custody /\ Connected /\ Staffed /\ LostOnlyByStopping
    /\ NoLostWakeup /\ ConnectionOutlivesCall
-----------------------------------------------------------------------------
(* Typing *)

\* AsyncThreads is a positive number, and the connection about to be created
\* is one of Worker.
LEMMA NextConnectionType ==
  ASSUME opens \in 1..2, opened \in 0..AsyncThreads, opened < AsyncThreads
  PROVE  NextConnection \in Worker
<1>1. AsyncThreads \in Nat
  BY PoolAssumption
<1>2. CASE opens = 1
  BY <1>1, <1>2 DEF NextConnection, Worker
<1>3. CASE opens = 2
  BY <1>1, <1>3 DEF NextConnection, Worker
<1> QED  BY <1>2, <1>3

\* TypeOK is inductive.
LEMMA TypeOKInit == Init => TypeOK
<1> SUFFICES ASSUME Init PROVE TypeOK
  OBVIOUS
<1>1. /\ queue \in Seq(Op) /\ pushed \in Seq(Op) /\ executed \in Seq(Op)
      /\ conns \in Seq(Worker) /\ doomed \in Seq(Worker)
  BY DEF Init
<1>2. opened \in 0..AsyncThreads /\ opens \in 1..2
  BY PoolAssumption DEF Init
<1>3. /\ pc \in [Worker -> {"unborn", "pop", "wait", "popped", "call", "exited"}]
      /\ operation \in [Worker -> Op \cup {NoOp}]
      /\ cancelationToken \in [Worker -> BOOLEAN]
  BY DEF Init
<1>4. /\ usable \subseteq Worker /\ fresh \subseteq Worker
      /\ shutdown \in BOOLEAN /\ step \in {"token", "cancel", "join"}
      /\ main \in {"open", "badDb", "failed", "opened", "running", "close", "closed",
                   "exit", "destroy", "gone"}
  BY DEF Init
<1> QED  BY <1>1, <1>2, <1>3, <1>4 DEF TypeOK

\* Every step keeps the types.
LEMMA TypeOKStep ==
  ASSUME TypeOK, Custody, Connected, [Next]_vars
  PROVE  TypeOK'
<1> USE DEF TypeOK
<1>1. ASSUME NEW o \in Op, Enqueue(o)
      PROVE  TypeOK'
  <2>1. queue' \in Seq(Op) /\ pushed' \in Seq(Op)
    BY <1>1 DEF Enqueue, Push
  <2>2. pc' \in [Worker -> {"unborn", "pop", "wait", "popped", "call", "exited"}]
    BY <1>1 DEF Enqueue, Push, NotifyOne, Waiting
  <2> QED  BY <1>1, <2>1, <2>2 DEF Enqueue, connVars, mainVars
<1>2. ASSUME NEW w \in Worker, WorkerStep(w) \/ SpuriousWakeup(w)
      PROVE  TypeOK'
  <2>1. CASE Wait(w) \/ SpuriousWakeup(w) \/ PopNothing(w) \/ ObserveToken(w) \/ StartCall(w)
    BY <2>1 DEF Wait, SpuriousWakeup, PopNothing, ObserveToken, StartCall,
                queueVars, connVars, mainVars, history
  <2>2. CASE WaitAndPop(w)
    BY <2>2, RangeTail DEF WaitAndPop, Take, connVars, mainVars, history
  <2>3. CASE FinishCall(w)
    <3>1. operation[w] \in Op
      BY <2>3 DEF FinishCall, Custody, Held, Holding
    <3> QED  BY <2>3, <3>1 DEF FinishCall, queueVars, connVars, mainVars
  <2> QED  BY <1>2, <2>1, <2>2, <2>3 DEF WorkerStep
<1>3. ASSUME Opening
      PROVE  TypeOK'
  <2>1. CASE CreateConnection
    BY <2>1, NextConnectionType DEF CreateConnection, queueVars, mainVars, history
  <2>2. CASE ConnectSucceeds
    <3>1. PICK w \in fresh : conns' = Append(conns, w)
      BY <2>2 DEF ConnectSucceeds
    <3>2. opened + 1 \in 0..AsyncThreads
      BY <3>1, PoolAssumption DEF Connected
    <3> QED  BY <2>2, <3>1, <3>2 DEF ConnectSucceeds, queueVars, workerVars, mainVars, history
  <2>3. CASE ConnectFails
    <3>1. PICK w \in fresh, e \in OpenError :
            /\ main' = Outcome(e)
            /\ \/ doomed' = <<w>> /\ UNCHANGED conns
               \/ doomed' = Append(conns, w) /\ conns' = <<>>
      BY <2>3 DEF ConnectFails
    <3>2. conns' \in Seq(Worker) /\ doomed' \in Seq(Worker)
      <4>1. w \in Worker
        BY <3>1
      <4>2. <<w>> \in Seq(Worker) /\ Append(conns, w) \in Seq(Worker) /\ <<>> \in Seq(Worker)
        BY <4>1
      <4> QED  BY <3>1, <4>2
    <3>3. main' \in {"badDb", "failed"}
      BY <3>1 DEF Outcome
    <3>4. fresh' = {} /\ step' = "token"
          /\ UNCHANGED <<queueVars, workerVars, cancelationToken, usable, opened, opens, history>>
      BY <2>3 DEF ConnectFails
    <3> QED  BY <3>2, <3>3, <3>4 DEF queueVars, workerVars, history
  <2>4. CASE OpenSynch \/ GiveUp \/ Loaded
    BY <2>4 DEF OpenSynch, GiveUp, Loaded, Outcome, queueVars, workerVars, connVars, history
  <2>5. CASE RetryOpen
    BY <2>5, PoolAssumption DEF RetryOpen, queueVars, workerVars, history
  <2> QED  BY <1>3, <2>1, <2>2, <2>3, <2>4, <2>5 DEF Opening
<1>4. ASSUME Close
      PROVE  TypeOK'
  BY <1>4 DEF Close, queueVars, workerVars, history
<1>5. ASSUME Destroy
      PROVE  TypeOK'
  <2>1. /\ queue' \in Seq(Op) /\ shutdown' \in BOOLEAN
        /\ pc' \in [Worker -> {"unborn", "pop", "wait", "popped", "call", "exited"}]
    BY <1>5 DEF Destroy, Cancel, NotifyAll
  <2> QED  BY <1>5, <2>1 DEF Destroy, history
<1>6. ASSUME Closing
      PROVE  TypeOK'
  <2>1. CASE SetToken
    BY <2>1 DEF SetToken, queueVars, workerVars, connVars, history
  <2>2. CASE CancelQueue
    <3>1. /\ queue' \in Seq(Op) /\ shutdown' \in BOOLEAN
          /\ pc' \in [Worker -> {"unborn", "pop", "wait", "popped", "call", "exited"}]
      BY <2>2 DEF CancelQueue, Cancel, NotifyAll
    <3> QED  BY <2>2, <3>1 DEF CancelQueue, connVars, history
  <2>3. CASE JoinWorker
    BY <2>3, RangeTail DEF JoinWorker, queueVars, workerVars, history
  <2>4. CASE Destroyed
    BY <2>4 DEF Destroyed, queueVars, workerVars, connVars, history
  <2> QED  BY <1>6, <2>1, <2>2, <2>3, <2>4 DEF Closing
<1>7. ASSUME UNCHANGED vars
      PROVE  TypeOK'
  BY <1>7 DEF vars, queueVars, workerVars, connVars, mainVars, history
<1> QED  BY <1>1, <1>2, <1>3, <1>4, <1>5, <1>6, <1>7 DEF Next, Ended
-----------------------------------------------------------------------------
(* Custody of operations: only Enqueue, WaitAndPop and FinishCall move one. *)

\* A step that moves no operation may only drop some, and only while stopping.
Quiet ==
  /\ UNCHANGED <<operation, pushed, executed>>
  /\ Holding' \subseteq Holding
  /\ queue' = queue \/ (queue' = <<>> /\ shutdown')
  /\ Holding' # Holding => Stopping
  /\ Stopping => Stopping'

\* While the pool is being opened no worker holds anything.
LEMMA NothingHeldBeforeRunning ==
  ASSUME Custody, Connected, main = "open"
  PROVE  Holding = {}
<1>1. Held \subseteq Range(pushed) /\ pushed = <<>>
  BY DEF Custody, Connected
<1>2. Held = {}
  BY <1>1, EmptySequence
<1> QED  BY <1>2 DEF Held

\* Cancel empties the queue once the pool stops, and takes nothing over.
LEMMA QuietCancel ==
  ASSUME TypeOK, Cancel, UNCHANGED <<operation, pushed, executed, cancelationToken>>
  PROVE  Quiet
<1>1. Holding' = Holding
  BY DEF TypeOK, Cancel, NotifyAll, Holding
<1>2. Stopping'
  BY DEF Cancel, Stopping
<1>3. queue' = <<>> /\ shutdown'
  BY DEF Cancel
<1> QED  BY <1>1, <1>2, <1>3 DEF Quiet

\* So do the steps of a worker that takes nothing from the queue and
\* finishes nothing, those of opening, and those of closing.
LEMMA QuietSteps ==
  ASSUME TypeOK, Custody, Connected,
         \/ \E w \in Worker : Wait(w) \/ SpuriousWakeup(w) \/ PopNothing(w)
                              \/ ObserveToken(w) \/ StartCall(w)
         \/ Opening \/ Close \/ Destroy \/ Closing \/ UNCHANGED vars
  PROVE  Quiet
<1>1. ASSUME NEW w \in Worker, Wait(w) \/ SpuriousWakeup(w) \/ PopNothing(w) \/ StartCall(w)
      PROVE  Quiet
  <2>1. Holding' = Holding
    BY <1>1 DEF TypeOK, Wait, SpuriousWakeup, PopNothing, StartCall, Holding
  <2>2. UNCHANGED <<queue, shutdown, operation, cancelationToken, pushed, executed>>
    BY <1>1 DEF Wait, SpuriousWakeup, PopNothing, StartCall, queueVars, history
  <2> QED  BY <2>1, <2>2 DEF Quiet, Stopping
<1>2. ASSUME NEW w \in Worker, ObserveToken(w)
      PROVE  Quiet
  <2>1. Holding' \subseteq Holding /\ Stopping
    BY <1>2 DEF TypeOK, ObserveToken, Holding, Stopping
  <2>2. UNCHANGED <<queue, shutdown, operation, cancelationToken, pushed, executed>>
    BY <1>2 DEF ObserveToken, queueVars, history
  <2> QED  BY <2>1, <2>2 DEF Quiet, Stopping
<1>3. ASSUME Opening
      PROVE  Quiet
  <2>1. Holding' = Holding
    <3>1. CASE CreateConnection
      <4>1. Holding = {} /\ pc' = [pc EXCEPT ![NextConnection] = "pop"]
        BY <3>1, NothingHeldBeforeRunning DEF CreateConnection
      <4> QED  BY <4>1 DEF TypeOK, Holding
    <3>2. CASE ~CreateConnection
      BY <1>3, <3>2 DEF Opening, ConnectSucceeds, ConnectFails, OpenSynch, RetryOpen,
                        GiveUp, Loaded, workerVars, Holding
    <3> QED  BY <3>1, <3>2
  <2>2. UNCHANGED <<queue, shutdown, operation, cancelationToken, pushed, executed>>
    BY <1>3 DEF Opening, CreateConnection, ConnectSucceeds, ConnectFails, OpenSynch,
                RetryOpen, GiveUp, Loaded, queueVars, workerVars, history
  <2> QED  BY <2>1, <2>2 DEF Quiet, Stopping
<1>4. ASSUME Close \/ JoinWorker \/ Destroyed \/ UNCHANGED vars
      PROVE  Quiet
  <2>1. UNCHANGED <<queue, shutdown, pc, operation, cancelationToken, pushed, executed>>
    BY <1>4 DEF Close, JoinWorker, Destroyed, vars, queueVars, workerVars, history
  <2> QED  BY <2>1 DEF Quiet, Stopping, Holding
<1>5. ASSUME Destroy \/ CancelQueue
      PROVE  Quiet
  <2>1. Cancel /\ UNCHANGED <<operation, pushed, executed, cancelationToken>>
    BY <1>5 DEF Destroy, CancelQueue, history
  <2> QED  BY <2>1, QuietCancel
<1>6. ASSUME SetToken
      PROVE  Quiet
  <2>1. UNCHANGED <<queue, shutdown, pc, operation, pushed, executed>>
    BY <1>6 DEF SetToken, queueVars, workerVars, history
  <2>2. \A w \in Worker : cancelationToken[w] => cancelationToken'[w]
    BY <1>6 DEF TypeOK, SetToken
  <2> QED  BY <2>1, <2>2 DEF Quiet, Stopping, Holding
<1> QED  BY <1>1, <1>2, <1>3, <1>4, <1>5, <1>6 DEF Closing

\* Steps of that kind keep what is held in one place.
LEMMA QuietKeeps ==
  ASSUME TypeOK, Custody, LostOnlyByStopping, Quiet
  PROVE  Custody' /\ LostOnlyByStopping'
<1>1. Held' \subseteq Held
  BY DEF Quiet, Held
<1>2. IsInjective(queue') /\ Range(queue') \subseteq Range(queue)
  BY EmptySequence DEF Quiet, Custody, OwnedOnce
<1>3. OwnedOnce'
  <2>1. \A w, v \in Holding' : operation'[w] = operation'[v] => w = v
    BY DEF Quiet, Custody, OwnedOnce
  <2> QED  BY <1>1, <1>2, <2>1 DEF Quiet, Custody, OwnedOnce
<1>4. Custody'
  BY <1>1, <1>2, <1>3 DEF Quiet, Custody
<1>5. LostOnlyByStopping'
  <2>1. CASE Stopping'
    BY <2>1 DEF LostOnlyByStopping
  <2>2. CASE ~Stopping'
    <3>1. ~Stopping /\ Holding' = Holding /\ queue' = queue
      BY <2>2 DEF Quiet, Stopping
    <3> QED  BY <3>1 DEF Quiet, LostOnlyByStopping, Held
  <2> QED  BY <2>1, <2>2
<1> QED  BY <1>4, <1>5

\* So does the enqueuing of an operation,
LEMMA EnqueueKeeps ==
  ASSUME TypeOK, Custody, LostOnlyByStopping, NEW o \in Op, Enqueue(o)
  PROVE  Custody' /\ LostOnlyByStopping'
<1>1. /\ queue' = Append(queue, o) /\ pushed' = Append(pushed, o) /\ o \notin Range(pushed)
      /\ UNCHANGED <<shutdown, operation, cancelationToken, executed>>
  BY DEF Enqueue, Push
<1>2. Holding' = Holding
  BY DEF TypeOK, Enqueue, Push, NotifyOne, Waiting, Holding
<1>3. Held' = Held
  BY <1>1, <1>2 DEF Held
<1>4. Range(queue') = Range(queue) \cup {o} /\ Range(pushed') = Range(pushed) \cup {o}
  BY <1>1, RangeAppend DEF TypeOK
<1>5. o \notin Held \cup Range(queue) \cup Range(executed)
  BY <1>1 DEF Custody
<1>6. IsInjective(queue')
  BY <1>1, <1>5, InjectiveAppend DEF TypeOK, Custody, OwnedOnce
<1>7. \A w, v \in Holding' : operation'[w] = operation'[v] => w = v
  BY <1>1, <1>2 DEF Custody, OwnedOnce
<1>8. OwnedOnce'
  BY <1>1, <1>3, <1>4, <1>5, <1>6, <1>7 DEF Custody, OwnedOnce
<1>9. Custody'
  BY <1>1, <1>3, <1>4, <1>8 DEF Custody
<1>10. LostOnlyByStopping'
  BY <1>1, <1>3, <1>4 DEF LostOnlyByStopping, Stopping
<1> QED  BY <1>9, <1>10

\* its being taken from the queue,
LEMMA WaitAndPopKeeps ==
  ASSUME TypeOK, Custody, LostOnlyByStopping, NEW w \in Worker, WaitAndPop(w)
  PROVE  Custody' /\ LostOnlyByStopping'
<1> DEFINE o == Head(queue)
<1>1. /\ pc[w] = "pop" /\ queue # <<>>
      /\ operation' = [operation EXCEPT ![w] = o] /\ queue' = Tail(queue)
      /\ pc' = [pc EXCEPT ![w] = "popped"]
      /\ UNCHANGED <<shutdown, cancelationToken, pushed, executed>>
  BY DEF WaitAndPop, Take, history
<1>2. o \in Op /\ Range(queue) = {o} \cup Range(queue')
  BY <1>1, RangeTail DEF TypeOK
<1>3. IsInjective(queue') /\ o \notin Range(queue')
  BY <1>1, InjectiveTail DEF TypeOK, Custody, OwnedOnce
<1>4. w \notin Holding /\ Holding' = Holding \cup {w}
  BY <1>1 DEF TypeOK, Holding
<1>5. operation'[w] = o /\ \A v \in Holding : operation'[v] = operation[v]
  BY <1>1, <1>4 DEF TypeOK, Holding
<1>6. Held' = Held \cup {o}
  BY <1>4, <1>5 DEF Held
<1>7. o \notin Held /\ o \notin Range(executed)
  BY <1>2 DEF Custody, OwnedOnce
<1>8. \A u, v \in Holding' : operation'[u] = operation'[v] => u = v
  BY <1>4, <1>5, <1>7 DEF Custody, OwnedOnce, Held
<1>9. OwnedOnce'
  <2>1. IsInjective(executed)
    BY DEF Custody, OwnedOnce
  <2>2. Held' \cap Range(queue') = {} /\ (Held' \cup Range(queue')) \cap Range(executed) = {}
    BY <1>2, <1>3, <1>6, <1>7 DEF Custody, OwnedOnce
  <2> QED  BY <1>1, <1>3, <1>8, <2>1, <2>2 DEF OwnedOnce
<1>10. Custody'
  BY <1>1, <1>2, <1>6, <1>9 DEF Custody
<1>11. LostOnlyByStopping'
  BY <1>1, <1>2, <1>6 DEF LostOnlyByStopping, Stopping
<1> QED  BY <1>10, <1>11

\* and the end of its call.
LEMMA FinishCallKeeps ==
  ASSUME TypeOK, Custody, LostOnlyByStopping, NEW w \in Worker, FinishCall(w)
  PROVE  Custody' /\ LostOnlyByStopping'
<1> DEFINE o == operation[w]
<1>1. /\ pc[w] = "call" /\ executed' = Append(executed, o)
      /\ operation' = [operation EXCEPT ![w] = NoOp]
      /\ pc' = [pc EXCEPT ![w] = "pop"]
      /\ UNCHANGED <<queue, shutdown, cancelationToken, pushed>>
  BY DEF FinishCall, queueVars
<1>2. w \in Holding /\ Holding' = Holding \ {w}
  BY <1>1 DEF TypeOK, Holding
<1>3. o \in Held /\ o \in Op
  BY <1>2 DEF Held, Custody
<1>4. \A v \in Holding' : operation'[v] = operation[v]
  BY <1>1, <1>2 DEF TypeOK, Holding
<1>5. Held' = Held \ {o}
  BY <1>2, <1>4 DEF Held, Custody, OwnedOnce
<1>6. Range(executed') = Range(executed) \cup {o}
  BY <1>1, <1>3, RangeAppend DEF TypeOK
<1>7. o \notin Range(executed) /\ o \notin Range(queue)
  BY <1>3 DEF Custody, OwnedOnce
<1>8. IsInjective(executed')
  BY <1>1, <1>3, <1>7, InjectiveAppend DEF TypeOK, Custody, OwnedOnce
<1>9. \A u, v \in Holding' : operation'[u] = operation'[v] => u = v
  BY <1>2, <1>4 DEF Custody, OwnedOnce
<1>10. OwnedOnce'
  <2>1. IsInjective(queue')
    BY <1>1 DEF Custody, OwnedOnce
  <2>2. Held' \cap Range(queue') = {} /\ (Held' \cup Range(queue')) \cap Range(executed') = {}
    BY <1>1, <1>5, <1>6, <1>7 DEF Custody, OwnedOnce
  <2> QED  BY <1>8, <1>9, <2>1, <2>2 DEF OwnedOnce
<1>11. Custody'
  BY <1>1, <1>3, <1>5, <1>6, <1>10 DEF Custody
<1>12. LostOnlyByStopping'
  BY <1>1, <1>3, <1>5, <1>6 DEF LostOnlyByStopping, Stopping
<1> QED  BY <1>11, <1>12

\* No step breaks the custody of operations or loses one.
LEMMA CustodyStep ==
  ASSUME TypeOK, Custody, Connected, LostOnlyByStopping, [Next]_vars
  PROVE  Custody' /\ LostOnlyByStopping'
<1>1. CASE \E o \in Op : Enqueue(o)
  BY <1>1, EnqueueKeeps
<1>2. CASE \E w \in Worker : WaitAndPop(w)
  BY <1>2, WaitAndPopKeeps
<1>3. CASE \E w \in Worker : FinishCall(w)
  BY <1>3, FinishCallKeeps
<1>4. CASE \/ \E w \in Worker : Wait(w) \/ SpuriousWakeup(w) \/ PopNothing(w)
                              \/ ObserveToken(w) \/ StartCall(w)
           \/ Opening \/ Close \/ Destroy \/ Closing \/ UNCHANGED vars
  BY <1>4, QuietSteps, QuietKeeps
<1> QED  BY <1>1, <1>2, <1>3, <1>4 DEF Next, WorkerStep, Ended
-----------------------------------------------------------------------------
(* Connections *)

\* Workers come to life only in CreateConnection.
LEMMA WorkerKeepsAlive ==
  ASSUME TypeOK, NEW w \in Worker, WorkerStep(w) \/ SpuriousWakeup(w)
  PROVE  /\ Alive' \subseteq Alive
         /\ UNCHANGED <<cancelationToken, connVars, mainVars, pushed, shutdown>>
<1>1. UNCHANGED <<cancelationToken, connVars, mainVars, pushed, shutdown>>
  BY DEF WorkerStep, Wait, SpuriousWakeup, WaitAndPop, Take, PopNothing, ObserveToken,
         StartCall, FinishCall, queueVars, history
<1>2. CASE FinishCall(w) \/ PopNothing(w) \/ ObserveToken(w)
  BY <1>1, <1>2 DEF TypeOK, FinishCall, PopNothing, ObserveToken, Alive
<1>3. CASE Wait(w) \/ SpuriousWakeup(w) \/ WaitAndPop(w) \/ StartCall(w)
  BY <1>1, <1>3 DEF TypeOK, Wait, SpuriousWakeup, WaitAndPop, Take, StartCall, Alive
<1> QED  BY <1>1, <1>2, <1>3 DEF WorkerStep

\* Waking the workers ends none of them.
LEMMA CancelKeepsAlive ==
  ASSUME TypeOK, Cancel
  PROVE  Alive' = Alive
  BY DEF TypeOK, Cancel, NotifyAll, Alive

\* Every step keeps living workers connected.
LEMMA ConnectedStep ==
  ASSUME TypeOK, Connected, [Next]_vars
  PROVE  Connected'
<1>1. ASSUME NEW o \in Op, Enqueue(o)
      PROVE  Connected'
  <2>1. Alive' = Alive
    BY <1>1 DEF TypeOK, Enqueue, Push, NotifyOne, Waiting, Alive
  <2>2. main \in {"running", "close", "closed"} /\ UNCHANGED <<connVars, mainVars>>
    BY <1>1 DEF Enqueue
  <2> QED  BY <2>1, <2>2 DEF Connected, connVars, mainVars
<1>2. ASSUME NEW w \in Worker, WorkerStep(w) \/ SpuriousWakeup(w)
      PROVE  Connected'
  BY <1>2, WorkerKeepsAlive DEF Connected, connVars, mainVars
<1>3. CASE CreateConnection
  <2>1. Alive' \subseteq Alive \cup {NextConnection} /\ fresh' = {NextConnection}
    BY <1>3 DEF TypeOK, CreateConnection, Alive
  <2>2. /\ main = "open" /\ fresh = {} /\ opened < AsyncThreads
        /\ UNCHANGED <<usable, opened, main, doomed, pushed>>
    BY <1>3 DEF CreateConnection, mainVars, history
  <2> QED  BY <2>1, <2>2 DEF Connected
<1>4. CASE ConnectSucceeds
  <2>1. /\ main = "open" /\ usable' = usable \cup fresh /\ fresh' = {}
        /\ UNCHANGED <<pc, main, doomed, pushed>>
    BY <1>4 DEF ConnectSucceeds, workerVars, mainVars, history
  <2> QED  BY <2>1 DEF Connected, Alive
<1>5. CASE ConnectFails
  <2>1. PICK w \in fresh, e \in OpenError :
          /\ main' = Outcome(e)
          /\ doomed' = <<w>> \/ doomed' = Append(conns, w)
    BY <1>5 DEF ConnectFails
  <2>2. /\ main = "open" /\ fresh' = {}
        /\ UNCHANGED <<pc, usable, pushed>>
    BY <1>5 DEF ConnectFails, workerVars, history
  <2>3. main' \in {"badDb", "failed"}
    BY <2>1 DEF Outcome
  <2>4. w \in Range(doomed')
    <3>1. CASE doomed' = <<w>>
      <4>1. 1 \in DOMAIN <<w>> /\ <<w>>[1] = w
        OBVIOUS
      <4> QED  BY <3>1, <4>1 DEF Range
    <3>2. CASE doomed' = Append(conns, w)
      BY <3>2, <2>1, RangeAppend DEF TypeOK
    <3> QED  BY <2>1, <3>1, <3>2
  <2>5. Alive' \subseteq usable' \cup fresh' \cup Range(doomed')
    <3>1. doomed = <<>> /\ Alive \subseteq usable \cup fresh
      BY <2>2, EmptySequence DEF Connected
    <3>2. fresh = {w}
      BY <2>1, <2>2 DEF Connected
    <3> QED  BY <2>2, <2>4, <3>1, <3>2 DEF Alive
  <2> QED  BY <2>2, <2>3, <2>5 DEF Connected
<1>6. CASE OpenSynch \/ Loaded \/ GiveUp
  <2>1. /\ UNCHANGED <<pc, usable, fresh, opened, doomed, pushed>>
        /\ \/ main = "open" /\ fresh = {}
           \/ main = "opened" /\ main' = "running"
           \/ main \in {"badDb", "failed"} /\ doomed = <<>> /\ main' = "exit"
    BY <1>6 DEF OpenSynch, Loaded, GiveUp, workerVars, connVars, history
  <2>2. main = "open" => main' \in {"opened", "badDb", "failed"} /\ doomed = <<>>
    BY <1>6 DEF OpenSynch, Loaded, GiveUp, Outcome, Connected
  <2> QED  BY <2>1, <2>2, EmptySequence DEF Connected, Alive
<1>7. CASE RetryOpen
  <2>1. /\ main = "badDb" /\ doomed = <<>> /\ main' = "open" /\ fresh = {}
        /\ UNCHANGED <<pc, usable, fresh, doomed, pushed>>
    BY <1>7 DEF RetryOpen, Connected, workerVars, history
  <2> QED  BY <2>1 DEF Connected, Alive
<1>8. CASE Close
  <2>1. /\ main \in {"opened", "running"} /\ main' = "close"
        /\ UNCHANGED <<pc, usable, fresh, opened, pushed>>
    BY <1>8 DEF Close, workerVars, history
  <2> QED  BY <2>1 DEF Connected, Alive
<1>9. CASE Destroy \/ CancelQueue
  <2>1. Alive' = Alive
    BY <1>9, CancelKeepsAlive DEF Destroy, CancelQueue
  <2>2. /\ UNCHANGED <<usable, fresh, opened, pushed>>
        /\ \/ main \in {"closed", "exit"} /\ main' = "destroy"
           \/ UNCHANGED <<main, doomed>>
    BY <1>9 DEF Destroy, CancelQueue, connVars, history
  <2> QED  BY <2>1, <2>2 DEF Connected
<1>10. CASE SetToken
  <2>1. UNCHANGED <<pc, usable, fresh, opened, main, doomed, pushed>>
    BY <1>10 DEF SetToken, workerVars, connVars, history
  <2> QED  BY <2>1 DEF Connected, Alive
<1>11. CASE JoinWorker
  <2> DEFINE w == Head(doomed)
  <2>1. /\ doomed # <<>> /\ pc[w] = "exited" /\ doomed' = Tail(doomed)
        /\ usable' = usable \ {w}
        /\ UNCHANGED <<pc, fresh, opened, main, pushed>>
    BY <1>11 DEF JoinWorker, workerVars, history
  <2>2. w \notin Alive /\ Alive' = Alive
    BY <2>1 DEF Alive
  <2>3. Range(doomed) = {w} \cup Range(doomed')
    BY <2>1, RangeTail DEF TypeOK
  <2> QED  BY <2>1, <2>2, <2>3 DEF Connected
<1>12. CASE Destroyed
  <2>1. /\ main \in {"close", "destroy"} /\ main' \in {"closed", "gone"}
        /\ UNCHANGED <<pc, usable, fresh, opened, pushed>>
    BY <1>12 DEF Destroyed, workerVars, connVars, history
  <2> QED  BY <2>1 DEF Connected, Alive
<1>13. CASE UNCHANGED vars
  BY <1>13 DEF vars, workerVars, connVars, mainVars, history, Connected, Alive
<1> QED
  BY <1>1, <1>2, <1>3, <1>4, <1>5, <1>6, <1>7, <1>8, <1>9, <1>10, <1>11, <1>12, <1>13
  DEF Next, Opening, Closing, Ended
\* A worker that holds an operation got it after the pool was opened.
LEMMA CallsAreConnected ==
  ASSUME Custody, Connected
  PROVE  ConnectionOutlivesCall
<1> SUFFICES ASSUME NEW w \in Worker, pc[w] = "call"
             PROVE  w \in usable
  BY DEF ConnectionOutlivesCall
<1>1. w \in Holding /\ w \in Alive
  BY DEF Holding, Alive
<1>2. operation[w] \in Range(pushed)
  BY <1>1 DEF Custody, Held
<1>3. main \notin {"open", "badDb", "failed"}
  BY <1>2, EmptySequence DEF Connected
<1> QED  BY <1>1, <1>3 DEF Connected

-----------------------------------------------------------------------------
(* Wakeups *)

Awake == {w \in Worker : pc[w] \in {"pop", "popped", "call"}}

\* A pool that stops does not start again.
LEMMA StoppingPersists ==
  ASSUME TypeOK, Stopping, [Next]_vars
  PROVE  Stopping'
<1>1. /\ shutdown => shutdown'
      /\ \A w \in Worker : cancelationToken[w] => cancelationToken'[w]
  <2>1. CASE \E w \in Worker : WorkerStep(w) \/ SpuriousWakeup(w)
    BY <2>1, WorkerKeepsAlive
  <2>2. CASE Destroy \/ CancelQueue
    BY <2>2 DEF Destroy, CancelQueue, Cancel
  <2>3. CASE SetToken
    BY <2>3 DEF TypeOK, SetToken, queueVars
  <2>4. CASE \/ \E o \in Op : Enqueue(o)
             \/ Opening \/ Close \/ JoinWorker \/ Destroyed \/ UNCHANGED vars
    BY <2>4 DEF Enqueue, Opening, CreateConnection, ConnectSucceeds, ConnectFails,
                OpenSynch, RetryOpen, GiveUp, Loaded, Close, JoinWorker, Destroyed,
                vars, queueVars
  <2> QED  BY <2>1, <2>2, <2>3, <2>4 DEF Next, Closing, Ended
<1> QED  BY <1>1 DEF Stopping

\* Every step keeps the running pool staffed.
LEMMA StaffedStep ==
  ASSUME TypeOK, Staffed, [Next]_vars
  PROVE  Staffed'
<1> DEFINE Someone == \E w \in Worker : pc[w] # "unborn"
<1>1. ASSUME NEW v \in Worker, pc'[v] = "exited"
      PROVE  Stopping'
  <2>1. CASE Stopping
    BY <2>1, StoppingPersists
  <2>2. CASE ~Stopping
    <3>1. pc[v] # "exited"
      BY <2>2 DEF Staffed
    <3>2. PICK w \in Worker : PopNothing(w) \/ ObserveToken(w)
      <4>1. CASE \E w \in Worker : Wait(w) \/ SpuriousWakeup(w) \/ WaitAndPop(w)
                                   \/ StartCall(w) \/ FinishCall(w)
        BY <4>1, <3>1, <1>1 DEF TypeOK, Wait, SpuriousWakeup, WaitAndPop, Take, StartCall,
                                FinishCall
      <4>2. CASE \E o \in Op : Enqueue(o)
        BY <4>2, <3>1, <1>1 DEF TypeOK, Enqueue, Push, NotifyOne, Waiting
      <4>3. CASE Destroy \/ CancelQueue
        BY <4>3, <3>1, <1>1 DEF TypeOK, Destroy, CancelQueue, Cancel, NotifyAll
      <4>4. CASE CreateConnection
        BY <4>4, <3>1, <1>1 DEF TypeOK, CreateConnection
      <4>5. CASE \/ ConnectSucceeds \/ ConnectFails \/ OpenSynch \/ RetryOpen \/ GiveUp \/ Loaded
                 \/ Close \/ SetToken \/ JoinWorker \/ Destroyed \/ UNCHANGED vars
        BY <4>5, <3>1, <1>1 DEF ConnectSucceeds, ConnectFails, OpenSynch, RetryOpen, GiveUp,
             Loaded, Close, SetToken, JoinWorker, Destroyed, vars, workerVars
      <4> QED  BY <4>1, <4>2, <4>3, <4>4, <4>5 DEF Next, WorkerStep, Opening, Closing, Ended
    <3> QED  BY <2>2, <3>2 DEF PopNothing, ObserveToken, Stopping
  <2> QED  BY <2>1, <2>2
<1>2. Someone => Someone'
  <2>1. ASSUME NEW w \in Worker, pc[w] # "unborn"
        PROVE  pc'[w] # "unborn"
    <3>1. CASE \E v \in Worker : WorkerStep(v) \/ SpuriousWakeup(v)
      BY <3>1, <2>1 DEF TypeOK, WorkerStep, Wait, SpuriousWakeup, WaitAndPop, Take, PopNothing,
                        ObserveToken, StartCall, FinishCall
    <3>2. CASE \E o \in Op : Enqueue(o)
      BY <3>2, <2>1 DEF TypeOK, Enqueue, Push, NotifyOne, Waiting
    <3>3. CASE Destroy \/ CancelQueue
      BY <3>3, <2>1 DEF TypeOK, Destroy, CancelQueue, Cancel, NotifyAll
    <3>4. CASE CreateConnection
      BY <3>4, <2>1 DEF TypeOK, CreateConnection
    <3>5. CASE \/ ConnectSucceeds \/ ConnectFails \/ OpenSynch \/ RetryOpen \/ GiveUp \/ Loaded
               \/ Close \/ SetToken \/ JoinWorker \/ Destroyed \/ UNCHANGED vars
      BY <3>5, <2>1 DEF ConnectSucceeds, ConnectFails, OpenSynch, RetryOpen, GiveUp,
           Loaded, Close, SetToken, JoinWorker, Destroyed, vars, workerVars
    <3> QED  BY <3>1, <3>2, <3>3, <3>4, <3>5 DEF Next, Opening, Closing, Ended
  <2> QED  BY <2>1
<1>3. opened' > 0 \/ fresh' # {} => Someone'
  <2>1. CASE CreateConnection
    <3>1. NextConnection \in Worker /\ pc'[NextConnection] = "pop"
      BY <2>1, NextConnectionType DEF TypeOK, CreateConnection
    <3> QED  BY <3>1
  <2>2. CASE ConnectSucceeds
    BY <2>2, <1>2 DEF Staffed, ConnectSucceeds
  <2>3. CASE RetryOpen
    BY <2>3, <1>2 DEF Staffed, RetryOpen
  <2>4. CASE ~(CreateConnection \/ ConnectSucceeds \/ RetryOpen)
    <3>1. opened' = opened /\ (fresh' = fresh \/ fresh' = {})
      <4>1. CASE \E w \in Worker : WorkerStep(w) \/ SpuriousWakeup(w)
        BY <4>1, WorkerKeepsAlive DEF connVars
      <4> QED
        BY <4>1, <2>4 DEF Next, Opening, Closing, Ended, Enqueue, ConnectFails, OpenSynch,
             GiveUp, Loaded, Close, Destroy, SetToken, CancelQueue, JoinWorker, Destroyed,
             vars, connVars
    <3> QED  BY <3>1, <1>2 DEF Staffed
  <2> QED  BY <2>1, <2>2, <2>3, <2>4
<1>4. main' \in {"opened", "running", "close", "closed"} => Someone'
  <2>1. CASE OpenSynch
    <3>1. opened > 0
      BY <2>1, PoolAssumption DEF OpenSynch
    <3> QED  BY <3>1, <1>2 DEF Staffed
  <2>2. CASE ~OpenSynch
    <3>1. main' \in {"opened", "running", "close", "closed"}
            => main \in {"opened", "running", "close", "closed"}
      <4>1. CASE \E w \in Worker : WorkerStep(w) \/ SpuriousWakeup(w)
        BY <4>1, WorkerKeepsAlive DEF mainVars
      <4> QED
        BY <4>1, <2>2 DEF Next, Opening, Closing, Ended, Enqueue, CreateConnection,
             ConnectSucceeds, ConnectFails, Outcome, RetryOpen, GiveUp, Loaded, Close,
             Destroy, SetToken, CancelQueue, JoinWorker, Destroyed, vars, mainVars
    <3> QED  BY <3>1, <1>2 DEF Staffed
  <2> QED  BY <2>1, <2>2
<1> QED  BY <1>1, <1>2, <1>3, <1>4 DEF Staffed

\* Every step leaves somebody awake to take what is queued.
LEMMA NoLostWakeupStep ==
  ASSUME TypeOK, Staffed, NoLostWakeup, [Next]_vars
  PROVE  NoLostWakeup'
<1> SUFFICES ASSUME ~Stopping', queue' # <<>>
             PROVE  Awake' # {}
  BY DEF NoLostWakeup, Awake
<1>0. ~Stopping
  BY StoppingPersists
<1>1. ASSUME NEW o \in Op, Enqueue(o)
      PROVE  Awake' # {}
  <2>1. CASE Waiting = {}
    <3>1. PICK w \in Worker : pc[w] # "unborn"
      BY <1>1 DEF Enqueue, Staffed
    <3>2. pc[w] \in {"pop", "popped", "call"}
      BY <3>1, <2>1, <1>0 DEF TypeOK, Staffed, Waiting
    <3>3. pc' = pc
      BY <1>1, <2>1 DEF Enqueue, Push, NotifyOne
    <3> QED  BY <3>2, <3>3 DEF Awake
  <2>2. CASE Waiting # {}
    <3>1. PICK w \in Waiting : pc' = [pc EXCEPT ![w] = "pop"]
      BY <1>1, <2>2 DEF Enqueue, Push, NotifyOne
    <3> QED  BY <3>1 DEF TypeOK, Waiting, Awake
  <2> QED  BY <2>1, <2>2
<1>2. ASSUME NEW w \in Worker, WorkerStep(w) \/ SpuriousWakeup(w)
      PROVE  Awake' # {}
  <2>1. CASE Wait(w)
    BY <2>1 DEF Wait, queueVars
  <2>2. CASE PopNothing(w) \/ ObserveToken(w)
    BY <2>2, <1>0 DEF PopNothing, ObserveToken, Stopping
  <2>3. CASE SpuriousWakeup(w) \/ WaitAndPop(w) \/ StartCall(w) \/ FinishCall(w)
    BY <2>3 DEF TypeOK, SpuriousWakeup, WaitAndPop, Take, StartCall, FinishCall, Awake
  <2> QED  BY <1>2, <2>1, <2>2, <2>3 DEF WorkerStep
<1>3. CASE CreateConnection
  <2>1. NextConnection \in Worker /\ pc'[NextConnection] = "pop"
    BY <1>3, NextConnectionType DEF TypeOK, CreateConnection
  <2> QED  BY <2>1 DEF Awake
<1>4. CASE Destroy \/ CancelQueue
  BY <1>4 DEF Destroy, CancelQueue, Cancel
<1>5. CASE \/ ConnectSucceeds \/ ConnectFails \/ OpenSynch \/ RetryOpen \/ GiveUp \/ Loaded
           \/ Close \/ SetToken \/ JoinWorker \/ Destroyed \/ UNCHANGED vars
  <2>1. pc' = pc /\ queue' = queue
    BY <1>5 DEF ConnectSucceeds, ConnectFails, OpenSynch, RetryOpen, GiveUp, Loaded,
         Close, SetToken, JoinWorker, Destroyed, vars, workerVars, queueVars
  <2> QED  BY <2>1, <1>0 DEF NoLostWakeup, Awake
<1> QED  BY <1>1, <1>2, <1>3, <1>4, <1>5 DEF Next, Opening, Closing, Ended

-----------------------------------------------------------------------------
(* The inductive invariant and what follows from it *)

\* The invariant holds of a pool nothing was done with.
LEMMA IInvInit == Init => IInv
<1> SUFFICES ASSUME Init PROVE IInv
  OBVIOUS
<1>1. Holding = {} /\ Alive = {} /\ ~Stopping /\ \A w \in Worker : pc[w] = "unborn"
  BY DEF Init, Holding, Alive, Stopping
<1>2. queue = <<>> /\ pushed = <<>> /\ executed = <<>> /\ doomed = <<>> /\ fresh = {}
      /\ opened = 0 /\ main = "open"
  BY DEF Init
<1>3. Held = {}
  BY <1>1 DEF Held
<1>4. Custody /\ LostOnlyByStopping
  BY <1>1, <1>2, <1>3, EmptySequence DEF Custody, OwnedOnce, LostOnlyByStopping
<1>5. Connected /\ Staffed /\ NoLostWakeup
  BY <1>1, <1>2 DEF Connected, Staffed, NoLostWakeup
<1> QED  BY <1>4, <1>5, TypeOKInit, CallsAreConnected DEF IInv

\* Every step keeps it.
LEMMA IInvStep == IInv /\ [Next]_vars => IInv'
<1> SUFFICES ASSUME IInv, [Next]_vars PROVE IInv'
  OBVIOUS
<1>1. /\ TypeOK /\ Custody /\ Connected /\ Staffed /\ LostOnlyByStopping
      /\ NoLostWakeup /\ ConnectionOutlivesCall
  BY DEF IInv
<1>2. TypeOK'
  BY <1>1, TypeOKStep
<1>3. Custody' /\ LostOnlyByStopping'
  BY <1>1, CustodyStep
<1>4. Connected'
  BY <1>1, ConnectedStep
<1>5. Staffed' /\ NoLostWakeup'
  BY <1>1, StaffedStep, NoLostWakeupStep
<1>6. ConnectionOutlivesCall'
  <2>1. (Custody /\ Connected => ConnectionOutlivesCall)'
    BY CallsAreConnected, PTL
  <2> QED  BY <1>3, <1>4, <2>1
<1> QED  BY <1>2, <1>3, <1>4, <1>5, <1>6 DEF IInv

\* The inductive invariant holds of every behaviour of the pool.
THEOREM InductiveInvariant == Spec => []IInv
  BY IInvInit, IInvStep, PTL DEF Spec

\* Every variable keeps its type (PoolAssumption bounds the threads).
THEOREM TypeCorrect == Spec => []TypeOK
<1>1. IInv => TypeOK
  BY DEF IInv
<1> QED  BY <1>1, InductiveInvariant, PTL

\* Each operation has one owner at a time and is executed at most once, with
\* any number of workers: the deletes in WorkerThread and Cancel never meet.
THEOREM SingleOwner == Spec => []OwnedOnce
<1>1. IInv => OwnedOnce
  BY DEF IInv, Custody
<1> QED  BY <1>1, InductiveInvariant, PTL

\* No operation disappears before the pool is closed or failed to open.
THEOREM NothingLost == Spec => []LostOnlyByStopping
<1>1. IInv => LostOnlyByStopping
  BY DEF IInv
<1> QED  BY <1>1, InductiveInvariant, PTL

\* No interleaving of Push, WaitAndPop and spurious wakeups puts every worker
\* to sleep while something is queued.
THEOREM WakeupsSuffice == Spec => []NoLostWakeup
<1>1. IInv => NoLostWakeup
  BY DEF IInv
<1> QED  BY <1>1, InductiveInvariant, PTL

\* No operation runs on a connection that is not open yet or already closed.
THEOREM CallsUseLiveConnections == Spec => []ConnectionOutlivesCall
<1>1. IInv => ConnectionOutlivesCall
  BY DEF IInv
<1> QED  BY <1>1, InductiveInvariant, PTL

\* Both together, for every number of workers, openings and operations: what was
\* enqueued has exactly one owner, until the pool is told to stop.
THEOREM NoneIsLostOrShared == Spec => []NoneLostOrShared
<1>1. OwnedOnce /\ LostOnlyByStopping => NoneLostOrShared
  BY DEF NoneLostOrShared
<1> QED  BY <1>1, SingleOwner, NothingLost, PTL

-----------------------------------------------------------------------------
(* The promise to the callers *)

\* The queue is the end of what was enqueued: what waits came after everything
\* else, in the order of the calls.
QueueIsLast ==
  /\ IsInjective(pushed) /\ Len(queue) <= Len(pushed)
  /\ \A k \in DOMAIN queue : queue[k] = pushed[Len(pushed) - Len(queue) + k]

\* Every call of Open brings AsyncThreads workers at most.
Born == \A w \in Worker : pc[w] # "unborn" => w <= opens * AsyncThreads

\* Every step but Push, the pop and the end of a call leaves the queue or
\* empties it.
LEMMA QueueIsLastStep ==
  ASSUME IInv, QueueIsLast, [Next]_vars
  PROVE  QueueIsLast'
<1> USE DEF IInv
<1>1. Len(pushed) \in Nat /\ Len(queue) \in Nat /\ DOMAIN queue = 1 .. Len(queue)
      /\ DOMAIN pushed = 1 .. Len(pushed)
  BY DEF TypeOK
<1>2. ASSUME pushed' = pushed, queue' = queue \/ queue' = <<>>
      PROVE  QueueIsLast'
  BY <1>1, <1>2 DEF QueueIsLast
<1>3. ASSUME NEW o \in Op, Enqueue(o)
      PROVE  QueueIsLast'
  <2>1. queue' = Append(queue, o) /\ pushed' = Append(pushed, o) /\ o \notin Range(pushed)
    BY <1>3 DEF Enqueue, Push
  <2>2. queue \in Seq(Op) /\ pushed \in Seq(Op)
    BY DEF TypeOK
  <2>3. IsInjective(pushed')
    BY <2>1, <2>2, InjectiveAppend DEF QueueIsLast
  <2>4. /\ Len(queue') = Len(queue) + 1 /\ Len(pushed') = Len(pushed) + 1
        /\ DOMAIN queue' = 1 .. (Len(queue) + 1)
        /\ queue'[Len(queue) + 1] = o /\ pushed'[Len(pushed) + 1] = o
        /\ \A k \in 1 .. Len(queue) : queue'[k] = queue[k]
        /\ \A k \in 1 .. Len(pushed) : pushed'[k] = pushed[k]
    BY <2>1, <2>2
  <2>5. ASSUME NEW k \in 1 .. (Len(queue) + 1)
        PROVE  queue'[k] = pushed'[Len(pushed') - Len(queue') + k]
    <3>1. Len(pushed') - Len(queue') + k = Len(pushed) - Len(queue) + k
      BY <1>1, <2>4
    <3>2. CASE k = Len(queue) + 1
      BY <1>1, <2>4, <3>1, <3>2
    <3>3. CASE k # Len(queue) + 1
      <4>1. k \in 1 .. Len(queue) /\ Len(pushed) - Len(queue) + k \in 1 .. Len(pushed)
        BY <1>1, <3>3 DEF QueueIsLast
      <4>2. queue[k] = pushed[Len(pushed) - Len(queue) + k]
        BY <1>1, <4>1 DEF QueueIsLast
      <4> QED  BY <2>4, <3>1, <4>1, <4>2
    <3> QED  BY <3>2, <3>3
  <2>6. Len(queue') <= Len(pushed')
    BY <1>1, <2>4 DEF QueueIsLast
  <2> QED  BY <2>3, <2>4, <2>5, <2>6 DEF QueueIsLast
<1>4. ASSUME NEW w \in Worker, WaitAndPop(w)
      PROVE  QueueIsLast'
  <2>1. queue # <<>> /\ queue' = Tail(queue) /\ pushed' = pushed /\ queue \in Seq(Op)
    BY <1>4 DEF WaitAndPop, Take, history, TypeOK
  <2>2. /\ Len(queue') = Len(queue) - 1 /\ Len(queue) > 0 /\ DOMAIN queue' = 1 .. (Len(queue) - 1)
        /\ \A k \in 1 .. (Len(queue) - 1) : queue'[k] = queue[k + 1] /\ k + 1 \in 1 .. Len(queue)
    BY <2>1
  <2>3. ASSUME NEW k \in 1 .. (Len(queue) - 1)
        PROVE  queue'[k] = pushed'[Len(pushed') - Len(queue') + k]
    <3>1. queue'[k] = pushed[Len(pushed) - Len(queue) + (k + 1)]
      BY <1>1, <2>2 DEF QueueIsLast
    <3>2. Len(pushed) - Len(queue) + (k + 1) = Len(pushed') - Len(queue') + k
      BY <1>1, <2>1, <2>2
    <3> QED  BY <2>1, <3>1, <3>2
  <2>4. Len(queue') <= Len(pushed') /\ IsInjective(pushed')
    BY <1>1, <2>1, <2>2 DEF QueueIsLast
  <2> QED  BY <2>2, <2>3, <2>4 DEF QueueIsLast
<1>5. ASSUME NEW w \in Worker, FinishCall(w)
      PROVE  QueueIsLast'
  BY <1>2, <1>5 DEF FinishCall, queueVars
<1>6. CASE \/ \E w \in Worker : Wait(w) \/ SpuriousWakeup(w) \/ PopNothing(w)
                              \/ ObserveToken(w) \/ StartCall(w)
           \/ Opening \/ Close \/ Destroy \/ Closing \/ UNCHANGED vars
  <2>1. Quiet
    BY <1>6, QuietSteps
  <2> QED  BY <1>2, <2>1 DEF Quiet
<1> QED  BY <1>3, <1>4, <1>5, <1>6 DEF Next, WorkerStep, Ended

\* Workers are born in CreateConnection only, numbered upwards.
LEMMA BornStep ==
  ASSUME TypeOK, Connected, Born, [Next]_vars
  PROVE  Born'
<1>1. AsyncThreads \in Nat /\ opens \in 1..2 /\ opened \in 0..AsyncThreads
      /\ \A w \in Worker : w \in Nat
  BY PoolAssumption DEF TypeOK, Worker
<1>2. ASSUME opens' = opens, \A w \in Worker : pc'[w] # "unborn" => pc[w] # "unborn"
      PROVE  Born'
  BY <1>2 DEF Born
<1>3. CASE CreateConnection
  <2>1. /\ pc' = [pc EXCEPT ![NextConnection] = "pop"] /\ opens' = opens
        /\ opened < AsyncThreads
    BY <1>3 DEF CreateConnection
  <2>2. NextConnection <= opens * AsyncThreads
    <3>1. CASE opens = 1
      BY <1>1, <2>1, <3>1 DEF NextConnection
    <3>2. CASE opens = 2
      BY <1>1, <2>1, <3>2 DEF NextConnection
    <3> QED  BY <1>1, <3>1, <3>2
  <2>3. \A w \in Worker : pc'[w] # "unborn" => pc[w] # "unborn" \/ w = NextConnection
    BY <2>1 DEF TypeOK
  <2> QED  BY <2>1, <2>2, <2>3 DEF Born
<1>4. CASE RetryOpen
  <2>1. opens = 1 /\ opens' = 2 /\ pc' = pc
    BY <1>4 DEF RetryOpen, workerVars
  <2>2. ASSUME NEW w \in Worker, w <= 1 * AsyncThreads
        PROVE  w <= 2 * AsyncThreads
    BY <1>1, <2>2
  <2> QED  BY <2>1, <2>2 DEF Born
<1>5. CASE \E w \in Worker : WorkerStep(w) \/ SpuriousWakeup(w)
  <2>1. PICK w \in Worker : WorkerStep(w) \/ SpuriousWakeup(w)
    BY <1>5
  <2>2. pc[w] # "unborn" /\ (\A v \in Worker : v # w => pc'[v] = pc[v]) /\ opens' = opens
    BY <2>1 DEF TypeOK, WorkerStep, Wait, SpuriousWakeup, WaitAndPop, Take, PopNothing,
                ObserveToken, StartCall, FinishCall, connVars
  <2> QED  BY <1>2, <2>2
<1>6. CASE \/ \E o \in Op : Enqueue(o)
           \/ Destroy \/ CancelQueue
  <2>1. opens' = opens
    BY <1>6 DEF Enqueue, Destroy, CancelQueue, connVars
  <2>2. \A w \in Worker : pc'[w] # "unborn" => pc[w] # "unborn"
    BY <1>6 DEF TypeOK, Enqueue, Push, NotifyOne, Waiting, Destroy, CancelQueue, Cancel, NotifyAll
  <2> QED  BY <1>2, <2>1, <2>2
<1>7. CASE \/ ConnectSucceeds \/ ConnectFails \/ OpenSynch \/ GiveUp \/ Loaded
           \/ Close \/ SetToken \/ JoinWorker \/ Destroyed \/ UNCHANGED vars
  <2>1. pc' = pc /\ opens' = opens
    BY <1>7 DEF ConnectSucceeds, ConnectFails, OpenSynch, GiveUp, Loaded, Close, SetToken,
                JoinWorker, Destroyed, vars, workerVars, connVars
  <2> QED  BY <1>2, <2>1
<1> QED  BY <1>3, <1>4, <1>5, <1>6, <1>7 DEF Next, Opening, Closing, Ended

\* The workers hold no more operations than there are threads.
LEMMA FewAreHeld ==
  ASSUME TypeOK, Born
  PROVE  /\ IsFiniteSet(Held) /\ Cardinality(Held) \in Nat
         /\ Cardinality(Held) <= opens * AsyncThreads
<1>1. opens \in 1..2 /\ AsyncThreads \in 1..32 /\ opens * AsyncThreads \in Nat
  <2>1. opens \in 1..2 /\ AsyncThreads \in 1..32
    BY PoolAssumption DEF TypeOK
  <2>2. opens \in Nat /\ AsyncThreads \in Nat
    BY <2>1
  <2> QED  BY <2>1, <2>2
<1> DEFINE T == 1 .. (opens * AsyncThreads)
           f == [w \in Holding |-> operation[w]]
<1>2. Holding \in SUBSET T
  <2> SUFFICES ASSUME NEW w \in Holding PROVE w \in T
    OBVIOUS
  <2>1. w \in Worker /\ pc[w] # "unborn"
    BY DEF Holding
  <2>2. w <= opens * AsyncThreads /\ w \in Nat \ {0}
    BY <2>1, PoolAssumption DEF Born, Worker
  <2> QED  BY <1>1, <2>2
<1>3. IsFiniteSet(T) /\ Cardinality(T) = opens * AsyncThreads
  <2>1. 1 \in Int /\ opens * AsyncThreads \in Int
    BY <1>1
  <2>2. Cardinality(T) = IF 1 > opens * AsyncThreads THEN 0 ELSE opens * AsyncThreads - 1 + 1
    BY <2>1, FS_Interval
  <2>3. IsFiniteSet(T)
    BY <2>1, FS_Interval
  <2> QED  BY <1>1, <2>2, <2>3
<1>4. IsFiniteSet(Holding) /\ Cardinality(Holding) <= opens * AsyncThreads
  BY <1>2, <1>3, FS_Subset
<1>5. f \in Surjection(Holding, Held)
  BY DEF Surjection, Held
<1>6. IsFiniteSet(Held) /\ Cardinality(Held) <= Cardinality(Holding)
  BY <1>4, <1>5, FS_Surjection
<1>7. Cardinality(Held) \in Nat /\ Cardinality(Holding) \in Nat
  BY <1>4, <1>6, FS_CardinalityType
<1> QED  BY <1>1, <1>4, <1>6, <1>7

\* Only what other workers hold is ahead of an operation that is held.
LEMMA AheadAreHeld ==
  ASSUME TypeOK, Custody, QueueIsLast, NEW o \in Held
  PROVE  Promise!Ahead(o) \subseteq Held \ {o}
<1> SUFFICES ASSUME NEW p \in Live, NEW k \in DOMAIN pushed, NEW l \in DOMAIN pushed,
                    k < l, pushed[k] = p, pushed[l] = o
             PROVE  p \in Held \ {o}
  BY DEF Promise!Ahead
<1>1. Len(pushed) \in Nat /\ Len(queue) \in Nat /\ DOMAIN queue = 1 .. Len(queue)
      /\ DOMAIN pushed = 1 .. Len(pushed)
  BY DEF TypeOK
<1>2. p # o
  BY <1>1 DEF QueueIsLast, IsInjective
<1>3. ASSUME p \in Range(queue) PROVE FALSE
  <2>1. PICK m \in DOMAIN queue : p = queue[m]
    BY <1>3 DEF Range
  <2>2. /\ Len(pushed) - Len(queue) + m \in DOMAIN pushed
        /\ pushed[Len(pushed) - Len(queue) + m] = p
    BY <1>1, <2>1 DEF QueueIsLast
  <2>3. k = Len(pushed) - Len(queue) + m
    BY <2>2 DEF QueueIsLast, IsInjective
  <2> DEFINE n == l - (Len(pushed) - Len(queue))
  <2>4. n \in DOMAIN queue /\ Len(pushed) - Len(queue) + n = l
    BY <1>1, <2>3
  <2> HIDE DEF n
  <2>5. queue[n] = o
    BY <2>4 DEF QueueIsLast
  <2>6. o \in Range(queue)
    BY <2>4, <2>5 DEF Range
  <2> QED  BY <2>6 DEF Custody, OwnedOnce
<1> QED  BY <1>2, <1>3 DEF Live

\* Every step is one of AsyncExecution, or none: Push submits, the end of a call
\* performs, and the other steps drop operations only once the pool closes.
LEMMA PromiseStep ==
  ASSUME IInv, QueueIsLast, Born, opens * AsyncThreads <= Width, [Next]_vars
  PROVE  [Promise!Next]_<<pushed, Live, executed, Stopping>>
<1>1. TypeOK /\ Custody /\ Connected
  BY DEF IInv
<1>2. ASSUME NEW o \in Op, Enqueue(o)
      PROVE  Promise!Submit(o)
  <2>1. /\ queue' = Append(queue, o) /\ pushed' = Append(pushed, o) /\ o \notin Range(pushed)
        /\ UNCHANGED <<shutdown, operation, cancelationToken, executed>>
    BY <1>2 DEF Enqueue, Push
  <2>2. Holding' = Holding
    BY <1>1, <1>2 DEF TypeOK, Enqueue, Push, NotifyOne, Waiting, Holding
  <2>3. Range(queue') = Range(queue) \cup {o}
    BY <1>1, <2>1, RangeAppend DEF TypeOK
  <2>4. Live' = Live \cup {o} /\ Stopping' = Stopping
    BY <2>1, <2>2, <2>3 DEF Live, Held, Stopping
  <2> QED  BY <2>1, <2>4 DEF Promise!Submit, Promise!Range, Range
<1>3. ASSUME NEW w \in Worker, WaitAndPop(w)
      PROVE  UNCHANGED <<pushed, Live, executed, Stopping>>
  <2> DEFINE o == Head(queue)
  <2>1. /\ pc[w] = "pop" /\ queue # <<>>
        /\ operation' = [operation EXCEPT ![w] = o] /\ queue' = Tail(queue)
        /\ pc' = [pc EXCEPT ![w] = "popped"]
        /\ UNCHANGED <<shutdown, cancelationToken, pushed, executed>>
    BY <1>3 DEF WaitAndPop, Take, history
  <2>2. Range(queue) = {o} \cup Range(queue')
    BY <1>1, <2>1, RangeTail DEF TypeOK
  <2> HIDE DEF o
  <2>3. Holding' = Holding \cup {w} /\ w \notin Holding /\ operation'[w] = o
        /\ \A v \in Holding : operation'[v] = operation[v]
    BY <1>1, <2>1 DEF TypeOK, Holding
  <2>4. Held' = Held \cup {o}
    BY <2>3 DEF Held
  <2> QED  BY <2>1, <2>2, <2>4 DEF Live, Stopping
<1>4. ASSUME NEW w \in Worker, FinishCall(w)
      PROVE  \E o \in Op : Promise!Perform(o)
  <2> DEFINE o == operation[w]
  <2>1. /\ pc[w] = "call" /\ executed' = Append(executed, o)
        /\ operation' = [operation EXCEPT ![w] = NoOp]
        /\ pc' = [pc EXCEPT ![w] = "pop"]
        /\ UNCHANGED <<queue, shutdown, cancelationToken, pushed>>
    BY <1>4 DEF FinishCall, queueVars
  <2>2. w \in Holding /\ Holding' = Holding \ {w}
    BY <1>1, <2>1 DEF TypeOK, Holding
  <2>3. o \in Held /\ o \in Op /\ o \notin Range(queue)
    BY <1>1, <2>2 DEF Held, Custody, OwnedOnce
  <2>4. \A v \in Holding' : operation'[v] = operation[v]
    BY <1>1, <2>1, <2>2 DEF TypeOK, Holding
  <2>5. Held' = Held \ {o}
    BY <1>1, <2>2, <2>4 DEF Held, Custody, OwnedOnce
  <2> HIDE DEF o
  <2>6. Live' = Live \ {o} /\ Stopping' = Stopping /\ o \in Live
    BY <2>1, <2>3, <2>5 DEF Live, Stopping
  <2>7. Cardinality(Promise!Ahead(o)) < Width
    <3>1. Promise!Ahead(o) \in SUBSET (Held \ {o})
      BY <1>1, <2>3, AheadAreHeld
    <3>2. /\ IsFiniteSet(Held) /\ Cardinality(Held) \in Nat
          /\ Cardinality(Held) <= opens * AsyncThreads
      BY <1>1, FewAreHeld
    <3>3. IsFiniteSet(Held \ {o}) /\ Cardinality(Held \ {o}) = Cardinality(Held) - 1
      BY <2>3, <3>2, FS_RemoveElement
    <3>4. /\ Cardinality(Promise!Ahead(o)) \in Nat
          /\ Cardinality(Promise!Ahead(o)) <= Cardinality(Held \ {o})
      BY <3>1, <3>3, FS_Subset, FS_CardinalityType
    <3>5. opens * AsyncThreads \in Nat /\ Width \in Nat
      <4>1. opens \in Nat /\ AsyncThreads \in Nat /\ Width \in Nat
        BY <1>1, PoolAssumption DEF TypeOK
      <4> QED  BY <4>1
    <3> QED  BY <3>2, <3>3, <3>4, <3>5
  <2>8. Promise!Perform(o)
    <3>1. Promise!Cardinality(Promise!Ahead(o)) = Cardinality(Promise!Ahead(o))
      BY DEF Promise!Cardinality, Cardinality
    <3>2. UNCHANGED <<pushed, Stopping>>
      BY <2>1, <2>6
    <3> QED  BY <2>1, <2>6, <2>7, <3>1, <3>2 DEF Promise!Perform
  <2> QED  BY <2>3, <2>8
<1>5. CASE \/ \E w \in Worker : Wait(w) \/ SpuriousWakeup(w) \/ PopNothing(w)
                              \/ ObserveToken(w) \/ StartCall(w)
           \/ Opening \/ Close \/ Destroy \/ Closing \/ UNCHANGED vars
  <2>1. Quiet
    BY <1>1, <1>5, QuietSteps
  <2>2. UNCHANGED <<pushed, executed>> /\ Held' \subseteq Held /\ Range(queue') \subseteq Range(queue)
    BY <2>1, EmptySequence DEF Quiet, Held
  <2>3. CASE Stopping'
    <3>1. Live' \in SUBSET Live
      BY <2>2 DEF Live
    <3>2. Promise!Abandon(Live')
      BY <2>2, <2>3 DEF Promise!Abandon, Stopping
    <3> QED  BY <3>1, <3>2 DEF Promise!Next
  <2>4. CASE ~Stopping'
    <3>1. ~Stopping /\ Holding' = Holding /\ queue' = queue
      BY <2>1, <2>4 DEF Quiet, Stopping
    <3>2. Live' = Live /\ Stopping' = Stopping
      BY <2>1, <2>4, <3>1 DEF Quiet, Live, Held, Stopping
    <3> QED  BY <2>2, <3>2
  <2> QED  BY <2>3, <2>4
<1> QED  BY <1>2, <1>3, <1>4, <1>5 DEF Next, WorkerStep, Ended, Promise!Next

\* The pool keeps its promise to its callers, for any number of worker threads:
\* operations are performed once and in the order they were enqueued, but that
\* one may overtake those the other threads are busy with, and none is dropped
\* until the pool is told to stop.
THEOREM PromiseKept ==
  Spec /\ [](opens * AsyncThreads <= Width) => ImplementsAsyncExecution
<1> DEFINE Few == opens * AsyncThreads <= Width
<1>1. Init => QueueIsLast /\ Born
  <2> SUFFICES ASSUME Init PROVE QueueIsLast /\ Born
    OBVIOUS
  <2>1. IsInjective(<<>>) /\ Len(<<>>) = 0 /\ DOMAIN <<>> = {}
    BY EmptySequence
  <2> QED  BY <2>1 DEF Init, QueueIsLast, Born
<1>2. Init => Promise!Init
  <2> SUFFICES ASSUME Init PROVE Promise!Init
    OBVIOUS
  <2>1. Holding = {} /\ ~Stopping /\ queue = <<>> /\ pushed = <<>> /\ executed = <<>>
    BY DEF Init, Holding, Stopping
  <2>2. Live = {}
    BY <2>1, EmptySequence DEF Live, Held
  <2> QED  BY <2>1, <2>2 DEF Promise!Init
<1>3. IInv /\ QueueIsLast /\ Born /\ [Next]_vars => (QueueIsLast /\ Born)'
  BY QueueIsLastStep, BornStep DEF IInv
<1>4. IInv /\ QueueIsLast /\ Born /\ Few /\ [Next]_vars
        => [Promise!Next]_<<pushed, Live, executed, Stopping>>
  BY PromiseStep
<1> QED
  BY <1>1, <1>2, <1>3, <1>4, InductiveInvariant, PTL
  DEF Spec, ImplementsAsyncExecution, Promise!Spec

\* Whatever Open did, twice AsyncThreads is a width that suffices.
THEOREM PromiseKeptAfterReopening ==
  ASSUME 2 * AsyncThreads <= Width
  PROVE  Spec => ImplementsAsyncExecution
<1>1. IInv => opens * AsyncThreads <= Width
  <2> SUFFICES ASSUME IInv PROVE opens * AsyncThreads <= Width
    OBVIOUS
  <2>1. opens \in 1..2 /\ AsyncThreads \in Nat /\ Width \in Nat
    BY PoolAssumption DEF IInv, TypeOK
  <2>2. CASE opens = 1
    BY <2>1, <2>2
  <2>3. CASE opens = 2
    BY <2>1, <2>3
  <2> QED  BY <2>1, <2>2, <2>3
<1> QED  BY <1>1, InductiveInvariant, PromiseKept, PTL

-----------------------------------------------------------------------------
(* The synchronous half *)

Using(c) == caller_pc[c] \in {"use", "ping"}

\* Who holds a connection is using that one and no other; KeepAlive stays
\* within the connections.
OwnersUse ==
  /\ \A c \in Caller : Using(c) => i[c] \in Synchronous!Connection /\ m_Mutex[i[c]] = c
  /\ \A c \in Caller, k \in Synchronous!Connection : m_Mutex[k] = c => Using(c) /\ i[c] = k
  /\ \A c \in Caller : caller_pc[c] = "keep" => i[c] <= SynchThreads

SInv == Synchronous!TypeOK /\ OwnersUse

\* The index GetFreeConnection goes on to, and the connection it is for.
LEMMA Candidates ==
  ASSUME NEW c \in Caller, i[c] \in 0..Indices
  PROVE  /\ Synchronous!NextIndex(c) \in 0..Indices
         /\ Synchronous!Candidate(c) \in Synchronous!Connection
         /\ Synchronous!Connection \subseteq 0..Indices
         /\ SynchThreads \in Nat /\ Indices \in Nat /\ SynchThreads <= Indices
<1>1. SynchThreads \in Nat /\ SynchThreads > 0 /\ Indices \in Nat /\ Indices >= SynchThreads
  BY SynchronousAssumption DEF Synchronous!SynchAssumption
<1>2. (i[c] + 1) % Indices \in 0..(Indices - 1)
  BY <1>1
<1>3. ((i[c] + 1) % Indices) % SynchThreads \in 0..(SynchThreads - 1)
  BY <1>1, <1>2
<1> QED BY <1>1, <1>2, <1>3 DEF Synchronous!NextIndex, Synchronous!Candidate, Synchronous!Connection

\* At first nobody holds a connection.
LEMMA SynchInit == Synchronous!Init => SInv
<1>1. SynchThreads \in Nat /\ Indices \in Nat /\ Nobody \notin Caller /\ KeepAlives \in Nat
  BY SynchronousAssumption DEF Synchronous!SynchAssumption
<1> QED BY <1>1 DEF Synchronous!Init, SInv, OwnersUse, Using, Synchronous!TypeOK, Synchronous!Connection

\* Each step of a thread and of KeepAlive leaves the owners in their connections.
LEMMA SynchStep == SInv /\ [Synchronous!Next]_Synchronous!vars => SInv'
<1> SUFFICES ASSUME SInv, [Synchronous!Next]_Synchronous!vars PROVE SInv'
  OBVIOUS
<1>0. /\ World \in Caller /\ Nobody \notin Caller
      /\ SynchThreads \in Nat /\ KeepAlives \in Nat /\ Indices \in Nat /\ SynchThreads <= Indices
  BY SynchronousAssumption DEF Synchronous!SynchAssumption
<1>t. /\ caller_pc \in [Caller -> {"idle", "spin", "use", "keep", "ping"}]
      /\ i \in [Caller -> 0..Indices]
      /\ m_Mutex \in [Synchronous!Connection -> Caller \cup {Nobody}]
      /\ pings \in 0..KeepAlives
  BY DEF SInv, Synchronous!TypeOK
<1>o. OwnersUse
  BY DEF SInv
<1>k. \A k \in Synchronous!Connection : k \in 0..Indices /\ k + 1 \in 0..Indices
  BY <1>0 DEF Synchronous!Connection
<1> USE DEF OwnersUse, Using
<1>1. ASSUME NEW c \in Caller, Synchronous!GetFreeConnection(c) PROVE SInv'
  BY <1>0, <1>t, <1>o, <1>1 DEF SInv, Synchronous!TypeOK, Synchronous!GetFreeConnection
<1>2. CASE Synchronous!KeepAlive
  BY <1>0, <1>t, <1>o, <1>2 DEF SInv, Synchronous!TypeOK, Synchronous!KeepAlive
<1>3. ASSUME NEW c \in Caller, Synchronous!Running(c) PROVE SInv'
  <2>c. /\ Synchronous!NextIndex(c) \in 0..Indices
        /\ Synchronous!Candidate(c) \in Synchronous!Connection
    BY <1>t, Candidates
  <2>p. pings' = pings
    BY <1>3 DEF Synchronous!Running
  <2>1. CASE Synchronous!Locked(c)
    BY <1>0, <1>t, <1>o, <1>k, <2>c, <2>p, <2>1
       DEF SInv, Synchronous!TypeOK, Synchronous!Locked, Synchronous!LockIfReady
  <2>2. CASE Synchronous!Busy(c)
    BY <1>0, <1>t, <1>o, <2>c, <2>p, <2>2
       DEF SInv, Synchronous!TypeOK, Synchronous!Busy, Synchronous!Advance
  <2>3. CASE Synchronous!Unlock(c)
    BY <1>0, <1>t, <1>o, <2>p, <2>3
       DEF SInv, Synchronous!TypeOK, Synchronous!Unlock, Synchronous!Release
  <2>4. CASE Synchronous!PingLocked
    BY <1>0, <1>t, <1>o, <1>k, <2>p, <2>4
       DEF SInv, Synchronous!TypeOK, Synchronous!PingLocked, Synchronous!LockIfReady, Synchronous!Connection
  <2>5. CASE Synchronous!PingSkipped
    BY <1>0, <1>t, <1>o, <1>k, <2>p, <2>5
       DEF SInv, Synchronous!TypeOK, Synchronous!PingSkipped
  <2>6. CASE Synchronous!PingDone
    BY <1>0, <1>t, <1>o, <1>k, <2>p, <2>6
       DEF SInv, Synchronous!TypeOK, Synchronous!PingDone, Synchronous!Release, Synchronous!Connection
  <2>7. CASE Synchronous!KeepAliveDone
    BY <1>0, <1>t, <1>o, <2>p, <2>7
       DEF SInv, Synchronous!TypeOK, Synchronous!KeepAliveDone
  <2> QED BY <1>3, <2>1, <2>2, <2>3, <2>4, <2>5, <2>6, <2>7
          DEF Synchronous!Running, Synchronous!KeepAliveLoop
<1>4. CASE UNCHANGED Synchronous!vars
  BY <1>t, <1>o, <1>4 DEF SInv, Synchronous!TypeOK, Synchronous!vars
<1> QED BY <1>1, <1>2, <1>3, <1>4 DEF Synchronous!Next

\* GetFreeConnection, KeepAlive: each thread holds exactly the connection it
\* uses, for every number of threads and connections.
THEOREM SynchInvariant == Synchronous!Spec => []SInv
BY SynchInit, SynchStep, PTL DEF Synchronous!Spec

\* A thread that talks to the server holds the lock of its connection, and
\* leaves no lock behind.
THEOREM ConnectionsHaveOneUser == Synchronous!Spec => []OneUser
<1>1. SInv => OneUser
  BY DEF SInv, OwnersUse, Using, OneUser, Synchronous!OneUser, Synchronous!TypeOK
<1> QED BY <1>1, SynchInvariant, PTL
-----------------------------------------------------------------------------
(* Transactions on their connections *)

\* The statements before the one a connection has come to.
Sent(n) == [k \in 1..n |-> k]

Clean(c) == active[c] = FALSE /\ session[c] = <<>>

\* A connection has a transaction unless it is idle, each its own, in hand.
Hands ==
  /\ \A c \in Transactions!Conn :
       IF at_pc[c] = "idle" THEN tx[c] = NoTx ELSE tx[c] \in Tx /\ outcome[tx[c]] = "taken"
  /\ \A c, d \in Transactions!Conn : tx[c] = tx[d] /\ tx[c] # NoTx => c = d

\* The server's session is open only between START TRANSACTION and its end.
SessionsClean ==
  \A c \in Transactions!Conn :
    /\ at_pc[c] \in {"idle", "lock", "begin", "returned"} => Clean(c)
    /\ ~handle[c] \/ ~alive => Clean(c)
    /\ ~active[c] => session[c] = <<>>

\* A connection that is being opened again is in the middle of a statement.
Reconnecting ==
  \A c \in Transactions!Conn :
    attempts[c] > 0 => handle[c] = FALSE /\ at_pc[c] \in Transactions!Sending

\* Asynchronous connections retry with the lock, and without it nobody.
Lockers ==
  /\ \A c \in Transactions!Conn :
       /\ tries[c] <= Transactions!LoopBreaker(c)
       /\ at_pc[c] \in {"idle", "lock"} => tries[c] = 0
       /\ at_pc[c] = "lock" => c \in Async
  /\ \A c \in Async : tries[c] > 0 <=> deadlockLock = c

\* Where a transaction is in its statements.
Places ==
  \A c \in Transactions!Conn :
    /\ at_pc[c] \in {"begin", "statement", "commit", "rollback"} => Size[tx[c]] > 0
    /\ at_pc[c] = "begin" => at[c] = 1
    /\ at_pc[c] = "statement" => at[c] \in 1..Size[tx[c]]
    /\ at_pc[c] = "commit" => at[c] = Size[tx[c]]

\* What a transaction leaves that was begun and is reported as done.
DoneLeaves(t) == IF t \in uncommitted THEN <<>> ELSE Sent(Size[t])

\* As long as no session is lost every connection has its handle, a COMMIT that
\* failed belongs to a transaction about to be reported as done, and what is
\* durable of a transaction whose START TRANSACTION did not fail follows from
\* where its connection is and from the error.
KeptTx ==
  \A t \in Tx :
    /\ t \notin unbegun =>
         /\ database[t] \in {<<>>, Sent(Size[t])}
         /\ outcome[t] = "done" => database[t] = DoneLeaves(t)
         /\ outcome[t] \in {"pending", "dropped"} => database[t] = <<>>
    /\ outcome[t] = "pending" => t \notin uncommitted

KeptConn ==
  \A c \in Transactions!Conn :
    /\ handle[c] = TRUE /\ attempts[c] = 0
    /\ at_pc[c] \in {"begin", "statement", "commit"} => error[c] = "none"
    /\ at_pc[c] = "rollback" => error[c] # "none"
    /\ at_pc[c] = "lock" => error[c] = "deadlock"
    /\ at_pc[c] \in Transactions!Sending \cup {"lock"} => tx[c] \notin uncommitted
    /\ at_pc[c] = "returned" /\ error[c] # "none" => tx[c] \notin uncommitted

KeptWhole ==
  \A c \in Transactions!Conn : at_pc[c] # "idle" /\ tx[c] \notin unbegun =>
    /\ at_pc[c] \in Transactions!Sending \cup {"lock"} => database[tx[c]] = <<>>
    /\ alive /\ at_pc[c] = "statement" => active[c] = TRUE /\ session[c] = Sent(at[c] - 1)
    /\ alive /\ at_pc[c] = "commit" => active[c] = TRUE /\ session[c] = Sent(Size[tx[c]])
    /\ at_pc[c] = "returned" =>
         database[tx[c]] = IF error[c] = "none" THEN DoneLeaves(tx[c]) ELSE <<>>

Kept == losses = 0 => KeptTx /\ KeptConn /\ KeptWhole

TInv ==
  Transactions!TypeOK /\ Hands /\ SessionsClean /\ Reconnecting /\ Lockers /\ Places /\ Kept

\* The statements sent so far, one more, and none before them.
LEMMA SentFacts ==
  /\ Sent(0) = <<>>
  /\ \A n \in Nat : Sent(n) \in Seq(Nat) /\ Len(Sent(n)) = n
  /\ \A n \in Nat \ {0} : Append(Sent(n - 1), n) = Sent(n)
  /\ \A n \in Nat : <<>> \o Sent(n) = Sent(n)
<1>1. Sent(0) = <<>>
  BY DEF Sent
<1>2. ASSUME NEW n \in Nat PROVE Sent(n) \in Seq(Nat) /\ Len(Sent(n)) = n /\ DOMAIN Sent(n) = 1..n
  <2>1. Sent(n) \in [1..n -> Nat]
    BY DEF Sent
  <2> QED BY <2>1
<1>3. ASSUME NEW n \in Nat \ {0} PROVE Append(Sent(n - 1), n) = Sent(n)
  <2>1. Sent(n - 1) \in Seq(Nat) /\ Len(Sent(n - 1)) = n - 1
    BY <1>2
  <2>2. Append(Sent(n - 1), n) \in Seq(Nat) /\ Len(Append(Sent(n - 1), n)) = n
    BY <2>1
  <2>3. \A k \in 1..n : Append(Sent(n - 1), n)[k] = k
    BY <2>1 DEF Sent
  <2> QED BY <1>2, <2>2, <2>3 DEF Sent
<1>4. ASSUME NEW n \in Nat PROVE <<>> \o Sent(n) = Sent(n)
  BY <1>2
<1> QED BY <1>1, <1>2, <1>3, <1>4

\* What the constants are.
LEMMA TConstants ==
  /\ NoConn \notin Async /\ Async \cap Synch = {} /\ NoTx \notin Tx
  /\ Size \in [Tx -> Nat] /\ MaxLosses \in Nat
  /\ \A c \in Async : c \in Transactions!Conn
  /\ \A c \in Transactions!Conn : Transactions!LoopBreaker(c) \in 5..9
BY TransactionsAssumption
   DEF Transactions!TransactionAssumption, Transactions!Conn, Transactions!LoopBreaker

\* At first every connection is idle and nothing has been stored.
LEMMA TInit == Transactions!Init => TInv
<1> SUFFICES ASSUME Transactions!Init PROVE TInv
  OBVIOUS
<1>1. Transactions!TypeOK
  BY TConstants DEF Transactions!Init, Transactions!TypeOK, Transactions!MaxAttempts
<1>2. Hands /\ SessionsClean /\ Reconnecting /\ Lockers /\ Places
  BY TConstants DEF Transactions!Init, Hands, SessionsClean, Reconnecting, Lockers, Places, Clean
<1>3. Kept
  BY DEF Transactions!Init, Kept, KeptTx, KeptConn, KeptWhole, DoneLeaves
<1> QED BY <1>1, <1>2, <1>3 DEF TInv

\* Types, unfolded; the connection that acts and its transaction.
LEMMA TTypes ==
  ASSUME TInv
  PROVE  /\ at_pc \in [Transactions!Conn -> Transactions!Sending \cup {"idle", "lock", "returned"}]
         /\ tx \in [Transactions!Conn -> Tx \cup {NoTx}] /\ at \in [Transactions!Conn -> Nat]
         /\ error \in [Transactions!Conn -> {"none", "deadlock", "other"}]
         /\ tries \in [Transactions!Conn -> 0..9]
         /\ handle \in [Transactions!Conn -> BOOLEAN]
         /\ attempts \in [Transactions!Conn -> 0..5]
         /\ deadlockLock \in Async \cup {NoConn}
         /\ outcome \in [Tx -> {"pending", "taken", "done", "dropped"}]
         /\ active \in [Transactions!Conn -> BOOLEAN]
         /\ session \in [Transactions!Conn -> Seq(Nat)]
         /\ database \in [Tx -> Seq(Nat)]
         /\ unbegun \subseteq Tx /\ uncommitted \subseteq Tx
         /\ losses \in 0..MaxLosses /\ alive \in BOOLEAN
BY DEF TInv, Transactions!TypeOK, Transactions!MaxAttempts

\* A worker or a caller takes a transaction.
LEMMA TStart ==
  ASSUME TInv, NEW c \in Transactions!Conn, NEW t \in Tx, Transactions!Start(c, t)
  PROVE  TInv'
<1>t. /\ at_pc \in [Transactions!Conn -> Transactions!Sending \cup {"idle", "lock", "returned"}]
      /\ tx \in [Transactions!Conn -> Tx \cup {NoTx}] /\ at \in [Transactions!Conn -> Nat]
      /\ error \in [Transactions!Conn -> {"none", "deadlock", "other"}]
      /\ tries \in [Transactions!Conn -> 0..9]
      /\ outcome \in [Tx -> {"pending", "taken", "done", "dropped"}]
  BY TTypes
<1>s. /\ alive /\ at_pc[c] = "idle" /\ outcome[t] = "pending"
      /\ outcome' = [outcome EXCEPT ![t] = "taken"]
      /\ tx' = [tx EXCEPT ![c] = t] /\ at' = [at EXCEPT ![c] = 1]
      /\ tries' = [tries EXCEPT ![c] = 0]
      /\ at_pc' = [at_pc EXCEPT ![c] = IF Size[t] = 0 THEN "returned" ELSE "begin"]
      /\ error' = [error EXCEPT ![c] = IF Size[t] = 0 THEN "other" ELSE "none"]
      /\ UNCHANGED <<handle, attempts, losses, alive, deadlockLock, active, session, database,
                     unbegun, uncommitted>>
  BY DEF Transactions!Start, Transactions!Entry, Transactions!link, Transactions!server
<1>1. Transactions!TypeOK'
  BY <1>t, <1>s DEF TInv, Transactions!TypeOK, Transactions!Sending
<1>2. Hands'
  BY <1>t, <1>s, TConstants DEF TInv, Hands
<1>3. SessionsClean'
  BY <1>t, <1>s DEF TInv, SessionsClean, Clean
<1>4. Lockers'
  BY <1>t, <1>s, TConstants DEF TInv, Lockers
<1>5. Places'
  <2>1. Size[t] \in Nat
    BY TConstants
  <2>2. /\ tx'[c] = t /\ at'[c] = 1
        /\ at_pc'[c] = IF Size[t] = 0 THEN "returned" ELSE "begin"
        /\ \A d \in Transactions!Conn : d # c => tx'[d] = tx[d] /\ at'[d] = at[d] /\ at_pc'[d] = at_pc[d]
    BY <1>t, <1>s
  <2> QED BY <2>1, <2>2 DEF TInv, Places
<1>6. Kept'
  <2> SUFFICES ASSUME losses = 0 PROVE KeptTx' /\ KeptConn' /\ KeptWhole'
    BY <1>s DEF Kept
  <2>0. KeptTx /\ KeptConn /\ KeptWhole
    BY DEF TInv, Kept
  <2>1. /\ t \notin uncommitted
        /\ t \notin unbegun => database[t] = <<>>
    BY <1>s, <2>0 DEF KeptTx
  <2>2. /\ tx'[c] = t /\ at_pc'[c] = IF Size[t] = 0 THEN "returned" ELSE "begin"
        /\ error'[c] = IF Size[t] = 0 THEN "other" ELSE "none"
        /\ \A d \in Transactions!Conn : d # c =>
             at_pc'[d] = at_pc[d] /\ error'[d] = error[d] /\ tx'[d] = tx[d] /\ at'[d] = at[d]
        /\ \A u \in Tx : outcome'[u] = IF u = t THEN "taken" ELSE outcome[u]
    BY <1>t, <1>s
  <2>3. KeptTx'
    BY <1>s, <2>0, <2>2 DEF KeptTx, DoneLeaves
  <2>4. KeptConn'
    BY <1>s, <2>0, <2>1, <2>2 DEF KeptConn, Transactions!Sending
  <2>5. KeptWhole'
    BY <1>s, <2>0, <2>1, <2>2
       DEF KeptWhole, DoneLeaves,
           Transactions!Sending
  <2> QED BY <2>3, <2>4, <2>5
<1>r. Reconnecting'
  BY <1>t, <1>s DEF TInv, Reconnecting, Transactions!Sending
<1> QED BY <1>r, <1>1, <1>2, <1>3, <1>4, <1>5, <1>6 DEF TInv

\* A step of a connection among its statements leaves transactions and retries
\* to the connections that have them.
LEMMA TAmong ==
  ASSUME TInv, NEW c \in Transactions!Conn, at_pc[c] # "idle",
         NEW p \in Transactions!Sending \cup {"returned"}, at_pc' = [at_pc EXCEPT ![c] = p],
         UNCHANGED <<tx, tries, outcome, deadlockLock>>
  PROVE  Hands' /\ Lockers'
<1>1. /\ at_pc' \in [Transactions!Conn -> Transactions!Sending \cup {"idle", "lock", "returned"}]
      /\ p \notin {"idle", "lock"} /\ at_pc'[c] = p
      /\ \A d \in Transactions!Conn : d # c => at_pc'[d] = at_pc[d]
  BY TTypes DEF Transactions!Sending
<1>2. Hands'
  BY <1>1 DEF TInv, Hands
<1>3. Lockers'
  BY <1>1, TConstants DEF TInv, Lockers
<1> QED BY <1>2, <1>3

\* The server answers a statement of a connection that has its handle.
LEMMA TExecute ==
  ASSUME TInv, NEW c \in Transactions!Conn, Transactions!Execute(c)
  PROVE  TInv'
<1>t. /\ at_pc \in [Transactions!Conn -> Transactions!Sending \cup {"idle", "lock", "returned"}]
      /\ tx \in [Transactions!Conn -> Tx \cup {NoTx}] /\ at \in [Transactions!Conn -> Nat]
      /\ active \in [Transactions!Conn -> BOOLEAN]
      /\ session \in [Transactions!Conn -> Seq(Nat)]
      /\ database \in [Tx -> Seq(Nat)]
  BY TTypes
<1>s. /\ alive /\ at_pc[c] \in Transactions!Sending /\ handle[c]
      /\ UNCHANGED <<tx, error, tries, outcome, handle, attempts, losses, alive, deadlockLock,
                     unbegun, uncommitted>>
      /\ Transactions!Perform(c) /\ Transactions!Succeeded(c)
  BY DEF Transactions!Execute, Transactions!Connected, Transactions!Succeeded, Transactions!link
<1>h. /\ tx[c] \in Tx /\ at_pc[c] # "idle" /\ Size[tx[c]] \in Nat /\ Size[tx[c]] > 0
      /\ \A d \in Transactions!Conn : d # c => tx[d] # tx[c]
  BY <1>s, TConstants DEF TInv, Hands, Places, Transactions!Sending
<1>r. Reconnecting'
  <2>1. attempts[c] = 0
    <3>1. attempts[c] \in 0..5
      BY TTypes
    <3> QED BY <1>s, <3>1 DEF TInv, Reconnecting
  <2>2. \A d \in Transactions!Conn : d # c => at_pc'[d] = at_pc[d]
    BY <1>t, <1>s DEF Transactions!Succeeded, Transactions!Sending
  <2> QED BY <1>s, <2>1, <2>2 DEF TInv, Reconnecting
<1>1. CASE at_pc[c] = "begin"
  <2>1. /\ at_pc' = [at_pc EXCEPT ![c] = "statement"] /\ at' = at
        /\ active' = [active EXCEPT ![c] = TRUE] /\ UNCHANGED <<session, database>>
    BY <1>s, <1>1 DEF Transactions!Succeeded, Transactions!Perform
  <2>2. session[c] = Sent(0) /\ at[c] = 1
    BY <1>1, SentFacts DEF TInv, SessionsClean, Clean, Places
  <2>3. Transactions!TypeOK'
    BY <1>t, <1>s, <2>1 DEF TInv, Transactions!TypeOK, Transactions!Sending
  <2>4. Hands' /\ Lockers'
    BY <1>h, <1>s, <2>1, TAmong DEF Transactions!Sending
  <2>5. SessionsClean'
    BY <1>t, <1>s, <1>1, <2>1 DEF TInv, SessionsClean, Clean
  <2>6. Places'
    BY <1>t, <1>s, <1>h, <1>1, <2>1, <2>2 DEF TInv, Places
  <2>7. Kept'
    BY <1>t, <1>s, <1>h, <1>1, <2>1, <2>2 DEF TInv, Kept, KeptTx, KeptConn, KeptWhole, DoneLeaves
  <2> QED BY <1>r, <2>3, <2>4, <2>5, <2>6, <2>7 DEF TInv
<1>2. CASE at_pc[c] = "statement"
  <2>1. /\ \/ /\ active[c] /\ session' = [session EXCEPT ![c] = Append(@, at[c])]
              /\ UNCHANGED <<active, database>>
           \/ /\ ~active[c] /\ database' = [database EXCEPT ![tx[c]] = Append(@, at[c])]
              /\ UNCHANGED <<active, session>>
        /\ \/ at[c] < Size[tx[c]] /\ at_pc' = at_pc /\ at' = [at EXCEPT ![c] = @ + 1]
           \/ ~(at[c] < Size[tx[c]]) /\ at_pc' = [at_pc EXCEPT ![c] = "commit"] /\ at' = at
    BY <1>s, <1>2 DEF Transactions!Succeeded, Transactions!Perform
  <2>2. at[c] \in 1..Size[tx[c]]
    BY <1>2 DEF TInv, Places
  <2>3. Transactions!TypeOK'
    <3>1. /\ at_pc' \in [Transactions!Conn -> Transactions!Sending \cup {"idle", "lock", "returned"}]
          /\ at' \in [Transactions!Conn -> Nat]
      <4>1. at' \in [Transactions!Conn -> Nat]
        <5>1. at[c] + 1 \in Nat
          BY <1>t
        <5> QED BY <1>t, <2>1, <5>1
      <4>2. {"commit"} \subseteq Transactions!Sending
        BY DEF Transactions!Sending
      <4> QED BY <1>t, <2>1, <4>1, <4>2
    <3>2. /\ Append(session[c], at[c]) \in Seq(Nat)
          /\ Append(database[tx[c]], at[c]) \in Seq(Nat)
      BY <1>t, <1>h
    <3>3. /\ active' \in [Transactions!Conn -> BOOLEAN]
          /\ session' \in [Transactions!Conn -> Seq(Nat)] /\ database' \in [Tx -> Seq(Nat)]
      BY <1>t, <2>1, <3>2
    <3> QED BY <1>s, <3>1, <3>3 DEF TInv, Transactions!TypeOK
  <2>p. at_pc' = [at_pc EXCEPT ![c] = "statement"] \/ at_pc' = [at_pc EXCEPT ![c] = "commit"]
    BY <1>t, <1>2, <2>1
  <2>4. Hands' /\ Lockers'
    BY <1>h, <1>s, <2>p, TAmong DEF Transactions!Sending
  <2>5. SessionsClean'
    BY <1>t, <1>s, <1>2, <2>1, <2>p DEF TInv, SessionsClean, Clean
  <2>6. Places'
    BY <1>t, <1>s, <1>h, <1>2, <2>1, <2>2 DEF TInv, Places
  <2>7. Kept'
    <3> SUFFICES ASSUME losses = 0 PROVE KeptTx' /\ KeptConn' /\ KeptWhole'
      BY <1>s DEF Kept
    <3>0. KeptTx /\ KeptConn /\ KeptWhole
      BY DEF TInv, Kept
    <3>1. \/ at_pc'[c] = "statement" /\ at'[c] - 1 = at[c]
          \/ at_pc'[c] = "commit" /\ at[c] = Size[tx[c]]
      BY <1>t, <1>h, <1>2, <2>1, <2>2
    <3>2. \A d \in Transactions!Conn : d # c =>
            at_pc'[d] = at_pc[d] /\ at'[d] = at[d] /\ session'[d] = session[d] /\ active'[d] = active[d]
      BY <1>t, <2>1
    <3>3. \A t \in Tx : t # tx[c] => database'[t] = database[t]
      BY <1>t, <1>h, <2>1
    <3>4. outcome[tx[c]] = "taken" /\ \A d \in Transactions!Conn : at_pc[d] # "idle" => tx[d] \in Tx
      BY <1>h DEF TInv, Hands
    <3>5. ASSUME tx[c] \notin unbegun
          PROVE  /\ database' = database /\ active'[c] = TRUE /\ database[tx[c]] = <<>>
                 /\ at_pc'[c] = "statement" => session'[c] = Sent(at'[c] - 1)
                 /\ at_pc'[c] = "commit" => session'[c] = Sent(Size[tx[c]])
      <4>1. active[c] = TRUE /\ session[c] = Sent(at[c] - 1) /\ database[tx[c]] = <<>>
        BY <1>s, <1>2, <3>0, <3>5 DEF KeptWhole, Transactions!Sending
      <4>2. Append(session[c], at[c]) = Sent(at[c])
        <5>1. at[c] \in Nat \ {0}
          BY <2>2, <1>h
        <5> QED BY <4>1, <5>1, SentFacts
      <4>3. session'[c] = Sent(at[c]) /\ UNCHANGED <<active, database>>
        BY <1>t, <2>1, <4>1, <4>2
      <4> QED BY <3>1, <4>1, <4>3
    <3>6. KeptTx'
      <4>1. ASSUME NEW t \in Tx, t \notin unbegun PROVE database'[t] = database[t]
        BY <3>3, <3>5, <4>1
      <4> QED BY <1>s, <3>0, <4>1
              DEF KeptTx, DoneLeaves
    <3>7. KeptConn'
      BY <1>s, <1>2, <3>0, <3>1, <3>2 DEF KeptConn, Transactions!Sending
    <3>8. KeptWhole'
      <4>1. ASSUME NEW d \in Transactions!Conn, d # c, at_pc[d] # "idle"
            PROVE  database'[tx[d]] = database[tx[d]]
        BY <1>h, <3>3, <3>4, <4>1
      <4>2. ASSUME NEW d \in Transactions!Conn, d # c
            PROVE  at_pc'[d] # "idle" /\ tx'[d] \notin unbegun' =>
                     /\ at_pc'[d] \in Transactions!Sending \cup {"lock"} => database'[tx'[d]] = <<>>
                     /\ alive' /\ at_pc'[d] = "statement" =>
                          active'[d] = TRUE /\ session'[d] = Sent(at'[d] - 1)
                     /\ alive' /\ at_pc'[d] = "commit" =>
                          active'[d] = TRUE /\ session'[d] = Sent(Size[tx'[d]])
                     /\ at_pc'[d] = "returned" =>
                          database'[tx'[d]] =
                            IF error'[d] = "none"
                            THEN IF tx'[d] \in uncommitted' THEN <<>> ELSE Sent(Size[tx'[d]])
                            ELSE <<>>
        BY <1>s, <3>0, <3>2, <4>1, <4>2 DEF KeptWhole, DoneLeaves
      <4>3. tx[c] \notin unbegun =>
              /\ database'[tx[c]] = <<>> /\ active'[c] = TRUE
              /\ at_pc'[c] = "statement" => session'[c] = Sent(at'[c] - 1)
              /\ at_pc'[c] = "commit" => session'[c] = Sent(Size[tx[c]])
        BY <3>5
      <4>4. at_pc'[c] \in {"statement", "commit"}
        BY <3>1
      <4> QED BY <1>s, <4>2, <4>3, <4>4 DEF KeptWhole, DoneLeaves
    <3> QED BY <3>6, <3>7, <3>8
  <2> QED BY <1>r, <2>3, <2>4, <2>5, <2>6, <2>7 DEF TInv
<1>3. CASE at_pc[c] = "rollback"
  <2>1. /\ at_pc' = [at_pc EXCEPT ![c] = "returned"] /\ at' = at
        /\ active' = [active EXCEPT ![c] = FALSE] /\ session' = [session EXCEPT ![c] = <<>>]
        /\ database' = database
    BY <1>s, <1>3 DEF Transactions!Succeeded, Transactions!Perform, Transactions!EndSession
  <2>3. Transactions!TypeOK'
    BY <1>t, <1>s, <2>1 DEF TInv, Transactions!TypeOK
  <2>4. Hands' /\ Lockers'
    BY <1>h, <1>s, <2>1, TAmong
  <2>5. SessionsClean'
    BY <1>t, <1>s, <1>3, <2>1 DEF TInv, SessionsClean, Clean
  <2>6. Places'
    BY <1>t, <1>s, <1>3, <2>1 DEF TInv, Places
  <2>7. Kept'
    BY <1>t, <1>s, <1>3, <2>1 DEF TInv, Kept, KeptTx, KeptConn, KeptWhole, DoneLeaves
  <2> QED BY <1>r, <2>3, <2>4, <2>5, <2>6, <2>7 DEF TInv
<1>4. CASE at_pc[c] = "commit"
  <2>1. /\ at_pc' = [at_pc EXCEPT ![c] = "returned"] /\ at' = at
        /\ active' = [active EXCEPT ![c] = FALSE] /\ session' = [session EXCEPT ![c] = <<>>]
        /\ database' = [database EXCEPT ![tx[c]] = @ \o session[c]]
    BY <1>s, <1>4 DEF Transactions!Succeeded, Transactions!Perform, Transactions!EndSession
  <2>3. Transactions!TypeOK'
    BY <1>t, <1>s, <1>h, <2>1 DEF TInv, Transactions!TypeOK
  <2>4. Hands' /\ Lockers'
    BY <1>h, <1>s, <2>1, TAmong
  <2>5. SessionsClean'
    BY <1>t, <1>s, <1>4, <2>1 DEF TInv, SessionsClean, Clean
  <2>6. Places'
    BY <1>t, <1>s, <1>4, <2>1 DEF TInv, Places
  <2>7. Kept'
    <3> SUFFICES ASSUME losses = 0 PROVE KeptTx' /\ KeptConn' /\ KeptWhole'
      BY <1>s DEF Kept
    <3>0. KeptTx /\ KeptConn /\ KeptWhole
      BY DEF TInv, Kept
    <3>1. /\ at_pc'[c] = "returned" /\ error[c] = "none" /\ tx[c] \notin uncommitted
          /\ \A d \in Transactions!Conn : d # c =>
               at_pc'[d] = at_pc[d] /\ session'[d] = session[d] /\ active'[d] = active[d]
      BY <1>t, <1>4, <2>1, <3>0 DEF KeptConn, Transactions!Sending
    <3>2. \A t \in Tx : t # tx[c] => database'[t] = database[t]
      BY <1>t, <1>h, <2>1
    <3>3. outcome[tx[c]] = "taken" /\ \A d \in Transactions!Conn : at_pc[d] # "idle" => tx[d] \in Tx
      BY <1>h DEF TInv, Hands
    <3>4. ASSUME tx[c] \notin unbegun PROVE database'[tx[c]] = Sent(Size[tx[c]])
      <4>1. session[c] = Sent(Size[tx[c]]) /\ database[tx[c]] = <<>>
        BY <1>s, <1>4, <3>0, <3>4 DEF KeptWhole, Transactions!Sending
      <4>2. database[tx[c]] \o session[c] = Sent(Size[tx[c]])
        BY <1>h, <4>1, SentFacts
      <4> QED BY <1>t, <1>h, <2>1, <4>2
    <3>6. KeptTx'
      BY <1>s, <3>0, <3>2, <3>3, <3>4
         DEF KeptTx, DoneLeaves
    <3>7. KeptConn'
      BY <1>s, <3>0, <3>1 DEF KeptConn, Transactions!Sending
    <3>8. KeptWhole'
      <4>0. at' = at
        BY <2>1
      <4>1. ASSUME NEW d \in Transactions!Conn, d # c, at_pc[d] # "idle"
            PROVE  database'[tx[d]] = database[tx[d]]
        BY <1>h, <3>2, <3>3, <4>1
      <4>2. ASSUME NEW d \in Transactions!Conn, d # c
            PROVE  at_pc'[d] # "idle" /\ tx'[d] \notin unbegun' =>
                     /\ at_pc'[d] \in Transactions!Sending \cup {"lock"} => database'[tx'[d]] = <<>>
                     /\ alive' /\ at_pc'[d] = "statement" =>
                          active'[d] = TRUE /\ session'[d] = Sent(at'[d] - 1)
                     /\ alive' /\ at_pc'[d] = "commit" =>
                          active'[d] = TRUE /\ session'[d] = Sent(Size[tx'[d]])
                     /\ at_pc'[d] = "returned" =>
                          database'[tx'[d]] =
                            IF error'[d] = "none"
                            THEN IF tx'[d] \in uncommitted' THEN <<>> ELSE Sent(Size[tx'[d]])
                            ELSE <<>>
        BY <1>s, <3>0, <3>1, <4>0, <4>1, <4>2 DEF KeptWhole, DoneLeaves
      <4> QED BY <1>s, <3>1, <3>4, <4>2 DEF KeptWhole, DoneLeaves, Transactions!Sending
    <3> QED BY <3>6, <3>7, <3>8
  <2> QED BY <1>r, <2>3, <2>4, <2>5, <2>6, <2>7 DEF TInv
<1> QED BY <1>s, <1>1, <1>2, <1>3, <1>4 DEF Transactions!Sending

\* A statement of which Execute returned false without anything done by the
\* server, or after it had rolled the transaction back; also one around the
\* statements, whose failure is not noticed.
LEMMA TFailed ==
  ASSUME TInv, NEW c \in Transactions!Conn, NEW code \in {"none", "deadlock", "other"},
         at_pc[c] \in Transactions!Sending,
         \/ UNCHANGED <<unbegun, uncommitted>> /\ (losses # 0 \/ (code # "none" /\ at_pc[c] = "statement"))
         \/ /\ Transactions!EndSession(c)
            /\ \/ at_pc[c] = "begin" /\ unbegun' = unbegun \cup {tx[c]} /\ UNCHANGED uncommitted
               \/ at_pc[c] = "commit" /\ uncommitted' = uncommitted \cup {tx[c]} /\ UNCHANGED unbegun,
         Transactions!Failed(c, code), UNCHANGED <<handle, losses, alive, deadlockLock, database>>,
         attempts' = [attempts EXCEPT ![c] = 0],
         \/ Transactions!EndSession(c)
         \/ ~handle[c] /\ UNCHANGED <<active, session>>
         \/ at_pc[c] = "statement" /\ UNCHANGED <<active, session>>
  PROVE  TInv'
<1>t. /\ at_pc \in [Transactions!Conn -> Transactions!Sending \cup {"idle", "lock", "returned"}]
      /\ tx \in [Transactions!Conn -> Tx \cup {NoTx}] /\ at \in [Transactions!Conn -> Nat]
      /\ error \in [Transactions!Conn -> {"none", "deadlock", "other"}]
      /\ attempts \in [Transactions!Conn -> 0..5]
      /\ active \in [Transactions!Conn -> BOOLEAN]
      /\ session \in [Transactions!Conn -> Seq(Nat)]
      /\ losses \in 0..MaxLosses
  BY TTypes
<1>h. /\ tx[c] \in Tx /\ at_pc[c] # "idle" /\ Size[tx[c]] \in Nat /\ Size[tx[c]] > 0
      /\ \A d \in Transactions!Conn : d # c => tx[d] # tx[c]
  BY TConstants DEF TInv, Hands, Places, Transactions!Sending
<1>1. PICK p \in {"statement", "commit", "rollback", "returned"} :
        /\ at_pc' = [at_pc EXCEPT ![c] = p]
        /\ UNCHANGED <<tx, tries, outcome>>
        /\ at_pc[c] = "statement" <=> p = "rollback"
        /\ p = "rollback" => error' = [error EXCEPT ![c] = code] /\ at' = at
        /\ p # "rollback" => error' = error
        /\ p = "statement" => at_pc[c] = "begin" /\ at' = at
        /\ p = "returned" => at' = at
        /\ p # "commit"
  <2>1. CASE at_pc[c] = "statement"
    BY <2>1 DEF Transactions!Failed
  <2>2. CASE at_pc[c] # "statement"
    BY <2>2 DEF Transactions!Failed, Transactions!Succeeded, Transactions!Sending
  <2> QED BY <2>1, <2>2
<1>2. /\ at' = at /\ at_pc'[c] = p
      /\ \A d \in Transactions!Conn : d # c => at_pc'[d] = at_pc[d] /\ error'[d] = error[d]
      /\ error'[c] = IF p = "rollback" THEN code ELSE error[c]
      /\ attempts'[c] = 0 /\ \A d \in Transactions!Conn : d # c => attempts'[d] = attempts[d]
  BY <1>1, <1>t
<1>3. /\ \A d \in Transactions!Conn : d # c => active'[d] = active[d] /\ session'[d] = session[d]
      /\ p # "rollback" => Clean(c)'
      /\ ~handle[c] \/ ~alive => Clean(c)'
      /\ ~active'[c] => session'[c] = <<>>
      /\ active' \in [Transactions!Conn -> BOOLEAN] /\ session' \in [Transactions!Conn -> Seq(Nat)]
  <2>1. CASE Transactions!EndSession(c)
    BY <1>t, <2>1 DEF Transactions!EndSession, Clean
  <2>2. CASE UNCHANGED <<active, session>>
    BY <1>t, <1>1, <2>2 DEF TInv, SessionsClean, Clean, Transactions!EndSession
  <2> QED BY <2>1, <2>2
<1>g. unbegun' \subseteq Tx /\ uncommitted' \subseteq Tx
  BY TTypes, <1>h
<1>4. Transactions!TypeOK'
  <2>1. error' \in [Transactions!Conn -> {"none", "deadlock", "other"}]
    BY <1>t, <1>1
  <2>2. at_pc' \in [Transactions!Conn -> Transactions!Sending \cup {"idle", "lock", "returned"}]
    BY <1>t, <1>1 DEF Transactions!Sending
  <2>3. attempts' \in [Transactions!Conn -> 0..5]
    BY <1>t
  <2> QED BY <1>1, <1>2, <1>3, <1>g, <2>1, <2>2, <2>3 DEF TInv, Transactions!TypeOK, Transactions!MaxAttempts
<1>5. Hands' /\ Lockers'
  <2>1. p \in Transactions!Sending \cup {"returned"}
    BY DEF Transactions!Sending
  <2> QED BY <1>h, <1>1, <2>1, TAmong
<1>6. SessionsClean'
  BY <1>1, <1>2, <1>3 DEF TInv, SessionsClean, Clean
<1>7. Places'
  BY <1>h, <1>1, <1>2 DEF TInv, Places
<1>8. Kept'
  <2> SUFFICES ASSUME losses = 0 PROVE KeptTx' /\ KeptConn' /\ KeptWhole'
    BY DEF Kept
  <2>0. KeptTx /\ KeptConn /\ KeptWhole
    BY DEF TInv, Kept
  <2>1. ASSUME UNCHANGED <<unbegun, uncommitted>>, code # "none", at_pc[c] = "statement"
        PROVE  KeptTx' /\ KeptConn' /\ KeptWhole'
    <3>1. p = "rollback" /\ error'[c] # "none"
      BY <1>1, <1>2, <2>1
    <3>2. KeptTx'
      <4>1. UNCHANGED <<database, outcome, unbegun, uncommitted>>
        BY <1>1, <2>1
      <4> QED BY <2>0, <4>1
              DEF KeptTx, DoneLeaves
    <3>3. KeptConn'
      BY <1>1, <1>2, <2>0, <2>1, <3>1 DEF KeptConn, Transactions!Sending
    <3>4. KeptWhole'
      BY <1>1, <1>2, <1>3, <2>0, <2>1, <3>1
         DEF KeptWhole, DoneLeaves,
             Transactions!Sending
    <3> QED BY <3>2, <3>3, <3>4
  <2>2. ASSUME \/ at_pc[c] = "begin" /\ unbegun' = unbegun \cup {tx[c]} /\ UNCHANGED uncommitted
               \/ at_pc[c] = "commit" /\ uncommitted' = uncommitted \cup {tx[c]} /\ UNCHANGED unbegun
        PROVE  KeptTx' /\ KeptConn' /\ KeptWhole'
    <3>1. /\ at_pc'[c] = IF at_pc[c] = "begin" THEN "statement" ELSE "returned"
          /\ error'[c] = error[c]
      <4>1. at_pc[c] = "begin" => p = "statement"
        BY <1>1, <1>2, <2>2 DEF Transactions!Failed, Transactions!Succeeded
      <4>2. at_pc[c] = "commit" => p = "returned"
        BY <1>1, <1>2, <2>2
      <4> QED BY <1>1, <1>2, <2>2, <4>1, <4>2
    <3>2. /\ \A t \in Tx : t # tx[c] =>
               /\ t \in unbegun' <=> t \in unbegun
               /\ t \in uncommitted' <=> t \in uncommitted
          /\ at_pc[c] = "begin" => /\ tx[c] \in unbegun'
                                   /\ tx[c] \in uncommitted' <=> tx[c] \in uncommitted
          /\ at_pc[c] = "commit" => /\ tx[c] \in uncommitted'
                                    /\ tx[c] \in unbegun' <=> tx[c] \in unbegun
      BY <1>1, <2>2
    <3>3. outcome[tx[c]] = "taken" /\ \A d \in Transactions!Conn : at_pc[d] # "idle" => tx[d] \in Tx
      BY <1>h DEF TInv, Hands
    <3>4. \A t \in Tx : t # tx[c] => DoneLeaves(t)' = DoneLeaves(t)
      BY <3>2 DEF DoneLeaves
    <3>5. KeptTx'
      BY <1>1, <2>0, <3>2, <3>3, <3>4, <2>2 DEF KeptTx
    <3>6. KeptConn'
      <4>1. \A d \in Transactions!Conn : d # c /\ at_pc[d] # "idle" =>
              (tx[d] \in uncommitted' <=> tx[d] \in uncommitted)
        BY <1>1, <1>h, <3>3, <2>2
      <4>2. at_pc'[c] = "statement" => ~(tx[c] \in uncommitted')
        BY <1>1, <2>0, <2>2, <3>1 DEF KeptConn, Transactions!Sending
      <4>3. error[c] = "none"
        BY <2>0, <2>2 DEF KeptConn
      <4>4. ASSUME NEW d \in Transactions!Conn, d # c
            PROVE  /\ handle'[d] = TRUE /\ attempts'[d] = 0
                   /\ at_pc'[d] \in {"begin", "statement", "commit"} => error'[d] = "none"
                   /\ at_pc'[d] = "rollback" => error'[d] # "none"
                   /\ at_pc'[d] = "lock" => error'[d] = "deadlock"
                   /\ at_pc'[d] \in Transactions!Sending \cup {"lock"} => ~(tx'[d] \in uncommitted')
                   /\ at_pc'[d] = "returned" /\ error'[d] # "none" => ~(tx'[d] \in uncommitted')
        BY <1>1, <1>2, <2>0, <4>1, <4>4 DEF KeptConn, Transactions!Sending
      <4>5. /\ handle'[c] = TRUE /\ attempts'[c] = 0 /\ tx'[c] = tx[c] /\ error'[c] = "none"
            /\ at_pc'[c] \in {"statement", "returned"}
        BY <1>1, <1>2, <2>0, <3>1, <4>3 DEF KeptConn
      <4> QED BY <4>2, <4>4, <4>5 DEF KeptConn, Transactions!Sending
    <3>7. KeptWhole'
      <4>1. ASSUME NEW d \in Transactions!Conn, d # c, at_pc[d] # "idle"
            PROVE  /\ tx'[d] = tx[d]
                   /\ tx[d] \in unbegun' <=> tx[d] \in unbegun
                   /\ tx[d] \in uncommitted' <=> tx[d] \in uncommitted
        BY <1>1, <1>h, <3>3, <2>2, <4>1
      <4>2. ASSUME ~(tx[c] \in unbegun')
            PROVE  /\ at_pc'[c] = "returned" /\ database[tx[c]] = <<>>
                   /\ tx[c] \in uncommitted' /\ error'[c] = "none"
        <5>1. at_pc[c] = "commit"
          BY <2>2, <4>2
        <5>2. error[c] = "none" /\ database[tx[c]] = <<>>
          BY <2>0, <2>2, <4>2, <5>1
             DEF KeptWhole, KeptConn, Transactions!Sending
        <5> QED BY <2>2, <3>1, <5>1, <5>2
      <4>3. tx'[c] = tx[c] /\ database' = database
        BY <1>1
      <4>4. ASSUME NEW d \in Transactions!Conn, d # c
            PROVE  at_pc'[d] # "idle" /\ ~(tx'[d] \in unbegun') =>
                     /\ at_pc'[d] \in Transactions!Sending \cup {"lock"} => database'[tx'[d]] = <<>>
                     /\ alive' /\ at_pc'[d] = "statement" =>
                          active'[d] = TRUE /\ session'[d] = Sent(at'[d] - 1)
                     /\ alive' /\ at_pc'[d] = "commit" =>
                          active'[d] = TRUE /\ session'[d] = Sent(Size[tx'[d]])
                     /\ at_pc'[d] = "returned" =>
                          database'[tx'[d]] =
                            IF error'[d] = "none"
                            THEN IF tx'[d] \in uncommitted' THEN <<>> ELSE Sent(Size[tx'[d]])
                            ELSE <<>>
        BY <1>1, <1>2, <1>3, <2>0, <4>1, <4>3, <4>4
           DEF KeptWhole, DoneLeaves
      <4> QED BY <4>2, <4>3, <4>4
              DEF KeptWhole, DoneLeaves,
                  Transactions!Sending
    <3> QED BY <3>5, <3>6, <3>7
  <2> QED BY <2>1, <2>2
<1>r. Reconnecting'
  BY <1>2 DEF TInv, Reconnecting
<1> QED BY <1>r, <1>4, <1>5, <1>6, <1>7, <1>8 DEF TInv

\* A session is lost, is opened again, or cannot be.
LEMMA TLose ==
  ASSUME TInv, NEW c \in Transactions!Conn, Transactions!Lose(c)
  PROVE  TInv'
<1>t. /\ at_pc \in [Transactions!Conn -> Transactions!Sending \cup {"idle", "lock", "returned"}]
      /\ tx \in [Transactions!Conn -> Tx \cup {NoTx}] /\ at \in [Transactions!Conn -> Nat]
      /\ handle \in [Transactions!Conn -> BOOLEAN] /\ attempts \in [Transactions!Conn -> 0..5]
      /\ active \in [Transactions!Conn -> BOOLEAN]
      /\ session \in [Transactions!Conn -> Seq(Nat)] /\ database \in [Tx -> Seq(Nat)]
      /\ losses \in 0..MaxLosses /\ MaxLosses \in Nat
  BY TTypes, TConstants
<1>s. /\ alive /\ at_pc[c] \in Transactions!Sending /\ losses < MaxLosses /\ losses' = losses + 1
      /\ UNCHANGED <<at_pc, tx, at, error, tries, outcome, deadlockLock, alive, unbegun, uncommitted>>
      /\ active' = [active EXCEPT ![c] = FALSE] /\ session' = [session EXCEPT ![c] = <<>>]
      /\ handle' = [handle EXCEPT ![c] = FALSE] /\ attempts' = [attempts EXCEPT ![c] = 5]
      /\ \/ UNCHANGED database
         \/ database' = [database EXCEPT ![tx[c]] = @ \o session[c]]
         \/ database' = [database EXCEPT ![tx[c]] = Append(@, at[c])]
  BY DEF Transactions!Lose, Transactions!Connected, Transactions!EndSession, Transactions!client,
         Transactions!MaxAttempts
<1>1. database' \in [Tx -> Seq(Nat)]
  <2>1. tx[c] \in Tx
    BY <1>s DEF TInv, Hands, Transactions!Sending
  <2>2. database[tx[c]] \o session[c] \in Seq(Nat) /\ Append(database[tx[c]], at[c]) \in Seq(Nat)
    BY <1>t, <2>1
  <2> QED BY <1>t, <1>s, <2>2
<1>2. Transactions!TypeOK'
  BY <1>t, <1>s, <1>1 DEF TInv, Transactions!TypeOK, Transactions!MaxAttempts
<1>3. Hands' /\ Places'
  BY <1>s DEF TInv, Hands, Places
<1>4. Lockers'
  BY <1>s DEF TInv, Lockers
<1>5. SessionsClean'
  BY <1>t, <1>s DEF TInv, SessionsClean, Clean
<1>6. Kept'
  BY <1>t, <1>s DEF Kept, KeptTx, KeptConn, KeptWhole, DoneLeaves
<1>r. Reconnecting'
  BY <1>t, <1>s DEF TInv, Reconnecting
<1> QED BY <1>r, <1>2, <1>3, <1>4, <1>5, <1>6 DEF TInv

\* Reconnecting.
LEMMA TReconnect ==
  ASSUME TInv, NEW c \in Transactions!Conn, Transactions!Reconnect(c)
  PROVE  TInv'
<1>t. /\ handle \in [Transactions!Conn -> BOOLEAN] /\ attempts \in [Transactions!Conn -> 0..5]
  BY TTypes
<1>s. /\ attempts[c] > 0
      /\ handle' = [handle EXCEPT ![c] = TRUE] /\ attempts' = [attempts EXCEPT ![c] = 0]
      /\ UNCHANGED <<at_pc, tx, at, error, tries, outcome, losses, alive, deadlockLock,
                     active, session, database, unbegun, uncommitted>>
  BY DEF Transactions!Reconnect, Transactions!client, Transactions!server
<1>2. Transactions!TypeOK'
  BY <1>t, <1>s DEF TInv, Transactions!TypeOK, Transactions!MaxAttempts
<1>3. Hands' /\ Places'
  BY <1>s DEF TInv, Hands, Places
<1>4. Lockers'
  BY <1>s DEF TInv, Lockers
<1>5. SessionsClean'
  BY <1>t, <1>s DEF TInv, SessionsClean, Clean
<1>6. Kept'
  BY <1>t, <1>s DEF TInv, Kept, KeptTx, KeptConn, KeptWhole, DoneLeaves
<1>r. Reconnecting'
  BY <1>t, <1>s DEF TInv, Reconnecting
<1> QED BY <1>r, <1>2, <1>3, <1>4, <1>5, <1>6 DEF TInv

\* The process dies, by itself or because the server stays out of reach.
LEMMA TDie ==
  ASSUME TInv, Transactions!Die,
         UNCHANGED <<at_pc, tx, at, error, tries, outcome, handle, attempts, losses, deadlockLock, database,
                   unbegun, uncommitted>>
  PROVE  TInv'
<1>s. /\ alive' = FALSE
      /\ active' = [c \in Transactions!Conn |-> FALSE] /\ session' = [c \in Transactions!Conn |-> <<>>]
  BY DEF Transactions!Die
<1>2. Transactions!TypeOK'
  <2>1. active' \in [Transactions!Conn -> BOOLEAN] /\ alive' \in BOOLEAN
    BY <1>s
  <2>2. session' \in [Transactions!Conn -> Seq(Nat)]
    BY <1>s
  <2> QED BY <2>1, <2>2 DEF TInv, Transactions!TypeOK
<1>3. Hands' /\ Places'
  BY DEF TInv, Hands, Places
<1>4. Lockers'
  BY DEF TInv, Lockers
<1>5. SessionsClean'
  BY <1>s DEF TInv, SessionsClean, Clean
<1>6. Kept'
  BY <1>s DEF TInv, Kept, KeptTx, KeptConn, KeptWhole, DoneLeaves
<1>r. Reconnecting'
  BY DEF TInv, Reconnecting
<1> QED BY <1>r, <1>2, <1>3, <1>4, <1>5, <1>6 DEF TInv

\* The host stays away.
LEMMA THostUnreachable ==
  ASSUME TInv, NEW c \in Transactions!Conn, Transactions!HostUnreachable(c)
  PROVE  TInv'
<1>1. CASE Transactions!Die /\ UNCHANGED attempts
  BY <1>1, TDie DEF Transactions!HostUnreachable, Transactions!client
<1>2. CASE attempts' = [attempts EXCEPT ![c] = @ - 1] /\ UNCHANGED <<alive, active, session>>
  <2>1. attempts \in [Transactions!Conn -> 0..5] /\ attempts[c] > 0
    BY TTypes DEF Transactions!HostUnreachable
  <2>2. UNCHANGED <<at_pc, tx, at, error, tries, outcome, handle, losses, deadlockLock, database,
                    unbegun, uncommitted>>
    BY DEF Transactions!HostUnreachable, Transactions!client
  <2>3. Transactions!TypeOK'
    BY <1>2, <2>1, <2>2 DEF TInv, Transactions!TypeOK, Transactions!MaxAttempts
  <2>4. Hands' /\ Places'
    BY <2>2 DEF TInv, Hands, Places
  <2>5. Lockers'
    BY <2>2 DEF TInv, Lockers
  <2>6. SessionsClean'
    BY <1>2, <2>2 DEF TInv, SessionsClean, Clean
  <2>7. Kept'
    BY <1>2, <2>1, <2>2 DEF TInv, Kept, KeptTx, KeptConn, KeptWhole, DoneLeaves
  <2>8. Reconnecting'
    BY <1>2, <2>1, <2>2 DEF TInv, Reconnecting
  <2> QED BY <2>8, <2>3, <2>4, <2>5, <2>6, <2>7 DEF TInv
<1> QED BY <1>1, <1>2 DEF Transactions!HostUnreachable

\* The transaction is done or given up: the connection is free again.
LEMMA TFinish ==
  ASSUME TInv, NEW c \in Transactions!Conn, at_pc[c] = "returned", NEW what \in {"done", "dropped"},
         what = "done" <=> error[c] = "none", Transactions!Finish(c, what)
  PROVE  TInv'
<1>t. /\ at_pc \in [Transactions!Conn -> Transactions!Sending \cup {"idle", "lock", "returned"}]
      /\ tx \in [Transactions!Conn -> Tx \cup {NoTx}]
      /\ tries \in [Transactions!Conn -> 0..9] /\ deadlockLock \in Async \cup {NoConn}
      /\ outcome \in [Tx -> {"pending", "taken", "done", "dropped"}]
  BY TTypes
<1>s. /\ outcome' = [outcome EXCEPT ![tx[c]] = what] /\ at_pc' = [at_pc EXCEPT ![c] = "idle"]
      /\ tx' = [tx EXCEPT ![c] = NoTx] /\ tries' = [tries EXCEPT ![c] = 0]
      /\ deadlockLock' = IF deadlockLock = c THEN NoConn ELSE deadlockLock
      /\ UNCHANGED <<at, error, handle, attempts, losses, alive, active, session, database,
                     unbegun, uncommitted>>
  BY DEF Transactions!Finish, Transactions!ReleaseLock, Transactions!link, Transactions!server
<1>h. /\ tx[c] \in Tx /\ \A d \in Transactions!Conn : d # c => tx[d] # tx[c]
  BY TConstants DEF TInv, Hands
<1>p. /\ tx'[c] = NoTx /\ at_pc'[c] = "idle" /\ tries'[c] = 0 /\ outcome'[tx[c]] = what
      /\ \A d \in Transactions!Conn : d # c => tx'[d] = tx[d] /\ at_pc'[d] = at_pc[d] /\ tries'[d] = tries[d]
      /\ \A t \in Tx : t # tx[c] => outcome'[t] = outcome[t]
  BY <1>t, <1>s, <1>h
<1>2. Transactions!TypeOK'
  <2>1. /\ outcome' \in [Tx -> {"pending", "taken", "done", "dropped"}]
        /\ tx' \in [Transactions!Conn -> Tx \cup {NoTx}]
    BY <1>t, <1>s, <1>h
  <2>2. /\ at_pc' \in [Transactions!Conn -> Transactions!Sending \cup {"idle", "lock", "returned"}]
        /\ tries' \in [Transactions!Conn -> 0..9] /\ deadlockLock' \in Async \cup {NoConn}
    BY <1>t, <1>s
  <2> QED BY <1>s, <2>1, <2>2 DEF TInv, Transactions!TypeOK
<1>3. Hands'
  BY <1>h, <1>p, TConstants DEF TInv, Hands
<1>4. Lockers'
  BY <1>t, <1>s, <1>p, TConstants DEF TInv, Lockers
<1>5. SessionsClean'
  BY <1>s, <1>p DEF TInv, SessionsClean, Clean
<1>6. Places'
  BY <1>s, <1>p DEF TInv, Places
<1>7. Kept'
  <2> SUFFICES ASSUME losses = 0 PROVE KeptTx' /\ KeptConn' /\ KeptWhole'
    BY <1>s DEF Kept
  <2>0. KeptTx /\ KeptConn /\ KeptWhole
    BY DEF TInv, Kept
  <2>1. tx[c] \notin unbegun =>
          database[tx[c]] = IF what = "done" THEN DoneLeaves(tx[c]) ELSE <<>>
    BY <2>0 DEF KeptWhole
  <2>2. KeptTx'
    BY <1>s, <1>h, <1>p, <2>0, <2>1
       DEF KeptTx, DoneLeaves
  <2>3. KeptConn'
    BY <1>s, <1>p, <2>0 DEF KeptConn, Transactions!Sending
  <2>4. KeptWhole'
    BY <1>s, <1>p, <2>0 DEF KeptWhole, DoneLeaves
  <2> QED BY <2>2, <2>3, <2>4
<1>r. Reconnecting'
  BY <1>s, <1>p DEF TInv, Reconnecting, Transactions!Sending
<1> QED BY <1>r, <1>2, <1>3, <1>4, <1>5, <1>6, <1>7 DEF TInv

\* After a deadlock an asynchronous connection waits for the lock.
LEMMA TAwaitLock ==
  ASSUME TInv, NEW c \in Transactions!Conn, Transactions!AwaitLock(c)
  PROVE  TInv'
<1>t. at_pc \in [Transactions!Conn -> Transactions!Sending \cup {"idle", "lock", "returned"}]
  BY TTypes
<1>s. /\ at_pc[c] = "returned" /\ error[c] = "deadlock" /\ tries[c] = 0 /\ c \in Async
      /\ at_pc' = [at_pc EXCEPT ![c] = "lock"]
      /\ UNCHANGED <<tx, at, error, tries, outcome, handle, attempts, losses, alive, deadlockLock,
                     active, session, database, unbegun, uncommitted>>
  BY DEF Transactions!AwaitLock, Transactions!Returned, Transactions!link, Transactions!server
<1>2. Transactions!TypeOK'
  BY <1>t, <1>s DEF TInv, Transactions!TypeOK
<1>3. Hands' /\ Places'
  BY <1>t, <1>s DEF TInv, Hands, Places
<1>4. Lockers'
  BY <1>t, <1>s DEF TInv, Lockers
<1>5. SessionsClean'
  BY <1>t, <1>s DEF TInv, SessionsClean, Clean
<1>6. Kept'
  BY <1>t, <1>s DEF TInv, Kept, KeptTx, KeptConn, KeptWhole, DoneLeaves
<1>r. Reconnecting'
  BY <1>t, <1>s DEF TInv, Reconnecting, Transactions!Sending
<1> QED BY <1>r, <1>2, <1>3, <1>4, <1>5, <1>6 DEF TInv

\* The transaction is executed again from its beginning.
LEMMA TAgain ==
  ASSUME TInv, NEW c \in Transactions!Conn, Transactions!Again(c),
         at_pc[c] \in {"returned", "lock"}, at_pc[c] = "returned" => error[c] # "none",
         tries[c] < Transactions!LoopBreaker(c),
         \/ c \in Async /\ deadlockLock = NoConn /\ deadlockLock' = c
         \/ (c \in Async => tries[c] > 0) /\ UNCHANGED deadlockLock
  PROVE  TInv'
<1>t. /\ at_pc \in [Transactions!Conn -> Transactions!Sending \cup {"idle", "lock", "returned"}]
      /\ tx \in [Transactions!Conn -> Tx \cup {NoTx}] /\ at \in [Transactions!Conn -> Nat]
      /\ error \in [Transactions!Conn -> {"none", "deadlock", "other"}]
      /\ tries \in [Transactions!Conn -> 0..9] /\ deadlockLock \in Async \cup {NoConn}
  BY TTypes
<1>h. /\ tx[c] \in Tx /\ Size[tx[c]] \in Nat /\ Transactions!LoopBreaker(c) \in 5..9
      /\ \A d \in Transactions!Conn : d # c => tx[d] # tx[c]
  BY TConstants DEF TInv, Hands
<1>s. /\ tries' = [tries EXCEPT ![c] = @ + 1] /\ at' = [at EXCEPT ![c] = 1]
      /\ error' = [error EXCEPT ![c] = "none"]
      /\ at_pc' = [at_pc EXCEPT ![c] = IF Size[tx[c]] = 0 THEN "returned" ELSE "begin"]
      /\ UNCHANGED <<tx, outcome, handle, attempts, losses, alive, active, session, database,
                     unbegun, uncommitted>>
  BY DEF Transactions!Again, Transactions!Entry, Transactions!link, Transactions!server
<1>p. /\ tries'[c] = tries[c] + 1 /\ at'[c] = 1 /\ error'[c] = "none"
      /\ at_pc'[c] = IF Size[tx[c]] = 0 THEN "returned" ELSE "begin"
      /\ \A d \in Transactions!Conn : d # c =>
           at_pc'[d] = at_pc[d] /\ tries'[d] = tries[d] /\ at'[d] = at[d] /\ error'[d] = error[d]
  BY <1>t, <1>s
<1>2. Transactions!TypeOK'
  <2>1. at_pc' \in [Transactions!Conn -> Transactions!Sending \cup {"idle", "lock", "returned"}]
    BY <1>t, <1>s DEF Transactions!Sending
  <2>2. tries' \in [Transactions!Conn -> 0..9] /\ at' \in [Transactions!Conn -> Nat]
    BY <1>t, <1>h, <1>s
  <2> QED BY <1>t, <1>s, <2>1, <2>2 DEF TInv, Transactions!TypeOK
<1>3. Hands'
  BY <1>s, <1>p DEF TInv, Hands
<1>4. Lockers'
  BY <1>t, <1>h, <1>p, TConstants DEF TInv, Lockers
<1>5. SessionsClean'
  BY <1>s, <1>p DEF TInv, SessionsClean, Clean
<1>6. Places'
  BY <1>s, <1>h, <1>p DEF TInv, Places
<1>7. Kept'
  <2> SUFFICES ASSUME losses = 0 PROVE KeptTx' /\ KeptConn' /\ KeptWhole'
    BY <1>s DEF Kept
  <2>0. KeptTx /\ KeptConn /\ KeptWhole
    BY DEF TInv, Kept
  <2>1. /\ tx[c] \notin uncommitted
        /\ tx[c] \notin unbegun => database[tx[c]] = <<>>
    BY <2>0 DEF KeptConn, KeptWhole
  <2>2. Size[tx[c]] = 0 => Sent(Size[tx[c]]) = <<>>
    BY SentFacts
  <2>3. KeptTx'
    BY <1>s, <2>0 DEF KeptTx, DoneLeaves
  <2>4. KeptConn'
    BY <1>s, <1>p, <2>0, <2>1 DEF KeptConn, Transactions!Sending
  <2>5. KeptWhole'
    BY <1>s, <1>p, <2>0, <2>1, <2>2
       DEF KeptWhole, DoneLeaves,
           Transactions!Sending
  <2> QED BY <2>3, <2>4, <2>5
<1>r. Reconnecting'
  BY <1>s, <1>p DEF TInv, Reconnecting, Transactions!Sending
<1> QED BY <1>r, <1>2, <1>3, <1>4, <1>5, <1>6, <1>7 DEF TInv

\* Each step of a connection, and of what surrounds it, keeps the invariant.
LEMMA TStep == TInv /\ [Transactions!Next]_Transactions!vars => TInv'
<1> SUFFICES ASSUME TInv, [Transactions!Next]_Transactions!vars PROVE TInv'
  OBVIOUS
<1>1. ASSUME NEW c \in Transactions!Conn, Transactions!Step(c) PROVE TInv'
  <2>t. /\ attempts \in [Transactions!Conn -> 0..5] /\ tries[c] \in 0..9
        /\ error[c] \in {"none", "deadlock", "other"}
    BY TTypes
  <2>n. losses = 0 => handle[c] = TRUE /\ attempts[c] = 0
    BY DEF TInv, Kept, KeptTx, KeptConn, KeptWhole, DoneLeaves
  <2>a. attempts = [attempts EXCEPT ![c] = attempts[c]]
    BY <2>t
  <2>r. handle[c] => attempts[c] = 0
    BY <2>t DEF TInv, Reconnecting
  <2>1. CASE Transactions!Execute(c)
    BY <2>1, TExecute
  <2>2. CASE Transactions!Deadlock(c)
    <3>1. /\ at_pc[c] = "statement" /\ at_pc[c] \in Transactions!Sending
          /\ handle[c]
          /\ Transactions!EndSession(c) /\ Transactions!Failed(c, "deadlock")
          /\ UNCHANGED <<handle, attempts, losses, alive, deadlockLock, database, unbegun, uncommitted>>
      BY <2>2 DEF Transactions!Deadlock, Transactions!Connected, Transactions!link
    <3>2. attempts' = [attempts EXCEPT ![c] = 0]
      BY <3>1, <2>a, <2>r
    <3> QED BY <3>1, <3>2, TFailed
  <2>3. CASE Transactions!StatementError(c)
    <3>1. /\ at_pc[c] = "statement" /\ at_pc[c] \in Transactions!Sending
          /\ handle[c] /\ Transactions!Failed(c, "other")
          /\ UNCHANGED <<handle, attempts, losses, alive, deadlockLock, active, session, database,
                         unbegun, uncommitted>>
      BY <2>3 DEF Transactions!StatementError, Transactions!Connected, Transactions!link,
                  Transactions!server
    <3>2. attempts' = [attempts EXCEPT ![c] = 0]
      BY <3>1, <2>a, <2>r
    <3> QED BY <3>1, <3>2, TFailed
  <2>13. CASE Transactions!ControlError(c)
    <3>1. /\ at_pc[c] \in Transactions!Sending /\ handle[c]
          /\ Transactions!EndSession(c) /\ Transactions!Failed(c, "other")
          /\ \/ at_pc[c] = "begin" /\ unbegun' = unbegun \cup {tx[c]} /\ UNCHANGED uncommitted
             \/ at_pc[c] = "commit" /\ uncommitted' = uncommitted \cup {tx[c]} /\ UNCHANGED unbegun
          /\ UNCHANGED <<handle, attempts, losses, alive, deadlockLock, database>>
      BY <2>13 DEF Transactions!ControlError, Transactions!Connected, Transactions!link
    <3>2. attempts' = [attempts EXCEPT ![c] = 0]
      BY <3>1, <2>a, <2>r
    <3> QED BY <3>1, <3>2, TFailed
  <2>4. CASE Transactions!ExecuteWithoutHandle(c)
    <3>1. /\ at_pc[c] \in Transactions!Sending /\ ~handle[c] /\ attempts[c] = 0
          /\ \E code \in {"none", "other"} : Transactions!Failed(c, code)
          /\ UNCHANGED <<handle, attempts, losses, alive, deadlockLock, active, session, database,
                         unbegun, uncommitted>>
      BY <2>4 DEF Transactions!ExecuteWithoutHandle, Transactions!link, Transactions!server
    <3>2. attempts' = [attempts EXCEPT ![c] = 0]
      BY <3>1, <2>a
    <3>3. losses # 0
      BY <2>n, <3>1
    <3>4. PICK code \in {"none", "other"} : Transactions!Failed(c, code)
      BY <3>1
    <3>5. /\ code \in {"none", "deadlock", "other"}
          /\ UNCHANGED <<handle, losses, alive, deadlockLock, database, unbegun, uncommitted>>
          /\ ~handle[c] /\ UNCHANGED <<active, session>>
      BY <3>1, <3>2, <3>4
    <3> QED BY <3>1, <3>2, <3>3, <3>4, <3>5, TFailed
  <2>5. CASE Transactions!Reconnect(c)
    BY <2>5, TReconnect
  <2>6. CASE Transactions!HostUnreachable(c)
    BY <2>6, THostUnreachable
  <2>7. CASE Transactions!Refused(c)
    <3>1. /\ attempts[c] > 0 /\ attempts' = [attempts EXCEPT ![c] = 0]
          /\ \E code \in {"none", "other"} : Transactions!Failed(c, code)
          /\ UNCHANGED <<handle, losses, alive, deadlockLock, active, session, database,
                         unbegun, uncommitted>>
      BY <2>7 DEF Transactions!Refused, Transactions!server
    <3>2. ~handle[c] /\ at_pc[c] \in Transactions!Sending /\ losses # 0
      BY <2>n, <2>r, <3>1 DEF TInv, Reconnecting
    <3>4. PICK code \in {"none", "other"} : Transactions!Failed(c, code)
      BY <3>1
    <3>5. /\ code \in {"none", "deadlock", "other"}
          /\ UNCHANGED <<handle, losses, alive, deadlockLock, database, unbegun, uncommitted>>
          /\ ~handle[c] /\ UNCHANGED <<active, session>>
      BY <3>1, <3>2, <3>4
    <3> QED BY <3>1, <3>2, <3>4, <3>5, TFailed
  <2>8. CASE Transactions!Done(c)
    BY <2>8, TFinish DEF Transactions!Done, Transactions!Returned
  <2>9. CASE Transactions!GiveUp(c)
    BY <2>9, TFinish DEF Transactions!GiveUp, Transactions!Returned
  <2>10. CASE Transactions!AwaitLock(c)
    BY <2>10, TAwaitLock
  <2>11. CASE Transactions!AcquireLock(c)
    <3>1. /\ at_pc[c] = "lock" /\ deadlockLock = NoConn /\ deadlockLock' = c /\ Transactions!Again(c)
      BY <2>11 DEF Transactions!AcquireLock
    <3>2. tries[c] = 0 /\ c \in Async /\ Transactions!LoopBreaker(c) \in 5..9
      BY <3>1, TConstants DEF TInv, Lockers
    <3> QED BY <3>1, <3>2, TAgain
  <2>12. CASE Transactions!Retry(c)
    <3>1. /\ at_pc[c] = "returned" /\ error[c] # "none" /\ Transactions!Again(c) /\ UNCHANGED deadlockLock
          /\ IF tries[c] = 0 THEN c \in Synch ELSE tries[c] < Transactions!LoopBreaker(c)
      BY <2>12 DEF Transactions!Retry, Transactions!Returned
    <3>2. tries[c] < Transactions!LoopBreaker(c) /\ (c \in Async => tries[c] > 0)
      BY <2>t, <3>1, TConstants
    <3> QED BY <3>1, <3>2, TAgain
  <2> QED BY <1>1, <2>1, <2>2, <2>3, <2>4, <2>5, <2>6, <2>7, <2>8, <2>9, <2>10, <2>11, <2>12, <2>13
          DEF Transactions!Step
<1>2. CASE Transactions!Crash
  BY <1>2, TDie DEF Transactions!Crash, Transactions!client
<1>3. CASE UNCHANGED Transactions!vars
  <2>1. UNCHANGED <<at_pc, tx, at, error, tries, outcome, handle, attempts, losses, alive,
                    deadlockLock, active, session, database, unbegun, uncommitted>>
    BY <1>3 DEF Transactions!vars, Transactions!client, Transactions!link, Transactions!server
  <2>2. Transactions!TypeOK' /\ Hands' /\ Places' /\ Lockers' /\ Reconnecting'
    BY <2>1 DEF TInv, Transactions!TypeOK, Hands, Places, Lockers, Reconnecting
  <2>3. SessionsClean' /\ Kept'
    BY <2>1 DEF TInv, SessionsClean, Clean, Kept, KeptTx, KeptConn, KeptWhole, DoneLeaves
  <2> QED BY <2>2, <2>3 DEF TInv
<1> QED BY <1>1, <1>2, <1>3, TLose, TStart DEF Transactions!Next, Transactions!Ended

\* The invariant of transactions on their connections holds for every number
\* of connections, transactions, statements, losses and retries.
THEOREM TransactionsInvariant == Transactions!Spec => []TInv
BY TInit, TStep, PTL DEF Transactions!Spec

\* DatabaseWorkerPool.h promises that a transaction is done or not.  As long as
\* no session is lost it is so of each whose START TRANSACTION never failed, and
\* what is reported of it is true unless its COMMIT failed: that error, which
\* CommitTransaction drops, is the one lie, and leaves nothing durable.
THEOREM TransactionsAreAtomic == Transactions!Spec => []AllOrNothing
<1>1. TInv => AllOrNothing
  <2>1. \A t \in Tx : Transactions!All(t) = Sent(Size[t])
    BY DEF Transactions!All, Sent
  <2> QED BY <2>1 DEF TInv, Kept, KeptTx, DoneLeaves, AllOrNothing, Transactions!AllOrNothing
<1> QED BY <1>1, TransactionsInvariant, PTL

\* A connection is handed on outside any transaction and without the lock of
\* those who retry, which one of them holds.
THEOREM ConnectionsAreHandedOnClean == Transactions!Spec => []CleanHandover
<1>1. ASSUME TInv PROVE CleanHandover
  <2>1. Transactions!OneRetrier
    BY <1>1 DEF TInv, Lockers, Transactions!OneRetrier
  <2>2. \A c \in Transactions!Conn : at_pc[c] \in {"idle", "lock"} => ~active[c] /\ session[c] = <<>>
    BY <1>1 DEF TInv, SessionsClean, Clean
  <2>3. deadlockLock # NoConn => at_pc[deadlockLock] # "idle"
    <3>1. deadlockLock # NoConn => deadlockLock \in Async /\ tries[deadlockLock] > 0
      BY <1>1, TTypes DEF TInv, Lockers
    <3> QED BY <1>1, <3>1, TConstants DEF TInv, Lockers
  <2> QED BY <2>1, <2>2, <2>3 DEF CleanHandover, Transactions!CleanHandover
<1> QED BY <1>1, TransactionsInvariant, PTL

-----------------------------------------------------------------------------
(* The whole *)

\* Whatever the three parts do side by side, their variables keep their types.
THEOREM DatabaseTypes == Spec /\ Transactions!Spec /\ Synchronous!Spec => []TypesOK
<1>1. SInv => Synchronous!TypeOK
  BY DEF SInv
<1>2. TInv => Transactions!TypeOK
  BY DEF TInv
<1>3. TypeOK /\ Transactions!TypeOK /\ Synchronous!TypeOK => TypesOK
  BY DEF TypesOK
<1> QED BY <1>1, <1>2, <1>3, TypeCorrect, SynchInvariant, TransactionsInvariant, PTL
=============================================================================
