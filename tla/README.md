# Verification of Sirion

Sirion is a TrinityCore-derived server for an online game: a *worldserver*
that runs the game and an *authserver* that checks logins. Both are C++ programs
on one database layer and one network layer. This project holds TLA+ models of
the parts whose correctness depends on the order in which threads, clients and
the database act, the TLC runs that check them on small instances, and proofs,
checked by TLAPS, of the results that hold for every size.

Paths below are relative to `src/src/` unless they say otherwise.

- [Inventory](#inventory)
- [Modules](#modules) and how they correspond to the code
- [Runs](#runs), bounds and fairness
- [What the code does not keep](#what-the-code-does-not-keep)
- [Proofs](#proofs)
- [What is not modelled](#what-is-not-modelled)
- [Plan](#plan)

How to run them, in this directory:

    tlc -workers 2 -config MCDatabase.cfg MCDatabase
    tlapm WorldSessions_proofs.tla

`PROJECT.json` lists every run with its module, its configuration and the
properties it checks, every definition with the lines it translates, and for
each property of a passing run a mutant: a plausible bug, defined just before
the definition it distorts, with which TLC finds that property violated.

## Inventory

### Threads and how they meet

| thread | runs | meets the others through |
|---|---|---|
| main (worldserver) | `WorldUpdateLoop`: `World::Update`, hence sessions, maps, query callbacks | everything below |
| network threads | `NetworkThread::Run`: sockets of their own, `WorldSocket` | `addSessQueue` (LockedQueue), `_recvQueue` of a session, `CloseSocket` |
| database workers | `DatabaseWorker::WorkerThread`, one per asynchronous connection | the pool's ProducerConsumerQueue, promises |
| map updaters | `MapUpdater::WorkerThread` | a ProducerConsumerQueue, the barrier `wait` |
| console, RA, SOAP, IRC | commands | `cliCmdQueue` (IRC: nothing at all) |

### Components

*State* is what outlives a call; *hard* is what a test would hardly reach.

| component (source) | state | operations | interacts with | hard | correct if |
|---|---|---|---|---|---|
| **Asynchronous pool** (`server/database/Database/DatabaseWorkerPool`, `DatabaseWorker`, `common/Threading/ProducerConsumerQueue.h`, `DatabaseLoader`) | queue, shutdown flag, worker threads and their tokens, connections | Open, Execute/AsyncQuery/DelayQueryHolder/CommitTransaction, Close, destructor | everybody that saves or queries | condition variable, token read outside the lock, Open that fails half-way, Close during work | one owner per operation, none lost before Close, no lost wakeup, order, Close returns |
| **MySQL connection and transactions** (`MySQLConnection`, `Transaction`) | session, handle, retry lock | ExecuteTransaction, retries, reconnection | workers, direct callers, MySQL | deadlocks, lost sessions before or after a statement was performed, crash | all or nothing, reported truly, handed over clean |
| **Query callbacks** (`QueryCallback`, `QueryCallbackProcessor`) | list of chains, one future each | AddQuery, SetNextQuery, ProcessReadyQueries | workers set the promises | callbacks that add chains during the pass | none lost or stuck, one callback per result |
| **Synchronous connections** (`DatabaseWorkerPool::GetFreeConnection`, `KeepAlive`) | a try-lock per connection | Query, DirectExecute, KeepAlive | all threads | spinning without a queue, uint8 index | one user at a time, spinning ends |
| **World sessions and the login queue** (`server/game/World/World.cpp`, `Server/WorldSession.cpp`, `Handlers/CharacterHandler.cpp`) | `addSessQueue`, `m_sessions`, `m_QueuedPlayer`, `m_disconnects`, flags of each session | AddSession(_), UpdateSessions, RemoveQueuedPlayer, KickPlayer, KickAll, SetPlayerAmountLimit, login, logout | network threads, query callbacks | relogin while queued, in the world or loading; sockets that close at any moment; shutdown | no dangling pointer, limit kept, no idle slot, fair queue, nobody left in the world |
| **Network threads and sockets** (`server/shared/Networking`) | sockets of a thread, write queue, counters | AddSocket, Update, CloseSocket, DelayedCloseSocket, HandleQueue | WorldSocket, AuthSession, RASession | close while reading or writing, delayed close, failed writes | bytes in order, every socket removed and counted once, the client told of a rejection |
| **WorldSocket** (`game/Server/WorldSocket`) | session pointer, query callbacks | authentication, creation of the session | sockets, callbacks, World | disconnect between two callbacks, pointer shared by two threads | a session belongs to one socket, none leaks |
| **MPSCQueue** (`common/Threading/MPSCQueue.h`) | linked list | Enqueue, Dequeue | what a socket sends | exchange and link are two steps | each element once, per-producer order, no freed node touched |
| **Packet dispatch** (`WorldSession::Update`, `LockedQueue.h`) | `_recvQueue` | Update with two filters, requeueing | network, map updaters | requeueing to the front, cap per update | in order, in the right thread, none stuck behind what one update puts back |
| **Map updating** (`game/Maps/MapUpdater`, `MapManager`, `MapInstanced`) | request queue, count of pending requests | schedule_update, wait, deactivate | world's thread | nested scheduling, token after pop | barrier exact, wait returns |
| **Shutdown countdown, timers** (`World.cpp`) | timer, mask, exit code | ShutdownServ, ShutdownCancel | console, IRC bridge | idle option, overdue timer, a thread without a lock | stops as announced, and then does |
| **Authentication server** (`server/authserver`) | state of a login | five commands, query callbacks | sockets, callbacks, the account table | commands while a query runs, two connections of an account | one query at a time, the key is there for the world server |
| **Event processor** (`common/Utilities/EventProcessor`) | ordered events | AddEvent, ModifyEventTime, Update, KillAllEvents | units, battlegrounds, spells | events changing the queue they run from | each event ends once, none used after deletion, Update returns |
| **Trades** (`Handlers/TradeHandler.cpp`, `TradeData`) | two TradeData pointing at each other | the trade opcodes, TradeCancel | bags, money, logout | offers that change behind an acceptance, items that vanish | what is exchanged was accepted by both, none of it lost or doubled |
| **Auctions** (`AuctionHouseMgr`, `AuctionHouseHandler`) | auctions, pending deposits | sell, bid, buy out, cancel, expire, settle deposits | players, mail, database | delayed deposits against everything else | items conserved, and money but for deposits not paid when due |
| **Battleground queues** (`Battlegrounds/BattlegroundQueue`, `BattlegroundMgr`) | queued players, invitations, free slots | join, invite, enter, decline, remove | event processor, battlegrounds | remove events against answers and second invitations | capacity, counters exact, full time to answer |
| Mail, guild bank, auction house bot | items and money in transit | sending, returning, depositing | players, database | several saves | items and money conserved |
| Battlegrounds, arenas, cross-faction addition | players and scores, factions swapped | start, end, leave | queues | leaving while ending | everyone gets back |
| Dungeon finder, groups, instance saves, spawn pools | states of players and groups | proposals, rolls, binding, spawning | players, maps | answers racing timeouts, restored states | states agree with each other |
| IRC bridge (`game/TriniChat`) | connection, map of nicknames | commands, chat | world, without locks | everything | - |
| Console, start and stop, logging | command queue, appenders | - | world's loop | order at shutdown | - |
| Objects, spells, AI, maps, chat, quests, Warden, collision, cryptography, tools | game data | game rules | on the world's thread | - | - |

A name in bold has a module.

Each has an entry in `PROJECT.json` under `components`, with its sources and
whether it is modelled; `hazards` lists what can go wrong where, and the
properties that watch it.

## Modules

| module | models | extends / uses |
|---|---|---|
| `AsyncExecution` | what the pool promises its callers | - |
| `DatabaseWorkerPool` | queue, workers, Open, Close, destructors | implements `AsyncExecution` |
| `MySQLConnection` | transactions, retries, reconnection, the server's sessions | - |
| `QueryCallbackProcessor` | chains of queries and their callbacks | its fairness is the pool's liveness |
| `SynchConnections` | GetFreeConnection, KeepAlive | - |
| `WorldSessions` | admission, queue, updates, end of sessions | query callbacks as its "callbacks" step |
| `Sockets` | a network thread's sockets | - |
| `WorldSocket` | a client's connection, its queries and its session | extends `Sockets`; hands over to `WorldSessions` |
| `MPSCQueue` | the lock-free queue under what a socket sends | `Sockets` takes it as a sequence |
| `PacketDispatch` | one session's packets, parameterised by thread | - |
| `MapUpdater` | requests, map threads, barrier, end | - |
| `WorldUpdate` | world's loop: sessions, then maps, then the end | extends `PacketDispatch`, instantiates `MapUpdater` |
| `Shutdown` | countdown, cancellation, the IRC bridge's thread | - |
| `AuthSession` | logins and reconnections at the authserver | - |
| `EventProcessor` | timed events that change their own queue | - |
| `BattlegroundQueue` | queueing, invitations, remove events | its events are those of `EventProcessor` |
| `Trade` | the trade window and its completion | - |
| `AuctionHouse` | auctions, pending deposits, mails in transit | - |
| `DataFacts` | lemmas about sequences, induction over the naturals and finite sets, folds and sums | - |
| `Database` | the pool, the transactions and the synchronous connections side by side | extends `DatabaseWorkerPool`, instantiates `MySQLConnection`, `SynchConnections` |
| `Services` | the same of components that keep to themselves | extends `QueryCallbackProcessor`, instantiates eight others |
| `Database_proofs` | theorems about the pool, its refinement, transactions, synchronous connections | extends `Database` |
| `Items_proofs`, `Sockets_proofs` | theorems about trades and auctions, and about sockets | extend `Services` |
| `Services_proofs` | theorems about the other components of `Services`, and the types of all | extends the two above |
| `WorldSessions_proofs`, `WorldUpdate_proofs`, `MPSCQueue_proofs` | theorems about the module they are named after | extend it |
| `MCDatabase`, `MCServices` | small instances of several components in one run | extend `Database`, `Services` |
| other `MC*` | constants for TLC | the module they are named after |

Components that share no state are put side by side by `Database` and `Services`,
which give each its variables and name its properties, and checked in one run: the
variable `part` of the MC module says which of them a behaviour belongs to, and the others rest.
The state space is the sum of the parts, not their product, and each part has
the fairness of its own module. Components that do interact are composed
instead (`WorldUpdate`, `WorldSocket`, the refinement of `AsyncExecution`).

### DatabaseWorkerPool

One action is what a thread does between two points where others can see it:
each critical section of `_queueLock` is one action. The condition variable is
the set of workers whose `pc` is `"wait"`; `notify_one` picks one of them, and
any may wake spuriously. `WorkerThread` is `Wait`, `WaitAndPop`, `PopNothing`
(WaitAndPop returning without an operation), `ObserveToken` and `StartCall`
(the test at `DatabaseWorker.cpp:50`, made after the pop and outside the lock)
and `FinishCall`. The main thread creates connections one after the other, each
with its thread already running (`CreateConnection`, `ConnectSucceeds`,
`ConnectFails`), then the synchronous ones (`OpenSynch`), retries once if the
database was missing (`RetryOpen`), closes and destroys. Closing a connection is
`SetToken`, `CancelQueue` (of the queue all share) and `JoinWorker`, one
connection after the other, as the vector's `clear` does.

`pushed` and `executed` are history variables.
`AsyncExecution` is the abstract view: a set of pending operations, any of which
may be performed next that has fewer than `Width` pending ones submitted before
it, and of which some may be dropped once closing has begun.
`ImplementsAsyncExecution` is the refinement: `submitted` is `pushed`, `done` is
`executed`, `pending` is `Live`, the operations queued or in a worker's hands,
and `closing` is `Stopping`, some token or the queue's flag being set. Width is 1
with the default of one worker per pool (strict order) and twice the number of
threads if Open may have failed and been repeated.

### MySQLConnection

One action is one statement sent and answered. `Execute`, `Deadlock` and
`StatementError` are the outcomes of one of the transaction's own statements while
the connection is up. `ControlError` is a START TRANSACTION or a COMMIT that the
server answers with an error: `BeginTransaction` and `CommitTransaction` drop
the result of `Execute` (`MySQLConnection.cpp:355`, `:365`), so the code goes on.
After a failed START TRANSACTION the session is outside any transaction, after a
failed COMMIT the server has rolled back; `unbegun` and `uncommitted` remember
whose they were. `Lose` is the
loss of the session before the statement was performed or after it and before
the answer; `Reconnect`, `HostUnreachable` and `Refused` are the cases of
`_HandleMySQLErrno`. `active` and `session` are the server's side: what a
session did inside a transaction is durable only at COMMIT and forgotten with
the session; outside a transaction each statement is durable at once. The retry
of `TransactionTask::Execute` under the static lock is `AwaitLock`,
`AcquireLock`, `Retry`; direct callers retry without a lock. `Crash` may end
the process at any moment.

### QueryCallbackProcessor

The owner's pass is split where workers may act: the list is moved out
(`BeginPass`), each chain is visited (`NotReady`, `NextStep`, `Completed`), the
rest is put back behind what was added meanwhile (`EndPass`). `AddQuery` is
possible between passes and while a callback runs. A chain is its future, the
number of callbacks left and the history of queries and callbacks run. Which
prepared statement a query is and what its result holds is abstracted.

### SynchConnections

`GetFreeConnection` tries `++i % num_cons` for ever, `i` being a uint8;
`Indices` stands for 256. A call uses the connection it locked, and unlocks it.
KeepAlive goes over the connections in order.

### WorldSessions

`AddSession` and `CloseSocket` belong to network threads and may happen between
any two steps of the world's thread. The latter is `UpdateSessions`: first
`AddSession_` or `RejectSession` for each session handed over, then for each
account the steps of `WorldSession::Update` - `Visit` (idle clients), packets
(`PlayerLogin` or `OtherPackets`), `ProcessQueryCallbacks` (any of the results
that can be there: the session's initialization, the character list, the
login), `LogoutPlayer`, and `KeepSession` or `RemoveOver`. The queue's
arithmetic is in `Counted` and `Others`, as the code has it: the departing
session is taken away from the count of active ones unless it was queued, the
newcomer unless he replaces a queued session. `RemoveQueuedPlayer` is called
twice when a session is removed (`World.cpp:3317`): `QueueAfter`.
`phase` is `InitializeSession`, whose callback clears `m_inQueue`. A session's
`player` goes from `"none"` over `"chars"` (the list was sent) and `"loading"`
to `"in"`; `"refused"` is a login turned down with `m_playerLoading` still set.

Of packets only those that change this state are modelled. Time passes only
where the tolerance of disconnected players needs it; the 60 seconds a player
stays after his socket closed are `Linger` updates.

### Sockets and WorldSocket

One network thread runs one handler at a time; the world's thread, the acceptor
and the database act between any two of them. `Update` of a socket is split
where other threads matter: packing what was sent (`Update`), each
`HandleQueue` (`UpdateWrites`), the callbacks (`ProcessReadyQueries`). Bytes
carry the number of their packet, so that order and holes can be seen.
`CloseSocket` is the exchange of `_closed`; its winner's `OnClose` is a step of
its own, whichever thread it is. `writing` is a write the kernel has not taken
up yet; after an error the buffer is dropped and the socket stays open, as in
`Socket.h:225`.

`HandleAuthSession` is possible as soon as the socket reads: nothing makes the
client wait for the challenge, so it may be rejected while that is still queued
or written in part; `early` remembers those sockets.

`query` goes from `"ip"` over `"account"` to `"permissions"`; while the account
is looked up nothing is read. `session` is what became of the session: created
by one callback, handed to the world by the next, deleted by the world once its
socket is not open.

### MPSCQueue

`Enqueue` is the exchange, `Link` the store to `Next`; `Dequeue` deletes the old
tail. `order` records the exchanges, `freed` the nodes that are gone.

### PacketDispatch, MapUpdater and WorldUpdate

`PacketDispatch` has the loop of `WorldSession::Update`: `BeginUpdate`, one
`HandlePacket` per packet taken, with the effect of its handler, and
`EndUpdate`, which puts back what has to wait and, in the world's thread, runs
the callbacks, the logout and the end of the session. Of the 1100 opcodes there
is one kind for each status and processing place, since these decide where and
when a packet is handled. `MapUpdater` has the request queue, the count of
pending requests with the wait on it, the instances that a map schedules from
within its own update, and the end of the threads. `WorldUpdate` composes them:
sessions with the world's filter, then the maps, whose threads update the
sessions of the players they hold with the map's filter.

### Shutdown

One action is one access to the timer or the mask, so that the bridge's thread
interleaves with the countdown. `asked` is what the players were last told.
The countdown reads the timer up to three times (`Countdown`, `Compare`, `Decrease`),
or as often as the compiler leaves of it. The timer is a uint32 (`Width`), and a
loop may take longer than what is left.

### AuthSession

The statuses of a connection, with the commands each admits, and the queries
whose callbacks set the next one. Storing the key is taken to succeed: the code
does not look at what `DirectExecute` returns (`AuthSession.cpp:583`), and a
client whose key was not stored is let in here and refused by the world server. SRP6 is abstracted to whether the proof was
right and to a new key for each logon. Clients send what an ordinary client
sends, a request for the realms at any time included, and may leave at any
point. The key in the database is what the world server will ask for.

### EventProcessor

`Execute` removes an event from the queue and leaves it on the stack; whatever
it then does (add, abort, kill all) is a step of its own, and `Complete` or
`Repeat` ends it. Events of spells may not be deleted while others use them.
Times are relative to `m_time`.

### BattlegroundQueue

Handlers (join, enter, decline, log out, leave a battleground) run in one half of an update, the
remove events that are due and the matching of the queue in the other. Entries
keep `left`, the time of their invitation, because an event of an earlier
invitation is recognised by it alone. `invited` are the counters a battleground
decides by, which the property compares with the players they stand for.

### Trade

One action per handler; `AcceptTrade` ends in one of `AcceptStopped`,
`SpellRefused`, `NoRoom` and `CompleteTrade`, or waits for the other side.
Between the handlers players get and lose items and money, and items become
untradeable. A slot holds the identity of an item. Writing a slot withdraws both
acceptances; the item in it can leave its owner's bags without that, and is then
skipped when the trade completes (`GetItem`, `Given`).

### AuctionHouse

One action per handler, with the mails it sends as money and items in transit;
`UpdatePendingAuctions` is the timer's turn for one player, `Expire` that of the
auction house for one auction. Money is added up with three counters that only
grow: `house` is what is nobody's any more (cuts, deposits lost by auctions that
end without a sale or before their deposit is taken, money spent elsewhere),
`forgiven` what `ModifyMoney` did not find in a purse, and `unpaid` the deposits
paid back that had never been taken; `paid` says of an auction that its deposit was.
A bid and a paid deposit are held with their auction (`Held`).


## Runs

Distinct states in the last column; every passing run is exhaustive, and each of
its properties has a mutant that violates it.

| run | question | states |
|---|---|---|
| `database` | the pool under every failure of an Open, transactions under deadlocks, lost sessions and a crash, synchronous connections: safety, the refinement of `AsyncExecution`, and termination | 816 260 |
| `services` | nine components side by side: query callbacks, a socket with its session, MPSCQueue, trades, auctions, a battleground queue, the shutdown countdown, an event processor, logins | 201 875 |
| `sessions_queue` | ownership, queue, limit, idle slots, order, loading, shutdown | 1 467 032 |
| `sessions_end` | sessions end, with the tolerance and a limit raised at run time | 408 670 |
| `world_update` | packets keep order and thread, the barrier, the end of the map threads | 417 553 |
| `pool_saves_lost` | *violated*: queued saves survive Close | - |
| `pool_reopened` | *violated*: a repeated Open has running workers | - |
| `tx_torn` | *violated*: atomicity with a lost session | - |
| `tx_unreachable` | *violated*: the server aborts when it cannot reconnect | - |
| `sessions_tolerance` | *violated*: the tolerance expires | - |
| `session_leak` | *violated*: a session whose socket is lost is deleted | - |
| `irc_cancel` | *violated*: a cancelled shutdown does not come | - |

Properties of one component that answer one question are conjoined under one
name where they are stated (`NothingDangles`, `ChainsKept`, `AllOrNothing`,
`PlacesKept`, ...): the comment says what each part is.

### Instances, and why the bounds are enough

- *database, pool*: 2 threads per Open (4 workers over two Opens), 5 operations
  numbered in the order pushed, as no code looks at which one it is. A lost
  wakeup takes two workers and two operations; overtaking is bounded by `Width`
  2 with two workers. A second Open follows only a failed first one, as in
  `DatabaseLoader`; after it fewer operations are pushed.
- *database, transactions*: two statements are the least a transaction can be
  torn between; two transactions on two connections, of one kind or of each
  (`spare` is the one that stays idle), let one wait for the retry lock while
  the other retries. All 9 and 5 retries and all 5 reconnection attempts of the
  code are there. A second lost session would only repeat what the first does:
  `AllOrNothing` speaks of none. A behaviour has one lost session or one START
  TRANSACTION or COMMIT of the longer transaction that fails; the theorem is for
  any number of each.
- *database, synchronous connections*: 4 index values over 3 connections wrap
  out of step, as 256 over 3 do. `SpinEnds` needs at least as many connections as
  threads that use them; with fewer the code does not promise it.
- *services, callbacks*: one chain is visited, one has been kept, one is added;
  two queries let a chain go on, complete, or be aborted with a callback left.
- *services, socket*: one socket, as sockets of a thread take turns; four
  packets of 1 and 3 bytes over buffers of 2, so that packets are split,
  packed together and held back.
- *services, MPSCQueue*: two producers with three elements each: one hides behind
  the other and goes on, while the consumer deletes nodes.
- *services, trades*: two players with two items, one of which may be given
  only one way, and bags of one place, so that they have to swap; money with one item;
  or three players and one item (`three`), so that requests cross.
- *services, auctions*: a seller of two items and a bidder; or one auction and two
  bidders. The seller may leave and come back at any time, one bidder stays. Deposits of 1, 3 and 4 for 1, 2 and 3 items leave a rest in the division.
- *services, battleground queue*: three of one team for two places; or two
  players and time enough for a first invitation's event to come due during a second.
- *services, shutdown*: two requests, loops of 1 or 2 seconds against times up to 3, a
  timer of five values, so that a subtraction too much wraps.
- *services, events*: three events: one executes, one is aborted, one is added.
- *services, logins*: two clients of one account with two keys, so that one key
  overwrites the other while either connection goes on.
- *sessions*: with one slot the second session waits, the third waits behind it,
  and the fourth, of a privileged account or replacing the first, passes or
  replaces. The two sessions of one account differ in nothing, and are taken as
  symmetric in `sessions_queue`, which checks no liveness. `sessions_queue`
  keeps the limit constant, since raising it at run time pops nobody until the
  next session leaves (see the hazard at `World.h:675`): with `Limits`
  `NoIdleSlot` would not hold, and the code does not claim it. `sessions_end`
  raises it, once somebody waits.
- *world_update*: three packets, of clients with three repertoires of kinds, cap
  1, with which an update handles two packets, as it handles 101 with 100: a
  packet is put back, passed and reached again, and a login may have two packets
  in front of it, one more than those behind which it is sure to be taken;
  two map threads, one plain map, one dungeon with an instance.

### Fairness

- *pool*: a thread that can go on is scheduled, and a statement sent is answered
  (`WF(WorkerStep(w))`, opening, closing). Nobody has to enqueue, to close, or to
  wake spuriously. `StartCall` and `FinishCall` being fair means that MySQL
  answers; the client library's timeouts make that so.
- *transactions*: only that some connection with work goes on
  (`WF(\E c : Step(c))`). Losses, crashes and new transactions are not fair.
  Deadlocks may come for ever: that retries end is the code's doing.
- *callbacks*: the owner keeps updating, and the workers execute what is queued -
  which is `EveryOperationExecuted` of the pool.
- *synchronous connections*: a thread inside a call is scheduled. No call has to be made.
- *sessions*: the world's loop runs (`WF(UpdateSessions)`). Clients, network
  threads, the console and the database may do nothing at all: `SessionsEnd`
  holds although logins may never be answered.
- *sockets*: the network thread updates its sockets and runs the handlers that are
  due, the database answers, the world deletes sessions it finds without a socket.
  Clients need not send, nor the kernel take bytes of one that is there.
- *MPSCQueue*: a producer between its two steps goes on; the consumer comes back.
- *auctions*: the timer of the pending deposits fires, and so does the one that
  ends an auction whose time was set to now (`Overdue`; others need not end). *battleground queue*: the world updates. *shutdown*:
  the countdown runs, and a command begun is finished. *events*: Update is called. *logins*: the
  server runs, the database answers. In none of these does a player have to do anything.
- *world_update*: the world's thread loops and each map thread is scheduled;
  packets, the stop of the server and the login queue are not fair.

`CHECK_DEADLOCK FALSE` is set where the system may rightly come to rest: parts
of `services` in which nobody wants anything more, `sessions_*` and
`world_update` after the world has stopped, and the two small instances of
findings, whose clients and requests run out. `MCDatabase` checks deadlock: its
components have an explicit last step, so that any other standstill is reported.

## What the code does not keep

Each is a run that ends in a violation of what a comment, a message or a
configuration file says.

1. **A reopened pool runs nothing** (`pool_reopened`). When the first Open fails
   because the database does not exist, destroying its connection cancels the
   queue (`DatabaseWorker.cpp:34`) that the next Open uses. That Open reports
   its connections as running, but their workers have exited.
2. **Saves can be thrown away at shutdown** (`pool_saves_lost`). `Main.cpp:306`
   says of KickAll "save and kick all players"; the saves are asynchronous, and
   Close deletes those that are still queued.
3. **A lost session tears a transaction** (`tx_torn`). The server rolls back
   what was done; after the reconnection the current statement and the rest
   are executed one by one (`MySQLConnection.cpp:187`, `:525`), so that the
   transaction is applied without its beginning. A START TRANSACTION that fails
   has the same effect, and a COMMIT that fails leaves nothing of a transaction
   that counts as executed: nobody looks at the result of either
   (`MySQLConnection.cpp:376`, `:417`). `AllOrNothing` says what is left of the
   promise, and makes these two exceptions.
4. **An unlisted error while reconnecting** (`tx_unreachable`) leaves a
   connection that silently executes nothing, although the comment at
   `MySQLConnection.cpp:546` says the server shuts down.
5. **The tolerance for disconnected players never expires**
   (`sessions_tolerance`): the arguments of `difftime` are swapped at
   `World.cpp:370`, so that whoever disconnected once skips the queue until the
   server restarts. `worldserver.conf.dist:370` gives a number of seconds. The
   other session runs hold with the code as it is.
6. **A session lost while its permissions load is never deleted**
   (`session_leak`): it is handed to the world by the callback of that query,
   which a closed socket no longer runs (`WorldSocket.cpp:606`). The account
   stays marked as online.
7. **A cancelled shutdown can still come** (`irc_cancel`) if the IRC bridge
   cancels it from its own thread between the two reads of the timer at
   `World.cpp:3190` and `:3193`: found positive by the first, it is 0, hence not
   more than the time elapsed, by the second.

The models reach five more, which the properties name as what they do not
promise, and which have no run of their own:

- **A login can starve** behind packets for a player in the world
  (`WorldSession.cpp:301`, `:389`). More than 100 of them in front of it are all
  an update handles, and are put back to the front, so that every later update
  meets the same ones; the comments say "We will re-add the packets to the bottom of
  the queue" and "Any leftover will be processed in next update". `LoginTaken` is of
  a login with at most `Cap` of them in front.
- **An error response can be lost** (`Socket.h:243`). `DelayedCloseSocket` "Marks
  the socket for closing after write buffer becomes empty". If the client was
  rejected while the challenge was still being written, the buffer becomes empty
  when the challenge has gone, before the response is packed into it, and the
  socket closes without it. `SocketsSound` excepts the sockets in `early`, of which it says
  that everything but the response has gone.
- **A deposit that was never taken is paid back** (`AuctionHouseMgr.cpp:213`). An
  auction carries its deposit from the start, `PendingAuctionProcess` takes it a minute
  later, or nothing of it if its owner has spent his money or left. If the
  auction is sold, its owner gets the deposit with the price in either case. `Conserved`
  counts what players gain so (`unpaid`, `forgiven`): no other money is made.
- **An auction that has ended can come back** (`AuctionHouseMgr.cpp:508`, `:551`).
  The settling of pending deposits writes each auction of its list back to the database,
  those included that were sold and deleted meanwhile, through the
  pointer that was freed; a restart would load them. The models end with the process, so
  this is read off the code and not checked.
- **An offered item can vanish from a trade** (`TradeData.cpp:30`). If it leaves its
  owner's bags after the other one's acceptance, that acceptance stands, the
  completion skips the slot, and the gold offered for the item is paid.
  `FairTrade` says that no more than this goes wrong: what the slots hold and
  their owners still have is exchanged, whole, for the accepted gold.

## Proofs

TLAPS checks them for every number of workers, operations, connections,
transactions, chains, sessions, accounts, slots, maps, map threads, packets,
sockets, producers, players, items, auctions, events, clients and battlegrounds.
The only assumptions are the named ones of the modules:

- types of the constants, and a null pointer that is no object;
- 1 to 32 threads, as the loader of the pools enforces;
- finitely many of what the code counts: accounts, map threads, sockets, players,
  battlegrounds;
- an instance belongs to one map only;
- limits that the code checks when it loads them: a buffer of at least one byte
  (`WorldSocketMgr.cpp:69`), a minimum of players not above the maximum
  (`BattlegroundMgr.cpp:573`);
- a limit of money above 0 (`Player.cpp:178`), a cut of at most 100 per cent, and
  times of events that include the next tick, to which an event that cannot be
  deleted yet is put off (`EventProcessor.cpp:79`).

The runs evaluate all of them, those of instances through `Database` and
`Services`. Six theorems have a condition besides, named with them below.

| module | theorem | says |
|---|---|---|
| `Database_proofs` | `InductiveInvariant`, `TypeCorrect` | `[]IInv`, `[]TypeOK` |
| | `NoneIsLostOrShared` | `[]NoneLostOrShared`, of which `SingleOwner` (`OwnedOnce`) and `NothingLost` (`LostOnlyByStopping`) are parts |
| | `WakeupsSuffice` | `[]NoLostWakeup` |
| | `CallsUseLiveConnections` | `[]ConnectionOutlivesCall` |
| | `PromiseKept`, `PromiseKeptAfterReopening` | the refinement `ImplementsAsyncExecution`, while `opens * AsyncThreads <= Width`, and without condition if `2 * AsyncThreads <= Width` |
| | `TransactionsInvariant` | `[]TInv` |
| | `TransactionsAreAtomic`, `ConnectionsAreHandedOnClean` | `[]AllOrNothing`, `[]CleanHandover` |
| | `SynchInvariant`, `ConnectionsHaveOneUser` | `[]SInv`, `[]OneUser` |
| | `DatabaseTypes` | `[]TypesOK` |
| `WorldSessions_proofs` | `Invariant`, `Types` | `[]IInv`, `[]TypeOK` |
| | `NoListDangles` | `[]NothingDangles`, of which `NothingDeletedIsReached` (`SessionsAreOwned`) and `TheQueueHoldsWhoWaits` (`QueueIsLive`) are parts |
| | `EndInvariant`, `NobodyIsLeft` | `[]EInv`, `[]EveryoneIsSaved` |
| | `LoadingIsLeftAlone` | the action property `LoadingIsNotReplaced` |
| | `NoSlotIsIdle`, `SlotsAreAllUsed` | `[]NoIdleSlot`, while the limit is the configured one; `[]SlotsAreUsed`, if also `Tolerance = 0` |
| | `NobodyIsOvertaken` | the action property `NoOvertaking`, while the limit is the configured one |
| `WorldUpdate_proofs` | `Invariant` | `[]IInv` |
| | `ThreadsKeepApart` | `[]ThreadsApart` |
| | `WaitIsABarrier`, `PacketsKeepOrderAndPlace` | the action properties `WaitIsBarrier`, `InOrderInPlace` |
| `MPSCQueue_proofs` | `Invariant`, `QueueIsSound` | `[]IInv`, `[]QueueSound` |
| `Sockets_proofs` | `SocketsAreSound` | `[]SocketsSound`, of which `ConnectionsAreCounted` (`ConnectionsCounted`) is a part |
| | `SessionsAreReachable` | `[]SessionReachable` |
| `Items_proofs` | `TradesAreMirrored` | `[]Mirrored` |
| | `TradesAreFair` | the action property `FairTrade`, of which `AcceptedOffersStand` is a part |
| | `MoneyAndItemsAreConserved` | `[]Conserved`, of which `ItemsAreInOnePlace` is a part |
| | `DepositsOfASeries` | the action property `DepositsAddUp`, a part of `DepositsSettled` |
| `Services_proofs` | `InductiveInvariant` | `[]IInv` of the query callbacks |
| | `ChainsAreSound` | `[]ChainsKept`, of which `ChainsAreKept`, `ChainsCanGoOn` and `ResultsUsedOnce` are parts |
| | `ResultsSetBeforeUse` | the action property `ResultsAreSet` |
| | `EventsAreSound` | `[]EventsSound` |
| | `LoginsAreSound` | `[]LoginsSound` |
| | `BuffersAreQueued` | `[]QueueSound` of the instance the run checks |
| | `TheWorldStopsAsAsked` | the action property `StopsAsAsked`, a part of `ShutdownKept`, while `Threads = {World}` |
| | `PlacesAreKept` | `[]PlacesKept` |
| | `InvitedForTheWholeTime`, `SidesAreEven` | the action properties `FullTimeToAnswer` and `SidesEven`, the two safety parts of `InvitationsFair` |
| | `ServicesTypes` | `[]TypesOK` of all components of `Services` |

With these every invariant that a passing run checks is a theorem
(`SlotsAreUsed` under the conditions of its own).

The configured limit is no restriction made for the proof: `NoIdleSlot` is false
for a moment after `SetPlayerAmountLimit` (see the hazard at `World.h:675`). The
tolerance lets players past a full queue, as it is meant to, so that with it
nothing bounds their number. With the IRC bridge's thread a shutdown does not stop
as asked: that is the finding of `irc_cancel`.

**The pool.** `Custody` makes `OwnedOnce` inductive by adding that whatever is
queued, held or executed was pushed, so that a new operation is in none of these
places; `LostOnlyByStopping` is its converse. `ConnectionOutlivesCall` needs
`Connected`: before the pool is open nothing has been pushed, at most one
connection is being created, and from then on every worker that is alive has a
connection that is open; `JoinWorker` closes a connection only after its worker
exited. While an Open fails or has not finished, a living worker may lack a
connection, but nothing is queued that it could run. `NoLostWakeup` needs
`Staffed`: workers exit only when the pool is stopping, and once it is open some
worker was born. Then a Push either wakes a waiting worker or finds none
waiting, in which case one is awake; and a worker waits only on an empty queue.

**Query callbacks.** The invariants strengthen each other. `Shape` adds that
between passes nothing is being walked over, so that `BeginPass` and `EndPass`
move lists without duplicating them. `CanGoOn` gives `NextStep` and `Completed`
the callback they take, without which its count would leave the natural
numbers; and with `OneCallbackPerResult` a chain never added (no query) is in no
list, so that adding it duplicates nothing.

**Sessions.** `SessionsAreOwned` and `QueueIsLive` rest on `OwnAccount` (what an
account lists is a session of that account), `Fresh` (a session not yet listed
has begun nothing, so that it may be queued) and `Control` (the session being
visited is listed and will not be visited again; every account still to be
visited lists a session). The hard case is `AddSession_`: it deletes a session,
may pop another one from the queue and lists a third, all in one step; the
lemmas about `Without` and `RemoveQueued` say which elements a queue without
duplicates keeps. `Control` is what makes `RemoveOver` erase the session that
its account lists.

`EInv` adds the end. After KickAll there is one pass of UpdateSessions
left, and `LastPass` says how far each session can be in it: it was kicked and is
still to be visited, or came later and has the list of characters at most. The slots are an argument about sets, since what the code
counts are lists: `Active`, the listed sessions that do not wait, gains
one member when somebody is let in and loses one when a session goes or is
replaced; each step either leaves it, or is one of these, or nobody waits
afterwards. A finite set's cardinality does the rest. `NobodyIsOvertaken` uses
`NoIdleSlot`: a newcomer is let in only if nobody waits, and the queue gives its
first.

**The refinement.** `QueueIsLast` says that what is queued is the end of what was
pushed, so that whatever a pop overtakes is in the hands of other workers, of
which `Born` bounds the number by the calls of Open. Push maps to `Submit`,
`StartCall` followed by `FinishCall` to `Perform` at the latter, everything that
drops operations (`Cancel`, an abandoned pop) to `Abandon`, and the rest stutters:
the lemma `PromiseStep` has one step for each.

**Transactions.** `Kept` is `AllOrNothing` with what makes it inductive: as long as
no session was lost and its START TRANSACTION did not fail, the server's session
holds exactly the statements before `at`, and a transaction being rolled back or
retried has left nothing; a COMMIT that failed belongs to a transaction that is
finished or about to be reported as done.
`SessionsClean` and `Lockers` do not depend on `losses`: a connection without its handle
has no session, one between two transactions has none open, and who retries
holds the lock. **Synchronous connections.** `OwnersUse`: a thread that uses a
connection has locked that one and no other.

**Maps and packets.** `PendingCounts`: `pending_requests` is the number of requests
queued and of map threads that hold one. `InstancesFollow` makes instances be
scheduled once, `NoneForgotten` that at the barrier everything has been updated.
`UpdatedWhere` keeps the session's updates apart: a map thread updates it only on the
player's map, of which `OneRequest` makes it the only thread. The order of packets
rests on `PutBack`: while packets are being put back no packet of their kind is handled,
so that each one handled is behind those handled and before those that wait.

**MPSCQueue.** With `Before(order, k)` for what precedes the k-th element, `Ends`
places `head`, `tail` and the freed nodes in `order`; `Chained` says that a node is
linked to its successor or is some producer's `prevHead`; `Linking`, that
such a producer is ahead of the consumer and nobody has written its node.

**Trades.** Every opcode does one of three things: it opens a trade between two
who have none, closes one on both sides, or rewrites it (`Rewritten`: partners
stay; `OffersKept`: either every offer stays, or both acceptances of the pair
go). The rest is one lemma for each kind. `FairTrade` says what the exchange does
with what the slots hold and their owners still have (`GivenFromSlots`),
so it needs what the exchange is made of: `Belongings` (bags hold no more than they
have places for), `OneOwner` (else an item given away could be the other's
already) and `Offered` (no item in two slots, none that is forbidden to its
taker). `moveItems` walks over the slots one by one; `SlotMoved` says what one
slot does, `ExchangedIs` what all of them did: each side has what it did not
give and what it was given, and there was room at every slot. **Events.** `Placed`: an event is in
use if and only if it is queued or executing, and not both; `Ends`: what its
state says of its abortion. **Logins.** `Fits` relates the status of a connection to its
query, its pending read and what its client waits for. **Sockets.** `Attached` says
for every socket what its pending query, its session and the closing of it
exclude; `InUpdate`, that the socket being updated is closed only if nothing is
left to be done for its session.

**What a socket sends.** `StreamInv` follows the bytes. `Flow`: what the kernel
took, then what is in the buffers being written, then the packets not yet packed,
is all that was sent. `PackedHolds` shows that packing packets into buffers, of
whatever size, leaves that sequence alone, `WroteHead` and `WrotePart` that a
write of any number of bytes does. It holds until the socket is closed or its
peer is gone; after that the prefix stays one because nothing more is written.
That a rejected client is told before its socket closes (`ToldBeforeClosing`) needs more:
a socket without a session is only sent packets that fit in a buffer
(`Fitting`), so that no buffer is empty (`Filled`), and an empty queue of buffers
means that all that was packed has been written. What was not packed then is
nothing, or the error response of a socket in `early`.

**Auctions.** `OnePlace` says of each item that
two places which have it are the same, and that some place has it; `OneAuction`
says it of the item of an auction, by its identifier. `MoneyInv` adds up the
money: `Worth` is purses and mails, what is held with the auctions (`Holdings`), and
what the house got, less what was forgiven and what was paid back unpaid. Each handler changes one or two summands, so the
lemmas say how a sum changes with one of them (`SumChange`, `SumRemove`); `IsPriced`
and `IsPending` keep every amount a natural number, and shares of a deposit at most
what was paid. **Shutdown.** `Announced`: the timer
runs if and only if a shutdown is announced, and with that one's mask, but between
the two writes of a command; `TimeLeft`: the players were told no more seconds
than the timer will count, from which the subtraction does not wrap.

**Battlegrounds.** `PlacesInv` counts those who may come to a battleground: invited and
still queued, on the way, or inside. `Proper` (nobody is queued twice, each in the
queue of his team) and `Apart` (nobody is queued who is inside) make `Counted`
inductive: then every step takes exactly one player out of such a set, puts one
in, or moves him within it. `FreeSlotsIs` bounds what a round of the
matching may invite, `LoopIs` says what the rounds over `BGFreeSlotQueue`
compute, and a battleground without a status has no comers, so that a new one
starts from nothing. `SidesAreEven` uses the same loop: no battleground is in `freeSlots` twice,
so that each is filled once in an update (`FilledEvens`), and `Room` bounds each side by what
it lacks to the other (`EvensOut`). `InvitedForTheWholeTime` needs that a player has one entry:
the event that takes him out knows that entry's battleground and time.

**Recursion.** The provers do not do induction with a predicate as a parameter, and
know nothing of a recursive definition. `SetInduction` is induction with a set in
place of the predicate, from the library's theorem that the naturals are well
founded. With it `FoldExists` and `RunExists` give a function that satisfies the
recursion of a sum, a fold or a loop, for the given data; that the definition equals
this function is then one step, and what it computes another induction over
the same set. Sums over functions, `FoldLeft`, `FlattenSeq` and the recursive
function in `Exchanged` of `Trade` are handled so.

**Only model-checked:** liveness, which is outside this prover's reach, as is ENABLED:
`PoolProgress`, `TransactionsEnd`, `SpinEnds`, `EveryChainEnds`, `SocketsGo`,
`EventsGo`, `LoginsEnd`, `SessionsEnd`, `LoginTaken`, `StopEnds` and the liveness
parts of `DepositsSettled`, `InvitationsFair` and `ShutdownKept`.

## What is not modelled

- Of the modelled components: parameters and results of queries (data
  conversion); `EscapeString` and `PrepareStatements`, which use a connection
  without holding its lock (`DatabaseWorkerPool.cpp:379` and `:133`);
  pings of asynchronous connections, which are operations like any other;
  packet headers, encryption and the counting of pings; the account table;
  groups, premade matches and arenas of the battleground queue; conditions that
  only refuse a trade or an auction (distance, faction, level); cash on delivery
  and the expiry of mails.
- Undefined behaviour that the models do not follow: the error number read from
  a freed handle (`MySQLConnection.cpp:159`) is modelled as any error. An
  auction deleted under the pointer of a pending deposit is modelled by the two
  outcomes its memory allows (`TotalDeposit`); that it is also written through
  that pointer, to memory and to the database, is not modelled.
- Components without a module: the table of `PROJECT.json` gives a reason for
  each. In short: game rules driven by data (spells, AI, quests, combat) have no
  small state machine and run on one thread; cryptography, file formats,
  collision and tools are computation; Warden's other half is in the client; of
  the IRC bridge, which touches the world without any lock, only the commands
  that have a protocol to check are in `Shutdown`.

## Plan

1. *(done)* The database layer: `DatabaseWorkerPool` against `AsyncExecution`,
   `MySQLConnection`, `QueryCallbackProcessor`, `SynchConnections`.
2. *(done)* `WorldSessions`.
3. *(done)* The network: `Sockets`, `WorldSocket`, `MPSCQueue`.
4. *(done)* The world's loop: `PacketDispatch`, `MapUpdater`, `WorldUpdate`,
   `Shutdown`.
5. *(done)* `AuthSession`, `EventProcessor`, `BattlegroundQueue`.
6. *(done)* Items and money: `Trade`, `AuctionHouse`.
7. Dungeon finder (role checks, proposals, vote kicks), then group rolls,
   instance saves, mail with cash on delivery, the guild bank.

What is left to prove is liveness, for which the provers would have to do
ENABLED. A smaller thing would be to state for `Shutdown` with several threads what
still holds of a stop that another thread's cancellation meets.
