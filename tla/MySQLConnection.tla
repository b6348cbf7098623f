---------------------------- MODULE MySQLConnection ----------------------------
(***************************************************************************)
(* What one MySQLConnection does with a Transaction: ExecuteTransaction    *)
(* (START TRANSACTION, the statements, COMMIT or ROLLBACK), the retries    *)
(* after a deadlock in TransactionTask::Execute (asynchronous connections) *)
(* and DirectCommitTransaction (synchronous ones), and the reconnection in *)
(* _HandleMySQLErrno. One action is one statement sent to the server and   *)
(* answered, so that connections, losses and crashes interleave with them. *)
(* The server keeps what a session did and has not committed, and forgets  *)
(* it when the session ends.                                               *)
(***************************************************************************)
EXTENDS Naturals, Sequences, FiniteSets

CONSTANTS
  Async, Synch,  \* connections of either kind
  Tx,            \* transactions
  NoTx, NoConn,
  Size,          \* how many statements each transaction holds
  MaxLosses,     \* bound: how often the network or the server drops a session
  MaxIgnored     \* bound: failures of the statements around a transaction

TransactionAssumption ==
  /\ Async \cap Synch = {} /\ NoConn \notin Async
  /\ Size \in [Tx -> Nat] /\ NoTx \notin Tx
  /\ MaxLosses \in Nat /\ MaxIgnored \in Nat

Conn == Async \cup Synch

VARIABLES
  pc, tx, at,    \* control, transaction and statement index of each connection
  error,         \* the errorCode ExecuteTransaction returns
  tries,         \* executions of the retry loop so far
  handle,        \* m_Mysql: is there a session?
  attempts,      \* reconnection attempts left, 0 when not reconnecting
  deadlockLock,  \* TransactionTask::_deadlockLock
  outcome,       \* what became of each transaction
  active,        \* server: is the session inside a transaction?
  session,       \* server: statements done and not committed
  database,      \* server: statements of each transaction that are durable
  unbegun,       \* transactions whose START TRANSACTION has failed once
  uncommitted,   \* transactions whose COMMIT has failed
  losses,
  alive          \* the process has not aborted

client == <<pc, tx, at, error, tries, outcome>>
link == <<handle, attempts, losses, alive>>
server == <<active, session, database, unbegun, uncommitted>>
vars == <<client, link, deadlockLock, server>>

Init ==
  /\ pc = [c \in Conn |-> "idle"] /\ tx = [c \in Conn |-> NoTx]
  /\ at = [c \in Conn |-> 0] /\ error = [c \in Conn |-> "none"]
  /\ tries = [c \in Conn |-> 0]
  /\ handle = [c \in Conn |-> TRUE] /\ attempts = [c \in Conn |-> 0]
  /\ deadlockLock = NoConn
  /\ outcome = [t \in Tx |-> "pending"]
  /\ active = [c \in Conn |-> FALSE] /\ session = [c \in Conn |-> <<>>]
  /\ database = [t \in Tx |-> <<>>] /\ unbegun = {} /\ uncommitted = {}
  /\ losses = 0 /\ alive = TRUE

LoopBreaker(c) == IF c \in Async THEN 9 ELSE 5
MaxAttempts == 5

-----------------------------------------------------------------------------
(* ExecuteTransaction *)

\* It begins with START TRANSACTION, or returns -1 for an empty transaction.
Entry(t) == IF Size[t] = 0 THEN "returned" ELSE "begin"

\* A worker takes a TransactionTask, a caller commits directly.
Start(c, t) ==
  /\ alive /\ pc[c] = "idle" /\ outcome[t] = "pending"
  /\ outcome' = [outcome EXCEPT ![t] = "taken"]
  /\ tx' = [tx EXCEPT ![c] = t]
  /\ at' = [at EXCEPT ![c] = 1]
  /\ tries' = [tries EXCEPT ![c] = 0]
  /\ pc' = [pc EXCEPT ![c] = Entry(t)]
  /\ error' = [error EXCEPT ![c] = IF Size[t] = 0 THEN "other" ELSE "none"]
  /\ UNCHANGED <<link, deadlockLock, server>>

Sending == {"begin", "statement", "rollback", "commit"}

\* Execute returned true. The results of START TRANSACTION, ROLLBACK and
\* COMMIT are ignored; after COMMIT the transaction counts as executed.
Succeeded(c) ==
  /\ CASE pc[c] = "begin" -> pc' = [pc EXCEPT ![c] = "statement"] /\ UNCHANGED at
       [] pc[c] = "statement" ->
            IF at[c] < Size[tx[c]]
            THEN UNCHANGED pc /\ at' = [at EXCEPT ![c] = @ + 1]
            ELSE pc' = [pc EXCEPT ![c] = "commit"] /\ UNCHANGED at
       [] OTHER -> pc' = [pc EXCEPT ![c] = "returned"] /\ UNCHANGED at
  /\ UNCHANGED <<tx, error, tries, outcome>>

\* Mutants: the result of ROLLBACK replaces the error; no ROLLBACK is sent.
FailedUnnoticed(c, code) ==
  IF pc[c] = "statement"
  THEN pc' = [pc EXCEPT ![c] = "rollback"] /\ UNCHANGED <<tx, at, error, tries, outcome>>
  ELSE Succeeded(c)

FailedWithoutRollback(c, code) ==
  IF pc[c] = "statement"
  THEN /\ pc' = [pc EXCEPT ![c] = "returned"]
       /\ error' = [error EXCEPT ![c] = code]
       /\ UNCHANGED <<tx, at, tries, outcome>>
  ELSE Succeeded(c)

\* Execute returned false. A statement's failure is followed by ROLLBACK.
Failed(c, code) ==
  IF pc[c] = "statement"
  THEN /\ pc' = [pc EXCEPT ![c] = "rollback"]
       /\ error' = [error EXCEPT ![c] = code]
       /\ UNCHANGED <<tx, at, tries, outcome>>
  ELSE Succeeded(c)

\* The server's side of a statement.
EndSession(c) ==
  /\ active' = [active EXCEPT ![c] = FALSE]
  /\ session' = [session EXCEPT ![c] = <<>>]

Perform(c) ==
  CASE pc[c] = "begin" ->
         active' = [active EXCEPT ![c] = TRUE] /\ UNCHANGED <<session, database>>
    [] pc[c] = "statement" ->
         IF active[c]
         THEN session' = [session EXCEPT ![c] = Append(@, at[c])] /\ UNCHANGED <<active, database>>
         ELSE database' = [database EXCEPT ![tx[c]] = Append(@, at[c])] /\ UNCHANGED <<active, session>>
    [] pc[c] = "rollback" -> EndSession(c) /\ UNCHANGED database
    [] pc[c] = "commit" ->
         EndSession(c) /\ database' = [database EXCEPT ![tx[c]] = @ \o session[c]]

Connected(c) == alive /\ pc[c] \in Sending /\ handle[c]

Execute(c) ==
  /\ Connected(c)
  /\ Perform(c) /\ Succeeded(c)
  /\ UNCHANGED <<link, deadlockLock, unbegun, uncommitted>>

\* ER_LOCK_DEADLOCK: the server has rolled the whole transaction back.
Deadlock(c) ==
  /\ Connected(c) /\ pc[c] = "statement"
  /\ EndSession(c) /\ UNCHANGED database
  /\ Failed(c, "deadlock")
  /\ UNCHANGED <<link, deadlockLock, unbegun, uncommitted>>

\* ER_DUP_ENTRY and other errors: the statement did nothing.
StatementError(c) ==
  /\ Connected(c) /\ pc[c] = "statement"
  /\ Failed(c, "other")
  /\ UNCHANGED <<link, deadlockLock, server>>

\* START TRANSACTION or COMMIT fails on a live session, and nobody looks:
\* BeginTransaction and CommitTransaction drop what Execute returns.  A START
\* TRANSACTION that failed began nothing; after a COMMIT that failed the server
\* has rolled back, as it has after a ROLLBACK, failed or not.
ControlError(c) ==
  /\ Connected(c)
  /\ \/ pc[c] = "begin" /\ unbegun' = unbegun \cup {tx[c]} /\ UNCHANGED uncommitted
     \/ pc[c] = "commit" /\ uncommitted' = uncommitted \cup {tx[c]} /\ UNCHANGED unbegun
  /\ Cardinality(unbegun') + Cardinality(uncommitted') <= MaxIgnored
  /\ EndSession(c) /\ UNCHANGED database
  /\ Failed(c, "other")
  /\ UNCHANGED <<link, deadlockLock>>

\* Without a handle Execute returns false; mysql_errno of a null handle is a
\* global of the client library that nothing here sets.
ExecuteWithoutHandle(c) ==
  /\ alive /\ pc[c] \in Sending /\ ~handle[c] /\ attempts[c] = 0
  /\ \E code \in {"none", "other"} : Failed(c, code)
  /\ UNCHANGED <<link, deadlockLock, server>>

-----------------------------------------------------------------------------
(* Lost connections: _HandleMySQLErrno *)

\* The session ends before the statement reaches the server, or after it was
\* performed and before the answer arrives. The handle is closed.
Lose(c) ==
  /\ Connected(c) /\ losses < MaxLosses
  /\ losses' = losses + 1
  /\ \/ UNCHANGED database
     \/ pc[c] = "commit" /\ database' = [database EXCEPT ![tx[c]] = @ \o session[c]]
     \/ /\ pc[c] = "statement" /\ ~active[c]
        /\ database' = [database EXCEPT ![tx[c]] = Append(@, at[c])]
  /\ EndSession(c)
  /\ handle' = [handle EXCEPT ![c] = FALSE]
  /\ attempts' = [attempts EXCEPT ![c] = MaxAttempts]
  /\ UNCHANGED <<client, deadlockLock, alive, unbegun, uncommitted>>

\* Open succeeds: the same statement is sent again on the new session.
Reconnect(c) ==
  /\ alive /\ attempts[c] > 0
  /\ handle' = [handle EXCEPT ![c] = TRUE]
  /\ attempts' = [attempts EXCEPT ![c] = 0]
  /\ UNCHANGED <<client, losses, alive, deadlockLock, server>>

\* Every session ends with the process; the server rolls them back.
Die ==
  /\ alive' = FALSE
  /\ active' = [c \in Conn |-> FALSE] /\ session' = [c \in Conn |-> <<>>]

\* Mutant: the recursive call starts counting again.
HostUnreachableForever(c) ==
  /\ alive /\ attempts[c] > 0
  /\ attempts' = [attempts EXCEPT ![c] = IF @ = 1 THEN MaxAttempts ELSE @ - 1]
  /\ UNCHANGED <<client, handle, losses, alive, deadlockLock, server>>

\* CR_CONN_HOST_ERROR: try again, and abort after the last attempt.
HostUnreachable(c) ==
  /\ alive /\ attempts[c] > 0
  /\ IF attempts[c] = 1
     THEN Die /\ UNCHANGED attempts
     ELSE attempts' = [attempts EXCEPT ![c] = @ - 1] /\ UNCHANGED <<alive, active, session>>
  /\ UNCHANGED <<client, handle, losses, deadlockLock, database, unbegun, uncommitted>>

\* Open fails with any other error: "unhandled", Execute returns false and the
\* connection stays without a handle.
Refused(c) ==
  /\ alive /\ attempts[c] > 0
  /\ attempts' = [attempts EXCEPT ![c] = 0]
  /\ \E code \in {"none", "other"} : Failed(c, code)
  /\ UNCHANGED <<handle, losses, alive, deadlockLock, server>>

Crash ==
  /\ alive /\ Die
  /\ UNCHANGED <<client, handle, attempts, losses, deadlockLock, database, unbegun, uncommitted>>

-----------------------------------------------------------------------------
(* TransactionTask::Execute and DirectCommitTransaction *)

ReleaseLock(c) == deadlockLock' = IF deadlockLock = c THEN NoConn ELSE deadlockLock

Finish(c, what) ==
  /\ outcome' = [outcome EXCEPT ![tx[c]] = what]
  /\ pc' = [pc EXCEPT ![c] = "idle"]
  /\ tx' = [tx EXCEPT ![c] = NoTx]
  /\ tries' = [tries EXCEPT ![c] = 0]
  /\ ReleaseLock(c)
  /\ UNCHANGED <<at, error, link, server>>

Again(c) ==
  /\ tries' = [tries EXCEPT ![c] = @ + 1]
  /\ at' = [at EXCEPT ![c] = 1]
  /\ error' = [error EXCEPT ![c] = "none"]
  /\ pc' = [pc EXCEPT ![c] = Entry(tx[c])]
  /\ UNCHANGED <<tx, outcome, link, server>>

Returned(c) == alive /\ pc[c] = "returned"

Done(c) == Returned(c) /\ error[c] = "none" /\ Finish(c, "done")

\* The statements are cleaned up: after an error that is no deadlock, and
\* after the last retry, whatever that one failed of.
GiveUp(c) ==
  /\ Returned(c) /\ error[c] # "none"
  /\ IF tries[c] = 0 THEN error[c] # "deadlock" ELSE tries[c] = LoopBreaker(c)
  /\ Finish(c, "dropped")

\* Asynchronous connections retry one at a time.
AwaitLock(c) ==
  /\ Returned(c) /\ error[c] = "deadlock" /\ tries[c] = 0 /\ c \in Async
  /\ pc' = [pc EXCEPT ![c] = "lock"]
  /\ UNCHANGED <<tx, at, error, tries, outcome, link, deadlockLock, server>>

AcquireLock(c) ==
  /\ alive /\ pc[c] = "lock" /\ deadlockLock = NoConn
  /\ deadlockLock' = c
  /\ Again(c)

\* Mutant: one retry too many.
RetryOnceMore(c) ==
  /\ Returned(c) /\ error[c] # "none"
  /\ IF tries[c] = 0
     THEN error[c] = "deadlock" /\ c \in Synch
     ELSE tries[c] <= LoopBreaker(c)
  /\ Again(c)
  /\ UNCHANGED deadlockLock

Retry(c) ==
  /\ Returned(c) /\ error[c] # "none"
  /\ IF tries[c] = 0
     THEN error[c] = "deadlock" /\ c \in Synch
     ELSE tries[c] < LoopBreaker(c)
  /\ Again(c)
  /\ UNCHANGED deadlockLock

-----------------------------------------------------------------------------
Step(c) ==
  \/ Execute(c) \/ Deadlock(c) \/ StatementError(c) \/ ControlError(c) \/ ExecuteWithoutHandle(c)
  \/ Reconnect(c) \/ HostUnreachable(c) \/ Refused(c)
  \/ Done(c) \/ GiveUp(c) \/ AwaitLock(c) \/ AcquireLock(c) \/ Retry(c)

\* Nothing is left to do: the process died, or no transaction is pending.
Ended ==
  /\ ~alive \/ \A t \in Tx : outcome[t] \in {"done", "dropped"}
  /\ UNCHANGED vars

Next ==
  \/ \E c \in Conn : Step(c) \/ Lose(c) \/ \E t \in Tx : Start(c, t)
  \/ Crash \/ Ended

Spec == Init /\ [][Next]_vars

\* While threads have transactions one of them at least keeps going; the server
\* answers. Neither new transactions nor losses nor a crash have to happen.
Fairness == WF_vars(\E c \in Conn : Step(c))

FairSpec == Spec /\ Fairness

-----------------------------------------------------------------------------
TypeOK ==
  /\ pc \in [Conn -> Sending \cup {"idle", "lock", "returned"}]
  /\ tx \in [Conn -> Tx \cup {NoTx}] /\ at \in [Conn -> Nat]
  /\ error \in [Conn -> {"none", "deadlock", "other"}] /\ tries \in [Conn -> 0..9]
  /\ handle \in [Conn -> BOOLEAN] /\ attempts \in [Conn -> 0..MaxAttempts]
  /\ deadlockLock \in Async \cup {NoConn}
  /\ outcome \in [Tx -> {"pending", "taken", "done", "dropped"}]
  /\ active \in [Conn -> BOOLEAN] /\ session \in [Conn -> Seq(Nat)]
  /\ database \in [Tx -> Seq(Nat)]
  /\ unbegun \subseteq Tx /\ uncommitted \subseteq Tx
  /\ losses \in 0..MaxLosses /\ alive \in BOOLEAN

All(t) == [i \in 1..Size[t] |-> i]

\* DatabaseWorkerPool.h says of a transaction that it "will automatically
\* rollback if not commited. (Autocommit=0)": at any moment, also when the
\* process has just died, all its statements are durable, in order, or none.
Atomic == \A t \in Tx : database[t] \in {<<>>, All(t)}

\* What is left of the promise as long as no session is lost, whatever errors,
\* deadlocks, retries and crash there are.  A transaction whose START TRANSACTION
\* never failed is durable whole or not at all, and not at all before it is
\* taken and once it is dropped.  One that was executed is durable, except that
\* one whose COMMIT failed counts as executed too (MySQLConnection.cpp:417) and
\* left nothing.  Of one whose START TRANSACTION failed, which BeginTransaction
\* does not notice, nothing is promised: its statements become durable singly.
AllOrNothing ==
  losses = 0 =>
    \A t \in Tx : t \notin unbegun =>
      /\ database[t] \in {<<>>, All(t)}
      /\ outcome[t] = "done" => database[t] = IF t \in uncommitted THEN <<>> ELSE All(t)
      /\ outcome[t] \in {"pending", "dropped"} => database[t] = <<>>

\* Transaction.cpp: "Make sure only 1 async thread retries a transaction so
\* they don't keep dead-locking each other".
OneRetrier == \A c, d \in Async : tries[c] > 0 /\ tries[d] > 0 => c = d

\* Whatever errors and losses a transaction met, the connection it used is
\* handed to the next one outside any transaction and without the lock, which
\* one connection held at a time.
CleanHandover ==
  /\ OneRetrier
  /\ \A c \in Conn : pc[c] \in {"idle", "lock"} => ~active[c] /\ session[c] = <<>>
  /\ deadlockLock # NoConn => pc[deadlockLock] # "idle"

\* Every transaction that was taken ends, however often it deadlocks: none
\* stays in the hands of a connection for ever.
TransactionsEnd == <>[](~alive \/ \A t \in Tx : outcome[t] # "taken")

\* MySQLConnection.cpp: "Shut down the server when the mysql server isn't
\* reachable for some time ... to prevent data corruption".
UnreachableShutsDown == \A c \in Conn : ~handle[c] /\ attempts[c] = 0 => ~alive
=============================================================================
