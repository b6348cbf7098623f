------------------------------ MODULE Database ------------------------------
(* The database side of a server: the pool's asynchronous half (the module it
   extends), the transactions on its connections, and its synchronous half.
   They meet in the locks and queues each has for itself and share no state, so
   that the system is the conjunction of the three specifications.           *)
EXTENDS DatabaseWorkerPool

CONSTANTS
  Async, Synch, Tx, NoTx, NoConn, Size, MaxLosses, MaxIgnored,  \* MySQLConnection
  Caller, World, SynchThreads, Indices, KeepAlives, Nobody    \* SynchConnections

VARIABLES
  at_pc, tx, at, error, tries, handle, attempts, deadlockLock, outcome, active, session, database,
  unbegun, uncommitted, losses, alive,
  caller_pc, i, m_Mutex, pings

Transactions == INSTANCE MySQLConnection WITH pc <- at_pc
Synchronous == INSTANCE SynchConnections WITH pc <- caller_pc

ASSUME TransactionsAssumption == Transactions!TransactionAssumption
ASSUME SynchronousAssumption == Synchronous!SynchAssumption

-----------------------------------------------------------------------------
(* The components' properties, by their names there, where they are stated
   and explained.                                                            *)

\* The variables have their types.
TypesOK == TypeOK /\ Transactions!TypeOK /\ Synchronous!TypeOK

\* Without a lost session and a failing START TRANSACTION a transaction is done
\* whole or not at all; what is reported of it is so unless its COMMIT failed.
AllOrNothing == Transactions!AllOrNothing
\* A connection is handed on outside any transaction; one retries at a time.
CleanHandover == Transactions!CleanHandover
\* Every transaction that was taken ends.
TransactionsEnd == Transactions!TransactionsEnd

\* GetFreeConnection, KeepAlive: who uses a connection has locked it.
OneUser == Synchronous!OneUser
\* GetFreeConnection: spinning ends.
SpinEnds == Synchronous!SpinEnds
=============================================================================
