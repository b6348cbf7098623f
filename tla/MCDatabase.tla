----------------------------- MODULE MCDatabase -----------------------------
(* Small instances of the three parts of Database.  They share no state: a
   behaviour belongs to one of them, its part, and the others rest.          *)
EXTENDS Database, TLC

CONSTANTS o1, o2, o3, o4, o5, a1, a2, s1, t1, t2

VARIABLES part, spare

transactionVars == <<at_pc, tx, at, error, tries, handle, attempts, deadlockLock, outcome, active,
                     session, database, unbegun, uncommitted, losses, alive>>
synchVars == <<caller_pc, i, m_Mutex, pings>>

\* None of the operations is treated by its identity: they come in one order.
\* Two workers; up to four, with fewer operations, after the database had to be
\* created and the pool was opened again.
QueueNext ==
  /\ Next
  /\ pushed' = SubSeq(<<o1, o2, o3, o4, o5>>, 1, Len(pushed'))
  /\ opens' = 2 => Len(pushed') <= Width

\* It takes two statements to tear a transaction apart, and two transactions
\* with statements for one to wait while the other retries.  Two connections can
\* be busy with them: of one kind, or one of each.  One session is lost, or one
\* of the statements around the longer transaction fails.
Statements == t1 :> 2 @@ t2 :> 1

TransactionsNext ==
  /\ Transactions!Next /\ UNCHANGED spare
  /\ at_pc'[spare] = "idle" /\ handle'[spare]
  /\ losses' + Cardinality(unbegun') + Cardinality(uncommitted') <= 1
  /\ unbegun' \subseteq {t1} /\ uncommitted' \subseteq {t1}

\* Three threads, one of them the world's, over three connections; the index
\* takes four values, so that it wraps around out of step with their number.

MCInit ==
  /\ part \in {"queue", "transactions", "synchronous"}
  /\ spare \in (IF part = "transactions" THEN {a2, s1} ELSE {s1})
  /\ Init /\ Transactions!Init /\ Synchronous!Init

MCNext ==
  /\ UNCHANGED part
  /\ \/ part = "queue" /\ QueueNext /\ UNCHANGED <<transactionVars, spare, synchVars>>
     \/ part = "transactions" /\ TransactionsNext /\ UNCHANGED <<vars, synchVars>>
     \/ part = "synchronous" /\ Synchronous!Next /\ UNCHANGED <<vars, transactionVars, spare>>

MCSpec == MCInit /\ [][MCNext]_<<part, vars, transactionVars, spare, synchVars>>

\* The fairness of each component.
MCFairness ==
  /\ \A w \in Worker : WF_vars(part = "queue" /\ WorkerStep(w))
  /\ WF_vars(part = "queue" /\ Opening) /\ WF_vars(part = "queue" /\ Closing)
  /\ WF_transactionVars(part = "transactions" /\ \E c \in (Async \cup Synch) \ {spare} : Transactions!Step(c))
  /\ \A c \in Caller : WF_synchVars(part = "synchronous" /\ Synchronous!Running(c))

MCFairSpec == MCSpec /\ MCFairness
=============================================================================
