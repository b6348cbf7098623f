---------------------------- MODULE AsyncExecution ----------------------------
(***************************************************************************)
(* What DatabaseWorkerPool<T> promises to the callers of Execute,          *)
(* AsyncQuery, DelayQueryHolder and CommitTransaction, without threads,    *)
(* locks or condition variables: operations are performed at most once, in *)
(* the order they were submitted except that one may overtake fewer than   *)
(* Width of those before it, and none is dropped until the pool closes.    *)
(***************************************************************************)
EXTENDS Naturals, Sequences, FiniteSets, Functions

CONSTANTS Op, Width

VARIABLES
  submitted,  \* all operations, in the order of the calls
  pending,    \* those neither performed nor dropped
  done,       \* those performed, in the order they were
  closing

Init == submitted = <<>> /\ pending = {} /\ done = <<>> /\ closing = FALSE

Submit(o) ==
  /\ o \notin Range(submitted)
  /\ submitted' = Append(submitted, o) /\ pending' = pending \cup {o}
  /\ UNCHANGED <<done, closing>>

\* What is pending and was submitted before o.
Ahead(o) ==
  {p \in pending : \E i, j \in DOMAIN submitted : i < j /\ submitted[i] = p /\ submitted[j] = o}

Perform(o) ==
  /\ o \in pending /\ Cardinality(Ahead(o)) < Width
  /\ done' = Append(done, o) /\ pending' = pending \ {o}
  /\ UNCHANGED <<submitted, closing>>

\* Closing begins, or goes on; some of the pending operations are dropped.
Abandon(kept) ==
  /\ closing' = TRUE
  /\ pending' = kept
  /\ UNCHANGED <<submitted, done>>

Next ==
  \/ \E o \in Op : Submit(o) \/ Perform(o)
  \/ \E kept \in SUBSET pending : Abandon(kept)

Spec == Init /\ [][Next]_<<submitted, pending, done, closing>>
=============================================================================
