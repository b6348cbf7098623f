------------------------ MODULE QueryCallbackProcessor ------------------------
(***************************************************************************)
(* QueryCallbackProcessor and QueryCallback: how the thread that owns a    *)
(* session, a socket or the world learns that its asynchronous queries     *)
(* have been executed. A QueryCallback is a chain: the future of one query *)
(* and a queue of callbacks, each of which may send the next query. The    *)
(* owner adds chains, also from inside a callback, and passes over them    *)
(* once per update; meanwhile the workers of the database pool execute     *)
(* queries in any order, between any two steps of a pass.                  *)
(***************************************************************************)
EXTENDS Naturals, Sequences, Functions

CONSTANTS
  Chain,      \* the QueryCallback objects
  MaxQueries  \* bound: queries one chain may send

ASSUME ChainAssumption == MaxQueries \in Nat \ {0}

VARIABLES
  stored,     \* _callbacks of the processor, between the passes
  inPass,     \* ProcessReadyQueries is on the stack
  walk,       \* updateCallbacks: those still to be visited
  kept,       \* updateCallbacks: those visited and not removed
  future,     \* the future of each chain: "none" (not valid), "sent" or "ready"
  callbacks,  \* how many callbacks each chain has left
  queries,    \* how many queries each chain has sent
  invoked     \* how many callbacks of each chain have run

lists == <<stored, inPass, walk, kept>>
chains == <<future, callbacks, queries, invoked>>
vars == <<lists, chains>>

Init ==
  /\ stored = <<>> /\ inPass = FALSE /\ walk = <<>> /\ kept = <<>>
  /\ future = [c \in Chain |-> "none"]
  /\ callbacks = [c \in Chain |-> 0]
  /\ queries = [c \in Chain |-> 0]
  /\ invoked = [c \in Chain |-> 0]

-----------------------------------------------------------------------------
(* The owner *)

Current == Head(walk)

\* The chain visited has its result: its callback is running.
Ready == inPass /\ walk # <<>> /\ future[Current] = "ready"

\* AsyncQuery(...).With[Chaining]PreparedCallback(...), n callbacks in all,
\* given to the processor outside a pass or by the callback that is running.
AddQuery(c, n) ==
  /\ ~inPass \/ Ready
  /\ queries[c] = 0 /\ n \in 1..MaxQueries
  /\ future' = [future EXCEPT ![c] = "sent"]
  /\ queries' = [queries EXCEPT ![c] = 1]
  /\ callbacks' = [callbacks EXCEPT ![c] = n]
  /\ stored' = Append(stored, c)
  /\ UNCHANGED <<invoked, inPass, walk, kept>>

BeginPass ==
  /\ ~inPass /\ stored # <<>>
  /\ inPass' = TRUE /\ walk' = stored /\ stored' = <<>>
  /\ UNCHANGED <<kept, chains>>

-----------------------------------------------------------------------------
(* InvokeIfReady on the chain at the head of walk *)

Keep ==
  /\ walk' = Tail(walk) /\ kept' = Append(kept, Current)
  /\ UNCHANGED <<stored, inPass>>

Remove == walk' = Tail(walk) /\ UNCHANGED <<stored, inPass, kept>>

NotReady ==
  /\ inPass /\ walk # <<>> /\ future[Current] # "ready"
  /\ Keep /\ UNCHANGED chains

\* The callback runs with its result, calls SetNextQuery, perhaps after
\* adding the callback that will receive it (more = 1), and returns: NextStep.
NextStep(more) ==
  /\ Ready
  /\ queries[Current] < MaxQueries
  /\ callbacks[Current] + more > 1
  /\ future' = [future EXCEPT ![Current] = "sent"]
  /\ queries' = [queries EXCEPT ![Current] = @ + 1]
  /\ callbacks' = [callbacks EXCEPT ![Current] = @ + more - 1]
  /\ invoked' = [invoked EXCEPT ![Current] = @ + 1]
  /\ Keep

\* Mutant: a chain without a next query is not aborted.
StayInChain ==
  /\ callbacks' = [callbacks EXCEPT ![Current] = @ - 1]
  /\ IF callbacks[Current] = 1 THEN Remove ELSE Keep

\* Nothing comes next: the chain is complete, or aborted with callbacks left.
Leave == callbacks' = [callbacks EXCEPT ![Current] = @ - 1] /\ Remove

\* The future is moved out of the chain before its callback runs.
MoveOut == future' = [future EXCEPT ![Current] = "none"]

Completed ==
  /\ Ready
  /\ MoveOut
  /\ invoked' = [invoked EXCEPT ![Current] = @ + 1]
  /\ Leave
  /\ UNCHANGED queries

\* Mutant: what was added during the pass is overwritten.
OverwriteList == stored' = kept

GiveBack == stored' = stored \o kept

EndPass ==
  /\ inPass /\ walk = <<>>
  /\ inPass' = FALSE /\ kept' = <<>> /\ GiveBack
  /\ UNCHANGED <<walk, chains>>

-----------------------------------------------------------------------------
\* A worker executes the query and sets the value of its promise.
SetValue(c) ==
  /\ future[c] = "sent"
  /\ future' = [future EXCEPT ![c] = "ready"]
  /\ UNCHANGED <<lists, callbacks, queries, invoked>>

ProcessReadyQueries ==
  BeginPass \/ NotReady \/ (\E more \in 0..1 : NextStep(more)) \/ Completed \/ EndPass

Next ==
  \/ \E c \in Chain, n \in 1..MaxQueries : AddQuery(c, n)
  \/ ProcessReadyQueries
  \/ \E c \in Chain : SetValue(c)

Spec == Init /\ [][Next]_vars

\* The owner updates for as long as it lives, and the workers execute what is
\* queued (EveryOperationExecuted of DatabaseWorkerPool).
FairSpec ==
  Spec /\ WF_vars(ProcessReadyQueries) /\ \A c \in Chain : WF_vars(SetValue(c))

-----------------------------------------------------------------------------
(* Properties *)

TypeOK ==
  /\ {stored, walk, kept} \subseteq Seq(Chain)
  /\ inPass \in BOOLEAN
  /\ future \in [Chain -> {"none", "sent", "ready"}]
  /\ {callbacks, queries, invoked} \subseteq [Chain -> Nat]

Lists == {stored, walk, kept}
In(c, list) == c \in Range(list)
Held(c) == \E list \in Lists : In(c, list)

\* Whatever is added while a pass walks over the list, a chain that waits for
\* a query is in the hands of the processor, in one place only.
NothingLost ==
  /\ \A c \in Chain : future[c] # "none" => Held(c)
  /\ \A list \in Lists : IsInjective(list)
  /\ Range(stored) \cap (Range(walk) \cup Range(kept)) = {}
  /\ Range(walk) \cap Range(kept) = {}

\* The processor holds no chain that could not go on: there is a query to wait
\* for and a callback to give its result to (_callbacks.front() exists).
CanGoOn ==
  \A c \in Chain : Held(c) => future[c] # "none" /\ callbacks[c] > 0

\* A callback runs for each executed query and for no other: the callbacks
\* that have run are one behind the queries while one is waited for.
OneCallbackPerResult ==
  \A c \in Chain : queries[c] = invoked[c] + (IF future[c] = "none" THEN 0 ELSE 1)

\* The three: a chain is held exactly as long as a callback of it is due.
ChainsKept == NothingLost /\ CanGoOn /\ OneCallbackPerResult

\* Results are taken only after the worker has set them.
ResultsAreSet ==
  [][\A c \in Chain : invoked'[c] # invoked[c] =>
        future[c] = "ready" /\ invoked'[c] = invoked[c] + 1]_vars

\* Every chain ends: its last callback has run and the processor dropped it.
EveryChainEnds == \A c \in Chain : []<>(future[c] = "none" /\ ~Held(c))
=============================================================================
