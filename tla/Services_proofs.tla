--------------------------- MODULE Services_proofs ---------------------------
(* What components that keep to themselves promise, for any number of chains
   of queries, events, clients, producers and players: the callbacks of queries
   first, then the events of a unit, logins, the queue of buffers, the
   shutdown and the battleground queue.  At the end, the types of all of them,
   with those of sockets, trades and auctions.                               *)
EXTENDS Items_proofs, Sockets_proofs, DataFacts, SequenceTheorems, TLAPS

-----------------------------------------------------------------------------
(* The callbacks of queries, for chains of every length. *)

\* Between passes only _callbacks holds chains.
Shape == ~inPass => walk = <<>> /\ kept = <<>>

IInv == TypeOK /\ NothingLost /\ CanGoOn /\ OneCallbackPerResult /\ Shape

HeldChains == Range(stored) \cup Range(walk) \cup Range(kept)
-----------------------------------------------------------------------------
\* What the processor holds is in one of the three lists.
LEMMA HeldIs == \A c \in Chain : Held(c) <=> c \in HeldChains
  BY DEF Held, In, Lists, HeldChains

\* What CanGoOn says of those lists.
LEMMA CanGoOnIs ==
  CanGoOn <=> \A c \in Chain : c \in HeldChains => future[c] # "none" /\ callbacks[c] > 0
  BY HeldIs DEF CanGoOn

\* What NothingLost says, without the set of lists.
LEMMA NothingLostIs ==
  NothingLost <=>
    /\ \A c \in Chain : future[c] # "none" => c \in HeldChains
    /\ IsInjective(stored) /\ IsInjective(walk) /\ IsInjective(kept)
    /\ Range(stored) \cap (Range(walk) \cup Range(kept)) = {}
    /\ Range(walk) \cap Range(kept) = {}
  BY HeldIs DEF NothingLost, Lists

\* The invariant holds of an empty processor.
LEMMA Initially == Init => IInv
<1> SUFFICES ASSUME Init PROVE IInv
  OBVIOUS
<1>1. TypeOK
  <2>1. <<>> \in Seq(Chain)
    OBVIOUS
  <2>2. [c \in Chain |-> 0] \in [Chain -> Nat]
    OBVIOUS
  <2>3. [c \in Chain |-> "none"] \in [Chain -> {"none", "sent", "ready"}]
    OBVIOUS
  <2> QED  BY <2>1, <2>2, <2>3 DEF Init, TypeOK
<1>2. HeldChains = {} /\ IsInjective(<<>>)
  BY EmptySequence DEF Init, HeldChains
<1>3. NothingLost
  BY <1>2, NothingLostIs, EmptySequence DEF Init
<1>4. CanGoOn
  BY <1>2, HeldIs DEF CanGoOn
<1>5. OneCallbackPerResult /\ Shape
  BY DEF Init, OneCallbackPerResult, Shape
<1> QED  BY <1>1, <1>3, <1>4, <1>5 DEF IInv
-----------------------------------------------------------------------------
(* The lists *)

\* The chain visited goes from walk to kept, or leaves.
LEMMA VisitMoves ==
  ASSUME TypeOK, NothingLost, inPass, walk # <<>>
  PROVE  /\ Current \in Chain /\ Current \in HeldChains
         /\ Keep => /\ walk' \in Seq(Chain) /\ kept' \in Seq(Chain)
                    /\ HeldChains' = HeldChains
                    /\ IsInjective(walk') /\ IsInjective(kept') /\ IsInjective(stored')
                    /\ Range(stored') \cap (Range(walk') \cup Range(kept')) = {}
                    /\ Range(walk') \cap Range(kept') = {}
         /\ Remove => /\ walk' \in Seq(Chain)
                      /\ HeldChains' = HeldChains \ {Current}
                      /\ IsInjective(walk') /\ IsInjective(kept') /\ IsInjective(stored')
                      /\ Range(stored') \cap (Range(walk') \cup Range(kept')) = {}
                      /\ Range(walk') \cap Range(kept') = {}
<1>1. /\ stored \in Seq(Chain) /\ walk \in Seq(Chain) /\ kept \in Seq(Chain)
      /\ IsInjective(stored) /\ IsInjective(walk) /\ IsInjective(kept)
      /\ Range(stored) \cap (Range(walk) \cup Range(kept)) = {}
      /\ Range(walk) \cap Range(kept) = {}
  BY NothingLostIs DEF TypeOK
<1>2. /\ Current \in Chain /\ Tail(walk) \in Seq(Chain)
      /\ Range(walk) = {Current} \cup Range(Tail(walk))
  BY <1>1, RangeTail DEF Current
<1>3. IsInjective(Tail(walk)) /\ Current \notin Range(Tail(walk))
  BY <1>1, InjectiveTail DEF Current
<1>4. /\ Append(kept, Current) \in Seq(Chain)
      /\ Range(Append(kept, Current)) = Range(kept) \cup {Current}
      /\ IsInjective(Append(kept, Current))
  BY <1>1, <1>2, RangeAppend, InjectiveAppend
<1> QED  BY <1>1, <1>2, <1>3, <1>4 DEF Keep, Remove, HeldChains

\* Every step keeps each waiting chain in one place.
LEMMA ListsStep ==
  ASSUME IInv, [Next]_vars
  PROVE  NothingLost'
<1> DEFINE Apart ==
      /\ IsInjective(stored) /\ IsInjective(walk) /\ IsInjective(kept)
      /\ Range(stored) \cap (Range(walk) \cup Range(kept)) = {}
      /\ Range(walk) \cap Range(kept) = {}
<1> DEFINE Covered == \A c \in Chain : future[c] # "none" => c \in HeldChains
<1>1. Apart /\ Covered
  BY NothingLostIs DEF IInv
<1>2. /\ stored \in Seq(Chain) /\ walk \in Seq(Chain) /\ kept \in Seq(Chain)
      /\ future \in [Chain -> {"none", "sent", "ready"}]
      /\ TypeOK /\ NothingLost
  BY DEF IInv, TypeOK
<1>3. NothingLost' <=> Covered' /\ Apart'
  BY NothingLostIs, PTL
<1>4. ASSUME NEW c \in Chain, NEW n \in 1..MaxQueries, AddQuery(c, n)
      PROVE  Covered' /\ Apart'
  <2>1. c \notin HeldChains
    <3>1. queries[c] = 0 /\ queries[c] = invoked[c] + (IF future[c] = "none" THEN 0 ELSE 1)
          /\ invoked[c] \in Nat
      BY <1>4 DEF AddQuery, IInv, OneCallbackPerResult, TypeOK
    <3>2. future[c] = "none"
      BY <3>1
    <3> QED  BY <3>2, HeldIs DEF IInv, CanGoOn
  <2>2. Range(Append(stored, c)) = Range(stored) \cup {c}
    BY <1>2, RangeAppend
  <2>3. IsInjective(Append(stored, c))
    BY <1>1, <1>2, <2>1, InjectiveAppend DEF HeldChains
  <2>4. HeldChains' = HeldChains \cup {c}
    BY <1>4, <2>2 DEF AddQuery, HeldChains
  <2>5. Apart'
    BY <1>1, <1>4, <2>1, <2>2, <2>3 DEF AddQuery, HeldChains
  <2>6. Covered'
    BY <1>1, <1>2, <1>4, <2>4 DEF AddQuery
  <2> QED  BY <2>5, <2>6
<1>5. ASSUME BeginPass
      PROVE  Covered' /\ Apart'
  <2>1. walk = <<>> /\ kept = <<>> /\ Range(<<>>) = {} /\ IsInjective(<<>>)
    BY <1>5, EmptySequence DEF BeginPass, IInv, Shape
  <2> QED  BY <1>1, <1>5, <2>1 DEF BeginPass, HeldChains, chains
<1>6. ASSUME NotReady
      PROVE  Covered' /\ Apart'
  <2>1. HeldChains' = HeldChains /\ Apart'
    BY <1>1, <1>2, <1>6, VisitMoves DEF NotReady
  <2> QED  BY <1>1, <1>6, <2>1 DEF NotReady, chains
<1>7. ASSUME NEW more \in 0..1, NextStep(more)
      PROVE  Covered' /\ Apart'
  <2>1. HeldChains' = HeldChains /\ Apart' /\ Current \in HeldChains
    BY <1>1, <1>2, <1>7, VisitMoves DEF NextStep, Ready
  <2> QED  BY <1>1, <1>2, <1>7, <2>1 DEF NextStep
<1>8. ASSUME Completed
      PROVE  Covered' /\ Apart'
  <2>1. HeldChains' = HeldChains \ {Current} /\ Apart' /\ Current \in Chain
    BY <1>1, <1>2, <1>8, VisitMoves DEF Completed, Ready, Leave
  <2> QED  BY <1>1, <1>2, <1>8, <2>1 DEF Completed, MoveOut
<1>9. ASSUME EndPass
      PROVE  Covered' /\ Apart'
  <2>1. Range(stored \o kept) = Range(stored) \cup Range(kept) /\ IsInjective(stored \o kept)
    BY <1>1, <1>2, RangeConcat, InjectiveConcat
  <2>2. Range(<<>>) = {} /\ IsInjective(<<>>)
    BY EmptySequence
  <2> QED  BY <1>1, <1>9, <2>1, <2>2 DEF EndPass, GiveBack, HeldChains, chains
<1>10. ASSUME NEW c \in Chain, SetValue(c)
       PROVE  Covered' /\ Apart'
  BY <1>1, <1>2, <1>10 DEF SetValue, lists, HeldChains
<1>11. ASSUME UNCHANGED vars
       PROVE  Covered' /\ Apart'
  BY <1>1, <1>11 DEF vars, lists, chains, HeldChains
<1> QED  BY <1>3, <1>4, <1>5, <1>6, <1>7, <1>8, <1>9, <1>10, <1>11
         DEF Next, ProcessReadyQueries
-----------------------------------------------------------------------------
(* The chains *)

\* Every step keeps the types; a chain has a callback left when one is popped.
LEMMA TypeOKStep ==
  ASSUME IInv, [Next]_vars
  PROVE  TypeOK'
<1> USE DEF TypeOK
<1>0. TypeOK /\ NothingLost /\ MaxQueries \in Nat
  BY ChainAssumption DEF IInv
<1>1. ASSUME NEW c \in Chain, NEW n \in 1..MaxQueries, AddQuery(c, n)
      PROVE  TypeOK'
  BY <1>0, <1>1 DEF AddQuery
<1>2. CASE BeginPass
  BY <1>0, <1>2 DEF BeginPass, chains
<1>3. CASE NotReady
  BY <1>0, <1>3, VisitMoves DEF NotReady, Keep, chains
<1>4. ASSUME NEW more \in 0..1, NextStep(more)
      PROVE  TypeOK'
  <2>1. /\ Current \in Chain /\ walk' \in Seq(Chain) /\ kept' \in Seq(Chain)
        /\ stored' = stored /\ inPass' = inPass
    BY <1>0, <1>4, VisitMoves DEF NextStep, Ready, Keep
  <2>2. callbacks[Current] + more - 1 \in Nat
    BY <1>0, <1>4, <2>1 DEF NextStep
  <2> QED  BY <1>0, <1>4, <2>1, <2>2 DEF NextStep
<1>5. CASE Completed
  <2>1. /\ Current \in Chain /\ walk' \in Seq(Chain) /\ Current \in HeldChains
        /\ stored' = stored /\ inPass' = inPass /\ kept' = kept
    BY <1>0, <1>5, VisitMoves DEF Completed, Ready, Leave, Remove
  <2>2. callbacks[Current] - 1 \in Nat
    BY <1>0, <2>1, HeldIs DEF IInv, CanGoOn
  <2>3. callbacks' \in [Chain -> Nat] /\ invoked' \in [Chain -> Nat] /\ queries' \in [Chain -> Nat]
    BY <1>0, <1>5, <2>1, <2>2 DEF Completed, Leave
  <2>4. future' \in [Chain -> {"none", "sent", "ready"}]
    BY <1>0, <1>5 DEF Completed, MoveOut
  <2> QED  BY <1>0, <2>1, <2>3, <2>4
<1>6. CASE EndPass
  <2>1. stored \o kept \in Seq(Chain) /\ <<>> \in Seq(Chain)
    BY <1>0, RangeConcat
  <2> QED  BY <1>0, <1>6, <2>1 DEF EndPass, GiveBack, chains
<1>7. ASSUME NEW c \in Chain, SetValue(c)
      PROVE  TypeOK'
  BY <1>0, <1>7 DEF SetValue, lists
<1>8. CASE UNCHANGED vars
  BY <1>0, <1>8 DEF vars, lists, chains
<1> QED  BY <1>1, <1>2, <1>3, <1>4, <1>5, <1>6, <1>7, <1>8 DEF Next, ProcessReadyQueries

\* Queries and callbacks advance together.
LEMMA OneCallbackStep ==
  ASSUME IInv, [Next]_vars
  PROVE  OneCallbackPerResult'
<1> USE DEF OneCallbackPerResult
<1>0. /\ TypeOK /\ NothingLost /\ OneCallbackPerResult
      /\ future \in [Chain -> {"none", "sent", "ready"}]
      /\ queries \in [Chain -> Nat] /\ invoked \in [Chain -> Nat]
  BY DEF IInv, TypeOK
<1>1. ASSUME NEW c \in Chain, NEW n \in 1..MaxQueries, AddQuery(c, n)
      PROVE  OneCallbackPerResult'
  BY <1>0, <1>1 DEF AddQuery
<1>2. CASE BeginPass \/ NotReady \/ EndPass \/ UNCHANGED vars
  BY <1>0, <1>2 DEF BeginPass, NotReady, EndPass, vars, chains
<1>3. ASSUME NEW more \in 0..1, NextStep(more)
      PROVE  OneCallbackPerResult'
  <2>1. Current \in Chain /\ future[Current] = "ready"
    BY <1>0, <1>3, VisitMoves DEF NextStep, Ready
  <2> QED  BY <1>0, <1>3, <2>1 DEF NextStep
<1>4. CASE Completed
  <2>1. Current \in Chain /\ future[Current] = "ready"
    BY <1>0, <1>4, VisitMoves DEF Completed, Ready
  <2> QED  BY <1>0, <1>4, <2>1 DEF Completed, MoveOut
<1>5. ASSUME NEW c \in Chain, SetValue(c)
      PROVE  OneCallbackPerResult'
  BY <1>0, <1>5 DEF SetValue
<1> QED  BY <1>1, <1>2, <1>3, <1>4, <1>5 DEF Next, ProcessReadyQueries

\* A chain stays in the lists only with a query and a callback.
LEMMA CanGoOnStep ==
  ASSUME IInv, [Next]_vars
  PROVE  CanGoOn'
<1> DEFINE Going == \A c \in Chain : c \in HeldChains => future[c] # "none" /\ callbacks[c] > 0
<1>0. /\ TypeOK /\ NothingLost
      /\ future \in [Chain -> {"none", "sent", "ready"}]
      /\ callbacks \in [Chain -> Nat]
      /\ HeldChains \subseteq Chain
  BY RangeType DEF IInv, TypeOK, HeldChains
<1>1. Going
  BY <1>0, HeldIs DEF IInv, CanGoOn
<1>2. Going' => CanGoOn'
  BY CanGoOnIs, PTL
<1>3. ASSUME NEW c \in Chain, NEW n \in 1..MaxQueries, AddQuery(c, n)
      PROVE  Going'
  <2>1. HeldChains' = HeldChains \cup {c}
    BY <1>0, <1>3, RangeAppend DEF AddQuery, HeldChains, TypeOK
  <2> QED  BY <1>0, <1>1, <1>3, <2>1, ChainAssumption DEF AddQuery
<1>4. CASE BeginPass
  <2>1. HeldChains' = HeldChains
    BY <1>4, EmptySequence DEF BeginPass, HeldChains, IInv, Shape
  <2> QED  BY <1>1, <1>4, <2>1, <1>2 DEF BeginPass, chains
<1>5. CASE NotReady
  <2>1. HeldChains' = HeldChains
    BY <1>0, <1>5, VisitMoves DEF NotReady
  <2> QED  BY <1>1, <1>5, <2>1, <1>2 DEF NotReady, chains
<1>6. ASSUME NEW more \in 0..1, NextStep(more)
      PROVE  Going'
  <2>1. HeldChains' = HeldChains /\ Current \in Chain
    BY <1>0, <1>6, VisitMoves DEF NextStep, Ready
  <2>2. callbacks[Current] + more - 1 > 0
    BY <1>0, <1>6, <2>1 DEF NextStep
  <2> QED  BY <1>0, <1>1, <1>6, <2>1, <2>2 DEF NextStep
<1>7. CASE Completed
  <2>1. HeldChains' = HeldChains \ {Current} /\ Current \in Chain
    BY <1>0, <1>7, VisitMoves DEF Completed, Ready, Leave
  <2> QED  BY <1>0, <1>1, <1>2, <1>7, <2>1 DEF Completed, MoveOut, Leave
<1>8. CASE EndPass
  <2>1. HeldChains' = HeldChains
    BY <1>0, <1>8, RangeConcat, EmptySequence DEF EndPass, GiveBack, HeldChains, TypeOK
  <2> QED  BY <1>1, <1>8, <2>1, <1>2 DEF EndPass, chains
<1>9. ASSUME NEW c \in Chain, SetValue(c)
      PROVE  Going'
  <2>1. HeldChains' = HeldChains
    BY <1>9 DEF SetValue, lists, HeldChains
  <2> QED  BY <1>0, <1>1, <1>9, <2>1 DEF SetValue
<1>10. CASE UNCHANGED vars
  <2>1. HeldChains' = HeldChains
    BY <1>10 DEF vars, lists, HeldChains
  <2> QED  BY <1>1, <1>2, <1>10, <2>1 DEF vars, chains
<1> QED  BY <1>2, <1>3, <1>4, <1>5, <1>6, <1>7, <1>8, <1>9, <1>10 DEF Next, ProcessReadyQueries

\* A pass empties walk before it ends, and kept as it ends.
LEMMA ShapeStep ==
  ASSUME IInv, [Next]_vars
  PROVE  Shape'
  BY DEF IInv, Shape, Next, ProcessReadyQueries, AddQuery, BeginPass, NotReady, NextStep, Completed,
         EndPass, SetValue, Ready, Keep, Leave, Remove, vars, lists
-----------------------------------------------------------------------------
(* Theorems *)

\* Whatever is added and executed during a pass, the conjunction of the
\* invariants is kept by every step of owner and workers.
THEOREM InductiveInvariant == Spec => []IInv
<1>1. IInv /\ [Next]_vars => IInv'
  BY TypeOKStep, ListsStep, CanGoOnStep, OneCallbackStep, ShapeStep DEF IInv
<1> QED  BY Initially, <1>1, PTL DEF Spec

\* No chain that waits for a query escapes the processor or is held twice,
\* even if callbacks add chains while the list is being walked over.
THEOREM ChainsAreKept == Spec => []NothingLost
  BY InductiveInvariant, PTL DEF IInv

\* The processor never calls a callback that does not exist and never keeps a
\* chain for whose query it would wait forever.
THEOREM ChainsCanGoOn == Spec => []CanGoOn
  BY InductiveInvariant, PTL DEF IInv

\* One callback has run for each query that was executed and taken.
THEOREM ResultsUsedOnce == Spec => []OneCallbackPerResult
  BY InductiveInvariant, PTL DEF IInv

\* A callback runs only with a result that a worker has set.
THEOREM ResultsSetBeforeUse == Spec => ResultsAreSet
<1> DEFINE Used == \A c \in Chain : invoked'[c] # invoked[c] =>
                     future[c] = "ready" /\ invoked'[c] = invoked[c] + 1
<1>1. ASSUME IInv, [Next]_vars
      PROVE  Used
  <2>0. TypeOK /\ NothingLost /\ invoked \in [Chain -> Nat]
    BY <1>1 DEF IInv, TypeOK
  <2>1. CASE \E more \in 0..1 : NextStep(more)
    <3>1. Current \in Chain /\ future[Current] = "ready"
      BY <2>0, <2>1, VisitMoves DEF NextStep, Ready
    <3> QED  BY <2>0, <2>1, <3>1 DEF NextStep
  <2>2. CASE Completed
    <3>1. Current \in Chain /\ future[Current] = "ready"
      BY <2>0, <2>2, VisitMoves DEF Completed, Ready
    <3> QED  BY <2>0, <2>2, <3>1 DEF Completed
  <2> QED  BY <1>1, <2>1, <2>2 DEF Next, ProcessReadyQueries, AddQuery, BeginPass, NotReady,
                                    EndPass, SetValue, vars, chains
<1>2. IInv /\ [Next]_vars => [Used]_vars
  BY <1>1
<1> QED  BY <1>2, InductiveInvariant, PTL DEF Spec, ResultsAreSet

\* For every set of chains, however long: one that waits is in the processor
\* once, has a callback to call, and has called one for each executed query.
THEOREM ChainsAreSound == Spec => []ChainsKept
<1>1. IInv => ChainsKept
  BY DEF IInv, ChainsKept
<1> QED  BY <1>1, InductiveInvariant, PTL

-----------------------------------------------------------------------------
(* The events of a unit *)

EventTypes ==
  /\ Processor!Queued \subseteq Events /\ event \in Events \cup {NoEvent} /\ completed \subseteq Events
  /\ state \in [Events -> {"unborn", "running", "abort_scheduled", "aborted", "deleted"}]
  /\ aborts \in [Events -> Nat]

\* What an event's state says of its abortion and its completion.
Ends ==
  /\ \A e \in Events :
       /\ state[e] \in {"unborn", "running", "abort_scheduled"} => aborts[e] = 0 /\ e \notin completed
       /\ state[e] = "aborted" => aborts[e] = 1 /\ e \notin completed
       /\ state[e] = "deleted" => aborts[e] = IF e \in completed THEN 0 ELSE 1
  /\ event # NoEvent => state[event] = "running"

\* An event is used while it is queued or executed, and never both.
Placed ==
  /\ \A e \in Events : (state[e] \notin {"unborn", "deleted"}) <=> (e \in Processor!Queued \/ e = event)
  /\ event \notin Processor!Queued

EventInv == EventTypes /\ Placed /\ Ends

\* The queue after events were added or taken out.
LEMMA QueueChanges ==
  /\ \A e, left : DOMAIN Processor!With(e, left) = Processor!Queued \cup {e}
  /\ \A es : DOMAIN Processor!Without(es) = Processor!Queued \ es
BY DEF Processor!With, Processor!Without, Processor!Queued

\* Nothing is queued at first.
LEMMA EventInit == Processor!Init => EventInv
<1> SUFFICES ASSUME Processor!Init PROVE EventInv
  OBVIOUS
<1>1. Processor!Queued = {} /\ event = NoEvent /\ completed = {}
      /\ state = [e \in Events |-> "unborn"] /\ aborts = [e \in Events |-> 0]
  BY DEF Processor!Init, Processor!Queued
<1> QED BY <1>1, EventsAssumption DEF EventInv, Placed, EventTypes, Ends, Processor!EventAssumption

\* KillAllEvents and the destructor: all queued events that were not are
\* aborted, and those in gone are deleted.
LEMMA KillStep ==
  ASSUME EventInv, NEW gone \in SUBSET Processor!Queued, UNCHANGED <<event, completed>>,
         aborts' = Processor!Aborted(Processor!NotAborted),
         state' = [e \in Events |-> IF e \in gone THEN "deleted"
                                    ELSE IF e \in Processor!Queued THEN "aborted" ELSE state[e]],
         Processor!Queued' = Processor!Queued \ gone
  PROVE  EventInv'
<1>1. \A e \in Events :
        aborts'[e] = IF e \in Processor!Queued /\ state[e] # "aborted" THEN aborts[e] + 1 ELSE aborts[e]
  BY DEF Processor!Aborted, Processor!NotAborted
<1>2. aborts' \in [Events -> Nat]
  BY DEF Processor!Aborted, EventInv, EventTypes
<1>3. \A e \in Events : e \in Processor!Queued => state[e] \in {"running", "abort_scheduled", "aborted"}
  BY DEF EventInv, EventTypes, Placed
<1>4. EventTypes' /\ Placed'
  BY <1>2 DEF EventInv, EventTypes, Placed
<1>5. Ends'
  BY <1>1, <1>3 DEF EventInv, EventTypes, Placed, Ends
<1> QED BY <1>4, <1>5 DEF EventInv

\* Every step of the unit's code and of Update.
LEMMA EventStep == EventInv /\ [Processor!Next]_Processor!vars => EventInv'
<1> SUFFICES ASSUME EventInv, [Processor!Next]_Processor!vars PROVE EventInv'
  OBVIOUS
<1>n. NoEvent \notin Events
  BY EventsAssumption DEF Processor!EventAssumption
<1>u. ASSUME Processor!Queued' = Processor!Queued, UNCHANGED <<state, event, aborts, completed>>
      PROVE  EventInv'
  BY <1>u DEF EventInv, EventTypes, Placed, Ends
<1>1. ASSUME NEW e \in Events, NEW left \in 0..MaxLeft, Processor!AddEvent(e, left) PROVE EventInv'
  <2>1. Processor!Queued' = Processor!Queued \cup {e} /\ state[e] = "unborn"
        /\ state' = [state EXCEPT ![e] = "running"] /\ UNCHANGED <<event, aborts, completed>>
    BY <1>1, QueueChanges DEF Processor!AddEvent, Processor!Queued
  <2> QED BY <2>1, <1>n DEF EventInv, EventTypes, Placed, Ends
<1>2. ASSUME NEW e \in Events, NEW left \in 0..MaxLeft, Processor!ModifyEventTime(e, left) PROVE EventInv'
  <2>1. Processor!Queued' = Processor!Queued
    BY <1>2, QueueChanges DEF Processor!ModifyEventTime, Processor!Queued
  <2> QED BY <1>u, <1>2, <2>1 DEF Processor!ModifyEventTime
<1>3. ASSUME NEW e \in Events, Processor!ScheduleAbort(e) PROVE EventInv'
  <2>1. Processor!Queued' = Processor!Queued /\ e \in Processor!Queued /\ state[e] = "running"
        /\ state' = [state EXCEPT ![e] = "abort_scheduled"] /\ UNCHANGED <<event, aborts, completed>>
    BY <1>3 DEF Processor!ScheduleAbort, Processor!Queued
  <2> QED BY <2>1, <1>n DEF EventInv, EventTypes, Placed, Ends
<1>4. ASSUME NEW e \in Events, Processor!SpellUsed(e) PROVE EventInv'
  BY <1>u, <1>4 DEF Processor!SpellUsed, Processor!Queued
<1>5. CASE Processor!KillAllEvents
  <2> DEFINE gone == {e \in Processor!Queued : deletable[e]}
  <2>1. /\ gone \in SUBSET Processor!Queued /\ UNCHANGED <<event, completed>>
        /\ aborts' = Processor!Aborted(Processor!NotAborted)
        /\ state' = [e \in Events |-> IF e \in gone THEN "deleted"
                                      ELSE IF e \in Processor!Queued THEN "aborted" ELSE state[e]]
        /\ m_events' = Processor!Without(gone)
    BY <1>5 DEF Processor!KillAllEvents, Processor!Kill, Processor!Erased
  <2>2. Processor!Queued' = Processor!Queued \ gone
    BY <2>1, QueueChanges DEF Processor!Queued
  <2> QED BY <2>1, <2>2, KillStep
<1>6. CASE Processor!Destroy
  <2>1. /\ Processor!Queued \in SUBSET Processor!Queued /\ UNCHANGED <<event, completed>>
        /\ aborts' = Processor!Aborted(Processor!NotAborted)
        /\ state' = [e \in Events |-> IF e \in Processor!Queued THEN "deleted"
                                      ELSE IF e \in Processor!Queued THEN "aborted" ELSE state[e]]
        /\ m_events' = Processor!Without(Processor!Queued)
    <3>1. {e \in Processor!Queued : TRUE \/ deletable[e]} = Processor!Queued
      OBVIOUS
    <3> QED BY <1>6, <3>1 DEF Processor!Destroy, Processor!Kill, Processor!Erased
  <2>2. Processor!Queued' = Processor!Queued \ Processor!Queued
    BY <2>1, QueueChanges DEF Processor!Queued
  <2> QED BY <2>1, <2>2, KillStep
<1>7. CASE Processor!BeginUpdate
  <2>1. Processor!Queued' = Processor!Queued
    BY <1>7 DEF Processor!BeginUpdate, Processor!Queued
  <2> QED BY <1>u, <1>7, <2>1 DEF Processor!BeginUpdate
<1>8. CASE Processor!EndUpdate
  BY <1>u, <1>8 DEF Processor!EndUpdate, Processor!Queued
<1>9. CASE Processor!Complete
  <2>1. event # NoEvent /\ event' = NoEvent /\ completed' = completed \cup {event}
        /\ state' = [state EXCEPT ![event] = "deleted"] /\ Processor!Queued' = Processor!Queued
        /\ aborts' = aborts
    BY <1>9 DEF Processor!Complete, Processor!Queued
  <2> QED BY <2>1, <1>n DEF EventInv, EventTypes, Placed, Ends
<1>10. ASSUME NEW e \in Events, Processor!Execute(e) PROVE EventInv'
  <2>1. event = NoEvent /\ event' = e /\ e \in Processor!Queued /\ state[e] = "running"
        /\ Processor!Queued' = Processor!Queued \ {e} /\ UNCHANGED <<state, aborts, completed>>
    BY <1>10, QueueChanges DEF Processor!Execute, Processor!Due, Processor!Queued
  <2> QED BY <2>1, <1>n DEF EventInv, EventTypes, Placed, Ends
<1>11. ASSUME NEW e \in Events, Processor!Discard(e) PROVE EventInv'
  <2>1. /\ event = NoEvent /\ e \in Processor!Queued /\ state[e] # "running"
        /\ state' = [state EXCEPT ![e] = IF deletable[e] THEN "deleted" ELSE "aborted"]
        /\ UNCHANGED <<event, completed>>
    BY <1>11 DEF Processor!Discard, Processor!Due
  <2>2. aborts' = [f \in Events |->
          IF f \in (IF state[e] = "abort_scheduled" THEN {e} ELSE {}) THEN aborts[f] + 1 ELSE aborts[f]]
    BY <1>11 DEF Processor!Discard, Processor!Aborted
  <2>3. Processor!Queued' = IF deletable[e] THEN Processor!Queued \ {e} ELSE Processor!Queued
    <3>1. m_events' = IF deletable[e] THEN Processor!Without({e}) ELSE Processor!With(e, Processor!NextTick)
      BY <1>11 DEF Processor!Discard
    <3>2. CASE deletable[e]
      BY <3>1, <3>2, QueueChanges DEF Processor!Queued
    <3>3. CASE ~deletable[e]
      <4>1. DOMAIN m_events' = Processor!Queued \cup {e}
        BY <3>1, <3>3, QueueChanges
      <4> QED BY <3>3, <4>1, <2>1 DEF Processor!Queued
    <3> QED BY <3>2, <3>3
  <2>4. state[e] \in {"abort_scheduled", "aborted"}
    BY <2>1, <1>n DEF EventInv, EventTypes, Placed
  <2>5. EventTypes'
    BY <2>1, <2>2, <2>3 DEF EventInv, EventTypes
  <2>6. Placed'
    BY <2>1, <2>3, <1>n DEF EventInv, EventTypes, Placed
  <2>7. \A f \in Events : aborts'[f] = IF f = e /\ state[e] = "abort_scheduled" THEN aborts[f] + 1 ELSE aborts[f]
    BY <2>2
  <2>8. Ends'
    BY <2>1, <2>4, <2>7, <1>n DEF EventInv, EventTypes, Ends
  <2> QED BY <2>5, <2>6, <2>8 DEF EventInv
<1>12. ASSUME NEW left \in 0..MaxLeft, Processor!Repeat(left) PROVE EventInv'
  <2>1. event # NoEvent /\ event' = NoEvent /\ Processor!Queued' = Processor!Queued \cup {event}
        /\ UNCHANGED <<state, aborts, completed>>
    BY <1>12, QueueChanges DEF Processor!Repeat, Processor!Queued
  <2> QED BY <2>1, <1>n DEF EventInv, EventTypes, Placed, Ends
<1>13. CASE UNCHANGED Processor!vars
  BY <1>u, <1>13 DEF Processor!vars, Processor!Queued
<1> QED BY <1>1, <1>2, <1>3, <1>4, <1>5, <1>6, <1>7, <1>8, <1>9, <1>10, <1>11, <1>12, <1>13
        DEF Processor!Next, Processor!Update

\* EventProcessor: for any number of events, whatever their execution does to
\* others, each is queued, executing or deleted, and ends in one way.
THEOREM EventsAreSound == Processor!Spec => []EventsSound
<1>1. EventInv => EventsSound
  <2> SUFFICES ASSUME EventInv PROVE EventsSound
    OBVIOUS
  <2>1. Processor!QueuedOrRunning
    BY EventsAssumption
       DEF EventInv, EventTypes, Placed, Processor!EventAssumption, Processor!QueuedOrRunning, Processor!Born
  <2>2. Processor!EndsOneWay
    BY DEF EventInv, EventTypes, Ends, Processor!EndsOneWay
  <2> QED BY <2>1, <2>2 DEF EventsSound, Processor!EventsSound
<1> QED BY <1>1, EventInit, EventStep, PTL DEF Processor!Spec

\* Times, and who may go.
TimeTypes ==
  /\ m_events \in [Processor!Queued -> 0..MaxLeft]
  /\ deletable \in [Events -> BOOLEAN] /\ inUpdate \in BOOLEAN /\ alive \in BOOLEAN

\* Times run down, and are set to one that a caller gave or to the next turn.
LEMMA TimesStep == EventInv /\ TimeTypes /\ [Processor!Next]_Processor!vars => TimeTypes'
<1> SUFFICES ASSUME EventInv, TimeTypes, [Processor!Next]_Processor!vars PROVE TimeTypes'
  OBVIOUS
<1>n. MaxLeft \in Nat /\ MaxLeft >= 1
  BY EventsAssumption DEF Processor!EventAssumption
<1>q. \A e \in Processor!Queued : m_events[e] \in 0..MaxLeft
  BY DEF TimeTypes
<1>w. ASSUME NEW e, NEW left \in 0..MaxLeft, m_events' = Processor!With(e, left)
      PROVE  m_events' \in [Processor!Queued' -> 0..MaxLeft]
  <2>1. m_events' = [f \in Processor!Queued \cup {e} |-> IF f = e THEN left ELSE m_events[f]]
    BY <1>w DEF Processor!With
  <2>2. \A f \in Processor!Queued \cup {e} : (IF f = e THEN left ELSE m_events[f]) \in 0..MaxLeft
    BY <1>q
  <2> QED BY <2>1, <2>2 DEF Processor!Queued
<1>o. ASSUME NEW es, m_events' = Processor!Without(es)
      PROVE  m_events' \in [Processor!Queued' -> 0..MaxLeft]
  <2>1. m_events' = [f \in Processor!Queued \ es |-> m_events[f]]
    BY <1>o DEF Processor!Without
  <2> QED BY <1>q, <2>1 DEF Processor!Queued
<1>s. UNCHANGED m_events => m_events' \in [Processor!Queued' -> 0..MaxLeft]
  BY DEF TimeTypes, Processor!Queued
<1>1. ASSUME NEW e \in Events, NEW left \in 0..MaxLeft,
             Processor!AddEvent(e, left) \/ Processor!ModifyEventTime(e, left)
      PROVE  TimeTypes'
  <2>1. m_events' \in [Processor!Queued' -> 0..MaxLeft]
    BY <1>1, <1>w DEF Processor!AddEvent, Processor!ModifyEventTime
  <2> QED BY <1>1, <2>1 DEF TimeTypes, Processor!AddEvent, Processor!ModifyEventTime
<1>2. ASSUME NEW e \in Events, Processor!ScheduleAbort(e) \/ Processor!SpellUsed(e) PROVE TimeTypes'
  <2>1. deletable' \in [Events -> BOOLEAN]
    <3>1. CASE Processor!ScheduleAbort(e)
      BY <3>1 DEF TimeTypes, Processor!ScheduleAbort
    <3>2. CASE Processor!SpellUsed(e)
      <4>1. deletable' = [deletable EXCEPT ![e] = ~deletable[e]]
        BY <3>2, Zenon DEF Processor!SpellUsed
      <4>2. (~deletable[e]) \in BOOLEAN
        OBVIOUS
      <4>3. deletable \in [Events -> BOOLEAN]
        BY DEF TimeTypes
      <4> QED BY <4>1, <4>2, <4>3
    <3> QED BY <1>2, <3>1, <3>2
  <2> QED BY <1>2, <1>s, <2>1 DEF TimeTypes, Processor!ScheduleAbort, Processor!SpellUsed
<1>3. CASE Processor!KillAllEvents \/ Processor!Destroy
  <2>1. m_events' \in [Processor!Queued' -> 0..MaxLeft]
    BY <1>3, <1>o DEF Processor!KillAllEvents, Processor!Destroy, Processor!Kill, Processor!Erased
  <2> QED BY <1>3, <2>1 DEF TimeTypes, Processor!KillAllEvents, Processor!Destroy
<1>4. CASE Processor!BeginUpdate
  <2>1. m_events' = [e \in Processor!Queued |-> IF m_events[e] = 0 THEN 0 ELSE m_events[e] - 1]
    BY <1>4 DEF Processor!BeginUpdate
  <2>2. \A e \in Processor!Queued : (IF m_events[e] = 0 THEN 0 ELSE m_events[e] - 1) \in 0..MaxLeft
    BY <1>q, <1>n
  <2>3. m_events' \in [Processor!Queued' -> 0..MaxLeft]
    BY <2>1, <2>2 DEF Processor!Queued
  <2> QED BY <1>4, <2>3 DEF TimeTypes, Processor!BeginUpdate
<1>5. CASE Processor!EndUpdate \/ Processor!Complete
  BY <1>5, <1>s DEF TimeTypes, Processor!EndUpdate, Processor!Complete
<1>6. ASSUME NEW e \in Events, Processor!Execute(e) \/ Processor!Discard(e) PROVE TimeTypes'
  <2>1. Processor!NextTick \in 0..MaxLeft
    BY <1>n DEF Processor!NextTick
  <2>2. m_events' \in [Processor!Queued' -> 0..MaxLeft]
    <3>1. m_events' = Processor!Without({e}) \/ m_events' = Processor!With(e, Processor!NextTick)
      BY <1>6 DEF Processor!Execute, Processor!Discard
    <3> QED BY <2>1, <3>1, <1>w, <1>o
  <2> QED BY <1>6, <2>2 DEF TimeTypes, Processor!Execute, Processor!Discard
<1>7. ASSUME NEW left \in 0..MaxLeft, Processor!Repeat(left) PROVE TimeTypes'
  <2>1. m_events' \in [Processor!Queued' -> 0..MaxLeft]
    BY <1>7, <1>w DEF Processor!Repeat
  <2> QED BY <1>7, <2>1 DEF TimeTypes, Processor!Repeat
<1>8. CASE UNCHANGED Processor!vars
  BY <1>8, <1>s DEF TimeTypes, Processor!vars
<1> QED BY <1>1, <1>2, <1>3, <1>4, <1>5, <1>6, <1>7, <1>8 DEF Processor!Next, Processor!Update

\* EventProcessor: its variables have their types for any number of events.
LEMMA EventTypesAre == Processor!Spec => []Processor!TypeOK
<1>1. EventInv /\ TimeTypes => Processor!TypeOK
  <2> SUFFICES ASSUME EventInv, TimeTypes PROVE Processor!TypeOK
    OBVIOUS
  <2>1. {inUpdate, alive} \subseteq BOOLEAN /\ \A e \in Processor!Queued : m_events[e] \in 0..MaxLeft
    BY DEF TimeTypes
  <2> QED BY <2>1 DEF Processor!TypeOK, EventInv, EventTypes, TimeTypes
<1>2. Processor!Init => TimeTypes
  BY DEF Processor!Init, Processor!Queued, TimeTypes
<1> QED BY <1>1, <1>2, TimesStep, EventInit, EventStep, PTL DEF Processor!Spec

-----------------------------------------------------------------------------
(* AuthSession: a connection's status tells which query it runs, and who is
   told a key has it from the last one made or an earlier one.               *)

Commands == {"logon", "logon_proof", "reconnect", "reconnect_proof", "realms"}
Told == {"none", "logon", "logon_proof", "reconnect", "reconnect_proof", "realms", "refused", "banned"}
Statuses == {"none", "challenge", "logon_proof", "reconnect_proof", "authed", "waiting", "closed"}
Query == [sql : {"ip", "logon", "reconnect", "realms"}, key : Login!Keys \cup {NoKey}, done : BOOLEAN]
Client == [asks : Commands \cup {"none"}, told : Told, key : Login!Keys \cup {NoKey}, left : BOOLEAN]

LoginTypes ==
  /\ _status \in [Clients -> Statuses]
  /\ awaiting \in [Clients -> BOOLEAN] /\ asking \in [Clients -> Seq(Query)]
  /\ inbox \in [Clients -> Commands \cup {"none"}] /\ client \in [Clients -> Client]

\* A connection's query, and what its status, reading and client then are.
Fits(status, reads, qs, who) ==
  /\ Len(qs) <= 1
  /\ status = "none" => qs = <<>> /\ ~reads
  /\ qs # <<>> =>
       /\ qs[1].sql = "ip" => status = "challenge" /\ ~reads
       /\ qs[1].sql \in {"logon", "reconnect"} => status = "closed"
       /\ qs[1].sql = "realms" => status = "waiting"
       /\ qs[1].sql # "ip" /\ ~who.left => who.asks = qs[1].sql

\* The account's key is the last one made.
KeyIsLast == lastKey \in 0..MaxLogons /\ sessionkey = IF lastKey = 0 THEN NoKey ELSE lastKey

LoginInv ==
  /\ LoginTypes /\ KeyIsLast
  /\ \A c \in Clients : /\ Fits(_status[c], awaiting[c], asking[c], client[c])
                        /\ client[c].key \in {NoKey} \cup 1..lastKey

\* A step of one connection.
LEMMA OneConnection ==
  ASSUME LoginInv, NEW c \in Clients,
         NEW status \in Statuses,
         NEW qs \in Seq(Query), NEW who \in Client,
         NEW command \in Commands \cup {"none"},
         _status' = [_status EXCEPT ![c] = status],
         awaiting' \in [Clients -> BOOLEAN], \A d \in Clients : d # c => awaiting'[d] = awaiting[d],
         asking' = [asking EXCEPT ![c] = qs], client' = [client EXCEPT ![c] = who],
         inbox' = [inbox EXCEPT ![c] = command],
         KeyIsLast', lastKey' >= lastKey, who.key \in {NoKey} \cup 1..lastKey',
         Fits(status, awaiting'[c], qs, who)
  PROVE  LoginInv'
<1>1. LoginTypes'
  BY DEF LoginInv, LoginTypes
<1>2. ASSUME NEW d \in Clients PROVE Fits(_status'[d], awaiting'[d], asking'[d], client'[d])
  <2>1. CASE d = c
    BY <2>1 DEF LoginInv, LoginTypes
  <2>2. CASE d # c
    BY <2>2 DEF LoginInv, LoginTypes
  <2> QED BY <2>1, <2>2
<1>3. ASSUME NEW d \in Clients PROVE client'[d].key \in {NoKey} \cup 1..lastKey'
  BY DEF LoginInv, LoginTypes, KeyIsLast
<1> QED BY <1>1, <1>2, <1>3 DEF LoginInv

\* A sequence of at most one element is empty or its first one.
LEMMA AtMostOne ==
  ASSUME NEW S, NEW s \in Seq(S), Len(s) <= 1, s # <<>>
  PROVE  Len(s) = 1 /\ s[1] \in S /\ Head(s) = s[1] /\ Tail(s) = <<>>
<1>1. Len(s) \in Nat \ {0}
  BY EmptySeq, Zenon
<1>2. Len(s) = 1
  <2>1. \A n \in Nat \ {0} : n <= 1 => n = 1
    OBVIOUS
  <2> QED BY <1>1, <2>1, Zenon
<1>3. s[1] \in S /\ Head(s) = s[1]
  BY <1>2
<1>4. Tail(s) \in Seq(S) /\ Len(Tail(s)) = 0
  BY <1>2
<1>5. Tail(s) = <<>>
  BY <1>4, EmptySeq, Zenon
<1> QED BY <1>2, <1>3, <1>5

\* What the invariant says of one connection.
LEMMA ConnectionFacts ==
  ASSUME LoginInv, NEW c \in Clients
  PROVE  /\ _status[c] \in Statuses
         /\ awaiting[c] \in BOOLEAN /\ asking[c] \in Seq(Query) /\ client[c] \in Client
         /\ inbox[c] \in Commands \cup {"none"} /\ Fits(_status[c], awaiting[c], asking[c], client[c])
         /\ client[c].key \in {NoKey} \cup 1..lastKey /\ lastKey \in 0..MaxLogons /\ KeyIsLast
         /\ _status = [_status EXCEPT ![c] = _status[c]] /\ awaiting = [awaiting EXCEPT ![c] = awaiting[c]]
         /\ asking = [asking EXCEPT ![c] = asking[c]] /\ client = [client EXCEPT ![c] = client[c]]
         /\ inbox = [inbox EXCEPT ![c] = inbox[c]]
<1>1. /\ _status = [_status EXCEPT ![c] = _status[c]] /\ awaiting = [awaiting EXCEPT ![c] = awaiting[c]]
      /\ asking = [asking EXCEPT ![c] = asking[c]]
  BY DEF LoginInv, LoginTypes
<1>2. client = [client EXCEPT ![c] = client[c]] /\ inbox = [inbox EXCEPT ![c] = inbox[c]]
  BY DEF LoginInv, LoginTypes
<1> QED BY <1>1, <1>2 DEF LoginInv, LoginTypes, KeyIsLast

\* A step that leaves the connection and the account alone.
LEMMA ClientStep ==
  ASSUME LoginInv, NEW c \in Clients, NEW who \in Client, NEW command \in Commands \cup {"none"},
         client' = [client EXCEPT ![c] = who], inbox' = [inbox EXCEPT ![c] = command],
         UNCHANGED <<_status, awaiting, asking, sessionkey, lastKey>>,
         who.key = client[c].key, Fits(_status[c], awaiting[c], asking[c], who)
  PROVE  LoginInv'
<1>1. KeyIsLast' /\ lastKey' >= lastKey /\ who.key \in {NoKey} \cup 1..lastKey'
  BY ConnectionFacts DEF KeyIsLast
<1>2. /\ _status' = [_status EXCEPT ![c] = _status[c]] /\ asking' = [asking EXCEPT ![c] = asking[c]]
      /\ awaiting' \in [Clients -> BOOLEAN] /\ \A d \in Clients : d # c => awaiting'[d] = awaiting[d]
      /\ Fits(_status[c], awaiting'[c], asking[c], who)
  BY ConnectionFacts DEF LoginInv, LoginTypes
<1>3. _status[c] \in Statuses /\ asking[c] \in Seq(Query)
  BY ConnectionFacts
<1> QED BY <1>1, <1>2, <1>3, OneConnection

\* What is told to a client changes neither its key nor whether it has left.
LEMMA ToldFacts ==
  ASSUME LoginInv, NEW c \in Clients, NEW what \in Told
  PROVE  \E who \in Client : /\ Login!Told(c, what) = [client EXCEPT ![c] = who]
                             /\ who.key = client[c].key /\ who.left = client[c].left
<1> DEFINE who == [client[c] EXCEPT !.asks = "none", !.told = what]
<1>1. who \in Client /\ who.key = client[c].key /\ who.left = client[c].left
  BY ConnectionFacts DEF Client
<1>2. Login!Told(c, what) = [client EXCEPT ![c] = who]
  BY ConnectionFacts DEF Login!Told, LoginInv, LoginTypes
<1> QED BY <1>1, <1>2

\* A connection that is closed.
LEMMA CloseStep ==
  ASSUME LoginInv, NEW c \in Clients, Login!CloseSocket(c)
  PROVE  LoginInv'
<1> DEFINE who == [client[c] EXCEPT !.left = TRUE, !.asks = "none"]
<1>1. who \in Client /\ who.key = client[c].key /\ client' = [client EXCEPT ![c] = who]
  <2>1. who \in Client /\ who.key = client[c].key
    BY ConnectionFacts DEF Client
  <2>2. client' = [client EXCEPT ![c] = who]
    BY ConnectionFacts DEF Login!CloseSocket, LoginInv, LoginTypes
  <2> QED BY <2>1, <2>2
<1>2. <<>> \in Seq(Query)
  OBVIOUS
<1> HIDE DEF who
<1>3. lastKey' >= lastKey /\ KeyIsLast' /\ who.key \in {NoKey} \cup 1..lastKey'
  BY <1>1, ConnectionFacts DEF Login!CloseSocket, KeyIsLast
<1>4. "none" \in Commands \cup {"none"} /\ "none" \in Statuses
  BY DEF Statuses
<1>5. awaiting' \in [Clients -> BOOLEAN] /\ ~awaiting'[c] /\ \A d \in Clients : d # c => awaiting'[d] = awaiting[d]
  BY DEF LoginInv, LoginTypes, Login!CloseSocket
<1>6. Fits("none", awaiting'[c], <<>>, who)
  BY <1>5 DEF Fits
<1>7. /\ _status' = [_status EXCEPT ![c] = "none"] /\ asking' = [asking EXCEPT ![c] = <<>>]
      /\ inbox' = [inbox EXCEPT ![c] = "none"]
  BY DEF Login!CloseSocket
<1> QED BY <1>1, <1>2, <1>3, <1>4, <1>5, <1>6, <1>7, OneConnection

\* A query is begun where there is none.
LEMMA OneQuery ==
  ASSUME NEW sql \in {"ip", "logon", "reconnect", "realms"}
  PROVE  /\ Append(<<>>, Login!Running(sql)) = <<Login!Running(sql)>>
         /\ <<Login!Running(sql)>> \in Seq(Query) /\ Len(<<Login!Running(sql)>>) = 1
         /\ <<Login!Running(sql)>> # <<>> /\ <<Login!Running(sql)>>[1].sql = sql
<1>1. Login!Running(sql) \in Query /\ Login!Running(sql).sql = sql
  BY DEF Login!Running, Query
<1> DEFINE q == Login!Running(sql)
<1> HIDE DEF q
<1>2. Append(<<>>, q) = <<q>> /\ (q \in Query => <<q>> \in Seq(Query)) /\ Len(<<q>>) = 1 /\ <<q>> # <<>> /\ <<q>>[1] = q
  OBVIOUS
<1> QED BY <1>1, <1>2 DEF q

\* Start.
LEMMA StartStep ==
  ASSUME LoginInv, NEW c \in Clients, Login!Start(c)
  PROVE  LoginInv'
<1> DEFINE who == [Login!Stranger EXCEPT !.key = client[c].key, !.left = FALSE]
           qs == <<Login!Running("ip")>>
<1>1. who \in Client /\ who.key = client[c].key
  BY ConnectionFacts DEF Client, Login!Stranger, Told
<1>2. /\ _status[c] = "none" /\ _status' = [_status EXCEPT ![c] = "challenge"]
      /\ asking' = [asking EXCEPT ![c] = qs] /\ client' = [client EXCEPT ![c] = who]
      /\ UNCHANGED <<awaiting, sessionkey, lastKey, inbox>>
  BY DEF Login!Start
<1>3. qs \in Seq(Query) /\ Fits("challenge", awaiting[c], qs, who)
  BY <1>2, OneQuery, ConnectionFacts DEF Fits
<1> HIDE DEF who, qs
<1>4. lastKey' >= lastKey /\ KeyIsLast' /\ who.key \in {NoKey} \cup 1..lastKey'
  BY <1>1, <1>2, ConnectionFacts DEF KeyIsLast
<1>5. /\ awaiting' \in [Clients -> BOOLEAN] /\ \A d \in Clients : d # c => awaiting'[d] = awaiting[d]
      /\ Fits("challenge", awaiting'[c], qs, who)
  BY <1>2, <1>3 DEF LoginInv, LoginTypes
<1>6. inbox[c] \in Commands \cup {"none"} /\ inbox' = [inbox EXCEPT ![c] = inbox[c]] /\ "challenge" \in Statuses
  BY <1>2, ConnectionFacts DEF Statuses
<1> QED BY <1>1, <1>2, <1>3, <1>4, <1>5, <1>6, OneConnection

\* Send.
LEMMA SendStep ==
  ASSUME LoginInv, NEW c \in Clients, NEW command \in Commands, Login!Send(c, command)
  PROVE  LoginInv'
<1> DEFINE who == [client[c] EXCEPT !.asks = command]
<1>1. who \in Client /\ who.key = client[c].key /\ who.left = client[c].left /\ who.asks = command
  BY ConnectionFacts DEF Client
<1>2. /\ inbox' = [inbox EXCEPT ![c] = command] /\ client' = [client EXCEPT ![c] = who]
      /\ client[c].asks = "none" \/ (client[c].asks = "realms" /\ command = "realms")
      /\ ~client[c].left
      /\ UNCHANGED <<_status, awaiting, asking, sessionkey, lastKey>>
  BY ConnectionFacts DEF Login!Send, Login!Connected, Login!serverVars, LoginInv, LoginTypes
<1> HIDE DEF who
<1>3. Fits(_status[c], awaiting[c], asking[c], who)
  <2>1. asking[c] # <<>> => asking[c][1] \in Query
    BY ConnectionFacts, AtMostOne DEF Fits
  <2>2. asking[c] # <<>> => asking[c][1].sql # "none"
    BY <2>1 DEF Query
  <2> QED BY <1>1, <1>2, <2>2, ConnectionFacts DEF Fits
<1> QED BY <1>1, <1>2, <1>3, ClientStep

\* Leave.
LEMMA LeaveStep ==
  ASSUME LoginInv, NEW c \in Clients, Login!Leave(c)
  PROVE  LoginInv'
<1> DEFINE who == [client[c] EXCEPT !.left = TRUE, !.asks = "none"]
<1>1. who \in Client /\ who.key = client[c].key /\ who.left
  BY ConnectionFacts DEF Client
<1>2. client' = [client EXCEPT ![c] = who]
  BY ConnectionFacts DEF Login!Leave, LoginInv, LoginTypes
<1>3. UNCHANGED <<_status, awaiting, asking, sessionkey, lastKey, inbox>>
  BY DEF Login!Leave, Login!serverVars
<1> HIDE DEF who
<1>4. Fits(_status[c], awaiting[c], asking[c], who)
  BY <1>1, ConnectionFacts DEF Fits
<1>5. inbox' = [inbox EXCEPT ![c] = inbox[c]] /\ inbox[c] \in Commands \cup {"none"}
  BY <1>3, ConnectionFacts
<1> QED BY <1>1, <1>2, <1>3, <1>4, <1>5, ClientStep

\* A step of a connection that makes no key and leaves its reading alone.
LEMMA StatusStep ==
  ASSUME LoginInv, NEW c \in Clients, NEW status \in Statuses, NEW qs \in Seq(Query),
         NEW who \in Client, NEW command \in Commands \cup {"none"},
         _status' = [_status EXCEPT ![c] = status], asking' = [asking EXCEPT ![c] = qs],
         client' = [client EXCEPT ![c] = who], inbox' = [inbox EXCEPT ![c] = command],
         awaiting' = awaiting, sessionkey' = sessionkey, lastKey' = lastKey,
         who.key = client[c].key, Fits(status, awaiting[c], qs, who)
  PROVE  LoginInv'
<1>1. KeyIsLast' /\ lastKey' >= lastKey /\ who.key \in {NoKey} \cup 1..lastKey'
  BY ConnectionFacts DEF KeyIsLast
<1>2. /\ awaiting' \in [Clients -> BOOLEAN] /\ \A d \in Clients : d # c => awaiting'[d] = awaiting[d]
      /\ Fits(status, awaiting'[c], qs, who)
  BY DEF LoginInv, LoginTypes
<1> QED BY <1>1, <1>2, OneConnection

\* A connection that reads commands asks nothing, but while it is closed or waits.
LEMMA NothingAsked ==
  ASSUME LoginInv, NEW c \in Clients, awaiting[c], _status[c] \notin {"closed", "waiting"}
  PROVE  asking[c] = <<>>
<1> SUFFICES ASSUME asking[c] # <<>> PROVE FALSE
  OBVIOUS
<1>1. asking[c][1] \in Query
  BY ConnectionFacts, AtMostOne DEF Fits
<1>2. asking[c][1].sql \in {"ip", "logon", "reconnect", "realms"}
  BY <1>1 DEF Query
<1> QED BY <1>2, ConnectionFacts DEF Fits

\* A query that is run when the connection has none.
LEMMA AskStep ==
  ASSUME LoginInv, NEW c \in Clients, awaiting[c], ~Login!Refuses(c), Login!Ask(c),
         inbox' = [inbox EXCEPT ![c] = "none"], UNCHANGED awaiting
  PROVE  LoginInv'
<1> DEFINE sql == inbox[c]
           who == IF client[c].left THEN client[c] ELSE [client[c] EXCEPT !.asks = sql]
           status == Login!BusyStatus(sql)
           qs == <<Login!Running(sql)>>
<1>1. sql \in {"logon", "reconnect", "realms"}
  BY DEF Login!Ask
<1>2. _status[c] \in {"challenge", "authed"}
  BY <1>1 DEF Login!Refuses, Login!Expected
<1>3. asking[c] = <<>>
  BY <1>2, NothingAsked
<1>4. /\ who \in Client /\ who.key = client[c].key /\ who.left = client[c].left
      /\ ~who.left => who.asks = sql
  BY <1>1, ConnectionFacts DEF Client, Commands
<1>5. client' = [client EXCEPT ![c] = who]
  BY ConnectionFacts DEF Login!Ask, LoginInv, LoginTypes
<1>6. status \in Statuses /\ status = IF sql = "realms" THEN "waiting" ELSE "closed"
  BY DEF Statuses, Login!BusyStatus
<1>7. qs \in Seq(Query) /\ Append(<<>>, Login!Running(sql)) = qs /\ Len(qs) = 1 /\ qs # <<>>
      /\ qs[1].sql = sql
  BY <1>1, OneQuery
<1>8. /\ _status' = [_status EXCEPT ![c] = status] /\ asking' = [asking EXCEPT ![c] = qs]
      /\ UNCHANGED <<sessionkey, lastKey>>
  <2>1. asking' = [asking EXCEPT ![c] = Append(asking[c], Login!Running(sql))]
    BY DEF Login!Ask
  <2> HIDE DEF qs
  <2> QED BY <2>1, <1>3, <1>7 DEF Login!Ask
<1> HIDE DEF who, status, qs
<1>9. Fits(status, awaiting[c], qs, who)
  BY <1>1, <1>4, <1>6, <1>7 DEF Fits
<1>10. "none" \in Commands \cup {"none"}
  OBVIOUS
<1> QED BY <1>4, <1>5, <1>6, <1>7, <1>8, <1>9, <1>10, StatusStep

\* HandleLogonProof.
LEMMA LogonProofStep ==
  ASSUME LoginInv, NEW c \in Clients, awaiting[c], ~Login!Refuses(c), Login!LogonProof(c),
         inbox' = [inbox EXCEPT ![c] = "none"], UNCHANGED awaiting
  PROVE  LoginInv'
<1>1. _status[c] = "logon_proof"
  BY DEF Login!LogonProof, Login!Refuses, Login!Expected
<1>2. asking[c] = <<>> /\ asking[c] \in Seq(Query) /\ asking' = [asking EXCEPT ![c] = asking[c]]
  BY <1>1, NothingAsked, ConnectionFacts DEF Login!LogonProof
<1>3. /\ awaiting' \in [Clients -> BOOLEAN] /\ \A d \in Clients : d # c => awaiting'[d] = awaiting[d]
      /\ "none" \in Commands \cup {"none"} /\ {"authed", "closed"} \subseteq Statuses
      /\ {"logon_proof", "refused"} \subseteq Told
  BY DEF LoginInv, LoginTypes, Statuses, Told
<1>4. \A who : Fits("authed", awaiting'[c], asking[c], who) /\ Fits("closed", awaiting'[c], asking[c], who)
  BY <1>2 DEF Fits
<1>5. CASE lastKey < MaxLogons /\ lastKey' = lastKey + 1 /\ sessionkey' = lastKey'
           /\ client' = [Login!Told(c, "logon_proof") EXCEPT ![c].key = lastKey']
           /\ _status' = [_status EXCEPT ![c] = "authed"]
  <2> PICK before \in Client : Login!Told(c, "logon_proof") = [client EXCEPT ![c] = before]
    BY <1>3, ToldFacts
  <2> DEFINE who == [before EXCEPT !.key = lastKey']
  <2>1. lastKey' \in 1..MaxLogons /\ lastKey' >= lastKey /\ lastKey' \in 1..lastKey'
    BY <1>5, ConnectionFacts, LoginAssumption DEF Login!LogonAssumption
  <2>2. who \in Client /\ who.key = lastKey'
    BY <2>1 DEF Client, Login!Keys
  <2>3. client' = [client EXCEPT ![c] = who]
    BY <1>5 DEF LoginInv, LoginTypes
  <2> HIDE DEF who
  <2>4. KeyIsLast'
    BY <1>5, <2>1, ConnectionFacts DEF KeyIsLast
  <2>5. who.key \in {NoKey} \cup 1..lastKey' /\ "authed" \in Statuses /\ Fits("authed", awaiting'[c], asking[c], who)
    BY <1>3, <1>4, <2>1, <2>2
  <2>6. _status' = [_status EXCEPT ![c] = "authed"] /\ lastKey' >= lastKey
    BY <1>5, <2>1
  <2> QED BY <1>2, <1>3, <2>2, <2>3, <2>4, <2>5, <2>6, OneConnection
<1>6. CASE /\ client' = Login!Told(c, "refused")
           /\ _status' = [_status EXCEPT ![c] = "closed"]
           /\ UNCHANGED <<sessionkey, lastKey>>
  <2> PICK who \in Client : Login!Told(c, "refused") = [client EXCEPT ![c] = who] /\ who.key = client[c].key
    BY <1>3, ToldFacts
  <2>1. Fits("closed", awaiting[c], asking[c], who)
    BY <1>2 DEF Fits
  <2> QED BY <1>2, <1>3, <1>6, <2>1, StatusStep
<1> QED BY <1>5, <1>6 DEF Login!LogonProof, Login!StoreKey

\* HandleReconnectProof.
LEMMA ReconnectProofStep ==
  ASSUME LoginInv, NEW c \in Clients, awaiting[c], ~Login!Refuses(c), Login!ReconnectProof(c),
         inbox' = [inbox EXCEPT ![c] = "none"], UNCHANGED awaiting
  PROVE  LoginInv'
<1>1. _status[c] = "reconnect_proof"
  BY DEF Login!ReconnectProof, Login!Refuses, Login!Expected
<1>2. asking[c] = <<>> /\ asking[c] \in Seq(Query) /\ asking' = [asking EXCEPT ![c] = asking[c]]
  BY <1>1, NothingAsked, ConnectionFacts DEF Login!ReconnectProof
<1>3. "authed" \in Statuses /\ "none" \in Commands \cup {"none"} /\ "reconnect_proof" \in Told
  BY DEF Statuses, Told
<1> PICK who \in Client :
      Login!Told(c, "reconnect_proof") = [client EXCEPT ![c] = who] /\ who.key = client[c].key
  BY <1>3, ToldFacts
<1>4. Fits("authed", awaiting[c], asking[c], who)
  BY <1>2 DEF Fits
<1>5. /\ client' = [client EXCEPT ![c] = who] /\ _status' = [_status EXCEPT ![c] = "authed"]
      /\ UNCHANGED <<sessionkey, lastKey>>
  BY DEF Login!ReconnectProof
<1> QED BY <1>2, <1>3, <1>4, <1>5, StatusStep

\* A query that is over: the connection has none.
LEMMA QueryOver ==
  ASSUME LoginInv, NEW c \in Clients, NEW status \in Statuses, status # "none", NEW who \in Client,
         who.key = client[c].key, _status' = [_status EXCEPT ![c] = status],
         asking' = [asking EXCEPT ![c] = <<>>], client' = [client EXCEPT ![c] = who],
         awaiting' \in [Clients -> BOOLEAN], \A d \in Clients : d # c => awaiting'[d] = awaiting[d],
         sessionkey' = sessionkey, lastKey' = lastKey, inbox' = inbox
  PROVE  LoginInv'
<1> DEFINE none == <<>>
<1>1. asking' = [asking EXCEPT ![c] = none] /\ none \in Seq(Query)
  OBVIOUS
<1>2. Fits(status, awaiting'[c], none, who)
  BY DEF Fits
<1> HIDE DEF none
<1>3. inbox[c] \in Commands \cup {"none"} /\ inbox' = [inbox EXCEPT ![c] = inbox[c]]
  BY ConnectionFacts
<1>4. KeyIsLast' /\ lastKey' >= lastKey /\ who.key \in {NoKey} \cup 1..lastKey'
  BY ConnectionFacts DEF KeyIsLast
<1> QED BY <1>1, <1>2, <1>3, <1>4, OneConnection, Zenon

\* The only query is taken out.
LEMMA QueryTaken ==
  ASSUME LoginInv, NEW c \in Clients, asking[c] # <<>>,
         asking' = [asking EXCEPT ![c] = Tail(asking[c])]
  PROVE  /\ asking' = [asking EXCEPT ![c] = <<>>] /\ Head(asking[c]) = asking[c][1]
         /\ \E status \in Statuses : status # "none" /\ status = _status[c]
<1>1. asking[c] \in Seq(Query) /\ Len(asking[c]) <= 1
  BY ConnectionFacts DEF Fits
<1>2. Tail(asking[c]) = <<>> /\ Head(asking[c]) = asking[c][1]
  BY <1>1, AtMostOne
<1>3. asking' = [asking EXCEPT ![c] = <<>>]
  BY <1>2, Zenon
<1>4. _status[c] \in Statuses /\ _status[c] # "none"
  BY ConnectionFacts DEF Fits
<1> QED BY <1>2, <1>3, <1>4, Zenon

\* CheckIpCallback: reading begins, or the address is banned.
LEMMA CheckIpStep ==
  ASSUME LoginInv, NEW c \in Clients, asking[c] # <<>>, Login!CheckIpCallback(c),
         asking' = [asking EXCEPT ![c] = Tail(asking[c])], sessionkey' = sessionkey,
         lastKey' = lastKey, inbox' = inbox
  PROVE  LoginInv'
<1>1. asking' = [asking EXCEPT ![c] = <<>>]
  BY QueryTaken, Zenon
<1>2. PICK status \in Statuses : status # "none" /\ status = _status[c]
  BY QueryTaken
<1>3. _status' = [_status EXCEPT ![c] = status]
  BY <1>2, ConnectionFacts DEF Login!CheckIpCallback
<1>4. PICK who \in Client : who.key = client[c].key /\ client' = [client EXCEPT ![c] = who]
  <2>1. CASE UNCHANGED client
    <3>1. client[c] \in Client /\ client' = [client EXCEPT ![c] = client[c]]
      BY <2>1, ConnectionFacts
    <3> QED BY <3>1, Zenon
  <2>2. CASE client' = Login!Told(c, "banned")
    BY <2>2, ToldFacts DEF Told
  <2> QED BY <2>1, <2>2 DEF Login!CheckIpCallback
<1>5. awaiting' \in [Clients -> BOOLEAN] /\ \A d \in Clients : d # c => awaiting'[d] = awaiting[d]
  BY DEF Login!CheckIpCallback, Login!AsyncRead, LoginInv, LoginTypes
<1> QED BY <1>1, <1>2, <1>3, <1>4, <1>5, QueryOver, Zenon

\* A callback that tells the client something, and may change the status.
LEMMA CallbackStep ==
  ASSUME LoginInv, NEW c \in Clients, asking[c] # <<>>, NEW what \in Told, NEW status \in Statuses,
         status # "none", client' = Login!Told(c, what), _status' = [_status EXCEPT ![c] = status],
         asking' = [asking EXCEPT ![c] = Tail(asking[c])], awaiting' = awaiting,
         sessionkey' = sessionkey, lastKey' = lastKey, inbox' = inbox
  PROVE  LoginInv'
<1>1. asking' = [asking EXCEPT ![c] = <<>>]
  BY QueryTaken, Zenon
<1>2. PICK who \in Client : who.key = client[c].key /\ Login!Told(c, what) = [client EXCEPT ![c] = who]
  BY ToldFacts
<1>3. awaiting' \in [Clients -> BOOLEAN] /\ \A d \in Clients : d # c => awaiting'[d] = awaiting[d]
  BY DEF LoginInv, LoginTypes
<1>4. client' = [client EXCEPT ![c] = who]
  BY <1>2
<1> QED BY <1>1, <1>2, <1>3, <1>4, QueryOver, Zenon

\* Update: the callback of the query that was answered.
LEMMA UpdateStep ==
  ASSUME LoginInv, NEW c \in Clients, Login!Update(c)
  PROVE  LoginInv'
<1>1. /\ asking[c] # <<>> /\ asking' = [asking EXCEPT ![c] = Tail(asking[c])]
      /\ sessionkey' = sessionkey /\ lastKey' = lastKey /\ inbox' = inbox
  BY DEF Login!Update
<1>2. CASE Login!CheckIpCallback(c)
  BY <1>1, <1>2, CheckIpStep
<1>3. ASSUME NEW what \in Told, NEW status \in Statuses, status # "none", client' = Login!Told(c, what),
             _status' = [_status EXCEPT ![c] = status], awaiting' = awaiting
      PROVE  LoginInv'
  BY <1>1, <1>3, CallbackStep, Zenon
<1>t. Told = {"none", "logon", "logon_proof", "reconnect", "reconnect_proof", "realms", "refused", "banned"}
      /\ {"logon_proof", "reconnect_proof", "authed"} \subseteq Statuses
  BY DEF Told, Statuses
<1>4. CASE Login!LogonChallengeCallback(c)
  <2>1. CASE _status' = [_status EXCEPT ![c] = "logon_proof"] /\ client' = Login!Told(c, "logon")
    BY <1>3, <1>4, <1>t, <2>1 DEF Login!LogonChallengeCallback
  <2>2. CASE client' = Login!Told(c, "refused") /\ UNCHANGED _status
    <3>1. PICK status \in Statuses : status # "none" /\ status = _status[c]
      BY <1>1, QueryTaken
    <3>2. _status' = [_status EXCEPT ![c] = status]
      BY <2>2, <3>1, ConnectionFacts
    <3>3. awaiting' = awaiting /\ "refused" \in Told /\ client' = Login!Told(c, "refused")
      BY <1>4, <1>t, <2>2 DEF Login!LogonChallengeCallback
    <3> QED BY <1>3, <3>1, <3>2, <3>3, Zenon
  <2> QED BY <1>4, <2>1, <2>2 DEF Login!LogonChallengeCallback
<1>5. CASE Login!ReconnectChallengeCallback(c)
  BY <1>3, <1>5, <1>t DEF Login!ReconnectChallengeCallback
<1>6. CASE Login!RealmListCallback(c)
  BY <1>3, <1>6, <1>t DEF Login!RealmListCallback
<1> QED BY <1>2, <1>4, <1>5, <1>6 DEF Login!Update

\* Answer: the database answers, and leaves the query what it is.
LEMMA AnswerStep ==
  ASSUME LoginInv, NEW c \in Clients, Login!Answer(c)
  PROVE  LoginInv'
<1>1. UNCHANGED <<_status, awaiting, K, sessionkey, lastKey, inbox, client>>
  BY DEF Login!Answer
<1>2. PICK i \in DOMAIN asking[c] :
        asking' = [asking EXCEPT ![c][i].done = TRUE,
                     ![c][i].key = IF asking[c][i].sql = "reconnect" THEN sessionkey ELSE NoKey]
  BY DEF Login!Answer
<1> DEFINE q == asking[c][i]
           key == IF q.sql = "reconnect" THEN sessionkey ELSE NoKey
           answered == [q EXCEPT !.done = TRUE, !.key = key]
           qs == [asking[c] EXCEPT ![i] = answered]
<1>3. asking' = [asking EXCEPT ![c] = qs]
  BY <1>2 DEF LoginInv, LoginTypes
<1>4. asking[c] \in Seq(Query) /\ asking[c] # <<>> /\ Len(asking[c]) = 1 /\ i = 1
  <2>1. asking[c] \in Seq(Query) /\ Len(asking[c]) <= 1 /\ asking[c] # <<>>
    BY <1>2, ConnectionFacts DEF Fits
  <2> QED BY <1>2, <2>1, AtMostOne
<1>5. key \in Login!Keys \cup {NoKey}
  BY ConnectionFacts DEF KeyIsLast, Login!Keys
<1>6. q \in Query
  BY <1>4
<1> HIDE DEF key, q
<1>7. answered \in Query /\ answered.sql = q.sql
  BY <1>5, <1>6 DEF Query
<1> HIDE DEF answered
<1>8. qs \in Seq(Query) /\ Len(qs) = 1 /\ qs[1] = answered /\ qs # <<>>
  BY <1>4, <1>7
<1> HIDE DEF qs
<1>9. Fits(_status[c], awaiting[c], qs, client[c])
  BY <1>4, <1>7, <1>8, ConnectionFacts DEF Fits, q
<1>10. /\ _status[c] \in Statuses /\ client[c] \in Client /\ inbox[c] \in Commands \cup {"none"}
       /\ _status' = [_status EXCEPT ![c] = _status[c]] /\ client' = [client EXCEPT ![c] = client[c]]
       /\ inbox' = [inbox EXCEPT ![c] = inbox[c]]
  BY <1>1, ConnectionFacts
<1>11. UNCHANGED <<awaiting, sessionkey, lastKey>> /\ client[c].key = client[c].key
  BY <1>1
<1> QED BY <1>3, <1>8, <1>9, <1>10, <1>11, StatusStep

\* A step of any client or of its connection.
LEMMA LoginStep == LoginInv /\ [Login!Next]_Login!vars => LoginInv'
<1> SUFFICES ASSUME LoginInv, [Login!Next]_Login!vars PROVE LoginInv'
  OBVIOUS
<1>1. CASE UNCHANGED Login!vars
  BY <1>1 DEF Login!vars, LoginInv, LoginTypes, KeyIsLast
<1>2. ASSUME NEW c \in Clients, Login!ReadHandler(c) PROVE LoginInv'
  <2>1. CASE Login!CloseSocket(c)
    BY <2>1, CloseStep
  <2>2. ASSUME awaiting[c], ~Login!Refuses(c), inbox' = [inbox EXCEPT ![c] = "none"], UNCHANGED awaiting,
               Login!Ask(c) \/ Login!LogonProof(c) \/ Login!ReconnectProof(c)
        PROVE  LoginInv'
    BY <2>2, AskStep, LogonProofStep, ReconnectProofStep
  <2> QED BY <1>2, <2>1, <2>2 DEF Login!ReadHandler
<1>3. ASSUME NEW c \in Clients, Login!Server(c) PROVE LoginInv'
  BY <1>2, <1>3, CloseStep, UpdateStep, AnswerStep DEF Login!Server, Login!ReadError
<1>4. ASSUME NEW c \in Clients, NEW command \in Commands, Login!Send(c, command) PROVE LoginInv'
  BY <1>4, SendStep
<1> QED BY <1>1, <1>3, <1>4, StartStep, LeaveStep DEF Login!Next, Commands

\* Nobody is connected at first.
LEMMA LoginInit == Login!Init => LoginInv
<1> SUFFICES ASSUME Login!Init PROVE LoginInv
  OBVIOUS
<1>1. LoginTypes
  BY DEF Login!Init, LoginTypes, Login!Stranger, Statuses, Commands, Told, Client
<1>2. KeyIsLast
  BY LoginAssumption DEF Login!Init, Login!LogonAssumption, KeyIsLast
<1>3. ASSUME NEW c \in Clients
      PROVE  Fits(_status[c], awaiting[c], asking[c], client[c]) /\ client[c].key \in {NoKey} \cup 1..lastKey
  BY DEF Login!Init, Fits, Login!Stranger
<1> QED BY <1>1, <1>2, <1>3 DEF LoginInv

\* AuthSession: for any number of connections of an account, one has a query at
\* a time and its client waits for it, and a client told that it is logged in
\* finds its key in the database, or a later one's.
THEOREM LoginsAreSound == Login!Spec => []LoginsSound
<1>1. LoginInv => LoginsSound
  <2> SUFFICES ASSUME LoginInv PROVE LoginsSound
    OBVIOUS
  <2>1. Login!QueryIsAwaited
    <3> SUFFICES ASSUME NEW c \in Clients
                 PROVE  /\ Len(asking[c]) <= 1
                        /\ \A i \in DOMAIN asking[c] :
                             asking[c][i].sql # "ip" /\ ~client[c].left => client[c].asks = asking[c][i].sql
      BY DEF Login!QueryIsAwaited
    <3>1. Len(asking[c]) <= 1 /\ asking[c] \in Seq(Query)
      BY ConnectionFacts DEF Fits
    <3>2. ASSUME NEW i \in DOMAIN asking[c] PROVE asking[c] # <<>> /\ i = 1
      <4>1. asking[c] # <<>>
        OBVIOUS
      <4> QED BY <3>1, <4>1, AtMostOne
    <3> QED BY <3>1, <3>2, ConnectionFacts DEF Fits
  <2>2. Login!KeyIsStored
    BY ConnectionFacts, LoginAssumption DEF Login!KeyIsStored, KeyIsLast, Login!LogonAssumption, Login!Keys
  <2> QED BY <2>1, <2>2 DEF LoginsSound, Login!LoginsSound
<1> QED BY <1>1, LoginInit, LoginStep, PTL DEF Login!Spec

\* The keys connections have.
KeyTypes == K \in [Clients -> Login!Keys \cup {NoKey}]

\* A key is a new one, or comes with the answer to a query.
LEMMA KeysStep == LoginInv /\ KeyTypes /\ [Login!Next]_Login!vars => KeyTypes'
<1> SUFFICES ASSUME LoginInv, KeyTypes, [Login!Next]_Login!vars PROVE KeyTypes'
  OBVIOUS
<1>k. ASSUME NEW c \in Clients, NEW key \in Login!Keys \cup {NoKey}, K' = [K EXCEPT ![c] = key] PROVE KeyTypes'
  BY <1>k DEF KeyTypes
<1>u. UNCHANGED K => KeyTypes'
  BY DEF KeyTypes
<1>x. ASSUME NEW c \in Clients, Login!CloseSocket(c) PROVE KeyTypes'
  BY <1>x, <1>k DEF Login!CloseSocket
<1>1. ASSUME NEW c \in Clients, NEW command, Login!Start(c) \/ Login!Leave(c) \/ Login!Answer(c) \/ Login!Send(c, command)
      PROVE  KeyTypes'
  BY <1>1, <1>u DEF Login!Start, Login!Leave, Login!Answer, Login!Send, Login!serverVars
<1>2. ASSUME NEW c \in Clients, Login!ReadHandler(c) \/ Login!ReadError(c) PROVE KeyTypes'
  <2>1. CASE Login!CloseSocket(c)
    BY <2>1, <1>x
  <2>2. CASE Login!Ask(c) \/ Login!ReconnectProof(c)
    BY <2>2, <1>u DEF Login!Ask, Login!ReconnectProof
  <2>3. CASE Login!LogonProof(c)
    <3>1. CASE UNCHANGED K
      BY <3>1, <1>u
    <3>2. CASE lastKey < MaxLogons /\ lastKey' = lastKey + 1 /\ K' = [K EXCEPT ![c] = lastKey']
      <4>1. lastKey' \in Login!Keys
        BY <3>2, LoginAssumption DEF LoginInv, KeyIsLast, Login!LogonAssumption, Login!Keys
      <4> QED BY <3>2, <4>1, <1>k
    <3> QED BY <2>3, <3>1, <3>2 DEF Login!LogonProof
  <2> QED BY <1>2, <2>1, <2>2, <2>3 DEF Login!ReadHandler, Login!ReadError
<1>3. ASSUME NEW c \in Clients, Login!Update(c) PROVE KeyTypes'
  <2>1. asking[c] # <<>> /\ asking[c] \in Seq(Query)
    BY <1>3 DEF Login!Update, LoginInv, LoginTypes
  <2>2. Head(asking[c]).key \in Login!Keys \cup {NoKey}
    <3>1. Head(asking[c]) \in Query
      BY <2>1, HeadTailProperties
    <3> QED BY <3>1 DEF Query
  <2>3. UNCHANGED K \/ K' = [K EXCEPT ![c] = Head(asking[c]).key]
    BY <1>3 DEF Login!Update, Login!CheckIpCallback, Login!LogonChallengeCallback,
                Login!ReconnectChallengeCallback, Login!RealmListCallback
  <2> QED BY <2>2, <2>3, <1>u, <1>k
<1>4. CASE UNCHANGED Login!vars
  BY <1>4, <1>u DEF Login!vars
<1> QED BY <1>1, <1>2, <1>3, <1>4 DEF Login!Next, Login!Server

\* AuthSession: its variables have their types for any number of clients.
LEMMA LoginTypesAre == Login!Spec => []Login!TypeOK
<1>1. LoginInv /\ KeyTypes => Login!TypeOK
  <2> SUFFICES ASSUME LoginInv, KeyTypes PROVE Login!TypeOK
    OBVIOUS
  <2>1. sessionkey \in Login!Keys \cup {NoKey} /\ lastKey \in {0} \cup Login!Keys
    BY LoginAssumption DEF LoginInv, KeyIsLast, Login!LogonAssumption, Login!Keys
  <2> QED BY <2>1 DEF Login!TypeOK, LoginInv, LoginTypes, Statuses, KeyTypes
<1>2. Login!Init => KeyTypes
  BY DEF Login!Init, KeyTypes
<1> QED BY <1>1, <1>2, KeysStep, LoginInit, LoginStep, PTL DEF Login!Spec
-----------------------------------------------------------------------------
(* The queue of buffers *)

Queue == INSTANCE MPSCQueue_proofs WITH Elements <- MaxElements

\* What is proved of the queue is proved of this one.
LEMMA BuffersAreAQueue == Queue!QueueAssumption /\ (Buffers!Spec => Queue!Spec)
<1>1. Queue!QueueAssumption
  BY BuffersAssumption DEF Buffers!QueueAssumption, Queue!QueueAssumption
<1>2. Buffers!Init => Queue!Init
  BY DEF Buffers!Init, Queue!Init, Buffers!Node, Queue!Node
<1>3. [Buffers!Next]_Buffers!vars => [Queue!Next]_Queue!vars
  <2>1. Buffers!Dequeue => Queue!Dequeue
    BY DEF Buffers!Dequeue, Queue!Dequeue, Buffers!DeleteTail, Queue!DeleteTail
  <2>2. \A p \in Producers : Buffers!Enqueue(p) => Queue!Enqueue(p)
    BY DEF Buffers!Enqueue, Queue!Enqueue, Buffers!Exchange, Queue!Exchange
  <2>3. \A p \in Producers : Buffers!Link(p) => Queue!Link(p)
    BY DEF Buffers!Link, Queue!Link
  <2> QED BY <2>1, <2>2, <2>3, Zenon DEF Buffers!Next, Queue!Next, Buffers!vars, Queue!vars
<1>4. Buffers!Spec => Queue!Spec
  BY <1>2, <1>3, PTL DEF Buffers!Spec, Queue!Spec
<1> QED BY <1>1, <1>4

\* MPSCQueue: for any number of producers and elements, they come out in the
\* order of the exchanges, and no node is touched once it was deleted.
THEOREM BuffersAreQueued == Buffers!Spec => []QueueSound
<1>1. Queue!Spec => []Queue!QueueSound
  BY BuffersAreAQueue, Queue!QueueIsSound
<1>2. Queue!QueueSound => QueueSound
  <2>1. Queue!InExchangeOrder => Buffers!InExchangeOrder
    BY DEF Queue!InExchangeOrder, Buffers!InExchangeOrder
  <2>2. Queue!NoUseAfterFree => Buffers!NoUseAfterFree
    BY DEF Queue!NoUseAfterFree, Buffers!NoUseAfterFree
  <2>3. Queue!HiddenOnlyBriefly => Buffers!HiddenOnlyBriefly
    BY DEF Queue!HiddenOnlyBriefly, Buffers!HiddenOnlyBriefly
  <2> QED BY <2>1, <2>2, <2>3 DEF QueueSound, Buffers!QueueSound, Queue!QueueSound
<1>3. Buffers!Spec => Queue!Spec
  BY BuffersAreAQueue
<1> QED BY <1>1, <1>2, <1>3, PTL

\* MPSCQueue: its nodes, and what is in them, have their types.
LEMMA BufferTypesAre == Buffers!Spec => []Buffers!TypeOK
<1>1. Queue!Spec => []Queue!IInv
  BY BuffersAreAQueue, Queue!Invariant
<1>2. Queue!IInv => Buffers!TypeOK
  BY DEF Queue!IInv, Queue!TypeOK, Buffers!TypeOK, Queue!Node, Buffers!Node
<1>3. Buffers!Spec => Queue!Spec
  BY BuffersAreAQueue
<1> QED BY <1>1, <1>2, <1>3, PTL
-----------------------------------------------------------------------------
(* The shutdown, without commands from other threads. *)

\* Where the world's thread is in a command or in the countdown.
Command == {"options", "time", "cancel", "reset"}
Loop == {"idle", "compare", "overdue", "wait", "decrease"}

StopTypes ==
  /\ m_ShutdownTimer \in 0..(Width - 1) /\ m_stopEvent \in BOOLEAN /\ sessions \in Nat
  /\ m_ShutdownMask \in Stopping!Options
  /\ thread \in [Threads -> [pc : Command \cup Loop \cup {"asleep"}, time : 0..MaxTime, options : Stopping!Options]]
  /\ elapsed \in [seconds : 0..MaxElapsed, seen : 0..(Width - 1)]
  /\ asked \in [kind : {"nothing", "plain", "idle"}, code : {"shutdown", "restart"}, left : Nat]

\* A thread waits for nobody but itself: the world's thread is never asleep.
Awake == thread[World].pc # "asleep"

\* The timer runs if and only if a shutdown is announced, with the mask it was
\* announced with, but while a command is writing the two.
Announced ==
  ~m_stopEvent =>
    /\ thread[World].pc \notin {"time", "reset"} =>
         /\ m_ShutdownTimer = 0 <=> asked.kind = "nothing"
         /\ asked.kind # "nothing" =>
              /\ m_ShutdownMask.code = asked.code
              /\ m_ShutdownMask.idle <=> asked.kind = "idle"
    /\ thread[World].pc = "time" => m_ShutdownMask = thread[World].options

\* The players were told no more time than is left.
TimeLeft ==
  ~m_stopEvent =>
    /\ thread[World].pc \in {"idle", "options", "cancel"} => asked.left <= m_ShutdownTimer
    /\ thread[World].pc \in {"overdue", "wait"} => asked.left = 0 /\ m_ShutdownTimer > 0
    /\ thread[World].pc = "compare" =>
         /\ elapsed.seen = m_ShutdownTimer /\ m_ShutdownTimer > 0
         /\ asked.left = 0 \/ asked.left + elapsed.seconds <= m_ShutdownTimer
    /\ thread[World].pc = "decrease" =>
         /\ elapsed.seen = m_ShutdownTimer /\ elapsed.seconds < m_ShutdownTimer
         /\ asked.left <= m_ShutdownTimer - elapsed.seconds

StopInv == StopTypes /\ Awake /\ Announced /\ TimeLeft

\* Subtracting what has gone by does not wrap.
LEMMA NoWrap ==
  ASSUME NEW t \in Nat, NEW e \in Nat, NEW w \in Nat, e < t, t < w
  PROVE  (t + w - e) % w = t - e
<1> DEFINE r == (t + w - e) % w
           d == (t + w - e) \div w
<1>1. t + w - e = w * d + r /\ r \in 0..(w - 1) /\ d \in Int
  OBVIOUS
<1>2. t - e \in 0..(w - 1)
  OBVIOUS
<1> HIDE DEF r, d
<1>3. d = 1
  BY <1>1, <1>2
<1>4. r = t - e
  BY <1>1, <1>3
<1> QED BY <1>4 DEF r

\* Nothing is announced at first.
LEMMA StopInit == ASSUME Threads = {World}, Stopping!Init PROVE StopInv
<1> USE StoppingAssumption DEF Stopping!ShutdownAssumption
<1> DEFINE T == [pc : Command \cup Loop \cup {"asleep"}, time : 0..MaxTime, options : Stopping!Options]
<1>1. Stopping!Default \in Stopping!Options
  BY DEF Stopping!Default, Stopping!Options
<1>2. Stopping!Idle \in T /\ Stopping!Idle.pc = "idle"
  BY <1>1 DEF Stopping!Idle, Loop
<1>3. thread \in [Threads -> T] /\ thread[World] = Stopping!Idle
  BY <1>2 DEF Stopping!Init
<1>4. elapsed \in [seconds : 0..MaxElapsed, seen : 0..(Width - 1)]
  BY DEF Stopping!Init
<1>5. /\ asked \in [kind : {"nothing", "plain", "idle"}, code : {"shutdown", "restart"}, left : Nat]
      /\ asked.kind = "nothing" /\ asked.left = 0
  BY DEF Stopping!Init, Stopping!Nothing
<1>6. m_ShutdownTimer = 0 /\ m_ShutdownMask = Stopping!Default /\ m_stopEvent = FALSE /\ sessions = 0
  BY DEF Stopping!Init
<1>7. StopTypes
  <2>1. m_ShutdownTimer = 0 /\ sessions = 0 /\ 0 \in 0..(Width - 1)
    BY <1>6
  <2>2. m_stopEvent \in BOOLEAN
    BY <1>6
  <2>3. m_ShutdownTimer \in 0..(Width - 1) /\ sessions \in Nat
    BY <2>1
  <2> QED BY <1>1, <1>3, <1>4, <1>5, <1>6, <2>2, <2>3 DEF StopTypes
<1>8. thread[World].pc = "idle"
  BY <1>2, <1>3
<1>9. Awake /\ Announced /\ TimeLeft
  BY <1>5, <1>6, <1>8 DEF Awake, Announced, TimeLeft
<1> QED BY <1>7, <1>9 DEF StopInv

\* Where the world's thread goes from here; a command and its time stay.
LEMMA WorldGoes ==
  ASSUME StopTypes, World \in Threads, NEW pc \in Command \cup Loop, Stopping!Goto(World, pc)
  PROVE  /\ thread' \in [Threads -> [pc : Command \cup Loop \cup {"asleep"}, time : 0..MaxTime, options : Stopping!Options]]
         /\ thread'[World].pc = pc /\ thread'[World].options = thread[World].options
BY DEF StopTypes, Stopping!Goto

\* A command: what it asks for, the mask, the time; or the mask and the time reset.
LEMMA StopCommands ==
  ASSUME Threads = {World}, StopInv,
         \/ \E time \in 0..MaxTime, options \in Stopping!Options : Stopping!ShutdownServ(World, time, options)
         \/ Stopping!ShutdownCancel(World) \/ Stopping!Request(World)
  PROVE  StopInv'
<1> USE StoppingAssumption DEF Stopping!ShutdownAssumption, Stopping!At
<1> DEFINE T == [pc : Command \cup Loop \cup {"asleep"}, time : 0..MaxTime, options : Stopping!Options]
<1>0. /\ thread \in [Threads -> T] /\ World \in Threads /\ thread[World] \in T
  BY DEF StopInv, StopTypes
<1>1. ASSUME NEW time \in 0..MaxTime, NEW options \in Stopping!Options,
             Stopping!ShutdownServ(World, time, options)
      PROVE  StopInv'
  <2>1. thread' \in [Threads -> T] /\ thread'[World].pc = "options" /\ thread[World].pc = "idle"
    BY <1>0, <1>1 DEF Stopping!ShutdownServ, Command
  <2>2. UNCHANGED <<m_ShutdownTimer, m_ShutdownMask, m_stopEvent, sessions, elapsed, asked>>
    BY <1>1 DEF Stopping!ShutdownServ, Stopping!words
  <2> QED BY <2>1, <2>2 DEF StopInv, StopTypes, Awake, Announced, TimeLeft
<1>2. CASE Stopping!ShutdownCancel(World)
  <2>1. thread' \in [Threads -> T] /\ thread'[World].pc = "cancel" /\ thread[World].pc = "idle"
    BY <1>0, <1>2, WorldGoes DEF Stopping!ShutdownCancel, StopInv, Command
  <2>2. UNCHANGED <<m_ShutdownTimer, m_ShutdownMask, m_stopEvent, sessions, elapsed, asked>>
    BY <1>2 DEF Stopping!ShutdownCancel, Stopping!words
  <2> QED BY <2>1, <2>2 DEF StopInv, StopTypes, Awake, Announced, TimeLeft
<1>3. CASE Stopping!StoreOptions(World)
  <2>1. /\ thread' \in [Threads -> T] /\ thread'[World].pc = "time" /\ thread[World].pc = "options"
        /\ thread'[World].options = thread[World].options
    BY <1>0, <1>3, WorldGoes DEF Stopping!StoreOptions, StopInv, Command
  <2>2. /\ m_ShutdownMask' = thread[World].options
        /\ UNCHANGED <<m_ShutdownTimer, m_stopEvent, sessions, elapsed, asked>>
    BY <1>3 DEF Stopping!StoreOptions
  <2> QED BY <1>0, <2>1, <2>2 DEF StopInv, StopTypes, Awake, Announced, TimeLeft
<1>4. CASE Stopping!StoreTime(World)
  <2>1. thread' \in [Threads -> T] /\ thread'[World].pc = "idle" /\ thread[World].pc = "time"
    BY <1>0, <1>4, WorldGoes DEF Stopping!StoreTime, StopInv, Loop
  <2> DEFINE time == thread[World].time
             options == thread[World].options
  <2>2. time \in 0..MaxTime /\ options \in Stopping!Options
    BY <1>0
  <2>3. /\ asked' = [kind |-> IF options.idle THEN "idle" ELSE "plain", code |-> options.code, left |-> time]
        /\ UNCHANGED <<m_ShutdownMask, sessions, elapsed>>
        /\ \/ time > 0 /\ m_ShutdownTimer' = time /\ m_stopEvent' = m_stopEvent
           \/ m_stopEvent' = TRUE /\ m_ShutdownTimer' = m_ShutdownTimer
           \/ time = 0 /\ m_ShutdownTimer' = 1 /\ m_stopEvent' = m_stopEvent
    BY <1>4, <2>2 DEF Stopping!StoreTime
  <2> HIDE DEF time
  <2>4. asked' \in [kind : {"nothing", "plain", "idle"}, code : {"shutdown", "restart"}, left : Nat]
    BY <2>2, <2>3 DEF Stopping!Options
  <2>5. ~m_stopEvent => m_ShutdownMask = options
    BY <2>1 DEF StopInv, Announced
  <2>6. asked'.kind = (IF options.idle THEN "idle" ELSE "plain") /\ asked'.code = options.code /\ asked'.left = time
    BY <2>3
  <2> HIDE DEF options
  <2>7. m_ShutdownTimer \in 0..(Width - 1) /\ m_stopEvent \in BOOLEAN
    BY DEF StopInv, StopTypes
  <2>8. time \in 0..(Width - 1) /\ 1 \in 0..(Width - 1)
    BY <2>2
  <2>9. m_ShutdownTimer' \in 0..(Width - 1) /\ m_stopEvent' \in BOOLEAN
    <3>1. m_ShutdownTimer' \in 0..(Width - 1)
      BY <2>3, <2>7, <2>8
    <3>2. m_stopEvent' \in BOOLEAN
      BY <2>3, <2>7
    <3> QED BY <3>1, <3>2
  <2>10. StopTypes'
    BY <2>1, <2>3, <2>4, <2>9 DEF StopInv, StopTypes
  <2>11. Announced'
    BY <2>1, <2>2, <2>3, <2>5, <2>6 DEF StopInv, StopTypes, Announced
  <2>12. TimeLeft'
    BY <2>1, <2>2, <2>3, <2>6 DEF StopInv, StopTypes, TimeLeft
  <2> QED BY <2>1, <2>10, <2>11, <2>12 DEF StopInv, Awake
<1>5. CASE Stopping!ResetMask(World)
  <2>1. thread' \in [Threads -> T] /\ thread'[World].pc = "reset"
    BY <1>0, <1>5, WorldGoes DEF Stopping!ResetMask, StopInv, Command
  <2>2. /\ m_ShutdownMask' = Stopping!Default
        /\ UNCHANGED <<m_ShutdownTimer, m_stopEvent, sessions, elapsed, asked>>
    BY <1>5 DEF Stopping!ResetMask
  <2> QED BY <2>1, <2>2 DEF StopInv, StopTypes, Awake, Announced, TimeLeft, Stopping!Default, Stopping!Options
<1>6. CASE Stopping!Cancelled(World)
  <2>1. thread' \in [Threads -> T] /\ thread'[World].pc = "idle"
    BY <1>0, <1>6, WorldGoes DEF Stopping!Cancelled, Stopping!Done, StopInv, Loop
  <2>2. /\ m_ShutdownTimer' = 0 /\ asked' = Stopping!Nothing
        /\ UNCHANGED <<m_ShutdownMask, m_stopEvent, sessions, elapsed>>
    BY <1>6 DEF Stopping!Cancelled, Stopping!ResetTimer
  <2> QED BY <2>1, <2>2 DEF StopInv, StopTypes, Awake, Announced, TimeLeft, Stopping!Nothing
<1> QED BY <1>1, <1>2, <1>3, <1>4, <1>5, <1>6 DEF Stopping!Request

\* The countdown: the timer is read, has run out or goes down, and somebody may
\* be waited for; between its turns sessions come and go.
LEMMA StopLoop ==
  ASSUME Threads = {World}, StopInv, Stopping!UpdateGameTime \/ Stopping!SessionsChange
  PROVE  StopInv'
<1> USE StoppingAssumption DEF Stopping!ShutdownAssumption, Stopping!At
<1> DEFINE T == [pc : Command \cup Loop \cup {"asleep"}, time : 0..MaxTime, options : Stopping!Options]
<1>0. /\ thread \in [Threads -> T] /\ World \in Threads /\ thread[World] \in T
  BY DEF StopInv, StopTypes
<1>1. ASSUME NEW seconds \in 1..MaxElapsed, Stopping!Countdown(seconds) PROVE StopInv'
  <2> DEFINE goes == IF m_ShutdownTimer = 0 THEN "idle" ELSE "compare"
             left == IF asked.left > seconds THEN asked.left - seconds ELSE 0
  <2>1. /\ thread[World].pc = "idle" /\ ~m_stopEvent
        /\ elapsed' = [seconds |-> seconds, seen |-> m_ShutdownTimer]
        /\ thread' = [t \in Threads |-> [thread[t] EXCEPT !.pc = goes]]
        /\ asked' = [asked EXCEPT !.left = left]
        /\ UNCHANGED <<m_ShutdownTimer, m_ShutdownMask, m_stopEvent, sessions>>
    BY <1>0, <1>1 DEF Stopping!Countdown, Stopping!words
  <2>2. left \in Nat /\ goes \in Loop
    BY DEF StopInv, StopTypes, Loop
  <2>3. thread' \in [Threads -> T] /\ thread'[World].pc = goes
    <3> HIDE DEF goes
    <3> QED BY <1>0, <2>1, <2>2
  <2>4. /\ asked' \in [kind : {"nothing", "plain", "idle"}, code : {"shutdown", "restart"}, left : Nat]
        /\ asked'.kind = asked.kind /\ asked'.code = asked.code /\ asked'.left = left
    <3> HIDE DEF left
    <3> QED BY <2>1, <2>2 DEF StopInv, StopTypes
  <2>5. elapsed' \in [seconds : 0..MaxElapsed, seen : 0..(Width - 1)]
        /\ elapsed'.seconds = seconds /\ elapsed'.seen = m_ShutdownTimer
    BY <2>1 DEF StopInv, StopTypes
  <2>6. asked.left <= m_ShutdownTimer /\ asked.left \in Nat /\ m_ShutdownTimer \in Nat
    BY <2>1 DEF StopInv, StopTypes, TimeLeft
  <2>7. TimeLeft'
    BY <2>1, <2>3, <2>4, <2>5, <2>6 DEF TimeLeft
  <2> HIDE DEF goes, left
  <2>8. StopTypes'
    BY <2>1, <2>3, <2>4, <2>5 DEF StopInv, StopTypes
  <2>9. Announced'
    BY <2>1, <2>2, <2>3, <2>4 DEF StopInv, Announced, Loop
  <2> QED BY <2>2, <2>3, <2>7, <2>8, <2>9 DEF StopInv, Awake, Loop
<1>2. CASE Stopping!Overdue
  <2>1. PICK pc \in {"idle", "wait"} :
          /\ Stopping!Goto(World, pc)
          /\ (pc = "wait" => m_stopEvent' = m_stopEvent)
          /\ (pc = "idle" => m_stopEvent' = TRUE)
    BY <1>2 DEF Stopping!Overdue, Stopping!Done
  <2>2. thread[World].pc = "overdue" /\ UNCHANGED <<m_ShutdownTimer, m_ShutdownMask, sessions, elapsed, asked>>
    BY <1>2 DEF Stopping!Overdue
  <2>3. thread' \in [Threads -> T] /\ thread'[World].pc = pc
    <3>1. StopTypes /\ pc \in Command \cup Loop /\ Stopping!Goto(World, pc)
      BY <2>1 DEF StopInv, Loop
    <3> QED BY <1>0, <3>1, WorldGoes
  <2>4. m_stopEvent' \in BOOLEAN
    BY <2>1 DEF StopInv, StopTypes
  <2>5. StopTypes'
    BY <2>2, <2>3, <2>4 DEF StopInv, StopTypes
  <2>6. CASE pc = "wait"
    BY <2>1, <2>2, <2>3, <2>5, <2>6 DEF StopInv, Awake, Announced, TimeLeft
  <2>7. CASE pc = "idle"
    BY <2>1, <2>3, <2>5, <2>7 DEF StopInv, Awake, Announced, TimeLeft
  <2> QED BY <2>6, <2>7
<1>3. CASE Stopping!Wait
  <2>1. thread' \in [Threads -> T] /\ thread'[World].pc = "idle" /\ thread[World].pc = "wait"
    BY <1>0, <1>3, WorldGoes DEF Stopping!Wait, Stopping!Done, StopInv, Loop
  <2>2. /\ m_ShutdownTimer' = 1
        /\ UNCHANGED <<m_ShutdownMask, m_stopEvent, sessions, elapsed, asked>>
    BY <1>3 DEF Stopping!Wait, Stopping!KeepWaiting
  <2> QED BY <2>1, <2>2 DEF StopInv, StopTypes, Awake, Announced, TimeLeft
<1>4. CASE Stopping!Decrease
  <2>1. thread' \in [Threads -> T] /\ thread'[World].pc = "idle" /\ thread[World].pc = "decrease"
    BY <1>0, <1>4, WorldGoes DEF Stopping!Decrease, Stopping!Done, StopInv, Loop
  <2>2. UNCHANGED <<m_ShutdownMask, m_stopEvent, sessions, elapsed, asked>>
    BY <1>4 DEF Stopping!Decrease
  <2>3. /\ m_ShutdownTimer \in Nat /\ elapsed.seconds \in Nat /\ elapsed.seen \in 0..(Width - 1)
        /\ m_ShutdownTimer < Width /\ asked.left \in Nat
    BY DEF StopInv, StopTypes
  <2>4. PICK timer \in {m_ShutdownTimer, elapsed.seen} :
          m_ShutdownTimer' = (timer + Width - elapsed.seconds) % Width
    BY <1>4 DEF Stopping!Decrease, Stopping!TimerSeen
  <2>5. m_ShutdownTimer' \in 0..(Width - 1)
    <3> DEFINE n == timer + Width - elapsed.seconds
    <3>1. n \in Int
      BY <2>3, <2>4
    <3> HIDE DEF n
    <3>2. n % Width \in 0..(Width - 1)
      BY <3>1
    <3> QED BY <2>4, <3>2 DEF n
  <2>6. ~m_stopEvent => m_ShutdownTimer' = m_ShutdownTimer - elapsed.seconds /\ elapsed.seconds < m_ShutdownTimer
    <3> SUFFICES ASSUME ~m_stopEvent
                 PROVE  m_ShutdownTimer' = m_ShutdownTimer - elapsed.seconds /\ elapsed.seconds < m_ShutdownTimer
      OBVIOUS
    <3>1. timer = m_ShutdownTimer /\ elapsed.seconds < m_ShutdownTimer
      BY <2>1, <2>4 DEF StopInv, TimeLeft
    <3>2. (m_ShutdownTimer + Width - elapsed.seconds) % Width = m_ShutdownTimer - elapsed.seconds
      BY <2>3, <3>1, NoWrap
    <3> QED BY <2>4, <3>1, <3>2
  <2> QED BY <2>1, <2>2, <2>3, <2>5, <2>6 DEF StopInv, StopTypes, Awake, Announced, TimeLeft
<1>5. CASE Stopping!SessionsChange
  <2>1. /\ sessions' \in Nat /\ thread' = thread
        /\ UNCHANGED <<m_ShutdownTimer, m_ShutdownMask, m_stopEvent, elapsed, asked>>
    BY <1>5 DEF Stopping!SessionsChange, Stopping!words
  <2> QED BY <2>1 DEF StopInv, StopTypes, Awake, Announced, TimeLeft
<1>6. CASE Stopping!Compare
  <2>1. PICK timer \in {m_ShutdownTimer, elapsed.seen} :
          /\ elapsed' = [elapsed EXCEPT !.seen = timer]
          /\ Stopping!Goto(World, IF timer <= elapsed.seconds THEN "overdue" ELSE "decrease")
    BY <1>6 DEF Stopping!Compare, Stopping!TimerSeen
  <2> DEFINE goes == IF timer <= elapsed.seconds THEN "overdue" ELSE "decrease"
  <2>2. thread[World].pc = "compare" /\ UNCHANGED <<m_ShutdownTimer, m_ShutdownMask, m_stopEvent, sessions, asked>>
    BY <1>6 DEF Stopping!Compare, Stopping!words
  <2>3. thread' \in [Threads -> T] /\ thread'[World].pc = goes
    <3>1. goes \in Command \cup Loop /\ Stopping!Goto(World, goes) /\ StopTypes
      BY <2>1 DEF StopInv, Loop
    <3> HIDE DEF goes
    <3> QED BY <1>0, <3>1, WorldGoes
  <2>4. elapsed \in [seconds : 0..MaxElapsed, seen : 0..(Width - 1)] /\ m_ShutdownTimer \in 0..(Width - 1)
    BY DEF StopInv, StopTypes
  <2>5. /\ elapsed' \in [seconds : 0..MaxElapsed, seen : 0..(Width - 1)]
        /\ elapsed'.seconds = elapsed.seconds /\ elapsed'.seen = timer
    BY <2>1, <2>4
  <2>6. StopTypes'
    BY <2>2, <2>3, <2>5 DEF StopInv, StopTypes
  <2>7. goes \in {"overdue", "decrease"}
    OBVIOUS
  <2>8. Announced'
    BY <2>2, <2>3, <2>7 DEF StopInv, Announced
  <2>9. asked.left \in Nat /\ elapsed.seconds \in Nat /\ m_ShutdownTimer \in Nat
    BY <2>4 DEF StopInv, StopTypes
  <2>10. TimeLeft'
    BY <2>1, <2>2, <2>3, <2>5, <2>9 DEF StopInv, TimeLeft
  <2> QED BY <2>3, <2>6, <2>7, <2>8, <2>10 DEF StopInv, Awake
<1> QED BY <1>1, <1>2, <1>3, <1>4, <1>5, <1>6 DEF Stopping!UpdateGameTime

\* World: as long as no command comes from another thread, it stops only for a
\* shutdown that was announced and not cancelled, not before the time that was
\* told is up, with the exit code that was told, and while nobody is there if
\* that is what it was to wait for.
THEOREM TheWorldStopsAsAsked == ASSUME Threads = {World} PROVE Stopping!Spec => Stopping!StopsAsAsked
<1> DEFINE Asked == ~m_stopEvent /\ m_stopEvent' /\ Stopping!Settled =>
                      /\ asked'.kind # "nothing" /\ asked'.left = 0
                      /\ asked'.kind = "idle" => sessions = 0
                      /\ m_ShutdownMask.code = asked'.code
<1>1. StopInv /\ [Stopping!Next]_Stopping!vars => StopInv'
  <2> SUFFICES ASSUME StopInv, [Stopping!Next]_Stopping!vars PROVE StopInv'
    OBVIOUS
  <2>1. CASE UNCHANGED Stopping!vars
    BY <2>1 DEF Stopping!vars, StopInv, StopTypes, Awake, Announced, TimeLeft
  <2> QED BY <2>1, StopCommands, StopLoop DEF Stopping!Next
<1>2. StopInv /\ [Stopping!Next]_Stopping!vars => [Asked]_Stopping!vars
  <2> SUFFICES ASSUME StopInv, Stopping!Next, ~m_stopEvent, m_stopEvent'
               PROVE  /\ asked'.kind # "nothing" /\ asked'.left = 0
                      /\ asked'.kind = "idle" => sessions = 0
                      /\ m_ShutdownMask.code = asked'.code
    OBVIOUS
  <2>1. Stopping!StoreTime(World) \/ Stopping!Overdue
    BY DEF Stopping!Next, Stopping!ShutdownServ, Stopping!ShutdownCancel, Stopping!Request,
           Stopping!StoreOptions, Stopping!ResetMask, Stopping!Cancelled, Stopping!UpdateGameTime,
           Stopping!Countdown, Stopping!Compare, Stopping!Wait, Stopping!Decrease, Stopping!SessionsChange,
           Stopping!words
  <2>2. CASE Stopping!StoreTime(World)
    <3> DEFINE options == thread[World].options
               time == thread[World].time
    <3>1. m_ShutdownMask = options /\ options \in Stopping!Options /\ time \in Nat
      BY <2>2 DEF StopInv, StopTypes, Announced, Stopping!StoreTime, Stopping!At
    <3>2. asked' = [kind |-> IF options.idle THEN "idle" ELSE "plain", code |-> options.code, left |-> time]
      BY <2>2 DEF Stopping!StoreTime
    <3>3. ~(time > 0)
      BY <2>2 DEF Stopping!StoreTime
    <3>4. ~options.idle \/ sessions = 0
      BY <2>2, <3>3 DEF Stopping!StoreTime, Stopping!AtOnce
    <3>5. time = 0
      BY <3>1, <3>3
    <3> HIDE DEF options, time
    <3> QED BY <3>1, <3>2, <3>4, <3>5 DEF Stopping!Options
  <2>3. CASE Stopping!Overdue
    <3>1. /\ thread[World].pc = "overdue" /\ asked' = asked
          /\ ~m_ShutdownMask.idle \/ sessions = 0
      BY <2>3 DEF Stopping!Overdue, Stopping!At
    <3> QED BY <3>1 DEF StopInv, StopTypes, Announced, TimeLeft
  <2> QED BY <2>1, <2>2, <2>3
<1>3. Stopping!StopsAsAsked <=> [][Asked]_Stopping!vars
  BY DEF Stopping!StopsAsAsked
<1> QED BY <1>1, <1>2, <1>3, StopInit, PTL DEF Stopping!Spec

\* The same with any number of threads that give commands, and the bounds.
Doing ==
  [pc : Command \cup Loop \cup {"asleep"}, time : 0..MaxTime, options : Stopping!Options]

CommandTypes ==
  /\ m_ShutdownTimer \in 0..(Width - 1) /\ m_ShutdownMask \in Stopping!Options /\ m_stopEvent \in BOOLEAN
  /\ sessions \in 0..MaxSessions /\ thread \in [Threads -> Doing]
  /\ elapsed \in [seconds : 0..MaxElapsed, seen : 0..(Width - 1)]
  /\ asked \in [kind : {"nothing", "plain", "idle"}, code : {"shutdown", "restart"}, left : 0..MaxTime]
  /\ requests \in 0..MaxRequests

\* The constants, and what stands for nothing.
LEMMA CommandConstants ==
  /\ World \in Threads /\ MaxTime \in Nat /\ Width \in Nat /\ Width > 1 /\ MaxTime < Width
  /\ MaxElapsed \in Nat /\ MaxSessions \in Nat /\ MaxRequests \in Nat
  /\ Stopping!Default \in Stopping!Options /\ Stopping!Idle \in Doing
  /\ Stopping!Nothing \in [kind : {"nothing", "plain", "idle"}, code : {"shutdown", "restart"}, left : 0..MaxTime]
<1>1. MaxTime \in Nat /\ 0 \in 0..MaxTime
  BY StoppingAssumption DEF Stopping!ShutdownAssumption
<1>2. Stopping!Default \in Stopping!Options
  BY DEF Stopping!Default, Stopping!Options
<1>3. Stopping!Idle \in Doing
  BY <1>1, <1>2 DEF Stopping!Idle, Doing, Loop
<1>4. Stopping!Nothing \in [kind : {"nothing", "plain", "idle"}, code : {"shutdown", "restart"}, left : 0..MaxTime]
  BY <1>1 DEF Stopping!Nothing
<1> QED BY <1>2, <1>3, <1>4, StoppingAssumption DEF Stopping!ShutdownAssumption

\* A thread goes somewhere else in its command.
LEMMA ThreadGoes ==
  ASSUME thread \in [Threads -> Doing], NEW t, NEW pc \in Command \cup Loop \cup {"asleep"},
         thread' = [thread EXCEPT ![t].pc = pc]
  PROVE  thread' \in [Threads -> Doing]
BY DEF Doing

\* Every step of a command and of the countdown.
LEMMA CommandStep == CommandTypes /\ [Stopping!Next]_Stopping!vars => CommandTypes'
<1> SUFFICES ASSUME CommandTypes, [Stopping!Next]_Stopping!vars PROVE CommandTypes'
  OBVIOUS
<1> USE CommandConstants
<1>d. thread \in [Threads -> Doing] /\ \A t \in Threads : thread[t].time \in 0..MaxTime /\ thread[t].options \in Stopping!Options
  BY DEF CommandTypes, Doing
<1>1. ASSUME NEW t \in Threads, NEW time \in 0..MaxTime, NEW options \in Stopping!Options,
             Stopping!ShutdownServ(t, time, options)
      PROVE  CommandTypes'
  <2>1. [pc |-> "options", time |-> time, options |-> options] \in Doing
    BY DEF Doing, Command
  <2>2. thread' = [thread EXCEPT ![t] = [pc |-> "options", time |-> time, options |-> options]]
    BY <1>1 DEF Stopping!ShutdownServ
  <2>3. thread' \in [Threads -> Doing]
    BY <1>d, <2>1, <2>2
  <2>4. requests' \in 0..MaxRequests
    BY <1>1 DEF Stopping!ShutdownServ, CommandTypes
  <2> QED BY <1>1, <2>3, <2>4 DEF CommandTypes, Stopping!ShutdownServ, Stopping!words
<1>2. ASSUME NEW t \in Threads, Stopping!StoreOptions(t) \/ Stopping!ShutdownCancel(t) \/ Stopping!ResetMask(t)
      PROVE  CommandTypes'
  <2>1. /\ m_ShutdownMask' \in Stopping!Options
        /\ \E pc \in Command : thread' = [thread EXCEPT ![t].pc = pc]
        /\ UNCHANGED <<m_ShutdownTimer, m_stopEvent, sessions, elapsed, asked, requests>>
    BY <1>2, <1>d
       DEF CommandTypes, Command, Stopping!StoreOptions, Stopping!ShutdownCancel, Stopping!ResetMask,
           Stopping!Goto, Stopping!words
  <2>2. thread' \in [Threads -> Doing]
    BY <1>d, <2>1, ThreadGoes
  <2> QED BY <2>1, <2>2 DEF CommandTypes
<1>3. ASSUME NEW t \in Threads, Stopping!StoreTime(t) PROVE CommandTypes'
  <2>1. \E pc \in {"idle", "asleep"} : thread' = [thread EXCEPT ![t].pc = pc]
    BY <1>3 DEF Stopping!StoreTime, Stopping!Goto
  <2>2. thread' \in [Threads -> Doing]
    BY <1>d, <2>1, ThreadGoes DEF Loop
  <2>3. m_ShutdownTimer' \in 0..(Width - 1) /\ m_stopEvent' \in BOOLEAN
    <3>1. \/ m_ShutdownTimer' = thread[t].time /\ UNCHANGED m_stopEvent
          \/ m_stopEvent' = TRUE /\ UNCHANGED m_ShutdownTimer
          \/ m_ShutdownTimer' = 1 /\ UNCHANGED m_stopEvent
      BY <1>3 DEF Stopping!StoreTime
    <3>2. thread[t].time \in 0..(Width - 1) /\ 1 \in 0..(Width - 1)
      <4>1. thread[t].time \in 0..MaxTime
        BY <1>d
      <4> QED BY <4>1
    <3>3. m_ShutdownTimer \in 0..(Width - 1) /\ m_stopEvent \in BOOLEAN
      BY DEF CommandTypes
    <3> QED BY <3>1, <3>2, <3>3
  <2>4. asked' \in [kind : {"nothing", "plain", "idle"}, code : {"shutdown", "restart"}, left : 0..MaxTime]
    <3>1. thread[t].options.code \in {"shutdown", "restart"} /\ thread[t].time \in 0..MaxTime
      BY <1>d DEF Stopping!Options
    <3>2. asked' = [kind |-> IF thread[t].options.idle THEN "idle" ELSE "plain",
                    code |-> thread[t].options.code, left |-> thread[t].time]
      BY <1>3 DEF Stopping!StoreTime
    <3> QED BY <3>1, <3>2
  <2> QED BY <1>3, <2>2, <2>3, <2>4 DEF CommandTypes, Stopping!StoreTime
<1>4. ASSUME NEW t \in Threads, Stopping!Cancelled(t) PROVE CommandTypes'
  <2>1. thread' = [thread EXCEPT ![t].pc = "idle"] /\ m_ShutdownTimer' \in 0..(Width - 1)
    BY <1>4 DEF Stopping!Cancelled, Stopping!Done, Stopping!Goto, Stopping!ResetTimer
  <2>2. thread' \in [Threads -> Doing]
    BY <1>d, <2>1, ThreadGoes DEF Loop
  <2> QED BY <1>4, <2>1, <2>2 DEF CommandTypes, Stopping!Cancelled
<1>5. ASSUME NEW seconds \in 1..MaxElapsed, Stopping!Countdown(seconds) PROVE CommandTypes'
  <2>1. elapsed' \in [seconds : 0..MaxElapsed, seen : 0..(Width - 1)]
    BY <1>5 DEF CommandTypes, Stopping!Countdown
  <2>2. asked' \in [kind : {"nothing", "plain", "idle"}, code : {"shutdown", "restart"}, left : 0..MaxTime]
    <3>1. asked.left \in 0..MaxTime
      BY DEF CommandTypes
    <3>2. (IF asked.left > seconds THEN asked.left - seconds ELSE 0) \in 0..MaxTime
      BY <3>1
    <3>3. asked' = [asked EXCEPT !.left = IF asked.left > seconds THEN asked.left - seconds ELSE 0]
      BY <1>5 DEF Stopping!Countdown
    <3> QED BY <3>2, <3>3 DEF CommandTypes
  <2>3. thread' \in [Threads -> Doing]
    <3> DEFINE Later(t) ==
          IF t # World THEN Stopping!Asleep(t, seconds)
          ELSE [thread[t] EXCEPT !.pc = IF m_ShutdownTimer = 0 THEN "idle"
                                        ELSE "compare"]
    <3>1. ASSUME NEW t \in Threads PROVE Later(t) \in Doing
      <4>1. Stopping!Asleep(t, seconds) \in Doing
        <5>1. CASE Stopping!At(t, "asleep") /\ ~(thread[t].time <= seconds)
          <6>1. thread[t].time - seconds \in 0..MaxTime /\ thread[t] \in Doing
            BY <1>d, <5>1
          <6>2. [thread[t] EXCEPT !.time = thread[t].time - seconds] \in Doing
            BY <6>1 DEF Doing
          <6> QED BY <5>1, <6>2 DEF Stopping!Asleep
        <5> QED BY <1>d, <5>1 DEF Stopping!Asleep
      <4>2. \A pc \in Loop : [thread[t] EXCEPT !.pc = pc] \in Doing
        BY <1>d DEF Doing
      <4>3. CASE t = World
        <5>1. (IF m_ShutdownTimer = 0 THEN "idle" ELSE "compare") \in Loop
          BY DEF Loop
        <5> QED BY <4>2, <4>3, <5>1
      <4> QED BY <4>1, <4>3
    <3>2. thread' = [t \in Threads |-> Later(t)]
      BY <1>5 DEF Stopping!Countdown
    <3> HIDE DEF Later
    <3> QED BY <3>1, <3>2
  <2> QED BY <1>5, <2>1, <2>2, <2>3 DEF CommandTypes, Stopping!Countdown, Stopping!words
<1>6. CASE Stopping!Overdue \/ Stopping!Wait \/ Stopping!Decrease
  <2>1. \E pc \in Loop : thread' = [thread EXCEPT ![World].pc = pc]
    BY <1>6 DEF Stopping!Overdue, Stopping!Wait, Stopping!Decrease, Stopping!Done, Stopping!Goto, Loop
  <2>2. thread' \in [Threads -> Doing]
    BY <1>d, <2>1, ThreadGoes
  <2>3. m_ShutdownTimer' \in 0..(Width - 1)
    <3>1. CASE Stopping!Decrease
      <4>1. PICK timer : m_ShutdownTimer' = (timer + Width - elapsed.seconds) % Width
                         /\ timer \in {m_ShutdownTimer, elapsed.seen}
        BY <3>1 DEF Stopping!Decrease, Stopping!TimerSeen
      <4>2. timer + Width - elapsed.seconds \in Int
        BY <4>1 DEF CommandTypes
      <4> QED BY <4>1, <4>2
    <3>2. CASE Stopping!Overdue \/ Stopping!Wait
      BY <3>2 DEF CommandTypes, Stopping!Overdue, Stopping!Wait, Stopping!KeepWaiting
    <3> QED BY <1>6, <3>1, <3>2
  <2> QED BY <1>6, <2>2, <2>3 DEF CommandTypes, Stopping!Overdue, Stopping!Wait, Stopping!Decrease
<1>7. CASE Stopping!SessionsChange
  BY <1>7 DEF CommandTypes, Stopping!SessionsChange, Stopping!words
<1>8. CASE UNCHANGED Stopping!vars
  BY <1>8 DEF CommandTypes, Stopping!vars
<1>9. CASE Stopping!Compare
  <2>1. PICK timer \in {m_ShutdownTimer, elapsed.seen} :
          /\ elapsed' = [elapsed EXCEPT !.seen = timer]
          /\ thread' = [thread EXCEPT ![World].pc = IF timer <= elapsed.seconds THEN "overdue" ELSE "decrease"]
    BY <1>9 DEF Stopping!Compare, Stopping!TimerSeen, Stopping!Goto
  <2>2. elapsed' \in [seconds : 0..MaxElapsed, seen : 0..(Width - 1)]
    BY <2>1 DEF CommandTypes
  <2>3. \E pc \in Loop : thread' = [thread EXCEPT ![World].pc = pc]
    BY <2>1 DEF Loop
  <2>4. thread' \in [Threads -> Doing]
    BY <1>d, <2>3, ThreadGoes
  <2> QED BY <1>9, <2>2, <2>4 DEF CommandTypes, Stopping!Compare, Stopping!words
<1> QED BY <1>1, <1>2, <1>3, <1>4, <1>5, <1>6, <1>7, <1>8, <1>9
        DEF Stopping!Next, Stopping!Request, Stopping!UpdateGameTime

\* World: what is said of the shutdown has its types, whoever gives commands.
LEMMA StoppingTypesAre == Stopping!Spec => []Stopping!TypeOK
<1>1. CommandTypes => Stopping!TypeOK
  BY DEF CommandTypes, Doing, Stopping!TypeOK
<1>2. Stopping!Init => CommandTypes
  <2> SUFFICES ASSUME Stopping!Init PROVE CommandTypes
    OBVIOUS
  <2>1. thread \in [Threads -> Doing]
    <3>1. thread = [t \in Threads |-> Stopping!Idle] /\ Stopping!Idle \in Doing
      BY CommandConstants DEF Stopping!Init
    <3> QED BY <3>1
  <2>2. elapsed \in [seconds : 0..MaxElapsed, seen : 0..(Width - 1)]
    BY CommandConstants DEF Stopping!Init
  <2>3. asked \in [kind : {"nothing", "plain", "idle"}, code : {"shutdown", "restart"}, left : 0..MaxTime]
    BY CommandConstants DEF Stopping!Init
  <2>4. m_stopEvent \in BOOLEAN
    BY DEF Stopping!Init
  <2>5. m_ShutdownTimer \in 0..(Width - 1) /\ sessions \in 0..MaxSessions /\ requests \in 0..MaxRequests
    BY CommandConstants DEF Stopping!Init
  <2>6. m_ShutdownMask \in Stopping!Options
    BY CommandConstants DEF Stopping!Init
  <2> QED BY <2>1, <2>2, <2>3, <2>4, <2>5, <2>6 DEF CommandTypes
<1> QED BY <1>1, <1>2, CommandStep, PTL DEF Stopping!Spec
-----------------------------------------------------------------------------
(* The battleground queue *)

\* A place in a queue, as the queue of a team holds it.
Place == [player : Battlegrounds!Player, bg : Bgs \cup {NoBg}, left : 0..InviteWait]

\* Who is queued, who is invited to b, who is on the way to it or inside, and who
\* of team t may come to b or is there.
QueuedIn(q) == {q[i].player : i \in 1..Len(q)}
InvitedIn(q, b) == {q[i].player : i \in {j \in 1..Len(q) : q[j].bg = b}}
Inside(b) == porting[b] \cup players[b]
Comers(q, b, t) ==
  {p \in Battlegrounds!Player : Battlegrounds!TeamOf(p) = t /\ p \in InvitedIn(q, b) \cup Inside(b)}

\* A queue of team t, with nobody twice.
Proper(q, t) ==
  /\ q \in Seq(Place)
  /\ \A i \in 1..Len(q) : Battlegrounds!TeamOf(q[i].player) = t
  /\ \A i, j \in 1..Len(q) : q[i].player = q[j].player => i = j

\* With these queues and counters, those who may come to a battleground are
\* counted and not too many, and it exists.
Counted(queues, counts, st) ==
  \A b \in Bgs, t \in Battlegrounds!Team :
    /\ counts[b][t] = Cardinality(Comers(queues[t], b, t)) /\ counts[b][t] <= MaxPlayersPerTeam
    /\ Comers(queues[t], b, t) # {} => st[b] # "none"

PlaceTypes ==
  /\ queue \in [Battlegrounds!Team -> Seq(Place)]
  /\ events \subseteq [player : Battlegrounds!Player, bg : Bgs, left : 0..InviteWait]
  /\ scheduled \in BOOLEAN /\ handled \in BOOLEAN
  /\ bgStatus \in [Bgs -> {"none", "join", "progress", "leave"}]
  /\ invited \in [Bgs -> [Battlegrounds!Team -> Nat]]
  /\ porting \in [Bgs -> SUBSET Battlegrounds!Player] /\ players \in [Bgs -> SUBSET Battlegrounds!Player]
  /\ freeSlots \in Seq(Bgs) /\ IsInjective(freeSlots)

\* Nobody is queued who is on the way to a battleground or inside.
Apart ==
  \A b \in Bgs :
    /\ porting[b] \cap players[b] = {}
    /\ \A t \in Battlegrounds!Team : QueuedIn(queue[t]) \cap Inside(b) = {}

PlacesInv ==
  /\ PlaceTypes /\ Apart
  /\ \A t \in Battlegrounds!Team : Proper(queue[t], t)
  /\ Counted(queue, invited, bgStatus)
  /\ \A b \in Range(freeSlots) : bgStatus[b] # "none"

-----------------------------------------------------------------------------
\* The module's own counting is the one the facts on finite sets are about.
LEMMA SameCounting ==
  \A S : Battlegrounds!Cardinality(S) = Cardinality(S) /\ (Battlegrounds!IsFiniteSet(S) <=> IsFiniteSet(S))
BY DEF Battlegrounds!Cardinality, Cardinality, Battlegrounds!IsFiniteSet, IsFiniteSet

\* Finitely many players, and what the other constants are.
LEMMA PlaceConstants ==
  /\ IsFiniteSet(Battlegrounds!Player) /\ IsFiniteSet(Bgs) /\ NoBg \notin Bgs
  /\ MinPlayersPerTeam \in Nat /\ MaxPlayersPerTeam \in Nat /\ InviteWait \in Nat
  /\ MinPlayersPerTeam <= MaxPlayersPerTeam
<1>1. IsFiniteSet(Alliance) /\ IsFiniteSet(Horde) /\ IsFiniteSet(Bgs)
  BY PlacesAssumption, SameCounting DEF Battlegrounds!BattlegroundAssumption
<1>2. IsFiniteSet(Battlegrounds!Player)
  BY <1>1, FS_Union DEF Battlegrounds!Player
<1> QED BY <1>1, <1>2, PlacesAssumption DEF Battlegrounds!BattlegroundAssumption

\* A team is one of the two.
LEMMA TeamIs == \A p : Battlegrounds!TeamOf(p) \in Battlegrounds!Team
BY DEF Battlegrounds!TeamOf, Battlegrounds!Team

\* Those who may come are finitely many.
LEMMA ComersAreFinite ==
  ASSUME NEW q, NEW b, NEW t
  PROVE  IsFiniteSet(Comers(q, b, t)) /\ Cardinality(Comers(q, b, t)) \in Nat
<1>1. Comers(q, b, t) \subseteq Battlegrounds!Player
  BY DEF Comers
<1> QED BY <1>1, PlaceConstants, FS_Subset, FS_CardinalityType

\* The queue without p, and r as q without its k-th place.
LeavingOut(q, p) == Battlegrounds!RemoveFirstMatch(q, LAMBDA e : e.player = p)
IsShorter(r, q, k) == r \in Seq(Place) /\ IsCut(r, q, k)

\* The first who has the name of the k-th is the k-th.
LEMMA RemovalIs ==
  ASSUME NEW t, NEW q, Proper(q, t), NEW k \in 1..Len(q), NEW p, q[k].player = p
  PROVE  IsShorter(LeavingOut(q, p), q, k)
<1> DEFINE I == {i \in 1..Len(q) : q[i].player = p}
           r == Cut(q, k)
<1>1. q \in Seq(Place) /\ Len(q) \in Nat
  BY DEF Proper
<1>2. I = {k}
  BY DEF Proper
<1>3. Battlegrounds!Min(I) = k
  BY <1>1, <1>2 DEF Battlegrounds!Min
<1>4. LeavingOut(q, p) = r
  <2>1. \E i \in 1..Len(q) : q[i].player = p
    OBVIOUS
  <2>2. I # {}
    BY <1>2
  <2> QED BY <1>3, <2>1, <2>2 DEF LeavingOut, Battlegrounds!RemoveFirstMatch, Battlegrounds!SelectInSeq, Battlegrounds!RemoveAt, Cut
<1>5. r \in Seq(Place) /\ IsCut(r, q, k)
  BY <1>1, SequenceCut
<1> QED BY <1>4, <1>5 DEF IsShorter

\* The queue that is left is a proper one, and has all others.
LEMMA RemovalKeeps ==
  ASSUME NEW t, NEW q, Proper(q, t), NEW k \in 1..Len(q), NEW r, IsShorter(r, q, k)
  PROVE  /\ Proper(r, t) /\ QueuedIn(r) = QueuedIn(q) \ {q[k].player}
         /\ \A b : InvitedIn(r, b) = InvitedIn(q, b) \ {q[k].player}
<1> DEFINE to(i) == IF i < k THEN i ELSE i + 1
           of(i) == IF i < k THEN i ELSE i - 1
<1> USE DEF IsShorter, IsCut
<1>0. Len(q) \in Nat /\ q \in Seq(Place) /\ Len(r) \in Nat
  BY DEF Proper
<1>1. ASSUME NEW i \in 1..Len(r) PROVE to(i) \in 1..Len(q) /\ to(i) # k /\ r[i] = q[to(i)]
  BY <1>0
<1>2. \A i, j \in 1..Len(r) : to(i) = to(j) => i = j
  BY <1>0
<1>3. ASSUME NEW i \in 1..Len(q), i # k PROVE of(i) \in 1..Len(r) /\ to(of(i)) = i
  BY <1>0, <1>3
<1> HIDE DEF to, of
<1>4. \A i \in 1..Len(q) : q[i].player = q[k].player => i = k
  BY DEF Proper
<1>5. Proper(r, t)
  BY <1>1, <1>2 DEF Proper
<1>6. ASSUME NEW i \in 1..Len(q), i # k PROVE of(i) \in 1..Len(r) /\ r[of(i)] = q[i]
  BY <1>1, <1>3, <1>6
<1>7. QueuedIn(r) = QueuedIn(q) \ {q[k].player}
  <2>1. \A x \in QueuedIn(r) : x \in QueuedIn(q) \ {q[k].player}
    BY <1>1, <1>4 DEF QueuedIn
  <2>2. \A x \in QueuedIn(q) \ {q[k].player} : x \in QueuedIn(r)
    BY <1>6 DEF QueuedIn
  <2> QED BY <2>1, <2>2
<1>8. ASSUME NEW b PROVE InvitedIn(r, b) = InvitedIn(q, b) \ {q[k].player}
  <2>1. \A x \in InvitedIn(r, b) : x \in InvitedIn(q, b) \ {q[k].player}
    BY <1>1, <1>4 DEF InvitedIn
  <2>2. \A x \in InvitedIn(q, b) \ {q[k].player} : x \in InvitedIn(r, b)
    BY <1>6 DEF InvitedIn
  <2> QED BY <2>1, <2>2
<1> QED BY <1>5, <1>7, <1>8

\* A place behind the others, for one who has none.
LEMMA JoiningKeeps ==
  ASSUME NEW t, NEW q, Proper(q, t), NEW e \in Place, Battlegrounds!TeamOf(e.player) = t, e.bg = NoBg,
         e.player \notin QueuedIn(q)
  PROVE  /\ Proper(Append(q, e), t) /\ QueuedIn(Append(q, e)) = QueuedIn(q) \cup {e.player}
         /\ \A b \in Bgs : InvitedIn(Append(q, e), b) = InvitedIn(q, b)
<1> DEFINE r == Append(q, e)
           n == Len(q)
<1>1. /\ n \in Nat /\ r \in Seq(Place) /\ Len(r) = n + 1 /\ r[n + 1] = e
      /\ \A i \in 1..n : r[i] = q[i]
  BY DEF Proper
<1>2. \A i \in 1..Len(r) : i = n + 1 \/ i \in 1..n
  BY <1>1
<1>3. \A i \in 1..n : i \in 1..Len(r) /\ q[i].player # e.player
  BY <1>1 DEF QueuedIn
<1>4. n + 1 \in 1..Len(r)
  BY <1>1
<1> HIDE DEF r
<1>5. Proper(r, t)
  <2>1. \A i \in 1..Len(r) : Battlegrounds!TeamOf(r[i].player) = t
    BY <1>1, <1>2 DEF Proper, n
  <2>2. \A i, j \in 1..Len(r) : r[i].player = r[j].player => i = j
    <3>1. \A i, j \in 1..n : q[i].player = q[j].player => i = j
      BY DEF Proper, n
    <3> HIDE DEF n
    <3> QED BY <1>1, <1>2, <1>3, <3>1
  <2> QED BY <1>1, <2>1, <2>2 DEF Proper
<1>6. QueuedIn(r) = QueuedIn(q) \cup {e.player}
  <2>1. QueuedIn(q) = {q[i].player : i \in 1..n}
    BY DEF QueuedIn, n
  <2> HIDE DEF n
  <2>2. ASSUME NEW x \in QueuedIn(r) PROVE x \in QueuedIn(q) \cup {e.player}
    <3>1. PICK i \in 1..Len(r) : x = r[i].player
      BY <2>2 DEF QueuedIn
    <3> QED BY <1>1, <1>2, <2>1, <3>1
  <2>3. ASSUME NEW x \in QueuedIn(q) PROVE x \in QueuedIn(r)
    <3>1. PICK i \in 1..n : x = q[i].player
      BY <2>1, <2>3
    <3>2. i \in 1..Len(r) /\ r[i] = q[i]
      BY <1>1, <1>3
    <3> QED BY <3>1, <3>2 DEF QueuedIn
  <2>4. e.player \in QueuedIn(r)
    BY <1>1, <1>4 DEF QueuedIn
  <2> QED BY <2>2, <2>3, <2>4
<1>7. ASSUME NEW b \in Bgs PROVE InvitedIn(r, b) = InvitedIn(q, b)
  <2>1. InvitedIn(q, b) = {q[i].player : i \in {j \in 1..n : q[j].bg = b}}
    BY DEF InvitedIn, n
  <2>2. e.bg # b
    BY PlaceConstants
  <2> HIDE DEF n
  <2>3. ASSUME NEW x \in InvitedIn(r, b) PROVE x \in InvitedIn(q, b)
    <3>1. PICK i \in 1..Len(r) : r[i].bg = b /\ x = r[i].player
      BY <2>3 DEF InvitedIn
    <3>2. i \in 1..n /\ r[i] = q[i]
      BY <1>1, <1>2, <2>2, <3>1
    <3> QED BY <2>1, <3>1, <3>2
  <2>4. ASSUME NEW x \in InvitedIn(q, b) PROVE x \in InvitedIn(r, b)
    <3>1. PICK i \in 1..n : q[i].bg = b /\ x = q[i].player
      BY <2>1, <2>4
    <3>2. i \in 1..Len(r) /\ r[i] = q[i]
      BY <1>1, <1>3
    <3> QED BY <3>1, <3>2 DEF InvitedIn
  <2> QED BY <2>3, <2>4
<1> QED BY <1>5, <1>6, <1>7 DEF r

\* Whom the module finds invited to a battleground is who is.
LEMMA InvitedIs ==
  ASSUME PlacesInv, NEW p \in Battlegrounds!Player, NEW b
  PROVE  /\ Battlegrounds!InvitedTo(p, b) <=> p \in InvitedIn(queue[Battlegrounds!TeamOf(p)], b)
         /\ Battlegrounds!Queued(p) <=> p \in QueuedIn(queue[Battlegrounds!TeamOf(p)])
<1> DEFINE q == queue[Battlegrounds!TeamOf(p)]
<1>1. q \in Seq(Place) /\ DOMAIN q = 1..Len(q)
  BY TeamIs DEF PlacesInv, PlaceTypes
<1>2. Battlegrounds!Entry(p) = {e \in {q[i] : i \in DOMAIN q} : e.player = p}
  BY DEF Battlegrounds!Entry, Battlegrounds!Range
<1> HIDE DEF q
<1>3. Battlegrounds!InvitedTo(p, b) <=> p \in InvitedIn(q, b)
  BY <1>1, <1>2 DEF Battlegrounds!InvitedTo, InvitedIn
<1>4. Battlegrounds!Queued(p) <=> p \in QueuedIn(q)
  BY <1>1, <1>2 DEF Battlegrounds!Queued, QueuedIn
<1> QED BY <1>3, <1>4 DEF q

-----------------------------------------------------------------------------
(* Inviting *)

\* The first n who are not invited: n at most.
LEMMA SelectedIs ==
  ASSUME NEW q \in Seq(Place), NEW n \in Nat
  PROVE  LET chosen == Battlegrounds!Selected(q, n)
         IN  /\ chosen \subseteq 1..Len(q) /\ \A i \in chosen : q[i].bg = NoBg
             /\ IsFiniteSet(chosen) /\ Cardinality(chosen) \in Nat /\ Cardinality(chosen) <= n
<1> DEFINE chosen == Battlegrounds!Selected(q, n)
           before(i) == {j \in 1..(i - 1) : q[j].bg = NoBg}
           rank == [i \in chosen |-> Cardinality(before(i))]
<1>0. Len(q) \in Nat /\ DOMAIN q = 1..Len(q)
  OBVIOUS
<1>1. chosen \subseteq 1..Len(q) /\ \A i \in chosen : q[i].bg = NoBg /\ Cardinality(before(i)) < n
  BY <1>0, SameCounting DEF Battlegrounds!Selected
<1>2. IsFiniteSet(chosen) /\ Cardinality(chosen) \in Nat
  <2> HIDE DEF chosen
  <2>1. IsFiniteSet(1..Len(q))
    BY <1>0, FS_Interval
  <2> QED BY <1>1, <2>1, FS_Subset, FS_CardinalityType
<1>3. \A i \in 1..Len(q) : IsFiniteSet(before(i)) /\ Cardinality(before(i)) \in Nat
  <2> SUFFICES ASSUME NEW i \in 1..Len(q) PROVE IsFiniteSet(before(i)) /\ Cardinality(before(i)) \in Nat
    OBVIOUS
  <2>0. 1 \in Int /\ i - 1 \in Int
    BY <1>0
  <2>2. before(i) \subseteq 1..(i - 1)
    OBVIOUS
  <2> HIDE DEF before
  <2>1. IsFiniteSet(1..(i - 1))
    BY <2>0, FS_Interval
  <2> QED BY <2>1, <2>2, FS_Subset, FS_CardinalityType
<1>4. ASSUME NEW i \in chosen, NEW k \in chosen, i < k PROVE Cardinality(before(i)) < Cardinality(before(k))
  <2>0. i \in 1..Len(q) /\ k \in 1..Len(q) /\ i \in Nat /\ k \in Nat /\ q[i].bg = NoBg
    <3> HIDE DEF chosen, before
    <3>1. i \in 1..Len(q) /\ k \in 1..Len(q) /\ q[i].bg = NoBg
      BY <1>1
    <3> QED BY <1>0, <3>1
  <2>1. before(i) \cup {i} \subseteq before(k) /\ i \notin before(i)
    BY <1>4, <2>0
  <2> HIDE DEF before
  <2>2. Cardinality(before(i) \cup {i}) = Cardinality(before(i)) + 1
    BY <1>3, <2>0, <2>1, FS_AddElement
  <2>3. Cardinality(before(i) \cup {i}) <= Cardinality(before(k))
    BY <1>3, <2>0, <2>1, FS_Subset
  <2> QED BY <1>3, <2>0, <2>2, <2>3
<1> HIDE DEF before, chosen
<1>5. rank \in [chosen -> 0..(n - 1)]
  BY <1>1, <1>3
<1>6. \A i, k \in chosen : rank[i] = rank[k] => i = k
  <2> SUFFICES ASSUME NEW i \in chosen, NEW k \in chosen, i # k PROVE rank[i] # rank[k]
    OBVIOUS
  <2>1. i \in Nat /\ k \in Nat /\ Cardinality(before(i)) \in Nat /\ Cardinality(before(k)) \in Nat
    BY <1>0, <1>1, <1>3
  <2>2. i < k \/ k < i
    BY <2>1
  <2> QED BY <1>4, <2>1, <2>2
<1> HIDE DEF rank
<1>7. rank \in Injection(chosen, 0..(n - 1))
  BY <1>5, <1>6 DEF Injection, IsInjective
<1>8. Cardinality(chosen) <= n
  <2>1. IsFiniteSet(0..(n - 1)) /\ Cardinality(0..(n - 1)) = n
    BY FS_Interval
  <2> QED BY <1>7, <2>1, FS_Injection
<1> QED BY <1>1, <1>2, <1>8 DEF chosen

\* Places of some who are not invited, and who they are.
Chosen(q, chosen) == chosen \subseteq 1..Len(q) /\ \A i \in chosen : q[i].bg = NoBg
Named(q, chosen) == {q[i].player : i \in chosen}

\* Some of those not invited are.
LEMMA InvitingIs ==
  ASSUME NEW t, NEW q, Proper(q, t), NEW b \in Bgs, NEW chosen, Chosen(q, chosen),
         NEW r, r = Battlegrounds!InviteGroupToBG(q, chosen, b),
         NEW new, new = Named(q, chosen)
  PROVE  /\ Proper(r, t) /\ QueuedIn(r) = QueuedIn(q)
         /\ InvitedIn(r, b) = InvitedIn(q, b) \cup new /\ InvitedIn(q, b) \cap new = {}
         /\ \A c \in Bgs : c # b => InvitedIn(r, c) = InvitedIn(q, c)
         /\ new \subseteq QueuedIn(q) /\ IsFiniteSet(new) /\ Cardinality(new) = Cardinality(chosen)
<1> USE DEF Chosen, Named
<1>0. q \in Seq(Place) /\ Len(q) \in Nat /\ DOMAIN q = 1..Len(q) /\ \A i \in 1..Len(q) : q[i] \in Place
  BY DEF Proper
<1>1. /\ r \in Seq(Place) /\ Len(r) = Len(q)
      /\ \A i \in 1..Len(q) : /\ r[i].player = q[i].player
                              /\ r[i].bg = IF i \in chosen THEN b ELSE q[i].bg
  <2>1. r = [i \in 1..Len(q) |-> IF i \in chosen THEN [player |-> q[i].player, bg |-> b, left |-> InviteWait] ELSE q[i]]
    BY <1>0 DEF Battlegrounds!InviteGroupToBG
  <2>2. \A i \in 1..Len(q) : [player |-> q[i].player, bg |-> b, left |-> InviteWait] \in Place
    BY <1>0, PlaceConstants DEF Place
  <2>3. r \in [1..Len(q) -> Place]
    BY <1>0, <2>1, <2>2
  <2>4. r \in Seq(Place) /\ Len(r) = Len(q)
    BY <1>0, <2>3
  <2> QED BY <2>1, <2>4
<1>2. Proper(r, t) /\ QueuedIn(r) = QueuedIn(q)
  <2>1. Proper(r, t)
    BY <1>1 DEF Proper
  <2>2. QueuedIn(r) = QueuedIn(q)
    BY <1>1 DEF QueuedIn
  <2> QED BY <2>1, <2>2
<1>3. \A i \in chosen : i \in 1..Len(q) /\ q[i].bg # b
  BY PlaceConstants
<1>4. \A i, j \in 1..Len(q) : q[i].player = q[j].player => i = j
  BY DEF Proper
<1>5. InvitedIn(r, b) = InvitedIn(q, b) \cup new
  <2>1. \A x \in InvitedIn(r, b) : x \in InvitedIn(q, b) \cup new
    BY <1>1 DEF InvitedIn
  <2>2. \A x \in InvitedIn(q, b) \cup new : x \in InvitedIn(r, b)
    BY <1>1, <1>3 DEF InvitedIn
  <2> QED BY <2>1, <2>2
<1>6. InvitedIn(q, b) \cap new = {}
  <2> SUFFICES ASSUME NEW x \in InvitedIn(q, b), x \in new PROVE FALSE
    OBVIOUS
  <2>1. PICK i \in 1..Len(q) : q[i].bg = b /\ x = q[i].player
    BY DEF InvitedIn
  <2>2. PICK j \in chosen : x = q[j].player
    OBVIOUS
  <2> QED BY <1>3, <1>4, <2>1, <2>2
<1>7. ASSUME NEW c \in Bgs, c # b PROVE InvitedIn(r, c) = InvitedIn(q, c)
  <2>1. \A i \in 1..Len(q) : r[i].bg = c <=> q[i].bg = c
    BY <1>1, <1>3, <1>7, PlaceConstants
  <2> QED BY <1>1, <2>1 DEF InvitedIn
<1>8. new \subseteq QueuedIn(q)
  BY DEF QueuedIn
<1>9. IsFiniteSet(new) /\ Cardinality(new) = Cardinality(chosen)
  <2> DEFINE name == [i \in chosen |-> q[i].player]
  <2>1. IsFiniteSet(chosen)
    <3>1. IsFiniteSet(1..Len(q))
      BY <1>0, FS_Interval
    <3> QED BY <3>1, FS_Subset
  <2>2. name \in Bijection(chosen, new)
    <3>1. name \in [chosen -> new] /\ \A x \in new : \E i \in chosen : name[i] = x
      OBVIOUS
    <3>2. \A i, j \in chosen : name[i] = name[j] => i = j
      BY <1>3, <1>4
    <3> HIDE DEF name
    <3> QED BY <3>1, <3>2 DEF Bijection, Injection, Surjection, IsInjective
  <2> HIDE DEF name
  <2>3. ExistsBijection(chosen, new)
    BY <2>2 DEF ExistsBijection
  <2> QED BY <2>1, <2>3, FS_Bijection
<1> QED BY <1>2, <1>5, <1>6, <1>7, <1>8, <1>9

\* How many a side may get so that it is as large as the other.
Room(mine, others) == IF others = mine THEN 1 ELSE IF others > mine THEN others - mine ELSE 0

\* The sides are as they were, at most one apart, or closer than before.
Evens(old, new) ==
  new = old \/ Battlegrounds!Difference(new) <= 1 \/ Battlegrounds!Difference(new) < Battlegrounds!Difference(old)

\* Giving no side more than that evens them.
LEMMA EvensOut ==
  ASSUME NEW old \in [Battlegrounds!Team -> Nat], NEW new \in [Battlegrounds!Team -> Nat],
         \A t \in Battlegrounds!Team : /\ old[t] <= new[t]
                                       /\ new[t] <= old[t] + Room(old[t], old[Battlegrounds!Other(t)])
  PROVE  Evens(old, new)
<1> DEFINE a == "alliance"
           h == "horde"
<1>1. /\ old[a] \in Nat /\ old[h] \in Nat /\ new[a] \in Nat /\ new[h] \in Nat
      /\ old[a] <= new[a] /\ new[a] <= old[a] + Room(old[a], old[h])
      /\ old[h] <= new[h] /\ new[h] <= old[h] + Room(old[h], old[a])
  BY DEF Battlegrounds!Team, Battlegrounds!Other
<1>2. CASE old[a] = old[h]
  BY <1>1, <1>2 DEF Room, Evens, Battlegrounds!Difference
<1>3. CASE new[a] = old[a] /\ new[h] = old[h]
  <2>1. \A t \in Battlegrounds!Team : new[t] = old[t]
    BY <1>3 DEF Battlegrounds!Team
  <2>2. new = old
    BY <2>1
  <2> QED BY <2>2 DEF Evens
<1>4. CASE old[a] > old[h] /\ new[h] > old[h]
  BY <1>1, <1>4 DEF Room, Evens, Battlegrounds!Difference
<1>5. CASE old[h] > old[a] /\ new[a] > old[a]
  BY <1>1, <1>5 DEF Room, Evens, Battlegrounds!Difference
<1>6. (old[a] > old[h] => new[a] = old[a]) /\ (old[h] > old[a] => new[h] = old[h])
  BY <1>1 DEF Room
<1> QED BY <1>1, <1>2, <1>3, <1>4, <1>5, <1>6

\* What may be invited to a battleground keeps it within its size.
LEMMA FreeSlotsIs ==
  ASSUME PlaceTypes, NEW b \in Bgs, NEW t \in Battlegrounds!Team, NEW inv \in [Battlegrounds!Team -> Nat],
         inv[t] <= MaxPlayersPerTeam
  PROVE  /\ Battlegrounds!FreeSlots(b, t, inv) \in Nat
         /\ inv[t] + Battlegrounds!FreeSlots(b, t, inv) <= MaxPlayersPerTeam
         /\ bgStatus[b] = "progress" =>
              Battlegrounds!FreeSlots(b, t, inv) <= Room(inv[t], inv[Battlegrounds!Other(t)])
<1> DEFINE o == Battlegrounds!Other(t)
           room == IF inv[t] < MaxPlayersPerTeam THEN MaxPlayersPerTeam - inv[t] ELSE 0
           Gap(mine, others) == IF others = mine THEN 1 ELSE IF others > mine THEN others - mine ELSE 0
           inside == Battlegrounds!Cardinality(Battlegrounds!In(b, t))
           opposite == Battlegrounds!Cardinality(Battlegrounds!In(b, o))
           entered == IF inside > opposite /\ inv[t] <= MinPlayersPerTeam
                      THEN MinPlayersPerTeam - inv[t] + 1 ELSE Gap(inside, opposite)
           S == {room, Gap(inv[t], inv[o]), entered}
<1>1. o \in Battlegrounds!Team /\ inv[t] \in Nat /\ inv[o] \in Nat
  BY DEF Battlegrounds!Other, Battlegrounds!Team
<1>2. inside \in Nat /\ opposite \in Nat
  <2>1. \A u : Battlegrounds!In(b, u) \subseteq Battlegrounds!Player
    BY DEF PlaceTypes, Battlegrounds!In
  <2>2. \A u : IsFiniteSet(Battlegrounds!In(b, u))
    BY <2>1, PlaceConstants, FS_Subset
  <2> QED BY <2>2, SameCounting, FS_CardinalityType
<1>3. Battlegrounds!FreeSlots(b, t, inv) = IF bgStatus[b] = "join" THEN room ELSE Battlegrounds!Min(S)
  BY DEF Battlegrounds!FreeSlots
<1> HIDE DEF o, inside, opposite
<1>4. room \in Nat /\ inv[t] + room <= MaxPlayersPerTeam
  BY <1>1, PlaceConstants
<1>5. Gap(inv[t], inv[o]) \in Nat /\ entered \in Nat
  BY <1>1, <1>2, PlaceConstants
<1> DEFINE x == room
           y == Gap(inv[t], inv[o])
           z == entered
<1> HIDE DEF room, Gap, entered
<1>6. Battlegrounds!Min({x, y, z}) \in {x, y, z} /\ \A u \in {x, y, z} : Battlegrounds!Min({x, y, z}) <= u
  <2>1. x \in Nat /\ y \in Nat /\ z \in Nat
    BY <1>4, <1>5
  <2> HIDE DEF x, y, z
  <2>2. \E u \in {x, y, z} : \A v \in {x, y, z} : u <= v
    BY <2>1
  <2> QED BY <2>2 DEF Battlegrounds!Min
<1>7. Battlegrounds!Min(S) \in Nat /\ Battlegrounds!Min(S) <= room /\ Battlegrounds!Min(S) <= y
  <2>1. S = {x, y, z} /\ x = room
    OBVIOUS
  <2>2. x \in Nat /\ y \in Nat /\ z \in Nat
    BY <1>4, <1>5
  <2> HIDE DEF x, y, z, S
  <2> QED BY <1>6, <2>1, <2>2
<1>8. y = Room(inv[t], inv[Battlegrounds!Other(t)])
  BY DEF y, Gap, o, Room
<1> HIDE DEF S
<1> QED BY <1>1, <1>3, <1>4, <1>7, <1>8, PlaceConstants

\* What the matching has done so far: players invited, counted as they are.
Match ==
  [queue : [Battlegrounds!Team -> Seq(Place)], invited : [Bgs -> [Battlegrounds!Team -> Nat]], open : Seq(Bgs)]

Tallies(m, st) ==
  /\ m \in Match
  /\ \A t \in Battlegrounds!Team : Proper(m.queue[t], t) /\ QueuedIn(m.queue[t]) = QueuedIn(queue[t])
  /\ Counted(m.queue, m.invited, st)

\* Inviting no more than there is room for keeps it so.
LEMMA InviteKeeps ==
  ASSUME PlacesInv, NEW m, NEW st, Tallies(m, st), NEW b \in Bgs, st[b] # "none",
         NEW slots \in [Battlegrounds!Team -> Nat],
         \A t \in Battlegrounds!Team : m.invited[b][t] + slots[t] <= MaxPlayersPerTeam
  PROVE  /\ Tallies(Battlegrounds!Invite(m, b, slots), st) /\ Battlegrounds!Invite(m, b, slots).open = m.open
         /\ \A t \in Battlegrounds!Team :
              /\ m.invited[b][t] <= Battlegrounds!Invite(m, b, slots).invited[b][t]
              /\ Battlegrounds!Invite(m, b, slots).invited[b][t] <= m.invited[b][t] + slots[t]
         /\ \A c \in Bgs : c # b => Battlegrounds!Invite(m, b, slots).invited[c] = m.invited[c]
<1> DEFINE chosen == [t \in Battlegrounds!Team |-> Battlegrounds!Selected(m.queue[t], slots[t])]
           n == Battlegrounds!Invite(m, b, slots)
           r(t) == Battlegrounds!InviteGroupToBG(m.queue[t], chosen[t], b)
           new(t) == Named(m.queue[t], chosen[t])
<1>1. /\ n.queue = [t \in Battlegrounds!Team |-> r(t)]
      /\ n.invited = [m.invited EXCEPT ![b] = [t \in Battlegrounds!Team |-> @[t] + Cardinality(chosen[t])]]
      /\ n.open = m.open
  BY SameCounting DEF Battlegrounds!Invite
<1>2. ASSUME NEW t \in Battlegrounds!Team
      PROVE  /\ chosen[t] \subseteq 1..Len(m.queue[t]) /\ \A i \in chosen[t] : m.queue[t][i].bg = NoBg
             /\ IsFiniteSet(chosen[t]) /\ Cardinality(chosen[t]) \in Nat /\ Cardinality(chosen[t]) <= slots[t]
  <2> DEFINE q == m.queue[t]
             k == slots[t]
             some == Battlegrounds!Selected(q, k)
  <2>1. q \in Seq(Place) /\ k \in Nat
    BY DEF Tallies, Proper
  <2> HIDE DEF q, k
  <2>2. /\ some \subseteq 1..Len(q) /\ \A i \in some : q[i].bg = NoBg
        /\ IsFiniteSet(some) /\ Cardinality(some) \in Nat /\ Cardinality(some) <= k
    BY <2>1, SelectedIs, Zenon
  <2> QED BY <2>2 DEF q, k
<1> HIDE DEF chosen, n
<1>3. ASSUME NEW t \in Battlegrounds!Team
      PROVE  /\ Proper(r(t), t) /\ QueuedIn(r(t)) = QueuedIn(m.queue[t])
             /\ InvitedIn(r(t), b) = InvitedIn(m.queue[t], b) \cup new(t) /\ InvitedIn(m.queue[t], b) \cap new(t) = {}
             /\ \A c \in Bgs : c # b => InvitedIn(r(t), c) = InvitedIn(m.queue[t], c)
             /\ new(t) \subseteq QueuedIn(m.queue[t]) /\ IsFiniteSet(new(t)) /\ Cardinality(new(t)) = Cardinality(chosen[t])
  <2> DEFINE q == m.queue[t]
             some == chosen[t]
  <2>1. Proper(q, t) /\ Chosen(q, some)
    BY <1>2 DEF Tallies, Chosen
  <2> HIDE DEF q, some
  <2> DEFINE x == Battlegrounds!InviteGroupToBG(q, some, b)
             y == Named(q, some)
  <2> HIDE DEF x, y
  <2>3. /\ Proper(x, t) /\ QueuedIn(x) = QueuedIn(q)
        /\ InvitedIn(x, b) = InvitedIn(q, b) \cup y /\ InvitedIn(q, b) \cap y = {}
        /\ \A c \in Bgs : c # b => InvitedIn(x, c) = InvitedIn(q, c)
        /\ y \subseteq QueuedIn(q) /\ IsFiniteSet(y) /\ Cardinality(y) = Cardinality(some)
    BY <2>1, InvitingIs DEF x, y
  <2> QED BY <2>3 DEF q, some, x, y
<1> HIDE DEF r, new
<1>4. /\ \A t \in Battlegrounds!Team : n.queue[t] = r(t)
      /\ n.queue \in [Battlegrounds!Team -> Seq(Place)]
  BY <1>1, <1>3 DEF Proper
<1>5. /\ n.invited \in [Bgs -> [Battlegrounds!Team -> Nat]]
      /\ \A t \in Battlegrounds!Team : n.invited[b][t] = m.invited[b][t] + Cardinality(chosen[t])
      /\ \A c \in Bgs : c # b => n.invited[c] = m.invited[c]
  <2>1. m.invited \in [Bgs -> [Battlegrounds!Team -> Nat]]
    BY DEF Tallies, Match
  <2> QED BY <1>1, <1>2, <2>1
<1>6. ASSUME NEW t \in Battlegrounds!Team
      PROVE  /\ n.invited[b][t] = Cardinality(Comers(n.queue[t], b, t))
             /\ n.invited[b][t] <= MaxPlayersPerTeam
  <2> DEFINE C == Comers(m.queue[t], b, t)
             N == new(t)
  <2>1. N \subseteq Battlegrounds!Player /\ \A p \in N : Battlegrounds!TeamOf(p) = t
    <3>1. \A p \in QueuedIn(m.queue[t]) : p \in Battlegrounds!Player /\ Battlegrounds!TeamOf(p) = t
      <4> DEFINE q == m.queue[t]
      <4>1. q \in Seq(Place) /\ \A i \in 1..Len(q) : Battlegrounds!TeamOf(q[i].player) = t
        BY DEF Tallies, Proper
      <4> HIDE DEF q
      <4>2. \A i \in 1..Len(q) : q[i] \in Place
        BY <4>1
      <4>3. \A i \in 1..Len(q) : q[i].player \in Battlegrounds!Player
        BY <4>2 DEF Place
      <4> QED BY <4>1, <4>3 DEF QueuedIn, q
    <3> QED BY <1>3, <3>1
  <2>2. C \cap N = {}
    <3>1. N \cap Inside(b) = {}
      BY <1>3 DEF Tallies, PlacesInv, Apart
    <3> QED BY <1>3, <3>1 DEF Comers
  <2>3. Comers(n.queue[t], b, t) = C \cup N
    BY <1>3, <1>4, <2>1 DEF Comers
  <2>4. IsFiniteSet(C) /\ Cardinality(C) \in Nat /\ IsFiniteSet(N) /\ Cardinality(N) = Cardinality(chosen[t])
    BY <1>3, ComersAreFinite
  <2>5. m.invited[b][t] = Cardinality(C)
    BY DEF Tallies, Counted
  <2> HIDE DEF C, N
  <2>6. Cardinality(C \cup N) = Cardinality(C) + Cardinality(N)
    <3>1. Cardinality(C \cap N) = 0
      BY <2>2, FS_EmptySet
    <3>2. Cardinality(C \cup N) = Cardinality(C) + Cardinality(N) - Cardinality(C \cap N)
      BY <2>4, FS_Union
    <3> QED BY <1>2, <2>4, <3>1, <3>2
  <2>7. m.invited[b][t] \in Nat /\ m.invited[b][t] + slots[t] <= MaxPlayersPerTeam /\ slots[t] \in Nat
    BY <2>4, <2>5
  <2> QED BY <1>2, <1>5, <2>3, <2>4, <2>5, <2>6, <2>7, PlaceConstants
<1>7. ASSUME NEW c \in Bgs, c # b, NEW t \in Battlegrounds!Team
      PROVE  Comers(n.queue[t], c, t) = Comers(m.queue[t], c, t) /\ n.invited[c][t] = m.invited[c][t]
  <2>1. InvitedIn(n.queue[t], c) = InvitedIn(m.queue[t], c) /\ n.invited[c] = m.invited[c]
    BY <1>3, <1>4, <1>5, <1>7
  <2> QED BY <2>1 DEF Comers
<1>8. Counted(n.queue, n.invited, st)
  BY <1>6, <1>7 DEF Tallies, Counted
<1>9. \A t \in Battlegrounds!Team : Proper(n.queue[t], t) /\ QueuedIn(n.queue[t]) = QueuedIn(queue[t])
  BY <1>3, <1>4 DEF Tallies
<1>10. n.open = m.open
  BY <1>1
<1>11. n \in Match
  <2>1. n = [queue |-> n.queue, invited |-> n.invited, open |-> n.open]
    BY DEF n, Battlegrounds!Invite
  <2> QED BY <1>4, <1>5, <1>10, <2>1 DEF Tallies, Match
<1>12. \A t \in Battlegrounds!Team :
         m.invited[b][t] <= n.invited[b][t] /\ n.invited[b][t] <= m.invited[b][t] + slots[t]
  <2> SUFFICES ASSUME NEW t \in Battlegrounds!Team
               PROVE  m.invited[b][t] <= n.invited[b][t] /\ n.invited[b][t] <= m.invited[b][t] + slots[t]
    OBVIOUS
  <2>1. m.invited[b][t] \in Nat /\ slots[t] \in Nat
    BY DEF Tallies, Match
  <2> QED BY <1>2, <1>5, <2>1
<1> QED BY <1>5, <1>8, <1>9, <1>10, <1>11, <1>12 DEF Tallies, n

\* A round of the loop keeps it so.
LEMMA VisitKeeps ==
  ASSUME PlacesInv, NEW m, Tallies(m, bgStatus), NEW b \in Bgs
  PROVE  LET n == Battlegrounds!Visit(m, b)
         IN  /\ Tallies(n, bgStatus) /\ (n.open = m.open \/ n.open = Append(m.open, b))
             /\ \A c \in Bgs : c # b => n.invited[c] = m.invited[c]
             /\ bgStatus[b] = "progress" => Evens(m.invited[b], n.invited[b])
<1> DEFINE filled == IF Battlegrounds!Running(b) THEN Battlegrounds!FillPlayersToBG(m, b) ELSE m
           n == Battlegrounds!Visit(m, b)
<1>1. /\ Tallies(filled, bgStatus) /\ filled.open = m.open
      /\ \A c \in Bgs : c # b => filled.invited[c] = m.invited[c]
      /\ bgStatus[b] = "progress" => Evens(m.invited[b], filled.invited[b])
  <2>1. CASE Battlegrounds!Running(b)
    <3> DEFINE slots == [t \in Battlegrounds!Team |-> Battlegrounds!FreeSlots(b, t, m.invited[b])]
    <3>1. m.invited[b] \in [Battlegrounds!Team -> Nat] /\ \A t \in Battlegrounds!Team : m.invited[b][t] <= MaxPlayersPerTeam
      BY DEF Tallies, Match, Counted
    <3>2. \A t \in Battlegrounds!Team :
            /\ slots[t] \in Nat /\ m.invited[b][t] + slots[t] <= MaxPlayersPerTeam
            /\ bgStatus[b] = "progress" =>
                 slots[t] <= Room(m.invited[b][t], m.invited[b][Battlegrounds!Other(t)])
      BY <3>1, FreeSlotsIs DEF PlacesInv
    <3>3. Battlegrounds!FillPlayersToBG(m, b) = Battlegrounds!Invite(m, b, slots)
      BY DEF Battlegrounds!FillPlayersToBG
    <3>4. bgStatus[b] # "none"
      BY <2>1 DEF Battlegrounds!Running
    <3>5. slots \in [Battlegrounds!Team -> Nat]
      BY <3>2
    <3> HIDE DEF slots
    <3> DEFINE all == Battlegrounds!Invite(m, b, slots)
    <3>6. /\ Tallies(all, bgStatus) /\ all.open = m.open
          /\ \A t \in Battlegrounds!Team :
               m.invited[b][t] <= all.invited[b][t] /\ all.invited[b][t] <= m.invited[b][t] + slots[t]
          /\ \A c \in Bgs : c # b => all.invited[c] = m.invited[c]
      BY <3>2, <3>4, <3>5, InviteKeeps
    <3> HIDE DEF all
    <3>7. ASSUME bgStatus[b] = "progress" PROVE Evens(m.invited[b], all.invited[b])
      <4> DEFINE old == m.invited[b]
                 new == all.invited[b]
      <4>1. old \in [Battlegrounds!Team -> Nat] /\ new \in [Battlegrounds!Team -> Nat]
        BY <3>1, <3>6 DEF Tallies, Match
      <4>2. ASSUME NEW t \in Battlegrounds!Team
            PROVE  old[t] <= new[t] /\ new[t] <= old[t] + Room(old[t], old[Battlegrounds!Other(t)])
        <5>1. /\ old[t] <= new[t] /\ new[t] <= old[t] + slots[t]
              /\ slots[t] <= Room(old[t], old[Battlegrounds!Other(t)]) /\ slots[t] \in Nat
          BY <3>2, <3>6, <3>7
        <5>2. /\ old[t] \in Nat /\ new[t] \in Nat /\ Battlegrounds!Other(t) \in Battlegrounds!Team
              /\ old[Battlegrounds!Other(t)] \in Nat
          BY <4>1 DEF Battlegrounds!Other, Battlegrounds!Team
        <5>3. Room(old[t], old[Battlegrounds!Other(t)]) \in Nat
          BY <5>2 DEF Room
        <5> HIDE DEF old, new
        <5> QED BY <5>1, <5>2, <5>3
      <4> HIDE DEF old, new
      <4>3. Evens(old, new)
        BY <4>1, <4>2, EvensOut
      <4> QED BY <4>3 DEF old, new
    <3>8. filled = all
      BY <2>1, <3>3 DEF all
    <3> QED BY <3>6, <3>7, <3>8
  <2>2. CASE ~Battlegrounds!Running(b)
    BY <2>2 DEF Evens
  <2> QED BY <2>1, <2>2
<1>2. n = filled \/ n = [filled EXCEPT !.open = Append(@, b)]
  <2> HIDE DEF filled
  <2>1. n = IF Battlegrounds!Running(b) /\ ~Battlegrounds!HasFreeSlots(b) THEN filled
            ELSE [filled EXCEPT !.open = Append(@, b)]
    BY DEF Battlegrounds!Visit, filled
  <2> HIDE DEF n
  <2> QED BY <2>1
<1> HIDE DEF filled, n
<1>0. filled \in Match
  BY <1>1 DEF Tallies
<1>3. n.queue = filled.queue /\ n.invited = filled.invited /\ (n.open = filled.open \/ n.open = Append(filled.open, b))
  <2>1. DOMAIN filled = {"queue", "invited", "open"}
    BY <1>0 DEF Match
  <2> QED BY <1>2, <2>1
<1>4. Tallies(n, bgStatus)
  <2>1. n \in Match
    <3>1. filled.open \in Seq(Bgs) /\ Append(filled.open, b) \in Seq(Bgs)
      BY <1>0 DEF Match
    <3> QED BY <1>0, <1>2, <3>1 DEF Match
  <2> QED BY <1>1, <1>3, <2>1 DEF Tallies
<1>5. /\ \A c \in Bgs : c # b => n.invited[c] = m.invited[c]
      /\ bgStatus[b] = "progress" => Evens(m.invited[b], n.invited[b])
  BY <1>1, <1>3
<1> QED BY <1>1, <1>3, <1>4, <1>5 DEF n

-----------------------------------------------------------------------------
(* The loop over the battlegrounds with free slots *)

Tallied == {m \in Match : Tallies(m, bgStatus)}
Start == [queue |-> queue, invited |-> invited, open |-> <<>>]

\* h gives what the loop has done after its first rounds.
IsLoop(h) == h[0] = Start /\ \A i \in 1..Len(freeSlots) : h[i] = Battlegrounds!Visit(h[i - 1], freeSlots[i])

\* The largest number of a set is one of them.
LEMMA LargestIsThere ==
  ASSUME NEW n \in Nat
  PROVE  \A U \in SUBSET (1..n) : U # {} => Battlegrounds!Max(U) \in U /\ \A y \in U : Battlegrounds!Max(U) >= y
BY LargestExists DEF Battlegrounds!Max

\* The library's fold makes one round after another, and each keeps the counts.
LEMMA LoopIs ==
  ASSUME PlacesInv
  PROVE  \E h \in [0..Len(freeSlots) -> Tallied] : IsLoop(h) /\ Battlegrounds!Filled = h[Len(freeSlots)]
<1> DEFINE n == Len(freeSlots)
           S == 1..n
           step == [e \in S \X Tallied |-> Battlegrounds!Visit(e[2], freeSlots[e[1]])]
           pick == [U \in SUBSET S |-> Battlegrounds!Max(U)]
<1>0. n \in Nat /\ DOMAIN freeSlots = S /\ \A i \in S : freeSlots[i] \in Bgs
  BY DEF PlacesInv, PlaceTypes
<1>s. Start \in Tallied
  <2>1. Start \in Match
    BY DEF Start, Match, PlacesInv, PlaceTypes
  <2>2. Tallies(Start, bgStatus)
    BY <2>1 DEF Start, Tallies, PlacesInv
  <2> QED BY <2>1, <2>2 DEF Tallied
<1>v. ASSUME NEW i \in S, NEW m \in Tallied PROVE Battlegrounds!Visit(m, freeSlots[i]) \in Tallied
  <2> DEFINE b == freeSlots[i]
  <2>1. b \in Bgs /\ Tallies(m, bgStatus)
    BY <1>0 DEF Tallied
  <2> HIDE DEF b
  <2>2. Tallies(Battlegrounds!Visit(m, b), bgStatus)
    BY <2>1, VisitKeeps
  <2> QED BY <2>2 DEF Tallied, Tallies, b
<1>1. /\ step \in [S \X Tallied -> Tallied]
      /\ \A i \in S, m \in Tallied : step[<<i, m>>] = Battlegrounds!Visit(m, freeSlots[i])
  BY <1>v
<1>2. \A U \in SUBSET S : U # {} => pick[U] = Battlegrounds!Max(U) /\ pick[U] \in U /\ \A y \in U : pick[U] >= y
  BY <1>0, LargestIsThere
<1>3. IsFiniteSet(S)
  BY <1>0, FS_Interval
<1> HIDE DEF step, pick
<1>4. PICK g \in [SUBSET S -> Tallied] : IsFold(g, SUBSET S, Start, step, pick)
  <2> HIDE DEF S
  <2> QED BY <1>s, <1>1, <1>2, <1>3, FoldExists
<1>5. ASSUME NEW U \in SUBSET S, U # {}
      PROVE  g[U] = Battlegrounds!Visit(g[U \ {Battlegrounds!Max(U)}], freeSlots[Battlegrounds!Max(U)])
  <2>1. pick[U] = Battlegrounds!Max(U) /\ pick[U] \in S /\ g[U \ {pick[U]}] \in Tallied
    BY <1>2, <1>5
  <2>2. g[U] = step[<<pick[U], g[U \ {pick[U]}]>>]
    BY <1>4, <1>5 DEF IsFold
  <2> QED BY <1>1, <2>1, <2>2
<1> DEFINE iter[s \in SUBSET DOMAIN freeSlots] ==
             IF s = {} THEN Start ELSE LET x == Battlegrounds!Max(s) IN Battlegrounds!Visit(iter[s \ {x}], freeSlots[x])
<1>6. Battlegrounds!Filled = iter[DOMAIN freeSlots]
  BY DEF Battlegrounds!Filled, Battlegrounds!FoldLeft, Battlegrounds!MapThenFoldSet, Start
<1>7. \A U \in SUBSET S :
        iter[U] = IF U = {} THEN Start
                  ELSE Battlegrounds!Visit(iter[U \ {Battlegrounds!Max(U)}], freeSlots[Battlegrounds!Max(U)])
  <2> DEFINE body(f, U) == IF U = {} THEN Start
                           ELSE Battlegrounds!Visit(f[U \ {Battlegrounds!Max(U)}], freeSlots[Battlegrounds!Max(U)])
  <2>1. g = [U \in SUBSET DOMAIN freeSlots |->
              IF U = {} THEN Start ELSE LET x == Battlegrounds!Max(U) IN Battlegrounds!Visit(g[U \ {x}], freeSlots[x])]
    <3>1. \A U \in SUBSET S : g[U] = body(g, U)
      BY <1>4, <1>5 DEF IsFold
    <3>2. g = [U \in SUBSET S |-> g[U]]
      OBVIOUS
    <3> QED BY <1>0, <3>1, <3>2
  <2>2. iter = [U \in SUBSET DOMAIN freeSlots |->
              IF U = {} THEN Start ELSE LET x == Battlegrounds!Max(U) IN Battlegrounds!Visit(iter[U \ {x}], freeSlots[x])]
    BY <2>1
  <2> HIDE DEF iter
  <2> QED BY <1>0, <2>2
<1> HIDE DEF iter
<1> DEFINE h == [i \in 0..n |-> iter[1..i]]
<1>8. ASSUME NEW i \in S PROVE h[i] = Battlegrounds!Visit(h[i - 1], freeSlots[i])
  <2>1. 1..i \in SUBSET S /\ 1..i # {} /\ i \in Nat /\ i >= 1 /\ i - 1 \in 0..n /\ i \in 0..n
    <3> HIDE DEF h
    <3>1. i \in Nat /\ i >= 1 /\ i - 1 \in 0..n /\ i \in 0..n /\ i \in 1..i /\ \A y \in 1..i : y \in S
      BY <1>0
    <3> QED BY <3>1
  <2>2. Battlegrounds!Max(1..i) \in 1..i /\ \A y \in 1..i : Battlegrounds!Max(1..i) >= y
    BY <2>1, LargestIsThere
  <2>3. Battlegrounds!Max(1..i) = i /\ (1..i) \ {i} = 1..(i - 1)
    BY <2>1, <2>2
  <2>4. iter[1..i] = Battlegrounds!Visit(iter[(1..i) \ {Battlegrounds!Max(1..i)}], freeSlots[Battlegrounds!Max(1..i)])
    BY <1>7, <2>1
  <2>5. h[i] = iter[1..i] /\ h[i - 1] = iter[1..(i - 1)]
    BY <2>1
  <2> QED BY <2>3, <2>4, <2>5
<1>9. h[0] = Start /\ h[n] = iter[DOMAIN freeSlots]
  <2>1. 0 \in 0..n /\ n \in 0..n /\ 1..0 = {} /\ {} \in SUBSET S /\ DOMAIN freeSlots = 1..n
    BY <1>0
  <2>2. iter[{}] = Start
    BY <1>7, <2>1
  <2> QED BY <2>1, <2>2
<1> HIDE DEF h
<1>10. h \in [0..n -> Tallied]
  <2> DEFINE Q == {m \in Nat : m <= n => h[m] \in Tallied}
  <2>1. 0 \in Q
    BY <1>s, <1>9
  <2>2. ASSUME NEW m \in Q PROVE m + 1 \in Q
    <3> SUFFICES ASSUME m + 1 <= n PROVE h[m + 1] \in Tallied
      OBVIOUS
    <3>1. m + 1 \in S /\ (m + 1) - 1 = m /\ h[m] \in Tallied
      BY <1>0
    <3>2. h[m + 1] = Battlegrounds!Visit(h[m], freeSlots[m + 1])
      BY <1>8, <3>1
    <3> QED BY <1>v, <3>1, <3>2
  <2> HIDE DEF Q
  <2>3. Q = Nat
    <3>1. Q \in SUBSET Nat
      BY DEF Q
    <3> QED BY <2>1, <2>2, <3>1, SetInduction
  <2>4. \A m \in 0..n : h[m] \in Tallied
    BY <1>0, <2>3 DEF Q
  <2>5. h = [i \in 0..n |-> h[i]]
    BY DEF h
  <2> QED BY <2>4, <2>5
<1>11. IsLoop(h)
  BY <1>8, <1>9 DEF IsLoop
<1> QED BY <1>6, <1>9, <1>10, <1>11

\* When the loop is over those who may come are counted, and it remembers
\* battlegrounds that had free slots before, none twice.
LEMMA FilledIs ==
  ASSUME PlacesInv
  PROVE  LET m == Battlegrounds!Filled
         IN  Tallies(m, bgStatus) /\ m.open \in Seq(Bgs) /\ IsInjective(m.open) /\ Range(m.open) \subseteq Range(freeSlots)
<1> DEFINE n == Len(freeSlots)
           seen(i) == {freeSlots[j] : j \in 1..i}
<1>0. n \in Nat /\ \A i \in 1..n : freeSlots[i] \in Bgs
  BY DEF PlacesInv, PlaceTypes
<1>1. PICK h \in [0..n -> Tallied] : IsLoop(h) /\ Battlegrounds!Filled = h[n]
  BY LoopIs
<1>2. ASSUME NEW i \in 1..n PROVE freeSlots[i] \notin seen(i - 1)
  BY <1>0, <1>2 DEF PlacesInv, PlaceTypes, IsInjective
<1>3. \A i \in 0..n : h[i].open \in Seq(Bgs) /\ Tallies(h[i], bgStatus)
  BY <1>1 DEF Tallied, Match
<1> DEFINE T == {i \in Nat : i <= n => IsInjective(h[i].open) /\ Range(h[i].open) \subseteq seen(i)}
<1>4. 0 \in T
  <2>1. h[0].open = <<>>
    BY <1>1 DEF IsLoop, Start
  <2> QED BY <2>1, EmptySequence
<1>5. ASSUME NEW i \in T PROVE i + 1 \in T
  <2> SUFFICES ASSUME i + 1 <= n
               PROVE  IsInjective(h[i + 1].open) /\ Range(h[i + 1].open) \subseteq seen(i + 1)
    OBVIOUS
  <2> DEFINE b == freeSlots[i + 1]
             o == h[i].open
  <2>1. i + 1 \in 1..n /\ i \in 0..n /\ (i + 1) - 1 = i /\ b \in Bgs
    BY <1>0
  <2>2. h[i + 1] = Battlegrounds!Visit(h[i], b) /\ Tallies(h[i], bgStatus) /\ o \in Seq(Bgs)
    BY <1>1, <1>3, <2>1 DEF IsLoop
  <2>3. h[i + 1].open = o \/ h[i + 1].open = Append(o, b)
    BY <2>1, <2>2, VisitKeeps
  <2>4. IsInjective(o) /\ Range(o) \subseteq seen(i)
    BY <2>1
  <2>5. b \notin seen(i) /\ b \in seen(i + 1) /\ seen(i) \subseteq seen(i + 1)
    BY <1>2, <2>1
  <2> HIDE DEF b, o, seen
  <2>6. b \notin Range(o)
    BY <2>4, <2>5
  <2>7. IsInjective(Append(o, b)) /\ Range(Append(o, b)) = Range(o) \cup {b}
    BY <2>1, <2>2, <2>4, <2>6, InjectiveAppend, RangeAppend
  <2>8. Range(o) \subseteq seen(i + 1) /\ Range(o) \cup {b} \subseteq seen(i + 1)
    BY <2>4, <2>5
  <2>9. CASE h[i + 1].open = o
    BY <2>4, <2>8, <2>9, Zenon
  <2>10. CASE h[i + 1].open = Append(o, b)
    BY <2>7, <2>8, <2>10, Zenon
  <2> QED BY <2>3, <2>9, <2>10
<1> HIDE DEF T
<1>6. T = Nat
  <2>1. T \in SUBSET Nat
    BY DEF T
  <2> QED BY <1>4, <1>5, <2>1, SetInduction
<1>7. IsInjective(h[n].open) /\ Range(h[n].open) \subseteq seen(n)
  BY <1>0, <1>6 DEF T
<1>8. seen(n) = Range(freeSlots)
  BY DEF Range, PlacesInv, PlaceTypes
<1> QED BY <1>0, <1>1, <1>3, <1>7, <1>8

-----------------------------------------------------------------------------
(* The actions *)

\* Whoever is taken from the queue was in it once, and was in no battleground.
LEMMA LeavingIs ==
  ASSUME PlacesInv, NEW p \in Battlegrounds!Player, Battlegrounds!Queued(p),
         queue' = [queue EXCEPT ![Battlegrounds!TeamOf(p)] =
                                  Battlegrounds!RemoveFirstMatch(@, LAMBDA e : e.player = p)]
  PROVE  /\ queue' \in [Battlegrounds!Team -> Seq(Place)]
         /\ \A t \in Battlegrounds!Team :
              /\ Proper(queue'[t], t) /\ QueuedIn(queue'[t]) = QueuedIn(queue[t]) \ {p}
              /\ \A b : InvitedIn(queue'[t], b) = InvitedIn(queue[t], b) \ {p}
         /\ \A b \in Bgs : p \notin Inside(b)
<1> DEFINE u == Battlegrounds!TeamOf(p)
           q == queue[u]
           r == LeavingOut(q, p)
<1>0. u \in Battlegrounds!Team /\ Proper(q, u) /\ queue \in [Battlegrounds!Team -> Seq(Place)]
  BY TeamIs DEF PlacesInv, PlaceTypes
<1>1. p \in QueuedIn(q)
  BY InvitedIs
<1>2. queue' = [queue EXCEPT ![u] = r]
  BY DEF LeavingOut
<1> HIDE DEF u, q
<1>3. PICK k \in 1..Len(q) : q[k].player = p
  BY <1>1 DEF QueuedIn
<1>4. IsShorter(r, q, k)
  BY <1>0, <1>3, RemovalIs
<1> HIDE DEF r
<1>5. Proper(r, u) /\ QueuedIn(r) = QueuedIn(q) \ {p} /\ \A b : InvitedIn(r, b) = InvitedIn(q, b) \ {p}
  BY <1>0, <1>3, <1>4, RemovalKeeps
<1>6. queue' \in [Battlegrounds!Team -> Seq(Place)]
  BY <1>0, <1>2, <1>4 DEF IsShorter
<1>7. ASSUME NEW t \in Battlegrounds!Team
      PROVE  /\ Proper(queue'[t], t) /\ QueuedIn(queue'[t]) = QueuedIn(queue[t]) \ {p}
             /\ \A b : InvitedIn(queue'[t], b) = InvitedIn(queue[t], b) \ {p}
  <2>1. CASE t = u
    <3>1. queue'[t] = r /\ queue[t] = q
      BY <1>0, <1>2, <2>1 DEF q
    <3> QED BY <1>5, <2>1, <3>1
  <2>2. CASE t # u
    <3>1. queue'[t] = queue[t] /\ Proper(queue[t], t)
      BY <1>0, <1>2, <2>2 DEF PlacesInv
    <3>2. p \notin QueuedIn(queue[t])
      BY <2>2, <3>1 DEF Proper, QueuedIn, u
    <3>3. \A b : p \notin InvitedIn(queue[t], b)
      BY <3>2 DEF QueuedIn, InvitedIn
    <3> QED BY <3>1, <3>2, <3>3
  <2> QED BY <2>1, <2>2
<1>8. \A b \in Bgs : p \notin Inside(b)
  BY <1>0, <1>1 DEF PlacesInv, Apart, q
<1> QED BY <1>6, <1>7, <1>8

\* Nobody is invited to two battlegrounds.
LEMMA InvitedOnce ==
  ASSUME NEW t, NEW q, Proper(q, t), NEW b, NEW c, NEW p, p \in InvitedIn(q, b), p \in InvitedIn(q, c)
  PROVE  b = c
BY DEF Proper, InvitedIn

\* Leaving the queue, by whatever way, is counted off.
LEMMA LeavingKeeps ==
  ASSUME PlacesInv, NEW p \in Battlegrounds!Player, Battlegrounds!Queued(p), Battlegrounds!RemovePlayer(p, TRUE),
         UNCHANGED <<bgStatus, porting, players, freeSlots>>,
         events' \subseteq events, scheduled' \in BOOLEAN, handled' \in BOOLEAN
  PROVE  PlacesInv'
<1> DEFINE u == Battlegrounds!TeamOf(p)
<1>0. /\ queue' = [queue EXCEPT ![u] = Battlegrounds!RemoveFirstMatch(@, LAMBDA e : e.player = p)]
      /\ invited' = [b \in Bgs |-> IF Battlegrounds!InvitedTo(p, b) THEN [invited[b] EXCEPT ![u] = @ - 1] ELSE invited[b]]
  BY DEF Battlegrounds!RemovePlayer
<1>1. /\ queue' \in [Battlegrounds!Team -> Seq(Place)]
      /\ \A t \in Battlegrounds!Team :
           /\ Proper(queue'[t], t) /\ QueuedIn(queue'[t]) = QueuedIn(queue[t]) \ {p}
           /\ \A b : InvitedIn(queue'[t], b) = InvitedIn(queue[t], b) \ {p}
      /\ \A b \in Bgs : p \notin Inside(b)
  BY <1>0, LeavingIs
<1>2. u \in Battlegrounds!Team /\ invited \in [Bgs -> [Battlegrounds!Team -> Nat]]
  BY TeamIs DEF PlacesInv, PlaceTypes
<1>3. \A b : Battlegrounds!InvitedTo(p, b) <=> p \in InvitedIn(queue[u], b)
  BY InvitedIs
<1>i. \A b : Inside(b)' = Inside(b)
  BY DEF Inside
<1>4. ASSUME NEW b \in Bgs, NEW t \in Battlegrounds!Team
      PROVE  /\ invited'[b][t] = Cardinality(Comers(queue[t], b, t)') /\ invited'[b][t] <= MaxPlayersPerTeam
             /\ Comers(queue[t], b, t)' \subseteq Comers(queue[t], b, t)
             /\ invited'[b][t] \in Nat
  <2> DEFINE C == Comers(queue[t], b, t)
             D == Comers(queue[t], b, t)'
  <2>1. D = C \ {p}
    <3>1. D = {x \in Battlegrounds!Player : Battlegrounds!TeamOf(x) = t /\ x \in InvitedIn(queue'[t], b) \cup Inside(b)}
      BY <1>i DEF Comers, InvitedIn
    <3>2. C = {x \in Battlegrounds!Player : Battlegrounds!TeamOf(x) = t /\ x \in InvitedIn(queue[t], b) \cup Inside(b)}
      BY DEF Comers
    <3>3. InvitedIn(queue'[t], b) = InvitedIn(queue[t], b) \ {p} /\ p \notin Inside(b)
      BY <1>1
    <3> HIDE DEF C, D
    <3> QED BY <3>1, <3>2, <3>3
  <2>2. IsFiniteSet(C) /\ Cardinality(C) \in Nat /\ invited[b][t] = Cardinality(C) /\ invited[b][t] <= MaxPlayersPerTeam
    BY ComersAreFinite DEF PlacesInv, Counted
  <2>3. p \in C <=> (t = u /\ Battlegrounds!InvitedTo(p, b))
    BY <1>1, <1>3 DEF Comers
  <2> HIDE DEF C, D
  <2>4. invited'[b][t] = IF t = u /\ Battlegrounds!InvitedTo(p, b) THEN invited[b][t] - 1 ELSE invited[b][t]
    BY <1>0, <1>2
  <2>5. CASE p \in C
    <3>1. Cardinality(D) = Cardinality(C) - 1 /\ Cardinality(D) \in Nat
      BY <2>1, <2>2, <2>5, FS_RemoveElement, FS_CardinalityType
    <3> QED BY <2>1, <2>2, <2>3, <2>4, <2>5, <3>1, PlaceConstants DEF D, C
  <2>6. CASE p \notin C
    <3>1. D = C
      BY <2>1, <2>6
    <3> QED BY <2>2, <2>3, <2>4, <2>6, <3>1 DEF D, C
  <2> QED BY <2>5, <2>6
<1>5. PlaceTypes'
  <2>1. invited' \in [Bgs -> [Battlegrounds!Team -> Nat]]
    <3>1. \A b \in Bgs : DOMAIN invited'[b] = Battlegrounds!Team
      BY <1>0, <1>2
    <3>2. \A b \in Bgs : invited'[b] \in [Battlegrounds!Team -> Nat]
      <4> SUFFICES ASSUME NEW b \in Bgs PROVE invited'[b] \in [Battlegrounds!Team -> Nat]
        OBVIOUS
      <4>1. invited'[b] = IF Battlegrounds!InvitedTo(p, b) THEN [invited[b] EXCEPT ![u] = @ - 1] ELSE invited[b]
        BY <1>0
      <4>2. invited'[b] = [t \in Battlegrounds!Team |-> invited'[b][t]]
        BY <1>2, <4>1
      <4> QED BY <1>4, <4>2
    <3>3. invited' = [b \in Bgs |-> invited'[b]]
      BY <1>0
    <3> QED BY <3>2, <3>3
  <2> QED BY <1>1, <2>1 DEF PlacesInv, PlaceTypes
<1>6. Apart'
  BY <1>1, <1>i DEF PlacesInv, Apart, QueuedIn
<1>7. Counted(queue, invited, bgStatus)'
  BY <1>4 DEF PlacesInv, Counted
<1>8. \A t \in Battlegrounds!Team : Proper(queue[t], t)'
  BY <1>1 DEF Proper
<1>9. (\A b \in Range(freeSlots) : bgStatus[b] # "none")'
  BY DEF PlacesInv
<1> QED BY <1>5, <1>6, <1>7, <1>8, <1>9 DEF PlacesInv

\* A battleground is put before those with free slots.
LEMMA ListedFirst ==
  ASSUME NEW b \in Bgs, NEW s \in Seq(Bgs), IsInjective(s), b \notin Range(s)
  PROVE  <<b>> \o s \in Seq(Bgs) /\ IsInjective(<<b>> \o s) /\ Range(<<b>> \o s) = {b} \cup Range(s)
<1> DEFINE one == <<b>>
<1>1. one \in Seq(Bgs) /\ IsInjective(one) /\ Range(one) = {b}
  BY DEF IsInjective, Range
<1> HIDE DEF one
<1>2. one \o s \in Seq(Bgs) /\ Range(one \o s) = Range(one) \cup Range(s)
  BY <1>1, RangeConcat
<1>3. IsInjective(one \o s)
  BY <1>1, InjectiveConcat
<1> QED BY <1>1, <1>2, <1>3 DEF one

\* A battleground is taken out of those with free slots.
LEMMA NotListedIs ==
  ASSUME PlacesInv, NEW b \in Bgs
  PROVE  LET r == Battlegrounds!NotListed(b)
         IN  r \in Seq(Bgs) /\ IsInjective(r) /\ Range(r) = Range(freeSlots) \ {b}
<1> DEFINE r == Battlegrounds!NotListed(b)
           n == Len(freeSlots)
           I == {i \in 1..n : freeSlots[i] = b}
<1>0. /\ freeSlots \in Seq(Bgs) /\ n \in Nat /\ DOMAIN freeSlots = 1..n
      /\ \A i, j \in 1..n : freeSlots[i] = freeSlots[j] => i = j
  BY DEF PlacesInv, PlaceTypes, IsInjective
<1>1. r = IF \E i \in 1..n : freeSlots[i] = b
          THEN LET k == IF I # {} THEN Battlegrounds!Min(I) ELSE 0
               IN  Cut(freeSlots, k)
          ELSE freeSlots
  BY DEF Battlegrounds!NotListed, Battlegrounds!RemoveFirst, Battlegrounds!SelectInSeq, Battlegrounds!RemoveAt, Cut
<1>2. CASE \E i \in 1..n : freeSlots[i] = b
  <2>1. PICK k \in 1..n : freeSlots[k] = b
    BY <1>2
  <2>2. I = {k}
    BY <1>0, <2>1
  <2>3. I # {} /\ Battlegrounds!Min(I) = k
    BY <1>0, <2>1, <2>2 DEF Battlegrounds!Min
  <2>4. r = Cut(freeSlots, k)
    BY <1>1, <1>2, <2>3
  <2> HIDE DEF r
  <2>5. r \in Seq(Bgs) /\ IsCut(r, freeSlots, k)
    BY <1>0, <2>4, SequenceCut
  <2>6. IsInjective(freeSlots)
    BY DEF PlacesInv, PlaceTypes
  <2> QED BY <1>0, <2>1, <2>5, <2>6, InjectiveCut DEF r
<1>3. CASE ~\E i \in 1..n : freeSlots[i] = b
  <2>1. r = freeSlots
    BY <1>1, <1>3
  <2>2. b \notin Range(freeSlots)
    BY <1>0, <1>3 DEF Range
  <2> QED BY <2>1, <2>2 DEF PlacesInv, PlaceTypes
<1> QED BY <1>2, <1>3

\* Joining the queue.
LEMMA JoinKeeps ==
  ASSUME PlacesInv, NEW p \in Battlegrounds!Player, Battlegrounds!HandleBattlemasterJoin(p)
  PROVE  PlacesInv'
<1> DEFINE u == Battlegrounds!TeamOf(p)
           e == [player |-> p, bg |-> NoBg, left |-> 0]
           q == queue[u]
           r == Append(q, e)
<1>0. /\ u \in Battlegrounds!Team /\ Proper(q, u) /\ queue \in [Battlegrounds!Team -> Seq(Place)]
      /\ e \in Place /\ e.player = p /\ e.bg = NoBg /\ Battlegrounds!TeamOf(e.player) = u
  <2>1. 0 \in 0..InviteWait
    BY PlaceConstants
  <2>2. e \in Place /\ e.player = p /\ e.bg = NoBg
    BY <2>1 DEF Place
  <2> QED BY <2>2, TeamIs DEF PlacesInv, PlaceTypes
<1>1. /\ queue' = [queue EXCEPT ![u] = Append(@, e)] /\ scheduled' = TRUE
      /\ UNCHANGED <<events, bgStatus, invited, porting, players, freeSlots, handled>>
  BY DEF Battlegrounds!HandleBattlemasterJoin, Battlegrounds!bgVars
<1>2. p \notin QueuedIn(q) /\ \A b \in Bgs : p \notin Inside(b)
  BY InvitedIs DEF Battlegrounds!HandleBattlemasterJoin, Battlegrounds!Outside, Inside
<1> HIDE DEF u, e, q
<1>3. Proper(r, u) /\ QueuedIn(r) = QueuedIn(q) \cup {p} /\ \A b \in Bgs : InvitedIn(r, b) = InvitedIn(q, b)
  BY <1>0, <1>2, JoiningKeeps
<1>4. queue' = [queue EXCEPT ![u] = r]
  BY <1>1 DEF q
<1> HIDE DEF r
<1>5. queue' \in [Battlegrounds!Team -> Seq(Place)]
  BY <1>0, <1>3, <1>4 DEF Proper
<1>6. ASSUME NEW t \in Battlegrounds!Team
      PROVE  /\ Proper(queue'[t], t) /\ QueuedIn(queue'[t]) \subseteq QueuedIn(queue[t]) \cup {p}
             /\ \A b \in Bgs : InvitedIn(queue'[t], b) = InvitedIn(queue[t], b)
  <2>1. CASE t = u
    <3>1. queue'[t] = r /\ queue[t] = q
      BY <1>0, <1>4, <2>1 DEF q
    <3> QED BY <1>3, <2>1, <3>1
  <2>2. CASE t # u
    <3>1. queue'[t] = queue[t] /\ Proper(queue[t], t)
      BY <1>0, <1>4, <2>2 DEF PlacesInv
    <3> QED BY <3>1
  <2> QED BY <2>1, <2>2
<1>i. \A b : Inside(b)' = Inside(b)
  BY <1>1 DEF Inside
<1>7. ASSUME NEW b \in Bgs, NEW t \in Battlegrounds!Team
      PROVE  Comers(queue[t], b, t)' = Comers(queue[t], b, t)
  <2>1. Comers(queue[t], b, t)' =
          {x \in Battlegrounds!Player : Battlegrounds!TeamOf(x) = t /\ x \in InvitedIn(queue'[t], b) \cup Inside(b)}
    BY <1>i DEF Comers, InvitedIn
  <2> QED BY <1>6, <2>1 DEF Comers
<1>8. PlaceTypes'
  BY <1>1, <1>5 DEF PlacesInv, PlaceTypes
<1>9. Apart'
  BY <1>1, <1>2, <1>6, <1>i DEF PlacesInv, Apart, QueuedIn
<1>10. Counted(queue, invited, bgStatus)'
  BY <1>1, <1>7 DEF PlacesInv, Counted
<1>11. \A t \in Battlegrounds!Team : Proper(queue[t], t)'
  BY <1>6 DEF Proper
<1>12. (\A b \in Range(freeSlots) : bgStatus[b] # "none")'
  BY <1>1 DEF PlacesInv
<1> QED BY <1>8, <1>9, <1>10, <1>11, <1>12 DEF PlacesInv

\* Entering: he is on his way, where he was invited to.
LEMMA EnterKeeps ==
  ASSUME PlacesInv, NEW p \in Battlegrounds!Player, NEW c \in Bgs, Battlegrounds!Enter(p, c)
  PROVE  PlacesInv'
<1> DEFINE u == Battlegrounds!TeamOf(p)
<1>0. /\ queue' = [queue EXCEPT ![u] = Battlegrounds!RemoveFirstMatch(@, LAMBDA e : e.player = p)]
      /\ invited' = [b \in Bgs |-> invited[b]]
      /\ porting' = [porting EXCEPT ![c] = @ \cup {p}]
      /\ UNCHANGED <<events, scheduled, bgStatus, players, freeSlots, handled>>
      /\ Battlegrounds!InvitedTo(p, c)
  BY DEF Battlegrounds!Enter, Battlegrounds!RemovePlayer
<1>1. Battlegrounds!Queued(p)
  BY <1>0 DEF Battlegrounds!Queued, Battlegrounds!InvitedTo
<1>2. /\ queue' \in [Battlegrounds!Team -> Seq(Place)]
      /\ \A t \in Battlegrounds!Team :
           /\ Proper(queue'[t], t) /\ QueuedIn(queue'[t]) = QueuedIn(queue[t]) \ {p}
           /\ \A b : InvitedIn(queue'[t], b) = InvitedIn(queue[t], b) \ {p}
      /\ \A b \in Bgs : p \notin Inside(b)
  BY <1>0, <1>1, LeavingIs
<1>3. u \in Battlegrounds!Team /\ p \in InvitedIn(queue[u], c) /\ Proper(queue[u], u)
  BY <1>0, InvitedIs, TeamIs DEF PlacesInv
<1> HIDE DEF u
<1>4. invited' = invited
  BY <1>0 DEF PlacesInv, PlaceTypes
<1>5. porting \in [Bgs -> SUBSET Battlegrounds!Player] /\ porting' \in [Bgs -> SUBSET Battlegrounds!Player]
  BY <1>0 DEF PlacesInv, PlaceTypes
<1>6. \A b \in Bgs : Inside(b)' = IF b = c THEN Inside(b) \cup {p} ELSE Inside(b)
  BY <1>0, <1>5 DEF Inside
<1>7. ASSUME NEW b \in Bgs, NEW t \in Battlegrounds!Team
      PROVE  Comers(queue[t], b, t)' = Comers(queue[t], b, t)
  <2>1. Comers(queue[t], b, t)' =
          {x \in Battlegrounds!Player : Battlegrounds!TeamOf(x) = t /\ x \in InvitedIn(queue'[t], b) \cup Inside(b)'}
    BY DEF Comers, InvitedIn
  <2>2. InvitedIn(queue'[t], b) = InvitedIn(queue[t], b) \ {p}
    BY <1>2
  <2>3. CASE t = u /\ b = c
    BY <1>3, <1>6, <2>1, <2>2, <2>3 DEF Comers, u
  <2>4. CASE t = u /\ b # c
    <3>1. p \notin InvitedIn(queue[t], b)
      BY <1>3, <2>4, InvitedOnce
    <3> QED BY <1>6, <2>1, <2>2, <2>4, <3>1 DEF Comers
  <2>5. CASE t # u
    BY <1>6, <2>1, <2>2, <2>5 DEF Comers, u
  <2> QED BY <2>3, <2>4, <2>5
<1>8. PlaceTypes'
  BY <1>0, <1>2, <1>4, <1>5 DEF PlacesInv, PlaceTypes
<1>9. Apart'
  <2>1. ASSUME NEW b \in Bgs PROVE porting'[b] \cap players'[b] = {}
    <3>1. porting'[b] \subseteq porting[b] \cup {p} /\ players'[b] = players[b]
      BY <1>0, <1>5
    <3>2. p \notin players[b] /\ porting[b] \cap players[b] = {}
      BY <1>2 DEF PlacesInv, Apart, Inside
    <3> QED BY <3>1, <3>2
  <2>2. ASSUME NEW b \in Bgs, NEW t \in Battlegrounds!Team PROVE QueuedIn(queue'[t]) \cap Inside(b)' = {}
    <3>1. QueuedIn(queue'[t]) = QueuedIn(queue[t]) \ {p}
      BY <1>2
    <3>2. Inside(b)' \subseteq Inside(b) \cup {p} /\ QueuedIn(queue[t]) \cap Inside(b) = {}
      BY <1>6 DEF PlacesInv, Apart
    <3> QED BY <3>1, <3>2
  <2> QED BY <2>1, <2>2 DEF Apart, QueuedIn
<1>10. Counted(queue, invited, bgStatus)'
  <2>1. bgStatus' = bgStatus /\ Counted(queue, invited, bgStatus)
    BY <1>0 DEF PlacesInv
  <2> QED BY <1>4, <1>7, <2>1 DEF Counted
<1>11. \A t \in Battlegrounds!Team : Proper(queue[t], t)'
  BY <1>2 DEF Proper
<1>12. (\A b \in Range(freeSlots) : bgStatus[b] # "none")'
  BY <1>0 DEF PlacesInv
<1> QED BY <1>8, <1>9, <1>10, <1>11, <1>12 DEF PlacesInv

\* Arriving: who was on the way is inside.
LEMMA AddKeeps ==
  ASSUME PlacesInv, NEW p \in Battlegrounds!Player, NEW c \in Bgs, Battlegrounds!AddPlayer(p, c)
  PROVE  PlacesInv'
<1>0. /\ p \in porting[c]
      /\ porting' = [porting EXCEPT ![c] = @ \ {p}] /\ players' = [players EXCEPT ![c] = @ \cup {p}]
      /\ UNCHANGED <<queue, events, scheduled, bgStatus, invited, freeSlots, handled>>
  BY DEF Battlegrounds!AddPlayer
<1>1. /\ porting \in [Bgs -> SUBSET Battlegrounds!Player] /\ players \in [Bgs -> SUBSET Battlegrounds!Player]
      /\ \A b \in Bgs : porting[b] \cap players[b] = {}
  BY DEF PlacesInv, PlaceTypes, Apart
<1>2. /\ porting' \in [Bgs -> SUBSET Battlegrounds!Player] /\ players' \in [Bgs -> SUBSET Battlegrounds!Player]
      /\ \A b \in Bgs : porting'[b] \cap players'[b] = {}
  BY <1>0, <1>1
<1>3. \A b \in Bgs : Inside(b)' = Inside(b)
  BY <1>0, <1>1 DEF Inside
<1>4. ASSUME NEW b \in Bgs, NEW t \in Battlegrounds!Team
      PROVE  Comers(queue[t], b, t)' = Comers(queue[t], b, t) /\ QueuedIn(queue[t])' = QueuedIn(queue[t])
  BY <1>0, <1>3 DEF Comers, InvitedIn, QueuedIn
<1>5. PlaceTypes'
  BY <1>0, <1>2 DEF PlacesInv, PlaceTypes
<1>6. Apart'
  BY <1>2, <1>3, <1>4 DEF PlacesInv, Apart
<1>7. Counted(queue, invited, bgStatus)'
  <2>1. bgStatus' = bgStatus /\ invited' = invited /\ Counted(queue, invited, bgStatus)
    BY <1>0 DEF PlacesInv
  <2> QED BY <1>4, <2>1 DEF Counted
<1>8. \A t \in Battlegrounds!Team : Proper(queue[t], t)'
  BY <1>0 DEF PlacesInv, Proper
<1>9. (\A b \in Range(freeSlots) : bgStatus[b] # "none")'
  BY <1>0 DEF PlacesInv
<1> QED BY <1>5, <1>6, <1>7, <1>8, <1>9 DEF PlacesInv

\* Leaving a battleground is counted off.
LEMMA RemoveKeeps ==
  ASSUME PlacesInv, NEW p \in Battlegrounds!Player, NEW c \in Bgs, Battlegrounds!RemovePlayerAtLeave(p, c)
  PROVE  PlacesInv'
<1> DEFINE u == Battlegrounds!TeamOf(p)
<1>0. /\ p \in players[c]
      /\ players' = [players EXCEPT ![c] = @ \ {p}]
      /\ invited' = [invited EXCEPT ![c][u] = @ - 1]
      /\ UNCHANGED <<queue, events, bgStatus, porting, handled>>
  BY DEF Battlegrounds!RemovePlayerAtLeave
<1>1. /\ porting \in [Bgs -> SUBSET Battlegrounds!Player] /\ players \in [Bgs -> SUBSET Battlegrounds!Player]
      /\ invited \in [Bgs -> [Battlegrounds!Team -> Nat]] /\ u \in Battlegrounds!Team
  BY TeamIs DEF PlacesInv, PlaceTypes
<1>2. players' \in [Bgs -> SUBSET Battlegrounds!Player]
  BY <1>0, <1>1
<1>3. p \in Inside(c) /\ p \notin porting[c] /\ \A t \in Battlegrounds!Team : p \notin QueuedIn(queue[t])
  BY <1>0 DEF PlacesInv, Apart, Inside
<1>4. \A t \in Battlegrounds!Team, b \in Bgs : p \notin InvitedIn(queue[t], b)
  BY <1>3 DEF QueuedIn, InvitedIn
<1>5. \A b \in Bgs : Inside(b)' = IF b = c THEN Inside(b) \ {p} ELSE Inside(b)
  BY <1>0, <1>1, <1>3 DEF Inside
<1> HIDE DEF u
<1>6. ASSUME NEW b \in Bgs, NEW t \in Battlegrounds!Team
      PROVE  /\ invited'[b][t] = Cardinality(Comers(queue[t], b, t)') /\ invited'[b][t] <= MaxPlayersPerTeam
             /\ Comers(queue[t], b, t)' \subseteq Comers(queue[t], b, t) /\ invited'[b][t] \in Nat
  <2> DEFINE C == Comers(queue[t], b, t)
             D == Comers(queue[t], b, t)'
  <2>1. D = {x \in Battlegrounds!Player : Battlegrounds!TeamOf(x) = t /\ x \in InvitedIn(queue[t], b) \cup Inside(b)'}
    BY <1>0 DEF Comers, InvitedIn
  <2>2. C = {x \in Battlegrounds!Player : Battlegrounds!TeamOf(x) = t /\ x \in InvitedIn(queue[t], b) \cup Inside(b)}
    BY DEF Comers
  <2>3. IsFiniteSet(C) /\ Cardinality(C) \in Nat /\ invited[b][t] = Cardinality(C) /\ invited[b][t] <= MaxPlayersPerTeam
    BY ComersAreFinite DEF PlacesInv, Counted
  <2> HIDE DEF C, D
  <2>4. CASE b = c /\ t = u
    <3>1. D = C \ {p} /\ p \in C
      BY <1>3, <1>4, <1>5, <2>1, <2>2, <2>4 DEF u
    <3>2. Cardinality(D) = Cardinality(C) - 1 /\ Cardinality(D) \in Nat
      BY <2>3, <3>1, FS_RemoveElement, FS_CardinalityType
    <3>3. invited'[b][t] = invited[b][t] - 1
      BY <1>0, <1>1, <2>4
    <3> QED BY <2>3, <3>1, <3>2, <3>3, PlaceConstants DEF C, D
  <2>5. CASE ~(b = c /\ t = u)
    <3>1. D = C
      BY <1>4, <1>5, <2>1, <2>2, <2>5 DEF u
    <3>2. invited'[b][t] = invited[b][t]
      BY <1>0, <1>1, <2>5
    <3> QED BY <2>3, <3>1, <3>2 DEF C, D
  <2> QED BY <2>4, <2>5
<1>7. invited' \in [Bgs -> [Battlegrounds!Team -> Nat]]
  <2>1. \A b \in Bgs : invited'[b] = [t \in Battlegrounds!Team |-> invited'[b][t]]
    BY <1>0, <1>1
  <2>2. \A b \in Bgs : invited'[b] \in [Battlegrounds!Team -> Nat]
    BY <1>6, <2>1
  <2>3. invited' = [b \in Bgs |-> invited'[b]]
    BY <1>0, <1>1
  <2> QED BY <2>2, <2>3
<1>8. bgStatus[c] # "none"
  <2>1. p \in Comers(queue[u], c, u)
    BY <1>3 DEF Comers, u
  <2> QED BY <1>1, <2>1 DEF PlacesInv, Counted
<1>9. /\ freeSlots' \in Seq(Bgs) /\ IsInjective(freeSlots') /\ scheduled' \in BOOLEAN
      /\ Range(freeSlots') \subseteq Range(freeSlots) \cup {c}
  <2>1. freeSlots \in Seq(Bgs) /\ IsInjective(freeSlots) /\ scheduled \in BOOLEAN
    BY DEF PlacesInv, PlaceTypes
  <2>2. CASE freeSlots' = freeSlots
    BY <2>1, <2>2 DEF Battlegrounds!RemovePlayerAtLeave
  <2>3. CASE freeSlots' = <<c>> \o freeSlots /\ ~Battlegrounds!Contains(freeSlots, c)
    <3>1. c \notin Range(freeSlots)
      BY <2>1, <2>3 DEF Battlegrounds!Contains, Range
    <3>2. freeSlots' \in Seq(Bgs) /\ IsInjective(freeSlots') /\ Range(freeSlots') = {c} \cup Range(freeSlots)
      BY <2>1, <2>3, <3>1, ListedFirst
    <3> QED BY <2>1, <3>2 DEF Battlegrounds!RemovePlayerAtLeave
  <2> QED BY <2>2, <2>3 DEF Battlegrounds!RemovePlayerAtLeave
<1>10. PlaceTypes'
  BY <1>0, <1>2, <1>7, <1>9 DEF PlacesInv, PlaceTypes
<1>11. Apart'
  BY <1>0, <1>1, <1>5 DEF PlacesInv, Apart, QueuedIn
<1>12. Counted(queue, invited, bgStatus)'
  <2>1. bgStatus' = bgStatus /\ Counted(queue, invited, bgStatus)
    BY <1>0 DEF PlacesInv
  <2> QED BY <1>6, <2>1 DEF Counted
<1>13. \A t \in Battlegrounds!Team : Proper(queue[t], t)'
  BY <1>0 DEF PlacesInv, Proper
<1>14. (\A b \in Range(freeSlots) : bgStatus[b] # "none")'
  <2>1. bgStatus' = bgStatus /\ \A b \in Range(freeSlots) : bgStatus[b] # "none"
    BY <1>0 DEF PlacesInv
  <2> QED BY <1>8, <1>9, <2>1
<1> QED BY <1>10, <1>11, <1>12, <1>13, <1>14 DEF PlacesInv

\* A battleground starts, ends, or is deleted when nobody may come.
LEMMA StatusKeeps ==
  ASSUME PlacesInv, NEW c \in Bgs, Battlegrounds!StartsOrEnds(c) \/ Battlegrounds!DeleteBattleground(c)
  PROVE  PlacesInv'
<1>0. UNCHANGED <<queue, events, scheduled, invited, porting, players, handled>>
  BY DEF Battlegrounds!StartsOrEnds, Battlegrounds!DeleteBattleground
<1>1. bgStatus \in [Bgs -> {"none", "join", "progress", "leave"}] /\ freeSlots \in Seq(Bgs) /\ IsInjective(freeSlots)
  BY DEF PlacesInv, PlaceTypes
<1>2. bgStatus' \in [Bgs -> {"none", "join", "progress", "leave"}] /\ \A b \in Bgs : b # c => bgStatus'[b] = bgStatus[b]
  BY <1>1 DEF Battlegrounds!StartsOrEnds, Battlegrounds!DeleteBattleground
<1>3. /\ freeSlots' = freeSlots /\ bgStatus'[c] # "none"
      \/ freeSlots' = Battlegrounds!NotListed(c)
  BY <1>1 DEF Battlegrounds!StartsOrEnds, Battlegrounds!DeleteBattleground
<1>4. bgStatus'[c] # "none" \/ \A t \in Battlegrounds!Team : invited[c][t] = 0
  BY <1>1 DEF Battlegrounds!StartsOrEnds, Battlegrounds!DeleteBattleground, Battlegrounds!NobodyLeft
<1>5. /\ freeSlots' \in Seq(Bgs) /\ IsInjective(freeSlots')
      /\ \A b \in Range(freeSlots') : b \in Range(freeSlots) /\ (b = c => bgStatus'[c] # "none")
  BY <1>1, <1>3, NotListedIs
<1>6. \A b \in Bgs : Inside(b)' = Inside(b)
  BY <1>0 DEF Inside
<1>7. ASSUME NEW b \in Bgs, NEW t \in Battlegrounds!Team
      PROVE  Comers(queue[t], b, t)' = Comers(queue[t], b, t) /\ QueuedIn(queue[t])' = QueuedIn(queue[t])
  BY <1>0, <1>6 DEF Comers, InvitedIn, QueuedIn
<1>8. ASSUME NEW b \in Bgs, NEW t \in Battlegrounds!Team, Comers(queue[t], b, t) # {}
      PROVE  bgStatus'[b] # "none"
  <2>1. bgStatus[b] # "none" /\ invited[b][t] = Cardinality(Comers(queue[t], b, t))
    BY <1>8 DEF PlacesInv, Counted
  <2>2. invited[b][t] # 0
    BY <1>8, <2>1, ComersAreFinite, FS_EmptySet
  <2> QED BY <1>2, <1>4, <2>1, <2>2
<1>9. PlaceTypes'
  BY <1>0, <1>2, <1>5 DEF PlacesInv, PlaceTypes
<1>10. Apart'
  BY <1>0, <1>6, <1>7 DEF PlacesInv, Apart
<1>11. Counted(queue, invited, bgStatus)'
  <2>1. invited' = invited /\ Counted(queue, invited, bgStatus)
    BY <1>0 DEF PlacesInv
  <2> QED BY <1>7, <1>8, <2>1 DEF Counted
<1>12. \A t \in Battlegrounds!Team : Proper(queue[t], t)'
  BY <1>0 DEF PlacesInv, Proper
<1>13. (\A b \in Range(freeSlots) : bgStatus[b] # "none")'
  <2>1. Range(freeSlots) \subseteq Bgs /\ \A b \in Range(freeSlots) : bgStatus[b] # "none"
    BY <1>1, RangeType DEF PlacesInv
  <2> QED BY <1>2, <1>5, <2>1
<1> QED BY <1>9, <1>10, <1>11, <1>12, <1>13 DEF PlacesInv

\* Steps that change no place.
LEMMA NoPlaceChanged ==
  ASSUME PlacesInv, UNCHANGED <<queue, bgStatus, invited, porting, players, freeSlots>>,
         events' \subseteq events, scheduled' \in BOOLEAN, handled' \in BOOLEAN
  PROVE  PlacesInv'
<1>1. PlaceTypes'
  BY DEF PlacesInv, PlaceTypes
<1>2. Apart'
  BY DEF PlacesInv, Apart, QueuedIn, Inside
<1>3. Counted(queue, invited, bgStatus)'
  <2>1. \A b \in Bgs : Inside(b)' = Inside(b)
    BY DEF Inside
  <2>2. \A b \in Bgs, t \in Battlegrounds!Team : Comers(queue[t], b, t)' = Comers(queue[t], b, t)
    BY <2>1, Zenon DEF Comers, InvitedIn
  <2>3. Counted(queue, invited, bgStatus) /\ invited' = invited /\ bgStatus' = bgStatus
    BY DEF PlacesInv
  <2> QED BY <2>2, <2>3, Zenon DEF Counted
<1>4. \A t \in Battlegrounds!Team : Proper(queue[t], t)'
  BY DEF PlacesInv, Proper
<1>5. (\A b \in Range(freeSlots) : bgStatus[b] # "none")'
  BY DEF PlacesInv
<1> QED BY <1>1, <1>2, <1>3, <1>4, <1>5 DEF PlacesInv

\* The event of an invitation: he is taken out, or nothing is done.
LEMMA EventKeeps ==
  ASSUME PlacesInv, NEW e \in events, Battlegrounds!RemoveEvent(e)
  PROVE  PlacesInv'
<1> DEFINE p == e.player
<1>0. /\ events' = events \ {e}
      /\ UNCHANGED <<bgStatus, porting, players, freeSlots, handled>>
      /\ handled \in BOOLEAN /\ scheduled \in BOOLEAN /\ p \in Battlegrounds!Player
  BY DEF Battlegrounds!RemoveEvent, PlacesInv, PlaceTypes
<1>1. CASE Battlegrounds!IsPlayerInvited(e)
  <2>1. Battlegrounds!RemovePlayer(p, TRUE) /\ scheduled' \in BOOLEAN
    BY <1>0, <1>1 DEF Battlegrounds!RemoveEvent, Battlegrounds!Running
  <2>2. Battlegrounds!Queued(p)
    BY <1>1 DEF Battlegrounds!IsPlayerInvited, Battlegrounds!Queued
  <2> HIDE DEF p
  <2> QED BY <1>0, <2>1, <2>2, LeavingKeeps
<1>2. CASE ~Battlegrounds!IsPlayerInvited(e)
  <2>1. UNCHANGED <<queue, invited, scheduled>>
    BY <1>2 DEF Battlegrounds!RemoveEvent
  <2> QED BY <1>0, <2>1, NoPlaceChanged
<1> QED BY <1>1, <1>2

\* Time takes nobody out of a queue.
LEMMA AgeingKeeps ==
  ASSUME NEW t, NEW q, Proper(q, t), NEW r,
         r = [i \in DOMAIN q |-> IF q[i].left = 0 THEN q[i] ELSE [q[i] EXCEPT !.left = @ - 1]]
  PROVE  Proper(r, t) /\ QueuedIn(r) = QueuedIn(q) /\ \A b : InvitedIn(r, b) = InvitedIn(q, b)
<1>1. q \in Seq(Place) /\ Len(q) \in Nat /\ DOMAIN q = 1..Len(q) /\ \A i \in 1..Len(q) : q[i] \in Place
  BY DEF Proper
<1>2. ASSUME NEW i \in 1..Len(q) PROVE r[i] \in Place /\ r[i].player = q[i].player /\ r[i].bg = q[i].bg
  <2>1. q[i] \in Place /\ r[i] = IF q[i].left = 0 THEN q[i] ELSE [q[i] EXCEPT !.left = @ - 1]
    BY <1>1
  <2>2. q[i].left # 0 => q[i].left - 1 \in 0..InviteWait
    BY <2>1, PlaceConstants DEF Place
  <2>3. DOMAIN q[i] = {"player", "bg", "left"}
    BY <2>1 DEF Place
  <2>4. r[i].player = q[i].player /\ r[i].bg = q[i].bg
    BY <2>1, <2>3
  <2>5. r[i] \in Place
    BY <2>1, <2>2 DEF Place
  <2> QED BY <2>4, <2>5
<1>3. r \in [1..Len(q) -> Place]
  BY <1>1, <1>2
<1>4. r \in Seq(Place) /\ Len(r) = Len(q)
  BY <1>1, <1>3
<1>5. Proper(r, t)
  BY <1>2, <1>4 DEF Proper
<1>6. QueuedIn(r) = QueuedIn(q)
  BY <1>2, <1>4 DEF QueuedIn
<1>7. \A b : InvitedIn(r, b) = InvitedIn(q, b)
  BY <1>2, <1>4 DEF InvitedIn
<1> QED BY <1>5, <1>6, <1>7

\* The next update finds everybody where he was.
LEMMA TimeKeeps ==
  ASSUME PlacesInv, Battlegrounds!TimePasses
  PROVE  PlacesInv'
<1> DEFINE aged(q) == [i \in DOMAIN q |-> IF q[i].left = 0 THEN q[i] ELSE [q[i] EXCEPT !.left = @ - 1]]
<1>0. /\ handled' = FALSE /\ \A e \in events : e.left > 0
      /\ events' = {[e EXCEPT !.left = @ - 1] : e \in events}
      /\ queue' = [t \in Battlegrounds!Team |-> aged(queue[t])]
      /\ UNCHANGED <<scheduled, bgStatus, invited, porting, players, freeSlots>>
  BY DEF Battlegrounds!TimePasses, Battlegrounds!bgVars
<1>1. ASSUME NEW t \in Battlegrounds!Team
      PROVE  /\ Proper(queue'[t], t) /\ QueuedIn(queue'[t]) = QueuedIn(queue[t])
             /\ \A b : InvitedIn(queue'[t], b) = InvitedIn(queue[t], b)
  <2>1. queue'[t] = aged(queue[t]) /\ Proper(queue[t], t)
    BY <1>0 DEF PlacesInv
  <2> QED BY <2>1, AgeingKeeps
<1>2. queue' \in [Battlegrounds!Team -> Seq(Place)]
  BY <1>0, <1>1 DEF Proper
<1>3. events' \subseteq [player : Battlegrounds!Player, bg : Bgs, left : 0..InviteWait]
  <2> SUFFICES ASSUME NEW e \in events
               PROVE  [e EXCEPT !.left = @ - 1] \in [player : Battlegrounds!Player, bg : Bgs, left : 0..InviteWait]
    BY <1>0
  <2>1. e \in [player : Battlegrounds!Player, bg : Bgs, left : 0..InviteWait] /\ e.left > 0
    BY <1>0 DEF PlacesInv, PlaceTypes
  <2>2. e.left - 1 \in 0..InviteWait
    BY <2>1, PlaceConstants
  <2> QED BY <2>1, <2>2
<1>4. \A b : Inside(b)' = Inside(b)
  BY <1>0 DEF Inside
<1>5. ASSUME NEW b \in Bgs, NEW t \in Battlegrounds!Team
      PROVE  Comers(queue[t], b, t)' = Comers(queue[t], b, t)
  <2>1. Comers(queue[t], b, t)' =
          {x \in Battlegrounds!Player : Battlegrounds!TeamOf(x) = t /\ x \in InvitedIn(queue'[t], b) \cup Inside(b)}
    BY <1>4 DEF Comers, InvitedIn
  <2> QED BY <1>1, <2>1 DEF Comers
<1>6. PlaceTypes'
  BY <1>0, <1>2, <1>3 DEF PlacesInv, PlaceTypes
<1>7. Apart'
  <2>1. \A b \in Bgs : porting'[b] \cap players'[b] = {}
    BY <1>0 DEF PlacesInv, Apart
  <2>2. \A b \in Bgs, t \in Battlegrounds!Team : QueuedIn(queue'[t]) \cap Inside(b)' = {}
    BY <1>1, <1>4 DEF PlacesInv, Apart
  <2> QED BY <2>1, <2>2 DEF Apart, QueuedIn
<1>8. Counted(queue, invited, bgStatus)'
  <2>1. bgStatus' = bgStatus /\ invited' = invited /\ Counted(queue, invited, bgStatus)
    BY <1>0 DEF PlacesInv
  <2> QED BY <1>5, <2>1 DEF Counted
<1>9. \A t \in Battlegrounds!Team : Proper(queue[t], t)'
  BY <1>1 DEF Proper
<1>10. (\A b \in Range(freeSlots) : bgStatus[b] # "none")'
  BY <1>0 DEF PlacesInv
<1> QED BY <1>6, <1>7, <1>8, <1>9, <1>10 DEF PlacesInv

\* What was matched becomes the queue.
LEMMA MatchedKeeps ==
  ASSUME PlacesInv, NEW n, Tallies(n, bgStatus'), Battlegrounds!Matched(n), UNCHANGED <<porting, players>>,
         bgStatus' \in [Bgs -> {"none", "join", "progress", "leave"}],
         freeSlots' \in Seq(Bgs), IsInjective(freeSlots'), \A b \in Range(freeSlots') : bgStatus'[b] # "none",
         scheduled' \in BOOLEAN, handled' \in BOOLEAN
  PROVE  PlacesInv'
<1>0. queue' = n.queue /\ invited' = n.invited /\ events' = events \cup Battlegrounds!Invitations(n)
  BY DEF Battlegrounds!Matched
<1>1. /\ queue' \in [Battlegrounds!Team -> Seq(Place)] /\ invited' \in [Bgs -> [Battlegrounds!Team -> Nat]]
      /\ \A t \in Battlegrounds!Team : Proper(queue'[t], t) /\ QueuedIn(queue'[t]) = QueuedIn(queue[t])
      /\ Counted(queue', invited', bgStatus')
  BY <1>0 DEF Tallies, Match
<1>2. Battlegrounds!Invitations(n) \subseteq [player : Battlegrounds!Player, bg : Bgs, left : 0..InviteWait]
  <2> SUFFICES ASSUME NEW t \in Battlegrounds!Team, NEW e \in Battlegrounds!Range(n.queue[t]), e.bg # NoBg
               PROVE  [player |-> e.player, bg |-> e.bg, left |-> InviteWait]
                        \in [player : Battlegrounds!Player, bg : Bgs, left : 0..InviteWait]
    BY DEF Battlegrounds!Invitations
  <2>1. n.queue[t] \in Seq(Place)
    BY <1>0, <1>1
  <2>2. e \in Place
    BY <2>1 DEF Battlegrounds!Range
  <2> QED BY <2>2, PlaceConstants DEF Place
<1>3. \A b : Inside(b)' = Inside(b)
  BY DEF Inside
<1>4. ASSUME NEW b \in Bgs, NEW t \in Battlegrounds!Team
      PROVE  Comers(queue[t], b, t)' = Comers(queue'[t], b, t)
  BY <1>3 DEF Comers, InvitedIn
<1>5. PlaceTypes'
  BY <1>0, <1>1, <1>2 DEF PlacesInv, PlaceTypes
<1>6. Apart'
  <2>1. \A b \in Bgs : porting'[b] \cap players'[b] = {}
    BY DEF PlacesInv, Apart
  <2>2. \A b \in Bgs, t \in Battlegrounds!Team : QueuedIn(queue'[t]) \cap Inside(b)' = {}
    BY <1>1, <1>3 DEF PlacesInv, Apart
  <2> QED BY <2>1, <2>2 DEF Apart, QueuedIn
<1>7. Counted(queue, invited, bgStatus)'
  BY <1>1, <1>4 DEF Counted
<1>8. \A t \in Battlegrounds!Team : Proper(queue[t], t)'
  BY <1>1 DEF Proper
<1> QED BY <1>5, <1>6, <1>7, <1>8 DEF PlacesInv

\* A new battleground gets as many of each team as it needs to start.
LEMMA NewKeeps ==
  ASSUME PlacesInv, NEW b \in Bgs, Battlegrounds!Unused(b),
         NEW slots, slots = [t \in Battlegrounds!Team |-> MinPlayersPerTeam],
         NEW st, st = [bgStatus EXCEPT ![b] = "join"]
  PROVE  LET m == Battlegrounds!Filled
             n == Battlegrounds!Invite(m, b, slots)
         IN  /\ Tallies(n, st)
             /\ \A c \in Bgs : c # b => n.invited[c] = m.invited[c]
<1> DEFINE m == Battlegrounds!Filled
<1>1. Tallies(m, bgStatus)
  BY FilledIs
<1> HIDE DEF m
<1>2. bgStatus[b] = "none" /\ st[b] = "join" /\ \A c \in Bgs : bgStatus[c] # "none" => st[c] # "none"
  BY DEF Battlegrounds!Unused, PlacesInv, PlaceTypes
<1>3. Tallies(m, st)
  BY <1>1, <1>2 DEF Tallies, Counted
<1>4. ASSUME NEW t \in Battlegrounds!Team PROVE m.invited[b][t] = 0
  <2>1. Comers(m.queue[t], b, t) = {} /\ m.invited[b][t] = Cardinality(Comers(m.queue[t], b, t))
    BY <1>1, <1>2 DEF Tallies, Counted
  <2> QED BY <2>1, FS_EmptySet
<1>5. /\ slots \in [Battlegrounds!Team -> Nat]
      /\ \A t \in Battlegrounds!Team : m.invited[b][t] + slots[t] <= MaxPlayersPerTeam
  BY <1>4, PlaceConstants
<1>6. Tallies(Battlegrounds!Invite(m, b, slots), st)
  BY <1>2, <1>3, <1>5, InviteKeeps
<1>7. \A c \in Bgs : c # b => Battlegrounds!Invite(m, b, slots).invited[c] = m.invited[c]
  BY <1>1 DEF Battlegrounds!Invite, Tallies, Match
<1> QED BY <1>6, <1>7 DEF m

\* Matching the queue, with or without a new battleground.
LEMMA QueueUpdateKeeps ==
  ASSUME PlacesInv, Battlegrounds!BattlegroundQueueUpdate
  PROVE  PlacesInv'
<1> DEFINE m == Battlegrounds!Filled
           slots == [t \in Battlegrounds!Team |-> MinPlayersPerTeam]
           New(b) == /\ Battlegrounds!Unused(b)
                     /\ Battlegrounds!Matched(Battlegrounds!Invite(m, b, slots))
                     /\ bgStatus' = [bgStatus EXCEPT ![b] = "join"] /\ freeSlots' = <<b>> \o m.open
           Old == Battlegrounds!Matched(m) /\ freeSlots' = m.open /\ UNCHANGED bgStatus
<1>0. scheduled' = FALSE /\ UNCHANGED <<porting, players, handled>> /\ handled' \in BOOLEAN /\ scheduled' \in BOOLEAN
  BY DEF Battlegrounds!BattlegroundQueueUpdate, PlacesInv, PlaceTypes
<1>1. \/ UNCHANGED <<queue, events, bgStatus, invited, freeSlots>>
      \/ (\E b \in Bgs : New(b))
      \/ Old
  BY DEF Battlegrounds!BattlegroundQueueUpdate
<1>2. /\ Tallies(m, bgStatus) /\ m.open \in Seq(Bgs) /\ IsInjective(m.open)
      /\ Range(m.open) \subseteq Range(freeSlots)
  BY FilledIs
<1>3. /\ bgStatus \in [Bgs -> {"none", "join", "progress", "leave"}]
      /\ \A b \in Range(freeSlots) : bgStatus[b] # "none"
  BY DEF PlacesInv, PlaceTypes
<1>4. CASE UNCHANGED <<queue, events, bgStatus, invited, freeSlots>>
  BY <1>0, <1>4, NoPlaceChanged
<1> HIDE DEF m
<1>5. CASE Old
  <2>1. Tallies(m, bgStatus') /\ Battlegrounds!Matched(m) /\ freeSlots' = m.open /\ bgStatus' = bgStatus
    BY <1>2, <1>5
  <2>2. \A b \in Range(freeSlots') : bgStatus'[b] # "none"
    BY <1>2, <1>3, <2>1
  <2> QED BY <1>0, <1>2, <1>3, <2>1, <2>2, MatchedKeeps
<1>6. CASE \E b \in Bgs : New(b)
  <2>1. PICK b \in Bgs : New(b)
    BY <1>6
  <2> DEFINE n == Battlegrounds!Invite(m, b, slots)
  <2>2. bgStatus[b] = "none" /\ b \notin Range(m.open)
    BY <1>2, <1>3, <2>1 DEF Battlegrounds!Unused
  <2>3. bgStatus' \in [Bgs -> {"none", "join", "progress", "leave"}] /\ bgStatus'[b] = "join"
        /\ \A c \in Bgs : bgStatus[c] # "none" => bgStatus'[c] # "none"
    BY <1>3, <2>1
  <2>7. Tallies(n, bgStatus')
    BY <2>1, NewKeeps DEF m
  <2>8. freeSlots' \in Seq(Bgs) /\ IsInjective(freeSlots') /\ Range(freeSlots') = {b} \cup Range(m.open)
    BY <1>2, <2>1, <2>2, ListedFirst
  <2>9. \A c \in Range(freeSlots') : bgStatus'[c] # "none"
    <3>1. Range(m.open) \subseteq Bgs
      BY <1>2, RangeType
    <3> QED BY <1>2, <1>3, <2>3, <2>8, <3>1
  <2>10. Battlegrounds!Matched(n)
    BY <2>1
  <2> HIDE DEF n
  <2> QED BY <1>0, <2>3, <2>7, <2>8, <2>9, <2>10, MatchedKeeps
<1> QED BY <1>1, <1>4, <1>5, <1>6

\* Nobody is queued at first, and there is no battleground.
LEMMA PlacesInit == Battlegrounds!Init => PlacesInv
<1> SUFFICES ASSUME Battlegrounds!Init PROVE PlacesInv
  OBVIOUS
<1>1. /\ queue = [t \in Battlegrounds!Team |-> <<>>] /\ events = {} /\ scheduled = FALSE
      /\ bgStatus = [b \in Bgs |-> "none"]
      /\ invited = [b \in Bgs |-> [t \in Battlegrounds!Team |-> 0]]
      /\ porting = [b \in Bgs |-> {}] /\ players = [b \in Bgs |-> {}]
      /\ freeSlots = <<>> /\ handled = FALSE
  BY DEF Battlegrounds!Init
<1>2. \A t \in Battlegrounds!Team : queue[t] = <<>> /\ queue[t] \in Seq(Place) /\ Len(queue[t]) = 0
  BY <1>1
<1>3. PlaceTypes
  <2>1. freeSlots \in Seq(Bgs) /\ IsInjective(freeSlots)
    BY <1>1, EmptySequence
  <2>2. queue \in [Battlegrounds!Team -> Seq(Place)]
    BY <1>1
  <2> QED BY <1>1, <2>1, <2>2 DEF PlaceTypes
<1>4. \A b \in Bgs : Inside(b) = {}
  BY <1>1 DEF Inside
<1>5. Apart
  BY <1>1, <1>4 DEF Apart
<1>6. \A t \in Battlegrounds!Team : Proper(queue[t], t)
  BY <1>2 DEF Proper
<1>7. Counted(queue, invited, bgStatus)
  <2> SUFFICES ASSUME NEW b \in Bgs, NEW t \in Battlegrounds!Team
               PROVE  Comers(queue[t], b, t) = {} /\ invited[b][t] = 0
    BY FS_EmptySet, PlaceConstants DEF Counted
  <2>1. InvitedIn(queue[t], b) = {}
    BY <1>2 DEF InvitedIn
  <2> QED BY <1>1, <1>4, <2>1 DEF Comers
<1>8. \A b \in Range(freeSlots) : bgStatus[b] # "none"
  BY <1>1, EmptySequence
<1> QED BY <1>3, <1>5, <1>6, <1>7, <1>8 DEF PlacesInv

\* Every step keeps the places.
LEMMA PlacesStep == PlacesInv /\ [Battlegrounds!Next]_(Battlegrounds!vars) => PlacesInv'
<1> SUFFICES ASSUME PlacesInv, [Battlegrounds!Next]_(Battlegrounds!vars) PROVE PlacesInv'
  OBVIOUS
<1>t. events \subseteq events /\ scheduled \in BOOLEAN /\ handled \in BOOLEAN
  BY DEF PlacesInv, PlaceTypes
<1>1. ASSUME NEW p \in Battlegrounds!Player, Battlegrounds!HandleBattlemasterJoin(p) PROVE PlacesInv'
  BY <1>1, JoinKeeps
<1>2. ASSUME NEW p \in Battlegrounds!Player, Battlegrounds!LeaveQueue(p) \/ Battlegrounds!LogoutPlayer(p)
      PROVE  PlacesInv'
  <2>1. /\ Battlegrounds!Queued(p) /\ Battlegrounds!RemovePlayer(p, TRUE)
        /\ UNCHANGED <<events, bgStatus, porting, players, freeSlots, handled>>
        /\ scheduled' = TRUE \/ scheduled' = scheduled
    BY <1>2 DEF Battlegrounds!LeaveQueue, Battlegrounds!LogoutPlayer
  <2> QED BY <1>t, <2>1, LeavingKeeps
<1>3. ASSUME NEW p \in Battlegrounds!Player, NEW b \in Bgs, Battlegrounds!Enter(p, b) PROVE PlacesInv'
  BY <1>3, EnterKeeps
<1>4. ASSUME NEW p \in Battlegrounds!Player, NEW b \in Bgs, Battlegrounds!AddPlayer(p, b) PROVE PlacesInv'
  BY <1>4, AddKeeps
<1>5. ASSUME NEW p \in Battlegrounds!Player, NEW b \in Bgs, Battlegrounds!RemovePlayerAtLeave(p, b) PROVE PlacesInv'
  BY <1>5, RemoveKeeps
<1>6. ASSUME NEW b \in Bgs, Battlegrounds!StartsOrEnds(b) \/ Battlegrounds!DeleteBattleground(b) PROVE PlacesInv'
  BY <1>6, StatusKeeps
<1>7. ASSUME NEW e \in events, Battlegrounds!RemoveEvent(e) PROVE PlacesInv'
  BY <1>7, EventKeeps
<1>8. CASE Battlegrounds!BeginUpdate
  <2>1. UNCHANGED <<queue, events, scheduled, bgStatus, invited, porting, players, freeSlots>> /\ handled' = TRUE
    BY <1>8 DEF Battlegrounds!BeginUpdate, Battlegrounds!bgVars
  <2> QED BY <1>t, <2>1, NoPlaceChanged
<1>9. CASE Battlegrounds!BattlegroundQueueUpdate
  BY <1>9, QueueUpdateKeeps
<1>10. CASE Battlegrounds!TimePasses
  BY <1>10, TimeKeeps
<1>11. CASE UNCHANGED Battlegrounds!vars
  <2>1. UNCHANGED <<queue, events, scheduled, bgStatus, invited, porting, players, freeSlots, handled>>
    BY <1>11 DEF Battlegrounds!vars
  <2> QED BY <1>t, <2>1, NoPlaceChanged
<1> QED
  BY <1>1, <1>2, <1>3, <1>4, <1>5, <1>6, <1>7, <1>8, <1>9, <1>10, <1>11
  DEF Battlegrounds!Next, Battlegrounds!Update

\* The invariant says of every battleground that its places are kept.
LEMMA PlacesHold == PlacesInv => PlacesKept
<1> SUFFICES ASSUME PlacesInv PROVE PlacesKept
  OBVIOUS
<1>1. ASSUME NEW b \in Bgs, NEW t \in Battlegrounds!Team
      PROVE  Comers(queue[t], b, t) =
               {p \in Battlegrounds!Player :
                  Battlegrounds!TeamOf(p) = t /\ (Battlegrounds!InvitedTo(p, b) \/ p \in porting[b] \cup players[b])}
  BY InvitedIs DEF Comers, Inside
<1>2. Counted(queue, invited, bgStatus) /\ \A b \in Bgs, t \in Battlegrounds!Team : invited[b][t] \in Nat
  BY DEF PlacesInv, PlaceTypes
<1>3. Battlegrounds!InvitedCounted
  BY <1>1, <1>2, SameCounting DEF Counted, Battlegrounds!InvitedCounted
<1>4. Battlegrounds!NeverOverfull
  <2> SUFFICES ASSUME NEW b \in Bgs, NEW t \in Battlegrounds!Team
               PROVE  Cardinality({p \in porting[b] \cup players[b] : Battlegrounds!TeamOf(p) = t}) <= MaxPlayersPerTeam
    BY <1>2, SameCounting DEF Counted, Battlegrounds!NeverOverfull
  <2> DEFINE C == Comers(queue[t], b, t)
             D == {p \in porting[b] \cup players[b] : Battlegrounds!TeamOf(p) = t}
  <2>1. D \subseteq C
    BY DEF Comers, Inside, PlacesInv, PlaceTypes
  <2>2. IsFiniteSet(C) /\ Cardinality(C) \in Nat /\ Cardinality(C) <= MaxPlayersPerTeam
    BY <1>2, ComersAreFinite DEF Counted
  <2> HIDE DEF C, D
  <2>3. Cardinality(D) <= Cardinality(C) /\ Cardinality(D) \in Nat
    BY <2>1, <2>2, FS_Subset, FS_CardinalityType
  <2> QED BY <2>2, <2>3, PlaceConstants DEF D
<1>5. Battlegrounds!InvitedBgExists
  <2> SUFFICES ASSUME NEW b \in Bgs,
                      porting[b] # {} \/ \E p \in Battlegrounds!Player : Battlegrounds!InvitedTo(p, b)
               PROVE  bgStatus[b] # "none"
    BY DEF Battlegrounds!InvitedBgExists
  <2>1. PICK p \in Battlegrounds!Player : p \in porting[b] \/ Battlegrounds!InvitedTo(p, b)
    BY DEF PlacesInv, PlaceTypes
  <2>2. p \in Comers(queue[Battlegrounds!TeamOf(p)], b, Battlegrounds!TeamOf(p))
    BY <2>1, InvitedIs DEF Comers, Inside
  <2> QED BY <1>2, <2>2, TeamIs DEF Counted
<1> QED BY <1>3, <1>4, <1>5 DEF PlacesKept, Battlegrounds!PlacesKept

\* The places of every battleground are kept: those who may come, are on their
\* way or are inside are counted, they are never too many, and a battleground
\* that somebody may come to is there.
THEOREM PlacesAreKept == Battlegrounds!Spec => []PlacesKept
<1> QED BY PlacesInit, PlacesStep, PlacesHold, PTL DEF Battlegrounds!Spec
-----------------------------------------------------------------------------
(* Whom the queue invites, and for how long *)

\* Who has a place in the queue of his team.
LEMMA QueuedIs ==
  ASSUME NEW q \in Seq(Place), NEW p
  PROVE  {e \in Battlegrounds!Range(q) : e.player = p} # {} <=> p \in QueuedIn(q)
BY DEF Battlegrounds!Range, QueuedIn

\* Only the event of an invitation takes a player out while events are fewer.
Dropped(p) ==
  /\ Battlegrounds!Queued(p) /\ ~Battlegrounds!Queued(p)'
  /\ Battlegrounds!Cardinality(events') < Battlegrounds!Cardinality(events)
OutOfTime(p) == \E e \in Battlegrounds!Entry(p) : e.bg # NoBg /\ e.left = 0

\* There are finitely many of them.
LEMMA EventsAreFinite == ASSUME PlacesInv PROVE IsFiniteSet(events)
<1> DEFINE P == Battlegrounds!Player
           I == 0..InviteWait
           S == P \X (Bgs \X I)
           record == [x \in S |-> [player |-> x[1], bg |-> x[2][1], left |-> x[2][2]]]
           R == {record[x] : x \in S}
<1>1. IsFiniteSet(P) /\ IsFiniteSet(Bgs) /\ IsFiniteSet(I)
  BY PlaceConstants, FS_Interval
<1>2. IsFiniteSet(S)
  <2> HIDE DEF P, I
  <2> QED BY <1>1, FS_Product
<1>3. \A e \in [player : P, bg : Bgs, left : I] : e \in R
  <2> TAKE e \in [player : P, bg : Bgs, left : I]
  <2>1. <<e.player, <<e.bg, e.left>>>> \in S
    OBVIOUS
  <2>2. record[<<e.player, <<e.bg, e.left>>>>] = e
    BY <2>1
  <2> QED BY <2>1, <2>2
<1>4. events \subseteq R
  BY <1>3 DEF PlacesInv, PlaceTypes
<1>5. IsFiniteSet(R)
  <2>1. record \in Surjection(S, R)
    <3>1. DOMAIN record = S /\ \A x \in S : record[x] \in R
      OBVIOUS
    <3>2. record = [x \in S |-> record[x]]
      OBVIOUS
    <3> HIDE DEF record, S
    <3> QED BY <3>1, <3>2 DEF Surjection
  <2> HIDE DEF S, record, R
  <2> QED BY <1>2, <2>1, FS_Surjection
<1> HIDE DEF R
<1> QED BY <1>4, <1>5, FS_Subset

\* Matching the queue and the passing of time leave everybody queued.
LEMMA StillQueued ==
  ASSUME PlacesInv, PlacesInv', Battlegrounds!BattlegroundQueueUpdate \/ Battlegrounds!TimePasses,
         NEW p \in Battlegrounds!Player, Battlegrounds!Queued(p)
  PROVE  Battlegrounds!Queued(p)'
<1> DEFINE t == Battlegrounds!TeamOf(p)
<1>0. t \in Battlegrounds!Team /\ queue[t] \in Seq(Place) /\ queue'[t] \in Seq(Place)
  BY TeamIs DEF PlacesInv, PlaceTypes
<1>1. p \in QueuedIn(queue[t])
  BY <1>0, QueuedIs DEF Battlegrounds!Queued, Battlegrounds!Entry
<1>2. QueuedIn(queue'[t]) = QueuedIn(queue[t])
  <2>1. CASE Battlegrounds!TimePasses
    <3> DEFINE r == [i \in DOMAIN queue[t] |->
                       IF queue[t][i].left = 0 THEN queue[t][i] ELSE [queue[t][i] EXCEPT !.left = @ - 1]]
    <3>1. queue'[t] = r /\ Proper(queue[t], t)
      BY <1>0, <2>1 DEF Battlegrounds!TimePasses, PlacesInv
    <3> QED BY <3>1, AgeingKeeps
  <2>2. CASE Battlegrounds!BattlegroundQueueUpdate
    <3> DEFINE m == Battlegrounds!Filled
               slots == [u \in Battlegrounds!Team |-> MinPlayersPerTeam]
    <3>1. \/ queue' = queue
          \/ queue' = m.queue
          \/ \E b \in Bgs : Battlegrounds!Unused(b) /\ queue' = Battlegrounds!Invite(m, b, slots).queue
      BY <2>2 DEF Battlegrounds!BattlegroundQueueUpdate, Battlegrounds!Matched
    <3>2. Tallies(m, bgStatus)
      BY FilledIs
    <3> HIDE DEF m, slots
    <3>3. ASSUME NEW b \in Bgs, Battlegrounds!Unused(b)
          PROVE  \A u \in Battlegrounds!Team :
                   QueuedIn(Battlegrounds!Invite(m, b, slots).queue[u]) = QueuedIn(queue[u])
      <4>1. Tallies(Battlegrounds!Invite(m, b, slots), [bgStatus EXCEPT ![b] = "join"])
        BY <3>3, NewKeeps DEF m, slots
      <4> QED BY <4>1 DEF Tallies
    <3> QED BY <1>0, <3>1, <3>2, <3>3 DEF Tallies
  <2> QED BY <2>1, <2>2
<1> QED BY <1>0, <1>1, <1>2, QueuedIs DEF Battlegrounds!Queued, Battlegrounds!Entry

\* One step takes a player out early only if no event is used up.
LEMMA InTime ==
  PlacesInv /\ PlacesInv' /\ [Battlegrounds!Next]_(Battlegrounds!vars) =>
    \A p \in Battlegrounds!Player : Dropped(p) => OutOfTime(p)
<1> SUFFICES ASSUME PlacesInv, PlacesInv', [Battlegrounds!Next]_(Battlegrounds!vars),
                    NEW p \in Battlegrounds!Player, Dropped(p)
             PROVE  OutOfTime(p)
  OBVIOUS
<1>1. events' # events /\ Battlegrounds!Queued(p) /\ ~Battlegrounds!Queued(p)'
  <2>1. Battlegrounds!Cardinality(events) \in Nat
    BY SameCounting, EventsAreFinite, FS_CardinalityType
  <2> QED BY <2>1 DEF Dropped
<1>2. PICK e \in events : Battlegrounds!RemoveEvent(e)
  <2>1. \A q : \/ Battlegrounds!HandleBattlemasterJoin(q) \/ Battlegrounds!LeaveQueue(q)
              \/ Battlegrounds!LogoutPlayer(q)
              => UNCHANGED events
    BY DEF Battlegrounds!HandleBattlemasterJoin, Battlegrounds!LeaveQueue, Battlegrounds!LogoutPlayer
  <2>2. \A q, b : \/ Battlegrounds!Enter(q, b) \/ Battlegrounds!AddPlayer(q, b)
                 \/ Battlegrounds!RemovePlayerAtLeave(q, b)
                 => UNCHANGED events
    BY DEF Battlegrounds!Enter, Battlegrounds!AddPlayer, Battlegrounds!RemovePlayerAtLeave
  <2>3. \A b : Battlegrounds!StartsOrEnds(b) \/ Battlegrounds!DeleteBattleground(b) => UNCHANGED events
    BY DEF Battlegrounds!StartsOrEnds, Battlegrounds!DeleteBattleground
  <2>4. Battlegrounds!BeginUpdate \/ UNCHANGED Battlegrounds!vars => UNCHANGED events
    BY DEF Battlegrounds!BeginUpdate, Battlegrounds!vars
  <2>5. \/ \E e \in events : Battlegrounds!RemoveEvent(e)
        \/ Battlegrounds!BattlegroundQueueUpdate
        \/ Battlegrounds!TimePasses
        \/ UNCHANGED events
    BY <2>1, <2>2, <2>3, <2>4 DEF Battlegrounds!Next, Battlegrounds!Update
  <2> QED BY <1>1, <2>5, StillQueued
<1>3. /\ e.left = 0 /\ e.bg \in Bgs /\ e.bg # NoBg
      /\ e.player \in Battlegrounds!Player
  BY <1>2, PlaceConstants DEF Battlegrounds!RemoveEvent, PlacesInv, PlaceTypes
<1>4. queue' # queue
  BY <1>1 DEF Battlegrounds!Queued, Battlegrounds!Entry
<1>5. Battlegrounds!IsPlayerInvited(e) /\ Battlegrounds!RemovePlayer(e.player, TRUE)
  BY <1>2, <1>4 DEF Battlegrounds!RemoveEvent
<1>6. e \in Battlegrounds!Entry(e.player) /\ Battlegrounds!Queued(e.player)
  BY <1>5 DEF Battlegrounds!IsPlayerInvited, Battlegrounds!Queued
<1>7. p = e.player
  <2> DEFINE o == e.player
             t == Battlegrounds!TeamOf(p)
  <2>1. t \in Battlegrounds!Team /\ queue[t] \in Seq(Place) /\ queue'[t] \in Seq(Place)
    BY TeamIs DEF PlacesInv, PlaceTypes
  <2>2. p \in QueuedIn(queue[t]) /\ p \notin QueuedIn(queue'[t])
    BY <1>1, <2>1, QueuedIs DEF Battlegrounds!Queued, Battlegrounds!Entry
  <2>3. /\ o \in Battlegrounds!Player /\ Battlegrounds!Queued(o)
        /\ queue' = [queue EXCEPT ![Battlegrounds!TeamOf(o)] =
                                    Battlegrounds!RemoveFirstMatch(@, LAMBDA x : x.player = o)]
    BY <1>3, <1>5, <1>6 DEF Battlegrounds!RemovePlayer
  <2> HIDE DEF o
  <2>4. \A u \in Battlegrounds!Team : QueuedIn(queue'[u]) = QueuedIn(queue[u]) \ {o}
    BY <2>3, LeavingIs
  <2> QED BY <2>1, <2>2, <2>4 DEF o
<1> QED BY <1>3, <1>6, <1>7 DEF OutOfTime

\* Whoever joins and is invited again is not removed by the event of his first
\* invitation: an event takes out only those whose own time has run out.
THEOREM InvitedForTheWholeTime == Battlegrounds!Spec => Battlegrounds!FullTimeToAnswer
<1>1. PlacesInv /\ PlacesInv' /\ [Battlegrounds!Next]_(Battlegrounds!vars)
        => [\A p \in Battlegrounds!Player :
              Battlegrounds!Queued(p) /\ ~Battlegrounds!Queued(p)'
                /\ Battlegrounds!Cardinality(events') < Battlegrounds!Cardinality(events)
              => \E e \in Battlegrounds!Entry(p) : e.bg # NoBg /\ e.left = 0]_(Battlegrounds!vars)
  BY InTime DEF Dropped, OutOfTime
<1> QED BY <1>1, PlacesInit, PlacesStep, PTL DEF Battlegrounds!Spec, Battlegrounds!FullTimeToAnswer

\* The loop over the battlegrounds with free slots meets each once.
LEMMA FilledEvens ==
  ASSUME PlacesInv, NEW b \in Bgs, bgStatus[b] = "progress"
  PROVE  Evens(invited[b], Battlegrounds!Filled.invited[b])
<1> DEFINE n == Len(freeSlots)
           seen(i) == {freeSlots[j] : j \in 1..i}
<1>0. n \in Nat /\ \A i \in 1..n : freeSlots[i] \in Bgs
  BY DEF PlacesInv, PlaceTypes
<1>1. PICK h \in [0..n -> Tallied] : IsLoop(h) /\ Battlegrounds!Filled = h[n]
  BY LoopIs
<1>2. ASSUME NEW i \in 1..n PROVE freeSlots[i] \notin seen(i - 1)
  BY <1>0, <1>2 DEF PlacesInv, PlaceTypes, IsInjective
<1> DEFINE T == {i \in Nat : i <= n => IF b \in seen(i) THEN Evens(invited[b], h[i].invited[b])
                                                        ELSE h[i].invited[b] = invited[b]}
<1>3. 0 \in T
  <2>1. h[0].invited = invited /\ seen(0) = {}
    BY <1>1 DEF IsLoop, Start
  <2> QED BY <2>1
<1>4. ASSUME NEW i \in T PROVE i + 1 \in T
  <2> SUFFICES ASSUME i + 1 <= n
               PROVE  IF b \in seen(i + 1) THEN Evens(invited[b], h[i + 1].invited[b])
                                           ELSE h[i + 1].invited[b] = invited[b]
    OBVIOUS
  <2> DEFINE c == freeSlots[i + 1]
  <2>1. i + 1 \in 1..n /\ i \in 0..n /\ (i + 1) - 1 = i /\ c \in Bgs
    BY <1>0
  <2>2. h[i + 1] = Battlegrounds!Visit(h[i], c) /\ Tallies(h[i], bgStatus)
    BY <1>1, <2>1 DEF IsLoop, Tallied
  <2>3. IF b \in seen(i) THEN Evens(invited[b], h[i].invited[b]) ELSE h[i].invited[b] = invited[b]
    BY <2>1
  <2>4. c \notin seen(i) /\ \A x : x \in seen(i + 1) <=> x \in seen(i) \/ x = c
    BY <1>2, <2>1
  <2> HIDE DEF c, seen
  <2>5. /\ b # c => h[i + 1].invited[b] = h[i].invited[b]
        /\ b = c => Evens(h[i].invited[b], h[i + 1].invited[b])
    BY <2>1, <2>2, VisitKeeps
  <2> QED BY <2>3, <2>4, <2>5
<1> HIDE DEF T
<1>5. T = Nat
  <2>1. T \in SUBSET Nat
    BY DEF T
  <2> QED BY <1>3, <1>4, <2>1, SetInduction
<1>6. IF b \in seen(n) THEN Evens(invited[b], h[n].invited[b]) ELSE h[n].invited[b] = invited[b]
  BY <1>0, <1>5 DEF T
<1> QED BY <1>1, <1>6 DEF Evens

\* Only matching the queue invites, and a running battleground evens out.
LEMMA SidesStep ==
  PlacesInv /\ [Battlegrounds!Next]_(Battlegrounds!vars) =>
    \A b \in Bgs : bgStatus[b] = "progress" =>
      \/ \A t \in Battlegrounds!Team : invited'[b][t] <= invited[b][t]
      \/ Evens(invited[b], invited'[b])
<1> SUFFICES ASSUME PlacesInv, [Battlegrounds!Next]_(Battlegrounds!vars), NEW b \in Bgs, bgStatus[b] = "progress"
             PROVE  \/ \A t \in Battlegrounds!Team : invited'[b][t] <= invited[b][t]
                    \/ Evens(invited[b], invited'[b])
  OBVIOUS
<1>0. invited \in [Bgs -> [Battlegrounds!Team -> Nat]]
  BY DEF PlacesInv, PlaceTypes
<1>1. CASE invited' = invited
  BY <1>0, <1>1
<1>2. ASSUME NEW p, NEW d, Battlegrounds!RemovePlayer(p, d)
      PROVE  \A t \in Battlegrounds!Team : invited'[b][t] <= invited[b][t]
  BY <1>0, <1>2 DEF Battlegrounds!RemovePlayer
<1>3. ASSUME NEW p, NEW c, Battlegrounds!RemovePlayerAtLeave(p, c)
      PROVE  \A t \in Battlegrounds!Team : invited'[b][t] <= invited[b][t]
  BY <1>0, <1>3 DEF Battlegrounds!RemovePlayerAtLeave
<1>4. CASE Battlegrounds!BattlegroundQueueUpdate
  <2> DEFINE m == Battlegrounds!Filled
             slots == [t \in Battlegrounds!Team |-> MinPlayersPerTeam]
  <2>1. \/ invited' = invited
        \/ invited' = m.invited
        \/ \E c \in Bgs : Battlegrounds!Unused(c) /\ invited' = Battlegrounds!Invite(m, c, slots).invited
    BY <1>4 DEF Battlegrounds!BattlegroundQueueUpdate, Battlegrounds!Matched
  <2>2. Evens(invited[b], m.invited[b])
    BY FilledEvens
  <2>3. ASSUME NEW c \in Bgs, Battlegrounds!Unused(c)
        PROVE  Battlegrounds!Invite(m, c, slots).invited[b] = m.invited[b]
    <3>1. c # b
      BY <2>3 DEF Battlegrounds!Unused
    <3> QED BY <2>3, <3>1, NewKeeps
  <2> HIDE DEF m, slots
  <2> QED BY <1>1, <2>1, <2>2, <2>3
<1>5. \/ invited' = invited
      \/ \E p, d : Battlegrounds!RemovePlayer(p, d)
      \/ \E p, c : Battlegrounds!RemovePlayerAtLeave(p, c)
      \/ Battlegrounds!BattlegroundQueueUpdate
  <2>1. ASSUME NEW e \in events, Battlegrounds!RemoveEvent(e)
        PROVE  invited' = invited \/ \E p, d : Battlegrounds!RemovePlayer(p, d)
    BY <2>1 DEF Battlegrounds!RemoveEvent
  <2>2. ASSUME NEW p \in Battlegrounds!Player,
               Battlegrounds!LeaveQueue(p) \/ Battlegrounds!LogoutPlayer(p) \/ \E c \in Bgs : Battlegrounds!Enter(p, c)
        PROVE  \E d : Battlegrounds!RemovePlayer(p, d)
    BY <2>2 DEF Battlegrounds!LeaveQueue, Battlegrounds!LogoutPlayer, Battlegrounds!Enter
  <2> QED
    BY <2>1, <2>2
    DEF Battlegrounds!Next, Battlegrounds!Update, Battlegrounds!HandleBattlemasterJoin, Battlegrounds!AddPlayer,
        Battlegrounds!StartsOrEnds, Battlegrounds!DeleteBattleground, Battlegrounds!BeginUpdate,
        Battlegrounds!TimePasses, Battlegrounds!bgVars, Battlegrounds!vars
<1> QED BY <1>1, <1>2, <1>3, <1>4, <1>5

\* Inviting to a running battleground leaves the sides at most one apart, or
\* brings them closer, however many invitations and departures came before.
THEOREM SidesAreEven == Battlegrounds!Spec => Battlegrounds!SidesEven
<1>1. PlacesInv /\ [Battlegrounds!Next]_(Battlegrounds!vars)
        => [\A b \in Bgs :
              bgStatus[b] = "progress" /\ (\E t \in Battlegrounds!Team : invited'[b][t] > invited[b][t]) =>
                Battlegrounds!Difference(invited'[b]) <= 1
                  \/ Battlegrounds!Difference(invited'[b]) < Battlegrounds!Difference(invited[b])]_(Battlegrounds!vars)
  <2> SUFFICES ASSUME PlacesInv, [Battlegrounds!Next]_(Battlegrounds!vars), NEW b \in Bgs, bgStatus[b] = "progress",
                      NEW t \in Battlegrounds!Team, invited'[b][t] > invited[b][t]
               PROVE  \/ Battlegrounds!Difference(invited'[b]) <= 1
                      \/ Battlegrounds!Difference(invited'[b]) < Battlegrounds!Difference(invited[b])
    OBVIOUS
  <2>1. invited[b][t] \in Nat /\ invited'[b][t] \in Nat
    <3>1. PlacesInv'
      BY PlacesStep
    <3> QED BY <3>1 DEF PlacesInv, PlaceTypes
  <2>2. ~(invited'[b][t] <= invited[b][t]) /\ invited'[b] # invited[b]
    BY <2>1
  <2>3. \/ \A u \in Battlegrounds!Team : invited'[b][u] <= invited[b][u]
        \/ Evens(invited[b], invited'[b])
    BY SidesStep
  <2> QED BY <2>2, <2>3 DEF Evens
<1> QED BY <1>1, PlacesInit, PlacesStep, PTL DEF Battlegrounds!Spec, Battlegrounds!SidesEven

-----------------------------------------------------------------------------
\* Battleground: its variables have their types, and it counts no more invited
\* players than there are.
LEMMA BattlegroundTypesAre == Battlegrounds!Spec => []Battlegrounds!TypeOK
<1>1. PlacesInv => Battlegrounds!TypeOK
  <2> SUFFICES ASSUME PlacesInv PROVE Battlegrounds!TypeOK
    OBVIOUS
  <2>1. invited \in [Bgs -> [Battlegrounds!Team -> 0..Battlegrounds!Cardinality(Battlegrounds!Player)]]
    <3>1. ASSUME NEW b \in Bgs, NEW t \in Battlegrounds!Team
          PROVE  invited[b][t] \in 0..Battlegrounds!Cardinality(Battlegrounds!Player)
      <4>1. invited[b][t] = Cardinality(Comers(queue[t], b, t))
        BY DEF PlacesInv, Counted
      <4>2. Comers(queue[t], b, t) \subseteq Battlegrounds!Player /\ IsFiniteSet(Battlegrounds!Player)
        BY PlaceConstants DEF Comers
      <4> HIDE DEF Comers
      <4>3. /\ Cardinality(Comers(queue[t], b, t)) <= Cardinality(Battlegrounds!Player)
            /\ Cardinality(Comers(queue[t], b, t)) \in Nat /\ Cardinality(Battlegrounds!Player) \in Nat
        BY <4>2, FS_Subset, FS_CardinalityType
      <4> QED BY <4>1, <4>3, SameCounting
    <3> QED BY <3>1 DEF PlacesInv, PlaceTypes
  <2>2. \A t \in Battlegrounds!Team : \A e \in Battlegrounds!Range(queue[t]) :
          Battlegrounds!TeamOf(e.player) = t /\ e.bg \in Bgs \cup {NoBg} /\ e.left \in 0..InviteWait
    <3> SUFFICES ASSUME NEW t \in Battlegrounds!Team, NEW i \in DOMAIN queue[t]
                 PROVE  Battlegrounds!TeamOf(queue[t][i].player) = t /\ queue[t][i].bg \in Bgs \cup {NoBg}
                        /\ queue[t][i].left \in 0..InviteWait
      BY DEF Battlegrounds!Range
    <3>1. queue[t] \in Seq(Place) /\ i \in 1..Len(queue[t])
      BY DEF PlacesInv, PlaceTypes
    <3>2. queue[t][i] \in Place
      BY <3>1
    <3> QED BY <3>1, <3>2 DEF PlacesInv, Proper, Place
  <2>3. Battlegrounds!IsInjective(freeSlots)
    BY DEF PlacesInv, PlaceTypes, Battlegrounds!IsInjective, IsInjective
  <2> QED BY <2>1, <2>2, <2>3 DEF Battlegrounds!TypeOK, PlacesInv, PlaceTypes
<1> QED BY <1>1, PlacesInit, PlacesStep, PTL DEF Battlegrounds!Spec
-----------------------------------------------------------------------------
\* Every component's variables have their types, in any system made of them:
\* for any number of chains, sockets, producers, players, items, auctions,
\* threads, events, clients and battlegrounds.
THEOREM ServicesTypes ==
  Spec /\ Socket!Spec /\ Buffers!Spec /\ Trades!Spec /\ Auction!Spec /\ Stopping!Spec
    /\ Processor!Spec /\ Login!Spec /\ Battlegrounds!Spec => []TypesOK
<1>1. IInv => TypeOK
  BY DEF IInv
<1>2. /\ TypeOK /\ Socket!TypeOK /\ Buffers!TypeOK /\ Trades!TypeOK /\ Auction!TypeOK
      /\ Stopping!TypeOK /\ Processor!TypeOK /\ Login!TypeOK /\ Battlegrounds!TypeOK
      => TypesOK
  BY DEF TypesOK
<1> QED BY <1>1, <1>2, InductiveInvariant, SocketTypesAre, BufferTypesAre, TradeTypesAre, AuctionTypesAre,
           StoppingTypesAre, EventTypesAre, LoginTypesAre, BattlegroundTypesAre, PTL
=============================================================================
