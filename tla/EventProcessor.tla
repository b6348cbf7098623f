---------------------------- MODULE EventProcessor ----------------------------
(* The timed events of one unit (or creature, or battleground queue), all in
   the thread of its map.  What an event does when it is executed may add,
   move, abort or kill other events of the same processor, and the event of a
   spell puts itself back until the spell is done; it may not be deleted while
   others still use the spell.  Times are kept relative to m_time; of events
   due at once any may come first.                                            *)
EXTENDS Naturals

CONSTANTS
  Events,   \* bound: the events ever added
  MaxTime,  \* bound: how far ahead an event is planned
  NoEvent

EventAssumption == NoEvent \notin Events /\ MaxTime \in Nat \ {0}

VARIABLES
  m_events,   \* the queued events, from each to the time left
  state,      \* m_abortState, or "unborn" or "deleted"
  deletable,  \* IsDeletable
  updating,   \* Update is on the stack
  event,      \* the one whose Execute is on the stack
  aborts,     \* how often Abort was called
  completed,  \* events whose Execute returned true
  alive       \* the processor has not been destroyed

vars == <<m_events, state, deletable, updating, event, aborts, completed, alive>>

Queued == DOMAIN m_events
Born(e) == state[e] \notin {"unborn", "deleted"}

Init ==
  /\ m_events = [e \in {} |-> 0]
  /\ state = [e \in Events |-> "unborn"] /\ deletable = [e \in Events |-> TRUE]
  /\ updating = FALSE /\ event = NoEvent
  /\ aborts = [e \in Events |-> 0] /\ completed = {}
  /\ alive = TRUE

With(e, left) == [f \in Queued \cup {e} |-> IF f = e THEN left ELSE m_events[f]]
Without(es) == [f \in Queued \ es |-> m_events[f]]

\* Between two updates, or from inside Execute.
Calling == alive /\ (updating => event # NoEvent)

-----------------------------------------------------------------------------
(* The unit's code *)

AddEvent(e, left) ==
  /\ Calling /\ state[e] = "unborn"
  /\ m_events' = With(e, left)
  /\ state' = [state EXCEPT ![e] = "running"]
  /\ UNCHANGED <<deletable, updating, event, aborts, completed, alive>>

\* A client tells that its missile goes somewhere else.
ModifyEventTime(e, left) ==
  /\ alive /\ ~updating /\ e \in Queued /\ state[e] = "running"
  /\ m_events' = With(e, left)
  /\ UNCHANGED <<state, deletable, updating, event, aborts, completed, alive>>

\* Whoever holds an event forgets it when he has done this.
ScheduleAbort(e) ==
  /\ Calling /\ e \in Queued /\ state[e] = "running"
  /\ state' = [state EXCEPT ![e] = "abort_scheduled"]
  /\ UNCHANGED <<m_events, deletable, updating, event, aborts, completed, alive>>

\* Somebody begins or ends to use the spell.
SpellUsed(e) ==
  /\ Calling /\ Born(e)
  /\ deletable' = [deletable EXCEPT ![e] = ~@]
  /\ UNCHANGED <<m_events, state, updating, event, aborts, completed, alive>>

-----------------------------------------------------------------------------
(* KillAllEvents *)

NotAborted == {e \in Queued : state[e] # "aborted"}

Aborted(es) == [e \in Events |-> IF e \in es THEN aborts[e] + 1 ELSE aborts[e]]

\* Mutant: what may not be deleted leaves the queue as well.
ErasedAll(deleted) == Without(Queued)

Erased(deleted) == Without(deleted)

Kill(force) ==
  LET deleted == {e \in Queued : force \/ deletable[e]} IN
  /\ aborts' = Aborted(NotAborted)
  /\ state' = [e \in Events |->
       IF e \in deleted THEN "deleted" ELSE IF e \in Queued THEN "aborted" ELSE state[e]]
  /\ m_events' = Erased(deleted)

KillAllEvents ==
  /\ Calling
  /\ Kill(FALSE)
  /\ UNCHANGED <<deletable, updating, event, completed, alive>>

\* ~EventProcessor
Destroy ==
  /\ alive /\ ~updating
  /\ alive' = FALSE
  /\ Kill(TRUE)
  /\ UNCHANGED <<deletable, updating, event, completed>>

-----------------------------------------------------------------------------
(* Update *)

BeginUpdate ==
  /\ alive /\ ~updating /\ updating' = TRUE
  /\ m_events' = [e \in Queued |-> IF m_events[e] = 0 THEN 0 ELSE m_events[e] - 1]
  /\ UNCHANGED <<state, deletable, event, aborts, completed, alive>>

Due == {e \in Queued : m_events[e] = 0}

Execute(e) ==
  /\ updating /\ event = NoEvent /\ e \in Due /\ state[e] = "running"
  /\ event' = e /\ m_events' = Without({e})
  /\ UNCHANGED <<state, deletable, updating, aborts, completed, alive>>

\* Execute returns true: the event is deleted.
Complete ==
  /\ event # NoEvent /\ deletable[event]
  /\ state' = [state EXCEPT ![event] = "deleted"]
  /\ completed' = completed \cup {event}
  /\ event' = NoEvent
  /\ UNCHANGED <<m_events, deletable, updating, aborts, alive>>

\* The event of a spell has added itself again, and returns false.
Repeat(left) ==
  /\ event # NoEvent /\ left > 0
  /\ m_events' = With(event, left)
  /\ event' = NoEvent
  /\ UNCHANGED <<state, deletable, updating, aborts, completed, alive>>

\* Mutant: the event is looked at again at once.
NextTickNow == 0

NextTick == 1

\* An aborted event is deleted as soon as it may be.
Discard(e) ==
  /\ updating /\ event = NoEvent /\ e \in Due /\ state[e] # "running"
  /\ aborts' = Aborted(IF state[e] = "abort_scheduled" THEN {e} ELSE {})
  /\ state' = [state EXCEPT ![e] = IF deletable[e] THEN "deleted" ELSE "aborted"]
  /\ m_events' = IF deletable[e] THEN Without({e}) ELSE With(e, NextTick)
  /\ UNCHANGED <<deletable, updating, event, completed, alive>>

EndUpdate ==
  /\ updating /\ event = NoEvent /\ Due = {} /\ updating' = FALSE
  /\ UNCHANGED <<m_events, state, deletable, event, aborts, completed, alive>>

Update ==
  \/ BeginUpdate \/ EndUpdate \/ Complete
  \/ \E e \in Events : Execute(e) \/ Discard(e)
  \/ \E left \in 0..MaxTime : Repeat(left)

Next ==
  \/ \E e \in Events :
       \/ \E left \in 0..MaxTime : AddEvent(e, left) \/ ModifyEventTime(e, left)
       \/ ScheduleAbort(e) \/ SpellUsed(e)
  \/ KillAllEvents \/ Destroy
  \/ Update

Spec == Init /\ [][Next]_vars

\* The map updates its units.
FairSpec == Spec /\ WF_vars(Update)

-----------------------------------------------------------------------------
(* Properties *)

TypeOK ==
  /\ Queued \subseteq Events /\ \A e \in Queued : m_events[e] \in 0..MaxTime
  /\ state \in [Events -> {"unborn", "running", "abort_scheduled", "aborted", "deleted"}]
  /\ deletable \in [Events -> BOOLEAN] /\ {updating, alive} \subseteq BOOLEAN
  /\ event \in Events \cup {NoEvent} /\ completed \subseteq Events

\* An event is queued, or executing, or deleted, and no two of these: whatever
\* its callbacks do, none is lost and none is used after it was deleted.
QueuedOrRunning ==
  /\ \A e \in Events : Born(e) <=> e \in Queued \cup ({event} \ {NoEvent})
  /\ event \notin Queued

\* An event ends in one way: completed, or told once that it is aborted.
EndsOneWay ==
  \A e \in Events :
    /\ aborts[e] <= 1 /\ (e \in completed => aborts[e] = 0)
    /\ state[e] = "deleted" => e \in completed \/ aborts[e] = 1

\* Both: an event is used from its birth to its one end, and not after it.
EventsSound == QueuedOrRunning /\ EndsOneWay

\* Update returns: neither what events add, nor aborted events that may not be
\* deleted yet, keep its loop going.
UpdateEnds == []<>~updating

\* An aborted event goes, as soon as nothing uses it for good.
AbortedAreDeleted ==
  \A e \in Events : <>[](state[e] \in {"abort_scheduled", "aborted"}) => []<>~deletable[e]

\* Both: aborting what is in use stops neither the loop nor the deletion.
EventsGo == UpdateEnds /\ AbortedAreDeleted
=============================================================================
