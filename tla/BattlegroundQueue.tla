--------------------------- MODULE BattlegroundQueue ---------------------------
(* One bracket of one battleground's queue, for players who queue alone: they
   are invited to running battlegrounds with room or to a new one, and enter,
   decline, log out, or are removed by an event when they have not answered in
   time.  The event of an invitation is never cancelled.  Handlers run first in
   an update of the world; then BattlegroundMgr::Update executes the events
   that are due and matches the queue.  Times are kept relative to now, so that
   time need not be bounded.                                                  *)
EXTENDS Integers, SequencesExt

CONSTANTS
  Alliance, Horde,   \* the players
  Bgs,               \* bound: battlegrounds there may be at a time
  NoBg,
  MinPlayersPerTeam, MaxPlayersPerTeam,
  InviteWait,        \* INVITE_ACCEPT_WAIT_TIME, in updates of the world
  MaxEvents          \* bound: nobody joins while more events are waiting

\* A template whose minimum exceeds its maximum is not loaded.
BattlegroundAssumption ==
  /\ IsFiniteSet(Alliance) /\ IsFiniteSet(Horde) /\ IsFiniteSet(Bgs) /\ NoBg \notin Bgs
  /\ MinPlayersPerTeam \in Nat /\ MaxPlayersPerTeam \in Nat /\ InviteWait \in Nat
  /\ MinPlayersPerTeam <= MaxPlayersPerTeam

VARIABLES
  queue,      \* m_QueuedGroups of each team: [player, bg, left] each, bg and
              \* left standing for IsInvitedToBGInstanceGUID and RemoveInviteTime
  events,     \* the remove events: [player, bg, left]
  scheduled,  \* m_QueueUpdateScheduler holds an update
  status,     \* m_Status of each battleground, "none" if there is none
  invited,    \* m_InvitedAlliance, m_InvitedHorde
  porting,    \* players on their way to each battleground
  players,    \* m_Players
  freeSlots,  \* BGFreeSlotQueue
  updating    \* the handlers of this update have run

bgVars == <<status, invited, porting, players, freeSlots>>
vars == <<queue, events, scheduled, status, invited, porting, players, freeSlots, updating>>

Team == {"alliance", "horde"}
Player == Alliance \cup Horde
TeamOf(p) == IF p \in Alliance THEN "alliance" ELSE "horde"
Other(t) == IF t = "alliance" THEN "horde" ELSE "alliance"

Init ==
  /\ queue = [t \in Team |-> <<>>] /\ events = {} /\ scheduled = FALSE
  /\ status = [b \in Bgs |-> "none"]
  /\ invited = [b \in Bgs |-> [t \in Team |-> 0]]
  /\ porting = [b \in Bgs |-> {}] /\ players = [b \in Bgs |-> {}]
  /\ freeSlots = <<>> /\ updating = FALSE

Entry(p) == {e \in Range(queue[TeamOf(p)]) : e.player = p}
Queued(p) == Entry(p) # {}
InvitedTo(p, b) == \E e \in Entry(p) : e.bg = b
In(b, t) == {p \in players[b] : TeamOf(p) = t}

-----------------------------------------------------------------------------
(* The queue *)

\* Mutant: nobody is counted off.
EraseOnly(p, decreaseInvitedCount) ==
  /\ queue' = [queue EXCEPT ![TeamOf(p)] = RemoveFirstMatch(@, LAMBDA e : e.player = p)]
  /\ UNCHANGED invited

RemovePlayer(p, decreaseInvitedCount) ==
  /\ queue' = [queue EXCEPT ![TeamOf(p)] = RemoveFirstMatch(@, LAMBDA e : e.player = p)]
  /\ invited' = [b \in Bgs |->
       IF decreaseInvitedCount /\ InvitedTo(p, b)
       THEN [invited[b] EXCEPT ![TeamOf(p)] = @ - 1] ELSE invited[b]]

\* GetFreeSlotsForTeam: up to the maximum before the start, then only what
\* keeps the sides even, by those invited and by those inside.
FreeSlots(b, t, inv) ==
  LET room == IF inv[t] < MaxPlayersPerTeam THEN MaxPlayersPerTeam - inv[t] ELSE 0
      Gap(mine, others) == IF others = mine THEN 1 ELSE IF others > mine THEN others - mine ELSE 0
      inside == Cardinality(In(b, t))
      opposite == Cardinality(In(b, Other(t)))
      entered == IF inside > opposite /\ inv[t] <= MinPlayersPerTeam
                 THEN MinPlayersPerTeam - inv[t] + 1 ELSE Gap(inside, opposite)
  IN  IF status[b] = "join" THEN room ELSE Min({room, Gap(inv[t], inv[Other(t)]), entered})

\* The first n groups not invited, as SelectionPool::AddGroup takes them.
Selected(q, n) ==
  {i \in DOMAIN q : q[i].bg = NoBg /\ Cardinality({j \in 1..(i - 1) : q[j].bg = NoBg}) < n}

InviteGroupToBG(q, chosen, b) ==
  [i \in DOMAIN q |-> IF i \in chosen THEN [player |-> q[i].player, bg |-> b, left |-> InviteWait] ELSE q[i]]

\* Inviting to battleground b as many of each team as slots has.
Invite(match, b, slots) ==
  LET chosen == [t \in Team |-> Selected(match.queue[t], slots[t])] IN
  [queue |-> [t \in Team |-> InviteGroupToBG(match.queue[t], chosen[t], b)],
   invited |-> [match.invited EXCEPT ![b] = [t \in Team |-> @[t] + Cardinality(chosen[t])]],
   open |-> match.open]

FillPlayersToBG(match, b) ==
  Invite(match, b, [t \in Team |-> FreeSlots(b, t, match.invited[b])])

Running(b) == status[b] \in {"join", "progress"}
HasFreeSlots(b) == Cardinality(players[b]) < 2 * MaxPlayersPerTeam

\* A round of the loop over BGFreeSlotQueue, open being what remains of it.
Visit(match, b) ==
  LET filled == IF Running(b) THEN FillPlayersToBG(match, b) ELSE match
  IN  IF Running(b) /\ ~HasFreeSlots(b) THEN filled ELSE [filled EXCEPT !.open = Append(@, b)]

Filled == FoldLeft(Visit, [queue |-> queue, invited |-> invited, open |-> <<>>], freeSlots)

Enough(match) ==
  \A t \in Team : Cardinality(Selected(match.queue[t], MinPlayersPerTeam)) = MinPlayersPerTeam

\* An instance id is never used again; one no event knows is as good as new.
Unused(b) == status[b] = "none" /\ \A e \in events : e.bg # b

Invitations(match) ==
  {[player |-> e.player, bg |-> e.bg, left |-> InviteWait] :
     e \in {x \in UNION {Range(match.queue[t]) : t \in Team} : x.bg # NoBg /\ x \notin UNION {Range(queue[t]) : t \in Team}}}

Matched(match) ==
  /\ queue' = match.queue /\ invited' = match.invited
  /\ events' = events \cup Invitations(match)

\* BattlegroundQueueUpdate, for whoever asked since the last one; the events
\* that are due come before it, and an empty queue ends it at once.
BattlegroundQueueUpdate ==
  /\ updating /\ scheduled /\ scheduled' = FALSE /\ \A e \in events : e.left > 0
  /\ \/ (\A t \in Team : queue[t] = <<>>) /\ UNCHANGED <<queue, events, status, invited, freeSlots>>
     \/ /\ \E t \in Team : queue[t] # <<>>
        /\ \/ \E b \in Bgs :
                /\ Enough(Filled) /\ Unused(b)
                /\ Matched(Invite(Filled, b, [t \in Team |-> MinPlayersPerTeam]))
                /\ status' = [status EXCEPT ![b] = "join"] /\ freeSlots' = <<b>> \o Filled.open
           \/ /\ ~Enough(Filled) \/ \A b \in Bgs : ~Unused(b)
              /\ Matched(Filled) /\ freeSlots' = Filled.open /\ UNCHANGED status
  /\ UNCHANGED <<porting, players, updating>>

-----------------------------------------------------------------------------
(* Handlers *)

Outside(p) == ~Queued(p) /\ \A b \in Bgs : p \notin porting[b] \cup players[b]

HandleBattlemasterJoin(p) ==
  /\ ~updating /\ Outside(p) /\ Cardinality(events) <= MaxEvents
  /\ queue' = [queue EXCEPT ![TeamOf(p)] = Append(@, [player |-> p, bg |-> NoBg, left |-> 0])]
  /\ scheduled' = TRUE
  /\ UNCHANGED <<events, bgVars, updating>>

\* CMSG_BATTLEFIELD_PORT, entering.
Enter(p, b) ==
  /\ ~updating /\ InvitedTo(p, b)
  /\ RemovePlayer(p, FALSE)
  /\ porting' = [porting EXCEPT ![b] = @ \cup {p}]
  /\ UNCHANGED <<events, scheduled, status, players, freeSlots, updating>>

\* CMSG_BATTLEFIELD_PORT, leaving the queue.
LeaveQueue(p) ==
  /\ ~updating /\ Queued(p)
  /\ RemovePlayer(p, TRUE) /\ scheduled' = TRUE
  /\ UNCHANGED <<events, status, porting, players, freeSlots, updating>>

\* Logging out takes a player from the queue without asking for an update.
LogoutPlayer(p) ==
  /\ ~updating /\ Queued(p)
  /\ RemovePlayer(p, TRUE)
  /\ UNCHANGED <<events, scheduled, status, porting, players, freeSlots, updating>>

\* The client has loaded the map.
AddPlayer(p, b) ==
  /\ ~updating /\ p \in porting[b]
  /\ porting' = [porting EXCEPT ![b] = @ \ {p}]
  /\ players' = [players EXCEPT ![b] = @ \cup {p}]
  /\ UNCHANGED <<queue, events, scheduled, status, invited, freeSlots, updating>>

\* He leaves, logs out, or the battleground is over.
RemovePlayerAtLeave(p, b) ==
  /\ ~updating /\ p \in players[b]
  /\ players' = [players EXCEPT ![b] = @ \ {p}]
  /\ invited' = [invited EXCEPT ![b][TeamOf(p)] = @ - 1]
  /\ IF status[b] # "leave"
     THEN /\ scheduled' = TRUE
          /\ freeSlots' = IF Contains(freeSlots, b) THEN freeSlots ELSE <<b>> \o freeSlots
     ELSE UNCHANGED <<scheduled, freeSlots>>
  /\ UNCHANGED <<queue, events, status, porting, updating>>

-----------------------------------------------------------------------------
(* The battlegrounds, and the world's update *)

NotListed(b) == RemoveFirst(freeSlots, b)

StartsOrEnds(b) ==
  /\ ~updating /\ players[b] # {}
  /\ \/ status[b] = "join" /\ status' = [status EXCEPT ![b] = "progress"] /\ UNCHANGED freeSlots
     \/ /\ status[b] = "progress" /\ status' = [status EXCEPT ![b] = "leave"]
        /\ freeSlots' = NotListed(b)
  /\ UNCHANGED <<queue, events, scheduled, invited, porting, players, updating>>

NobodyLeft(b) == players[b] = {} /\ \A t \in Team : invited[b][t] = 0

DeleteBattleground(b) ==
  /\ ~updating /\ status[b] # "none" /\ NobodyLeft(b)
  /\ status' = [status EXCEPT ![b] = "none"] /\ freeSlots' = NotListed(b)
  /\ UNCHANGED <<queue, events, scheduled, invited, porting, players, updating>>

\* Mutant: any invitation to the same battleground is meant.
IsInvited(e) == InvitedTo(e.player, e.bg)

IsPlayerInvited(e) == e \in Entry(e.player)

\* BGQueueRemoveEvent::Execute.
RemoveEvent(e) ==
  /\ updating /\ e.left = 0
  /\ events' = events \ {e}
  /\ IF IsPlayerInvited(e)
     THEN RemovePlayer(e.player, TRUE) /\ scheduled' = (scheduled \/ Running(e.bg))
     ELSE UNCHANGED <<queue, invited, scheduled>>
  /\ UNCHANGED <<status, porting, players, freeSlots, updating>>

BeginUpdate ==
  /\ ~updating /\ updating' = TRUE
  /\ UNCHANGED <<queue, events, scheduled, bgVars>>

\* The next update finds that time has passed.
TimePasses ==
  /\ updating /\ updating' = FALSE /\ ~scheduled /\ \A e \in events : e.left > 0
  /\ events' = {[e EXCEPT !.left = @ - 1] : e \in events}
  /\ queue' = [t \in Team |-> [i \in DOMAIN queue[t] |->
                 IF queue[t][i].left = 0 THEN queue[t][i] ELSE [queue[t][i] EXCEPT !.left = @ - 1]]]
  /\ UNCHANGED <<scheduled, bgVars>>

Update == BeginUpdate \/ (\E e \in events : RemoveEvent(e)) \/ BattlegroundQueueUpdate \/ TimePasses

Next ==
  \/ \E p \in Player :
       \/ HandleBattlemasterJoin(p) \/ LeaveQueue(p) \/ LogoutPlayer(p)
       \/ \E b \in Bgs : Enter(p, b) \/ AddPlayer(p, b) \/ RemovePlayerAtLeave(p, b)
  \/ \E b \in Bgs : StartsOrEnds(b) \/ DeleteBattleground(b)
  \/ Update

Spec == Init /\ [][Next]_vars

\* The world's loop runs; players need not do anything.
FairSpec == Spec /\ WF_vars(Update)

-----------------------------------------------------------------------------
(* Properties *)

TypeOK ==
  /\ \A t \in Team : \A e \in Range(queue[t]) :
       TeamOf(e.player) = t /\ e.bg \in Bgs \cup {NoBg} /\ e.left \in 0..InviteWait
  /\ events \subseteq [player : Player, bg : Bgs, left : 0..InviteWait]
  /\ scheduled \in BOOLEAN
  /\ status \in [Bgs -> {"none", "join", "progress", "leave"}]
  /\ invited \in [Bgs -> [Team -> 0..Cardinality(Player)]]
  /\ {porting, players} \subseteq [Bgs -> SUBSET Player]
  /\ IsInjective(freeSlots) /\ updating \in BOOLEAN

\* The counters a battleground decides by are those who may still come, are on
\* their way, or are inside, whatever became of each invitation.
InvitedCounted ==
  \A b \in Bgs, t \in Team :
    invited[b][t] =
      Cardinality({p \in Player : TeamOf(p) = t /\ (InvitedTo(p, b) \/ p \in porting[b] \cup players[b])})

\* "difference based on max players per team (don't allow inviting more)":
\* a battleground never has more than that in one team.
NeverOverfull ==
  \A b \in Bgs, t \in Team :
    invited[b][t] <= MaxPlayersPerTeam
    /\ Cardinality({p \in porting[b] \cup players[b] : TeamOf(p) = t}) <= MaxPlayersPerTeam

\* Nobody is invited to, or on his way to, a battleground that was deleted.
InvitedBgExists ==
  \A b \in Bgs :
    (porting[b] # {} \/ \E p \in Player : InvitedTo(p, b)) => status[b] # "none"

\* The three: the places of every battleground are kept.
PlacesKept == InvitedCounted /\ NeverOverfull /\ InvitedBgExists

\* Case 4 of the event's comment: a player who left the queue, joined again and
\* was invited again is not removed by the event of the first invitation.
FullTimeToAnswer ==
  [][\A p \in Player :
       Queued(p) /\ ~Queued(p)' /\ Cardinality(events') < Cardinality(events) =>
         \E e \in Entry(p) : e.bg # NoBg /\ e.left = 0]_vars

Difference(inv) == IF inv["alliance"] > inv["horde"]
                   THEN inv["alliance"] - inv["horde"] ELSE inv["horde"] - inv["alliance"]

\* Inviting to a running battleground leaves the sides at most one apart, or
\* brings them closer.
SidesEven ==
  [][\A b \in Bgs :
       status[b] = "progress" /\ (\E t \in Team : invited'[b][t] > invited[b][t]) =>
         Difference(invited'[b]) <= 1 \/ Difference(invited'[b]) < Difference(invited[b])]_vars

\* No invitation stays open for ever, even when the battleground ends first.
InvitationsEnd ==
  \A p \in Player : []<>(\A b \in Bgs : ~InvitedTo(p, b))

\* The three: whom the queue invites, and for how long.
InvitationsFair == FullTimeToAnswer /\ SidesEven /\ InvitationsEnd
=============================================================================
