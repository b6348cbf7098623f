------------------------------ MODULE Services ------------------------------
(* Parts of the servers that keep to themselves: the callbacks of queries (the
   module it extends), a thread's sockets, the queue of buffers, trades, the
   auction house, the shutdown of the world, the events of a unit, the login at
   the authentication server and the queue for battlegrounds.  They share no
   state, so that the system is the conjunction of their specifications.     *)
EXTENDS QueryCallbackProcessor, FiniteSets

CONSTANTS
  Socks, NoSock, BufferSize, MaxPackets,                           \* WorldSocket
  Producers, MaxElements, Stub, Null,                              \* MPSCQueue
  Players, Items, NSlots, MaxMoney, Places, Forbidden, NoItem, NoTrade,    \* Trade
  AccountOf, Offers, Deposits, CutPercent, StartMoney, MaxAuctions, NoOne, \* AuctionHouse
  Threads, World, MaxTime, MaxElapsed, MaxSessions, MaxRequests, Width,    \* Shutdown
  Events, MaxLeft, NoEvent,                                        \* EventProcessor
  Clients, MaxLogons, NoKey,                                       \* AuthSession
  Alliance, Horde, Bgs, NoBg, MinPlayersPerTeam, MaxPlayersPerTeam,
  InviteWait, MaxEvents                                            \* BattlegroundQueue

VARIABLES
  newSockets, sockets, connections, closed, closing, writing, closer, bufferQueue, writeQueue,
  reading, updating, enqueued, sent, broken, accepted, query, ready, pointer, session, early,
  head, tail, next, freed, made, prevHead, order, got,
  online, trade, inventory, gold, locked,
  awake, money, bags, mail, mAitems, AuctionsMap, lastId, pending, house, forgiven, unpaid,
  m_ShutdownTimer, m_ShutdownMask, m_stopEvent, sessions, thread, elapsed, asked, requests,
  m_events, state, deletable, inUpdate, event, aborts, completed, alive,
  _status, awaiting, asking, K, sessionkey, lastKey, inbox, client,
  queue, events, scheduled, bgStatus, invited, porting, players, freeSlots, handled

Socket == INSTANCE WorldSocket
Buffers == INSTANCE MPSCQueue WITH Elements <- MaxElements
Trades == INSTANCE Trade
Auction == INSTANCE AuctionHouse WITH online <- awake
Stopping == INSTANCE Shutdown
Processor == INSTANCE EventProcessor WITH MaxTime <- MaxLeft, updating <- inUpdate
Login == INSTANCE AuthSession WITH reading <- awaiting, query <- asking
Battlegrounds == INSTANCE BattlegroundQueue WITH status <- bgStatus, updating <- handled

ASSUME SocketsAssumption == Socket!SocketAssumption
ASSUME BuffersAssumption == Buffers!QueueAssumption
ASSUME TradesAssumption == Trades!TradeAssumption
ASSUME AuctionsAssumption == Auction!AuctionAssumption
ASSUME StoppingAssumption == Stopping!ShutdownAssumption
ASSUME EventsAssumption == Processor!EventAssumption
ASSUME LoginAssumption == Login!LogonAssumption
ASSUME PlacesAssumption == Battlegrounds!BattlegroundAssumption

-----------------------------------------------------------------------------
(* The components' properties, by their names there, where they are stated
   and explained.                                                            *)

\* Every component's variables have their types.
TypesOK ==
  /\ TypeOK /\ Socket!TypeOK /\ Buffers!TypeOK /\ Trades!TypeOK /\ Auction!TypeOK
  /\ Stopping!TypeOK /\ Processor!TypeOK /\ Login!TypeOK /\ Battlegrounds!TypeOK

\* Socket, NetworkThread: the client sees a prefix of what was sent; a rejected
\* one is told before its socket closes, unless it was rejected while its
\* challenge was still being written; and sockets are counted once.
SocketsSound == Socket!SocketsSound
\* WorldSocket: _worldSession is set where it is used, to a session that lives.
SessionReachable == Socket!SessionReachable
\* Socket, and the queue of its buffers: one whose peer has left, or that is to
\* be closed, goes, and what is sent to it until then is taken.
SocketsGo == Socket!SocketsGo /\ Buffers!EverythingComesOut

\* MPSCQueue: elements come out in the order of the exchanges, no deleted node
\* is touched, and one is hidden only behind a producer between its steps.
QueueSound == Buffers!QueueSound

\* Player::m_trade: the two sides of a trade point at each other.
Mirrored == Trades!Mirrored
\* HandleAcceptTradeOpcode: what the accepted slots hold and their owners still
\* have is exchanged, for the accepted gold, and nothing that may not be given.
FairTrade == Trades!FairTrade

\* AuctionHouseMgr: an item is in one place, and every bid is held or paid back.
Conserved == Auction!Conserved
\* UpdatePendingAuctions: every series is settled, and its shares add up.
DepositsSettled == Auction!DepositsSettled

\* World: it stops as was last announced, unless that was cancelled.
ShutdownKept == Stopping!ShutdownKept

\* EventProcessor: an event is queued, executing or deleted, and ends once.
EventsSound == Processor!EventsSound
\* EventProcessor: Update returns, and aborted events go.
EventsGo == Processor!EventsGo

\* AuthSession: a query at a time, and who is logged in finds his key.
LoginsSound == Login!LoginsSound
\* AuthSession: commands are answered and connections go with their clients.
LoginsEnd == Login!LoginsEnd

\* Battleground: its counters are of those who may be there, never too many,
\* and it exists as long as there are any.
PlacesKept == Battlegrounds!PlacesKept
\* BGQueueRemoveEvent, FillPlayersToBG: invitations even the sides, last their
\* time, and end.
InvitationsFair == Battlegrounds!InvitationsFair
=============================================================================
