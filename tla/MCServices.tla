----------------------------- MODULE MCServices -----------------------------
(* Small instances of the components of Services.  They share no state: a
   behaviour belongs to one of them, its part, and the others rest.  One socket
   suffices, as those of a thread take turns, with two buffers' worth of packets,
   so that packets are split, packed and held back; of two producers one's
   elements are hidden behind the other's; a loop of the world may overrun the
   time asked for.                                                           *)
EXTENDS Services

CONSTANTS c1, c2, c3

VARIABLES part, three

callbackVars == <<stored, inPass, walk, kept, future, callbacks, queries, invoked>>
socketVars == <<newSockets, sockets, connections, closed, closing, writing, closer, bufferQueue,
  writeQueue, reading, updating, enqueued, sent, broken, accepted, query, ready, pointer, session, early>>
elementVars == <<head, tail, next, freed, made, prevHead, order, got>>
tradeVars == <<online, trade, inventory, gold, locked>>
auctionVars == <<awake, money, bags, mail, mAitems, AuctionsMap, lastId, pending, house, forgiven, unpaid>>
bgVars == <<queue, events, scheduled, bgStatus, invited, porting, players, freeSlots, handled>>
shutdownVars ==
  <<m_ShutdownTimer, m_ShutdownMask, m_stopEvent, sessions, thread, elapsed, asked, requests>>
eventVars == <<m_events, state, deletable, inUpdate, event, aborts, completed, alive>>
authVars == <<_status, awaiting, asking, K, sessionkey, lastKey, inbox, client>>
allVars == <<part, three, callbackVars, socketVars, elementVars, tradeVars, auctionVars, bgVars,
             shutdownVars, eventVars, authVars>>

\* None of the chains is treated by its identity: they come in one order.
CallbacksNext ==
  /\ Next
  /\ queries'[c2] > 0 => queries'[c1] > 0
  /\ queries'[c3] > 0 => queries'[c2] > 0

\* Two players with two items, one of which may only be given one way, and bags
\* of one place, so that they swap; or three players and one item.
OneWay == {<<"y", "b">>}

TradeNext ==
  /\ Trades!Next /\ UNCHANGED three
  /\ IF three
     THEN locked' = {} /\ \A p \in Players :
            /\ gold'[p] = 0 /\ "y" \notin inventory'[p]
            /\ trade'[p] # NoTrade => ~trade'[p].spell
     ELSE /\ "c" \notin online' /\ "y" \notin locked'
          /\ gold'["a"] + gold'["b"] > 0 =>
               /\ "y" \notin inventory'["a"] \cup inventory'["b"] /\ locked' = {}
               /\ trade'["a"] # NoTrade => ~trade'["a"].spell
          /\ trade'["b"] # NoTrade => ~trade'["b"].spell

\* A seller and a bidder, who stays, with two auctions; or another bidder, who
\* may leave, and one auction.
OwnAccount == [p \in Players |-> p]
AnOffer == {[startbid |-> 1, buyout |-> 2]}
DepositOf == <<1, 3, 4>>

AuctionNext ==
  /\ Auction!Next /\ UNCHANGED three
  /\ awake'["b"]
  /\ IF three
     THEN lastId' <= 1
     ELSE /\ awake'["c"] /\ money'["c"] = money["c"] /\ bags'["c"] = {}
          /\ mail'["c"] = mail["c"]

\* Three of one team for a battleground of two; or two with time enough for a
\* first invitation to end while a second one runs.
Hasty == INSTANCE BattlegroundQueue WITH InviteWait <- 1, status <- bgStatus, updating <- handled
Patient == INSTANCE BattlegroundQueue WITH Alliance <- {"a1", "a2"}, status <- bgStatus, updating <- handled

BattlegroundNext == UNCHANGED three /\ IF three THEN Hasty!Next ELSE Patient!Next
BattlegroundUpdate == UNCHANGED three /\ IF three THEN Hasty!Update ELSE Patient!Update

Parts ==
  {"callbacks", "socket", "elements", "trades", "auction", "battlegrounds", "shutdown", "events", "login"}

\* Those with an instance for three players.
WithThree == {"trades", "auction", "battlegrounds"}

MCInit ==
  /\ part \in Parts /\ three \in (IF part \in WithThree THEN BOOLEAN ELSE {FALSE})
  /\ Init /\ Socket!Init /\ Buffers!Init /\ Trades!Init /\ Auction!Init /\ Battlegrounds!Init
  /\ Stopping!Init /\ Processor!Init /\ Login!Init
  /\ bags["a"] = {"x", "y"}

Rest(active) ==
  /\ active # "callbacks" => UNCHANGED callbackVars
  /\ active # "socket" => UNCHANGED socketVars
  /\ active # "elements" => UNCHANGED elementVars
  /\ active # "trades" => UNCHANGED tradeVars
  /\ active # "auction" => UNCHANGED auctionVars
  /\ active \notin WithThree => UNCHANGED three
  /\ active # "battlegrounds" => UNCHANGED bgVars
  /\ active # "shutdown" => UNCHANGED shutdownVars
  /\ active # "events" => UNCHANGED eventVars
  /\ active # "login" => UNCHANGED authVars

MCNext ==
  /\ UNCHANGED part
  /\ \/ part = "callbacks" /\ CallbacksNext /\ Rest("callbacks")
     \/ part = "socket" /\ Socket!Next /\ Rest("socket")
     \/ part = "elements" /\ Buffers!Next /\ Rest("elements")
     \/ part = "trades" /\ TradeNext /\ Rest("trades")
     \/ part = "auction" /\ AuctionNext /\ Rest("auction")
     \/ part = "battlegrounds" /\ BattlegroundNext /\ Rest("battlegrounds")
     \/ part = "shutdown" /\ Stopping!Next /\ Rest("shutdown")
     \/ part = "events" /\ Processor!Next /\ Rest("events")
     \/ part = "login" /\ Login!Next /\ Rest("login")

MCSpec == MCInit /\ [][MCNext]_allVars

\* The fairness of each component.
Fairness ==
  /\ WF_callbackVars(part = "callbacks" /\ ProcessReadyQueries)
  /\ \A c \in Chain : WF_callbackVars(part = "callbacks" /\ SetValue(c))
  /\ \A s \in Socks :
       /\ WF_socketVars(part = "socket" /\ Socket!Answer(s))
       /\ WF_socketVars(part = "socket" /\ Socket!UpdateSocket(s))
       /\ WF_socketVars(part = "socket" /\ Socket!NetworkThread(s))
       /\ WF_socketVars(part = "socket" /\ Socket!ReadError(s))
       /\ WF_socketVars(part = "socket" /\ Socket!OnClose(s, "world"))
       /\ WF_socketVars(part = "socket" /\ Socket!DeleteSession(s))
  /\ WF_elementVars(part = "elements" /\ Buffers!Dequeue)
  /\ \A p \in Producers : WF_elementVars(part = "elements" /\ Buffers!Link(p))
  /\ \A p \in Players : WF_auctionVars(part = "auction" /\ Auction!UpdatePendingAuctions(p))
  /\ \A id \in 1..MaxAuctions : WF_auctionVars(part = "auction" /\ Auction!Overdue(id))
  /\ WF_bgVars(part = "battlegrounds" /\ BattlegroundUpdate)
  /\ WF_shutdownVars(part = "shutdown" /\ Stopping!UpdateGameTime)
  /\ WF_shutdownVars(part = "shutdown" /\ Stopping!Request(World))
  /\ WF_eventVars(part = "events" /\ Processor!Update)
  /\ \A c \in Clients : WF_authVars(part = "login" /\ Login!Server(c))

MCFairSpec == MCSpec /\ Fairness

=============================================================================
