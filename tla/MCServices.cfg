SPECIFICATION MCFairSpec
CONSTANTS
  Chain = {c1, c2, c3}
  MaxQueries = 2
  c1 = c1
  c2 = c2
  c3 = c3
  Socks = {"s1"}
  NoSock = "no socket"
  BufferSize = 2
  MaxPackets = 4
  Producers = {"a", "b"}
  MaxElements = 3
  Players = {"a", "b", "c"}
  Items = {"x", "y"}
  NSlots = 1
  MaxMoney = 2
  Places = 1
  Forbidden <- OneWay
  NoItem = "no item"
  AccountOf <- OwnAccount
  Offers <- AnOffer
  Deposits <- DepositOf
  CutPercent = 50
  StartMoney = 3
  MaxAuctions = 2
  NoOne = "no one"
  Threads = {"world"}
  World = "world"
  MaxTime = 3
  MaxElapsed = 2
  MaxSessions = 1
  MaxRequests = 2
  Width = 5
  Events = {"e1", "e2", "e3"}
  MaxLeft = 2
  NoEvent = "no event"
  Clients = {"a", "b"}
  MaxLogons = 2
  Alliance = {"a1", "a2", "a3"}
  Horde = {"h1"}
  Bgs = {"b1"}
  NoBg = "no battleground"
  MinPlayersPerTeam = 1
  MaxPlayersPerTeam = 2
  InviteWait = 2
  MaxEvents = 1
  Stub = Stub
  Null = Null
  NoTrade = NoTrade
  NoKey = NoKey
INVARIANTS TypesOK ChainsKept SocketsSound  QueueSound Mirrored Conserved PlacesKept EventsSound LoginsSound
PROPERTIES EveryChainEnds SocketsGo FairTrade DepositsSettled InvitationsFair ShutdownKept EventsGo LoginsEnd
CHECK_DEADLOCK FALSE
