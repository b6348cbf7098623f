SPECIFICATION MCFairSpec
CONSTANTS
  AsyncThreads = 2
  OpenError = {"badDb", "tooOld", "error"}
  Op = {o1, o2, o3, o4, o5}
  NoOp = NoOp
  Width = 2
  o1 = o1
  o2 = o2
  o3 = o3
  o4 = o4
  o5 = o5
  a1 = a1
  a2 = a2
  s1 = s1
  t1 = t1
  t2 = t2
  Async = {a1, a2}
  Synch = {s1}
  Tx = {t1, t2}
  Size <- Statements
  MaxLosses = 1
  MaxIgnored = 1
  Caller = {"world", "map", "network"}
  World = "world"
  SynchThreads = 3
  Indices = 4
  KeepAlives = 1
  NoTx = NoTx
  NoConn = NoConn
  Nobody = Nobody
INVARIANTS TypesOK NoneLostOrShared ConnectionOutlivesCall NoLostWakeup AllOrNothing CleanHandover OneUser
PROPERTIES ImplementsAsyncExecution PoolProgress TransactionsEnd SpinEnds
