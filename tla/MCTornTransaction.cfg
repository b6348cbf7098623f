SPECIFICATION Spec
CONSTANTS
  a1 = a1
  a2 = a2
  s1 = s1
  t1 = t1
  t2 = t2
  Async = {a1}
  Synch = {}
  Tx = {t1, t2}
  NoTx = NoTx
  NoConn = NoConn
  Size <- WithEmpty
  MaxLosses = 1
  MaxIgnored = 0
INVARIANTS Atomic
