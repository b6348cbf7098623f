SPECIFICATION Spec
CONSTANTS
  AsyncThreads = 1
  OpenError = {"badDb"}
  Op = {o1, o2}
  NoOp = NoOp
  Width = 1
INVARIANTS OpenedConnectionsRun
