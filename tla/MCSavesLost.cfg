SPECIFICATION FairSpec
CONSTANTS
  AsyncThreads = 1
  OpenError = {}
  Op = {o1, o2}
  NoOp = NoOp
  Width = 1
PROPERTIES SavesSurviveClose
