SPECIFICATION Spec
CONSTANTS
  World = w
  Threads = {w, irc}
  MaxTime = 2
  MaxElapsed = 1
  MaxSessions = 1
  MaxRequests = 1
  Width = 4
PROPERTIES CancelledForGood
CHECK_DEADLOCK FALSE
