SPECIFICATION Spec
CONSTANTS
  acct1 = acct1
  acct2 = acct2
  acct3 = acct3
  s1 = s1
  s2 = s2
  s3 = s3
  s4 = s4
  Session = {s1, s2, s3, s4}
  Account = {acct1, acct2, acct3}
  AccountOf <- Relogin
  Privileged = {acct3}
  NoSession = NoSession
  InitialLimit = 1
  Limits = {}
  Tolerance = 0
  MaxTime = 0
  Linger = 1
INVARIANTS NothingDangles SlotsAreUsed EveryoneIsSaved
PROPERTIES NoOvertaking LoadingIsNotReplaced
SYMMETRY Alike
CHECK_DEADLOCK FALSE
