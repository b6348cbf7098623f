SPECIFICATION MCFairSpec
CONSTANTS
  acct1 = acct1
  acct2 = acct2
  acct3 = acct3
  s1 = s1
  s2 = s2
  s3 = s3
  s4 = s4
  Session = {s1, s2, s3}
  Account = {acct1, acct2, acct3}
  AccountOf <- Twice
  Privileged = {}
  NoSession = NoSession
  InitialLimit = 1
  Limits = {2}
  Tolerance = 1
  MaxTime = 1
  Linger = 1
PROPERTIES SessionsEnd
CHECK_DEADLOCK FALSE
