SPECIFICATION Spec
CONSTANTS
  acct1 = acct1
  acct2 = acct2
  acct3 = acct3
  s1 = s1
  s2 = s2
  s3 = s3
  s4 = s4
  Session = {s1, s2, s3}
  Account = {acct1, acct2, acct3}
  AccountOf <- Twice
  Privileged = {}
  NoSession = NoSession
  InitialLimit = 1
  Limits = {}
  Tolerance = 1
  MaxTime = 2
  Linger = 1
PROPERTIES ToleranceExpires
CHECK_DEADLOCK FALSE
