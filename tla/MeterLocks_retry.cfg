SPECIFICATION Spec
CONSTANTS
  s1 = s1
  s2 = s2
  h1 = h1
  h2 = h2
  Session <- MCSession
  Meter = {m1}
  Host <- MCHost
  LockHost <- MCLockHost
  Retries = 2
  Fault = {"unlock_reply"}
  NoMeter = NoMeter
  NoHost = NoHost
PROPERTIES
  RowsInUseStay
