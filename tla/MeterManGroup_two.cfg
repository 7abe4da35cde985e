SPECIFICATION GSpec
CONSTANTS
  s1 = s1
  s2 = s2
  s3 = s3
  h1 = h1
  h2 = h2
  Session <- MCSession
  Group = {s1, s2}
  Serviced = {m2}
  Meter = {m1, m2}
  Host <- MCHost
  LockHost <- MCLockHost
  Retries = 2
  Fault = {"lock_reply", "unlock_request"}
  NoMeter = NoMeter
  NoHost = NoHost
INVARIANTS
  Exclusive
  CommandsOnOwnMeters
  ListIsWhatRuns
PROPERTIES
  ImplementsOwnership
  TurnComes
