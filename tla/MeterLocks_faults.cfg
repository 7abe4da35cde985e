SPECIFICATION Spec
CONSTANTS
  s1 = s1
  s2 = s2
  h1 = h1
  h2 = h2
  Session <- MCSession
  Meter = {m1, m2}
  Host <- MCHost
  LockHost <- MCLockHost
  Retries = 2
  Fault = {"lock_reply", "unlock_request", "outage", "unlock_reply", "operator"}
  NoMeter = NoMeter
  NoHost = NoHost
INVARIANTS
  ListMatchesInstances
PROPERTIES
  GivesUpByFreeing
  UnlockTerminates
