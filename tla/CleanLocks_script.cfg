SPECIFICATION CSpec
CONSTANTS
  n = n
  a = a
  g = g
  m1 = m1
  m2 = m2
  t1 = t1
  t2 = t2
  Worker <- MCWorker
  Meter <- MCMeter
  Test <- MCTest
  Order <- MCOrder
  Kind <- MCKind
  Needs <- MCNeeds
  Setups <- CleanSetups
  MaxTries = 1
  Interrupts = FALSE
  Fault = {"callback", "lock_reply"}
  NoMeter = NoMeter
  NoTest = NoTest
  Quit = Quit
  PidFile = TRUE
  OldHups <- AllHups
  MaxHups = 2
  MaxTerms = 1
INVARIANTS
  FreesWhatIsListed
PROPERTIES
  CleansAfterEnd
  HarmlessAfterQuietEnd
  PytestEnds
CHECK_DEADLOCK FALSE
