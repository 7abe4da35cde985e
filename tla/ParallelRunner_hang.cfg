SPECIFICATION Spec
CONSTANTS
  n = n
  a = a
  b = b
  g = g
  h = h
  m1 = m1
  m2 = m2
  m3 = m3
  t1 = t1
  t2 = t2
  t3 = t3
  Worker <- MCWorker
  Meter <- MCMeter
  Test <- MCTest
  Order <- MCOrder
  Kind <- MCKind
  Needs <- MCNeeds
  Setups <- SmallSetups
  MaxTries = 1
  Interrupts = TRUE
  Fault = {}
  NoMeter = NoMeter
  NoTest = NoTest
  Quit = Quit
PROPERTIES
  SessionEnds
CHECK_DEADLOCK FALSE
