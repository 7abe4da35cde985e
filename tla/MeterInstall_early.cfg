SPECIFICATION Spec
CONSTANTS
  Version <- MCVersion
  Listing <- MCListing
  Matching <- MCMatching
  MaxPart = 10
  CacheLimit = 2
  Retries = 1
  Fault = {"early"}
  Leftover <- MCLeftover
  MaxAttempts = 1
  MaxOutages = 1
INVARIANTS
  ZeroMeansInstalled
CHECK_DEADLOCK FALSE
