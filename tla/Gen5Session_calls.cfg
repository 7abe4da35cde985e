SPECIFICATION SSpec
CONSTANTS
  Version <- MCVersion
  Listing <- MCListing
  Matching <- MCMatching
  MaxPart = 10
  CacheLimit = 2
  Retries = 0
  Fault = {}
  Leftover <- MCLeftover
  MaxAttempts = 2
  MaxOutages = 1
PROPERTIES
  ReturnsConnected
  CallsEnd
CHECK_DEADLOCK FALSE
