SPECIFICATION Spec
CONSTANTS
  Version <- MCVersion
  Listing <- MCListing
  Matching <- MCMatching
  MaxPart = 10
  CacheLimit = 2
  Retries = 1
  Fault = {}
  Leftover <- MCLeftover
  MaxAttempts = 2
  MaxOutages = 1
INVARIANTS
  TypeOK
  ZeroMeansInstalled
  CacheWhole
PROPERTIES
  UpgradeOnItsBase
  DowngradeIffOlder
  InstallEnds
CHECK_DEADLOCK FALSE
