SPECIFICATION Spec
CONSTANTS
  m1 = m1
  m2 = m2
  m3 = m3
  t1 = t1
  t2 = t2
  t3 = t3
  t4 = t4
  Default = Default
  Node <- MCNode
  NodeAffinity <- MCNodeAffinity
  Contended <- MCContended
  Collection <- MCCollection
  Marker <- MCMarker
  Fixtures <- MCFixtures
  Meter <- MCMeter
  Singles <- MCSingles
  Rows <- MCRows
  Peer <- MCPeer
  r0 = r0
  r1 = r1
  r2 = r2
  r3 = r3
  Clones <- MCClones
  Origin <- MCOrigin
  Options <- MCOptions
  MaxCrashes = 1
  Aborts <- MCAborts
INVARIANTS
  TypeOK
  LiveWorkersHold
  WorkersApart
  ListsMatchRows
  AffinityKept
  NothingLost
  WellMeansAllRan
PROPERTIES
  SessionCloses
