SPECIFICATION SerialSpec
CONSTANTS
  t1 = t1
  t2 = t2
  p1 = p1
  p2 = p2
  p3 = p3
  RootPath = RootPath
  Threads <- TwoThreads
  ChildPaths <- ThreePaths
  Ops <- AllOps
  MaxInode = 5
SYMMETRY Symmetry
INVARIANTS
  TypeOK
  PathsHaveDistinctInodes
  InodesNeverReused
  RootIntact
  ResolvesUnlessOverlapped
PROPERTY
  KeepsIdentity
