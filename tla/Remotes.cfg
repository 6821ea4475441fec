SPECIFICATION FairSpec
CONSTANTS
  Goroutines = {g1, g2}
  GC = GC
  Repos = {r1, r2}
  Ptrs = {p1, p2}
  MaxRemotes = 3
  None = None
CHECK_DEADLOCK FALSE
INVARIANTS
  TypeOK
  PointersResolve
  FoundByTransport
  FreesOnce
  NothingLeaks
PROPERTY DroppedIsFreed
