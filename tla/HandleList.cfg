\* Three goroutines: a reader, a writer and one that waits.  No symmetry, for
\* there is liveness.
SPECIFICATION FairSpec
CONSTANTS
  Goroutines = {g1, g2, g3}
  Handles = {h1, h2, h3}
  Objects = {o1, o2}
  None = None
INVARIANTS
  TypeOK
  MapAccessExclusive
  OwnedResolves
  FreesOnce
  NothingLeaks
PROPERTIES
  ImplementsTable
  CallsReturn
