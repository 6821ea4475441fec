CONSTANTS
  Goroutines = {g1, g2}
  Threads = {t1, t2}
  MaxDepth = 2
  MaxCalls = 3
  MaxFailures = 2
  None = None
SYMMETRY Symmetry
SPECIFICATION Spec
CHECK_DEADLOCK FALSE
INVARIANTS
  TypeOK
  ReportsTheCause
  ErrorStays
  KeepsTheObject
