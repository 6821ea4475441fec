SPECIFICATION RebaseSpec
CONSTANTS
  Goroutines = {g1}
  Threads = {t1}
  MaxDepth = 1
  MaxCalls = 2
  MaxFailures = 1
  None = None
CHECK_DEADLOCK FALSE
INVARIANT ReportsTheCallback
