SPECIFICATION Spec
CONSTANTS
  MaxChunks = 2
  MaxAttempts = 3
CHECK_DEADLOCK FALSE
INVARIANT HardErrorReachesTheCaller
