SPECIFICATION Spec
CONSTANTS
  Goroutines = {g1}
  Protocols = {http, foo}
  Managed = {http}
  Remotes = {r1}
  Handles = {h1, h2, h3}
  None = None
CHECK_DEADLOCK FALSE
INVARIANT ShutdownCompletes
