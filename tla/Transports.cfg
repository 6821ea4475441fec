SPECIFICATION Spec
CONSTANTS
  Goroutines = {g1, g2, g3}
  Protocols = {http, foo}
  Managed = {http}
  Remotes = {r1, r2}
  Handles = {h1, h2, h3, h4}
  None = None
SYMMETRY Symmetry
CHECK_DEADLOCK FALSE
INVARIANTS
  TypeOK
  RegistryResolves
  UserKeepsTransport
  NothingLeaks

