SPECIFICATION Spec
CONSTANTS
  Calls = {c1, c2}
  Holders = {x1, x2}
  Handles = {h1, h2, h3, h4}
  None = None
SYMMETRY Symmetry
CHECK_DEADLOCK FALSE
INVARIANTS
  TypeOK
  PayloadsResolve
  FreesItsOwn
  NothingLeaks
