SPECIFICATION Spec
CONSTANTS
  Calls = {c1}
  Holders = {x1}
  Handles = {h1, h2, h3}
  None = None
SYMMETRY Symmetry
CHECK_DEADLOCK FALSE
INVARIANT MissingCallbackIsNotCalled
