SPECIFICATION Spec
CONSTANTS
    Wrapper = {w1, w2, w3}
    None = None
    Together <- Related
SYMMETRY Places
INVARIANTS TypeOK NoUseAfterFree FreedOnce NothingLeaks
