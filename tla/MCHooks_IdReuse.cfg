CONSTANTS
    h1 = h1
    h2 = h2
    h3 = h3
    c1 = c1
    c2 = c2
    Fns = {h1, h2, h3}
    DefaultFn = DefaultFn
    Options <- MCOptionsNoReplace
    MaxRegs = 4
    Calls = {c1}
    HandlersMayReject = FALSE

SYMMETRY MCSymmetry
SPECIFICATION Spec
INVARIANT TieBreakFollowsRegistration
CHECK_DEADLOCK FALSE
