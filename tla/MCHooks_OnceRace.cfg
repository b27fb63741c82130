CONSTANTS
    h1 = h1
    h2 = h2
    h3 = h3
    c1 = c1
    c2 = c2
    Fns = {h1, h2}
    DefaultFn = DefaultFn
    Options <- MCOptionsNoReplace
    MaxRegs = 3
    Calls = {c1, c2}
    HandlersMayReject = FALSE

SYMMETRY MCSymmetry
SPECIFICATION Spec
INVARIANT OnceFiresAtMostOnce
CHECK_DEADLOCK FALSE
