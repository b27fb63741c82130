CONSTANTS
    h1 = h1
    h2 = h2
    h3 = h3
    c1 = c1
    c2 = c2
    Fns = {h1, h2}
    DefaultFn = DefaultFn
    Options <- MCOptions
    MaxRegs = 3
    Calls = {c1}
    HandlersMayReject = TRUE

SYMMETRY MCSymmetry
SPECIFICATION Spec
INVARIANT OnceUnregisteredAfterCall
CHECK_DEADLOCK FALSE
