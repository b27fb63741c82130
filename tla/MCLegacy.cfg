CONSTANTS
    pA = pA
    pB = pB
    pC = pC
    Urls = {pA, pB, pC}
    InitialUrl = pA
    Anchors = {a1}
    a1 = a1
    NoAnchor = NoAnchor
    CacheEnabled = TRUE
    Preload = TRUE
    MaxLoads = 3
    MaxEnables = 2
    MaxPreloads = 2

SYMMETRY MCSymmetry
SPECIFICATION Spec
INVARIANT LegacyTypeOK
CHECK_DEADLOCK FALSE
