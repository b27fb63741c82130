CONSTANTS
    uP = uP
    uX = uX
    uR = uR
    Urls = {uP, uX, uR}
    InitialUrl = uP
    Redirect <- MCRedirect
    Anchors = {a1}
    a1 = a1
    NoAnchor = NoAnchor
    NoPage = NoPage
    MaxVisits = 2
    CacheEnabled = TRUE
    AnimateHistoryBrowsing = FALSE

SPECIFICATION Spec
INVARIANT TypeOK
INVARIANT LeavingClassOnlyWhileLeaving
PROPERTY LifecycleSpec
CHECK_DEADLOCK FALSE
