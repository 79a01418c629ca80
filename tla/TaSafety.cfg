SPECIFICATION Spec
CONSTANTS
    A = A
    B = B
    NoTa = NoTa
    NoThread = NoThread
    Threads = {t1, t2, t3}
    t1 = t1
    t2 = t2
    t3 = t3
    Tas = {A, B}
    Flags <- FlagsNested
    Calls <- CallsNested
    Panics = {A}
    MayFail = TRUE
    MaxId = 2
    MaxCtx = 2
    MaxDepth = 2
SYMMETRY Symmetric
INVARIANTS
    NoUseAfterFree
    SessionRefsExact
    CtxRefsExact
    OneInstance
    Exclusive
    GoneOwnsNothing
    WaitsEnd
    NoPanic
PROPERTIES
    KeptAlive
