SPECIFICATION MCSpec
CONSTANTS
    r1 = r1
    r2 = r2
    kA = kA
    s1 = s1
    Requests = {r1, r2}
    Startup = startup
    Periodic = periodic
    Keys = {kA}
    None = None
    Passes = {s1}
    Few = {r1}
    FailSteps = {"storeKey", "wipe", "libraries"}
INVARIANTS
    MutualExclusion
    CancelFnIsCurrent
    WipedStaysEmpty
PROPERTIES
    ImplementsLibraryGuard
    RequestsAnswered
    ShutdownCompletes
CHECK_DEADLOCK TRUE
