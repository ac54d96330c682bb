SPECIFICATION MCSpec
CONSTANTS
    Inputs = {f1, f2}
    FirstInput = f1
    MaxLoads = 3
    MaxPolls = 2
    MaxActs = 5
INVARIANTS
    QuietScreenIsCurrent
    ReloadFollowsTheRun
PROPERTIES
    LoadingEnds
    PollingEnds
CHECK_DEADLOCK FALSE
