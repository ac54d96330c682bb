SPECIFICATION FairSpec
CONSTANTS
    c1 = c1
    c2 = c2
    Collections = {c1, c2}
    Absent = absent
    Torn = torn
    MaxEdits = 3
    MaxFailures = 1
INVARIANTS
    SkippedIsCurrent
PROPERTIES
    DeletesOnlyWhatIsGone
    NoErrorMeansSynced
    Converges
CHECK_DEADLOCK TRUE
