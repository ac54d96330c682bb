SPECIFICATION FairSpec
CONSTANTS
    t1 = t1
    t2 = t2
    r1 = r1
    Tracks = {t1, t2}
    Requests = {r1}
    Background = background
    Absent = absent
    MaxEdits = 1
    FailingCalls <- AllCalls
INVARIANTS
    DisconnectClears
    PointsBelongToTracks
PROPERTIES
    RequestsAnswered
CHECK_DEADLOCK TRUE
