SPECIFICATION Spec
CONSTANTS
    t1 = t1
    r1 = r1
    Tracks = {t1}
    Requests = {r1}
    Background = background
    Absent = absent
    MaxEdits = 0
    FailingCalls = {}
INVARIANT PointsArrive
CHECK_DEADLOCK TRUE
