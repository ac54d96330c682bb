SPECIFICATION Spec
CONSTANTS
    Assets = {1, 2}
    Locs = {noLoc, here}
    NoLoc = noLoc
    Absent = absent
    PageSize = 1
    MaxEdits = 2
    FailingCalls = {}
INVARIANTS
    WatermarkSound
