CONSTANTS
    a1 = a1
    a2 = a2
    p1 = p1
    p2 = p2
    NoPlace = NoPlace
    Assets = {a1, a2}
    Places = {p1, p2}
    MaxUndo = 2
    MaxEdits = 4
    MaxFailures = 2
SPECIFICATION Spec
INVARIANTS SavedIsStored AppliedIsInPlace
PROPERTIES TimelineKept RetrySendsWhatFailed
SYMMETRY Symmetry
CHECK_DEADLOCK FALSE
