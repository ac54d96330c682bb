CONSTANTS
    NoPlace = NoPlace
    Assets = {a1, a2}
    Places = {p1, p2}
    MaxUndo = 2
    MaxEdits = 3
    MaxFailures = 0
SPECIFICATION Spec
INVARIANT GoToSavesNothing
CHECK_DEADLOCK FALSE
