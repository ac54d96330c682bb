CONSTANTS
    u1 = u1
    u2 = u2
    l1 = l1
    Users = {u1, u2}
    Libs = {l1}
    Owner <- OwnerOfLibs
    Refreshers = {u2}
    MaxEdits = 2
    MaxFailures = 1
SPECIFICATION FairSpec
INVARIANTS HiddenStaysHidden
PROPERTIES AccessSettles Converges
CHECK_DEADLOCK FALSE
