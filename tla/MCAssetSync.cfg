SPECIFICATION MCSpec
CONSTANTS
    Assets = {1, 2}
    Locs = {noLoc, here}
    NoLoc = noLoc
    Absent = absent
    PageSize = 1
    MaxEdits = 2
    FailingCalls = {"search", "upsert", "delete", "stamp", "stacks", "patch", "local"}
    Users = {u1, u2}
    Managers = {u1}
    Cells = {c1}
    Configured <- MCConfigured
    MaxGen = 3
    MaxChanges = 1
    Browsers = {b1, b2}
    Emails = {e1, e2}
    MaxSends = 3
INVARIANTS
    Arrives
    NewestRowsLast
    LegacyDataStaysTogether
    ScreenIsOfTheCookie
    NothingOfAnotherUser
PROPERTIES
    RowsSurvive
CHECK_DEADLOCK TRUE
