SPECIFICATION MCSpec
CONSTANTS
    Albums = {"a"}
    Folders = {"f", "odd"}
    Unwritable = {"odd"}
    Tags = {"t"}
    Dates = {"d"}
    Sizes <- MCSizes
    Columns <- MCColumns
    MinLimit = 1
    MaxLimit = 6
    DefaultLimit = 4
    Increment = 2
    MarkerCount = 8
    MaxPages = 2
    AllPages = 1
    Addresses <- MCAddresses
    Backs <- MCBacks
    MaxSteps = 3
    MaxImports = 1
    Photos = {"p", "q", "r"}
    OnPage = {"p", "r"}
    Spots = {1, 2}
    NoSpot = NoSpot
    Located <- MCLocated
    MaxEdits = 3
    MaxActs = 3
    Places = {1, 2}
    Catalog = {"a"}
    MaxFlights = 4
INVARIANTS
    ReloadShowsTheSameView
    GridShowsTheView
    PanelHasItsPhotos
    MarkersFollowTheApplication
    FadedOnlyInAMove
    BoundsAreOnTheWay
PROPERTIES
    FlightsKeepThePin
CHECK_DEADLOCK FALSE
