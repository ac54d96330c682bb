SPECIFICATION AnswersSpec
CONSTANTS
    MaxClusters = 2
    MaxNeighbors = 1
    MaxSuggested = 3
    MaxFrequent = 5
    Padding = 3
    MaxHistory = 2
    TimeToLive = 2
    Configured <- MCConfigured
    Dbs <- MCDbs
    Filters <- MCFilters
    Albums = {"x", "y"}
    Tags = {"t"}
    PageSize = 1
    PhotoSets <- MCPhotoSets
    PointLists <- MCPointLists
    TrackPhotos <- MCTrackPhotos
    Zones <- MCZones
    MaxGap = 2
    Stored <- MCStored
    Entries <- MCEntries
    MaxTime = 4
INVARIANTS
    ListsAgree
    PlacesAreSound
    CallsAreUnderstood
CHECK_DEADLOCK FALSE
