----------------------------- MODULE WireContract -----------------------------
(***************************************************************************)
(* What the client and the server mean by a call.  The client checks every *)
(* answer with a guard and treats one that fails it as an error; the server*)
(* encodes Go structs, whose pointers and nil slices become null.  And the *)
(* parameters a call is made with are those its handler reads.             *)
(*                                                                         *)
(* A shape is a function from the fields of an object to the kinds of JSON *)
(* values they may have; the items of a list have a shape of their own.    *)
(***************************************************************************)
EXTENDS FiniteSets

\* Two tables that have no key in common, as one.
f \uplus g == [x \in DOMAIN f \union DOMAIN g |-> IF x \in DOMAIN f THEN f[x] ELSE g[x]]

String == {"string"}
Number == {"number"}
Bool == {"boolean"}
List == {"list"}
Object == {"object"}
OrNull(K) == K \union {"null"}
OrAbsent(K) == K \union {"absent"}
Are(fields, K) == [f \in fields |-> K]

Point == Are({"latitude", "longitude"}, Number)

-----------------------------------------------------------------------------
(* The guards of the client                                                *)

AssetGuards ==
    [asset |-> Are({"immichID", "type", "originalFileName", "fileCreatedAt", "syncedAt"}, String)
               \uplus Are({"latitude", "longitude"}, OrNull(Number)) \uplus [isHidden |-> Bool]
               \uplus Are({"city", "state", "country", "dateTimeOriginal"}, OrNull(String))
               \uplus Are({"stackID", "stackPrimaryAssetID"}, OrAbsent(OrNull(String)))
               \uplus [stackAssetCount |-> OrAbsent(OrNull(Number))],
     page |-> Are({"total", "page", "pageSize"}, Number) \uplus [items |-> List, hasNextPage |-> Bool]]

SuggestionFields ==
    {"sameDayClusters", "twoDayClusters", "weeklyClusters", "frequentLocations", "albumClusters",
     "neighborClusters"}

\* A list that is null is made an empty one (fetchSuggestions).
SuggestionGuards ==
    [cluster |-> Point \uplus [label |-> String, count |-> Number, secondsFromRef |-> OrAbsent(Number)],
     suggestions |-> Are(SuggestionFields, OrNull(List))]

CatalogGuards ==
    [album |-> Are({"immichID", "albumName", "updatedAt"}, String)
               \uplus Are({"assetCount", "filteredCount", "noGPSCount"}, Number)
               \uplus Are({"thumbnailAssetID", "startDate"}, OrNull(String)),
     tag |-> Are({"immichID", "name", "value"}, String) \uplus [assetCount |-> Number]
             \uplus Are({"parentID", "color"}, OrNull(String)),
     marker |-> Point \uplus [immichID |-> String],
     health |-> Are({"status", "immichURL"}, String) \uplus [lastSyncAt |-> OrNull(String)]
                \uplus Are({"syncedAssets", "noGPSAssets", "syncVersion"}, Number)]

ItemGuards ==
    [count |-> [count |-> Number], folder |-> [path |-> String],
     pageInfo |-> [page |-> Number, albumID |-> OrNull(String)], status |-> [syncing |-> Bool],
     library |-> Are({"libraryID", "name", "syncedAt"}, String)
                 \uplus [assetCount |-> Number, isHidden |-> Bool],
     favorite |-> Point \uplus [ID |-> Number, displayName |-> String, createdAt |-> String],
     node |-> [name |-> String, path |-> String, assetCount |-> Number, children |-> List],
     tree |-> [children |-> List]]

GPXGuards ==
    [point |-> Point,
     match |-> Point \uplus [assetID |-> String, fileName |-> String, elevation |-> Number,
                         timeGap |-> Number, isAlreadyApplied |-> Bool, hasExistingLocation |-> Bool],
     track |-> [name |-> String, points |-> List, startTime |-> String, endTime |-> String,
                pointCount |-> Number],
     preview |-> [track |-> Object, matches |-> List, detectedTimezone |-> String]]

DawarichGuards ==
    [dawarichTrack |-> Are({"ID", "distance", "duration"}, Number)
                       \uplus Are({"name", "startedAt", "finishedAt"}, String),
     dawarichStatus |-> [syncing |-> Bool] \uplus Are({"lastSyncAt", "lastSyncError"}, OrNull(String))
                        \uplus Are({"currentTrack", "totalTracks"}, OrNull(Number))]

AuthGuards ==
    [me |-> Are({"hasImmichAPIKey", "hasDawarichCredentials", "hasLibraries"}, Bool)
            \uplus [user |-> Object, mapMarkerCount |-> Number],
     user |-> Are({"ID", "email", "createdAt"}, String), authStatus |-> [registrationEnabled |-> Bool]]

\* A place found by a search; one that is not of this shape is left out (toTNominatimResult).
SearchGuards ==
    [place |-> [placeID |-> Number \union String] \uplus Are({"lat", "lon", "displayName", "type"}, String)]

\* The answers that are lists.
ListGuards ==
    [answer |-> Are({"GET /tags", "GET /albums", "GET /map-markers", "GET /frequent-locations",
                     "GET /libraries", "POST /libraries/refresh", "GET /favorite-places",
                     "GET /dawarich/tracks", "POST /dawarich/preview", "GET /geocode/search"}, List)
                \uplus Are({"GET /assets/day-counts"}, Object)]

Guards ==
    AssetGuards \uplus SuggestionGuards \uplus CatalogGuards \uplus ItemGuards \uplus GPXGuards \uplus DawarichGuards
    \uplus AuthGuards \uplus ListGuards \uplus SearchGuards

-----------------------------------------------------------------------------
(* What the server encodes                                                 *)

Pointer(K) == OrNull(K)
Omitted(K) == OrAbsent(K)       \* omitempty

\* Mutant of Filled: a query without rows returns a nil slice.
NilSlice(K) == OrNull(K)

\* The handlers replace a nil slice by an empty one, or make the slice themselves.
Filled(K) == K

RowTypes ==
    [asset |-> Are({"immichID", "type", "originalFileName", "originalPath", "fileCreatedAt", "syncedAt"}, String)
               \uplus Are({"latitude", "longitude"}, Pointer(Number)) \uplus [isHidden |-> Bool]
               \uplus Are({"city", "state", "country", "dateTimeOriginal"}, Pointer(String))
               \uplus Are({"stackID", "stackPrimaryAssetID", "libraryID"}, Omitted(String))
               \uplus [stackAssetCount |-> Omitted(Number)],
     page |-> Are({"total", "page", "pageSize"}, Number) \uplus [items |-> Filled(List), hasNextPage |-> Bool],
     count |-> [count |-> Number], folder |-> [path |-> String], marker |-> Point \uplus [immichID |-> String],
     cluster |-> Point \uplus [label |-> String, count |-> Number, secondsFromRef |-> Omitted(Number)],
     suggestions |-> Are(SuggestionFields, OrNull(List)),
     health |-> Are({"status", "immichURL"}, String) \uplus [lastSyncAt |-> Pointer(String)]
                \uplus Are({"syncedAssets", "noGPSAssets", "syncVersion"}, Number),
     status |-> [syncing |-> Bool] \uplus Are({"lastSyncAt", "lastSyncError"}, Pointer(String)),
     node |-> [name |-> String, path |-> String, assetCount |-> Number, children |-> Filled(List)],
     tree |-> [children |-> Filled(List)]]

CatalogTypes ==
    [album |-> Are({"immichID", "albumName", "updatedAt"}, String)
               \uplus Are({"assetCount", "filteredCount", "noGPSCount"}, Number)
               \uplus Are({"thumbnailAssetID", "startDate"}, Pointer(String)),
     tag |-> Are({"immichID", "name", "value"}, String) \uplus [assetCount |-> Number]
             \uplus Are({"parentID", "color"}, Pointer(String)),
     pageInfo |-> [page |-> Number, albumID |-> Pointer(String)],
     user |-> Are({"ID", "email", "createdAt", "updatedAt"}, String),
     me |-> Are({"hasImmichAPIKey", "hasDawarichCredentials", "hasLibraries"}, Bool)
            \uplus [user |-> Object, mapMarkerCount |-> Number],
     authStatus |-> [registrationEnabled |-> Bool],
     library |-> Are({"libraryID", "name", "syncedAt"}, String) \uplus [assetCount |-> Number, isHidden |-> Bool],
     favorite |-> Point \uplus [ID |-> Number, displayName |-> String, createdAt |-> String],
     place |-> [placeID |-> Number] \uplus Are({"lat", "lon", "displayName", "type"}, String),
     point |-> Point,
     track |-> [name |-> String, points |-> Filled(List), startTime |-> String, endTime |-> String,
                pointCount |-> Number],
     match |-> Point \uplus [assetID |-> String, fileName |-> String, elevation |-> Number, timeGap |-> Number,
                         isAlreadyApplied |-> Bool, hasExistingLocation |-> Bool]
               \uplus Are({"existingLatitude", "existingLongitude"}, Omitted(Number)),
     preview |-> [track |-> Object, matches |-> Filled(List), detectedTimezone |-> String],
     dawarichTrack |-> Are({"ID", "distance", "duration"}, Number) \uplus [syncedAt |-> Omitted(String)]
                       \uplus Are({"name", "startedAt", "finishedAt"}, String),
     dawarichStatus |-> [syncing |-> Bool] \uplus Are({"lastSyncAt", "lastSyncError"}, Pointer(String))
                        \uplus Are({"currentTrack", "totalTracks"}, Pointer(Number)),
     answer |-> [call \in DOMAIN ListGuards.answer |-> Filled(ListGuards.answer[call])]]

Written == RowTypes \uplus CatalogTypes

\* Fields of an answer that its guard may refuse.
Refused(shape) ==
    {f \in DOMAIN Guards[shape] :
        ~((IF f \in DOMAIN Written[shape] THEN Written[shape][f] ELSE {"absent"}) \subseteq Guards[shape][f])}

-----------------------------------------------------------------------------
(* What a call is made with: always, and when it is set                    *)

With(always, maybe) == [always |-> always, maybe |-> maybe]
Filter == {"gpsFilter", "hiddenFilter"}
Dates == {"startDate", "endDate"}
Paged == {"page", "pageSize"}
Named == {"albumID", "tagID"}
Bounds == {"north", "south", "east", "west"}

ListCalls ==
    [fetchAssets |-> With(Paged \union Filter, Named \union Dates),
     fetchAssetDayCounts |-> With(Dates \union Filter, Named),
     fetchMissingLocationCount |-> With({"hiddenFilter"}, Named \union Dates),
     fetchAlbums |-> With({"gpsFilter"}, Dates)]

PlaceCalls ==
    [getFolders |-> With(Filter, {"tagID"} \union Dates),
     getFolderAssets |-> With({"path"} \union Paged \union Filter, {"tagID"} \union Dates),
     fetchMapMarkers |-> With({"limit"}, Named \union Dates \union Bounds)]

AssetCalls ==
    [fetchSuggestions |-> With({}, {"albumID"}), fetchAssetPageInfo |-> With({"pageSize"}, Named),
     saveAssetLocation |-> With({"latitude", "longitude"}, {})]

EditCalls ==
    [updateLibrary |-> With({"isHidden"}, {}), bulkToggleAssetHidden |-> With({"assetIDs", "isHidden"}, {}),
     toggleAssetHidden |-> With({"isHidden"}, {}),
     gpxPreview |-> With({"gpxFile", "includeGeotagged"}, {"maxGapSeconds"}),
     addFavoritePlace |-> With({"latitude", "longitude", "displayName"}, {}),
     removeFavoritePlace |-> With({"latitude", "longitude"}, {}),
     dawarichPreview |-> With({"trackIDs", "maxGapSeconds"}, {}), saveDawarichSettings |-> With({"apiKey"}, {})]

\* An API key that is null clears the one that is stored.
EntryCalls ==
    [register |-> With({"email", "password"}, {}), login |-> With({"email", "password"}, {}),
     updateSettings |-> With({"immichAPIKey"}, {}), searchPlaces |-> With({"q"}, {})]

\* All calls but those that say nothing besides a path.
Calls == ListCalls \uplus PlaceCalls \uplus AssetCalls \uplus EditCalls \uplus EntryCalls

\* What the handlers read, and what they refuse the call without.
Reads(reads, needs) == [reads |-> reads, needs |-> needs]
Handlers ==
    [fetchAssets |-> Reads(Paged \union Filter \union Named \union Dates, {}),
     fetchAssetDayCounts |-> Reads(Filter \union Named \union Dates, Dates),
     fetchMissingLocationCount |-> Reads({"hiddenFilter"} \union Named \union Dates, {}),
     fetchAlbums |-> Reads({"gpsFilter"} \union Dates, {}),
     getFolders |-> Reads(Filter \union {"tagID"} \union Dates, {}),
     getFolderAssets |-> Reads({"path", "tagID"} \union Paged \union Filter \union Dates, {"path"}),
     fetchMapMarkers |-> Reads({"limit"} \union Named \union Dates \union Bounds, {}),
     fetchSuggestions |-> Reads({"albumID"}, {}), fetchAssetPageInfo |-> Reads({"pageSize"} \union Named, {}),
     saveAssetLocation |-> Reads({"latitude", "longitude"}, {"latitude", "longitude"}),
     updateLibrary |-> Reads({"isHidden"}, {"isHidden"}),
     bulkToggleAssetHidden |-> Reads({"assetIDs", "isHidden"}, {"assetIDs", "isHidden"}),
     toggleAssetHidden |-> Reads({"isHidden"}, {"isHidden"}),
     gpxPreview |-> Reads({"gpxFile", "maxGapSeconds", "includeGeotagged"}, {"gpxFile"}),
     addFavoritePlace |-> Reads({"latitude", "longitude", "displayName"}, {"latitude", "longitude", "displayName"}),
     removeFavoritePlace |-> Reads({"latitude", "longitude"}, {"latitude", "longitude"}),
     dawarichPreview |-> Reads({"trackIDs", "maxGapSeconds"}, {"trackIDs"}),
     saveDawarichSettings |-> Reads({"apiKey"}, {"apiKey"}),
     register |-> Reads({"email", "password"}, {"email", "password"}),
     login |-> Reads({"email", "password"}, {"email", "password"}),
     updateSettings |-> Reads({"immichAPIKey"}, {}), searchPlaces |-> Reads({"q", "limit"}, {"q"})]

\* Parameters of a call that its handler does not read, or misses.
Misunderstood(call) ==
    ((Calls[call].always \union Calls[call].maybe) \ Handlers[call].reads)
    \union (Handlers[call].needs \ Calls[call].always)
==============================================================================
