---------------------------- MODULE AssetQueries ----------------------------
(***************************************************************************)
(* What the read handlers of src/backend answer from the rows of a user:   *)
(* the pages of the grid and their counts, the albums, the tags, the map   *)
(* markers, the page a marker's photo is on, and the folders.  db is a     *)
(* function from asset IDs, which are numbers in their order, to rows.     *)
(***************************************************************************)
EXTENDS Naturals, SequencesExt, Ranking

NoFilter == "any"
NoDay == 0          \* dateTimeOriginal IS NULL, or no bound of a date range
NoAlbum == "none"

\* hiddenLibraryFilter and stackPrimaryAssetID IS NULL, which every query asks for.
Listed(row) == ~row.inHiddenLibrary /\ ~row.stackChild

OfAlbum(row, album) == album = NoFilter \/ album \in row.albums
OfTag(row, tag) == tag = NoFilter \/ tag \in row.tags

\* A row without dateTimeOriginal is in no range; the last day belongs to its range.
InDates(row, f) ==
    /\ f.start # NoDay => row.day # NoDay /\ row.day >= f.start
    /\ f.end # NoDay => row.day # NoDay /\ row.day <= f.end

OfGPS(row, gps) == CASE gps = "with-gps" -> row.located
                     [] gps = "no-gps" -> ~row.located
                     [] gps = "all" -> TRUE

OfHidden(row, hidden) == CASE hidden = "hidden" -> row.hidden
                           [] hidden = "visible" -> ~row.hidden
                           [] hidden = "all" -> TRUE

\* buildAssetFilter
Matches(row, f) ==
    /\ Listed(row)
    /\ OfAlbum(row, f.album) /\ OfTag(row, f.tag)
    /\ OfGPS(row, f.gps) /\ OfHidden(row, f.hidden)
    /\ InDates(row, f)

Matching(db, f) == {id \in DOMAIN db : Matches(db[id], f)}

countFilteredAssets(db, f) == Cardinality(Matching(db, f))

\* ORDER BY fileCreatedAt DESC, immichID DESC
Before(db, a, b) == db[a].created > db[b].created \/ (db[a].created = db[b].created /\ a > b)
Ordered(db, ids) == Sorted(ids, {p \in ids \X ids : Before(db, p[1], p[2])})

\* LIMIT and OFFSET
Page(list, page, size) == SubSeq(list, (page - 1) * size + 1, Min({page * size, Len(list)}))

\* Mutant of GetAssets: the last full page says that there is another one.
GetAssetsEager(db, f, page, size) ==
    [items |-> Page(Ordered(db, Matching(db, f)), page, size),
     total |-> countFilteredAssets(db, f),
     hasNextPage |-> page * size <= countFilteredAssets(db, f)]

\* handleGetAssets, getFilteredAssets
GetAssets(db, f, page, size) ==
    [items |-> Page(Ordered(db, Matching(db, f)), page, size),
     total |-> countFilteredAssets(db, f),
     hasNextPage |-> page * size < countFilteredAssets(db, f)]

\* handleGetMissingLocationCount: whatever the GPS filter is.
MissingLocationCount(db, f) == countFilteredAssets(db, [f EXCEPT !.gps = "no-gps"])

\* countAssetsByDay
DayCounts(db, f) ==
    LET days == {db[id].day : id \in Matching(db, f)} \ {NoDay}
    IN  [d \in days |-> Cardinality({id \in Matching(db, f) : db[id].day = d})]

(***************************************************************************)
(* getAlbumsByGPSFilter and getAlbumsWithGPSCount, which leaves out the    *)
(* albums with nothing to count.  Neither looks at isHidden.               *)
(***************************************************************************)
AlbumCount(db, album, gps, f) ==
    Cardinality({id \in DOMAIN db : /\ album \in db[id].albums
                                    /\ Listed(db[id]) /\ OfGPS(db[id], gps) /\ InDates(db[id], f)})
GetAlbums(db, albums, f) ==
    LET shown == IF f.gps = "with-gps" THEN {a \in albums : AlbumCount(db, a, "with-gps", f) > 0} ELSE albums
    IN  [a \in shown |-> [filteredCount |-> AlbumCount(db, a, f.gps, f),
                          noGPSCount |-> AlbumCount(db, a, "no-gps", f)]]

\* getTags
GetTags(db, tags) == [t \in tags |-> Cardinality({id \in DOMAIN db : t \in db[id].tags /\ Listed(db[id])})]

------------------------------------------------------------------------------
\* The markers.  A marker is a photo with coordinates, here its longitude.

\* West of the bounds may be east of their east: the map crosses the antimeridian.
InBounds(row, b) == IF b.west > b.east THEN row.lon >= b.west \/ row.lon <= b.east
                                       ELSE row.lon >= b.west /\ row.lon <= b.east

\* buildMarkerFilter
MarkerMatches(row, f) ==
    /\ row.located /\ Listed(row)
    /\ OfAlbum(row, f.album) /\ OfTag(row, f.tag)
    /\ InDates(row, f)

Markers(db, f) == {id \in DOMAIN db : MarkerMatches(db[id], f)}

\* getMapMarkers
GetMapMarkers(db, f, bounds, limit) ==
    Page(Ordered(db, {id \in Markers(db, f) : \A b \in bounds : InBounds(db[id], b)}), 1, limit)

\* The position among the located photos of an album and a tag.
Position(db, id, album, tag) ==
    Cardinality({other \in DOMAIN db :
                   /\ db[other].located /\ Listed(db[other])
                   /\ OfAlbum(db[other], album) /\ OfTag(db[other], tag)
                   /\ Before(db, other, id)})

\* getAssetPageInfo: an album or a tag the photo is not of is ignored; without an album
\* the answer names one the photo is in.
AssetPageInfo(db, id, album, tag, size) ==
    LET a == IF OfAlbum(db[id], album) THEN album ELSE NoFilter
        t == IF OfTag(db[id], tag) THEN tag ELSE NoFilter
    IN  [page |-> Position(db, id, a, t) \div size + 1,
         album |-> IF a # NoFilter THEN a
                   ELSE IF db[id].albums = {} THEN NoAlbum ELSE CHOOSE x \in db[id].albums : TRUE]

\* resolveFocusTarget: the album counts in the album view only, which without an album
\* asks again, for the album it found.  The album is the one the page is then loaded of.
FocusTarget(db, id, albumMode, album, tag, size) ==
    LET active == IF albumMode THEN album ELSE NoFilter
        info == AssetPageInfo(db, id, active, tag, size)
    IN  IF albumMode /\ active = NoFilter /\ info.album # NoAlbum
        THEN [page |-> AssetPageInfo(db, id, info.album, tag, size).page, album |-> info.album]
        ELSE [page |-> info.page, album |-> active]

------------------------------------------------------------------------------
(***************************************************************************)
(* The folders.  The directory of a file is the sequence of its names,     *)
(* that of an external library begins with "/"; the root directories <<>>  *)
(* and <<"/">> are no folders.                                             *)
(***************************************************************************)
IsFolder(dir) == dir # <<>> /\ dir # <<"/">>

\* normalizeOriginalPath: upload/library/<uuid>/... loses its prefix, unless it is of a library.
NormalizeOriginalPath(path, library) ==
    IF ~library /\ \E i \in 1..Len(path) : i > 1 /\ path[i-1] = "library" /\ path[i] = "uuid"
    THEN SubSeq(path, 1 + Max({i \in 2..Len(path) : path[i-1] = "library" /\ path[i] = "uuid"}), Len(path))
    ELSE path

\* getFolderTree, buildFolderTree: every folder on the way, with all that is below it.
FolderTree(db, f) ==
    LET dirs == {db[id].dir : id \in Matching(db, f)}
        all == (UNION {{SubSeq(d, 1, n) : n \in 1..Len(d)} : d \in {d \in dirs : IsFolder(d)}}) \ {<<"/">>}
    IN  [d \in all |-> Cardinality({id \in Matching(db, f) : IsPrefix(d, db[id].dir)})]

\* getFolderAssets: the files below a folder; the root is none.
FolderAssets(db, folder, f) ==
    IF IsFolder(folder) THEN {id \in Matching(db, f) : IsPrefix(folder, db[id].dir)} ELSE {}

\* handleGetAssetFolder
AssetFolder(row) == IF IsFolder(row.dir) THEN row.dir ELSE <<>>
==============================================================================
