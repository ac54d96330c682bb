------------------------------ MODULE ViewState ------------------------------
(***************************************************************************)
(* What the application shows and how it remembers it: the filters and the *)
(* place (view mode, album, folder, tag) kept by useURLState and           *)
(* useViewDomain and mirrored in the address, the page of photos that      *)
(* useAssets loads for them, the location edits that wait to be saved, and *)
(* the panel that takes the place of the list while tracks are imported.   *)
(* A handler and the React effects of its render are one step.             *)
(***************************************************************************)
EXTENDS Integers, FiniteSets, FiniteSetsExt

CONSTANTS Albums, Folders, Tags, Dates,
          Unwritable,                 \* folders whose path an address cannot hold
          Sizes, Columns,             \* what the settings offer; the first is the default
          MinLimit, MaxLimit, DefaultLimit, Increment,
          MarkerCount,                \* mapMarkerCount of the user
          MaxPages, AllPages,         \* pages of an answer; PAGINATION_ALL_PAGES_LIMIT
          Addresses,                  \* addresses the application may be opened with
          Backs,                      \* addresses the browser may go back to
          MaxSteps, MaxImports        \* bounds on the steps of the user

None == "none"
NoNumber == -1

ASSUME ViewAssumption ==
    /\ None \notin Albums \union Folders \union Tags \union Dates
    /\ {MinLimit, MaxLimit, DefaultLimit, Increment} \subseteq Nat \ {0}
    /\ MinLimit <= DefaultLimit /\ DefaultLimit <= MaxLimit
    /\ 1 \in DOMAIN Sizes /\ 1 \in DOMAIN Columns
    /\ {Sizes[i] : i \in DOMAIN Sizes} \union {Columns[i] : i \in DOMAIN Columns} \subseteq Nat
    /\ {MarkerCount, MaxPages, AllPages} \subseteq Nat
    /\ \A u \in Addresses \union Backs : u.folder \notin Unwritable /\ u.limit \in Int

GPS == {"with", "without", "all"}
Hidden == {"visible", "hidden", "all"}
Modes == {"album", "timeline", "folders"}
Offered(options) == {options[i] : i \in DOMAIN options}

Default == [gps |-> "with", hidden |-> "visible", mode |-> "album", album |-> None,
            folder |-> None, tag |-> None, size |-> Sizes[1], columns |-> Columns[1],
            limit |-> DefaultLimit, start |-> None, end |-> None]

\* The address of the default view has no parameter.
Blank == [Default EXCEPT !.gps = None, !.hidden = None, !.mode = None,
                         !.size = NoNumber, !.columns = NoNumber, !.limit = NoNumber]

VARIABLES view, url,
          open,      \* the application is mounted
          ready,     \* useInitialCatalogLoad has asked for the first page
          asked,     \* the prev refs of useAssets
          grid,      \* the page of photos on screen
          load,      \* the request under way
          failed,    \* assetsError
          edits,     \* pending location edits: placed by hand, of an import
          save,      \* the save under way
          held,      \* a menu's or a dialog's callback under way
          gpx,       \* useGPXImport
          imports,   \* uploads and Dawarich previews under way
          steps

vars == <<view, url, open, ready, asked, grid, load, failed, edits, save, held, gpx, imports, steps>>
screen == <<view, url, open, ready, asked>>
shownPage == <<grid, load, failed>>
underWay == <<save, held>>

-----------------------------------------------------------------------------
\* applyURLToState: a parameter that is missing or cannot be read is the default, and
\* only the mode decides whether the album or the folder is read.
Clamp(n) == Max({MinLimit, Min({n, MaxLimit})})
Known(x, set, default) == IF x \in set THEN x ELSE default

ReadURL(u) ==
    LET mode == Known(u.mode, Modes, Default.mode)
    IN  [gps |-> Known(u.gps, GPS, Default.gps),
         hidden |-> Known(u.hidden, Hidden, Default.hidden),
         mode |-> mode,
         album |-> IF mode = "folders" THEN None ELSE Known(u.album, Albums, None),
         folder |-> IF mode = "folders" THEN Known(u.folder, Folders, None) ELSE None,
         tag |-> Known(u.tag, Tags, None),
         size |-> Known(u.size, Offered(Sizes), Default.size),
         columns |-> Known(u.columns, Offered(Columns), Default.columns),
         limit |-> IF u.limit = NoNumber THEN DefaultLimit ELSE Clamp(u.limit),
         start |-> Known(u.start, Dates, None),
         end |-> Known(u.end, Dates, None)]

\* sanitizeFolderPath, sanitizeAlbumID: a folder that an address cannot hold is left out.
Sanitized(v) == [v EXCEPT !.folder = IF @ \in Unwritable THEN None ELSE @]

\* Mutant of BuildURL: a limit below the default is taken for the default.
BuildURLAbove(v) ==
    [f \in DOMAIN Default |->
        IF Sanitized(v)[f] = Default[f] \/ (f = "limit" /\ v.limit < DefaultLimit)
        THEN Blank[f] ELSE Sanitized(v)[f]]

\* buildURLFromState writes what is not the default.
BuildURL(v) ==
    [f \in DOMAIN Default |->
        IF Sanitized(v)[f] = Default[f] THEN Blank[f] ELSE Sanitized(v)[f]]

\* The effect of useViewDomain: the list of albums has no tag.
Settle(v) == IF v.mode = "album" /\ v.album = None THEN [v EXCEPT !.tag = None] ELSE v

\* useCatalogDomain: the album counts in the album mode, the folder in the folder mode.
Query(v) ==
    [gps |-> v.gps, hidden |-> v.hidden, tag |-> v.tag, size |-> v.size,
     start |-> v.start, end |-> v.end,
     album |-> IF v.mode = "album" THEN v.album ELSE None,
     folder |-> IF v.mode = "folders" THEN v.folder ELSE None]

Screen(v) ==
    IF gpx.step = "preview" /\ gpx.previews # "none" THEN "panel"
    ELSE IF v.mode = "album" /\ v.album = None THEN "albums"
    ELSE IF v.mode = "folders" /\ v.folder = None THEN "tree" ELSE "grid"

NoQuery == [Query(Default) EXCEPT !.gps = None]

(***************************************************************************)
(* A page that was asked for by the save, a menu or a dialog is late when  *)
(* the filters are no longer those of when its callback was made; a grid   *)
(* is when that page came, or when the catalog was cleared.                *)
(***************************************************************************)
NoLoad == [query |-> NoQuery, page |-> 0, by |-> None, late |-> FALSE]
Cleared == [query |-> NoQuery, page |-> 1, pages |-> 0, late |-> FALSE]
NoSave == [at |-> "idle", query |-> NoQuery]
NoCallback == [query |-> NoQuery, page |-> 0]
NoImport == [step |-> "upload", loading |-> FALSE, failed |-> FALSE, previews |-> "none"]

Init ==
    /\ view = Default /\ url \in Addresses
    /\ open = FALSE /\ ready = FALSE
    /\ asked = Query(Default)
    /\ grid = Cleared /\ load = NoLoad /\ failed = FALSE
    /\ edits = {} /\ save = NoSave /\ held = NoCallback /\ gpx = NoImport
    /\ imports = [upload |-> 0, dawarich |-> 0]
    /\ steps = 0

-----------------------------------------------------------------------------
\* Mutant of Changed: the hidden filter has no prev ref.
ChangedShown(v) == [Query(v) EXCEPT !.hidden = asked.hidden] # asked

\* The filter effect of useAssets.
Changed(v) == Query(v) # asked

LoadPage(v, p) == load' = [query |-> Query(v), page |-> p, by |-> "view", late |-> FALSE] /\ failed' = FALSE

\* loadPageAction of the render in which a callback was made.
LoadHeld(who, q, p) ==
    load' = [query |-> q, page |-> p, by |-> who, late |-> q # Query(view)] /\ failed' = FALSE

(***************************************************************************)
(* The view becomes v, under address u.  The tag effect may change it once *)
(* more, after the filter effect has seen v; a changed query empties the   *)
(* grid and loads its first page.                                          *)
(***************************************************************************)
Show(v, u) ==
    LET settled == Settle(v)
    IN  /\ view' = settled
        /\ url' = IF settled = v THEN u ELSE BuildURL(settled)
        /\ IF Changed(v) \/ Changed(settled)
           THEN asked' = Query(settled) /\ grid' = Cleared /\ LoadPage(settled, 1)
           ELSE UNCHANGED <<asked, grid, load, failed>>

\* useURLState on mount, and on popstate.
Mount ==
    /\ ~open /\ open' = TRUE
    /\ Show(ReadURL(url), url)
    /\ UNCHANGED <<ready, edits, underWay, gpx, imports, steps>>

Popstate(u) ==
    /\ open /\ steps < MaxSteps /\ steps' = steps + 1
    /\ Show(ReadURL(u), u)
    /\ UNCHANGED <<open, ready, edits, underWay, gpx, imports>>

\* useInitialCatalogLoad, once the backend is there.
FirstLoad ==
    /\ open /\ ~ready /\ ready' = TRUE
    /\ LoadPage(view, 1)
    /\ UNCHANGED <<view, url, open, asked, grid, edits, underWay, gpx, imports, steps>>

Answered(pages) ==
    /\ load # NoLoad
    /\ grid' = [query |-> load.query, page |-> load.page, pages |-> pages, late |-> load.late]
    /\ load' = NoLoad
    /\ UNCHANGED <<screen, failed, edits, underWay, gpx, imports, steps>>

LoadFails ==
    /\ load # NoLoad
    /\ load' = NoLoad /\ failed' = TRUE
    /\ UNCHANGED <<screen, grid, edits, underWay, gpx, imports, steps>>

-----------------------------------------------------------------------------
\* A step of the user that changes the view; the address follows.
User == open /\ steps < MaxSteps /\ steps' = steps + 1
ChangeView(v) == User /\ Show(v, BuildURL(v)) /\ UNCHANGED <<open, ready, underWay, gpx, imports>>

\* Filters of the bar: not while the panel is there.
SetGPS(g) ==
    /\ Screen(view) # "panel" /\ g # view.gps
    /\ ChangeView([view EXCEPT !.gps = g]) /\ UNCHANGED edits

SetDates(start, end) ==
    /\ Screen(view) # "panel"
    /\ ChangeView([view EXCEPT !.start = start, !.end = end]) /\ UNCHANGED edits

SetTag(t) ==
    /\ Screen(view) \notin {"panel", "albums"}
    /\ ChangeView([view EXCEPT !.tag = t]) /\ UNCHANGED edits

\* The settings are always there.
SetHidden(h) ==
    /\ h # view.hidden
    /\ ChangeView([view EXCEPT !.hidden = h]) /\ UNCHANGED edits

SetLayout(size, columns) ==
    /\ size = view.size \/ columns = view.columns
    /\ <<size, columns>> # <<view.size, view.columns>>
    /\ ChangeView([view EXCEPT !.size = size, !.columns = columns]) /\ UNCHANGED edits

\* FilterBar: the limit moves along the options, from the one it stands on.
LimitOptions ==
    LET total == Min({MarkerCount, MaxLimit})
    IN  IF total < MinLimit THEN {}
        ELSE {o \in MinLimit .. total : o = total \/ (o - MinLimit) % Increment = 0}

ActiveLimit ==
    IF \E o \in LimitOptions : o <= view.limit THEN Max({o \in LimitOptions : o <= view.limit})
                                               ELSE Min(LimitOptions)

LimitDown ==
    /\ LimitOptions # {} /\ \E o \in LimitOptions : o < ActiveLimit
    /\ ChangeView([view EXCEPT !.limit = Clamp(Max({o \in LimitOptions : o < ActiveLimit}))])
    /\ UNCHANGED edits

LimitUp ==
    /\ LimitOptions # {} /\ \E o \in LimitOptions : o > ActiveLimit
    /\ ChangeView([view EXCEPT !.limit = Clamp(Min({o \in LimitOptions : o > ActiveLimit}))])
    /\ UNCHANGED edits

(***************************************************************************)
(* PhotoListContainer.  An open album or folder is left through            *)
(* useDiscardPendingLocations, which asks when there are edits and drops   *)
(* them; a refusal changes nothing.  Without one the mode just changes.    *)
(***************************************************************************)
DropEdits == edits' = {}

ToggleViewMode(m) ==
    /\ Screen(view) # "panel" /\ m # view.mode
    /\ IF view.album # None \/ view.folder # None
       THEN ChangeView([view EXCEPT !.mode = m, !.album = None, !.folder = None]) /\ DropEdits
       ELSE ChangeView([view EXCEPT !.mode = m, !.tag = IF m = "album" THEN None ELSE @])
            /\ UNCHANGED edits

BackToAlbums ==
    /\ Screen(view) = "grid" /\ view.mode # "folders" /\ view.album # None
    /\ ChangeView([view EXCEPT !.album = None]) /\ DropEdits

BackToFolders ==
    /\ Screen(view) = "grid" /\ view.mode = "folders"
    /\ ChangeView([view EXCEPT !.folder = None]) /\ DropEdits

SelectAlbum(a) ==
    /\ Screen(view) = "albums"
    /\ ChangeView([view EXCEPT !.album = a]) /\ UNCHANGED edits

SelectFolder(f) ==
    /\ Screen(view) = "tree"
    /\ ChangeView([view EXCEPT !.folder = f]) /\ UNCHANGED edits

\* PaginationFooter: all the pages when there are few, else the neighbours and the ends.
Reachable ==
    LET near == {p \in 1 .. grid.pages : grid.pages <= AllPages \/ p \in grid.page - 1 .. grid.page + 1}
    IN  near \union (IF grid.page > 1 THEN {1, grid.page - 1} ELSE {})
             \union (IF grid.page < grid.pages THEN {grid.page + 1, grid.pages} ELSE {})

TurnPage(p) ==
    /\ User /\ Screen(view) = "grid" /\ load = NoLoad /\ grid.pages > 0 /\ p \in Reachable
    /\ LoadPage(view, p) /\ DropEdits
    /\ UNCHANGED <<screen, grid, underWay, gpx, imports>>

-----------------------------------------------------------------------------
\* Mutant of EditsBecome: the panel stays.
EditsBecomeOnly(e) == edits' = e /\ UNCHANGED gpx

(***************************************************************************)
(* The import panel.  An import fills in the places of the photos it       *)
(* matched; once none of them is left GPXImportPanel resets the import and *)
(* clears the selection, with every other edit.                            *)
(***************************************************************************)
EditsBecome(e) ==
    IF Screen(view) = "panel" /\ "gpx" \in edits /\ "gpx" \notin e
    THEN edits' = {} /\ gpx' = NoImport
    ELSE edits' = e /\ UNCHANGED gpx

\* MapMarkerContextMenu, "Go to folder": asks like the others; its photo has to be there
\* whatever the filter was.
GoToFolder(f) ==
    LET v == [view EXCEPT !.gps = "all", !.mode = "folders", !.album = None, !.folder = f]
    IN  /\ User /\ Show(v, BuildURL(v)) /\ EditsBecome({})
        /\ UNCHANGED <<open, ready, underWay, imports>>

Place ==
    /\ User /\ Screen(view) = "grid" /\ grid.pages > 0
    /\ EditsBecome(edits \union {"placed"})
    /\ UNCHANGED <<screen, shownPage, underWay, imports>>

\* Undone, or the location of an imported photo is to be removed.
Unplace(e) ==
    /\ User /\ e \subseteq edits \union {"placed"} /\ edits # {} /\ e # edits
    /\ EditsBecome(e)
    /\ UNCHANGED <<screen, shownPage, underWay, imports>>

(***************************************************************************)
(* save of useLocationAssignment, with the onBatchSavedAction of the render*)
(* it began in: its loadPageAction has the filters of then, the page is    *)
(* that of now.  When photos failed nothing is loaded and their edits stay;*)
(* else every edit goes once the page has come, or will not.               *)
(***************************************************************************)
SaveBegins ==
    /\ open /\ edits # {} /\ save = NoSave
    /\ save' = [at |-> "store", query |-> Query(view)]
    /\ UNCHANGED <<screen, shownPage, edits, held, gpx, imports, steps>>

SaveFails(e) ==
    /\ save.at = "store" /\ e \subseteq edits
    /\ save' = NoSave
    /\ EditsBecome(e)
    /\ UNCHANGED <<screen, shownPage, held, imports, steps>>

SaveReloads ==
    /\ save.at = "store"
    /\ save' = [save EXCEPT !.at = "reload"]
    /\ LoadHeld("save", save.query, grid.page)
    /\ UNCHANGED <<screen, grid, edits, held, gpx, imports, steps>>

SaveEnds ==
    /\ save.at = "reload" /\ load.by # "save"
    /\ save' = NoSave
    /\ EditsBecome({})
    /\ UNCHANGED <<screen, shownPage, held, imports, steps>>

-----------------------------------------------------------------------------
(***************************************************************************)
(* The other callbacks that load the page again: of a photo's menu, when   *)
(* photos were hidden (PhotoCardMenu, with the page of then; a group loses *)
(* its selection), and of the dialog of the libraries (LibrarySettings-    *)
(* Dialog, with the page of now).                                          *)
(***************************************************************************)
HidePhotos ==
    /\ User /\ held = NoCallback /\ Screen(view) = "grid" /\ grid.pages > 0
    /\ held' = [query |-> Query(view), page |-> grid.page]
    /\ UNCHANGED <<screen, shownPage, edits, save, gpx, imports>>

ChangeLibraries ==
    /\ User /\ held = NoCallback
    /\ held' = [query |-> Query(view), page |-> 0]
    /\ UNCHANGED <<screen, shownPage, edits, save, gpx, imports>>

CallbackFails ==
    /\ held # NoCallback
    /\ held' = NoCallback
    /\ UNCHANGED <<screen, shownPage, edits, save, gpx, imports, steps>>

CallbackLoads ==
    /\ held # NoCallback
    /\ held' = NoCallback
    /\ LoadHeld("callback", held.query, IF held.page = 0 THEN grid.page ELSE held.page)
    /\ \/ UNCHANGED <<edits, gpx>>
       \/ held.page # 0 /\ EditsBecome({})
    /\ UNCHANGED <<screen, grid, save, imports, steps>>

\* reloadData of useResync, at the end of a run: refreshDataRef has the filters of now.
Resynced ==
    /\ open /\ ready
    /\ LoadPage(view, grid.page)
    /\ UNCHANGED <<screen, grid, edits, underWay, gpx, imports, steps>>

\* UserMenu, when an API key was saved: clearCatalog, clearSelection.  Loading is left to
\* the run that is asked for, which may be refused.
ClearCatalog ==
    /\ User
    /\ grid' = [Cleared EXCEPT !.late = TRUE]
    /\ load' = NoLoad /\ failed' = FALSE
    /\ EditsBecome({})
    /\ UNCHANGED <<screen, underWay, imports>>

-----------------------------------------------------------------------------

\* uploadAndPreview: of the dialog, and of files dropped on the map, which are taken while
\* the panel is there too.
Upload ==
    /\ User /\ imports.upload < MaxImports
    /\ gpx' = [gpx EXCEPT !.step = "upload", !.loading = TRUE, !.failed = FALSE]
    /\ imports' = [imports EXCEPT !.upload = @ + 1]
    /\ UNCHANGED <<screen, shownPage, edits, underWay>>

\* DawarichTab.handlePreview
AskDawarich ==
    /\ User /\ Screen(view) # "panel" /\ imports.dawarich < MaxImports
    /\ imports' = [imports EXCEPT !.dawarich = @ + 1]
    /\ UNCHANGED <<screen, shownPage, edits, underWay, gpx>>

\* Every preview comes into the panel, whatever is there by then; some of an upload's
\* files may have failed.
Imported(from, matched) ==
    /\ imports[from] > 0
    /\ imports' = [imports EXCEPT ![from] = @ - 1]
    /\ \E some \in BOOLEAN :
          /\ from = "dawarich" => ~some
          /\ gpx' = [step |-> "preview", loading |-> FALSE, failed |-> some,
                     previews |-> IF matched THEN "matched" ELSE "unmatched"]
    /\ edits' = IF matched THEN edits \union {"gpx"} ELSE edits
    /\ UNCHANGED <<screen, shownPage, underWay, steps>>

ImportFails(from) ==
    /\ imports[from] > 0
    /\ imports' = [imports EXCEPT ![from] = @ - 1]
    /\ gpx' = IF from = "upload" THEN [gpx EXCEPT !.loading = FALSE, !.failed = TRUE] ELSE gpx
    /\ UNCHANGED <<screen, shownPage, edits, underWay, steps>>

\* handleGPXCancel
CancelImport ==
    /\ User /\ Screen(view) = "panel"
    /\ gpx' = NoImport /\ edits' = {}
    /\ UNCHANGED <<screen, shownPage, underWay, imports>>

-----------------------------------------------------------------------------
Next ==
    \/ Mount \/ FirstLoad \/ LoadFails
    \/ \E u \in Backs : Popstate(u)
    \/ \E n \in 0 .. MaxPages : Answered(n)
    \/ \E g \in GPS : SetGPS(g)
    \/ \E s, e \in Dates \union {None} : SetDates(s, e)
    \/ \E t \in Tags \union {None} : SetTag(t)
    \/ \E h \in Hidden : SetHidden(h)
    \/ \E s \in Offered(Sizes), c \in Offered(Columns) : SetLayout(s, c)
    \/ LimitDown \/ LimitUp
    \/ \E m \in Modes : ToggleViewMode(m)
    \/ BackToAlbums \/ BackToFolders
    \/ \E a \in Albums : SelectAlbum(a)
    \/ \E f \in Folders : SelectFolder(f) \/ GoToFolder(f)
    \/ \E p \in 1 .. MaxPages : TurnPage(p)
    \/ Place \/ \E e \in SUBSET {"placed", "gpx"} : Unplace(e) \/ SaveFails(e)
    \/ SaveBegins \/ SaveReloads \/ SaveEnds
    \/ HidePhotos \/ ChangeLibraries \/ CallbackFails \/ CallbackLoads
    \/ Resynced \/ ClearCatalog
    \/ Upload \/ AskDawarich \/ CancelImport
    \/ \E from \in {"upload", "dawarich"} :
          \/ ImportFails(from)
          \/ \E matched \in BOOLEAN : Imported(from, matched)

Spec == Init /\ [][Next]_vars

-----------------------------------------------------------------------------
\* Opening the address that is shown (a reload, a bookmark) brings back the view, but
\* for a folder whose path an address cannot hold (useURLState, useViewDomain).
ReloadShowsTheSameView ==
    open => Settle(ReadURL(url)) = Sanitized(view)

(***************************************************************************)
(* The photos on screen were asked for with the filters and the place on   *)
(* screen, and a grid is empty only while its page is loading or when      *)
(* loading it failed (useAssets, useCatalogDomain, useInitialCatalogLoad), *)
(* but for what the code does not repair: a page asked for by the callback *)
(* of a save, a menu or a dialog whose filters were changed meanwhile      *)
(* (useSelectionCallbacks.ts:49), and a catalog that was cleared           *)
(* (UserMenu.tsx:139), both until the next page is loaded.                 *)
(***************************************************************************)
GridShowsTheView ==
    /\ grid.query \in {NoQuery, Query(view)} \/ grid.late
    /\ (ready /\ load = NoLoad /\ ~failed) => grid.query = Query(view) \/ grid.late

\* While the panel shows the photos of an import, their places are pending: it goes away
\* when the last is saved or dropped (GPXImportPanel, useGPXImport).
PanelHasItsPhotos ==
    (Screen(view) = "panel" /\ gpx.previews = "matched") => "gpx" \in edits
==============================================================================
