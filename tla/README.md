# Immich Places in TLA+

Immich Places shows the photos of an Immich server on a map and lets a user
give a location to those that have none. A Go backend (`src/backend`) keeps a
local SQLite copy of each user's library and synchronises it with Immich in
the background; a Next.js frontend (`src/src`) works on that copy. This
directory holds TLA+ models of the parts where order, failure and concurrency
matter, the TLC runs that check them on small instances, and TLAPS proofs for
every size of the instances.

## 1. Inventory

| Component | State it keeps | Operations | Talks to |
|---|---|---|---|
| Sync lock (`syncService.go`) | `userSyncing`, `userCancels` in memory, per user; `wg`, `shutdownCtx` | acquire, release, start, cancel, pause, the two triggers | every component that writes a user's library |
| Settings (`handlersAuth.go`) | `users.immichAPIKey` | store a new key: pause the sync, store, wipe the library, resync libraries, release, trigger | sync lock, database |
| Background loops (`syncService.go`, `main.go`) | snapshot of users and keys | startup sync, periodic sync of all users, shutdown | sync lock |
| Asset sync (`syncService.go`, `database.go`) | `assets`, `syncState.lastSyncAt` | full and incremental sync page by page, clean-up, stacks | Immich search, location saves |
| Location saves, hidden flags (`handlers.go`) | `assets` | resolve the stack, change Immich, change the rows; hide | asset sync (no lock is shared) |
| Album and tag sync (`syncService.go`, `syncTags.go`) | `albums`, `albumAssets`, `tags`, `assetTags` | list, upsert, fetch, replace, stamp, delete | Immich, sync error |
| Libraries (`syncService.go`, `databaseLibraries.go`, `handlersLibraries.go`) | `libraries` (one table for all users), `hasLibraryAccess`, `libraryIDBackfillDone` | sync, refresh, hide | Immich, every user's sync |
| Frequent locations (`syncService.go`, `database.go`) | `frequentLocations`, `freqLocGeneration` | recompute, label in the background | geocoder |
| Dawarich import (`dawarichSyncService.go`, `handlersDawarich.go`) | `userSyncing`, `userCancels`, `userProgress`, `dawarichTracks`, `dawarichTrackPoints`, the Dawarich key | connect, disconnect, trigger, import track by track | Dawarich, the wipe of the settings change |
| Accounts (`handlersAuth.go`, `databaseAuth.go`, `AuthContext.tsx`) | `users`, `sessions`, the rows of the single user the program once had; the cookie, the user on screen, searches and libraries kept by the browser | register, log in and out, expire, claim legacy data; load, refresh | every component that has a user |
| Queries and folders (`database*.go`, `handlers*.go`) | none | lists, counts, days, markers, folders, the page of a photo | database |
| Suggestions, GPX matching | none | pure computations over stored photos and points | database |
| Geocoding (`geocoder.go` and its clients) | caches | reverse and forward search, one service after the other | external |
| Selection and location assignment (`features/selection`) | selection, pending and saved locations, undo and redo stacks | select, set, undo, redo, batch, save with a retry | backend |
| Fetching hooks (`features/*/use*.ts`, `shared/hooks`) | request numbers, abort controllers, timers | load the newest, discard the rest; trigger a run and poll it | backend |
| Views and filters (`filterBar`, `shared/context`) | filters, view mode, album, folder, tag, page, address | set, go back, open an address | fetching hooks, selection |
| Map (`features/map`) | markers, focus, a group being moved, the camera, the bounds | sync with the application, click, drag, move a group, fly, fit | selection, fetching hooks |
| Wire contract (`types.go`, `backendApi.guards.ts`) | none | encode, check | both programs |
| Dialogs, lightbox, styling | presentation | – | – |

How they interact. The syncs of a user's assets, albums and tags and the wipe of
all of it go through the per-user lock. Without it write: the handlers that save locations and hide
assets; `PATCH /libraries/{id}`, which recomputes the frequent locations
(`handlersLibraries.go:97`); and the goroutine that every recomputation leaves behind to ask for labels,
which writes them after its run has released the lock (`syncService.go:425`). `PUT /auth/settings` is the only
request that holds the lock itself; it then calls `syncLibraries` in the
request and hands over to a new run. The Dawarich service has a lock of its own; its tables and the
favourite places are wiped with the rest and are written under other rules. The frontend sees
the backend through polling.

What is hard, and what makes each component correct:

* **Sync lock.** Two requests, a run and two background goroutines interleave
  at every unlock; deadlines end waits at any moment; functions are registered
  and deleted by user, not by run. One party holds the lock; a run can be
  cancelled as long as it works; no sync writes between the wipe and the
  release, and of the frequent locations only what was in hand at the wipe comes back; every
  request is answered; a shutdown ends.
* **Asset sync.** Pages are fetched one after the other from a library that
  changes, and are stored beside handlers that write the same rows. A row is
  deleted only if its asset is gone; a change is missed only if it falls into
  the fetch; a sync leaves the hidden flag alone.
* **Albums and tags.** Any call may fail, any run may be lost, an album may
  change between two of its pages. What an incremental sync skips is up to
  date; a run that reports no error has synced what it listed; failures are
  repaired by later runs.
* **Dawarich.** A disconnection races the run it cancels. Nothing is left after
  it; points have their track; the request is answered.
* **Libraries.** One table is refreshed by every user's runs and by a request
  that takes no lock, from lists that may be old, under flags that are read
  and written calls apart. What a user hid stays hidden; the flags settle on
  what Immich answers; the table converges.
* **Selection.** Edits, undo and redo come in any order, also while a save
  sends its requests one by one. Undo and redo lose nothing; what counts as
  saved is stored; a second Save sends what failed and nothing else.
* **Frequent locations.** A check and the write it guards are two steps, and one
  counter serves all users. The rows that stay are those of the newest recomputation.
* **Accounts.** Registrations overlap while data is claimed table by table; a late
  answer meets the cookie of another session. One user gets all the legacy data; the
  screen is of the cookie's user and shows nothing of the one before.
* **Fetching and polling.** An answer arrives after its question has changed; a timer
  outlives its tab. A quiet screen is current; a hook loads only as long as a request is open;
  polling ends.
* **Views.** Eleven settings, an address that leaves some out, and a grid that
  compares eight of them, beside callbacks that load it with the filters they were made with. A
  reload shows the same view; the grid shows the view; the
  import panel is there exactly as long as its photos.
* **Map.** Leaflet's objects are a second copy of the state, changed by handlers and
  effects. Markers follow the application; a group that stays together leaves nothing faded; the
  pin survives flights; the last bounds are reported.
* **Pure parts.** Queries written one by one agree; matches and suggestions are where
  they may be; either program understands the other.

`PROJECT.json` lists each hazard at its line, with the properties that watch it.

## 2. Plan

| Order | Module | Status |
|---|---|---|
| 1 | `LibraryGuard`: what the lock promises; `SyncLock`: the lock, its users, shutdown, crash | done, proved |
| 2 | `AssetSync`: assets, stacks, watermark, saves | done, proved |
| 3 | `CollectionSync`: albums and tags | done, proved |
| 4 | `DawarichSync`: the Dawarich import | done, proved |
| 5 | `LibraryAccess`: the libraries of all users, `hasLibraryAccess`, backfill | done, proved |
| 6 | `SelectionFlow`: history, pending locations, save and retry | done, proved |
| 7 | `FrequentLocations`: recompute and label, two users, one generation | done, proved |
| 8 | `Accounts`: registration, sessions, the browser | done, proved |
| 9 | `LatestRequest`, `SyncPolling`: the hooks that load, the hooks that poll | done, proved |
| 10 | `ViewState`, `MapOverlay`, `MapCamera`: what is on the screen | done, proved |
| 11 | `AssetQueries`, `Suggestions`, `TrackMatching`, `SearchHistory`, `Geocoding`, `WireContract`, asked by `Answers` | done, proved |
| 12 | `Ranking`: what sorting gives, for the lists, the suggestions and the history | done, proved |

`MCAssetSync`, `MCLatestRequest` and `MCViewState` each put two or three modules
into one instance, with a variable `part` that says which of them a behaviour runs. They
share no variable and never interact there, so that the states are the sum of theirs,
not the product: it is a way to check them in one run. They extend these modules, and so do
their proofs: what is run and what is proved is the same definition. Therefore the initial states,
steps and specifications of all but one of the modules have a prefix (`FrequentSpec`, `AccountsSpec`,
`PollingSpec`, `OverlaySpec`, `CameraSpec`), and so have those of `Answers`, whose proofs share a module with
those of `LatestRequest` and `SyncPolling`.

The modules are written to be proved about: parameters are CONSTANTS with
named assumptions, there is one action per call or handler step, and no module
declares a RECURSIVE operator. `SyncLock` establishes that a user has one run
at a time; `AssetSync`, `CollectionSync` and (through its own map)
`DawarichSync` each have one run, which is what that theorem allows.

## 3. Modules

**LibraryGuard** is the abstract specification: a holder, or nobody, and the set
of accounts whose rows are in the library. Only the holder adds rows or wipes. Of the frequent locations it
promises less: whoever has computed them may write what it has in hand, at any time.

**SyncLock** has `syncing` (`userSyncing[user]`), `cancelFn` (`userCancels[user]`,
named by the run it belongs to), a run per process with the key it was given,
`cancelled` contexts, the `pc` of each request slot and of the startup and
periodic goroutines, `down` (`shutdownCtx` is done), the stored key, and the
library as the set of accounts its rows came from. Each mutex-protected section
is one action; each wait is an action for its outcome and one for its deadline.
`frequent` is the table of frequent locations, as the set of accounts its rows came from, and `pass` the
recomputations, from the query to the last write: of a run, of the handler that needs no lock, and of the goroutine that
asks for labels. `late` remembers what they had in hand at a wipe.
A process ends by `Exit` after a shutdown or by `Crash` at any point, and
`Reboot` starts from what is stored.

**AssetSync** has Immich and the local table as functions from assets to
locations and rows, one stack, the run with the page in hand, and the editor (a
location save between its three steps). Timestamps are reduced to the set of
`dirty` assets: those whose `updatedAt` is not older than `lastSyncAt`. The search is
paged by position, so that an asset that is removed shifts the others.

**CollectionSync** has a version per collection for `updatedAt`, the row's `stamp`,
the version its stored assets belong to, and the work on each listed
collection. Fetching has a begin and an end, and assets whose pages belong to two
versions are `Torn`. `fetchAndReplaceAlbumAssets` fetches concurrently and stores
one at a time after all are fetched; so do the actions.

**DawarichSync** has the version of each track in Dawarich, in `dawarichTracks`, and
the version its points were fetched at. The run goes through list, upsert, read,
the loop over the tracks that are left, clean-up and stamp; each call fails if it
may or if the context is cancelled. `userSyncing`, `userCancels` and `userProgress` are
set and cleared together, so the run stands for them. Where a point's track is
gone both outcomes are possible: `database.go` sets `PRAGMA foreign_keys` on one
connection of the pool.

**LibraryAccess** has the table `libraries` as a function to "none", "shown" or
"hidden", the flag, the backfill mark and the tagged libraries per user, and a
pass per user for the run (or settings change) and, for some users, for
`POST /libraries/refresh`. `syncLibraries` is followed call by call: read the
flag, look for another user with access, fetch, write the flag, upsert row by
row, delete. The asset part of a run is one step here, and the update of the
visibility is one with its check; a user's key stands for one Immich account.
`wish` remembers what users hid. `DeleteStale` names one exception: a list that
was fetched before Immich had a library drops its row, flag and all.

**SelectionFlow** has the hook state of `useSelectionState` and `useLocationHistory`
(`selected`, `marker` for `pendingLocation`, `pending`, `saved`, the two stacks) and
`save`, the closure of `useLocationAssignment.save` with the photos not yet sent,
failed once, saved and failed. Every place of the frontend that calls
`setLocation` is an action: `Choose`, `DragPin`, `MoveMarker`, `MoveGroup`, `GoTo`,
`ImportGPX`, `ResetPosition`, `RemoveLocation`; each pushes what the code pushes, which for a
group is one entry per photo. A save interleaves with all of them, except where the panel
disables its buttons (`Panel`, `CanUndo`).

**FrequentLocations** has the clusters of each user's photos, the rows with the kind of
their label, the recomputation each caller is in (a run, which holds the lock; a change
of visibility, which does not), the shared `gen` and the goroutines that ask for labels
one cluster at a time. The comparison of the generation and the write after it are two
steps. `disturbed` names the users whose newest rows a wipe, a failed write, a shutdown or an
overlap in the same moment may have undone: `NewestRowsLast` excuses those only.

**Accounts** follows a request from the browser through the steps of its handler
and back: what the cookie was when it was sent, what the tables are when it is served,
what the page does when the answer arrives. `claimLegacyData` is one transaction after
the row of the user was written in another. `crossed` and `unsure` are history: a change
of session that overlapped another request of the browser, and a session that could not be
loaded; the two properties of the screen excuse these, and say which.

**LatestRequest** has one mounted hook of eleven; `Traits` says what each does (guards by
number or by signal, loads once, is reloaded, is cleared, sends its requests without a timer, ...), read from its code. A request is
answered (its headers are there, and from then on nothing bounds it), then applied, or dropped by an abort before the answer, or by its guard after it.
**SyncPolling** has `executeSync` of `useResync` with its limit of polls, and the timers of
`useDawarich`, each with the chain of polls it belongs to: `pollingRef` knows the last one armed only.

**ViewState** has the view, the address, what `useAssets` compared last, the grid, the request
under way, the pending edits by origin, the import panel and its uploads. A handler and the
effects of its render are one step, as in React; what a handler does after an `await` is another: a save and the
callbacks of menus and dialogs remember the filters of the render they were made in, and load with those. Clearing the catalog empties
the grid without loading. **MapOverlay** has the application's
side (markers answered, pending and saved locations, selection) and Leaflet's (marks with their
place and look, focus, a group that is moved); each step ends with the effects that
reconcile them. A mark has the colour it remembers (`markerGreyscale`) and the one its icon was drawn in, which differ
after handlers have set the icon. A move remembers the icons of its beginning and what it faded last; `RestoreFade` is what every
zoom, pan and click does to the icons of its group. Of Leaflet's clusters it has which photo shows an icon of its own, and
when icons are made anew (`Settled`). **MapCamera** has the flight and its announcement, the pin, the bounds that were
reported and the timer of those that are to be.

**AssetQueries** (filters, lists, counts, days, folders, markers, the page of a photo),
**Suggestions**, **TrackMatching**, **SearchHistory**, **Geocoding** and **WireContract** are operators.
Points of a track have any offset, and photos a clock with an offset of their own or none, because the look-up compares
clocks and the matching times. `WireContract` has all calls that say more than a path, logins and searches included.
Where Go's maps or an unstable sort leave the order open, the operator is the set of
possible answers: of points of a track with the same time, `sort.Slice` may leave either first. **Ranking** is
a total sort: in place k is the element with k - 1 others before it. **Answers** asks each with every bounded input, page by page or save by
save where the code works in steps, and compares the answers with each other.

Mutants are definitions whose comment begins with "Mutant": each changes the
definition after it as a plausible bug would. No specification uses them.

## 4. Runs

| Run | Instance | Result |
|---|---|---|
| `sync_lock` | startup and periodic goroutine, one account; store, wipe and library sync may fail; *requests*: two requests; *recomputations*: one request and one recomputation at a time | passes: lock invariants, refinement of `LibraryGuard`, two liveness properties |
| `asset_sync` | *assets*: two assets, page size 1, two locations, two changes, seven failing calls; *frequent*: two users, one manages libraries, one cluster, three recomputations, one change; *accounts*: two browsers, two addresses, three requests | passes |
| `asset_sync_lost_change` | the first of these, nothing fails | **violated** `WatermarkSound` |
| `collection_sync` | two collections, three changes, one failure | passes: safety, convergence |
| `dawarich_sync` | two tracks, one request and the ticker, one change, nine failing calls | passes |
| `dawarich_points` | one track, nothing fails, nothing changes | **violated** `PointsArrive` |
| `library_access` | two users, one library, one user who refreshes, two edits (a crash counts as one), one failure | passes: safety, settling flags, convergence |
| `selection_flow` | two photos, two places, stacks of two, four user events, two failures; photos and places are interchangeable | passes |
| `selection_go_to` | the same, three user events, nothing fails | **violated** `GoToSavesNothing` |
| `client_requests` | *requests*: each of the eleven hooks, two inputs, three loads; *polling*: both hooks, two polls, five acts | passes: a quiet screen is current, reloads follow the run; loading waits for something; polling ends |
| `screen` | *view*: four addresses to open, one to go back to, two folders, two pages, three user steps, an upload and a preview; *markers*: three photos, two of them at one place and one without, two places, three edits, three acts; *camera*: two places, four acts | passes |
| `answers` | databases of three photos out of eight kinds of row, 40 filters, pages of one; three photos to suggest from; tracks of up to three points, some at the same time, some written with an offset beyond the padding, photos with an offset or without; histories of two; every call and every shape | passes |

Why the bounds are enough. Two requests and two loops are all the roles a user's
lock has at a time: one that holds, one that waits, one that starts; a third
request adds no new pair. Two assets with one to a page give a page border and an
asset on each side of it, and two changes one before and one during a fetch. Two
collections give one that fails beside one that does not, and three changes one
before the listing, one between two pages and one after. Two tracks give a list
that is not empty after one has gone. Two users are one with the flag and one without,
and one that hides and one that refreshes; every library is treated alike, so that one is
enough, and two edits give a change of role beside a cleared key or a crash. Two photos
at two places are two groups of a save, one of which may fail twice; four events select, place, save
and then interfere, or fill a stack of two and walk back and forth. The symmetry of
`selection_flow` is sound: it states no liveness property and no definition names a
photo or a place. Two inputs and three loads give an input that changes and changes
back while the first request is still under way. Three photos, two of them at one place, are a group and
a photo beside it; one without a location is one to be placed. Two users and three
generations are a recomputation of each and a newer one of either. Rows of eight kinds,
three at a time, have every pair of rows that a filter tells apart, and two pages of one
border. Counters are bounded in the guards by `MaxEdits`, `MaxFailures`, `MaxGen`,
`MaxChanges`, `MaxSends`, `MaxLoads`, `MaxPolls`, `MaxActs`, `MaxFlights`, `MaxSteps`, `MaxImports` and `MaxTime`;
the others count by themselves.

The three violations are three findings, each described in `PROJECT.json` with the
line that contradicts it:

1. `lastSyncAt` is the time after the fetch, so a change made in Immich during the fetch is
   never fetched by an incremental sync. `Arrives` shows that nothing else is lost.
2. `doUserSync` stores the Dawarich tracks before it reads the ones it compares them
   with: no track ever looks changed, and no points are fetched.
3. "Go to location" goes through `setLocation` without targets, so the selected photos get
   the place that was looked at as a pending location, and the next Save writes it.

### Known disagreements

Found while reading and modelling, not stated as runs:

* `syncAllUsers` works with a snapshot of keys (`syncService.go:653`): after a settings change it can
  fill the wiped library from the previous account, when it takes the lock between its release
  and the new trigger (`handlersAuth.go:328`), whose refusal is ignored.
* `upsertAssets` clears the stack of each asset (`database.go:421`) until `syncStacks` has run: a
  location saved in between reaches one member of the stack, against `handlers_test.go:692`.
* Clearing the Immich key resets `hasLibraryAccess` but stops no run (`handlersAuth.go:333`): a list
  that is in hand sets it again. The handler resets the flag only for an empty key; for
  `null`, which the frontend sends, it stays. `AccessSettles` and `Converges` say "keyed" for this.
* `useDiscardPendingLocations.ts:12` says when pending edits are dropped; a change of the view mode
  or of the album (`PhotoListContainer.tsx:97`) keeps them, a page turn drops them unasked.
* A request to start a sync is answered 200 even when it was refused; the stored sync version moves on
  although the run failed or the limit of polls was reached.
* The page of a clicked marker (`getAssetPageInfo`), album counts and markers ignore the hidden filter,
  and the first of these the dates and the folder too: `ListsAgree` says for which filters the page is right.
* The clusters of an album are cached by its `updatedAt` (`suggestionService.go:104`), which a save of a
  location does not change.
* The GPX preview takes a gap of 0, the Dawarich preview reads 0 as the default. A photo that is exactly
  at a point after a pause longer than the gap is not matched (`gpxService.go:163`).
* After a click on a marker with photos selected that marker is focused
  (`overviewLayerHandlers.ts:185`), and the next click on the map edits its photo instead of the selection.
* A recomputation of the frequent locations goes on without the lock (`syncService.go:425`, `handlersLibraries.go:97`): after a
  settings change it may write places of the previous account, which stay until the next one. The generation is compared one step before the write
  (`syncService.go:452`): `NewestRowsLast` excuses the users that meet this as `disturbed`, and says nothing of labels that are lost.
* `backendFetch` clears its timer when the headers are there (`backendApi.fetch.ts:80`), and a search for a place has none
  (`nominatim.ts:79`): a hook may load for as long as the body, or the search, keeps it waiting. `LoadingEnds` excuses exactly these.
* A save, the menu of a photo and the dialog of libraries load the page with the filters they began with
  (`useSelectionCallbacks.ts:49`, `PhotoCardMenu.tsx:155`): when the filters were changed meanwhile, the grid has the photos of the old ones until its next load.
  A cleared catalog stays empty when the run that is then asked for is refused (`UserMenu.tsx:139`). `GridShowsTheView` excuses both as `late`.
* The end of a move sets back the icons of its beginning, colour and all (`groupMoveHelpers.ts:73`), and a click or a lost focus draws one in the
  colour it knows (`overviewLayerHandlers.ts:133`): the marker may be in colour and its photo an applied one, or the other way round, until an effect draws it.
  `MarkersFollowTheApplication` asks for the right colour of icons that an effect drew, and of what a marker remembers always.
* When a group comes apart during its move (some of it is edited, filtered away or answered elsewhere), its icons are faded one by one
  (`groupMoveHelpers.ts:187`) and only the last is shown again at the end: a marker stays faded until the next render, a cluster until it is opened, dissolved or drawn
  anew. `FadedOnlyInAMove` excuses this as `apart`.
* The look-up of a GPX preview compares clocks (`handlersGPX.go:70`), and a file may be written with any offset: a photo whose clock is more than
  15 hours off that of the track is not found, as one taken in +09:00 beside a track stamped -08:00.
* A late answer to who am I puts the user of a session that is over on the screen (`AuthContext.tsx:105`), and a session that could not be loaded leaves what
  the browser kept (`AuthContext.tsx:135`): `crossed` and `unsure` excuse these.
* One flag tells flights from drags: a drag that interrupts a flight uses it up, and the pin of a flight
  begun during a drag is lost. The first bounds timer may overwrite newer bounds.
* "Remove location" shows the marker at 0, 0 until it is saved.
* `deleteExpiredSessions`, `deleteUserSessions`, `countUsers` and `focusMapAssetAction` have no caller;
  the row of `syncState` of the single user is claimed by nobody.

## 5. Fairness

`SyncLock` gives weak fairness to what the Go scheduler runs: the steps of a
request that is being served, of the loops and of a run, and to the end of waits, which
have deadlines. It gives none to callers, to failures, to a crash, nor to Shutdown.
`CollectionSync` gives weak fairness to the steps of a run, whose calls have
timeouts, and to the start of an incremental run, which the ticker justifies; failures
are bounded, which is the assumption "the failures come to rest" of `Converges`. `DawarichSync`
gives fairness to the steps of a request only: its answer does not depend on the run.
`LibraryAccess` gives weak fairness to the start of a run, by the ticker, for each user that has a key,
and to the steps of each pass, whose calls have timeouts; its failures and edits are bounded, which is "from some point
on, nothing changes" of `AccessSettles` and `Converges`. `LatestRequest` gives weak fairness to effects and timers
and to the end of a request that an abort rejects or the timer of `backendFetch` ends. Of the others nothing is assumed: a search for a
place is sent by `fetch` itself, and once the headers of an answer are there no timer covers its body. That is why `LoadingEnds` says that loading ends
or such a request is open, and never that it ends.
`SyncPolling` gives it to timers and requests, and not to the run of the backend: polling ends by its
own limit. Here the timer covers an answer up to its headers, too; that a body which has begun arrives or breaks off is assumed. The other modules state no liveness property.

## 6. Proofs

`SyncLock_proofs`, for any number of requests and keys:

* `TypeCorrect`. `TypeOK` needs `KeysInHand`: whoever is about to use a key has one.
* `MutualExclusionHolds`. `MutualExclusion` says who holds the lock in terms of runs and
  program counters, and is inductive on top of the types.
* `CancelFnCorrect` and `WipeCorrect`, each inductive on top of mutual exclusion.
* `LibraryGuarded`: `Spec => Guard!Spec` with the holder chosen by `Holds`. Mutual exclusion
  makes the choice unique, and each action becomes a step of `LibraryGuard` or a stutter. What is in hand are the rows of the
  recomputations: one begins with what the library has, and each later write is of one of them.

`WipeCorrect` is about the time from the wipe to the release. The library stays empty because no run is under way then; the frequent locations stay within `late`,
because a recomputation that began before the wipe has its rows there, and one that began after it found nothing.

`AssetSync_proofs`, for any finite library, page size, number of changes and choice of failing calls:

* `TypeCorrect`.
* `ArrivesHolds` and `RowsSurviveHolds`. `Arrives` speaks of the next incremental sync, and what that may skip is
  decided pages earlier. Four conjuncts carry it through a run. `Paged`: an asset that the search matches and nothing
  touched was seen, or is on a page to come; this is counting (`Rank`, `NextRank`, `RankGrows`): a library that
  only grows under a fetch moves nothing to an earlier page. `PageInHand` and `SeenCurrent`: what was seen and not touched
  since is, in hand or stored, as Immich has it. `SaveIsDirty`: what a save is about to write is still to be
  fetched, unless a stamp came in between. `RunPlaced` says which fields a phase has.
* `NewestRowsHold`, about `FrequentLocations`, for any users and clusters and any number of recomputations.
  `NewestRowsLast` speaks of users with nothing under way; the invariant says what leads
  there: the only recomputation of a user has the newest clusters (`InHand`), and without one the
  rows have them, and so has each pass that was checked or still has the current generation (`AtRest`).

`CollectionSync_proofs`, for any set of collections and any bounds:

* `TypeCorrect`.
* `SkippedIsCurrentHolds`. `SkippedIsCurrent` alone is not inductive: a stored list of assets
  is stamped in a later step. The invariant `SkipInv` adds an order, stored stamp <=
  listed version <= version in hand <= version in Immich, and that a torn list is in hand only when the listed version
  is out of date already (`WorkPlaced`, `StampsOrdered`, `InHand`).
* `DeletesCorrect`, from `ListCurrent`: up to what was relisted, the run's list is Immich's.
* `NoErrorCorrect`, from `Accounted`: what is done is stamped, a failure is known to the run, and after the
  fetches nothing that was listed is left to do.

`DawarichSync_proofs`, for any tracks and requests, any number of changes and any calls that fail:

* `TypeCorrect`, with what a phase needs of the fields of the run (`Placed`).
* `PointsBelong` and `DisconnectCorrect`. Both rest on `Guarded`: a run is under way neither beside a
  deletion nor for a user without a key, or the excuse was taken. `PointsBelongToTracks` needs
  `ListStored` too (once a run has stored its list, each listed track has its row, so that the
  track in hand has), and `DisconnectClears` needs `Cleared` (without a key the tables are empty, or the
  request that is to empty them is about to).

`SelectionFlow_proofs`, for any photos, places, depth of the history and bounds. All rest on two lemmas: every
edit of places is `setLocation`, once or once per photo, for some targets (`EditSets`), and what holds of the
entries of both stacks is said by the set they are from (`Stacks`), so that one lemma on `Pushed` serves each property.

* `TypeCorrect`, with the lengths of the two stacks together at most `MaxUndo`: so an undo or a redo never
  pushes on a full stack, which would drop an entry.
* `TimelineKeptHolds`, from that bound and `UndoAndRedo`: the stacks around what is shown read the same
  before and after.
* `AppliedIsInPlaceHolds`. `AppliedInv` asks of every entry of the history what the property asks of the screen,
  as an undo brings it back.
* `SavedIsStoredHolds`. No edit reaches `server` or `save`, and the place that a request
  writes is read from `save`, which stays the same until the save ends.
* `RetrySendsWhatFailedHolds`, from `Parted` (a photo of a save is in one of its four places) and `Undisturbed`
  (for a photo that nobody interfered with the panel is as it was when Save was pressed).

`Accounts_proofs`, for any browsers and addresses and any number of requests:

* `LegacyTogether`. `LegacyDataStaysTogether` is inductive once whoever claims is known to be a user and not
  the single user itself (`CallsClaim`), which a claim reads from its request.
* `CookieIsShown` and `KeptForItsUser`. `Numbered`: a request that has made no session yet has a number that is no
  session and no cookie, so that a session never changes its user. `Orderly`, for a browser whose changes of
  session overlap nothing: what is shown, what is kept and what every answer on its way says is about one user, that
  of the cookie; it lists what may be on its way beside what.
* `HiddenTheorem`, about `LibraryAccess`, for any users, libraries and bounds: `TypeOK` and `HiddenStaysHidden`, which
  is inductive given the types: only `UpdateLibrary` shows a row again, `Upserted` keeps the flag, and `DeleteStale` spares
  what its list or any photo names.

`Answers_proofs`, about `LatestRequest`, for each of the eleven hooks, any inputs and any number of requests:

* `TypeCorrect`.
* `QuietScreens`. `Newest`: every request that was not superseded is for what was asked last, and the superseded ones are aborted.
  `OnTheWay`: what was asked last is on the screen, or has failed, or a request for it is awaited, or the hook has a
  reason of its own to wait. `AskedForIt`: what was asked last is what the screen wants. Together they say what a quiet hook shows.
* `ReloadsAfterTheRun`, about `SyncPolling`: `PollingInv` adds that a run that is awaited goes on, because what ends it
  ends the waiting in the same step.

`Answers_proofs`, about `Answers`, for any table of photos, filters, page size, photos, tracks, zones and stored history. Each
invariant is that of the questions of one kind, since a behaviour asks one; the work is in lemmas about the operators. All that is
sorted rests on `SortedList`: for a strict total order the elements have different ranks, so that there is one in each place.

* `ListsAgreeHolds`. `PagesInv`: pages read so far are those of one list, and the next one begins where the last one
  ended; then they are the list (`PagesFlatten`, with the fold of `FlattenSeq` unfolded by `FlattenIs`). The page of a
  marker: the position counts those before the photo in the list, and its quotient by the page size is
  its page (`PageOfPosition`, `FocusInv`). The counts need no state: `CountsAreTotals`.
* `PlacesAreSoundHolds`, from one invariant for each kind of question:
  * matches: `sort.Search` splits a sorted track (`IndexIs`), what is beyond the split is further away (`FarAway`), and the point
    between two others is between their longitudes (`Between`). The look-up in the database compares clocks: it loses no
    photo whose clock is at most the padding off that of the track (`Reached`, `WindowLosesNothing`).
  * suggestions: every cluster has a label and a photo of its own (`ClustersOfACell`). The average of the photos of a cell rounds to
    that cell (`AverageInCell`), so that no two clusters have one key. A place of the same day scores above all that are not
    (`ScoreOfTheDay`), and the score comes first in the order.
  * geocoders: by cases over who fails (`ReverseHelps`, `ForwardHelps`).
  * the history: what is stored may be anything, so `Held` counts: a saved place is in the list, at the number of
    different places saved since, as long as that is within the limit and the entry has not expired. A save adds one or none to each number
    (`SaveHolds`), time expires the older first (`LaterLasts`), and so the places saved last are a prefix (`RecentInFront`).
* `CallsAreUnderstoodHolds`, from `NothingIsRefused` and `NothingIsMissed`, which go through the shapes and calls one by one.

`ViewState_proofs`, for any albums, folders, tags, dates, settings, limits and addresses:

* `GridIsOfTheView`, from `GridInv`: what the filter effect compares is always the query of the view, and so is that of a
  request under way unless it is late. `Show` is the one operator that changes the view, and one lemma follows it: a changed query replaces a
  request under way, so that only a callback can bring one that is late.
* `PanelsHaveTheirPhotos`, which is inductive given the shapes of an import (`PanelInv`); `PanelStep` follows `EditsBecome`.
* `AddressTellsTheView`. `RoundTrip`: the address written for a view reads back as the view, field by field, because what
  stands for a default is none of the values. `AddressInv` adds that the view is one that may be on screen
  (no album beside a folder, a limit between the limits) and has settled; the next limit exists because the options are
  finite (`LastOfASet`), and `Clamp` keeps it (`ClampHolds`).
* `MarkersFollow` and `FadedByAMove`, about `MapOverlay`, for any photos, places and groups. Handlers touch
  markers before the application renders, so `OverlayInv` is about each piece between handler and effects: whatever the pill of
  a cluster or a move remembers of a marker is of one that is there and has a place (`Upright`), and what is faded is of
  the group of a move (`Kept`, `Rested`); the effects make any such map follow the application (`SyncedHolds`, `RenderHolds`), and a handler after which nothing is rendered has left the
  markers in place. The one that moves a marker itself is `DragMarker`: nothing is rendered after it only if the place
  was pending already.
* `BoundsAreAsked` and `PinSurvivesFlights`, about `MapCamera`, from `CameraInv`: the view is the one asked for or the
  timer's, or the map came back while a timer ran (`BoundsKept`), and a flight is announced unless a drag it crossed has used up
  the announcement (`FlightKept`); both hold of every state a handler passes through (`Steady`).

The assumptions are those of the modules: constants that stand for "none" are
not members of the sets they are added to, bounds are naturals, limits are ordered, the assets of a library and the
photos of a screen are finite sets. `ViewAssumption` says of the addresses what `applyURLToState` has made of them: a limit is
an integer, and a folder is one that an address can hold. `DbsAssumption` and `PlacesAssumption` give the
columns of the tables and the fields of photos, points and entries their types; offsets and zones are any integers.

What proving changed. Two properties excuse what a history variable records, and were not inductive because it
recorded too little, in behaviours longer than the bounds of the runs. `RetrySendsWhatFailed`: a save without pending locations
takes the pin for all selected photos; the first edit of one photo, with the pin as it was, makes a retry send that
photo alone, so `Sets` now counts it as touching every photo of the save. `NothingOfAnotherUser`: loading the page again makes a browser
whose requests had overlapped look orderly, while it still keeps what the overlap left; `unsure` now stays set. A place
of `MapOverlay` was an integer, and one integer stood for "no location": repeated moves of a group could reach
it. `NoSpot` is a constant now, and no integer.

What proving `Answers` changed in the model: it sorted with operators of the community modules that the provers know nothing of
(`SetToSortSeq`, `SortSeq`), and it gave a track one order where points have the same time; it now has `Ranking` and every order. A stored time of the history
may be negative, which `normalizeEntry` reads as 0 (`searchHistory.ts:69`).

The theorems of types (`TypeOK`) are not repeated as invariants of runs.

Only model-checked: the liveness properties, whose fairness and ENABLED are beyond the prover (`RequestsAnswered`,
`ShutdownCompletes`, `Converges`, `AccessSettles`, `LoadingEnds`, `PollingEnds`). Where a proof needs an extremum of a set
(`AssetSync_proofs`, `ViewState_proofs`, `Answers_proofs`), it is taken from the well-founded order of finite sets in the library. The sums of
`Answers_proofs` (`SumExists`) need no induction either: a sum of longitudes is the number of pairs of a photo and a unit
below it, which is a cardinality, and so is the length of a list.

## 7. Not modelled

* Cryptography, password hashing, XML and JSON parsing, Leaflet and its clusters: library code,
  modelled from its use where a property needs it.
* Configuration, migrations and routing: they run once, or hold no state.
* Frontend: favourite places (`useFavoriteState`, an optimistic list with a rollback), the lightbox, the steps of the key
  dialogs, frequent places loaded on demand, the pin that is hidden during a group move, the distribution of
  state by `useProviderValues`, layout, animation and wording. Zooming by wheel or keyboard is instantaneous in `MapCamera`.
* Suggestions have one coordinate, in tenths of a cell and rounded half up, where the code has two and rounds halves away from
  zero. Every query succeeds and every date can be read: a query that fails leaves its tabs empty, and a photo whose own date cannot be
  read has the week, but no narrower window and no neighbours (`suggestionService.go:69`).
* Geocoding: the requests themselves and their rate limit; the limit of login attempts.

Except in `LibraryAccess`, `FrequentLocations` and `Accounts` users are modelled one at a time, because the in-memory
maps are keyed by user. SQLite transactions are taken as atomic; that is the promise of the database. The time of
day appears only as the order that the code compares. In `AssetQueries` the SQL of a query is its meaning as a
set or a sequence of rows; the text of a date is its day.
