--------------------------- MODULE CollectionSync ---------------------------
(***************************************************************************)
(* The albums (or the tags) of one user's sync: syncAlbums in              *)
(* backend/syncService.go and syncTags in backend/syncTags.go, which follow *)
(* one protocol.  Immich lists the collections with an updatedAt each; the *)
(* stored updatedAt is the one whose assets were last stored, and a        *)
(* collection is fetched again when the two differ.                        *)
(*                                                                         *)
(* An updatedAt is a version: 0 is the empty string of a row whose assets  *)
(* were never stored, and Immich never gives out the same version twice.   *)
(* The assets of a collection are known by the version they belong to; a   *)
(* list of assets that was changed between two of its pages belongs to     *)
(* none.  SyncLock shows that a user has one sync run at a time.           *)
(***************************************************************************)
EXTENDS Naturals

CONSTANTS
    Collections,  \* album IDs, or tag IDs
    Absent,       \* no row
    Torn,         \* assets that belong to no version: pages of two versions
    MaxEdits,     \* bound on the changes made in Immich
    MaxFailures   \* bound on the failures of calls and on the lost runs

ASSUME AbsentAssumption == Absent \notin Nat
ASSUME TornAssumption == Torn \notin Nat

VARIABLES
    version,   \* Immich: updatedAt of each collection
    listed,    \* Immich: the collections this user's key can see
    stamp,     \* albums.updatedAt (tags.updatedAt): Absent, 0 or a version
    assets,    \* albumAssets (assetTags) of each collection
    run,       \* the sync run
    work,      \* what the run has done about each collection it listed
    error,     \* lastSyncError, as far as this part of the sync sets it
    edits,     \* changes made in Immich so far
    failures   \* failures so far

vars == <<version, listed, stamp, assets, run, work, error, edits, failures>>

\* The work on one listed collection: none yet; its assets are wanted; the first page is
\* in hand; all pages are; they are stored; it is marked synced, or was up to date; a
\* call failed; its row could not be written.
WorkStates == {"none", "todo", "paging", "fetched", "replaced", "done", "failed", "skipped"}

NoWork == [state |-> "none", before |-> 0, got |-> 0]
NoRun == [phase |-> "idle", full |-> FALSE, list |-> {}, failed |-> FALSE, relisted |-> {},
          seen |-> [c \in Collections |-> 0], stored |-> [c \in Collections |-> 0]]
NoWorks == [c \in Collections |-> NoWork]

Phases == {"idle", "list", "map", "upsert", "fetch", "delete", "report"}
Runs == [phase : Phases, full : BOOLEAN, list : SUBSET Collections, failed : BOOLEAN,
         relisted : SUBSET Collections, seen : [Collections -> Nat],
         stored : [Collections -> Nat]]
Works == [state : WorkStates, before : Nat, got : Nat \union {Torn}]

TypeOK ==
    /\ version \in [Collections -> Nat \ {0}]
    /\ listed \subseteq Collections
    /\ stamp \in [Collections -> Nat \union {Absent}]
    /\ assets \in [Collections -> Nat \union {Torn}]
    /\ run \in Runs
    /\ work \in [Collections -> Works]
    /\ error \in BOOLEAN
    /\ edits \in Nat
    /\ failures \in Nat

Stored(c) == stamp[c] # Absent

Init ==
    /\ version = [c \in Collections |-> 1]
    /\ listed = Collections
    /\ stamp = [c \in Collections |-> Absent]
    /\ assets = [c \in Collections |-> 0]
    /\ run = NoRun
    /\ work = NoWorks
    /\ error = FALSE
    /\ edits = 0
    /\ failures = 0

-----------------------------------------------------------------------------
(* Immich                                                                  *)

\* Assets are added to a collection or removed from it: updatedAt becomes new.
ImmichChanges(c) ==
    /\ edits < MaxEdits
    /\ edits' = edits + 1
    /\ version' = [version EXCEPT ![c] = @ + 1]
    /\ UNCHANGED <<listed, stamp, assets, run, work, error, failures>>

\* A collection is created, deleted, shared with the user or no longer shared.
ImmichLists(c) ==
    /\ edits < MaxEdits
    /\ edits' = edits + 1
    /\ listed' = IF c \in listed THEN listed \ {c} ELSE listed \union {c}
    /\ run' = IF run.phase = "idle" THEN run ELSE [run EXCEPT !.relisted = @ \union {c}]
    /\ UNCHANGED <<version, stamp, assets, work, error, failures>>

-----------------------------------------------------------------------------
(* The sync run                                                            *)

StartSync(full) ==
    /\ run.phase = "idle"
    /\ run' = [NoRun EXCEPT !.phase = "list", !.full = full]
    /\ UNCHANGED <<version, listed, stamp, assets, work, error, edits, failures>>

\* getAlbums (getTags).
List ==
    /\ run.phase = "list"
    /\ run' = [run EXCEPT !.phase = "map", !.list = listed,
                   !.seen = [c \in Collections |-> IF c \in listed THEN version[c] ELSE 0]]
    /\ UNCHANGED <<version, listed, stamp, assets, work, error, edits, failures>>

\* getAlbumUpdatedAtMap: "" for a collection that has no row.
ReadMap ==
    /\ run.phase = "map"
    /\ run' = [run EXCEPT !.phase = "upsert",
                   !.stored = [c \in Collections |-> IF Stored(c) THEN stamp[c] ELSE 0]]
    /\ UNCHANGED <<version, listed, stamp, assets, work, error, edits, failures>>

Failure == failures < MaxFailures /\ failures' = failures + 1

\* Mutant: a failed listing is taken for an empty one.
ListFailsButGoesOn ==
    /\ run.phase \in {"list", "map"}
    /\ Failure
    /\ run' = [run EXCEPT !.phase = "delete", !.failed = TRUE]
    /\ UNCHANGED <<version, listed, stamp, assets, work, error, edits>>

\* The listing or the map fails: syncAlbums returns the error.
ListFails ==
    /\ run.phase \in {"list", "map"}
    /\ Failure
    /\ run' = [run EXCEPT !.phase = "report", !.failed = TRUE]
    /\ UNCHANGED <<version, listed, stamp, assets, work, error, edits>>

Wanted(c) == run.full \/ run.stored[c] # run.seen[c]

\* Mutant: the row is given the listed updatedAt before its assets are stored.
RowStampAsListed(c) == run.seen[c]

\* upsertAlbum: a new row has no updatedAt yet, an old one keeps its own.
RowStamp(c) == run.stored[c]

Upsert(c) ==
    /\ run.phase = "upsert" /\ c \in run.list /\ work[c].state = "none"
    /\ stamp' = [stamp EXCEPT ![c] = RowStamp(c)]
    /\ work' = [work EXCEPT ![c].state = IF Wanted(c) THEN "todo" ELSE "done"]
    /\ UNCHANGED <<version, listed, assets, run, error, edits, failures>>

\* A failed upsert is logged, and no more: the ID stays in the list, nothing is fetched.
UpsertFails(c) ==
    /\ run.phase = "upsert" /\ c \in run.list /\ work[c].state = "none"
    /\ Failure
    /\ work' = [work EXCEPT ![c].state = "skipped"]
    /\ UNCHANGED <<version, listed, stamp, assets, run, error, edits>>

UpsertsDone ==
    /\ run.phase = "upsert" /\ \A c \in run.list : work[c].state # "none"
    /\ run' = [run EXCEPT !.phase = "fetch"]
    /\ UNCHANGED <<version, listed, stamp, assets, work, error, edits, failures>>

\* One goroutine per collection.  searchAssetIDs: the first page ...
FetchBegins(c) ==
    /\ run.phase = "fetch" /\ work[c].state = "todo"
    /\ work' = [work EXCEPT ![c].state = "paging", ![c].before = version[c]]
    /\ UNCHANGED <<version, listed, stamp, assets, run, error, edits, failures>>

\* ... and the last one.
FetchEnds(c) ==
    /\ run.phase = "fetch" /\ work[c].state = "paging"
    /\ work' = [work EXCEPT ![c] = [state |-> "fetched", before |-> 0,
                     got |-> IF @.before = version[c] THEN version[c] ELSE Torn]]
    /\ UNCHANGED <<version, listed, stamp, assets, run, error, edits, failures>>

\* Mutant: the goroutine drops its error.
FetchFailsUnnoticed(c) ==
    /\ run.phase = "fetch" /\ work[c].state \in {"todo", "paging"}
    /\ Failure
    /\ work' = [work EXCEPT ![c] = [NoWork EXCEPT !.state = "failed"]]
    /\ UNCHANGED <<version, listed, stamp, assets, run, error, edits>>

\* A fetch fails: the others go on and are stored.
FetchFails(c) ==
    /\ run.phase = "fetch" /\ work[c].state \in {"todo", "paging"}
    /\ Failure
    /\ work' = [work EXCEPT ![c] = [NoWork EXCEPT !.state = "failed"]]
    /\ run' = [run EXCEPT !.failed = TRUE]
    /\ UNCHANGED <<version, listed, stamp, assets, error, edits>>

\* g.Wait: nothing is stored before every goroutine is done, and then one by one.
StoringNext(c) ==
    /\ run.phase = "fetch" /\ work[c].state = "fetched"
    /\ \A d \in Collections : work[d].state \notin {"todo", "paging", "replaced"}

\* replaceAlbumAssets: one transaction.
Replace(c) ==
    /\ StoringNext(c)
    /\ assets' = [assets EXCEPT ![c] = work[c].got]
    /\ work' = [work EXCEPT ![c].state = "replaced"]
    /\ UNCHANGED <<version, listed, stamp, run, error, edits, failures>>

\* The transaction is rolled back: a database error, or an asset that two pages name.
ReplaceFails(c) ==
    /\ StoringNext(c)
    /\ \/ Failure
       \/ work[c].got = Torn /\ UNCHANGED failures
    /\ work' = [work EXCEPT ![c] = [NoWork EXCEPT !.state = "failed"]]
    /\ run' = [run EXCEPT !.failed = TRUE]
    /\ UNCHANGED <<version, listed, stamp, assets, error, edits>>

\* Mutant: the row is stamped with what Immich says now.
NewStampNow(c) == version[c]

\* The updatedAt of the listing, which the assets are not older than.
NewStamp(c) == run.seen[c]

\* setAlbumSynced.
SetSynced(c) ==
    /\ run.phase = "fetch" /\ work[c].state = "replaced"
    /\ stamp' = [stamp EXCEPT ![c] = NewStamp(c)]
    /\ work' = [work EXCEPT ![c] = [NoWork EXCEPT !.state = "done"]]
    /\ UNCHANGED <<version, listed, assets, run, error, edits, failures>>

SetSyncedFails(c) ==
    /\ run.phase = "fetch" /\ work[c].state = "replaced"
    /\ Failure
    /\ work' = [work EXCEPT ![c] = [NoWork EXCEPT !.state = "failed"]]
    /\ run' = [run EXCEPT !.failed = TRUE]
    /\ UNCHANGED <<version, listed, stamp, assets, error, edits>>

\* Any error makes syncAlbums return before the clean-up.
FetchesDone ==
    /\ run.phase = "fetch"
    /\ \A c \in run.list : work[c].state \in {"done", "failed", "skipped"}
    /\ run' = [run EXCEPT !.phase = IF run.failed THEN "report" ELSE "delete"]
    /\ UNCHANGED <<version, listed, stamp, assets, work, error, edits, failures>>

\* deleteAlbumsNotIn.  foreign_keys is set on one pooled connection only: whether the
\* assets go with the row depends on the connection the statement got.
DeleteRows ==
    /\ run.phase = "delete"
    /\ stamp' = [c \in Collections |-> IF c \in run.list THEN stamp[c] ELSE Absent]
    /\ \E cascade \in BOOLEAN :
          assets' = [c \in Collections |->
                        IF cascade /\ Stored(c) /\ c \notin run.list THEN 0 ELSE assets[c]]
    /\ run' = [run EXCEPT !.phase = "report"]
    /\ UNCHANGED <<version, listed, work, error, edits, failures>>

\* A failed clean-up is logged.
DeleteFails ==
    /\ run.phase = "delete"
    /\ Failure
    /\ run' = [run EXCEPT !.phase = "report"]
    /\ UNCHANGED <<version, listed, stamp, assets, work, error, edits>>

\* recordSyncError or clearSyncError; a write that fails is logged.
Report ==
    /\ run.phase = "report"
    /\ \/ error' = run.failed /\ UNCHANGED failures
       \/ UNCHANGED error /\ Failure
    /\ run' = NoRun
    /\ work' = NoWorks
    /\ UNCHANGED <<version, listed, stamp, assets, edits>>

\* The process dies, or the run is cancelled: no later write of it succeeds.
RunIsLost ==
    /\ run.phase # "idle"
    /\ Failure
    /\ run' = NoRun
    /\ work' = NoWorks
    /\ UNCHANGED <<version, listed, stamp, assets, error, edits>>

-----------------------------------------------------------------------------
RunStep ==
    \/ List \/ ReadMap \/ UpsertsDone \/ FetchesDone \/ DeleteRows \/ Report
    \/ \E c \in Collections :
          Upsert(c) \/ FetchBegins(c) \/ FetchEnds(c) \/ Replace(c) \/ SetSynced(c)

RunFails ==
    \/ ListFails \/ DeleteFails \/ RunIsLost
    \/ \E c \in Collections :
          UpsertFails(c) \/ FetchFails(c) \/ ReplaceFails(c) \/ SetSyncedFails(c)

Next ==
    \/ \E c \in Collections : ImmichChanges(c) \/ ImmichLists(c)
    \/ \E full \in BOOLEAN : StartSync(full)
    \/ RunStep \/ RunFails

\* The periodic ticker starts incremental syncs for ever, and a run goes on.
Fairness == WF_vars(StartSync(FALSE)) /\ WF_vars(RunStep)

Spec == Init /\ [][Next]_vars

FairSpec == Spec /\ Fairness

-----------------------------------------------------------------------------
(* Properties                                                              *)

\* A collection that the next incremental sync will not fetch, because its stored
\* updatedAt is the one Immich lists, has the assets Immich has: no failure, crash,
\* cancelled run or change during the fetch ever marks stale assets as current.
SkippedIsCurrent ==
    \A c \in Collections : stamp[c] = version[c] => assets[c] = version[c]

\* A row is deleted only if Immich no longer lists the collection, or stopped or started
\* listing it while the run was under way: never because a listing or a fetch failed.
DeletesOnlyWhatIsGone ==
    [][\A c \in Collections : Stored(c) /\ ~Stored(c)'
          => c \notin listed \/ c \in run.relisted]_vars

\* A run that reports no error has brought every collection it listed to the listed
\* updatedAt, those aside whose row could not be written.
NoErrorMeansSynced ==
    [][(run.phase = "report" /\ run'.phase = "idle" /\ ~run.failed)
          => \A c \in run.list : stamp[c] = run.seen[c] \/ work[c].state = "skipped"]_vars

\* Whatever failed is tried again: once Immich and the failures come to rest, periodic
\* incremental syncs make the stored collections and their assets those of Immich, and
\* the reported error goes away.
Converges ==
    <>[](/\ ~error
         /\ \A c \in listed : stamp[c] = version[c] /\ assets[c] = version[c]
         /\ \A c \in Collections \ listed : ~Stored(c))
=============================================================================
