----------------------------- MODULE AssetSync -----------------------------
(***************************************************************************)
(* The asset part of one user's sync (backend/syncService.go: syncAssets,  *)
(* deleteAssetsNotIn, the lastSyncAt watermark, syncStacks) against the    *)
(* requests that write the same rows without taking the sync lock:         *)
(* PUT /assets/{id}/location and PUT /assets/{id}/hidden (handlers.go).    *)
(*                                                                         *)
(* SyncLock shows that a user has one sync run at a time, so there is one  *)
(* run here.  Timestamps appear only as what the code compares: an asset   *)
(* is "dirty" when its Immich updatedAt is not older than lastSyncAt, which *)
(* is what searchAssets(updatedAfter = lastSyncAt) selects.  Every call to *)
(* Immich or to the database is a step; a page is fetched in one step and  *)
(* stored in a later one.  A failed call stands for an error, a timeout    *)
(* and a cancelled context alike.                                          *)
(***************************************************************************)
EXTENDS Naturals, FiniteSets

CONSTANTS
    Assets,     \* asset IDs; Immich lists them in this order
    Locs,       \* locations; NoLoc is one of them (missing GPS, and (0,0))
    NoLoc,
    Absent,     \* no such asset
    PageSize,   \* syncPageSize
    MaxEdits,   \* bound on the changes made in Immich, saves included
    FailingCalls \* the run's and the editor's calls that may fail

ASSUME AssetsAssumption == Assets \subseteq Nat /\ IsFiniteSet(Assets)
ASSUME LocsAssumption == NoLoc \in Locs /\ Absent \notin Locs
ASSUME PageSizeAssumption == PageSize \in Nat \ {0}
ASSUME MaxEditsAssumption == MaxEdits \in Nat

VARIABLES
    immich,     \* Immich: the location of each asset of the timeline, or Absent
    stack,      \* Immich: the members of the one stack, {} when there is none
    dirty,      \* the assets whose updatedAt is not older than lastSyncAt
    synced,     \* lastSyncAt is set
    local,      \* table assets: row or Absent
    known,      \* the stack as of the last successful syncStacks
    run,        \* the sync run
    editor,     \* the handler of one location update
    edits,      \* changes made in Immich so far
    excused     \* history: assets changed while a run was fetching (see Arrives)

vars == <<immich, stack, dirty, synced, local, known, run, editor, edits, excused>>

Rows == [loc : Locs, hidden : BOOLEAN, stacked : BOOLEAN]
ASSUME RowsAssumption == Absent \notin Rows

Pages == [Assets -> Locs \union {Absent}]
EmptyPage == [a \in Assets |-> Absent]

NoRun == [phase |-> "idle", full |-> FALSE, page |-> 1, buffer |-> EmptyPage,
          more |-> FALSE, seen |-> {}, touched |-> {}]
NoEdit == [pc |-> "idle", loc |-> NoLoc, ids |-> {}, overtaken |-> FALSE]

TypeOK ==
    /\ immich \in Pages
    /\ stack \subseteq Assets
    /\ dirty \subseteq Assets
    /\ synced \in BOOLEAN
    /\ local \in [Assets -> Rows \union {Absent}]
    /\ known \subseteq Assets
    /\ run \in [phase : {"idle", "search", "upsert", "delete", "stamp", "stacks"},
                full : BOOLEAN, page : Nat \ {0}, buffer : Pages, more : BOOLEAN,
                seen : SUBSET Assets, touched : SUBSET Assets]
    /\ editor \in [pc : {"idle", "patch", "local"}, loc : Locs, ids : SUBSET Assets,
                   overtaken : BOOLEAN]
    /\ edits \in 0..MaxEdits
    /\ excused \subseteq Assets

Stored(a) == local[a] # Absent

Init ==
    /\ immich \in [Assets -> {NoLoc}]
    /\ stack = Assets
    /\ dirty = {}
    /\ synced = FALSE
    /\ local = [a \in Assets |-> Absent]
    /\ known = {}
    /\ run = NoRun
    /\ editor = NoEdit
    /\ edits = 0
    /\ excused = {}

-----------------------------------------------------------------------------
(* Immich, changed by its own users and clients                            *)

\* The run has begun and lastSyncAt has not been written yet.
Fetching == run.phase \in {"search", "upsert", "delete", "stamp"}

Touch(S) == run' = IF Fetching THEN [run EXCEPT !.touched = @ \union S] ELSE run

\* An asset is added or moved: its updatedAt becomes now.
ImmichSets(a, l) ==
    /\ edits < MaxEdits /\ immich[a] # l
    /\ edits' = edits + 1
    /\ immich' = [immich EXCEPT ![a] = l]
    /\ dirty' = dirty \union {a}
    /\ Touch({a})
    /\ UNCHANGED <<stack, synced, local, known, editor, excused>>

\* An asset leaves the timeline (trashed, archived): those after it move up a page.
ImmichRemoves(a) ==
    /\ edits < MaxEdits /\ immich[a] # Absent
    /\ edits' = edits + 1
    /\ immich' = [immich EXCEPT ![a] = Absent]
    /\ dirty' = dirty \ {a}
    /\ stack' = stack \ {a}
    /\ Touch(Assets)
    /\ UNCHANGED <<synced, local, known, editor, excused>>

ImmichUnstacks ==
    /\ edits < MaxEdits /\ stack # {}
    /\ edits' = edits + 1
    /\ stack' = {}
    /\ UNCHANGED <<immich, dirty, synced, local, known, run, editor, excused>>

-----------------------------------------------------------------------------
(* The sync run                                                            *)

\* Mutant: an incremental sync is run although there is no lastSyncAt.
StartSyncAsAsked(full) ==
    /\ run.phase = "idle"
    /\ run' = [NoRun EXCEPT !.phase = "search", !.full = full]
    /\ UNCHANGED <<immich, stack, dirty, synced, local, known, editor, edits, excused>>

\* doUserFullSync, or doUserIncrementalSync; the latter is a full sync without lastSyncAt.
StartSync(full) ==
    /\ run.phase = "idle"
    /\ run' = [NoRun EXCEPT !.phase = "search", !.full = full \/ ~synced]
    /\ UNCHANGED <<immich, stack, dirty, synced, local, known, editor, edits, excused>>

\* The search of POST /api/search/metadata: the assets that match, by rank.
Matching == {a \in Assets : immich[a] # Absent /\ (run.full \/ a \in dirty)}
Rank(a) == Cardinality({b \in Matching : b <= a})
OnPage(p) == {a \in Matching : Rank(a) > (p - 1) * PageSize /\ Rank(a) <= p * PageSize}

AfterFetch == IF run.full THEN "delete" ELSE "stamp"

\* One page is fetched; an empty one ends the loop.
Search ==
    /\ run.phase = "search"
    /\ LET items == OnPage(run.page) IN
       run' = IF items = {} THEN [run EXCEPT !.phase = AfterFetch]
              ELSE [run EXCEPT !.phase = "upsert",
                               !.buffer = [a \in Assets |->
                                              IF a \in items THEN immich[a] ELSE Absent],
                               !.more = Cardinality(Matching) > run.page * PageSize,
                               !.seen = @ \union items]
    /\ UNCHANGED <<immich, stack, dirty, synced, local, known, editor, edits, excused>>

\* Mutant: the conflict clause also resets isHidden.
UpsertedUnhiding(a) ==
    IF run.buffer[a] = Absent THEN local[a]
    ELSE [loc |-> run.buffer[a], hidden |-> FALSE, stacked |-> FALSE]

\* upsertAssets: everything but isHidden comes from Immich, and the stack columns, which
\* the search does not return, are cleared.
Upserted(a) ==
    IF run.buffer[a] = Absent THEN local[a]
    ELSE [loc |-> run.buffer[a], hidden |-> Stored(a) /\ local[a].hidden, stacked |-> FALSE]

Upsert ==
    /\ run.phase = "upsert"
    /\ local' = [a \in Assets |-> Upserted(a)]
    /\ run' = IF run.more
              THEN [run EXCEPT !.phase = "search", !.page = @ + 1, !.buffer = EmptyPage]
              ELSE [run EXCEPT !.phase = AfterFetch, !.buffer = EmptyPage]
    /\ UNCHANGED <<immich, stack, dirty, synced, known, editor, edits, excused>>

\* Mutant: the pages that were fetched are taken for the whole library.
FetchFailsButGoesOn ==
    /\ run.phase \in {"search", "upsert"} /\ run.phase \in FailingCalls
    /\ run' = [run EXCEPT !.phase = AfterFetch, !.buffer = EmptyPage]
    /\ UNCHANGED <<immich, stack, dirty, synced, local, known, editor, edits, excused>>

\* A search or an upsert fails: nothing is deleted and lastSyncAt stays.
FetchFails ==
    /\ run.phase \in {"search", "upsert"} /\ run.phase \in FailingCalls
    /\ run' = NoRun
    /\ excused' = excused \union run.touched
    /\ UNCHANGED <<immich, stack, dirty, synced, local, known, editor, edits>>

\* deleteAssetsNotIn(allIDs), in a full sync only.
DeleteAssets ==
    /\ run.phase = "delete"
    /\ local' = [a \in Assets |-> IF a \in run.seen THEN local[a] ELSE Absent]
    /\ run' = [run EXCEPT !.phase = "stamp"]
    /\ UNCHANGED <<immich, stack, dirty, synced, known, editor, edits, excused>>

\* A failed clean-up is logged and the run goes on.
DeleteFails ==
    /\ run.phase = "delete" /\ "delete" \in FailingCalls
    /\ run' = [run EXCEPT !.phase = "stamp"]
    /\ UNCHANGED <<immich, stack, dirty, synced, local, known, editor, edits, excused>>

\* Only a stamped run settles what earlier runs may have missed.
Excuse == (excused \ run.seen) \union run.touched

\* setSyncState(lastSyncAt, now), with the time read after the last page.  now is cut to
\* whole seconds: what changed within the last second stays dirty.
Stamp ==
    /\ run.phase = "stamp"
    /\ synced' = TRUE
    /\ dirty' \in SUBSET dirty
    /\ run' = [NoRun EXCEPT !.phase = "stacks"]
    /\ excused' = Excuse
    /\ editor' = IF editor.pc = "local" THEN [editor EXCEPT !.overtaken = TRUE] ELSE editor
    /\ UNCHANGED <<immich, stack, local, known, edits>>

StampFails ==
    /\ run.phase = "stamp" /\ "stamp" \in FailingCalls
    /\ run' = [NoRun EXCEPT !.phase = "stacks"]
    /\ excused' = excused \union run.touched
    /\ UNCHANGED <<immich, stack, dirty, synced, local, known, editor, edits>>

\* syncStacks: getStacks, then batchUpdateStackInfo clears and sets all in a transaction.
Stacked(a) == IF Stored(a) THEN [local[a] EXCEPT !.stacked = a \in stack] ELSE Absent

SyncStacks ==
    /\ run.phase = "stacks"
    /\ local' = [a \in Assets |-> Stacked(a)]
    /\ known' = stack
    /\ run' = NoRun
    /\ UNCHANGED <<immich, stack, dirty, synced, editor, edits, excused>>

StacksFail ==
    /\ run.phase = "stacks" /\ "stacks" \in FailingCalls
    /\ run' = NoRun
    /\ UNCHANGED <<immich, stack, dirty, synced, local, known, editor, edits, excused>>

-----------------------------------------------------------------------------
(* The handlers                                                            *)

\* resolveAndUpdateLocation, the two reads: the asset, or the members of its stack.
ResolveStack(a, l) ==
    /\ editor.pc = "idle" /\ Stored(a) /\ edits < MaxEdits
    /\ edits' = edits + 1
    /\ editor' = [pc |-> "patch", loc |-> l, overtaken |-> FALSE,
                  ids |-> IF local[a].stacked
                          THEN {b \in Assets : Stored(b) /\ local[b].stacked} ELSE {a}]
    /\ UNCHANGED <<immich, stack, dirty, synced, local, known, run, excused>>

Patched == {a \in editor.ids : immich[a] # Absent}

\* PATCH /api/assets.  It may be applied although the answer never arrives.
PatchImmich ==
    /\ editor.pc = "patch"
    /\ immich' = [a \in Assets |-> IF a \in Patched THEN editor.loc ELSE immich[a]]
    /\ dirty' = dirty \union Patched
    /\ Touch(Patched)
    /\ \/ editor' = [editor EXCEPT !.pc = "local"]
       \/ "patch" \in FailingCalls /\ editor' = NoEdit
    /\ UNCHANGED <<stack, synced, local, known, edits, excused>>

\* bulkUpdateAssetLocation.
UpdateLocal ==
    /\ editor.pc = "local"
    /\ local' = [a \in Assets |-> IF a \in editor.ids /\ Stored(a)
                                  THEN [local[a] EXCEPT !.loc = editor.loc] ELSE local[a]]
    /\ excused' = IF editor.overtaken THEN excused \union editor.ids ELSE excused
    /\ editor' = NoEdit
    /\ Touch(editor.ids)
    /\ UNCHANGED <<immich, stack, dirty, synced, known, edits>>

\* The PATCH is refused, or the local write fails: an error is answered.
UpdateFails ==
    /\ editor.pc \in {"patch", "local"} /\ editor.pc \in FailingCalls
    /\ editor' = NoEdit
    /\ excused' = IF editor.overtaken THEN excused \union editor.ids ELSE excused
    /\ UNCHANGED <<immich, stack, dirty, synced, local, known, run, edits>>

\* updateAssetHidden and bulkUpdateAssetHidden: one statement.
SetHidden(S, h) ==
    /\ local' = [a \in Assets |-> IF a \in S /\ Stored(a)
                                  THEN [local[a] EXCEPT !.hidden = h] ELSE local[a]]
    /\ UNCHANGED <<immich, stack, dirty, synced, known, run, editor, edits, excused>>

-----------------------------------------------------------------------------
Next ==
    \/ \E a \in Assets, l \in Locs : ImmichSets(a, l) \/ ResolveStack(a, l)
    \/ \E a \in Assets : ImmichRemoves(a)
    \/ ImmichUnstacks
    \/ \E full \in BOOLEAN : StartSync(full)
    \/ Search \/ Upsert \/ FetchFails \/ DeleteAssets \/ DeleteFails
    \/ Stamp \/ StampFails \/ SyncStacks \/ StacksFail
    \/ PatchImmich \/ UpdateLocal \/ UpdateFails
    \/ \E S \in SUBSET Assets, h \in BOOLEAN : SetHidden(S, h)

Spec == Init /\ [][Next]_vars

-----------------------------------------------------------------------------
(* Properties                                                              *)

\* Immich and the local row agree.
Current(a) == Stored(a) /\ local[a].loc = immich[a]

BeingSaved(a) == editor.pc = "local" /\ a \in editor.ids

\* An asset the next incremental sync will not fetch is current, or a save of it is about
\* to be written: lastSyncAt never moves past a change that was not fetched.
WatermarkSound ==
    \A a \in Assets :
        synced /\ immich[a] # Absent /\ a \notin dirty /\ ~BeingSaved(a) => Current(a)

\* What remains true of WatermarkSound: the only changes that incremental syncs ever miss
\* were made in Immich (by anyone, this program's own saves included) while a run was
\* fetching, or were overtaken by a run between the two writes of a save.  Failed
\* fetches, failed clean-ups, failed stamps and saves at any other moment lose nothing.
Arrives ==
    \A a \in Assets \ (excused \union run.touched) :
        synced /\ immich[a] # Absent /\ a \notin dirty /\ ~BeingSaved(a) => Current(a)

\* A full sync deletes a row only if the asset is gone from Immich, or if Immich changed
\* while the pages were fetched: never because a fetch stopped half-way.  Of a row that
\* stays, neither a sync nor a save changes the hidden flag, which Immich does not know of.
RowsSurvive ==
    [][\A a \in Assets : Stored(a) =>
         /\ local'[a] = Absent => immich[a] = Absent \/ a \in run.touched
         /\ local'[a] # Absent /\ local'[a].hidden # local[a].hidden => UNCHANGED <<run, editor>>]_vars
=============================================================================
