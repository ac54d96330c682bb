--------------------------- MODULE SelectionFlow ---------------------------
(***************************************************************************)
(* Selecting photos, giving them locations, undo and redo, and saving      *)
(* (features/selection).  Nothing is written until Save; the save sends    *)
(* one request per photo, group by group of equal coordinates, asks once   *)
(* more for what failed, refreshes the catalog, and works throughout with  *)
(* the locations that were pending when the button was pressed.  The       *)
(* panel's buttons are disabled meanwhile; the map, the grid, the search   *)
(* and the keyboard are not.                                               *)
(*                                                                         *)
(* A location is its place, where it came from, whether a GPX match found  *)
(* it applied already, and where the photo was when it was matched.  The   *)
(* other fields of a location are for display.  The order of the selection and the anchor of a range are left *)
(* out: a range, or "all", is any set of photos.  A batch of edits is      *)
(* opened and closed in one event, so it is one step.  The catalog of the  *)
(* frontend is taken to be as the backend is.                              *)
(***************************************************************************)
EXTENDS Naturals, FiniteSets, Sequences, SequencesExt

CONSTANTS
    Assets,
    Places,
    NoPlace,      \* no location; what "remove location" writes
    MaxUndo,      \* MAX_UNDO_STACK_SIZE, 50 in the code
    MaxEdits,     \* bound on what the user does
    MaxFailures   \* bound on the requests that fail

ASSUME AssetsAssumption == IsFiniteSet(Assets)
ASSUME PlaceAssumption == NoPlace \notin Places
ASSUME UndoAssumption == MaxUndo \in Nat \ {0}
ASSUME BoundsAssumption == MaxEdits \in Nat /\ MaxFailures \in Nat

VARIABLES
    server,     \* the location the backend has for each photo
    selected,   \* selectedAssets
    marker,     \* pendingLocation, the pin on the map
    pending,    \* pendingLocationsByAssetID
    saved,      \* savedLocationsByAssetID, shown until the markers catch up
    undoStack, redoStack,
    save,       \* the call of save, and what its closure holds
    touched,    \* history: photos whose save the user has interfered with
    stored,     \* history: photos that the backend has a request for
    edits, failures

vars == <<server, selected, marker, pending, saved, undoStack, redoStack, save, touched, stored,
          edits, failures>>

history == <<undoStack, redoStack>>

Sources == {"chosen", "drag", "goto", "gpx", "remove"}
Location(p, source, applied) ==
    [at |-> p, source |-> source, applied |-> applied, original |-> NoPlace]
Match(p, applied, original) == [Location(p, "gpx", applied) EXCEPT !.original = original]
NoLoc == Location(NoPlace, "none", FALSE)
Locations ==
    [at : Places \union {NoPlace}, source : Sources \union {"none"}, applied : BOOLEAN,
     original : Places \union {NoPlace}]

Snapshots == [selected : SUBSET Assets, marker : Locations,
              pending : [Assets -> Locations], saved : [Assets -> Locations]]

\* captureSnapshot
Snapshot == [selected |-> selected, marker |-> marker, pending |-> pending, saved |-> saved]

NoLocs == [a \in Assets |-> NoLoc]

NoSave == [phase |-> "idle", pending |-> NoLocs, fallback |-> NoLoc, selected |-> {},
           first |-> {}, again |-> {}, done |-> {}, failed |-> {}]

TypeOK ==
    /\ server \in [Assets -> Places \union {NoPlace}]
    /\ Snapshot \in Snapshots
    /\ undoStack \in Seq(Snapshots) /\ redoStack \in Seq(Snapshots)
    /\ Len(undoStack) + Len(redoStack) <= MaxUndo
    /\ save \in [phase : {"idle", "sending", "refresh"}, pending : [Assets -> Locations],
                 fallback : Locations, selected : SUBSET Assets, first : SUBSET Assets,
                 again : SUBSET Assets, done : SUBSET Assets, failed : SUBSET Assets]
    /\ touched \subseteq Assets /\ stored \subseteq Assets
    /\ edits \in 0..MaxEdits /\ failures \in 0..MaxFailures

Init ==
    /\ server \in [Assets -> Places \union {NoPlace}]
    /\ selected = {} /\ marker = NoLoc /\ pending = NoLocs /\ saved = NoLocs
    /\ undoStack = <<>> /\ redoStack = <<>>
    /\ save = NoSave /\ touched = {} /\ stored = {}
    /\ edits = 0 /\ failures = 0

Saving == save.phase # "idle"
Edit == edits < MaxEdits /\ edits' = edits + 1
Fails == failures < MaxFailures /\ failures' = failures + 1
Touch(T) == touched' = IF Saving THEN touched \union T ELSE touched

Pending(locs) == {a \in Assets : locs[a] # NoLoc}
Without(locs, T) == [a \in Assets |-> IF a \in T THEN NoLoc ELSE locs[a]]

\* The panel LocationConfirm: its state "all applied" has but one button, Dismiss.
Unapplied == {a \in Pending(pending) : ~pending[a].applied}
AllApplied == Pending(pending) # {} /\ Unapplied = {}
Panel == \/ Unapplied # {}
         \/ selected # {} /\ (marker # NoLoc \/ redoStack # <<>>) /\ ~AllApplied

-----------------------------------------------------------------------------
(* Selection                                                               *)

\* toggleAsset, mode "single": the pin goes.
SelectOne(a) ==
    /\ Edit
    /\ selected' = IF selected = {a} THEN {} ELSE {a}
    /\ marker' = NoLoc
    /\ Touch(Assets)
    /\ UNCHANGED <<server, pending, saved, history, save, stored, failures>>

\* toggleAsset, mode "additive"; shiftSelect; selectAll: only a dragged pin goes.
SelectMore(T) ==
    /\ Edit
    /\ selected' = T
    /\ marker' = IF marker.source = "drag" THEN NoLoc ELSE marker
    /\ Touch(IF marker' = marker THEN {} ELSE Assets)
    /\ UNCHANGED <<server, pending, saved, history, save, stored, failures>>

\* clearSelection: another page, view, album or folder, once the user agrees.
ClearSelection ==
    /\ Edit
    /\ selected' = {} /\ marker' = NoLoc /\ pending' = NoLocs /\ saved' = NoLocs
    /\ undoStack' = <<>> /\ redoStack' = <<>>
    /\ Touch(Assets)
    /\ UNCHANGED <<server, save, stored, failures>>

\* clearLocation(true): the map is moved or the pin is clicked.
ClearMarker ==
    /\ Edit
    /\ marker # NoLoc /\ marker' = NoLoc
    /\ Touch(Assets)
    /\ UNCHANGED <<server, selected, pending, saved, history, save, stored, failures>>

\* clearLocation(): the panel's Cancel, disabled during a save, and Dismiss, which is not.
Cancel ==
    /\ Edit
    /\ AllApplied \/ (Panel /\ ~Saving)
    /\ marker' = NoLoc /\ pending' = NoLocs
    /\ undoStack' = <<>> /\ redoStack' = <<>>
    /\ Touch(Assets)
    /\ UNCHANGED <<server, selected, saved, save, stored, failures>>

-----------------------------------------------------------------------------
(* Edits                                                                   *)

\* push, and shift when the stack is full
Pushed(stack, s) ==
    LET pushed == Append(stack, s)
    IN  IF Len(pushed) > MaxUndo THEN Tail(pushed) ELSE pushed

\* n edits of one event: what they push was captured before it.
PushedTimes(stack, s, n) ==
    LET pushed == stack \o [i \in 1..n |-> s]
        surplus == IF Len(pushed) > MaxUndo THEN Len(pushed) - MaxUndo ELSE 0
    IN  SubSeq(pushed, surplus + 1, Len(pushed))

\* Mutant: GPX entries are overwritten, "already applied" included.
MergedKeepingApplied(old, new) ==
    IF old.source = "gpx" /\ new.source # "remove"
    THEN Match(new.at, old.applied, old.original)
    ELSE new

\* buildNextPendingLocations: an edit of a GPX entry stays one.  Only a GPX edit says
\* whether it is applied, and where the photo was; moving an applied one makes it an edit again.
Merged(old, new) ==
    IF old.source = "gpx" /\ new.source # "remove"
    THEN LET moved == old.applied /\ new.at # old.at
             said == IF new.source = "gpx" THEN new ELSE old
         IN  Match(new.at, said.applied /\ ~moved, said.original)
    ELSE new

\* setLocation, n times in one event.  The first pending location takes the place of the pin
\* that a save without any fell back on, and so concerns every photo of that save.
SetTimes(n, targets, loc, pin) ==
    /\ Edit
    /\ undoStack' = PushedTimes(undoStack, Snapshot, n) /\ redoStack' = <<>>
    /\ marker' = pin
    /\ saved' = Without(saved, targets)
    /\ pending' = [a \in Assets |->
                      IF a \in targets THEN Merged(pending[a], loc[a]) ELSE pending[a]]
    /\ Touch(IF pin = marker /\ (Pending(pending) = {} => targets = {}) THEN targets ELSE Assets)
    /\ UNCHANGED <<server, save, stored, failures>>

\* Once, or between beginBatch and endBatch: one undo step.
SetLocations(targets, loc, pin) == SetTimes(1, targets, loc, pin)

\* Map click, search, suggestion: the selection.  Drop of a photo: that photo, or the
\* selection it belongs to.
Choose(dropped, p) ==
    LET loc == Location(p, "chosen", FALSE)
        targets == IF dropped \subseteq selected THEN selected ELSE dropped
    IN  /\ SetLocations(targets, [a \in Assets |-> loc], loc)
        /\ UNCHANGED selected

\* The pin is dragged; it can be while nothing is selected.
DragPin(p) ==
    /\ marker # NoLoc /\ selected = {}
    /\ SetLocations({}, NoLocs, Location(p, "drag", FALSE))
    /\ UNCHANGED selected

\* A photo's marker is dragged, with the selection if it is part of it; or it has the focus
\* and the map is clicked.
MoveMarker(a, p) ==
    /\ server[a] # NoPlace
    /\ \E targets \in {{a}} \union (IF a \in selected THEN {selected} ELSE {}) :
           SetLocations(targets, [b \in Assets |-> Location(p, "drag", FALSE)], NoLoc)
    /\ UNCHANGED selected

\* The markers of a group are moved together, each by an edit of its own.
MoveGroup(T, to) ==
    /\ Cardinality(T) > 1 /\ \A a \in T : server[a] # NoPlace
    /\ SetTimes(Cardinality(T), T,
                [a \in Assets |-> IF a \in T THEN Location(to[a], "drag", FALSE) ELSE NoLoc], NoLoc)
    /\ UNCHANGED selected

\* "Go to location" of a photo.  The pin set here is cleared by the effect that moves the map.
GoTo(a) ==
    /\ server[a] # NoPlace
    /\ SetLocations(selected, [b \in Assets |-> Location(server[a], "goto", FALSE)], NoLoc)
    /\ UNCHANGED selected

\* The matches of a GPX track arrive, each with where its photo is.
ImportGPX(matches, p) ==
    /\ SetLocations(matches, [a \in Assets |-> Match(p, server[a] = p, server[a])], NoLoc)
    /\ UNCHANGED selected

\* Reset position, of GPX entries to where the photo was when it was matched.  The grid's menu
\* offers it for entries that are elsewhere, and empties the selection; the menu of a marker
\* offers it for the one photo.
ResetPosition(T, emptied) ==
    /\ \A a \in T : /\ pending[a].source = "gpx" /\ ~pending[a].applied
                    /\ pending[a].original # NoPlace
                    /\ emptied => pending[a].original # pending[a].at
    /\ emptied \/ Cardinality(T) = 1
    /\ SetLocations(T, [a \in Assets |-> Match(pending[a].original, TRUE, pending[a].original)], NoLoc)
    /\ selected' = IF emptied THEN {} ELSE selected

RemoveLocation(T) ==
    /\ \A a \in T : server[a] # NoPlace
    /\ SetLocations(T, [a \in Assets |-> Location(NoPlace, "remove", FALSE)], NoLoc)
    /\ UNCHANGED selected

-----------------------------------------------------------------------------
(* Undo and redo                                                           *)

\* The keyboard works when something is selected, the buttons unless a save is under way.
CanUndo == selected # {} \/ (Panel /\ ~Saving)

Apply(s) ==
    /\ selected' = s.selected /\ marker' = s.marker
    /\ pending' = s.pending /\ saved' = s.saved

\* Mutant: the state is captured after it has been replaced.
UndoCapturingLate ==
    /\ Edit
    /\ CanUndo /\ undoStack # <<>>
    /\ Apply(Last(undoStack))
    /\ undoStack' = Front(undoStack)
    /\ redoStack' = Pushed(redoStack, Last(undoStack))
    /\ Touch(Assets)
    /\ UNCHANGED <<server, save, stored, failures>>

Undo ==
    /\ Edit
    /\ CanUndo /\ undoStack # <<>>
    /\ Apply(Last(undoStack))
    /\ undoStack' = Front(undoStack)
    /\ redoStack' = Pushed(redoStack, Snapshot)
    /\ Touch(Assets)
    /\ UNCHANGED <<server, save, stored, failures>>

\* pushUndo with preserveRedo
Redo ==
    /\ Edit
    /\ CanUndo /\ redoStack # <<>>
    /\ Apply(Last(redoStack))
    /\ redoStack' = Front(redoStack)
    /\ undoStack' = Pushed(undoStack, Snapshot)
    /\ Touch(Assets)
    /\ UNCHANGED <<server, save, stored, failures>>

-----------------------------------------------------------------------------
(* Save                                                                    *)

\* resolveSaveAssetIDs: what is pending, or the selection if nothing is and there is a pin.
Resolved(sel, pin, locs) ==
    IF Pending(locs) # {} THEN Pending(locs) ELSE IF pin # NoLoc THEN sel ELSE {}

\* pendingLocationsByAssetID[assetID] ?? pendingLocation
LocationOf(a, pin, locs) == IF locs[a] # NoLoc THEN locs[a] ELSE pin

\* getSavePayloads
Payload(sel, pin, locs) ==
    {a \in Resolved(sel, pin, locs) : ~LocationOf(a, pin, locs).applied}

SavePlace(a) == LocationOf(a, save.fallback, save.pending).at

Save ==
    LET payload == Payload(selected, marker, pending)
    IN  /\ Edit
        /\ ~Saving /\ payload # {}
        /\ save' = [NoSave EXCEPT !.phase = "sending", !.pending = pending, !.fallback = marker,
                                  !.selected = selected, !.first = payload]
        /\ touched' = {}
        /\ UNCHANGED <<server, selected, marker, pending, saved, history, stored, failures>>

\* One group of coordinates after the other; in each, all once and then the failed ones again.
Sent(p) == {a \in save.again \union save.done \union save.failed : SavePlace(a) = p}
Unsent(p) == {a \in save.first : SavePlace(a) = p}
Failing(p) == {a \in save.again : SavePlace(a) = p}
Under(p) == Sent(p) # {} /\ Unsent(p) \union Failing(p) # {}
InTurn(p) == \A q \in (Places \union {NoPlace}) \ {p} : ~Under(q)

View == <<selected, marker, pending, saved, history, touched, edits>>

Reaches(a) ==
    /\ server' = [server EXCEPT ![a] = SavePlace(a)]
    /\ stored' = stored \union {a}

\* A request that fails may have reached the backend.
FirstPass(a) ==
    /\ save.phase = "sending"
    /\ a \in save.first /\ InTurn(SavePlace(a))
    /\ \/ /\ Reaches(a)
          /\ save' = [save EXCEPT !.first = @ \ {a}, !.done = @ \union {a}]
          /\ UNCHANGED failures
       \/ /\ Fails
          /\ Reaches(a) \/ UNCHANGED <<server, stored>>
          /\ save' = [save EXCEPT !.first = @ \ {a}, !.again = @ \union {a}]
    /\ UNCHANGED View

\* Mutant: whatever has been retried counts as saved.
RetryPassTrusting(a) ==
    /\ save.phase = "sending"
    /\ a \in save.again /\ Unsent(SavePlace(a)) = {}
    /\ \/ Reaches(a) /\ UNCHANGED failures
       \/ Fails /\ UNCHANGED <<server, stored>>
    /\ save' = [save EXCEPT !.again = @ \ {a}, !.done = @ \union {a}]
    /\ UNCHANGED View

RetryPass(a) ==
    /\ save.phase = "sending"
    /\ a \in save.again /\ Unsent(SavePlace(a)) = {}
    /\ \/ /\ Reaches(a)
          /\ save' = [save EXCEPT !.again = @ \ {a}, !.done = @ \union {a}]
          /\ UNCHANGED failures
       \/ /\ Fails
          /\ Reaches(a) \/ UNCHANGED <<server, stored>>
          /\ save' = [save EXCEPT !.again = @ \ {a}, !.failed = @ \union {a}]
    /\ UNCHANGED View

AllSent == save.phase = "sending" /\ save.first = {} /\ save.again = {}

\* movePendingToSavedLocations, for saved: by what was pending when Save was pressed.
MovedToSaved ==
    [a \in Assets |->
        IF a \notin save.done THEN saved[a]
        ELSE IF save.pending[a] # NoLoc THEN save.pending[a]
        ELSE IF Pending(save.pending) = {} /\ saved[a] = NoLoc THEN save.fallback
        ELSE saved[a]]

Rest == <<server, undoStack, redoStack, touched, stored, edits>>

\* Mutant: everything that was sent leaves the pending locations.
FinishPartialDropping ==
    /\ AllSent /\ save.failed # {}
    /\ saved' = MovedToSaved
    /\ pending' = Without(pending, save.done \union save.failed)
    /\ selected' = save.selected \intersect save.failed
    /\ save' = NoSave
    /\ UNCHANGED <<Rest, marker, failures>>

\* Some failed: keepFailedSelection, from the selection at the time of the click.
FinishPartial ==
    /\ AllSent /\ save.failed # {}
    /\ saved' = MovedToSaved
    /\ pending' = Without(pending, Assets \ save.failed)
    /\ selected' = save.selected \intersect save.failed
    /\ save' = NoSave
    /\ UNCHANGED <<Rest, marker, failures>>

\* All saved: wait for the catalog.
BeginRefresh ==
    /\ AllSent /\ save.failed = {}
    /\ save' = [save EXCEPT !.phase = "refresh"]
    /\ UNCHANGED <<Rest, selected, marker, pending, saved, failures>>

\* clearSelectionAndPendingLocation.  The history stays.
RefreshSucceeds ==
    /\ save.phase = "refresh"
    /\ saved' = MovedToSaved
    /\ selected' = {} /\ marker' = NoLoc /\ pending' = NoLocs
    /\ save' = NoSave
    /\ UNCHANGED <<Rest, failures>>

\* Everything stays pending; the error is shown.
RefreshFails ==
    /\ save.phase = "refresh" /\ Fails
    /\ save' = NoSave
    /\ UNCHANGED <<Rest, selected, marker, pending, saved>>

\* clearOptimisticSavedLocation: the markers of the map have caught up.
MarkerCatchesUp(a) ==
    /\ pending[a] = NoLoc
    /\ saved[a] # NoLoc /\ saved[a].at = server[a] /\ server[a] # NoPlace
    /\ saved' = Without(saved, {a})
    /\ UNCHANGED <<Rest, selected, marker, pending, save, failures>>

-----------------------------------------------------------------------------
SaveStep ==
    \/ \E a \in Assets : FirstPass(a) \/ RetryPass(a)
    \/ FinishPartial \/ BeginRefresh \/ RefreshSucceeds \/ RefreshFails

Some == (SUBSET Assets) \ {{}}

Next ==
    \/ \E a \in Assets : SelectOne(a) \/ GoTo(a) \/ MarkerCatchesUp(a)
    \/ \E T \in SUBSET Assets : SelectMore(T)
    \/ ClearSelection \/ ClearMarker \/ Cancel
    \/ \E p \in Places : \/ Choose({}, p) \/ DragPin(p)
                         \/ \E a \in Assets : Choose({a}, p) \/ MoveMarker(a, p)
                         \/ \E T \in Some : ImportGPX(T, p)
    \/ \E T \in Some : \E to \in [T -> Places] : MoveGroup(T, to)
    \/ \E T \in Some : RemoveLocation(T) \/ \E emptied \in BOOLEAN : ResetPosition(T, emptied)
    \/ Undo \/ Redo
    \/ Save \/ SaveStep

Spec == Init /\ [][Next]_vars

-----------------------------------------------------------------------------
(* Properties                                                              *)

\* Undo and redo walk along one line of states and lose none of it, also when the stack
\* has been full and its oldest entry was dropped.
Timeline == undoStack \o <<Snapshot>> \o Reverse(redoStack)

TimelineKept == [][Undo \/ Redo => Timeline' = Timeline]_vars

\* What counts as saved is what the backend has, whatever the user edits meanwhile.
SavedIsStored == Saving => \A a \in save.done : server[a] = SavePlace(a)

\* After a save that failed in part, pressing Save again sends the photos that failed, to
\* the places they were meant for, and none of the photos that were saved; but for what the user changed
\* in the meantime.  (A save may be of the selection and the pin; once one photo of it has a
\* pending location of its own, the pin saves no other: that is a change to all of them.)
\* Readme.md: "failed assets remain selected with error context".
RetrySendsWhatFailed ==
    [][FinishPartial =>
        LET again == Payload(selected', marker', pending')
        IN  \A a \in Assets \ touched :
               /\ a \in save.failed => /\ a \in again
                                       /\ LocationOf(a, marker', pending').at = SavePlace(a)
               /\ a \in save.done => a \notin again]_vars

\* An entry marked as applied, which no save sends, says where the photo is, however it
\* was moved, imported anew, reset, undone and redone: until a save has moved the photo.
AppliedIsInPlace ==
    \A a \in Assets \ stored : pending[a].applied => pending[a].at = server[a]

\* "Go to location: jump to a photo's position on the map from the grid" (README.md): it
\* is no edit, so that no save sends a photo to the place the user looked at.
GoToSavesNothing ==
    \A a \in save.first : LocationOf(a, save.fallback, save.pending).source # "goto"
=============================================================================
