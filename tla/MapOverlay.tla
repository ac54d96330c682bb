------------------------------ MODULE MapOverlay ------------------------------
(***************************************************************************)
(* The markers of the map (features/map): which photos have one, where it  *)
(* stands and how it looks, the focus, the groups of markers at one place  *)
(* and moving such a group.  React knows nothing of it: the markers live   *)
(* in Leaflet and in refs, handlers change them, and the effects that run  *)
(* after a render bring them in step with the state of the application.    *)
(* A handler, its render and the effects of that render are one step.      *)
(*                                                                         *)
(* Places are integers, two markers at one place are a cluster that opens  *)
(* (spiderfies), and a move of a group adds to its places.  What Leaflet   *)
(* draws for a photo is an icon: its own, or the one of its cluster.  Undo *)
(* is left to the selection: here it would be one more edit.               *)
(***************************************************************************)
EXTENDS Integers, FiniteSets

CONSTANTS Photos,
          OnPage,      \* photos of the page of the grid: resolveAssetByID finds them
          Spots,       \* where things are put
          NoSpot,      \* no location
          Located,     \* where the backend has the photos at first
          MaxEdits,    \* bound on what other parts of the application do
          MaxActs      \* bound on what is done on the map

Zero == 0              \* "remove location" writes the coordinates 0, 0
NoPhoto == "none"

ASSUME OverlayAssumption ==
    /\ IsFiniteSet(Photos) /\ OnPage \subseteq Photos /\ NoPhoto \notin Photos
    /\ Spots \subseteq Nat \ {0} /\ NoSpot \notin Int
    /\ Located \in [Photos -> Spots \union {NoSpot}]
    /\ MaxEdits \in Nat /\ MaxActs \in Nat

VARIABLES app,     \* state of the application: what the hooks of the map are given
          map,     \* the layer, its markers and the refs
          elsewhere, acts

overlayVars == <<app, map, elsewhere, acts>>

Loc(at, source, applied) == [at |-> at, source |-> source, applied |-> applied, original |-> NoSpot]
Match(at, applied, original) == [Loc(at, "gpx", applied) EXCEPT !.original = original]
NoLoc == Loc(NoSpot, "none", FALSE)

(***************************************************************************)
(* A marker: its place; what its icon shows (selected, drawn: in grey) and *)
(* whether an effect drew it; the colour it remembers (markerGreyscale)    *)
(* and the one its click handler was made with (born); faded for a move.   *)
(***************************************************************************)
NoMark == [at |-> NoSpot, selected |-> FALSE, drawn |-> FALSE, sure |-> FALSE,
           grey |-> FALSE, born |-> FALSE, faded |-> FALSE]
NoPill == [center |-> NoSpot, group |-> {}, last |-> [p \in {} |-> NoSpot]]

\* The icons of the beginning, and the icon that was faded last: of a photo, or of the cluster at a place.
NoIcon == [photo |-> NoPhoto, at |-> NoSpot]
NoMove == [center |-> NoSpot, at |-> NoSpot, start |-> [p \in {} |-> NoSpot],
           icons |-> [p \in {} |-> NoIcon], last |-> NoIcon]

OverlayInit ==
    /\ app = [markers |-> [p \in Photos |-> NoSpot], truth |-> Located,
              pending |-> [p \in Photos |-> NoLoc], saved |-> [p \in Photos |-> NoSpot],
              selected |-> {}, pin |-> NoSpot, gps |-> "with"]
    /\ map = [layer |-> "none", marks |-> [p \in Photos |-> NoMark], focus |-> NoPhoto,
              known |-> {}, spider |-> NoSpot, pill |-> NoPill, move |-> NoMove,
              dim |-> {},        \* places whose cluster icon is faded
              apart |-> FALSE]   \* of the last move, with anything faded: its group came apart
    /\ elsewhere = 0 /\ acts = 0

-----------------------------------------------------------------------------
(* What is to be shown (useMapViewModel, overviewLayerHandlers)            *)

GPXMode(a) == \E p \in Photos : a.pending[p].source = "gpx"

\* The import takes the place of the markers; else pending photos join them.
Listed(a, p) ==
    IF GPXMode(a) THEN IF a.pending[p].source = "gpx" THEN a.pending[p].at ELSE NoSpot
    ELSE IF a.markers[p] # NoSpot \/ a.pending[p].source = "remove" THEN a.markers[p]
    ELSE a.pending[p].at

\* resolveMarkerData
Resolved(a, p) ==
    IF a.pending[p] # NoLoc THEN a.pending[p].at
    ELSE IF a.saved[p] # NoSpot THEN a.saved[p] ELSE Listed(a, p)

Layer(a) == IF ~GPXMode(a) /\ a.gps = "without" THEN "grey" ELSE "colour"

\* resolveMarkerGreyscale
Grey(a, p) == Layer(a) = "grey" \/ a.pending[p].applied

-----------------------------------------------------------------------------
(* Effects                                                                 *)

\* setIcon, by hand
Drawn(m, p, selected, grey) ==
    [m EXCEPT !.marks = [q \in Photos |->
        IF q = p /\ m.marks[q] # NoMark
        THEN [m.marks[q] EXCEPT !.selected = selected, !.drawn = grey, !.sure = FALSE]
        ELSE m.marks[q]]]

\* The colour of the layer: what was applied already is not asked.
Unfocused(b, m) == [Drawn(m, m.focus, FALSE, b.gps = "without") EXCEPT !.focus = NoPhoto]

\* useOverviewLayerFocusEffects: the pin is gone, or the focused photo is not selected.
FocusEffects(a, b, chose, m) ==
    IF \/ (a.pin # b.pin \/ a.gps # b.gps) /\ b.pin = NoSpot
       \/ (chose \/ a.gps # b.gps) /\ m.focus \notin b.selected
    THEN Unfocused(b, m) ELSE m

\* Mutant of ClearMove: the markers stay as the move left them.
ClearMoveKeeping(m) == [m EXCEPT !.pill = NoPill, !.move = NoMove]

\* clearGroupMoveArtifacts: the icons of the beginning are set again, colour and all, and what
\* was faded last is shown.
ClearMove(m) ==
    LET icons == m.move.icons
    IN  [m EXCEPT !.pill = NoPill, !.move = NoMove, !.dim = @ \ {m.move.last.at},
                  !.marks = [p \in Photos |->
                      IF p \in DOMAIN icons
                      THEN [m.marks[p] EXCEPT !.selected = icons[p].selected, !.drawn = icons[p].drawn,
                                              !.sure = FALSE, !.faded = FALSE]
                      ELSE [m.marks[p] EXCEPT !.faded = @ /\ p # m.move.last.photo]]]

\* The same with the layer in hand (clearGroupedMoveLayerStyles): all photos of the group.
ClearMoveOf(m) ==
    LET cleared == ClearMove(m)
    IN  [cleared EXCEPT !.marks = [p \in Photos |->
            [cleared.marks[p] EXCEPT !.faded = @ /\ p \notin DOMAIN m.move.start]]]

\* resetLayerState, when there is no layer yet or it has the other colour.
Recreated(b, m) ==
    IF Layer(b) = m.layer \/ (m.layer = "none" /\ \A p \in Photos : Listed(b, p) = NoSpot)
    THEN m
    ELSE [m EXCEPT !.layer = Layer(b), !.marks = [p \in Photos |-> NoMark], !.focus = NoPhoto,
                   !.spider = NoSpot, !.pill = NoPill, !.move = NoMove, !.dim = {}, !.apart = FALSE]

\* Mutant of SyncMark: a marker that is there stays where it is.
SyncMarkInPlace(b, m, p) ==
    LET old == m.marks[p]
        redraw == old = NoMark \/ old.grey # Grey(b, p)
    IN  IF Listed(b, p) = NoSpot THEN NoMark
        ELSE [at |-> IF old = NoMark THEN Resolved(b, p) ELSE old.at, grey |-> Grey(b, p),
              selected |-> IF redraw THEN p \in b.selected ELSE old.selected,
              drawn |-> IF redraw THEN Grey(b, p) ELSE old.drawn, sure |-> redraw \/ old.sure,
              born |-> IF old = NoMark THEN Grey(b, p) ELSE old.born,
              faded |-> old.faded /\ (m.pill # NoPill \/ m.move # NoMove)]

\* removeStaleMarkers, syncSingleMarker: an icon is drawn with the marker, or when the colour
\* that the marker remembers is another one.
SyncMark(b, m, p) ==
    LET old == m.marks[p]
        redraw == old = NoMark \/ old.grey # Grey(b, p)
    IN  IF Listed(b, p) = NoSpot THEN NoMark
        ELSE [at |-> Resolved(b, p), grey |-> Grey(b, p),
              selected |-> IF redraw THEN p \in b.selected ELSE old.selected,
              drawn |-> IF redraw THEN Grey(b, p) ELSE old.drawn, sure |-> redraw \/ old.sure,
              born |-> IF old = NoMark THEN Grey(b, p) ELSE old.born,
              faded |-> old.faded /\ (m.pill # NoPill \/ m.move # NoMove)]

\* A marker that is removed is still one of its group, but restoring it shows nothing.
Without(f, S) == [p \in DOMAIN f \ S |-> f[p]]
Removed(m, gone) ==
    [m EXCEPT !.focus = IF m.focus \in gone THEN NoPhoto ELSE @,
              !.move.icons = Without(@, gone),
              !.move.last = IF @.photo \in gone THEN NoIcon ELSE @,
              !.pill.last = [p \in DOMAIN @ \union (gone \intersect m.pill.group) |->
                                IF p \in DOMAIN @ THEN @[p] ELSE m.marks[p].at]]

\* syncMarkers
Synced(b, m) ==
    IF m.layer = "none" THEN m
    ELSE [Removed(m, {p \in Photos : m.marks[p] # NoMark /\ Listed(b, p) = NoSpot})
             EXCEPT !.marks = [p \in Photos |-> SyncMark(b, m, p)]]

\* useOverviewLayerSelectionSync: in the colour that the marker remembers.
SelectionSynced(b, m) ==
    [m EXCEPT !.known = b.selected,
              !.marks = [p \in Photos |->
                  IF (p \in b.selected) # (p \in m.known) /\ m.marks[p] # NoMark
                  THEN [m.marks[p] EXCEPT !.selected = p \in b.selected, !.drawn = m.marks[p].grey,
                                          !.sure = TRUE]
                  ELSE m.marks[p]]]

\* clearOptimisticSavedLocation: the answer agrees with what was saved.
Agreed(b) ==
    [b EXCEPT !.saved = [p \in Photos |->
        IF b.pending[p] = NoLoc /\ b.saved[p] = Listed(b, p) THEN NoSpot ELSE b.saved[p]]]

\* A photo alone at its place, or in the open cluster, has an icon of its own; the others share one.
On(m, x) == {p \in Photos : m.marks[p] # NoMark /\ m.marks[p].at = x}
Own(m, p) ==
    LET at == m.marks[p].at
    IN  m.marks[p] # NoMark /\ (On(m, at) = {p} \/ m.spider = at)

\* The group of the move is what the pill was made for: all of its markers, at their place.
Gathered(m) ==
    LET live == DOMAIN m.move.icons
    IN  live # {} /\ DOMAIN m.move.start \subseteq live /\ \A p \in live : m.marks[p].at = m.move.center

\* Leaflet makes icons anew: a cluster that opens or is no longer one, a marker that joins a
\* cluster, lose their style.  The markers of the move are faded by their options, too.
Settled(m) ==
    LET dim == {x \in m.dim : Cardinality(On(m, x)) > 1 /\ m.spider # x}
        marks == [p \in Photos |->
                     [m.marks[p] EXCEPT !.faded = @ /\ (p \in DOMAIN m.move.icons \/ Own(m, p))]]
    IN  [m EXCEPT !.dim = dim, !.marks = marks,
                  !.apart = IF m.move # NoMove THEN @ \/ ~Gathered(m)
                            ELSE @ /\ (dim # {} \/ \E p \in Photos : marks[p].faded)]

(***************************************************************************)
(* The application becomes b, the handler left the map as m, and the       *)
(* effects run in the order of useOverviewLayer.                           *)
(***************************************************************************)
Render(b, chose, m) ==
    LET focused == FocusEffects(app, b, chose, m)
    IN  IF b = app /\ ~chose THEN app' = app /\ map' = Settled(m)
        ELSE /\ app' = Agreed(b)
             /\ map' = Settled(SelectionSynced(b, Synced(b, Recreated(b, focused))))

-----------------------------------------------------------------------------
(* The rest of the application                                             *)

Edit == elsewhere < MaxEdits /\ elsewhere' = elsewhere + 1 /\ UNCHANGED acts

\* buildNextPendingLocations
Merged(old, new) ==
    IF old.source = "gpx" /\ new.source # "remove"
    THEN LET moved == old.applied /\ new.at # old.at
             said == IF new.source = "gpx" THEN new ELSE old
         IN  Match(new.at, said.applied /\ ~moved, said.original)
    ELSE new

\* setLocation
SetLocations(a, T, loc, pin) ==
    [a EXCEPT !.pin = pin,
              !.saved = [p \in Photos |-> IF p \in T THEN NoSpot ELSE @[p]],
              !.pending = [p \in Photos |-> IF p \in T THEN Merged(@[p], loc[p]) ELSE @[p]]]

SetLocation(a, T, loc, pin) == SetLocations(a, T, [p \in Photos |-> loc], pin)

\* The grid: one photo, or more, which leaves the pin.
Select(T, pin) ==
    /\ Edit
    /\ pin \in IF Cardinality(T) = 1 THEN {NoSpot} ELSE {app.pin}
    /\ Render([app EXCEPT !.selected = T, !.pin = pin], TRUE, map)

ClearSelection ==
    /\ Edit
    /\ Render([app EXCEPT !.selected = {}, !.pin = NoSpot, !.pending = [p \in Photos |-> NoLoc],
                          !.saved = [p \in Photos |-> NoSpot]], TRUE, map)

\* A search, a suggestion, a favourite; a photo dropped on the map.
Choose(dropped, x) ==
    LET T == IF dropped \subseteq app.selected THEN app.selected ELSE dropped
    IN  Edit /\ Render(SetLocation(app, T, Loc(x, "chosen", FALSE), x), FALSE, map)

ImportGPX(T, x) ==
    /\ Edit
    /\ Render(SetLocations(app, T, [p \in Photos |-> Match(x, app.truth[p] = x, app.truth[p])], NoSpot), FALSE, map)

\* The map was moved, or the pin clicked.
ClearPin == Edit /\ Render([app EXCEPT !.pin = NoSpot], FALSE, map)

Cancel ==
    /\ Edit
    /\ Render([app EXCEPT !.pin = NoSpot, !.pending = [p \in Photos |-> NoLoc]], FALSE, map)

\* All is saved; the markers are asked for again.
SaveAll ==
    LET T == {p \in Photos : app.pending[p] # NoLoc}
    IN  /\ Edit /\ T # {}
        /\ Render([app EXCEPT
                      !.truth = [p \in Photos |-> IF p \notin T THEN @[p]
                                     ELSE IF app.pending[p].source = "remove" THEN NoSpot ELSE app.pending[p].at],
                      !.saved = [p \in Photos |-> IF p \in T THEN app.pending[p].at ELSE @[p]],
                      !.pending = [p \in Photos |-> NoLoc], !.selected = {}, !.pin = NoSpot], TRUE, map)

\* An answer of useMapMarkers: the photos of some part of the map, or of some album.
Answer(T) ==
    /\ Edit
    /\ Render([app EXCEPT !.markers = [p \in Photos |-> IF p \in T THEN app.truth[p] ELSE NoSpot]],
              FALSE, map)

ChangeGPS(g) == Edit /\ Render([app EXCEPT !.gps = g], FALSE, map)

-----------------------------------------------------------------------------
(* The map                                                                 *)

Act == acts < MaxActs /\ acts' = acts + 1 /\ UNCHANGED elsewhere

HaveGPS == \A p \in app.selected : app.truth[p] # NoSpot /\ app.pending[p].source # "gpx"
Assigns == app.selected # {} /\ ~HaveGPS

\* A marker can be touched when it stands alone or its cluster is open, and is not faded.
At(x) == On(map, x)
Touchable(p) == Own(map, p) /\ ~map.marks[p].faded

\* attachClickHandlers: the colour the marker was made with, or the one of what was applied already.
ClickGrey(p) == map.marks[p].born \/ app.pending[p].applied

\* toggleAsset, when the photo is known.
Resolvable(p) == p \in OnPage \union app.selected
Toggled(p) ==
    IF Resolvable(p) THEN [app EXCEPT !.selected = IF @ = {p} THEN {} ELSE {p}, !.pin = NoSpot] ELSE app

\* handleMarkerClick
ClickAssigns(p) ==
    /\ Act /\ Touchable(p) /\ p \notin app.selected /\ Assigns
    /\ Render(SetLocation(app, app.selected, Loc(Resolved(app, p), "chosen", FALSE), Resolved(app, p)),
              FALSE, [map EXCEPT !.focus = p])

Blurs(p) == p \in app.selected \/ (~Assigns /\ (map.spider # NoSpot \/ map.focus = p))

ClickBlurs(p) ==
    /\ Act /\ Touchable(p) /\ Blurs(p)
    /\ Render(Toggled(p), Resolvable(p),
              [Drawn(map, p, FALSE, ClickGrey(p)) EXCEPT !.focus = IF @ = p THEN NoPhoto ELSE @])

ClickFocuses(p) ==
    /\ Act /\ Touchable(p) /\ ~Blurs(p) /\ ~Assigns
    /\ Render(Toggled(p), Resolvable(p),
              [Drawn(Drawn(map, map.focus, FALSE, ClickGrey(p)), p, TRUE, ClickGrey(p)) EXCEPT !.focus = p])

\* dragend
DragMarker(p, x) ==
    /\ Act /\ Touchable(p)
    /\ Render(SetLocation(app, IF p \in app.selected THEN app.selected ELSE {p}, Loc(x, "drag", FALSE), NoSpot),
              FALSE, ClearMoveOf([map EXCEPT !.marks[p].at = x]))

\* handleClusterClick, of places that differ, and of one place; far away it only flies there.
ZoomToCluster ==
    /\ Act /\ Cardinality({map.marks[p].at : p \in Photos} \ {NoSpot}) > 1
    /\ Render(app, FALSE, ClearMove(map))

Cluster(x) ==
    /\ Act /\ x # NoSpot /\ map.spider # x /\ Cardinality(At(x)) > 1
    /\ x \notin map.dim \/ x = map.move.center

ClickClusterAssigns(x) ==
    /\ Cluster(x) /\ Assigns
    /\ Render(SetLocation(app, app.selected, Loc(x, "chosen", FALSE), x), FALSE, ClearMove(map))

OpenCluster(x) ==
    /\ Cluster(x) /\ ~Assigns
    /\ Render(app, FALSE, [ClearMove(map) EXCEPT !.spider = x, !.pill = [NoPill EXCEPT !.center = x, !.group = At(x)]])

\* The context menu opens a cluster without the pill; zooming or clicking closes it.
SpiderfyCluster(x) == Cluster(x) /\ Render(app, FALSE, [map EXCEPT !.spider = x])
CloseCluster == Act /\ map.spider # NoSpot /\ Render(app, FALSE, [map EXCEPT !.spider = NoSpot])

\* activateGroupMoveMode
ClickPill ==
    LET pill == map.pill
        live == pill.group \ DOMAIN pill.last
        m == [ClearMove(map) EXCEPT !.spider = NoSpot]
    IN  /\ Act /\ pill # NoPill
        /\ Render(app, FALSE,
              [m EXCEPT !.marks = [p \in Photos |->
                            IF p \in live THEN [m.marks[p] EXCEPT !.faded = TRUE] ELSE m.marks[p]],
                        !.move = [center |-> pill.center, at |-> pill.center,
                                  start |-> [p \in pill.group |->
                                      IF p \in live THEN m.marks[p].at ELSE pill.last[p]],
                                  icons |-> [p \in live |-> [selected |-> m.marks[p].selected,
                                                              drawn |-> m.marks[p].drawn]],
                                  last |-> [NoIcon EXCEPT !.at = pill.center]],
                        !.dim = @ \union {pill.center}])

\* The icons that the photos of S show are faded; that of p was the last.
Faded(m, S, p) ==
    [m EXCEPT !.dim = @ \union {m.marks[q].at : q \in {q \in S : ~Own(m, q)}},
              !.marks = [q \in Photos |-> [m.marks[q] EXCEPT !.faded = @ \/ (q \in S /\ Own(m, q))]],
              !.move.last = IF Own(m, p) THEN [NoIcon EXCEPT !.photo = p]
                            ELSE [NoIcon EXCEPT !.at = m.marks[p].at]]

\* restoreGroupMoveSourceClusterIcon, after the anchor is put somewhere, a zoom or a pan: the
\* markers of the group; when none is left those that took their place; else what is nearest.
\* The map can be moved at any time, so it needs no bound.
RestoreFade(p) ==
    LET live == DOMAIN map.move.icons
        again == {q \in DOMAIN map.move.start : Own(map, q)}
        near == {q \in At(map.move.center) : Own(map, q)}
    IN  /\ UNCHANGED <<app, elsewhere, acts>> /\ map.move # NoMove
        /\ IF live # {} THEN p \in live /\ map' = Settled(Faded(map, live, p))
           ELSE IF again # {} THEN p \in again /\ map' = Settled(Faded(map, again, p))
           ELSE p \in near /\ map' = Settled(Faded(map, {p}, p))

\* The anchor is dragged, or the map clicked; Leaflet closes an open cluster.  It needs no bound.
MoveAnchor(x) ==
    /\ UNCHANGED <<elsewhere, acts>> /\ map.move # NoMove
    /\ Render(app, FALSE, [map EXCEPT !.move.at = x, !.spider = NoSpot])

\* The action bar.
CancelMove == Act /\ map.move # NoMove /\ Render(app, FALSE, ClearMove(map))

ConfirmMove ==
    LET move == map.move
        to == [p \in Photos |-> IF p \notin DOMAIN move.start THEN NoLoc
                                ELSE Loc(move.start[p] + (move.at - move.center), "drag", FALSE)]
    IN  /\ Act /\ move # NoMove
        /\ Render(SetLocations(app, DOMAIN move.start, to, NoSpot), FALSE, ClearMove(map))

\* handleClick: with nothing to move or close, the focused photo is placed, else the selection.
ClickMap(x) ==
    LET m == [map EXCEPT !.spider = NoSpot]
    IN  /\ Act /\ map.move = NoMove
        /\ IF map.pill # NoPill THEN Render(app, FALSE, ClearMove(m))
           ELSE IF map.spider # NoSpot THEN Render(app, FALSE, m)
           ELSE IF map.focus # NoPhoto
                THEN Render(SetLocation(app, {map.focus}, Loc(x, "drag", FALSE), NoSpot), FALSE, m)
           ELSE /\ app.selected # {}
                /\ Render(SetLocation(app, app.selected, Loc(x, "chosen", FALSE), x), FALSE, m)

\* The context menu of a marker.
ResetPosition(p) ==
    /\ Act /\ Touchable(p)
    /\ app.pending[p].source = "gpx" /\ ~app.pending[p].applied /\ app.pending[p].original # NoSpot
    /\ LET back == app.pending[p].original
       IN  Render(SetLocation(app, {p}, Match(back, TRUE, back), NoSpot), FALSE, map)

RemoveLocation(p) ==
    /\ Act /\ Touchable(p)
    /\ Render(SetLocation(app, {p}, Loc(Zero, "remove", FALSE), NoSpot), FALSE, map)

-----------------------------------------------------------------------------
Elsewhere ==
    \/ ClearSelection \/ ClearPin \/ Cancel \/ SaveAll
    \/ \E T \in SUBSET OnPage : Select(T, app.pin) \/ Select(T, NoSpot)
    \/ \E T \in SUBSET Photos : Answer(T)
    \/ \E x \in Spots :
          \/ \E p \in OnPage : Choose({p}, x)
          \/ Choose({}, x)
          \/ \E T \in (SUBSET Photos) \ {{}} : ImportGPX(T, x)
    \/ \E g \in {"with", "without", "all"} \ {app.gps} : ChangeGPS(g)

OnTheMap ==
    \/ ZoomToCluster \/ CloseCluster \/ ClickPill \/ CancelMove \/ ConfirmMove
    \/ \E p \in Photos :
          \/ ClickAssigns(p) \/ ClickBlurs(p) \/ ClickFocuses(p) \/ ResetPosition(p) \/ RemoveLocation(p)
          \/ RestoreFade(p)
          \/ \E x \in Spots : DragMarker(p, x)
    \/ \E x \in Spots :
          MoveAnchor(x) \/ ClickMap(x) \/ ClickClusterAssigns(x) \/ OpenCluster(x) \/ SpiderfyCluster(x)

OverlayNext == Elsewhere \/ OnTheMap

OverlaySpec == OverlayInit /\ [][OverlayNext]_overlayVars

-----------------------------------------------------------------------------
(***************************************************************************)
(* Whatever the handlers did to a marker, once the effects have run there  *)
(* is one for each photo to be shown, where the pending, the saved or the  *)
(* answered location says, and it remembers its colour; unless a click, a  *)
(* lost focus or the end of a move set its icon since, it shows it, too    *)
(* (overviewLayerMarkerSync, useOverviewLayerSelectionSync).               *)
(***************************************************************************)
MarkersFollowTheApplication ==
    \A p \in Photos :
        LET mark == map.marks[p]
        IN  /\ (mark # NoMark) <=> (Listed(app, p) # NoSpot)
            /\ mark # NoMark => mark.at = Resolved(app, p) /\ mark.grey = Grey(app, p)
            /\ mark.sure => mark.drawn = Grey(app, p)

(***************************************************************************)
(* An icon is faded only while its group is being moved, however often it  *)
(* is faded again for a zoom or a pan and however the move ends: applied,  *)
(* cancelled, a drag, another cluster, a new layer (groupMoveHelpers).     *)
(* Excused is what a group left behind that came apart during its move:    *)
(* its icons are faded one by one and only the last of them is remembered. *)
(***************************************************************************)
FadedOnlyInAMove ==
    \/ map.apart
    \/ /\ \A p \in Photos : map.marks[p].faded => p \in DOMAIN map.move.start
       /\ map.dim # {} => map.move # NoMove
==============================================================================
