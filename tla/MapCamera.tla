------------------------------- MODULE MapCamera -------------------------------
(***************************************************************************)
(* What the map looks at: the flights to a pin and to the markers of a new *)
(* filter, the user's own movements, and the bounds the markers are asked  *)
(* for (useMapViewBootstrap, usePendingSelectionMarker, useMapViewAutoFit).*)
(* A handler, the renders that follow and their effects are one step.      *)
(*                                                                         *)
(* A view is the set of the places it shows; the world is all of them.     *)
(* Leaflet drops a flight without a moveend when another movement begins.  *)
(***************************************************************************)
EXTENDS Integers, FiniteSets

CONSTANTS Places, Catalog,
          MaxFlights   \* bound on what the user and the application do

World == Places        \* MAP_DEFAULT_CENTER, MAP_DEFAULT_ZOOM
NoView == {}
NoAlbum == "none"
Import == "gpx-import"
NoPin == [at |-> {}, source |-> "none"]

ASSUME CameraAssumption ==
    /\ IsFiniteSet(Places) /\ Places # {} /\ MaxFlights \in Nat
    /\ IsFiniteSet(Catalog) /\ NoAlbum \notin Catalog /\ Import \notin Catalog

VARIABLES page,    \* what the hooks of the map are given
          cam,     \* Leaflet's map, the refs and the timers; crossed and back are history
          flights

cameraVars == <<page, cam, flights>>

CameraInit ==
    /\ page = [mode |-> "album", album |-> NoAlbum, tagged |-> FALSE, gps |-> "with",
               markers |-> {}, edits |-> {}, import |-> {}, pin |-> NoPin, chosen |-> FALSE,
               asked |-> NoView]
    /\ cam = [view |-> World, to |-> NoView, drag |-> FALSE, crossed |-> FALSE,
              programmatic |-> FALSE, fitted |-> "none", pinMark |-> {},
              key |-> World, timer |-> NoView, initial |-> "tiles", back |-> FALSE]
    /\ flights = 0

-----------------------------------------------------------------------------
(* Effects                                                                 *)

Album(b) == IF b.import # {} THEN Import ELSE b.album
Shown(b) == IF b.import # {} THEN b.import ELSE b.markers \union b.edits

Flight(c, v) == [c EXCEPT !.to = v, !.crossed = c.drag, !.programmatic = TRUE]

\* Mutant of Fit: a flight that is not announced.
FitUnannounced(c, v) == [c EXCEPT !.to = v, !.crossed = c.drag]

Fit(c, v) == Flight(c, v)

AutoFitKey(b) ==
    IF (b.album = NoAlbum /\ b.import = {} /\ (b.mode = "album" \/ b.gps = "without")) \/ Shown(b) = {}
    THEN "none" ELSE IF Album(b) = NoAlbum THEN "all" ELSE Album(b)

\* useMapAutoFit: a change of the filter waits for the next change of the markers.
AutoFit(a, b, c) ==
    IF Album(a) # Album(b) \/ a.tagged # b.tagged
    THEN LET reset == [c EXCEPT !.fitted = "none"]
         IN  IF Album(a) # Album(b) /\ Album(b) = NoAlbum THEN Fit(reset, World) ELSE reset
    ELSE IF <<Shown(a), a.gps, a.mode>> = <<Shown(b), b.gps, b.mode>>
            \/ AutoFitKey(b) \in {"none", c.fitted}
    THEN c
    ELSE Fit([c EXCEPT !.fitted = AutoFitKey(b)], Shown(b))

\* usePendingSelectionMarker: the marker of the pin is there without a selection only.
PinFlies(b, c) ==
    \/ b.pin.source \in {"goto", "search"}
    \/ b.pin # NoPin /\ b.pin.at # c.pinMark /\ ~(b.pin.at \subseteq c.view)

PinEffect(b, c) ==
    LET marked == [c EXCEPT !.pinMark = IF b.chosen \/ b.pin.source = "goto" THEN {} ELSE b.pin.at]
    IN  IF PinFlies(b, c) THEN Flight(marked, b.pin.at) ELSE marked

\* useMapMarkers forgets its markers with the filter, if there is something to ask for.
Forgets(a, b) ==
    /\ <<a.album, a.tagged>> # <<b.album, b.tagged>>
    /\ b.album # NoAlbum \/ b.tagged \/ b.asked # NoView

\* The first render and its effects, then the one for what the effects changed.
RenderMap(b, pinned, c) ==
    LET c1 == IF pinned \/ page.pin # b.pin THEN PinEffect(b, c) ELSE c
        b2 == [b EXCEPT !.pin = IF @.source = "goto" THEN NoPin ELSE @,
                        !.markers = IF Forgets(page, b) THEN {} ELSE @]
    IN  page' = b2 /\ cam' = AutoFit(b, b2, AutoFit(page, b, c1))

-----------------------------------------------------------------------------
(* The application                                                         *)

CameraAct == flights < MaxFlights /\ flights' = flights + 1

ShowAlbum(mode, album) ==
    /\ mode = "timeline" => album = NoAlbum
    /\ <<mode, album>> # <<page.mode, page.album>>
    /\ CameraAct /\ RenderMap([page EXCEPT !.mode = mode, !.album = album], FALSE, cam)

Filter == CameraAct /\ RenderMap([page EXCEPT !.tagged = ~@], FALSE, cam)
FilterGPS(g) == g # page.gps /\ CameraAct /\ RenderMap([page EXCEPT !.gps = g], FALSE, cam)

\* Pending locations of photos that have no marker; an import takes the place of all.
Edits(S) == S # page.edits /\ CameraAct /\ RenderMap([page EXCEPT !.edits = S], FALSE, cam)
Imports(S) == S # page.import /\ CameraAct /\ RenderMap([page EXCEPT !.import = S], FALSE, cam)

\* An answer of useMapMarkers.
MarkersArrive(S) ==
    /\ page.album # NoAlbum \/ page.tagged \/ page.asked # NoView
    /\ CameraAct /\ RenderMap([page EXCEPT !.markers = S], FALSE, cam)

SetPin(p, source) == CameraAct /\ RenderMap([page EXCEPT !.pin = [at |-> {p}, source |-> source]], TRUE, cam)

\* The marker of the pin is dragged: it is where the pin will be.
DragPin(p) ==
    /\ cam.pinMark # {} /\ CameraAct
    /\ RenderMap([page EXCEPT !.pin = [at |-> {p}, source |-> "marker"]], TRUE, [cam EXCEPT !.pinMark = {p}])

\* The first photo drops the pin, the second keeps it, and the effect runs again.
ToggleChosen == CameraAct /\ RenderMap([page EXCEPT !.chosen = ~@], TRUE, cam)
DropPin == page.pin # NoPin /\ CameraAct /\ RenderMap([page EXCEPT !.pin = NoPin], TRUE, cam)

-----------------------------------------------------------------------------
(* The map                                                                 *)

\* Mutant of SyncBounds: the timer that runs is left alone.
SyncBoundsOnce(c) ==
    IF c.view # c.key THEN [c EXCEPT !.timer = IF @ = NoView THEN c.view ELSE @, !.back = FALSE]
    ELSE [c EXCEPT !.back = c.timer # NoView]

\* syncMapBounds: back at what was asked for last, the timer is left as it is (cam.back notes that).
SyncBounds(c) ==
    IF c.view # c.key THEN [c EXCEPT !.timer = c.view, !.back = FALSE]
    ELSE [c EXCEPT !.back = c.timer # NoView]

\* handleMoveEnd
MoveEnd(c) ==
    LET synced == SyncBounds([c EXCEPT !.programmatic = FALSE])
    IN  RenderMap([page EXCEPT !.pin = IF c.programmatic THEN @ ELSE NoPin], FALSE, synced)

Lands ==
    /\ cam.to # NoView
    /\ MoveEnd([cam EXCEPT !.view = cam.to, !.to = NoView]) /\ UNCHANGED flights

\* Zoom buttons and wheel; handleLocateMe, whose answer comes at any time.
Moves(v) == CameraAct /\ MoveEnd([cam EXCEPT !.view = v, !.to = NoView])

DragStarts ==
    /\ ~cam.drag /\ CameraAct /\ UNCHANGED page
    /\ cam' = [cam EXCEPT !.drag = TRUE, !.to = NoView]

DragEnds(v) == cam.drag /\ UNCHANGED flights /\ MoveEnd([cam EXCEPT !.drag = FALSE, !.view = v])

\* The timer of syncMapBounds.
BoundsFire ==
    /\ cam.timer # NoView /\ UNCHANGED flights
    /\ RenderMap([page EXCEPT !.asked = cam.timer], FALSE, [cam EXCEPT !.key = cam.timer, !.timer = NoView])

\* The bounds of the start, once the tiles have loaded.
TilesLoad ==
    /\ cam.initial = "tiles" /\ UNCHANGED <<page, flights>>
    /\ cam' = [cam EXCEPT !.initial = "timer"]

InitialFires ==
    /\ cam.initial = "timer" /\ UNCHANGED flights
    /\ RenderMap([page EXCEPT !.asked = World], FALSE, [cam EXCEPT !.initial = "done"])

\* handleToggleTileLayer: a layer that was removed never reports that it has loaded.
ToggleTiles ==
    /\ cam.initial = "tiles" /\ UNCHANGED <<page, flights>>
    /\ cam' = [cam EXCEPT !.initial = "done"]

-----------------------------------------------------------------------------
Application ==
    \/ Filter \/ ToggleChosen \/ DropPin
    \/ \E mode \in {"timeline", "album"}, album \in Catalog \union {NoAlbum} : ShowAlbum(mode, album)
    \/ \E g \in {"with", "without"} : FilterGPS(g)
    \/ \E S \in SUBSET Places : Edits(S) \/ Imports(S) \/ MarkersArrive(S)
    \/ \E p \in Places : DragPin(p) \/ \E s \in {"search", "goto", "drop"} : SetPin(p, s)

Map ==
    \/ Lands \/ DragStarts \/ BoundsFire \/ TilesLoad \/ InitialFires \/ ToggleTiles
    \/ \E v \in (SUBSET Places) \ {{}} : Moves(v) \/ DragEnds(v)

CameraNext == Application \/ Map

CameraSpec == CameraInit /\ [][CameraNext]_cameraVars

-----------------------------------------------------------------------------
(***************************************************************************)
(* The end of a flight is not taken for a movement of the user, which      *)
(* drops the pin (handleMoveEnd), whatever other flights and movements     *)
(* took its place.  A flight that begins while the map is being dragged is *)
(* left out: the end of the drag uses up the flag, and the pin is lost.    *)
(***************************************************************************)
FlightsKeepThePin ==
    [][cam.to # NoView /\ ~cam.crossed /\ cam'.to = NoView => page'.pin = page.pin]_cameraVars

(***************************************************************************)
(* When the map rests, the bounds it shows are those last asked for by a   *)
(* movement, or the timer that will ask for them runs (syncMapBounds).     *)
(* Left out: the map has come back to what was asked for while a timer     *)
(* ran, which then asks for a part of the map that is not shown.           *)
(***************************************************************************)
BoundsAreOnTheWay ==
    cam.to = NoView /\ ~cam.drag /\ ~cam.back => cam.view = cam.key \/ cam.timer = cam.view
==============================================================================
