----------------------------- MODULE MCViewState -----------------------------
(* Small instances of ViewState and of the two halves of the map it is     *)
(* shown beside, MapOverlay and MapCamera.  The three share no variable: a *)
(* behaviour runs one and leaves the others in their initial states.       *)
EXTENDS ViewState, MapOverlay, MapCamera

VARIABLE part

MCInit ==
    /\ part \in {"view", "markers", "camera"}
    /\ Init /\ (part # "view" => url = Blank)
    /\ OverlayInit /\ CameraInit

MCNext ==
    \/ part = "view" /\ Next /\ UNCHANGED <<part, overlayVars, cameraVars>>
    \/ part = "markers" /\ OverlayNext /\ UNCHANGED <<part, vars, cameraVars>>
    \/ part = "camera" /\ CameraNext /\ UNCHANGED <<part, vars, overlayVars>>

MCSpec == MCInit /\ [][MCNext]_<<part, vars, overlayVars, cameraVars>>

\* Two photos at one place, and one without a location.
MCLocated == [p \in Photos |-> IF p = "r" THEN NoSpot ELSE 1]

MCSizes == <<90, 60>>
MCColumns == <<3, 4>>

\* A default address; a folder, named beside an album; values nobody wrote, and a tag on the
\* list of albums; a timeline with an album.
MCAddresses ==
    {Blank,
     [Blank EXCEPT !.mode = "folders", !.folder = "f", !.album = "a"],
     [Blank EXCEPT !.gps = "bad", !.size = 75, !.limit = 99, !.folder = "f", !.tag = "t", !.hidden = "all"],
     [Blank EXCEPT !.mode = "timeline", !.album = "a", !.start = "d", !.limit = 0]}

MCBacks == {[Blank EXCEPT !.mode = "folders", !.folder = "f", !.tag = "t"]}

==============================================================================
