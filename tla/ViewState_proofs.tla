--------------------------- MODULE ViewState_proofs ---------------------------
(***************************************************************************)
(* Theorems about what is on screen: the page of photos, the import panel  *)
(* and the address of ViewState, the markers of MapOverlay, and the camera *)
(* of MapCamera.  Each of the three systems has its invariant, a part of   *)
(* which carries each theorem; the lemmas follow the operators their       *)
(* handlers share (Show, EditsBecome, Render, RenderMap).                  *)
(***************************************************************************)
EXTENDS ViewState, MapOverlay, MapCamera, FiniteSetTheorems, TLAPS

------------------------------------------------------------------------------
(***************************************************************************)
(* The grid.  What the filter effect compares is always what is asked for, *)
(* and so is what a request under way was sent for, when it is not late.   *)
(***************************************************************************)
GridInv ==
    /\ asked = Query(view)
    /\ load # NoLoad => load.query = Query(view) \/ load.late
    /\ load # NoLoad => load.page # 0
    /\ grid.page # 0
    /\ GridShowsTheView

LEMMA PageLoads ==
    ASSUME NEW v, NEW p, p # 0, LoadPage(v, p)
    PROVE  load' # NoLoad /\ load'.query = Query(v) /\ load'.page # 0
<1>1. load' = [query |-> Query(v), page |-> p, by |-> "view", late |-> FALSE]
  BY DEF LoadPage
<1>2. load'.page = p /\ load'.query = Query(v) /\ NoLoad.page = 0
  BY <1>1 DEF NoLoad
<1> QED
  BY <1>2

LEMMA ShowGrid ==
    ASSUME GridInv, NEW v, NEW u, Show(v, u), UNCHANGED ready
    PROVE  GridInv'
<1>1. view' = Settle(v)
  BY DEF Show
<1>2. CASE Changed(v) \/ Changed(Settle(v))
  <2>1. asked' = Query(Settle(v)) /\ grid' = Cleared /\ LoadPage(Settle(v), 1)
    BY <1>2 DEF Show
  <2>2. load' # NoLoad /\ load'.query = Query(Settle(v)) /\ load'.page # 0
    BY <2>1, PageLoads
  <2>3. grid'.query = NoQuery /\ grid'.page = 1
    BY <2>1 DEF Cleared
  <2>4. Query(view)' = Query(Settle(v))
    BY <1>1 DEF Query
  <2> QED
    BY <2>1, <2>2, <2>3, <2>4 DEF GridInv, GridShowsTheView
<1>3. CASE ~(Changed(v) \/ Changed(Settle(v)))
  <2>1. UNCHANGED <<asked, grid, load, failed>> /\ Query(Settle(v)) = asked
    BY <1>3 DEF Show, Changed
  <2>2. Query(view)' = Query(Settle(v))
    BY <1>1 DEF Query
  <2> QED
    BY <2>1, <2>2 DEF GridInv, GridShowsTheView
<1> QED
  BY <1>2, <1>3

\* A page of the same view is asked for, in place of whatever was.
LEMMA LoadGrid ==
    ASSUME GridInv, NEW p, p # 0, LoadPage(view, p), UNCHANGED <<view, asked, grid>>
    PROVE  GridInv'
<1>1. load' # NoLoad /\ load'.query = Query(view) /\ load'.page # 0
  BY PageLoads
<1>2. Query(view)' = Query(view)
  BY DEF Query
<1> QED
  BY <1>1, <1>2 DEF GridInv, GridShowsTheView

\* A callback of an earlier view may ask for other photos; then its page is late.
LEMMA HeldGrid ==
    ASSUME GridInv, NEW who, NEW q, NEW p, p # 0, LoadHeld(who, q, p), UNCHANGED <<view, asked, grid>>
    PROVE  GridInv'
<1>1. load' = [query |-> q, page |-> p, by |-> who, late |-> q # Query(view)]
  BY DEF LoadHeld
<1>2. load'.page = p /\ load'.query = q /\ load'.late = (q # Query(view)) /\ NoLoad.page = 0
  BY <1>1 DEF NoLoad
<1>3. Query(view)' = Query(view)
  BY DEF Query
<1> QED
  BY <1>2, <1>3 DEF GridInv, GridShowsTheView

LEMMA SameGrid ==
    ASSUME GridInv, UNCHANGED <<view, ready, asked, grid, load, failed>>
    PROVE  GridInv'
BY DEF GridInv, GridShowsTheView, Query

LEMMA GridStep == GridInv /\ [Next]_vars => GridInv'
<1> SUFFICES ASSUME GridInv, [Next]_vars PROVE GridInv'
  OBVIOUS
<1>1. ASSUME NEW v, ChangeView(v) PROVE GridInv'
  BY <1>1, ShowGrid DEF ChangeView
<1>2. CASE Mount \/ (\E u \in Backs : Popstate(u)) \/ (\E f \in Folders : GoToFolder(f))
  BY <1>2, ShowGrid DEF Mount, Popstate, GoToFolder
<1>3. CASE FirstLoad
  BY <1>3, LoadGrid DEF FirstLoad
<1>4. ASSUME NEW n \in 0..MaxPages, Answered(n) PROVE GridInv'
  <2>1. /\ load # NoLoad /\ load' = NoLoad
        /\ grid' = [query |-> load.query, page |-> load.page, pages |-> n, late |-> load.late]
        /\ UNCHANGED <<view, ready, asked, failed>>
    BY <1>4 DEF Answered, screen
  <2>2. grid'.query = load.query /\ grid'.page = load.page /\ grid'.late = load.late
    BY <2>1
  <2>3. Query(view)' = Query(view)
    BY <2>1 DEF Query
  <2> QED
    BY <2>1, <2>2, <2>3 DEF GridInv, GridShowsTheView
<1>5. CASE LoadFails
  <2>1. load' = NoLoad /\ failed' = TRUE /\ UNCHANGED <<view, ready, asked, grid>>
    BY <1>5 DEF LoadFails, screen
  <2>2. Query(view)' = Query(view)
    BY <2>1 DEF Query
  <2> QED
    BY <2>1, <2>2 DEF GridInv, GridShowsTheView
<1>6. CASE \/ \E g \in GPS : SetGPS(g)
           \/ \E s, e \in Dates \union {None} : SetDates(s, e)
           \/ \E t \in Tags \union {None} : SetTag(t)
           \/ \E h \in Hidden : SetHidden(h)
           \/ \E s \in Offered(Sizes), c \in Offered(Columns) : SetLayout(s, c)
           \/ LimitDown \/ LimitUp
  BY <1>1, <1>6 DEF SetGPS, SetDates, SetTag, SetHidden, SetLayout, LimitDown, LimitUp
<1>7. CASE \/ \E m \in Modes : ToggleViewMode(m)
           \/ BackToAlbums \/ BackToFolders
           \/ \E a \in Albums : SelectAlbum(a)
           \/ \E f \in Folders : SelectFolder(f)
  BY <1>1, <1>7 DEF ToggleViewMode, BackToAlbums, BackToFolders, SelectAlbum, SelectFolder
<1>8. ASSUME NEW p \in 1..MaxPages, TurnPage(p) PROVE GridInv'
  BY <1>8, LoadGrid DEF TurnPage, screen
<1>9. ASSUME NEW e \in SUBSET {"placed", "gpx"}, Unplace(e) \/ SaveFails(e) PROVE GridInv'
  BY <1>9, SameGrid DEF Unplace, SaveFails, screen, shownPage
<1>10. CASE \/ Place \/ Upload \/ AskDawarich \/ CancelImport \/ UNCHANGED vars
            \/ SaveBegins \/ SaveEnds \/ HidePhotos \/ ChangeLibraries \/ CallbackFails
  BY <1>10, SameGrid DEF Place, Upload, AskDawarich, CancelImport, SaveBegins, SaveEnds, HidePhotos,
     ChangeLibraries, CallbackFails, vars, screen, shownPage
<1>12. CASE SaveReloads
  BY <1>12, HeldGrid DEF SaveReloads, GridInv, screen
<1>13. CASE CallbackLoads
  <2>1. (IF held.page = 0 THEN grid.page ELSE held.page) # 0
    BY DEF GridInv
  <2> QED
    BY <1>13, <2>1, HeldGrid DEF CallbackLoads, screen
<1>14. CASE Resynced
  BY <1>14, LoadGrid DEF Resynced, GridInv, screen
<1>15. CASE ClearCatalog
  <2>1. grid' = [Cleared EXCEPT !.late = TRUE] /\ load' = NoLoad /\ UNCHANGED <<view, asked>>
    BY <1>15 DEF ClearCatalog, screen
  <2>2. grid'.late /\ grid'.page = 1
    BY <2>1 DEF Cleared
  <2>3. Query(view)' = Query(view)
    BY <2>1 DEF Query
  <2> QED
    BY <2>1, <2>2, <2>3 DEF GridInv, GridShowsTheView
<1>11. ASSUME NEW from \in {"upload", "dawarich"}, NEW b \in BOOLEAN, ImportFails(from) \/ Imported(from, b)
       PROVE  GridInv'
  BY <1>11, SameGrid DEF ImportFails, Imported, screen, shownPage
<1> QED
  BY <1>2, <1>3, <1>4, <1>5, <1>6, <1>7, <1>8, <1>9, <1>10, <1>11, <1>12, <1>13, <1>14, <1>15 DEF Next

(***************************************************************************)
(* The photos on screen are those of the view, for any filters, pages and  *)
(* number of steps, but for a page that a callback of an earlier view      *)
(* asked for and a catalog that was cleared (useAssets, useCatalogDomain). *)
(***************************************************************************)
THEOREM GridIsOfTheView == Spec => []GridShowsTheView
<1>1. Init => GridInv
  <2> SUFFICES ASSUME Init PROVE GridInv
    OBVIOUS
  <2>1. grid.query = NoQuery /\ grid.page = 1 /\ load = NoLoad /\ asked = Query(view) /\ ~ready
    BY DEF Init, Cleared, Query
  <2> QED
    BY <2>1 DEF GridInv, GridShowsTheView
<1>2. GridInv => GridShowsTheView
  BY DEF GridInv
<1> QED
  BY <1>1, <1>2, GridStep, PTL DEF Spec

------------------------------------------------------------------------------
(***************************************************************************)
(* The panel of an import.                                                 *)
(***************************************************************************)
Panels == [step : {"upload", "preview"}, loading : BOOLEAN, failed : BOOLEAN,
           previews : {"none", "matched", "unmatched"}]

PanelInv == gpx \in Panels /\ PanelHasItsPhotos

\* The panel is there when there are previews, whatever the view is.
LEMMA PanelScreen ==
    (Screen(view) = "panel") <=> (gpx.step = "preview" /\ gpx.previews # "none")
BY DEF Screen

\* Without the panel, or with the import's places kept, edits may change.
LEMMA EditsPanel ==
    ASSUME PanelInv, UNCHANGED gpx,
           Screen(view) # "panel" \/ ("gpx" \in edits => "gpx" \in edits')
    PROVE  PanelInv'
<1>1. PanelHasItsPhotos <=> (gpx.step = "preview" /\ gpx.previews = "matched" => "gpx" \in edits)
  BY PanelScreen DEF PanelHasItsPhotos
<1>2. PanelHasItsPhotos' <=> (gpx'.step = "preview" /\ gpx'.previews = "matched" => "gpx" \in edits')
  BY DEF PanelHasItsPhotos, Screen
<1> QED
  BY <1>1, <1>2, PanelScreen DEF PanelInv

\* EditsBecome resets the import with its last place.
LEMMA BecomePanel ==
    ASSUME PanelInv, NEW e, EditsBecome(e)
    PROVE  PanelInv'
<1>1. CASE Screen(view) = "panel" /\ "gpx" \in edits /\ "gpx" \notin e
  <2>1. gpx' = NoImport
    BY <1>1 DEF EditsBecome
  <2>2. gpx' \in Panels /\ gpx'.previews = "none"
    BY <2>1 DEF NoImport, Panels
  <2> QED
    BY <2>2 DEF PanelInv, PanelHasItsPhotos, Screen
<1>2. CASE ~(Screen(view) = "panel" /\ "gpx" \in edits /\ "gpx" \notin e)
  <2>1. edits' = e /\ UNCHANGED gpx
    BY <1>2 DEF EditsBecome
  <2> QED
    BY <1>2, <2>1, EditsPanel
<1> QED
  BY <1>1, <1>2

LEMMA PanelStep == PanelInv /\ [Next]_vars => PanelInv'
<1> SUFFICES ASSUME PanelInv, [Next]_vars PROVE PanelInv'
  OBVIOUS
<1>1. ASSUME NEW g \in Panels, gpx' = g, g.step = "upload" \/ g.previews = "none" PROVE PanelInv'
  BY <1>1 DEF PanelInv, PanelHasItsPhotos, Screen
<1>2. CASE \/ Mount \/ FirstLoad \/ LoadFails
           \/ \E u \in Backs : Popstate(u)
           \/ \E n \in 0..MaxPages : Answered(n)
           \/ SaveBegins \/ SaveReloads \/ HidePhotos \/ ChangeLibraries \/ CallbackFails \/ Resynced
           \/ AskDawarich \/ UNCHANGED vars
  <2>1. UNCHANGED <<gpx, edits>>
    BY <1>2 DEF Mount, FirstLoad, LoadFails, Popstate, Answered, AskDawarich, SaveBegins, SaveReloads,
                HidePhotos, ChangeLibraries, CallbackFails, Resynced, vars
  <2> QED
    BY <2>1, EditsPanel
<1>3. CASE \/ \E g \in GPS : SetGPS(g)
           \/ \E s, e \in Dates \union {None} : SetDates(s, e)
           \/ \E t \in Tags \union {None} : SetTag(t)
           \/ \E h \in Hidden : SetHidden(h)
           \/ \E s \in Offered(Sizes), c \in Offered(Columns) : SetLayout(s, c)
           \/ LimitDown \/ LimitUp
           \/ \E a \in Albums : SelectAlbum(a)
           \/ \E f \in Folders : SelectFolder(f)
  <2>1. UNCHANGED <<gpx, edits>>
    BY <1>3 DEF SetGPS, SetDates, SetTag, SetHidden, SetLayout, LimitDown, LimitUp, SelectAlbum, SelectFolder,
                ChangeView
  <2> QED
    BY <2>1, EditsPanel
<1>4. CASE \/ \E m \in Modes : ToggleViewMode(m)
           \/ BackToAlbums \/ BackToFolders
           \/ \E p \in 1..MaxPages : TurnPage(p)
  <2>1. UNCHANGED gpx /\ Screen(view) # "panel"
    BY <1>4 DEF ToggleViewMode, BackToAlbums, BackToFolders, TurnPage, ChangeView
  <2> QED
    BY <2>1, EditsPanel
<1>5. CASE \/ \E f \in Folders : GoToFolder(f)
           \/ Place
           \/ \E e \in SUBSET {"placed", "gpx"} : Unplace(e) \/ SaveFails(e)
           \/ SaveEnds \/ ClearCatalog
  BY <1>5, BecomePanel DEF GoToFolder, Place, Unplace, SaveFails, SaveEnds, ClearCatalog
<1>10. CASE CallbackLoads
  BY <1>10, EditsPanel, BecomePanel DEF CallbackLoads
<1>6. CASE Upload
  <2>1. [gpx EXCEPT !.step = "upload", !.loading = TRUE, !.failed = FALSE] \in Panels
    BY DEF PanelInv, Panels
  <2>2. [gpx EXCEPT !.step = "upload", !.loading = TRUE, !.failed = FALSE].step = "upload"
    BY DEF PanelInv, Panels
  <2> QED
    BY <1>1, <1>6, <2>1, <2>2 DEF Upload
<1>7. CASE CancelImport
  <2>1. NoImport \in Panels /\ NoImport.previews = "none"
    BY DEF NoImport, Panels
  <2> QED
    BY <1>1, <1>7, <2>1 DEF CancelImport
<1>8. ASSUME NEW from \in {"upload", "dawarich"}, NEW b \in BOOLEAN, Imported(from, b) PROVE PanelInv'
  <2>1. PICK some \in BOOLEAN : gpx' = [step |-> "preview", loading |-> FALSE, failed |-> some,
                                         previews |-> IF b THEN "matched" ELSE "unmatched"]
    BY <1>8 DEF Imported
  <2>2. gpx' \in Panels /\ (gpx'.previews = "matched" => b)
    BY <2>1 DEF Panels
  <2>3. b => "gpx" \in edits'
    BY <1>8 DEF Imported
  <2> QED
    BY <2>2, <2>3 DEF PanelInv, PanelHasItsPhotos
<1>9. ASSUME NEW from \in {"upload", "dawarich"}, ImportFails(from) PROVE PanelInv'
  <2>1. edits' = edits /\ gpx' \in Panels /\ gpx'.step = gpx.step /\ gpx'.previews = gpx.previews
    BY <1>9 DEF ImportFails, PanelInv, Panels
  <2>2. Screen(view)' = "panel" => Screen(view) = "panel"
    BY <2>1 DEF Screen
  <2> QED
    BY <2>1, <2>2 DEF PanelInv, PanelHasItsPhotos
<1> QED
  BY <1>2, <1>3, <1>4, <1>5, <1>6, <1>7, <1>8, <1>9, <1>10 DEF Next

(***************************************************************************)
(* The panel goes away with the last place of its import, for any sequence *)
(* of uploads, edits, saves and views (GPXImportPanel, useGPXImport).      *)
(***************************************************************************)
THEOREM PanelsHaveTheirPhotos == Spec => []PanelHasItsPhotos
<1>1. Init => PanelInv
  BY DEF Init, NoImport, PanelInv, Panels, PanelHasItsPhotos
<1>2. PanelInv => PanelHasItsPhotos
  BY DEF PanelInv
<1> QED
  BY <1>1, <1>2, PanelStep, PTL DEF Spec

------------------------------------------------------------------------------
(***************************************************************************)
(* The limit of the filter bar: its options are a finite set of naturals,  *)
(* so that there is a next one in either direction, and Clamp keeps it     *)
(* between the limits.                                                     *)
(***************************************************************************)
Above(B, b) == {x \in B : b <= x}
Below(B, b) == {x \in B : x <= b}

LEMMA Sides ==
    ASSUME NEW B \in SUBSET Nat, NEW x \in B, NEW y \in B, x < y
    PROVE  /\ Above(B, y) \subseteq Above(B, x) /\ x \in Above(B, x) /\ x \notin Above(B, y)
           /\ Below(B, x) \subseteq Below(B, y) /\ y \in Below(B, y) /\ y \notin Below(B, x)
<1>1. x \in Nat /\ y \in Nat /\ x <= x /\ y <= y /\ ~(y <= x)
  OBVIOUS
<1>2. ASSUME NEW z \in B PROVE (y <= z => x <= z) /\ (z <= x => z <= y)
  <2>1. z \in Nat
    OBVIOUS
  <2> QED
    BY <1>1, <2>1
<1> QED
  BY <1>1, <1>2 DEF Above, Below

\* The well-founded order of the library is that of finite sets, here of either side.
LEMMA LastOfASet ==
    ASSUME NEW B \in SUBSET Nat, IsFiniteSet(B), B # {}
    PROVE  Max(B) \in B /\ Min(B) \in B
<1>0. \A b \in B : Above(B, b) \in SUBSET B /\ Below(B, b) \in SUBSET B
  BY DEF Above, Below
<1>1. \E b \in B : \A x \in B : b >= x
  <2> DEFINE T == {Above(B, b) : b \in B}
  <2>0. \A b \in B : Above(B, b) \in FiniteSubsetsOf(Nat)
    <3> TAKE b \in B
    <3>1. IsFiniteSet(Above(B, b))
      BY <1>0, FS_Subset
    <3> QED
      BY <1>0, <3>1 DEF FiniteSubsetsOf
  <2>1. T \subseteq FiniteSubsetsOf(Nat) /\ T # {}
    BY <2>0
  <2>2. PICK U \in T : \A V \in T : <<V, U>> \notin StrictSubsetOrdering(Nat)
    <3> HIDE DEF T
    <3> QED
      BY <2>1, FS_StrictSubsetOrderingWellFounded, WFMin
  <2>3. PICK b \in B : U = Above(B, b)
    OBVIOUS
  <2>4. ASSUME NEW x \in B, b < x PROVE FALSE
    <3>1. <<Above(B, x), U>> \in StrictSubsetOrdering(Nat)
      BY <1>0, <2>3, <2>4, Sides DEF StrictSubsetOrdering
    <3> QED
      BY <2>2, <3>1
  <2>5. ASSUME NEW x \in B PROVE b >= x
    <3>1. x \in Nat /\ b \in Nat
      OBVIOUS
    <3> QED
      BY <2>4, <3>1
  <2> QED
    BY <2>5
<1>2. \E b \in B : \A x \in B : b =< x
  <2> DEFINE T == {Below(B, b) : b \in B}
  <2>0. \A b \in B : Below(B, b) \in FiniteSubsetsOf(Nat)
    <3> TAKE b \in B
    <3>1. IsFiniteSet(Below(B, b))
      BY <1>0, FS_Subset
    <3> QED
      BY <1>0, <3>1 DEF FiniteSubsetsOf
  <2>1. T \subseteq FiniteSubsetsOf(Nat) /\ T # {}
    BY <2>0
  <2>2. PICK U \in T : \A V \in T : <<V, U>> \notin StrictSubsetOrdering(Nat)
    <3> HIDE DEF T
    <3> QED
      BY <2>1, FS_StrictSubsetOrderingWellFounded, WFMin
  <2>3. PICK b \in B : U = Below(B, b)
    OBVIOUS
  <2>4. ASSUME NEW x \in B, x < b PROVE FALSE
    <3>1. <<Below(B, x), U>> \in StrictSubsetOrdering(Nat)
      BY <1>0, <2>3, <2>4, Sides DEF StrictSubsetOrdering
    <3> QED
      BY <2>2, <3>1
  <2>5. ASSUME NEW x \in B PROVE b =< x
    <3>1. x \in Nat /\ b \in Nat
      OBVIOUS
    <3> QED
      BY <2>4, <3>1
  <2> QED
    BY <2>5
<1> QED
  BY <1>1, <1>2 DEF Max, Min

Limits == MinLimit..MaxLimit

LEMMA ClampHolds ==
    ASSUME NEW n \in Int
    PROVE  Clamp(n) \in Limits /\ (n \in Limits => Clamp(n) = n)
<1>0. MinLimit \in Int /\ MaxLimit \in Int /\ MinLimit <= MaxLimit
  BY ViewAssumption
<1>1. ASSUME NEW a \in Int, NEW b \in Int
      PROVE  Max({a, b}) = (IF a >= b THEN a ELSE b) /\ Min({a, b}) = (IF a =< b THEN a ELSE b)
  <2>1. \E x \in {a, b} : \A y \in {a, b} : x >= y
    OBVIOUS
  <2>2. \E x \in {a, b} : \A y \in {a, b} : x =< y
    OBVIOUS
  <2>3. Max({a, b}) \in {a, b} /\ \A y \in {a, b} : Max({a, b}) >= y
    BY <2>1 DEF Max
  <2>4. Min({a, b}) \in {a, b} /\ \A y \in {a, b} : Min({a, b}) =< y
    BY <2>2 DEF Min
  <2> QED
    BY <2>3, <2>4
<1> DEFINE m == Min({n, MaxLimit})
<1>2. m = IF n =< MaxLimit THEN n ELSE MaxLimit
  BY <1>0, <1>1
<1>3. m \in Int
  BY <1>0, <1>2
<1>4. Clamp(n) = Max({MinLimit, m})
  BY DEF Clamp
<1> HIDE DEF m
<1>5. Clamp(n) = IF MinLimit >= m THEN MinLimit ELSE m
  BY <1>0, <1>1, <1>3, <1>4
<1> QED
  BY <1>0, <1>2, <1>5 DEF Limits

LEMMA OptionsFinite == LimitOptions \in SUBSET Nat /\ IsFiniteSet(LimitOptions)
<1> DEFINE total == Min({MarkerCount, MaxLimit})
<1>1. MinLimit \in Nat /\ MaxLimit \in Nat /\ MarkerCount \in Nat
  BY ViewAssumption
<1>2. total \in Nat
  <2>1. \E x \in {MarkerCount, MaxLimit} : \A y \in {MarkerCount, MaxLimit} : x =< y
    BY <1>1
  <2>2. total \in {MarkerCount, MaxLimit}
    BY <2>1 DEF Min
  <2> QED
    BY <1>1, <2>2
<1> HIDE DEF total
<1>3. IsFiniteSet(MinLimit..total) /\ MinLimit..total \in SUBSET Nat
  BY <1>1, <1>2, FS_Interval
<1>4. LimitOptions \in SUBSET (MinLimit..total)
  BY DEF LimitOptions, total
<1> QED
  BY <1>3, <1>4, FS_Subset
------------------------------------------------------------------------------
(***************************************************************************)
(* The address.  A view that may be on screen (Views) has an album or a    *)
(* folder, as its mode says; read back, the address that is written for it *)
(* gives its fields one by one, because what stands for a field that is    *)
(* left out is none of its values.                                         *)
(***************************************************************************)
Views == {v \in [gps : GPS, hidden : Hidden, mode : Modes, album : Albums \union {None},
                 folder : Folders \union {None}, tag : Tags \union {None},
                 size : Offered(Sizes), columns : Offered(Columns), limit : Limits,
                 start : Dates \union {None}, end : Dates \union {None}] :
             IF v.mode = "folders" THEN v.album = None ELSE v.folder = None}

AddressInv ==
    /\ view \in Views /\ Settle(view) = view
    /\ ~open => url \in Addresses
    /\ ReloadShowsTheSameView

LEMMA Defaults ==
    /\ DefaultLimit \in Limits /\ DefaultLimit \in Int /\ NoNumber \notin Limits /\ Limits \subseteq Int
    /\ Sizes[1] \in Offered(Sizes) /\ Columns[1] \in Offered(Columns)
    /\ NoNumber \notin Offered(Sizes) /\ NoNumber \notin Offered(Columns)
    /\ None \notin Albums /\ None \notin Folders /\ None \notin Tags /\ None \notin Dates
BY ViewAssumption DEF Limits, Offered, NoNumber

\* What an address says is a view, and its folder is one that an address can hold.
LEMMA ReadIsAView ==
    ASSUME NEW u \in Addresses \union Backs
    PROVE  ReadURL(u) \in Views /\ Sanitized(ReadURL(u)) = ReadURL(u)
<1> DEFINE v == ReadURL(u)
<1>1. u.limit \in Int /\ u.folder \notin Unwritable
  BY ViewAssumption
<1>2. (IF u.limit = NoNumber THEN DefaultLimit ELSE Clamp(u.limit)) \in Limits
  BY <1>1, ClampHolds, Defaults
<1>3. v \in Views
  <2>1. v.gps \in GPS /\ v.hidden \in Hidden /\ v.mode \in Modes
    BY DEF ReadURL, Known, GPS, Hidden, Modes, Default
  <2> QED
    BY <1>2, <2>1, Defaults DEF ReadURL, Known, Views, Default
<1>4. v.folder \notin Unwritable \/ v.folder = None
  BY <1>1 DEF ReadURL, Known
<1> QED
  BY <1>3, <1>4 DEF Sanitized, Views

LEMMA SettledViews ==
    ASSUME NEW v \in Views
    PROVE  /\ Settle(v) \in Views /\ Settle(Settle(v)) = Settle(v)
           /\ Settle(v) = v => Settle(Sanitized(v)) = Sanitized(v)
<1>1. None \in Tags \union {None}
  OBVIOUS
<1>2. Settle(v) \in Views /\ Settle(Settle(v)) = Settle(v)
  BY DEF Settle, Views
<1>3. Settle(v) = v => Settle(Sanitized(v)) = Sanitized(v)
  BY DEF Settle, Sanitized, Views
<1> QED
  BY <1>2, <1>3

\* The address of a view, read back.
LEMMA RoundTrip ==
    ASSUME NEW v \in Views
    PROVE  ReadURL(BuildURL(v)) = Sanitized(v)
<1> DEFINE s == Sanitized(v)
           u == BuildURL(v)
<1>1. s = [v EXCEPT !.folder = IF v.folder \in Unwritable THEN None ELSE v.folder]
  BY DEF Sanitized
<1>2. /\ s \in Views
      /\ v.mode # "folders" => s.folder = None
  BY <1>1 DEF Views
<1>3. /\ u.gps = (IF s.gps = "with" THEN None ELSE s.gps)
      /\ u.hidden = (IF s.hidden = "visible" THEN None ELSE s.hidden)
      /\ u.mode = (IF s.mode = "album" THEN None ELSE s.mode)
      /\ u.album = s.album /\ u.folder = s.folder /\ u.tag = s.tag
      /\ u.size = (IF s.size = Sizes[1] THEN NoNumber ELSE s.size)
      /\ u.columns = (IF s.columns = Columns[1] THEN NoNumber ELSE s.columns)
      /\ u.limit = (IF s.limit = DefaultLimit THEN NoNumber ELSE s.limit)
      /\ u.start = s.start /\ u.end = s.end
  BY DEF BuildURL, Default, Blank
<1> HIDE DEF u
<1>4. /\ Known(u.gps, GPS, Default.gps) = s.gps
      /\ Known(u.hidden, Hidden, Default.hidden) = s.hidden
      /\ Known(u.mode, Modes, Default.mode) = s.mode
  BY <1>2, <1>3 DEF Views, Known, GPS, Hidden, Modes, Default, None
<1>5. /\ Known(u.album, Albums, None) = s.album /\ Known(u.folder, Folders, None) = s.folder
      /\ Known(u.tag, Tags, None) = s.tag
      /\ Known(u.start, Dates, None) = s.start /\ Known(u.end, Dates, None) = s.end
  BY <1>2, <1>3 DEF Views, Known
<1>6. /\ Known(u.size, Offered(Sizes), Default.size) = s.size
      /\ Known(u.columns, Offered(Columns), Default.columns) = s.columns
  BY <1>2, <1>3, Defaults DEF Views, Known, Default
<1>7. (IF u.limit = NoNumber THEN DefaultLimit ELSE Clamp(u.limit)) = s.limit
  <2>1. s.limit \in Limits /\ s.limit \in Int
    BY <1>2, Defaults DEF Views
  <2>2. Clamp(s.limit) = s.limit
    BY <2>1, ClampHolds
  <2>3. CASE s.limit = DefaultLimit
    BY <1>3, <2>3
  <2>4. CASE s.limit # DefaultLimit
    <3>1. u.limit = s.limit /\ s.limit # NoNumber
      BY <1>3, <2>1, <2>4, Defaults
    <3> QED
      BY <2>2, <3>1
  <2> QED
    BY <2>3, <2>4
<1>8. ReadURL(u) = [gps |-> s.gps, hidden |-> s.hidden, mode |-> s.mode, album |-> s.album,
                    folder |-> s.folder, tag |-> s.tag, size |-> s.size, columns |-> s.columns,
                    limit |-> s.limit, start |-> s.start, end |-> s.end]
  BY <1>2, <1>4, <1>5, <1>6, <1>7 DEF ReadURL, Views
<1> QED
  BY <1>2, <1>8 DEF u, Views

\* A view that is shown under an address that says it, or under its own.
LEMMA ShowAddress ==
    ASSUME NEW v \in Views, NEW u, Show(v, u), open',
           u = BuildURL(v) \/ (ReadURL(u) = v /\ Sanitized(v) = v)
    PROVE  AddressInv'
<1>1. view' = Settle(v) /\ url' = IF Settle(v) = v THEN u ELSE BuildURL(Settle(v))
  BY DEF Show
<1>2. Settle(v) \in Views /\ Settle(Settle(v)) = Settle(v)
  BY SettledViews
<1>3. Settle(ReadURL(url')) = Sanitized(view')
  <2>1. CASE Settle(v) = v /\ u # BuildURL(v)
    BY <1>1, <2>1
  <2>2. CASE ~(Settle(v) = v /\ u # BuildURL(v))
    <3>1. url' = BuildURL(Settle(v))
      BY <1>1, <2>2
    <3>2. ReadURL(url') = Sanitized(Settle(v))
      BY <1>2, <3>1, RoundTrip
    <3> QED
      BY <1>1, <1>2, <3>2, SettledViews
  <2> QED
    BY <2>1, <2>2
<1>4. ReloadShowsTheSameView'
  BY <1>3 DEF ReloadShowsTheSameView, Settle, ReadURL, Sanitized
<1> QED
  BY <1>1, <1>2, <1>4 DEF AddressInv, Settle

\* Every change of the user shows a view, under its own address.
LEMMA ChangedAddress ==
    ASSUME NEW v \in Views, User, Show(v, BuildURL(v)), UNCHANGED open
    PROVE  AddressInv'
<1>1. open'
  BY DEF User
<1> QED
  BY <1>1, ShowAddress

LEMMA KeptAddress ==
    ASSUME AddressInv, UNCHANGED <<view, url, open>>
    PROVE  AddressInv'
BY DEF AddressInv, ReloadShowsTheSameView

\* The limit goes to the next option, which exists when its button is enabled.
LEMMA LimitAddress ==
    ASSUME view \in Views, LimitDown \/ LimitUp
    PROVE  AddressInv'
<1> DEFINE lower == {o \in LimitOptions : o < ActiveLimit}
           upper == {o \in LimitOptions : o > ActiveLimit}
<1>1. /\ lower \in SUBSET Nat /\ IsFiniteSet(lower)
      /\ upper \in SUBSET Nat /\ IsFiniteSet(upper)
  BY OptionsFinite, FS_Subset
<1>2. ASSUME NEW n \in Int, ChangeView([view EXCEPT !.limit = Clamp(n)])
      PROVE  AddressInv'
  <2>1. [view EXCEPT !.limit = Clamp(n)] \in Views
    BY ClampHolds DEF Views
  <2> QED
    BY <1>2, <2>1, ChangedAddress DEF ChangeView
<1>3. CASE LimitDown
  <2>1. lower # {} /\ ChangeView([view EXCEPT !.limit = Clamp(Max(lower))])
    BY <1>3 DEF LimitDown
  <2>2. Max(lower) \in Int
    <3> HIDE DEF lower
    <3> QED
      BY <1>1, <2>1, LastOfASet
  <2> QED
    BY <1>2, <2>1, <2>2
<1>4. CASE LimitUp
  <2>1. upper # {} /\ ChangeView([view EXCEPT !.limit = Clamp(Min(upper))])
    BY <1>4 DEF LimitUp
  <2>2. Min(upper) \in Int
    <3> HIDE DEF upper
    <3> QED
      BY <1>1, <2>1, LastOfASet
  <2> QED
    BY <1>2, <2>1, <2>2
<1> QED
  BY <1>3, <1>4

LEMMA AddressStep ==
    AddressInv /\ [Next]_vars => AddressInv'
<1> SUFFICES ASSUME AddressInv, [Next]_vars PROVE AddressInv'
  OBVIOUS
<1>0. view \in Views
  BY DEF AddressInv
<1>1. ASSUME NEW v \in Views, ChangeView(v) PROVE AddressInv'
  BY <1>1, ChangedAddress DEF ChangeView
<1>2. CASE Mount
  <2>1. url \in Addresses /\ open' /\ Show(ReadURL(url), url)
    BY <1>2 DEF Mount, AddressInv
  <2> QED
    BY <2>1, ReadIsAView, ShowAddress
<1>3. ASSUME NEW u \in Backs, Popstate(u) PROVE AddressInv'
  <2>1. open' /\ Show(ReadURL(u), u)
    BY <1>3 DEF Popstate
  <2> QED
    BY <2>1, ReadIsAView, ShowAddress
<1>4. ASSUME NEW g \in GPS, SetGPS(g) PROVE AddressInv'
  BY <1>0, <1>1, <1>4 DEF SetGPS, Views
<1>5. ASSUME NEW s \in Dates \union {None}, NEW e \in Dates \union {None}, SetDates(s, e)
      PROVE  AddressInv'
  BY <1>0, <1>1, <1>5 DEF SetDates, Views
<1>6. ASSUME NEW t \in Tags \union {None}, SetTag(t) PROVE AddressInv'
  BY <1>0, <1>1, <1>6 DEF SetTag, Views
<1>7. ASSUME NEW h \in Hidden, SetHidden(h) PROVE AddressInv'
  BY <1>0, <1>1, <1>7 DEF SetHidden, Views
<1>8. ASSUME NEW s \in Offered(Sizes), NEW c \in Offered(Columns), SetLayout(s, c)
      PROVE  AddressInv'
  BY <1>0, <1>1, <1>8 DEF SetLayout, Views
<1>9. ASSUME NEW m \in Modes, ToggleViewMode(m) PROVE AddressInv'
  <2>1. CASE view.album # None \/ view.folder # None
    <3>1. [view EXCEPT !.mode = m, !.album = None, !.folder = None] \in Views
      BY <1>0 DEF Views
    <3> QED
      BY <1>1, <1>9, <2>1, <3>1 DEF ToggleViewMode
  <2>2. CASE view.album = None /\ view.folder = None
    <3>1. [view EXCEPT !.mode = m, !.tag = IF m = "album" THEN None ELSE @] \in Views
      BY <1>0, <2>2 DEF Views
    <3> QED
      BY <1>1, <1>9, <2>2, <3>1 DEF ToggleViewMode
  <2> QED
    BY <2>1, <2>2
<1>10. CASE BackToAlbums \/ BackToFolders
  <2>1. /\ [view EXCEPT !.album = None] \in Views
        /\ [view EXCEPT !.folder = None] \in Views
    BY <1>0 DEF Views
  <2> QED
    BY <1>1, <1>10, <2>1 DEF BackToAlbums, BackToFolders
<1>11. ASSUME NEW a \in Albums, SelectAlbum(a) PROVE AddressInv'
  <2>1. view.mode = "album"
    BY <1>11 DEF SelectAlbum, Screen
  <2>2. [view EXCEPT !.album = a] \in Views
    BY <1>0, <2>1 DEF Views
  <2> QED
    BY <1>1, <1>11, <2>2 DEF SelectAlbum
<1>12. ASSUME NEW f \in Folders, SelectFolder(f) PROVE AddressInv'
  <2>1. view.mode = "folders"
    BY <1>12 DEF SelectFolder, Screen
  <2>2. [view EXCEPT !.folder = f] \in Views
    BY <1>0, <2>1 DEF Views
  <2> QED
    BY <1>1, <1>12, <2>2 DEF SelectFolder
<1>13. ASSUME NEW f \in Folders, GoToFolder(f) PROVE AddressInv'
  <2> DEFINE v == [view EXCEPT !.gps = "all", !.mode = "folders", !.album = None, !.folder = f]
  <2>1. v \in Views
    BY <1>0 DEF Views, GPS, Modes
  <2>2. User /\ Show(v, BuildURL(v)) /\ UNCHANGED open
    BY <1>13 DEF GoToFolder
  <2> HIDE DEF v
  <2> QED
    BY <2>1, <2>2, ChangedAddress
<1>14. CASE LimitDown \/ LimitUp
  BY <1>0, <1>14, LimitAddress
<1>15. CASE \/ FirstLoad \/ LoadFails \/ Place \/ Upload \/ AskDawarich \/ CancelImport
            \/ \E n \in 0 .. MaxPages : Answered(n)
            \/ \E p \in 1 .. MaxPages : TurnPage(p)
            \/ \E e \in SUBSET {"placed", "gpx"} : Unplace(e) \/ SaveFails(e)
            \/ SaveBegins \/ SaveReloads \/ SaveEnds \/ HidePhotos \/ ChangeLibraries
            \/ CallbackFails \/ CallbackLoads \/ Resynced \/ ClearCatalog
            \/ \E from \in {"upload", "dawarich"} :
                  ImportFails(from) \/ \E matched \in BOOLEAN : Imported(from, matched)
            \/ UNCHANGED vars
  <2>1. UNCHANGED <<view, url, open>>
    BY <1>15 DEF FirstLoad, LoadFails, Place, Upload, AskDawarich, CancelImport, Answered,
                 TurnPage, Unplace, SaveFails, SaveBegins, SaveReloads, SaveEnds, HidePhotos, ChangeLibraries,
                 CallbackFails, CallbackLoads, Resynced, ClearCatalog, ImportFails, Imported, screen, vars
  <2> QED
    BY <2>1, KeptAddress
<1> QED
  BY <1>2, <1>3, <1>4, <1>5, <1>6, <1>7, <1>8, <1>9, <1>10, <1>11, <1>12, <1>13, <1>14, <1>15
  DEF Next

(***************************************************************************)
(* The address that is shown always brings back the view, in every mode,   *)
(* with every filter and after any way to it: it is written from the view, *)
(* or was read, whole, into it; and neither the effect that drops the tag  *)
(* of the list of albums nor the clamped limit comes between (useURLState, *)
(* useViewDomain, FilterBar).                                              *)
(***************************************************************************)
THEOREM AddressTellsTheView == Spec => []ReloadShowsTheSameView
<1>1. Init => AddressInv
  <2> SUFFICES ASSUME Init PROVE AddressInv
    OBVIOUS
  <2>1. view = Default /\ url \in Addresses /\ ~open
    BY DEF Init
  <2>2. Default \in Views
    BY Defaults DEF Default, Views, GPS, Hidden, Modes
  <2>3. Settle(Default) = Default
    BY DEF Settle, Default
  <2> QED
    BY <2>1, <2>2, <2>3 DEF AddressInv, ReloadShowsTheSameView
<1>2. AddressInv => ReloadShowsTheSameView
  BY DEF AddressInv
<1> QED
  BY <1>1, <1>2, AddressStep, PTL DEF Spec

------------------------------------------------------------------------------
(***************************************************************************)
(* The markers.  Handlers work on them as they stand, so that it has to be *)
(* an invariant that whatever is still remembered of one, by the pill of a *)
(* cluster or by a move, is of a marker that is there, and has a place.    *)
(***************************************************************************)
Sites == Int \union {NoSpot}
Partial(V) == UNION {[S -> V] : S \in SUBSET Photos}
Given == [at : Int, source : {"gpx", "remove", "chosen", "drag"}, applied : BOOLEAN, original : Sites]
Locs == {NoLoc} \union Given
Marks == [at : Sites, selected : BOOLEAN, drawn : BOOLEAN, sure : BOOLEAN,
          grey : BOOLEAN, born : BOOLEAN, faded : BOOLEAN]
Looks == [selected : BOOLEAN, drawn : BOOLEAN]
Icons == [photo : Photos \union {NoPhoto}, at : Sites]
Pills == [center : Sites, group : SUBSET Photos, last : Partial(Int)]
GroupMoves == [center : Sites, at : Sites, start : Partial(Int), icons : Partial(Looks), last : Icons]

Apps == [markers : [Photos -> Sites], truth : [Photos -> Sites], pending : [Photos -> Locs],
         saved : [Photos -> Sites], selected : SUBSET Photos, pin : Sites,
         gps : {"with", "without", "all"}]

Overlays == [layer : {"none", "grey", "colour"}, marks : [Photos -> Marks],
             focus : Photos \union {NoPhoto}, known : SUBSET Photos, spider : Sites,
             pill : Pills, move : GroupMoves, dim : SUBSET Sites, apart : BOOLEAN]

\* A marker stands somewhere, on a layer, and shows the colour an effect drew.
MarkHolds(m, p) ==
    /\ m.marks[p] # NoMark => m.marks[p].at \in Int /\ m.layer # "none"
    /\ m.marks[p].sure => m.marks[p].drawn = m.marks[p].grey
    /\ p \in DOMAIN m.move.icons \/ p \in m.pill.group \ DOMAIN m.pill.last => m.marks[p] # NoMark

\* What is faded is known to the move: markers by their icons, a cluster as what was faded last.
Kept(m) ==
    ~m.apart => /\ \A p \in Photos : m.marks[p].faded => p \in DOMAIN m.move.icons
                /\ m.dim \subseteq {m.move.last.at} \intersect {m.move.center}

Upright(m) ==
    /\ m \in Overlays
    /\ \A p \in Photos : MarkHolds(m, p)
    /\ DOMAIN m.move.icons \subseteq DOMAIN m.move.start
    /\ m.pill.group # {} => m.pill.center \in Int
    /\ DOMAIN m.move.start # {} => m.move.center \in Int /\ m.move.at \in Int
    /\ m.move.last.photo # NoPhoto => m.move.last.at = NoSpot
    /\ Kept(m)

\* Between two steps a group that is being moved is in one place, and only icons that are
\* drawn are faded.
Rested(m) ==
    /\ ~m.apart /\ m.move # NoMove => Gathered(m)
    /\ \A x \in m.dim : x # m.spider /\ Cardinality(On(m, x)) > 1

Follows(a, m, p) ==
    /\ (m.marks[p] # NoMark) <=> (Listed(a, p) # NoSpot)
    /\ m.marks[p] # NoMark => m.marks[p].at = Resolved(a, p) /\ m.marks[p].grey = Grey(a, p)

OverlayInv ==
    /\ app \in Apps
    /\ Upright(map) /\ Rested(map)
    /\ \A p \in Photos : Follows(app, map, p)

LEMMA Absent ==
    /\ NoSpot \in Sites /\ NoSpot \notin Int
    /\ NoMark \in Marks /\ NoLoc \in Locs
    /\ NoPill \in Pills /\ NoPill.group = {}
    /\ NoIcon \in Icons /\ NoIcon.at = NoSpot /\ NoIcon.photo = NoPhoto
    /\ NoMove \in GroupMoves /\ DOMAIN NoMove.start = {} /\ DOMAIN NoMove.icons = {}
    /\ NoMove.last = NoIcon /\ NoMove.center = NoSpot
<1>1. NoSpot \in Sites /\ NoSpot \notin Int /\ NoMark \in Marks /\ NoLoc \in Locs
  BY OverlayAssumption DEF Sites, Marks, NoMark, Locs
<1>2. [p \in {} |-> NoSpot] \in [{} -> Int] /\ [p \in {} |-> NoIcon] \in [{} -> Looks]
  OBVIOUS
<1>3. [p \in {} |-> NoSpot] \in Partial(Int) /\ [p \in {} |-> NoIcon] \in Partial(Looks)
  <2>1. {} \in SUBSET Photos
    OBVIOUS
  <2> QED
    BY <1>2, <2>1 DEF Partial
<1>4. NoPill \in Pills /\ NoPill.group = {}
  BY <1>1, <1>3 DEF NoPill, Pills
<1>5. NoIcon \in Icons /\ NoIcon.at = NoSpot /\ NoIcon.photo = NoPhoto
  BY <1>1 DEF NoIcon, Icons
<1>6. NoMove \in GroupMoves /\ NoMove.last = NoIcon /\ NoMove.center = NoSpot
  BY <1>1, <1>3, <1>5 DEF NoMove, GroupMoves
<1>7. DOMAIN NoMove.start = {} /\ DOMAIN NoMove.icons = {}
  BY DEF NoMove
<1> QED
  BY <1>1, <1>4, <1>5, <1>6, <1>7

\* What draws the icons of markers that are there, and maybe the focus, the pin of the
\* selection or the open cluster; what was faded may be shown.
LEMMA Touched ==
    ASSUME NEW m, NEW k, Upright(m), k \in Overlays,
           k.layer = m.layer, k.pill = m.pill, k.move = m.move, k.dim = m.dim, k.apart = m.apart,
           \A p \in Photos : /\ k.marks[p].at = m.marks[p].at /\ k.marks[p].grey = m.marks[p].grey
                             /\ k.marks[p].faded => m.marks[p].faded
                             /\ k.marks[p].sure => k.marks[p].drawn = k.marks[p].grey
                             /\ k.marks[p] = NoMark <=> m.marks[p] = NoMark
    PROVE  Upright(k) /\ \A a, p : p \in Photos /\ Follows(a, m, p) => Follows(a, k, p)
<1>1. \A p \in Photos : MarkHolds(k, p)
  BY DEF Upright, MarkHolds
<1>2. Kept(k)
  BY DEF Upright, Kept
<1>3. Upright(k)
  BY <1>1, <1>2 DEF Upright
<1>4. \A a, p : p \in Photos /\ Follows(a, m, p) => Follows(a, k, p)
  BY DEF Follows
<1> QED
  BY <1>3, <1>4

\* What stands somewhere is a mark.
LEMMA Standing == \A mark : mark.at \in Int => mark # NoMark
<1>1. NoMark.at = NoSpot
  BY DEF NoMark
<1> QED
  BY <1>1, Absent

\* A mark that is faded or shown is still one.
LEMMA FaintMark ==
    ASSUME NEW mark \in Marks, mark # NoMark => mark.at \in Int,
           NEW f \in BOOLEAN, f => mark # NoMark,
           NEW k, k = [mark EXCEPT !.faded = f]
    PROVE  /\ k \in Marks /\ (k = NoMark <=> mark = NoMark) /\ k.at = mark.at /\ k.grey = mark.grey
           /\ k.drawn = mark.drawn /\ k.sure = mark.sure /\ k.faded = f
<1>1. /\ k \in Marks /\ k.at = mark.at /\ k.grey = mark.grey
      /\ k.drawn = mark.drawn /\ k.sure = mark.sure /\ k.faded = f
  BY DEF Marks
<1>2. mark = NoMark => k = NoMark
  <2>1. NoMark.faded = FALSE
    BY DEF NoMark
  <2>2. \A r \in Marks : [r EXCEPT !.faded = r.faded] = r
    BY DEF Marks
  <2> SUFFICES ASSUME mark = NoMark PROVE k = NoMark
    OBVIOUS
  <2>3. f = mark.faded
    BY <2>1
  <2> QED
    BY <2>2, <2>3
<1>3. mark # NoMark => k # NoMark
  <2>1. NoMark.at = NoSpot
    BY DEF NoMark
  <2> QED
    BY <1>1, <2>1, Absent
<1> QED
  BY <1>1, <1>2, <1>3

LEMMA DrawnHolds ==
    ASSUME NEW m, Upright(m), NEW p, NEW s \in BOOLEAN, NEW grey \in BOOLEAN
    PROVE  /\ Upright(Drawn(m, p, s, grey))
           /\ \A a, q : q \in Photos /\ Follows(a, m, q) => Follows(a, Drawn(m, p, s, grey), q)
<1> DEFINE k == Drawn(m, p, s, grey)
<1>0. m \in Overlays
  BY DEF Upright
<1>1. /\ k = [m EXCEPT !.marks = k.marks]
      /\ \A q \in Photos : k.marks[q] = IF q = p /\ m.marks[q] # NoMark
             THEN [m.marks[q] EXCEPT !.selected = s, !.drawn = grey, !.sure = FALSE]
             ELSE m.marks[q]
  BY <1>0 DEF Drawn, Overlays
<1>2. ASSUME NEW q \in Photos
      PROVE  /\ k.marks[q] \in Marks
             /\ k.marks[q].at = m.marks[q].at /\ k.marks[q].grey = m.marks[q].grey
             /\ k.marks[q].faded => m.marks[q].faded
             /\ k.marks[q].sure => k.marks[q].drawn = k.marks[q].grey
             /\ k.marks[q] = NoMark <=> m.marks[q] = NoMark
  <2>1. m.marks[q] \in Marks /\ MarkHolds(m, q)
    BY <1>0 DEF Overlays, Upright
  <2>2. CASE q = p /\ m.marks[q] # NoMark
    <3>1. k.marks[q] = [m.marks[q] EXCEPT !.selected = s, !.drawn = grey, !.sure = FALSE]
      BY <1>1, <2>2
    <3>2. m.marks[q].at \in Int
      BY <2>1, <2>2 DEF MarkHolds
    <3> HIDE DEF k
    <3>3. /\ k.marks[q] \in Marks /\ k.marks[q].at = m.marks[q].at
          /\ k.marks[q].grey = m.marks[q].grey /\ k.marks[q].sure = FALSE
          /\ k.marks[q].faded = m.marks[q].faded
      BY <2>1, <3>1 DEF Marks
    <3>4. k.marks[q] # NoMark
      BY <3>2, <3>3, Standing
    <3> QED
      BY <2>2, <3>3, <3>4
  <2>3. CASE ~(q = p /\ m.marks[q] # NoMark)
    BY <1>1, <2>1, <2>3 DEF MarkHolds
  <2> QED
    BY <2>2, <2>3
<1>3. k.marks \in [Photos -> Marks]
  BY <1>0, <1>2 DEF Drawn, Overlays
<1>4. k \in Overlays
  BY <1>0, <1>1, <1>3 DEF Overlays
<1>5. k.layer = m.layer /\ k.pill = m.pill /\ k.move = m.move /\ k.dim = m.dim /\ k.apart = m.apart
  BY <1>0, <1>1 DEF Overlays
<1> HIDE DEF k
<1>6. Upright(k) /\ \A a, q : q \in Photos /\ Follows(a, m, q) => Follows(a, k, q)
  BY <1>2, <1>4, <1>5, Touched
<1> QED
  BY <1>6 DEF k

LEMMA ClearHolds ==
    ASSUME NEW m, Upright(m)
    PROVE  /\ Upright(ClearMove(m))
           /\ \A a, p : p \in Photos /\ Follows(a, m, p) => Follows(a, ClearMove(m), p)
           /\ \A p \in Photos : /\ ClearMove(m).marks[p].at = m.marks[p].at
                                /\ ClearMove(m).marks[p] = NoMark <=> m.marks[p] = NoMark
           /\ ClearMove(m).pill = NoPill /\ ClearMove(m).move = NoMove
           /\ ~ClearMove(m).apart => /\ ClearMove(m).dim = {}
                                     /\ \A p \in Photos : ~ClearMove(m).marks[p].faded
<1> DEFINE k == ClearMove(m)
           icons == m.move.icons
<1>0. m \in Overlays /\ icons \in Partial(Looks)
  BY DEF Upright, Overlays, GroupMoves
<1>1. /\ k = [m EXCEPT !.pill = NoPill, !.move = NoMove, !.dim = k.dim, !.marks = k.marks]
      /\ k.dim = m.dim \ {m.move.last.at}
      /\ \A p \in Photos : k.marks[p] = IF p \in DOMAIN icons
             THEN [m.marks[p] EXCEPT !.selected = icons[p].selected, !.drawn = icons[p].drawn,
                                     !.sure = FALSE, !.faded = FALSE]
             ELSE [m.marks[p] EXCEPT !.faded = m.marks[p].faded /\ p # m.move.last.photo]
  BY <1>0 DEF ClearMove, Overlays
<1>2. ASSUME NEW p \in Photos
      PROVE  /\ k.marks[p] \in Marks
             /\ k.marks[p].at = m.marks[p].at /\ k.marks[p].grey = m.marks[p].grey
             /\ k.marks[p].faded => m.marks[p].faded /\ p \notin DOMAIN icons
             /\ k.marks[p].sure => k.marks[p].drawn = k.marks[p].grey
             /\ k.marks[p] = NoMark <=> m.marks[p] = NoMark
  <2>1. m.marks[p] \in Marks /\ MarkHolds(m, p)
    BY <1>0 DEF Overlays, Upright
  <2>2. p \in DOMAIN icons => icons[p] \in Looks
    BY <1>0 DEF Partial
  <2>3. CASE p \in DOMAIN icons
    <3>1. m.marks[p] # NoMark /\ m.marks[p].at \in Int
      BY <2>1, <2>3 DEF MarkHolds
    <3>2. k.marks[p] = [m.marks[p] EXCEPT !.selected = icons[p].selected, !.drawn = icons[p].drawn,
                                          !.sure = FALSE, !.faded = FALSE]
      BY <1>1, <2>3
    <3>3. icons[p].selected \in BOOLEAN /\ icons[p].drawn \in BOOLEAN
      BY <2>2, <2>3 DEF Looks
    <3> HIDE DEF icons, k
    <3>4. /\ k.marks[p] \in Marks /\ k.marks[p].at = m.marks[p].at
          /\ k.marks[p].grey = m.marks[p].grey /\ k.marks[p].sure = FALSE /\ k.marks[p].faded = FALSE
      BY <2>1, <3>2, <3>3 DEF Marks
    <3>5. k.marks[p] # NoMark
      BY <3>1, <3>4, Standing
    <3> QED
      BY <3>1, <3>4, <3>5
  <2>4. CASE p \notin DOMAIN icons
    <3>1. k.marks[p] = [m.marks[p] EXCEPT !.faded = m.marks[p].faded /\ p # m.move.last.photo]
      BY <1>1, <2>4
    <3> DEFINE f == m.marks[p].faded /\ p # m.move.last.photo
    <3>2. f \in BOOLEAN /\ (f => m.marks[p].faded)
      BY <2>1 DEF Marks
    <3>3. k.marks[p] = [m.marks[p] EXCEPT !.faded = f]
      BY <3>1
    <3> HIDE DEF f, k, icons
    <3>4. f => m.marks[p] # NoMark
      BY <3>2 DEF NoMark
    <3>5. /\ k.marks[p] \in Marks /\ k.marks[p].at = m.marks[p].at /\ k.marks[p].grey = m.marks[p].grey
          /\ k.marks[p].drawn = m.marks[p].drawn /\ k.marks[p].sure = m.marks[p].sure
          /\ k.marks[p].faded = f /\ (k.marks[p] = NoMark <=> m.marks[p] = NoMark)
      BY <2>1, <3>2, <3>3, <3>4, FaintMark DEF MarkHolds
    <3> QED
      BY <2>1, <2>4, <3>2, <3>5 DEF MarkHolds
  <2> QED
    BY <2>3, <2>4
<1>3. k.marks \in [Photos -> Marks]
  BY <1>0, <1>2 DEF ClearMove, Overlays
<1>4. /\ k.layer = m.layer /\ k.pill = NoPill /\ k.move = NoMove /\ k.apart = m.apart
      /\ k.dim = m.dim \ {m.move.last.at}
  BY <1>0, <1>1 DEF Overlays
<1>5. k \in Overlays
  <2>1. k.dim \in SUBSET Sites
    BY <1>0, <1>4 DEF Overlays
  <2> QED
    BY <1>0, <1>1, <1>3, <2>1, Absent DEF Overlays
<1> HIDE DEF k
<1>6. ~k.apart => k.dim = {} /\ \A p \in Photos : ~k.marks[p].faded
  BY <1>2, <1>4 DEF Upright, Kept
<1>7. Upright(k)
  <2>1. ASSUME NEW p \in Photos PROVE MarkHolds(k, p)
    BY <1>2, <1>4, Absent DEF Upright, MarkHolds
  <2>2. Kept(k)
    BY <1>6 DEF Kept
  <2> QED
    BY <1>4, <1>5, <2>1, <2>2, Absent DEF Upright
<1>8. \A a, p : p \in Photos /\ Follows(a, m, p) => Follows(a, k, p)
  BY <1>2 DEF Follows
<1> QED
  BY <1>2, <1>4, <1>6, <1>7, <1>8 DEF k

\* The focus, an open cluster and what is known of the selection are of no marker.
LEMMA AsideHolds ==
    ASSUME NEW m, NEW k, Upright(m), k \in Overlays,
           \/ k = [m EXCEPT !.focus = k.focus] \/ k = [m EXCEPT !.known = k.known]
           \/ k = [m EXCEPT !.spider = k.spider]
    PROVE  Upright(k) /\ \A a, p : p \in Photos /\ Follows(a, m, p) => Follows(a, k, p)
<1>1. m \in Overlays
  BY DEF Upright
<1>2. /\ k.layer = m.layer /\ k.pill = m.pill /\ k.move = m.move /\ k.marks = m.marks
      /\ k.dim = m.dim /\ k.apart = m.apart
  BY <1>1 DEF Overlays
<1>3. \A p \in Photos : m.marks[p].sure => m.marks[p].drawn = m.marks[p].grey
  BY DEF Upright, MarkHolds
<1> QED
  BY <1>2, <1>3, Touched

LEMMA FocusHolds ==
    ASSUME NEW a, NEW b, NEW chose, NEW m, Upright(m)
    PROVE  Upright(FocusEffects(a, b, chose, m))
<1> DEFINE n == Drawn(m, m.focus, FALSE, b.gps = "without")
           k == [n EXCEPT !.focus = NoPhoto]
<1>1. Upright(n) /\ n \in Overlays
  <2>1. (b.gps = "without") \in BOOLEAN
    OBVIOUS
  <2> QED
    BY <2>1, DrawnHolds DEF Upright
<1> HIDE DEF n
<1>2. k \in Overlays /\ k = [n EXCEPT !.focus = k.focus]
  BY <1>1 DEF Overlays
<1>3. Upright(k)
  BY <1>1, <1>2, AsideHolds
<1> QED
  BY <1>3 DEF FocusEffects, Unfocused, n

LEMMA ShownIsThere ==
    ASSUME NEW b \in Apps, NEW p \in Photos
    PROVE  /\ Listed(b, p) \in Sites /\ Resolved(b, p) \in Sites
           /\ Listed(b, p) # NoSpot => Resolved(b, p) \in Int
           /\ Layer(b) \in {"grey", "colour"} /\ Grey(b, p) \in BOOLEAN
<1>1. /\ b.markers[p] \in Sites /\ b.saved[p] \in Sites /\ b.pending[p] \in Locs
  BY DEF Apps
<1>2. b.pending[p].at \in Sites /\ b.pending[p].applied \in BOOLEAN
  <2>1. CASE b.pending[p] = NoLoc
    BY <2>1, Absent DEF NoLoc, Loc
  <2>2. CASE b.pending[p] # NoLoc
    BY <1>1, <2>2 DEF Locs, Given, Sites
  <2> QED
    BY <2>1, <2>2
<1>3. b.pending[p] # NoLoc => b.pending[p].at \in Int
  BY <1>1 DEF Locs, Given
<1>4. Listed(b, p) \in Sites
  BY <1>1, <1>2, Absent DEF Listed
<1>5. Resolved(b, p) \in Sites /\ (Listed(b, p) # NoSpot => Resolved(b, p) \in Int)
  BY <1>1, <1>2, <1>3, <1>4 DEF Resolved, Sites
<1>6. Layer(b) \in {"grey", "colour"}
  BY DEF Layer
<1>7. Grey(b, p) \in BOOLEAN
  BY <1>2 DEF Grey
<1> QED
  BY <1>4, <1>5, <1>6, <1>7

LEMMA RecreatedHolds ==
    ASSUME NEW b \in Apps, NEW m, Upright(m)
    PROVE  /\ Upright(Recreated(b, m))
           /\ Recreated(b, m).layer = "none" => \A p \in Photos : Listed(b, p) = NoSpot
<1> DEFINE k == [m EXCEPT !.layer = Layer(b), !.marks = [p \in Photos |-> NoMark], !.focus = NoPhoto,
                          !.spider = NoSpot, !.pill = NoPill, !.move = NoMove, !.dim = {}, !.apart = FALSE]
<1>0. m \in Overlays
  BY DEF Upright
<1>1. Layer(b) \in {"grey", "colour"}
  BY DEF Layer
<1>2. Layer(b) \in {"none", "grey", "colour"}
  BY <1>1
<1>3. /\ k.layer = Layer(b) /\ k.marks = [p \in Photos |-> NoMark]
      /\ k.pill = NoPill /\ k.move = NoMove /\ k.dim = {}
  BY <1>0 DEF Overlays
<1>4. k \in Overlays
  <2>1. [p \in Photos |-> NoMark] \in [Photos -> Marks] /\ {} \in SUBSET Sites
    BY Absent
  <2> QED
    BY <1>0, <1>2, <2>1, Absent DEF Overlays
<1>5. ~NoMark.faded /\ ~NoMark.sure
  BY DEF NoMark
<1> HIDE DEF k
<1>6. Upright(k)
  BY <1>3, <1>4, <1>5, Absent DEF Upright, MarkHolds, Kept
<1>7. Recreated(b, m) = IF Layer(b) = m.layer \/ (m.layer = "none" /\ \A p \in Photos : Listed(b, p) = NoSpot)
                        THEN m ELSE k
  BY DEF Recreated, k
<1> QED
  BY <1>1, <1>3, <1>6, <1>7

\* removeStaleMarkers and syncSingleMarker
LEMMA SyncedHolds ==
    ASSUME NEW b \in Apps, NEW m, Upright(m),
           m.layer = "none" => \A p \in Photos : Listed(b, p) = NoSpot
    PROVE  Upright(Synced(b, m)) /\ \A p \in Photos : Follows(b, Synced(b, m), p)
<1>0. m \in Overlays /\ \A p \in Photos : MarkHolds(m, p)
  BY DEF Upright
<1>1. CASE m.layer = "none"
  <2>1. \A p \in Photos : m.marks[p] = NoMark
    BY <1>0, <1>1 DEF MarkHolds
  <2> QED
    BY <1>1, <2>1 DEF Synced, Follows
<1>2. CASE m.layer # "none"
  <2> DEFINE gone == {p \in Photos : m.marks[p] # NoMark /\ Listed(b, p) = NoSpot}
             n == Removed(m, gone)
             k == [n EXCEPT !.marks = [p \in Photos |-> SyncMark(b, m, p)]]
  <2>1. Synced(b, m) = k
    BY <1>2 DEF Synced
  <2>2. ASSUME NEW p \in Photos
        PROVE  LET mark == SyncMark(b, m, p)
               IN  /\ mark \in Marks
                   /\ IF Listed(b, p) = NoSpot THEN mark = NoMark
                      ELSE mark.at = Resolved(b, p) /\ mark.at \in Int /\ mark.grey = Grey(b, p)
                   /\ mark.faded => Listed(b, p) # NoSpot /\ m.marks[p].faded
                   /\ mark.sure => mark.drawn = mark.grey
    <3>1. m.marks[p] \in Marks /\ MarkHolds(m, p)
      BY <1>0 DEF Overlays
    <3>2. CASE Listed(b, p) = NoSpot
      BY <3>2, Absent DEF SyncMark, NoMark
    <3>3. CASE Listed(b, p) # NoSpot
      <4> DEFINE old == m.marks[p]
                 redraw == old = NoMark \/ old.grey # Grey(b, p)
                 s == IF redraw THEN p \in b.selected ELSE old.selected
                 d == IF redraw THEN Grey(b, p) ELSE old.drawn
                 u == redraw \/ old.sure
                 o == IF old = NoMark THEN Grey(b, p) ELSE old.born
                 f == old.faded /\ (m.pill # NoPill \/ m.move # NoMove)
      <4>1. SyncMark(b, m, p) = [at |-> Resolved(b, p), grey |-> Grey(b, p), selected |-> s, drawn |-> d,
                                 sure |-> u, born |-> o, faded |-> f]
        BY <3>3 DEF SyncMark
      <4>2. /\ old.selected \in BOOLEAN /\ old.faded \in BOOLEAN /\ old.drawn \in BOOLEAN
            /\ old.sure \in BOOLEAN /\ old.born \in BOOLEAN /\ old.grey \in BOOLEAN
            /\ old.sure => old.drawn = old.grey
        BY <3>1 DEF Marks, MarkHolds
      <4>3. Resolved(b, p) \in Int /\ Resolved(b, p) \in Sites /\ Grey(b, p) \in BOOLEAN
        BY <3>3, ShownIsThere
      <4>4. redraw \in BOOLEAN /\ (p \in b.selected) \in BOOLEAN
        OBVIOUS
      <4>5. ~redraw => old.grey = Grey(b, p)
        OBVIOUS
      <4> HIDE DEF redraw
      <4>6. s \in BOOLEAN /\ u \in BOOLEAN /\ f \in BOOLEAN /\ (f => old.faded)
        <5>1. s \in BOOLEAN
          BY <4>2, <4>4, Zenon
        <5>2. u \in BOOLEAN /\ f \in BOOLEAN /\ (f => old.faded)
          BY <4>2, <4>4
        <5> QED
          BY <5>1, <5>2
      <4>7. d \in BOOLEAN /\ o \in BOOLEAN /\ (u => d = Grey(b, p))
        BY <4>2, <4>3, <4>4, <4>5
      <4> HIDE DEF s, d, u, o, f
      <4> QED
        BY <3>3, <4>1, <4>3, <4>6, <4>7 DEF Marks
    <3> QED
      BY <3>2, <3>3
  <2>3. /\ DOMAIN n.move.icons = DOMAIN m.move.icons \ gone
        /\ n.move.icons \in Partial(Looks)
    <3>1. n.move.icons = Without(m.move.icons, gone)
      BY <1>0 DEF Removed, Overlays, GroupMoves
    <3>2. PICK S \in SUBSET Photos : m.move.icons \in [S -> Looks]
      BY <1>0 DEF Overlays, GroupMoves, Partial
    <3>3. n.move.icons \in [S \ gone -> Looks]
      BY <3>1, <3>2 DEF Without
    <3>4. S \ gone \in SUBSET Photos
      OBVIOUS
    <3> QED
      BY <3>2, <3>3, <3>4 DEF Partial
  <2>4. /\ DOMAIN n.pill.last = DOMAIN m.pill.last \union (gone \intersect m.pill.group)
        /\ n.pill.last \in Partial(Int)
    <3> DEFINE D == DOMAIN m.pill.last \union (gone \intersect m.pill.group)
    <3>1. n.pill.last = [p \in D |-> IF p \in DOMAIN m.pill.last THEN m.pill.last[p] ELSE m.marks[p].at]
      BY <1>0 DEF Removed, Overlays, Pills
    <3>2. PICK S \in SUBSET Photos : m.pill.last \in [S -> Int]
      BY <1>0 DEF Overlays, Pills, Partial
    <3>3. \A p \in gone : m.marks[p].at \in Int
      BY <1>0 DEF MarkHolds
    <3>4. n.pill.last \in [D -> Int] /\ D \in SUBSET Photos
      BY <3>1, <3>2, <3>3
    <3> QED
      BY <3>1, <3>4 DEF Partial
  <2>5. /\ k.layer = m.layer /\ k.marks = [p \in Photos |-> SyncMark(b, m, p)]
        /\ k.pill.group = m.pill.group /\ k.pill.center = m.pill.center
        /\ k.pill.last = n.pill.last /\ k.move.icons = n.move.icons
        /\ k.move.start = m.move.start /\ k.move.at = m.move.at /\ k.move.center = m.move.center
        /\ k.dim = m.dim /\ k.apart = m.apart
    BY <1>0 DEF Removed, Overlays, Pills, GroupMoves
  <2>6. k.move.last = (IF m.move.last.photo \in gone THEN NoIcon ELSE m.move.last) /\ n.move.last = k.move.last
    BY <1>0 DEF Removed, Overlays, GroupMoves
  <2>7. k.move.last \in Icons
    BY <1>0, <2>6, Absent DEF Overlays, GroupMoves
  <2>8. k \in Overlays
    <3>1. k.marks \in [Photos -> Marks]
      BY <2>2, <2>5
    <3>2. n \in Overlays
      <4> HIDE DEF gone, k
      <4>1. n.pill = [m.pill EXCEPT !.last = n.pill.last] /\ n.move = [m.move EXCEPT !.icons = n.move.icons, !.last = n.move.last]
        BY <1>0 DEF Removed, Overlays, Pills, GroupMoves
      <4>2. n.pill \in Pills
        BY <1>0, <2>4, <4>1 DEF Overlays, Pills
      <4>3. n.move \in GroupMoves
        BY <1>0, <2>3, <2>6, <2>7, <4>1 DEF Overlays, GroupMoves
      <4>4. n = [m EXCEPT !.focus = n.focus, !.move = n.move, !.pill = n.pill]
            /\ n.focus \in Photos \union {NoPhoto}
        BY <1>0 DEF Removed, Overlays
      <4> HIDE DEF n
      <4> QED
        BY <1>0, <4>2, <4>3, <4>4 DEF Overlays
    <3> HIDE DEF n
    <3> QED
      BY <3>1, <3>2 DEF Overlays
  <2> HIDE DEF k, n, gone
  <2>9. ASSUME NEW p \in Photos PROVE MarkHolds(k, p) /\ Follows(b, k, p)
    <3>1. k.marks[p] = SyncMark(b, m, p)
      BY <2>5
    <3>2. k.marks[p] # NoMark <=> Listed(b, p) # NoSpot
      BY <2>2, <3>1, Absent DEF NoMark
    <3>3. Follows(b, k, p)
      BY <2>2, <3>1, <3>2 DEF Follows
    <3>4. k.marks[p] # NoMark => k.marks[p].at \in Int /\ k.layer # "none"
      BY <1>2, <2>2, <2>5, <3>1, <3>2
    <3>5. p \in gone <=> m.marks[p] # NoMark /\ Listed(b, p) = NoSpot
      BY DEF gone
    <3>6. k.marks[p].sure => k.marks[p].drawn = k.marks[p].grey
      BY <2>2, <3>1
    <3>7. p \in DOMAIN k.move.icons \/ p \in k.pill.group \ DOMAIN k.pill.last => k.marks[p] # NoMark
      BY <1>0, <2>3, <2>4, <2>5, <3>2, <3>5 DEF MarkHolds
    <3> QED
      BY <3>3, <3>4, <3>6, <3>7 DEF MarkHolds
  <2>10. Kept(k)
    <3>1. SUFFICES ASSUME ~k.apart PROVE Kept(k)
      BY DEF Kept
    <3>2. Kept(m) /\ ~m.apart
      BY <2>5, <3>1 DEF Upright
    <3>3. ASSUME NEW p \in Photos, k.marks[p].faded PROVE p \in DOMAIN k.move.icons
      <4>1. Listed(b, p) # NoSpot /\ m.marks[p].faded
        BY <2>2, <2>5, <3>3
      <4> QED
        BY <2>3, <2>5, <3>2, <4>1 DEF Kept, gone
    <3>4. k.move.last.at = m.move.last.at \/ k.dim = {}
      <4>1. CASE m.move.last.photo \in gone
        <5>1. \A x \in k.dim : x = m.move.last.at
          BY <2>5, <3>2 DEF Kept
        <5>2. m.move.last.photo # NoPhoto
          BY <4>1, OverlayAssumption DEF gone
        <5>3. m.move.last.at = NoSpot
          BY <5>2 DEF Upright
        <5> QED
          BY <2>6, <4>1, <5>3, Absent
      <4>2. CASE m.move.last.photo \notin gone
        BY <2>6, <4>2
      <4> QED
        BY <4>1, <4>2
    <3> QED
      BY <2>5, <3>2, <3>3, <3>4 DEF Kept
  <2>11. k.move.last.photo # NoPhoto => k.move.last.at = NoSpot
    BY <2>6, Absent DEF Upright
  <2>12. Upright(k)
    BY <2>3, <2>5, <2>8, <2>9, <2>10, <2>11 DEF Upright
  <2> QED
    BY <2>1, <2>9, <2>12
<1> QED
  BY <1>1, <1>2

\* useOverviewLayerSelectionSync
LEMMA SelectionHolds ==
    ASSUME NEW b \in Apps, NEW m, Upright(m)
    PROVE  /\ Upright(SelectionSynced(b, m))
           /\ \A a, q : q \in Photos /\ Follows(a, m, q) => Follows(a, SelectionSynced(b, m), q)
<1> DEFINE k == SelectionSynced(b, m)
<1>0. m \in Overlays
  BY DEF Upright
<1>1. /\ k = [m EXCEPT !.known = b.selected, !.marks = k.marks]
      /\ \A q \in Photos : k.marks[q] = IF (q \in b.selected) # (q \in m.known) /\ m.marks[q] # NoMark
             THEN [m.marks[q] EXCEPT !.selected = q \in b.selected, !.drawn = m.marks[q].grey, !.sure = TRUE]
             ELSE m.marks[q]
  BY <1>0 DEF SelectionSynced, Overlays
<1>2. ASSUME NEW q \in Photos
      PROVE  /\ k.marks[q] \in Marks
             /\ k.marks[q].at = m.marks[q].at /\ k.marks[q].grey = m.marks[q].grey
             /\ k.marks[q].faded => m.marks[q].faded
             /\ k.marks[q].sure => k.marks[q].drawn = k.marks[q].grey
             /\ k.marks[q] = NoMark <=> m.marks[q] = NoMark
  <2>1. m.marks[q] \in Marks /\ MarkHolds(m, q)
    BY <1>0 DEF Overlays, Upright
  <2>2. CASE (q \in b.selected) # (q \in m.known) /\ m.marks[q] # NoMark
    <3> DEFINE s == q \in b.selected
    <3>1. k.marks[q] = [m.marks[q] EXCEPT !.selected = s, !.drawn = m.marks[q].grey, !.sure = TRUE]
      BY <1>1, <2>2
    <3>2. s \in BOOLEAN
      OBVIOUS
    <3> HIDE DEF s
    <3>3. m.marks[q].at \in Int
      BY <2>1, <2>2 DEF MarkHolds
    <3> HIDE DEF k
    <3>4. /\ k.marks[q] \in Marks /\ k.marks[q].at = m.marks[q].at
          /\ k.marks[q].grey = m.marks[q].grey /\ k.marks[q].drawn = m.marks[q].grey
          /\ k.marks[q].faded = m.marks[q].faded
      BY <2>1, <3>1, <3>2 DEF Marks
    <3>5. k.marks[q] # NoMark
      BY <3>3, <3>4, Standing
    <3> QED
      BY <2>2, <3>4, <3>5
  <2>3. CASE ~((q \in b.selected) # (q \in m.known) /\ m.marks[q] # NoMark)
    BY <1>1, <2>1, <2>3 DEF MarkHolds
  <2> QED
    BY <2>2, <2>3
<1>3. k.marks \in [Photos -> Marks]
  BY <1>0, <1>2 DEF SelectionSynced, Overlays
<1>4. k \in Overlays
  <2>1. b.selected \in SUBSET Photos
    BY DEF Apps
  <2> QED
    BY <1>0, <1>1, <1>3, <2>1 DEF Overlays
<1>5. k.layer = m.layer /\ k.pill = m.pill /\ k.move = m.move /\ k.dim = m.dim /\ k.apart = m.apart
  BY <1>0, <1>1 DEF Overlays
<1> HIDE DEF k
<1>6. Upright(k) /\ \A a, q : q \in Photos /\ Follows(a, m, q) => Follows(a, k, q)
  BY <1>2, <1>4, <1>5, Touched
<1> QED
  BY <1>6 DEF k

LEMMA AgreedHolds ==
    ASSUME NEW b \in Apps
    PROVE  /\ Agreed(b) \in Apps
           /\ \A m, p : p \in Photos /\ Follows(b, m, p) => Follows(Agreed(b), m, p)
<1> DEFINE c == Agreed(b)
<1>1. /\ c.pending = b.pending /\ c.markers = b.markers /\ c.gps = b.gps
      /\ \A p \in Photos : c.saved[p] = IF b.pending[p] = NoLoc /\ b.saved[p] = Listed(b, p)
                                        THEN NoSpot ELSE b.saved[p]
  BY DEF Agreed, Apps
<1>2. c \in Apps
  <2>1. [p \in Photos |-> IF b.pending[p] = NoLoc /\ b.saved[p] = Listed(b, p)
                          THEN NoSpot ELSE b.saved[p]] \in [Photos -> Sites]
    BY Absent DEF Apps
  <2> QED
    BY <2>1 DEF Agreed, Apps
<1> HIDE DEF c
<1>3. GPXMode(c) <=> GPXMode(b)
  BY <1>1 DEF GPXMode
<1>4. ASSUME NEW p \in Photos
      PROVE  Listed(c, p) = Listed(b, p) /\ Resolved(c, p) = Resolved(b, p) /\ Grey(c, p) = Grey(b, p)
  <2>1. Listed(c, p) = Listed(b, p)
    BY <1>1, <1>3 DEF Listed
  <2>2. Resolved(c, p) = Resolved(b, p)
    BY <1>1, <2>1 DEF Resolved
  <2>3. Layer(c) = Layer(b)
    BY <1>1, <1>3 DEF Layer
  <2>4. Grey(c, p) = Grey(b, p)
    BY <1>1, <2>3 DEF Grey
  <2> QED
    BY <2>1, <2>2, <2>4
<1>5. \A m, p : p \in Photos /\ Follows(b, m, p) => Follows(c, m, p)
  BY <1>4 DEF Follows
<1> QED
  BY <1>2, <1>5 DEF c

\* Leaflet
LEMMA SettledHolds ==
    ASSUME NEW m, Upright(m)
    PROVE  /\ Upright(Settled(m)) /\ Rested(Settled(m))
           /\ \A a, p : p \in Photos /\ Follows(a, m, p) => Follows(a, Settled(m), p)
<1> DEFINE k == Settled(m)
<1>0. m \in Overlays
  BY DEF Upright
<1>1. /\ k = [m EXCEPT !.dim = k.dim, !.marks = k.marks, !.apart = k.apart]
      /\ k.dim = {x \in m.dim : Cardinality(On(m, x)) > 1 /\ m.spider # x}
      /\ \A p \in Photos : k.marks[p] = [m.marks[p] EXCEPT
             !.faded = m.marks[p].faded /\ (p \in DOMAIN m.move.icons \/ Own(m, p))]
      /\ k.apart = IF m.move # NoMove THEN m.apart \/ ~Gathered(m)
                   ELSE m.apart /\ (k.dim # {} \/ \E p \in Photos : k.marks[p].faded)
  BY <1>0 DEF Settled, Overlays
<1>2. ASSUME NEW p \in Photos
      PROVE  /\ k.marks[p] \in Marks
             /\ k.marks[p].at = m.marks[p].at /\ k.marks[p].grey = m.marks[p].grey
             /\ k.marks[p].faded => m.marks[p].faded
             /\ k.marks[p].sure => k.marks[p].drawn = k.marks[p].grey
             /\ k.marks[p] = NoMark <=> m.marks[p] = NoMark
  <2> DEFINE f == m.marks[p].faded /\ (p \in DOMAIN m.move.icons \/ Own(m, p))
  <2>1. m.marks[p] \in Marks /\ MarkHolds(m, p)
    BY <1>0 DEF Overlays, Upright
  <2>2. k.marks[p] = [m.marks[p] EXCEPT !.faded = f]
    BY <1>1
  <2>3. f \in BOOLEAN /\ (f => m.marks[p].faded)
    BY <2>1 DEF Marks
  <2> HIDE DEF f, k
  <2>4. f => m.marks[p] # NoMark
    BY <2>3 DEF NoMark
  <2>5. /\ k.marks[p] \in Marks /\ k.marks[p].at = m.marks[p].at /\ k.marks[p].grey = m.marks[p].grey
        /\ k.marks[p].drawn = m.marks[p].drawn /\ k.marks[p].sure = m.marks[p].sure
        /\ k.marks[p].faded = f /\ (k.marks[p] = NoMark <=> m.marks[p] = NoMark)
    BY <2>1, <2>2, <2>3, <2>4, FaintMark DEF MarkHolds
  <2> QED
    BY <2>1, <2>3, <2>5 DEF MarkHolds
<1>3. k.marks \in [Photos -> Marks]
  BY <1>0, <1>2 DEF Settled, Overlays
<1>4. /\ k.layer = m.layer /\ k.pill = m.pill /\ k.move = m.move /\ k.spider = m.spider
      /\ k.dim \subseteq m.dim /\ k.apart \in BOOLEAN
  BY <1>0, <1>1 DEF Overlays
<1>5. k \in Overlays
  <2>1. k.dim \in SUBSET Sites
    BY <1>0, <1>4 DEF Overlays
  <2> HIDE DEF k
  <2> QED
    BY <1>0, <1>1, <1>3, <1>4, <2>1 DEF Overlays
<1> HIDE DEF k
<1>6. \A x : On(k, x) = On(m, x)
  BY <1>2 DEF On
<1>7. Gathered(k) <=> Gathered(m)
  <2>1. \A p \in DOMAIN m.move.icons : p \in Photos
    BY <1>0 DEF Overlays, GroupMoves, Partial
  <2> QED
    BY <1>2, <1>4, <2>1 DEF Gathered
<1>8. Kept(k)
  <2>1. SUFFICES ASSUME ~k.apart PROVE Kept(k)
    BY DEF Kept
  <2>2. CASE m.apart
    <3>1. k.dim = {} /\ \A p \in Photos : ~k.marks[p].faded
      BY <1>1, <2>1, <2>2
    <3> QED
      BY <3>1 DEF Kept
  <2>3. CASE ~m.apart
    BY <1>2, <1>4, <2>3 DEF Upright, Kept
  <2> QED
    BY <2>2, <2>3
<1>9. Upright(k)
  <2>1. ASSUME NEW p \in Photos PROVE MarkHolds(k, p)
    BY <1>2, <1>4 DEF Upright, MarkHolds
  <2> QED
    BY <1>4, <1>5, <1>8, <2>1 DEF Upright
<1>10. Rested(k)
  <2>1. ~k.apart /\ k.move # NoMove => Gathered(k)
    BY <1>1, <1>4, <1>7
  <2>2. \A x \in k.dim : x # k.spider /\ Cardinality(On(k, x)) > 1
    <3> SUFFICES ASSUME NEW x \in k.dim PROVE x # k.spider /\ Cardinality(On(k, x)) > 1
      OBVIOUS
    <3>1. x # m.spider /\ Cardinality(On(m, x)) > 1
      BY <1>1
    <3>2. On(k, x) = On(m, x)
      BY <1>6
    <3> QED
      BY <1>4, <3>1, <3>2
  <2> QED
    BY <2>1, <2>2 DEF Rested
<1>11. \A a, p : p \in Photos /\ Follows(a, m, p) => Follows(a, k, p)
  BY <1>2 DEF Follows
<1> QED
  BY <1>9, <1>10, <1>11 DEF k

\* A handler may leave the map behind the application when a render follows.
LEMMA RenderHolds ==
    ASSUME NEW b \in Apps, NEW chose, NEW m, Upright(m), Render(b, chose, m),
           b = app => \A p \in Photos : Follows(app, m, p)
    PROVE  OverlayInv'
<1>1. CASE app' = app /\ map' = Settled(m) /\ b = app
  <2>1. Upright(map') /\ Rested(map') /\ \A p \in Photos : Follows(app', map', p)
    BY <1>1, SettledHolds
  <2> QED
    BY <1>1, <2>1 DEF OverlayInv
<1>2. CASE ~(b = app /\ ~chose)
  <2> DEFINE f == FocusEffects(app, b, chose, m)
             r == Recreated(b, f)
             s == Synced(b, r)
             l == SelectionSynced(b, s)
             k == Settled(l)
  <2>1. app' = Agreed(b) /\ map' = k
    BY <1>2 DEF Render
  <2>2. Upright(f)
    BY FocusHolds
  <2>3. Upright(r) /\ (r.layer = "none" => \A p \in Photos : Listed(b, p) = NoSpot)
    <3> HIDE DEF f
    <3> QED
      BY <2>2, RecreatedHolds
  <2>4. Upright(s) /\ \A p \in Photos : Follows(b, s, p)
    <3> HIDE DEF r
    <3> QED
      BY <2>3, SyncedHolds
  <2>5. Upright(l) /\ \A p \in Photos : Follows(b, l, p)
    <3> HIDE DEF s
    <3> QED
      BY <2>4, SelectionHolds
  <2>6. Upright(k) /\ Rested(k) /\ \A p \in Photos : Follows(b, k, p)
    <3> HIDE DEF l
    <3> QED
      BY <2>5, SettledHolds
  <2> HIDE DEF k
  <2>7. Agreed(b) \in Apps /\ \A p \in Photos : Follows(Agreed(b), k, p)
    BY <2>6, AgreedHolds
  <2> QED
    BY <2>1, <2>6, <2>7 DEF OverlayInv
<1> QED
  BY <1>1, <1>2 DEF Render

LEMMA MatchIsGiven ==
    ASSUME NEW x \in Int, NEW applied \in BOOLEAN, NEW original \in Sites
    PROVE  Match(x, applied, original) \in Given
BY Absent DEF Match, Loc, Given

\* setLocation: the places that are given are places.
LEMMA SetHolds ==
    ASSUME NEW a \in Apps, NEW T, NEW loc, NEW pin \in Sites,
           \A p \in Photos : p \in T => loc[p] \in Given
    PROVE  SetLocations(a, T, loc, pin) \in Apps
<1>1. ASSUME NEW p \in Photos, p \in T PROVE Merged(a.pending[p], loc[p]) \in Locs
  <2>1. a.pending[p] \in Locs /\ loc[p] \in Given
    BY <1>1 DEF Apps
  <2>2. a.pending[p].applied \in BOOLEAN /\ a.pending[p].original \in Sites
    <3>1. NoLoc.applied \in BOOLEAN /\ NoLoc.original \in Sites
      BY Absent DEF NoLoc, Loc
    <3> QED
      BY <2>1, <3>1 DEF Locs, Given
  <2>3. CASE a.pending[p].source = "gpx" /\ loc[p].source # "remove"
    <3> DEFINE moved == a.pending[p].applied /\ loc[p].at # a.pending[p].at
               said == IF loc[p].source = "gpx" THEN loc[p] ELSE a.pending[p]
    <3>1. Merged(a.pending[p], loc[p]) = Match(loc[p].at, said.applied /\ ~moved, said.original)
      BY <2>3 DEF Merged
    <3>2. said.applied \in BOOLEAN /\ said.original \in Sites /\ loc[p].at \in Int /\ moved \in BOOLEAN
      BY <2>1, <2>2 DEF Given
    <3> HIDE DEF said, moved
    <3> QED
      BY <3>1, <3>2, MatchIsGiven DEF Locs
  <2>4. CASE ~(a.pending[p].source = "gpx" /\ loc[p].source # "remove")
    BY <2>1, <2>4 DEF Merged, Locs
  <2> QED
    BY <2>3, <2>4
<1>2. [p \in Photos |-> IF p \in T THEN Merged(a.pending[p], loc[p]) ELSE a.pending[p]]
        \in [Photos -> Locs]
  BY <1>1 DEF Apps
<1>3. [p \in Photos |-> IF p \in T THEN NoSpot ELSE a.saved[p]] \in [Photos -> Sites]
  BY Absent DEF Apps
<1> QED
  BY <1>2, <1>3 DEF SetLocations, Apps

LEMMA SetOneHolds ==
    ASSUME NEW a \in Apps, NEW T, NEW loc \in Given, NEW pin \in Sites
    PROVE  SetLocation(a, T, loc, pin) \in Apps
BY SetHolds DEF SetLocation

LEMMA SpotsAreSites ==
    /\ \A x \in Spots : x \in Int /\ x \in Sites
    /\ \A x \in Int : /\ Loc(x, "chosen", FALSE) \in Given /\ Loc(x, "drag", FALSE) \in Given
                      /\ Loc(x, "remove", FALSE) \in Given
BY OverlayAssumption DEF Sites, Loc, Given

\* The rest of the application changes no marker itself.
LEMMA ElsewhereHolds ==
    OverlayInv /\ Elsewhere => OverlayInv'
<1> SUFFICES ASSUME OverlayInv, Elsewhere PROVE OverlayInv'
  OBVIOUS
<1>0. app \in Apps /\ Upright(map)
  BY DEF OverlayInv
<1>1. ASSUME NEW b \in Apps, NEW chose, Render(b, chose, map) PROVE OverlayInv'
  BY <1>0, <1>1, RenderHolds DEF OverlayInv
<1>2. [p \in Photos |-> NoLoc] \in [Photos -> Locs] /\ [p \in Photos |-> NoSpot] \in [Photos -> Sites]
  BY Absent
<1>3. CASE ClearSelection
  <2>1. [app EXCEPT !.selected = {}, !.pin = NoSpot, !.pending = [p \in Photos |-> NoLoc],
                    !.saved = [p \in Photos |-> NoSpot]] \in Apps
    BY <1>0, <1>2, Absent DEF Apps
  <2> QED
    BY <1>1, <1>3, <2>1 DEF ClearSelection
<1>4. CASE ClearPin
  BY <1>0, <1>1, <1>4, Absent DEF ClearPin, Apps
<1>5. CASE Cancel
  BY <1>0, <1>1, <1>2, <1>5, Absent DEF Cancel, Apps
<1>6. CASE SaveAll
  <2> DEFINE T == {p \in Photos : app.pending[p] # NoLoc}
             truth == [p \in Photos |-> IF p \notin T THEN app.truth[p]
                         ELSE IF app.pending[p].source = "remove" THEN NoSpot ELSE app.pending[p].at]
             saved == [p \in Photos |-> IF p \in T THEN app.pending[p].at ELSE app.saved[p]]
             b == [app EXCEPT !.truth = truth, !.saved = saved, !.pending = [p \in Photos |-> NoLoc],
                              !.selected = {}, !.pin = NoSpot]
  <2>1. \A p \in T : app.pending[p].at \in Sites
    BY <1>0 DEF Apps, Locs, Given, Sites
  <2>2. truth \in [Photos -> Sites] /\ saved \in [Photos -> Sites]
    BY <1>0, <2>1, Absent DEF Apps
  <2>3. Render(b, TRUE, map)
    BY <1>6 DEF SaveAll
  <2> HIDE DEF truth, saved
  <2>4. b \in Apps
    BY <1>0, <1>2, <2>2, Absent DEF Apps
  <2> QED
    BY <1>1, <2>3, <2>4
<1>7. ASSUME NEW T \in SUBSET OnPage, Select(T, app.pin) \/ Select(T, NoSpot) PROVE OverlayInv'
  <2>1. T \in SUBSET Photos
    BY OverlayAssumption
  <2>2. ASSUME NEW pin \in Sites, Select(T, pin) PROVE OverlayInv'
    <3>1. [app EXCEPT !.selected = T, !.pin = pin] \in Apps
      BY <1>0, <2>1 DEF Apps
    <3> QED
      BY <1>1, <2>2, <3>1 DEF Select
  <2> QED
    BY <1>0, <1>7, <2>2, Absent DEF Apps
<1>8. ASSUME NEW T \in SUBSET Photos, Answer(T) PROVE OverlayInv'
  <2>1. [p \in Photos |-> IF p \in T THEN app.truth[p] ELSE NoSpot] \in [Photos -> Sites]
    BY <1>0, Absent DEF Apps
  <2>2. [app EXCEPT !.markers = [p \in Photos |-> IF p \in T THEN app.truth[p] ELSE NoSpot]] \in Apps
    BY <1>0, <2>1 DEF Apps
  <2> QED
    BY <1>1, <1>8, <2>2 DEF Answer
<1>9. ASSUME NEW x \in Spots, NEW dropped, Choose(dropped, x) PROVE OverlayInv'
  <2>1. PICK T : Render(SetLocation(app, T, Loc(x, "chosen", FALSE), x), FALSE, map)
    BY <1>9 DEF Choose
  <2> QED
    BY <1>0, <1>1, <2>1, SetOneHolds, SpotsAreSites
<1>10. ASSUME NEW T \in SUBSET Photos, NEW x \in Spots, ImportGPX(T, x) PROVE OverlayInv'
  <2> DEFINE loc == [p \in Photos |-> Match(x, app.truth[p] = x, app.truth[p])]
  <2>1. \A p \in Photos : loc[p] \in Given
    <3> SUFFICES ASSUME NEW p \in Photos PROVE loc[p] \in Given
      OBVIOUS
    <3>1. x \in Int /\ (app.truth[p] = x) \in BOOLEAN /\ app.truth[p] \in Sites
      BY <1>0, SpotsAreSites DEF Apps
    <3>2. Match(x, app.truth[p] = x, app.truth[p]) \in Given
      BY <3>1, MatchIsGiven
    <3> QED
      BY <3>2
  <2>2. Render(SetLocations(app, T, loc, NoSpot), FALSE, map)
    BY <1>10 DEF ImportGPX
  <2> HIDE DEF loc
  <2>3. SetLocations(app, T, loc, NoSpot) \in Apps
    BY <1>0, <2>1, Absent, SetHolds
  <2> QED
    BY <1>1, <2>2, <2>3
<1>11. ASSUME NEW g \in {"with", "without", "all"}, ChangeGPS(g) PROVE OverlayInv'
  BY <1>0, <1>1, <1>11 DEF ChangeGPS, Apps
<1> QED
  BY <1>3, <1>4, <1>5, <1>6, <1>7, <1>8, <1>9, <1>10, <1>11 DEF Elsewhere

\* A handler of the map may have changed the looks of markers.
LEMMA HandlerHolds ==
    ASSUME OverlayInv, NEW b \in Apps, NEW chose, NEW m, Upright(m),
           \A p \in Photos : Follows(app, map, p) => Follows(app, m, p), Render(b, chose, m)
    PROVE  OverlayInv'
BY RenderHolds DEF OverlayInv

LEMMA ThereIsAPlace ==
    ASSUME OverlayInv, NEW p \in Photos, map.marks[p] # NoMark
    PROVE  /\ map.marks[p].at \in Int /\ Resolved(app, p) \in Int /\ Resolved(app, p) \in Sites
BY ShownIsThere DEF OverlayInv, Follows, Upright, MarkHolds

LEMMA ToggledHolds ==
    ASSUME app \in Apps, NEW p \in Photos
    PROVE  Toggled(p) \in Apps
BY Absent DEF Toggled, Apps

\* A click on a marker, dragging it, and its context menu.
LEMMA MarkerHolds ==
    ASSUME OverlayInv, NEW p \in Photos,
           ClickAssigns(p) \/ ClickBlurs(p) \/ ClickFocuses(p) \/ ResetPosition(p) \/ RemoveLocation(p)
    PROVE  OverlayInv'
<1>0. app \in Apps /\ Upright(map) /\ map \in Overlays
  BY DEF OverlayInv, Upright
<1>1. map.marks[p] # NoMark
  BY DEF ClickAssigns, ClickBlurs, ClickFocuses, ResetPosition, RemoveLocation, Touchable, Own
<1>g. ClickGrey(p) \in BOOLEAN
  <2>1. map.marks[p].born \in BOOLEAN
    BY <1>0 DEF Overlays, Marks
  <2>2. (app.pending[p].applied) \in BOOLEAN
    <3>1. app.pending[p] \in Locs /\ NoLoc.applied \in BOOLEAN
      BY <1>0 DEF Apps, NoLoc, Loc
    <3> QED
      BY <3>1 DEF Locs, Given
  <2> QED
    BY <2>1, <2>2 DEF ClickGrey
<1>2. CASE ClickAssigns(p)
  <2> DEFINE b == SetLocation(app, app.selected, Loc(Resolved(app, p), "chosen", FALSE), Resolved(app, p))
             m == [map EXCEPT !.focus = p]
  <2>1. b \in Apps
    BY <1>0, <1>1, ThereIsAPlace, SpotsAreSites, SetOneHolds
  <2>2. m \in Overlays /\ m = [map EXCEPT !.focus = m.focus]
    BY <1>0 DEF Overlays
  <2>3. Render(b, FALSE, m)
    BY <1>2 DEF ClickAssigns
  <2> HIDE DEF b, m
  <2>4. Upright(m) /\ \A q \in Photos : Follows(app, map, q) => Follows(app, m, q)
    BY <1>0, <2>2, AsideHolds
  <2> QED
    BY <2>1, <2>3, <2>4, HandlerHolds
<1>3. CASE ClickBlurs(p)
  <2> DEFINE n == Drawn(map, p, FALSE, ClickGrey(p))
             m == [n EXCEPT !.focus = IF @ = p THEN NoPhoto ELSE @]
  <2>1. Upright(n) /\ n \in Overlays /\ \A q \in Photos : Follows(app, map, q) => Follows(app, n, q)
    BY <1>0, <1>g, DrawnHolds DEF Upright
  <2>2. Render(Toggled(p), Resolvable(p), m)
    BY <1>3 DEF ClickBlurs
  <2> HIDE DEF n
  <2>3. m \in Overlays /\ m = [n EXCEPT !.focus = m.focus]
    BY <2>1 DEF Overlays
  <2> HIDE DEF m
  <2>4. Upright(m) /\ \A q \in Photos : Follows(app, n, q) => Follows(app, m, q)
    BY <2>1, <2>3, AsideHolds
  <2> QED
    BY <1>0, <2>1, <2>2, <2>4, HandlerHolds, ToggledHolds
<1>4. CASE ClickFocuses(p)
  <2> DEFINE o == Drawn(map, map.focus, FALSE, ClickGrey(p))
             n == Drawn(o, p, TRUE, ClickGrey(p))
             m == [n EXCEPT !.focus = p]
  <2>0. Upright(o) /\ \A q \in Photos : Follows(app, map, q) => Follows(app, o, q)
    BY <1>0, <1>g, DrawnHolds
  <2>1. Upright(n) /\ n \in Overlays /\ \A q \in Photos : Follows(app, map, q) => Follows(app, n, q)
    <3> HIDE DEF o
    <3> QED
      BY <1>g, <2>0, DrawnHolds DEF Upright
  <2>2. Render(Toggled(p), Resolvable(p), m)
    BY <1>4 DEF ClickFocuses
  <2> HIDE DEF n
  <2>3. m \in Overlays /\ m = [n EXCEPT !.focus = m.focus]
    BY <2>1 DEF Overlays
  <2> HIDE DEF m
  <2>4. Upright(m) /\ \A q \in Photos : Follows(app, n, q) => Follows(app, m, q)
    BY <2>1, <2>3, AsideHolds
  <2> QED
    BY <1>0, <2>1, <2>2, <2>4, HandlerHolds, ToggledHolds
<1>5. CASE ResetPosition(p)
  <2> DEFINE back == app.pending[p].original
  <2>1. back \in Int /\ back \in Sites
    <3>1. app.pending[p] \in Locs /\ NoLoc.original = NoSpot /\ back # NoSpot
      BY <1>0, <1>5 DEF ResetPosition, Apps, NoLoc, Loc
    <3> QED
      BY <3>1 DEF Locs, Given, Sites
  <2>2. Render(SetLocation(app, {p}, Match(back, TRUE, back), NoSpot), FALSE, map)
    BY <1>5 DEF ResetPosition
  <2> HIDE DEF back
  <2>3. SetLocation(app, {p}, Match(back, TRUE, back), NoSpot) \in Apps
    BY <1>0, <2>1, Absent, MatchIsGiven, SetOneHolds
  <2> QED
    BY <1>0, <2>2, <2>3, HandlerHolds
<1>6. CASE RemoveLocation(p)
  <2>1. SetLocation(app, {p}, Loc(Zero, "remove", FALSE), NoSpot) \in Apps
    <3>1. Zero \in Int
      BY DEF Zero
    <3>2. Loc(Zero, "remove", FALSE) \in Given
      BY <3>1, SpotsAreSites
    <3> QED
      BY <1>0, <3>2, Absent, SetOneHolds
  <2> QED
    BY <1>0, <1>6, <2>1, HandlerHolds DEF RemoveLocation
<1> QED
  BY <1>2, <1>3, <1>4, <1>5, <1>6

LEMMA ClearOfHolds ==
    ASSUME NEW m, Upright(m)
    PROVE  /\ Upright(ClearMoveOf(m))
           /\ \A a, p : p \in Photos /\ Follows(a, m, p) => Follows(a, ClearMoveOf(m), p)
<1> DEFINE n == ClearMove(m)
           k == ClearMoveOf(m)
<1>1. Upright(n) /\ n \in Overlays /\ \A a, p : p \in Photos /\ Follows(a, m, p) => Follows(a, n, p)
  BY ClearHolds DEF Upright
<1>2. /\ k = [n EXCEPT !.marks = k.marks]
      /\ k.marks = [p \in Photos |-> [n.marks[p] EXCEPT
             !.faded = n.marks[p].faded /\ p \notin DOMAIN m.move.start]]
  BY <1>1 DEF ClearMoveOf, Overlays
<1> HIDE DEF n
<1>3. ASSUME NEW p \in Photos
      PROVE  /\ k.marks[p] \in Marks
             /\ k.marks[p].at = n.marks[p].at /\ k.marks[p].grey = n.marks[p].grey
             /\ k.marks[p].faded => n.marks[p].faded
             /\ k.marks[p].sure => k.marks[p].drawn = k.marks[p].grey
             /\ k.marks[p] = NoMark <=> n.marks[p] = NoMark
  <2> DEFINE f == n.marks[p].faded /\ p \notin DOMAIN m.move.start
  <2>1. n.marks[p] \in Marks /\ MarkHolds(n, p)
    BY <1>1 DEF Overlays, Upright
  <2>2. k.marks[p] = [n.marks[p] EXCEPT !.faded = f]
    BY <1>2
  <2>3. f \in BOOLEAN /\ (f => n.marks[p].faded)
    BY <2>1 DEF Marks
  <2> HIDE DEF f, k
  <2>4. f => n.marks[p] # NoMark
    BY <2>3 DEF NoMark
  <2>5. /\ k.marks[p] \in Marks /\ k.marks[p].at = n.marks[p].at /\ k.marks[p].grey = n.marks[p].grey
        /\ k.marks[p].drawn = n.marks[p].drawn /\ k.marks[p].sure = n.marks[p].sure
        /\ k.marks[p].faded = f /\ (k.marks[p] = NoMark <=> n.marks[p] = NoMark)
    BY <2>1, <2>2, <2>3, <2>4, FaintMark DEF MarkHolds
  <2> QED
    BY <2>1, <2>3, <2>5 DEF MarkHolds
<1>4. k.marks \in [Photos -> Marks]
  BY <1>2, <1>3
<1>5. k \in Overlays
  BY <1>1, <1>2, <1>4 DEF Overlays
<1>6. k.layer = n.layer /\ k.pill = n.pill /\ k.move = n.move /\ k.dim = n.dim /\ k.apart = n.apart
  BY <1>1, <1>2 DEF Overlays
<1> HIDE DEF k
<1>7. Upright(k) /\ \A a, p : p \in Photos /\ Follows(a, n, p) => Follows(a, k, p)
  BY <1>1, <1>3, <1>5, <1>6, Touched
<1> QED
  BY <1>1, <1>7 DEF k

\* A marker that was dragged stands where it was dropped, which is pending.
LEMMA DragHolds ==
    ASSUME OverlayInv, NEW p \in Photos, NEW x \in Spots, DragMarker(p, x)
    PROVE  OverlayInv'
<1> DEFINE T == IF p \in app.selected THEN app.selected ELSE {p}
           b == SetLocation(app, T, Loc(x, "drag", FALSE), NoSpot)
           n == [map EXCEPT !.marks[p].at = x]
           m == ClearMoveOf(n)
<1>0. app \in Apps /\ Upright(map) /\ map \in Overlays /\ map.marks[p] # NoMark
  BY DEF OverlayInv, Upright, DragMarker, Touchable, Own
<1>1. x \in Int /\ x \in Sites /\ x # NoSpot /\ Loc(x, "drag", FALSE) \in Given
  BY SpotsAreSites, Absent
<1>2. b \in Apps
  BY <1>0, <1>1, Absent, SetOneHolds
<1>3. /\ n.layer = map.layer /\ n.pill = map.pill /\ n.move = map.move
      /\ n.dim = map.dim /\ n.apart = map.apart
      /\ n.marks[p] = [map.marks[p] EXCEPT !.at = x]
      /\ \A q \in Photos : q # p => n.marks[q] = map.marks[q]
  BY <1>0 DEF Overlays
<1>4. /\ n.marks[p].at = x /\ n.marks[p].grey = map.marks[p].grey
      /\ n.marks[p].drawn = map.marks[p].drawn /\ n.marks[p].sure = map.marks[p].sure
      /\ n.marks[p].faded = map.marks[p].faded /\ n.marks[p] # NoMark
  BY <1>0, <1>1, <1>3 DEF Overlays, Marks, NoMark
<1>5. n \in Overlays
  <2>1. [map.marks[p] EXCEPT !.at = x] \in Marks
    BY <1>0, <1>1 DEF Overlays, Marks
  <2> QED
    BY <1>0, <2>1 DEF Overlays
<1> HIDE DEF n
<1>6. Upright(n)
  <2>1. ASSUME NEW q \in Photos PROVE MarkHolds(n, q)
    <3>1. MarkHolds(map, q)
      BY <1>0 DEF Upright
    <3>2. CASE q = p
      <4>1. n.layer # "none" /\ n.marks[p].at \in Int
        BY <1>0, <1>1, <1>3, <1>4, <3>1, <3>2 DEF MarkHolds
      <4>2. n.marks[p].sure => n.marks[p].drawn = n.marks[p].grey
        BY <1>4, <3>1, <3>2 DEF MarkHolds
      <4> QED
        BY <1>4, <3>2, <4>1, <4>2 DEF MarkHolds
    <3>3. CASE q # p
      BY <1>3, <3>1, <3>3 DEF MarkHolds
    <3> QED
      BY <3>2, <3>3
  <2>2. Kept(n)
    BY <1>0, <1>3, <1>4 DEF Upright, Kept
  <2> QED
    BY <1>0, <1>3, <1>5, <2>1, <2>2 DEF Upright
<1>7. Upright(m) /\ \A a, q : q \in Photos /\ Follows(a, n, q) => Follows(a, m, q)
  BY <1>6, ClearOfHolds
<1>8. ASSUME b = app PROVE \A q \in Photos : Follows(app, n, q)
  <2>1. app.pending[p] = Merged(app.pending[p], Loc(x, "drag", FALSE))
    <3>1. p \in T
      OBVIOUS
    <3>2. b.pending[p] = Merged(app.pending[p], Loc(x, "drag", FALSE))
      BY <1>0, <3>1 DEF SetLocation, SetLocations, Apps
    <3> QED
      BY <1>8, <3>2
  <2>2. app.pending[p].at = x
    BY <2>1 DEF Merged, Match, Loc
  <2>3. app.pending[p] # NoLoc
    BY <1>1, <2>2 DEF NoLoc, Loc
  <2>4. Resolved(app, p) = x
    BY <2>2, <2>3 DEF Resolved
  <2>5. \A q \in Photos : Follows(app, map, q)
    BY DEF OverlayInv
  <2> QED
    BY <1>0, <1>3, <1>4, <2>4, <2>5 DEF Follows
<1>9. Render(b, FALSE, m)
  BY DEF DragMarker, n
<1> HIDE DEF b, m
<1> QED
  BY <1>2, <1>7, <1>8, <1>9, RenderHolds

\* Clusters, their pill, and the move of a group.
LEMMA GroupHolds ==
    ASSUME OverlayInv,
           \/ ZoomToCluster \/ CloseCluster \/ ClickPill \/ CancelMove \/ ConfirmMove
           \/ \E x \in Spots : \/ MoveAnchor(x) \/ ClickMap(x) \/ ClickClusterAssigns(x)
                               \/ OpenCluster(x) \/ SpiderfyCluster(x)
    PROVE  OverlayInv'
<1> DEFINE cleared == ClearMove(map)
<1>0. app \in Apps /\ Upright(map) /\ map \in Overlays
  BY DEF OverlayInv, Upright
<1>1. /\ Upright(cleared) /\ cleared \in Overlays
      /\ \A p \in Photos : Follows(app, map, p) => Follows(app, cleared, p)
      /\ \A p \in Photos : /\ cleared.marks[p].at = map.marks[p].at
                           /\ cleared.marks[p] = NoMark <=> map.marks[p] = NoMark
      /\ cleared.pill = NoPill /\ cleared.move = NoMove
      /\ ~cleared.apart => cleared.dim = {} /\ \A p \in Photos : ~cleared.marks[p].faded
  BY <1>0, ClearHolds DEF Upright
<1> HIDE DEF cleared
\* Without the move, with another cluster open, or none.
<1>2. ASSUME NEW b \in Apps, NEW k, k \in {map, cleared}, NEW x \in Sites,
             Render(b, FALSE, k) \/ Render(b, FALSE, [k EXCEPT !.spider = x])
      PROVE  OverlayInv'
  <2> DEFINE m == [k EXCEPT !.spider = x]
  <2>1. Upright(k) /\ k \in Overlays /\ \A p \in Photos : Follows(app, map, p) => Follows(app, k, p)
    BY <1>0, <1>1, <1>2
  <2>2. m \in Overlays /\ m = [k EXCEPT !.spider = m.spider]
    BY <2>1 DEF Overlays
  <2>3. Upright(m) /\ \A p \in Photos : Follows(app, k, p) => Follows(app, m, p)
    <3> HIDE DEF m
    <3> QED
      BY <2>1, <2>2, AsideHolds
  <2> QED
    BY <1>2, <2>1, <2>3, HandlerHolds
<1>3. CASE ZoomToCluster \/ CancelMove
  BY <1>0, <1>2, <1>3, Absent DEF ZoomToCluster, CancelMove, cleared
<1>4. CASE CloseCluster
  BY <1>0, <1>2, <1>4, Absent DEF CloseCluster
<1>5. CASE ClickPill
  <2> DEFINE pill == map.pill
             live == pill.group \ DOMAIN pill.last
             n == [cleared EXCEPT !.spider = NoSpot]
             marks == [p \in Photos |-> IF p \in live THEN [n.marks[p] EXCEPT !.faded = TRUE]
                                        ELSE n.marks[p]]
             start == [p \in pill.group |-> IF p \in live THEN n.marks[p].at ELSE pill.last[p]]
             icons == [p \in live |-> [selected |-> n.marks[p].selected, drawn |-> n.marks[p].drawn]]
             last == [NoIcon EXCEPT !.at = pill.center]
             move == [center |-> pill.center, at |-> pill.center, start |-> start, icons |-> icons,
                      last |-> last]
             m == [n EXCEPT !.marks = marks, !.move = move, !.dim = n.dim \union {pill.center}]
  <2>1. Render(app, FALSE, m)
    BY <1>5 DEF ClickPill, cleared
  <2>2. /\ pill.center \in Sites /\ pill.group \in SUBSET Photos
        /\ pill.group # {} => pill.center \in Int
        /\ \A p \in pill.group \ live : pill.last[p] \in Int
    BY <1>0 DEF Upright, Overlays, Pills, Partial
  <2>3. /\ n \in Overlays /\ n.marks = cleared.marks /\ n.layer = cleared.layer /\ n.pill = NoPill
        /\ n.dim = cleared.dim /\ n.apart = cleared.apart
    BY <1>1, Absent DEF Overlays
  <2>4. ASSUME NEW p \in Photos
        PROVE  /\ n.marks[p] \in Marks /\ (n.marks[p].faded => n.apart)
               /\ n.marks[p] # NoMark => n.marks[p].at \in Int /\ n.layer # "none"
               /\ n.marks[p].sure => n.marks[p].drawn = n.marks[p].grey
               /\ p \in live => n.marks[p] # NoMark
    <3>1. MarkHolds(map, p) /\ MarkHolds(cleared, p)
      BY <1>0, <1>1 DEF Upright
    <3> QED
      BY <1>1, <2>3, <3>1 DEF Overlays, MarkHolds
  <2>n. n.dim \in SUBSET Sites /\ (~n.apart => n.dim = {})
    BY <1>1, <2>3 DEF Overlays
  <2> HIDE DEF n
  <2>5. ASSUME NEW p \in Photos
        PROVE  /\ marks[p] \in Marks /\ marks[p].at = n.marks[p].at /\ marks[p].grey = n.marks[p].grey
               /\ marks[p].faded => p \in live \/ n.marks[p].faded
               /\ marks[p].sure => marks[p].drawn = marks[p].grey
               /\ marks[p] = NoMark <=> n.marks[p] = NoMark
    <3>1. CASE p \in live
      <4>1. marks[p] = [n.marks[p] EXCEPT !.faded = TRUE] /\ n.marks[p].at \in Int
        BY <2>4, <3>1
      <4>2. /\ marks[p] \in Marks /\ marks[p].at = n.marks[p].at /\ marks[p].grey = n.marks[p].grey
            /\ marks[p].drawn = n.marks[p].drawn /\ marks[p].sure = n.marks[p].sure
        BY <2>4, <4>1 DEF Marks
      <4>3. marks[p] # NoMark
        BY <4>1, <4>2, Absent DEF NoMark
      <4> QED
        BY <2>4, <3>1, <4>2, <4>3
    <3>2. CASE p \notin live
      BY <2>4, <3>2
    <3> QED
      BY <3>1, <3>2
  <2>6. /\ start \in [pill.group -> Int] /\ icons \in [live -> Looks] /\ live \in SUBSET pill.group
    <3>1. \A p \in live : /\ n.marks[p].at \in Int /\ n.marks[p].selected \in BOOLEAN
                          /\ n.marks[p].drawn \in BOOLEAN
      BY <2>2, <2>4 DEF Marks
    <3> QED
      BY <2>2, <3>1 DEF Looks
  <2>7. marks \in [Photos -> Marks]
    BY <2>5
  <2>l. last \in Icons /\ last.photo = NoPhoto /\ last.at = pill.center
    BY <2>2, Absent DEF NoIcon, Icons
  <2> HIDE DEF marks, start, icons, live, pill, last
  <2>8. move \in GroupMoves
    <3>1. start \in Partial(Int)
      BY <2>2, <2>6 DEF Partial
    <3>2. icons \in Partial(Looks)
      BY <2>2, <2>6 DEF Partial
    <3> QED
      BY <2>2, <2>l, <3>1, <3>2 DEF GroupMoves
  <2>9. /\ m \in Overlays /\ m.layer = n.layer /\ m.marks = marks /\ m.move = move /\ m.pill = NoPill
        /\ m.dim = n.dim \union {pill.center} /\ m.apart = n.apart
    <3>1. n.dim \union {pill.center} \in SUBSET Sites
      BY <2>2, <2>n
    <3> QED
      BY <2>3, <2>7, <2>8, <3>1 DEF Overlays
  <2>10. /\ DOMAIN m.move.start = pill.group /\ DOMAIN m.move.icons = live
         /\ m.move.center = pill.center /\ m.move.at = pill.center
         /\ m.move.last = last
    BY <2>6, <2>9
  <2> HIDE DEF m, move
  <2>11. Kept(m)
    <3>1. SUFFICES ASSUME ~n.apart PROVE Kept(m)
      BY <2>9 DEF Kept
    <3>2. m.dim = {pill.center}
      BY <2>9, <2>n, <3>1
    <3>3. \A p \in Photos : m.marks[p].faded => p \in live
      BY <2>4, <2>5, <2>9, <3>1
    <3> QED
      BY <2>l, <2>10, <3>2, <3>3 DEF Kept
  <2>12. Upright(m)
    <3>1. ASSUME NEW p \in Photos PROVE MarkHolds(m, p)
      BY <2>4, <2>5, <2>9, <2>10, Absent DEF MarkHolds
    <3> QED
      BY <2>2, <2>6, <2>l, <2>9, <2>10, <2>11, <3>1, Absent DEF Upright
  <2>13. \A p \in Photos : Follows(app, cleared, p) => Follows(app, m, p)
    BY <2>3, <2>5, <2>9 DEF Follows
  <2> QED
    BY <1>0, <1>1, <2>1, <2>12, <2>13, HandlerHolds
<1>6. CASE ConfirmMove
  <2> DEFINE move == map.move
             to == [p \in Photos |-> IF p \notin DOMAIN move.start THEN NoLoc
                                     ELSE Loc(move.start[p] + (move.at - move.center), "drag", FALSE)]
  <2>1. Render(SetLocations(app, DOMAIN move.start, to, NoSpot), FALSE, cleared)
    BY <1>6 DEF ConfirmMove, cleared
  <2>2. ASSUME NEW p \in Photos, p \in DOMAIN move.start PROVE to[p] \in Given
    <3>1. move.start[p] \in Int /\ move.at \in Int /\ move.center \in Int
      BY <1>0, <2>2 DEF Upright, Overlays, GroupMoves, Partial
    <3>2. move.start[p] + (move.at - move.center) \in Int
      BY <3>1
    <3> QED
      BY <2>2, <3>2, SpotsAreSites
  <2> HIDE DEF to
  <2>3. SetLocations(app, DOMAIN move.start, to, NoSpot) \in Apps
    BY <1>0, <2>2, Absent, SetHolds
  <2> QED
    BY <1>2, <2>1, <2>3, Absent
<1>7. ASSUME NEW x \in Spots, MoveAnchor(x) PROVE OverlayInv'
  <2> DEFINE n == [map EXCEPT !.move.at = x]
             m == [n EXCEPT !.spider = NoSpot]
  <2>1. Render(app, FALSE, m)
    <3>1. [map EXCEPT !.move.at = x, !.spider = NoSpot] = m
      BY <1>0 DEF Overlays
    <3> QED
      BY <1>7, <3>1 DEF MoveAnchor
  <2>2. /\ n.layer = map.layer /\ n.pill = map.pill /\ n.marks = map.marks
        /\ n.move = [map.move EXCEPT !.at = x] /\ n.dim = map.dim /\ n.apart = map.apart
    BY <1>0 DEF Overlays
  <2>3. /\ n.move.start = map.move.start /\ n.move.icons = map.move.icons
        /\ n.move.center = map.move.center /\ n.move.at = x /\ n.move.last = map.move.last
    BY <1>0, <2>2 DEF Overlays, GroupMoves
  <2>4. x \in Int /\ x \in Sites
    BY SpotsAreSites
  <2>5. n \in Overlays
    <3>1. [map.move EXCEPT !.at = x] \in GroupMoves
      BY <1>0, <2>4 DEF Overlays, GroupMoves
    <3> QED
      BY <1>0, <3>1 DEF Overlays
  <2> HIDE DEF n
  <2>6. Upright(n) /\ \A p \in Photos : Follows(app, map, p) => Follows(app, n, p)
    <3>1. \A p \in Photos : MarkHolds(n, p)
      BY <1>0, <2>2, <2>3 DEF Upright, MarkHolds
    <3>2. Kept(n)
      BY <1>0, <2>2, <2>3 DEF Upright, Kept
    <3> QED
      BY <1>0, <2>2, <2>3, <2>4, <2>5, <3>1, <3>2 DEF Upright, Follows
  <2>7. m \in Overlays /\ m = [n EXCEPT !.spider = m.spider]
    BY <2>5, Absent DEF Overlays
  <2> HIDE DEF m
  <2>8. Upright(m) /\ \A p \in Photos : Follows(app, n, p) => Follows(app, m, p)
    BY <2>6, <2>7, AsideHolds
  <2> QED
    BY <1>0, <2>1, <2>6, <2>8, HandlerHolds
<1>8. ASSUME NEW x \in Spots, ClickMap(x) PROVE OverlayInv'
  <2> DEFINE m == [map EXCEPT !.spider = NoSpot]
  <2>1. x \in Sites /\ Loc(x, "drag", FALSE) \in Given /\ Loc(x, "chosen", FALSE) \in Given
    BY SpotsAreSites
  <2>2. CASE Render(app, FALSE, ClearMove(m))
    <3>1. ClearMove(m) = [cleared EXCEPT !.spider = NoSpot]
      BY <1>0 DEF ClearMove, Overlays, cleared
    <3> QED
      BY <1>0, <1>2, <2>2, <3>1, Absent
  <2>3. CASE \E b \in Apps : Render(b, FALSE, m)
    BY <1>2, <2>3, Absent
  <2>4. /\ SetLocation(app, {map.focus}, Loc(x, "drag", FALSE), NoSpot) \in Apps
        /\ SetLocation(app, app.selected, Loc(x, "chosen", FALSE), x) \in Apps
    BY <1>0, <2>1, Absent, SetOneHolds
  <2> QED
    BY <1>0, <1>8, <2>2, <2>3, <2>4 DEF ClickMap
<1>9. ASSUME NEW x \in Spots, ClickClusterAssigns(x) PROVE OverlayInv'
  <2>1. SetLocation(app, app.selected, Loc(x, "chosen", FALSE), x) \in Apps
    BY <1>0, SpotsAreSites, SetOneHolds
  <2> QED
    BY <1>2, <1>9, <2>1, Absent DEF ClickClusterAssigns, cleared
<1>10. ASSUME NEW x \in Spots, OpenCluster(x) PROVE OverlayInv'
  <2> DEFINE pill == [NoPill EXCEPT !.center = x, !.group = At(x)]
             n == [cleared EXCEPT !.spider = x]
             m == [cleared EXCEPT !.spider = x, !.pill = pill]
  <2>1. Render(app, FALSE, m)
    BY <1>10 DEF OpenCluster, cleared
  <2>2. x \in Int /\ x \in Sites /\ x # NoSpot
    BY SpotsAreSites, Absent
  <2>3. pill \in Pills
    <3>1. At(x) \in SUBSET Photos
      BY DEF At, On
    <3> QED
      BY <2>2, <3>1, Absent DEF Pills
  <2>4. pill.center = x /\ pill.group = At(x) /\ DOMAIN pill.last = {}
    <3>1. NoPill.last = [p \in {} |-> NoSpot]
      BY DEF NoPill
    <3>2. pill.last = NoPill.last
      BY DEF NoPill
    <3>3. DOMAIN pill.last = {}
      BY <3>1, <3>2
    <3> QED
      BY <3>3 DEF NoPill
  <2> HIDE DEF pill
  <2>5. /\ m \in Overlays /\ m.layer = cleared.layer /\ m.marks = cleared.marks
        /\ m.move = cleared.move /\ m.pill = pill /\ m.dim = cleared.dim /\ m.apart = cleared.apart
    BY <1>1, <2>2, <2>3 DEF Overlays
  <2> HIDE DEF m
  <2>6. Upright(m)
    <3>1. ASSUME NEW p \in Photos PROVE MarkHolds(m, p)
      <4>1. MarkHolds(cleared, p)
        BY <1>1 DEF Upright
      <4>2. p \in At(x) => cleared.marks[p] # NoMark
        BY <1>1 DEF At, On
      <4> QED
        BY <2>4, <2>5, <4>1, <4>2 DEF MarkHolds
    <3>2. Kept(m)
      BY <1>1, <2>5 DEF Upright, Kept
    <3> QED
      BY <1>1, <2>2, <2>4, <2>5, <3>1, <3>2 DEF Upright
  <2>7. \A p \in Photos : Follows(app, cleared, p) => Follows(app, m, p)
    BY <2>5 DEF Follows
  <2> QED
    BY <1>0, <1>1, <2>1, <2>6, <2>7, HandlerHolds
<1>11. ASSUME NEW x \in Spots, SpiderfyCluster(x) PROVE OverlayInv'
  BY <1>0, <1>2, <1>11, SpotsAreSites DEF SpiderfyCluster
<1> QED
  BY <1>3, <1>4, <1>5, <1>6, <1>7, <1>8, <1>9, <1>10, <1>11

\* What is faded for the move again is what the move knows, while its group is in one place.
LEMMA RestoreHolds ==
    ASSUME OverlayInv, NEW p \in Photos, RestoreFade(p)
    PROVE  OverlayInv'
<1> DEFINE live == DOMAIN map.move.icons
<1>0. app \in Apps /\ Upright(map) /\ map \in Overlays /\ Rested(map) /\ map.move # NoMove
  BY DEF OverlayInv, Upright, RestoreFade
<1>1. PICK S \in SUBSET Photos :
        /\ p \in S /\ map' = Settled(Faded(map, S, p))
        /\ live # {} => S = live
  <2>1. live \in SUBSET Photos
    BY <1>0 DEF Overlays, GroupMoves, Partial
  <2>2. {q \in DOMAIN map.move.start : Own(map, q)} \in SUBSET Photos
    BY <1>0 DEF Overlays, GroupMoves, Partial
  <2> QED
    BY <2>1, <2>2 DEF RestoreFade
<1> DEFINE k == Faded(map, S, p)
           far == {q \in S : ~Own(map, q)}
           icon == IF Own(map, p) THEN [NoIcon EXCEPT !.photo = p] ELSE [NoIcon EXCEPT !.at = map.marks[p].at]
<1>2. \A q \in Photos : map.marks[q] \in Marks /\ MarkHolds(map, q)
  BY <1>0 DEF Overlays, Upright
<1>3. /\ icon \in Icons
      /\ icon.at = IF Own(map, p) THEN NoSpot ELSE map.marks[p].at
      /\ icon.photo # NoPhoto => icon.at = NoSpot
  BY <1>2, Absent DEF NoIcon, Icons, Marks
<1>4. /\ k = [map EXCEPT !.dim = k.dim, !.marks = k.marks, !.move = k.move]
      /\ k.dim = map.dim \union {map.marks[q].at : q \in far}
      /\ k.marks = [q \in Photos |-> [map.marks[q] EXCEPT
             !.faded = map.marks[q].faded \/ (q \in S /\ Own(map, q))]]
      /\ k.move = [map.move EXCEPT !.last = icon]
  BY <1>0 DEF Faded, Overlays
<1> HIDE DEF icon
<1>5. ASSUME NEW q \in Photos
      PROVE  /\ k.marks[q] \in Marks
             /\ k.marks[q].at = map.marks[q].at /\ k.marks[q].grey = map.marks[q].grey
             /\ k.marks[q].faded => map.marks[q].faded \/ q \in S
             /\ k.marks[q].sure => k.marks[q].drawn = k.marks[q].grey
             /\ k.marks[q] = NoMark <=> map.marks[q] = NoMark
  <2> DEFINE f == map.marks[q].faded \/ (q \in S /\ Own(map, q))
  <2>1. k.marks[q] = [map.marks[q] EXCEPT !.faded = f]
    BY <1>4
  <2>2. f \in BOOLEAN /\ (f => map.marks[q].faded \/ q \in S)
    BY <1>2 DEF Marks
  <2>3. map.marks[q] = NoMark => f = FALSE
    BY <2>2 DEF Own, NoMark
  <2> HIDE DEF f, k
  <2>4. f => map.marks[q] # NoMark
    BY <2>3
  <2>5. /\ k.marks[q] \in Marks /\ k.marks[q].at = map.marks[q].at /\ k.marks[q].grey = map.marks[q].grey
        /\ k.marks[q].drawn = map.marks[q].drawn /\ k.marks[q].sure = map.marks[q].sure
        /\ k.marks[q].faded = f /\ (k.marks[q] = NoMark <=> map.marks[q] = NoMark)
    BY <1>2, <2>1, <2>2, <2>4, FaintMark DEF MarkHolds
  <2> QED
    BY <1>2, <2>2, <2>5 DEF MarkHolds
<1>6. /\ k.layer = map.layer /\ k.pill = map.pill /\ k.apart = map.apart
      /\ k.move.start = map.move.start /\ k.move.icons = map.move.icons
      /\ k.move.center = map.move.center /\ k.move.at = map.move.at /\ k.move.last = icon
  BY <1>0, <1>4 DEF Overlays, GroupMoves
<1>7. k \in Overlays
  <2>1. k.dim \in SUBSET Sites
    <3>1. map.dim \in SUBSET Sites
      BY <1>0 DEF Overlays
    <3>2. \A q \in Photos : map.marks[q].at \in Sites
      BY <1>2 DEF Marks
    <3>3. far \in SUBSET Photos
      OBVIOUS
    <3>4. k.dim = map.dim \union {map.marks[q].at : q \in far}
      BY <1>4
    <3> HIDE DEF k, far
    <3>5. {map.marks[q].at : q \in far} \in SUBSET Sites
      BY <3>2, <3>3
    <3> QED
      BY <3>1, <3>4, <3>5
  <2>2. k.marks \in [Photos -> Marks]
    BY <1>4, <1>5
  <2>3. k.move \in GroupMoves
    BY <1>0, <1>3, <1>4 DEF Overlays, GroupMoves
  <2> HIDE DEF k
  <2> QED
    BY <1>0, <1>4, <2>1, <2>2, <2>3 DEF Overlays
<1>8. Kept(k)
  <2>1. SUFFICES ASSUME ~map.apart PROVE Kept(k)
    BY <1>6 DEF Kept
  <2>2. Gathered(map) /\ Kept(map)
    BY <1>0, <2>1 DEF Rested, Upright
  <2>3. S = live /\ \A q \in S : map.marks[q] # NoMark /\ map.marks[q].at = map.move.center
    BY <1>1, <1>2, <2>2 DEF Gathered, MarkHolds
  <2>4. \A q \in Photos : k.marks[q].faded => q \in DOMAIN k.move.icons
    BY <1>5, <1>6, <2>1, <2>2, <2>3 DEF Kept
  <2>5. \A x \in map.dim : x = map.move.center
    BY <2>1, <2>2 DEF Kept
  <2>6. CASE Own(map, p)
    <3>1. map.dim = {}
      <4> SUFFICES ASSUME NEW x \in map.dim PROVE FALSE
        OBVIOUS
      <4>1. x = map.marks[p].at /\ x # map.spider /\ Cardinality(On(map, x)) > 1
        BY <1>0, <1>1, <2>3, <2>5 DEF Rested
      <4>2. On(map, x) = {p}
        BY <2>6, <4>1 DEF Own
      <4>3. Cardinality({p}) = 1
        BY FS_Singleton
      <4>4. ~(1 > 1)
        OBVIOUS
      <4> QED
        BY <4>1, <4>2, <4>3, <4>4
    <3>2. far = {}
      <4> SUFFICES ASSUME NEW q \in S PROVE Own(map, q)
        OBVIOUS
      <4>1. map.marks[q].at = map.marks[p].at /\ map.marks[q] # NoMark
        BY <1>1, <2>3
      <4>2. CASE map.spider = map.marks[p].at
        BY <4>1, <4>2 DEF Own
      <4>3. CASE On(map, map.marks[p].at) = {p}
        <5>1. q \in On(map, map.marks[p].at)
          BY <4>1 DEF On
        <5>2. q = p
          BY <4>3, <5>1
        <5> QED
          BY <2>6, <5>2
      <4> QED
        BY <2>6, <4>2, <4>3 DEF Own
    <3>3. k.dim = {}
      BY <1>4, <3>1, <3>2
    <3> QED
      BY <2>4, <3>3 DEF Kept
  <2>7. CASE ~Own(map, p)
    <3>1. icon.at = map.move.center
      BY <1>1, <1>3, <2>3, <2>7
    <3>2. k.dim \subseteq {map.move.center}
      <4>1. \A q \in far : map.marks[q].at = map.move.center
        BY <2>3
      <4> HIDE DEF far
      <4> QED
        BY <1>4, <2>5, <4>1
    <3> QED
      BY <1>6, <2>4, <3>1, <3>2 DEF Kept
  <2> QED
    BY <2>6, <2>7
<1> HIDE DEF k, far, live
<1>9. Upright(k)
  <2>1. ASSUME NEW q \in Photos PROVE MarkHolds(k, q)
    BY <1>2, <1>5, <1>6 DEF MarkHolds
  <2> QED
    BY <1>0, <1>3, <1>6, <1>7, <1>8, <2>1 DEF Upright
<1>10. \A q \in Photos : Follows(app, k, q)
  <2>1. \A q \in Photos : Follows(app, map, q)
    BY DEF OverlayInv
  <2> QED
    BY <1>5, <2>1 DEF Follows
<1>11. map' = Settled(k) /\ app' = app
  BY <1>1 DEF RestoreFade, k
<1>12. Upright(map') /\ Rested(map') /\ \A q \in Photos : Follows(app', map', q)
  BY <1>9, <1>10, <1>11, SettledHolds
<1> QED
  BY <1>0, <1>11, <1>12 DEF OverlayInv

LEMMA OverlayStep ==
    OverlayInv /\ [OverlayNext]_overlayVars => OverlayInv'
<1> SUFFICES ASSUME OverlayInv, [OverlayNext]_overlayVars PROVE OverlayInv'
  OBVIOUS
<1>1. CASE Elsewhere
  BY <1>1, ElsewhereHolds
<1>2. CASE OnTheMap
  BY <1>2, MarkerHolds, DragHolds, GroupHolds, RestoreHolds DEF OnTheMap
<1>3. CASE UNCHANGED overlayVars
  BY <1>3 DEF overlayVars, OverlayInv
<1> QED
  BY <1>1, <1>2, <1>3 DEF OverlayNext

LEMMA OverlayInitially == OverlayInit => OverlayInv
<1> SUFFICES ASSUME OverlayInit PROVE OverlayInv
  OBVIOUS
<1>1. /\ [p \in Photos |-> NoSpot] \in [Photos -> Sites] /\ [p \in Photos |-> NoLoc] \in [Photos -> Locs]
      /\ [p \in Photos |-> NoMark] \in [Photos -> Marks] /\ Located \in [Photos -> Sites]
  BY Absent, SpotsAreSites, OverlayAssumption DEF Sites
<1>2. app \in Apps
  BY <1>1, Absent DEF OverlayInit, Apps
<1>3. map \in Overlays
  BY <1>1, Absent DEF OverlayInit, Overlays
<1>4. /\ ~NoMark.faded /\ ~NoMark.sure /\ NoLoc.at = NoSpot /\ NoLoc.source # "gpx"
  BY DEF NoMark, NoLoc, Loc
<1>5. ASSUME NEW p \in Photos PROVE MarkHolds(map, p) /\ Follows(app, map, p)
  BY <1>4, Absent DEF OverlayInit, MarkHolds, Follows, Listed, GPXMode
<1>6. map.move = NoMove /\ map.pill = NoPill /\ map.dim = {}
  BY DEF OverlayInit
<1>7. Kept(map)
  BY <1>4, <1>6 DEF OverlayInit, Kept
<1>8. Rested(map)
  BY <1>6 DEF Rested
<1> QED
  BY <1>2, <1>3, <1>5, <1>6, <1>7, <1>8, Absent DEF OverlayInv, Upright

(***************************************************************************)
(* Whatever the handlers did to the markers (drawn, faded, dragged,        *)
(* cleared) before the application rendered, after its effects there is    *)
(* one for every photo to be shown, in its place; it remembers its colour, *)
(* and shows it unless a handler drew it since; and a handler that changes *)
(* nothing of the application leaves them so (overviewLayerMarkerSync,     *)
(* overviewLayerHandlers, groupMoveHelpers).                               *)
(***************************************************************************)
THEOREM MarkersFollow == OverlaySpec => []MarkersFollowTheApplication
<1>1. OverlayInv => MarkersFollowTheApplication
  <2> SUFFICES ASSUME OverlayInv, NEW p \in Photos
               PROVE  LET mark == map.marks[p]
                      IN  /\ (mark # NoMark) <=> (Listed(app, p) # NoSpot)
                          /\ mark # NoMark => mark.at = Resolved(app, p) /\ mark.grey = Grey(app, p)
                          /\ mark.sure => mark.drawn = Grey(app, p)
    BY DEF MarkersFollowTheApplication
  <2>1. Follows(app, map, p) /\ MarkHolds(map, p)
    BY DEF OverlayInv, Upright
  <2>2. ~NoMark.sure
    BY DEF NoMark
  <2> QED
    BY <2>1, <2>2 DEF Follows, MarkHolds
<1> QED
  BY <1>1, OverlayInitially, OverlayStep, PTL DEF OverlaySpec

(***************************************************************************)
(* However often the icons of a move are faded again and whatever clicks,  *)
(* answers, filters or imports come in between, unless its group comes     *)
(* apart nothing is faded that the end of the move does not show again     *)
(* (clearGroupMoveArtifacts, restoreGroupMoveSourceClusterIcon).           *)
(***************************************************************************)
THEOREM FadedByAMove == OverlaySpec => []FadedOnlyInAMove
<1>1. OverlayInv => FadedOnlyInAMove
  <2> SUFFICES ASSUME OverlayInv, ~map.apart
               PROVE  /\ \A p \in Photos : map.marks[p].faded => p \in DOMAIN map.move.start
                      /\ map.dim # {} => map.move # NoMove
    BY DEF FadedOnlyInAMove
  <2>1. Upright(map) /\ Kept(map) /\ Rested(map)
    BY DEF OverlayInv, Upright
  <2>2. \A p \in Photos : map.marks[p].faded => p \in DOMAIN map.move.start
    BY <2>1 DEF Upright, Kept
  <2>3. ASSUME NEW x \in map.dim, map.move = NoMove PROVE FALSE
    <3>1. x = NoSpot /\ Cardinality(On(map, x)) > 1
      BY <2>1, <2>3, Absent DEF Kept, Rested
    <3>2. On(map, x) = {}
      BY <2>1, <3>1, Absent DEF On, Upright, MarkHolds
    <3>3. Cardinality({}) = 0 /\ ~(0 > 1)
      BY FS_EmptySet
    <3> QED
      BY <3>1, <3>2, <3>3
  <2> QED
    BY <2>2, <2>3
<1> QED
  BY <1>1, OverlayInitially, OverlayStep, PTL DEF OverlaySpec

------------------------------------------------------------------------------
(***************************************************************************)
(* The camera.                                                             *)
(***************************************************************************)
Pins == {NoPin} \union [at : {{p} : p \in Places}, source : {"search", "goto", "drop", "marker"}]

Pages == [mode : {"timeline", "album"}, album : Catalog \union {NoAlbum}, tagged : BOOLEAN,
          gps : {"with", "without"}, markers : SUBSET Places, edits : SUBSET Places,
          import : SUBSET Places, pin : Pins, chosen : BOOLEAN, asked : SUBSET Places]

Cameras == [view : SUBSET Places, to : SUBSET Places, drag : BOOLEAN, crossed : BOOLEAN,
            programmatic : BOOLEAN, fitted : Catalog \union {"none", "all", Import},
            pinMark : SUBSET Places, key : SUBSET Places, timer : SUBSET Places,
            initial : {"tiles", "timer", "done"}, back : BOOLEAN]

\* Bounds that are not asked for are those of the timer, which runs for nothing else but
\* after the map came back.
BoundsKept(c) == ~c.back => (c.view = c.key /\ c.timer = NoView) \/ c.timer = c.view

\* A flight is announced, unless a drag it crossed has used up the announcement.
FlightKept(c) ==
    /\ c.to # NoView /\ ~c.crossed => c.programmatic
    /\ c.to # NoView /\ c.drag => c.crossed

Steady(c) == c \in Cameras /\ BoundsKept(c) /\ FlightKept(c)

CameraInv == page \in Pages /\ page.pin.source # "goto" /\ Steady(cam)

\* A flight goes somewhere, and leaves the bounds alone.
LEMMA FlightSteady ==
    ASSUME NEW c, Steady(c), NEW v \in SUBSET Places, v # NoView
    PROVE  Steady(Flight(c, v)) /\ Flight(c, v).to # NoView
<1> DEFINE d == [c EXCEPT !.to = v, !.crossed = c.drag, !.programmatic = TRUE]
<1>1. /\ d \in Cameras /\ d.to = v /\ d.crossed = c.drag /\ d.programmatic = TRUE /\ d.drag = c.drag
      /\ d.view = c.view /\ d.key = c.key /\ d.timer = c.timer /\ d.back = c.back
  BY DEF Steady, Cameras
<1>2. Flight(c, v) = d
  BY DEF Flight
<1> HIDE DEF d
<1> QED
  BY <1>1, <1>2 DEF Steady, BoundsKept, FlightKept

\* What is fitted and where the pin's marker is concerns neither bounds nor flights.
LEMMA NotedSteady ==
    ASSUME NEW c, Steady(c)
    PROVE  /\ \A k \in Catalog \union {"none", "all", Import} :
                Steady([c EXCEPT !.fitted = k]) /\ [c EXCEPT !.fitted = k].to = c.to
           /\ \A S \in SUBSET Places : Steady([c EXCEPT !.pinMark = S]) /\ [c EXCEPT !.pinMark = S].to = c.to
<1>1. ASSUME NEW k \in Catalog \union {"none", "all", Import}
      PROVE  Steady([c EXCEPT !.fitted = k]) /\ [c EXCEPT !.fitted = k].to = c.to
  <2> DEFINE d == [c EXCEPT !.fitted = k]
  <2>1. /\ d \in Cameras /\ d.to = c.to /\ d.crossed = c.crossed /\ d.programmatic = c.programmatic
        /\ d.drag = c.drag /\ d.view = c.view /\ d.key = c.key /\ d.timer = c.timer /\ d.back = c.back
    BY DEF Steady, Cameras
  <2> HIDE DEF d
  <2>2. Steady(d)
    BY <2>1 DEF Steady, BoundsKept, FlightKept
  <2> QED
    BY <2>1, <2>2 DEF d
<1>2. ASSUME NEW S \in SUBSET Places
      PROVE  Steady([c EXCEPT !.pinMark = S]) /\ [c EXCEPT !.pinMark = S].to = c.to
  <2> DEFINE d == [c EXCEPT !.pinMark = S]
  <2>1. /\ d \in Cameras /\ d.to = c.to /\ d.crossed = c.crossed /\ d.programmatic = c.programmatic
        /\ d.drag = c.drag /\ d.view = c.view /\ d.key = c.key /\ d.timer = c.timer /\ d.back = c.back
    BY DEF Steady, Cameras
  <2> HIDE DEF d
  <2>2. Steady(d)
    BY <2>1 DEF Steady, BoundsKept, FlightKept
  <2> QED
    BY <2>1, <2>2 DEF d
<1> QED
  BY <1>1, <1>2

LEMMA PinSteady ==
    ASSUME NEW b \in Pages, NEW c, Steady(c)
    PROVE  Steady(PinEffect(b, c)) /\ (PinEffect(b, c).to = c.to \/ PinEffect(b, c).to # NoView)
<1> DEFINE S == IF b.chosen \/ b.pin.source = "goto" THEN {} ELSE b.pin.at
           marked == [c EXCEPT !.pinMark = S]
<1>1. b.pin \in Pins /\ b.pin.at \in SUBSET Places
  BY DEF Pages, Pins, NoPin
<1>2. S \in SUBSET Places
  BY <1>1
<1>3. Steady(marked) /\ marked.to = c.to
  BY <1>2, NotedSteady
<1>4. PinFlies(b, c) => b.pin.at # NoView
  BY <1>1 DEF PinFlies, Pins, NoPin, NoView
<1>5. PinEffect(b, c) = IF PinFlies(b, c) THEN Flight(marked, b.pin.at) ELSE marked
  BY DEF PinEffect
<1> HIDE DEF marked
<1> QED
  BY <1>1, <1>3, <1>4, <1>5, FlightSteady

LEMMA FitSteady ==
    ASSUME NEW a \in Pages, NEW b \in Pages, NEW c, Steady(c)
    PROVE  Steady(AutoFit(a, b, c)) /\ (AutoFit(a, b, c).to = c.to \/ AutoFit(a, b, c).to # NoView)
<1> DEFINE reset == [c EXCEPT !.fitted = "none"]
           fitted == [c EXCEPT !.fitted = AutoFitKey(b)]
<1>1. AutoFitKey(b) \in Catalog \union {"none", "all", Import}
  BY DEF AutoFitKey, Album, Pages
<1>2. AutoFitKey(b) # "none" => Shown(b) # NoView
  BY DEF AutoFitKey, NoView
<1>3. Shown(b) \in SUBSET Places
  BY DEF Shown, Pages
<1>4. World \in SUBSET Places /\ World # NoView
  BY CameraAssumption DEF World, NoView
<1>5. Steady(reset) /\ reset.to = c.to /\ Steady(fitted) /\ fitted.to = c.to
  BY <1>1, NotedSteady
<1>6. \/ AutoFit(a, b, c) \in {c, reset, Flight(reset, World)}
      \/ AutoFitKey(b) # "none" /\ AutoFit(a, b, c) = Flight(fitted, Shown(b))
  BY DEF AutoFit, Fit
<1> HIDE DEF reset, fitted
<1> QED
  BY <1>2, <1>3, <1>4, <1>5, <1>6, FlightSteady

\* A render keeps the camera steady; only the pin of a "go to" is used up by it.
LEMMA RenderSteady ==
    ASSUME page \in Pages, NEW b \in Pages, NEW pinned, NEW c, Steady(c), RenderMap(b, pinned, c)
    PROVE  /\ CameraInv'
           /\ page'.pin = IF b.pin.source = "goto" THEN NoPin ELSE b.pin
           /\ cam'.to = c.to \/ cam'.to # NoView
<1> DEFINE c1 == IF pinned \/ page.pin # b.pin THEN PinEffect(b, c) ELSE c
           b2 == [b EXCEPT !.pin = IF @.source = "goto" THEN NoPin ELSE @,
                           !.markers = IF Forgets(page, b) THEN {} ELSE @]
           c2 == AutoFit(page, b, c1)
<1>1. page' = b2 /\ cam' = AutoFit(b, b2, c2)
  BY DEF RenderMap
<1>2. Steady(c1) /\ (c1.to = c.to \/ c1.to # NoView)
  BY PinSteady
<1>3. Steady(c2) /\ (c2.to = c.to \/ c2.to # NoView)
  BY <1>2, FitSteady
<1>4. b2 \in Pages /\ b2.pin = (IF b.pin.source = "goto" THEN NoPin ELSE b.pin)
  BY DEF Pages, Pins
<1>5. b2.pin.source # "goto"
  BY <1>4 DEF NoPin
<1> HIDE DEF c1, c2, b2
<1>6. Steady(cam') /\ (cam'.to = c.to \/ cam'.to # NoView)
  BY <1>1, <1>3, <1>4, FitSteady
<1>7. CameraInv'
  BY <1>1, <1>4, <1>5, <1>6 DEF CameraInv
<1> QED
  BY <1>1, <1>4, <1>6, <1>7

\* The end of a movement notes the bounds, whatever they were before.
LEMMA MoveSteady ==
    ASSUME page \in Pages, page.pin.source # "goto", NEW c \in Cameras,
           c.to # NoView => c.crossed, MoveEnd(c)
    PROVE  /\ CameraInv'
           /\ c.programmatic => page'.pin = page.pin
           /\ cam'.to = c.to \/ cam'.to # NoView
<1> DEFINE d == [c EXCEPT !.programmatic = FALSE]
           e == SyncBounds(d)
           b == [page EXCEPT !.pin = IF c.programmatic THEN @ ELSE NoPin]
<1>1. d \in Cameras /\ d.to = c.to /\ d.crossed = c.crossed /\ d.drag = c.drag
  BY DEF Cameras
<1>2. Steady(e) /\ e.to = c.to
  <2>1. CASE d.view # d.key
    <3>1. e = [d EXCEPT !.timer = d.view, !.back = FALSE]
      BY <2>1 DEF SyncBounds
    <3>2. e \in Cameras /\ e.timer = e.view /\ e.to = d.to /\ e.crossed = d.crossed /\ e.drag = d.drag
      BY <1>1, <3>1 DEF Cameras
    <3> QED
      BY <1>1, <3>2 DEF Steady, BoundsKept, FlightKept
  <2>2. CASE d.view = d.key
    <3>1. e = [d EXCEPT !.back = d.timer # NoView]
      BY <2>2 DEF SyncBounds
    <3>2. /\ e \in Cameras /\ e.to = d.to /\ e.crossed = d.crossed /\ e.drag = d.drag
          /\ e.view = d.view /\ e.key = d.key /\ e.timer = d.timer /\ e.back = (d.timer # NoView)
      BY <1>1, <3>1 DEF Cameras
    <3> QED
      BY <1>1, <2>2, <3>2 DEF Steady, BoundsKept, FlightKept
  <2> QED
    BY <2>1, <2>2
<1>3. b \in Pages /\ b.pin.source # "goto" /\ (c.programmatic => b.pin = page.pin)
  BY DEF Pages, Pins, NoPin
<1>4. RenderMap(b, FALSE, e)
  BY DEF MoveEnd
<1> HIDE DEF b, e
<1> QED
  BY <1>2, <1>3, <1>4, RenderSteady

\* The application redraws the map, which moves it by flights only.
LEMMA ApplicationSteady ==
    ASSUME CameraInv, Application
    PROVE  CameraInv' /\ (cam'.to = cam.to \/ cam'.to # NoView)
<1>1. ASSUME NEW b \in Pages, NEW pinned, RenderMap(b, pinned, cam)
      PROVE  CameraInv' /\ (cam'.to = cam.to \/ cam'.to # NoView)
  BY <1>1, RenderSteady DEF CameraInv
<1>2. /\ page \in Pages
      /\ \A m \in {"timeline", "album"}, a \in Catalog \union {NoAlbum} :
           [page EXCEPT !.mode = m, !.album = a] \in Pages
      /\ [page EXCEPT !.tagged = ~@] \in Pages /\ [page EXCEPT !.chosen = ~@] \in Pages
      /\ \A g \in {"with", "without"} : [page EXCEPT !.gps = g] \in Pages
      /\ \A q \in Pins : [page EXCEPT !.pin = q] \in Pages
  BY DEF CameraInv, Pages
<1>3. ASSUME NEW S \in SUBSET Places
      PROVE  /\ [page EXCEPT !.edits = S] \in Pages
             /\ [page EXCEPT !.import = S] \in Pages
             /\ [page EXCEPT !.markers = S] \in Pages
  <2>0. page \in Pages
    BY <1>2
  <2>1. [page EXCEPT !.edits = S] \in Pages
    BY <2>0 DEF Pages
  <2>2. [page EXCEPT !.import = S] \in Pages
    BY <2>0 DEF Pages
  <2>3. [page EXCEPT !.markers = S] \in Pages
    BY <2>0 DEF Pages
  <2> QED
    BY <2>1, <2>2, <2>3
<1>4. CASE Filter \/ ToggleChosen \/ DropPin
  BY <1>1, <1>2, <1>4 DEF Filter, ToggleChosen, DropPin, Pins
<1>5. ASSUME NEW m \in {"timeline", "album"}, NEW a \in Catalog \union {NoAlbum}, ShowAlbum(m, a)
      PROVE  CameraInv' /\ (cam'.to = cam.to \/ cam'.to # NoView)
  BY <1>1, <1>2, <1>5 DEF ShowAlbum
<1>6. ASSUME NEW g \in {"with", "without"}, FilterGPS(g)
      PROVE  CameraInv' /\ (cam'.to = cam.to \/ cam'.to # NoView)
  BY <1>1, <1>2, <1>6 DEF FilterGPS
<1>7. ASSUME NEW S \in SUBSET Places, Edits(S) \/ Imports(S) \/ MarkersArrive(S)
      PROVE  CameraInv' /\ (cam'.to = cam.to \/ cam'.to # NoView)
  BY <1>1, <1>3, <1>7 DEF Edits, Imports, MarkersArrive
<1>8. ASSUME NEW p \in Places, NEW s \in {"search", "goto", "drop"}, SetPin(p, s)
      PROVE  CameraInv' /\ (cam'.to = cam.to \/ cam'.to # NoView)
  <2>1. [at |-> {p}, source |-> s] \in Pins
    BY DEF Pins
  <2> QED
    BY <1>1, <1>2, <1>8, <2>1 DEF SetPin
<1>9. ASSUME NEW p \in Places, DragPin(p)
      PROVE  CameraInv' /\ (cam'.to = cam.to \/ cam'.to # NoView)
  <2>1. [at |-> {p}, source |-> "marker"] \in Pins
    BY DEF Pins
  <2>2. Steady([cam EXCEPT !.pinMark = {p}]) /\ [cam EXCEPT !.pinMark = {p}].to = cam.to
    BY NotedSteady DEF CameraInv
  <2> QED
    BY <1>2, <1>9, <2>1, <2>2, RenderSteady DEF DragPin, CameraInv
<1> QED
  BY <1>4, <1>5, <1>6, <1>7, <1>8, <1>9 DEF Application

\* The map moves and its timers fire; a flight that ends or is ended was announced.
LEMMA MapSteady ==
    ASSUME CameraInv, Map
    PROVE  /\ CameraInv'
           /\ cam.to # NoView /\ ~cam.crossed /\ cam'.to = NoView => page'.pin = page.pin
<1>0. page \in Pages /\ page.pin.source # "goto" /\ cam \in Cameras /\ BoundsKept(cam) /\ FlightKept(cam)
  BY DEF CameraInv, Steady
<1>1. CASE Lands
  <2> DEFINE c == [cam EXCEPT !.view = cam.to, !.to = NoView]
  <2>1. c \in Cameras /\ c.to = NoView /\ c.programmatic = cam.programmatic
    BY <1>0 DEF Cameras, NoView
  <2>2. MoveEnd(c)
    BY <1>1 DEF Lands
  <2> HIDE DEF c
  <2> QED
    BY <1>0, <2>1, <2>2, MoveSteady DEF FlightKept
<1>2. ASSUME NEW v \in SUBSET Places, Moves(v)
      PROVE  /\ CameraInv'
             /\ cam.to # NoView /\ ~cam.crossed /\ cam'.to = NoView => page'.pin = page.pin
  <2> DEFINE c == [cam EXCEPT !.view = v, !.to = NoView]
  <2>1. c \in Cameras /\ c.to = NoView /\ c.programmatic = cam.programmatic
    BY <1>0 DEF Cameras, NoView
  <2>2. MoveEnd(c)
    BY <1>2 DEF Moves
  <2> HIDE DEF c
  <2> QED
    BY <1>0, <2>1, <2>2, MoveSteady DEF FlightKept
<1>3. CASE DragStarts
  <2>1. cam' = [cam EXCEPT !.drag = TRUE, !.to = NoView] /\ page' = page
    BY <1>3 DEF DragStarts
  <2>2. /\ cam' \in Cameras /\ cam'.to = NoView
        /\ cam'.view = cam.view /\ cam'.key = cam.key /\ cam'.timer = cam.timer /\ cam'.back = cam.back
    BY <1>0, <2>1 DEF Cameras, NoView
  <2> QED
    BY <1>0, <2>1, <2>2 DEF CameraInv, Steady, BoundsKept, FlightKept
<1>4. ASSUME NEW v \in SUBSET Places, DragEnds(v)
      PROVE  /\ CameraInv'
             /\ cam.to # NoView /\ ~cam.crossed /\ cam'.to = NoView => page'.pin = page.pin
  <2> DEFINE c == [cam EXCEPT !.drag = FALSE, !.view = v]
  <2>1. c \in Cameras /\ c.to = cam.to /\ c.crossed = cam.crossed
    BY <1>0 DEF Cameras
  <2>2. MoveEnd(c) /\ cam.drag
    BY <1>4 DEF DragEnds
  <2> HIDE DEF c
  <2> QED
    BY <1>0, <2>1, <2>2, MoveSteady DEF FlightKept
<1>5. CASE BoundsFire
  <2> DEFINE c == [cam EXCEPT !.key = cam.timer, !.timer = NoView]
             b == [page EXCEPT !.asked = cam.timer]
  <2>1. /\ c \in Cameras /\ c.to = cam.to /\ c.crossed = cam.crossed /\ c.programmatic = cam.programmatic
        /\ c.drag = cam.drag /\ c.view = cam.view /\ c.key = cam.timer /\ c.timer = NoView /\ c.back = cam.back
    BY <1>0 DEF Cameras, NoView
  <2>2. b \in Pages
    BY <1>0 DEF Pages, Cameras
  <2>3. RenderMap(b, FALSE, c) /\ cam.timer # NoView
    BY <1>5 DEF BoundsFire
  <2> HIDE DEF b, c
  <2>4. Steady(c)
    BY <1>0, <2>1, <2>3 DEF Steady, BoundsKept, FlightKept
  <2> QED
    BY <1>0, <2>1, <2>2, <2>3, <2>4, RenderSteady
<1>6. ASSUME NEW i \in {"timer", "done"}
      PROVE  Steady([cam EXCEPT !.initial = i]) /\ [cam EXCEPT !.initial = i].to = cam.to
  <2> DEFINE c == [cam EXCEPT !.initial = i]
  <2>1. /\ c \in Cameras /\ c.to = cam.to /\ c.crossed = cam.crossed /\ c.programmatic = cam.programmatic
        /\ c.drag = cam.drag /\ c.view = cam.view /\ c.key = cam.key /\ c.timer = cam.timer /\ c.back = cam.back
    BY <1>0 DEF Cameras
  <2> HIDE DEF c
  <2>2. Steady(c)
    BY <1>0, <2>1 DEF Steady, BoundsKept, FlightKept
  <2> QED
    BY <2>1, <2>2 DEF c
<1>7. CASE TilesLoad \/ ToggleTiles
  BY <1>0, <1>6, <1>7 DEF TilesLoad, ToggleTiles, CameraInv
<1>8. CASE InitialFires
  <2>1. [page EXCEPT !.asked = World] \in Pages
    BY <1>0 DEF Pages, World
  <2> QED
    BY <1>0, <1>6, <1>8, <2>1, RenderSteady DEF InitialFires
<1> QED
  BY <1>1, <1>2, <1>3, <1>4, <1>5, <1>7, <1>8 DEF Map

LEMMA CameraInitially == CameraInit => CameraInv
<1> SUFFICES ASSUME CameraInit PROVE CameraInv
  OBVIOUS
<1>1. page \in Pages /\ page.pin.source # "goto"
  BY DEF CameraInit, Pages, Pins, NoPin, NoView
<1>2. cam \in Cameras
  BY DEF CameraInit, Cameras, NoView, World
<1> QED
  BY <1>1, <1>2 DEF CameraInit, CameraInv, Steady, BoundsKept, FlightKept, NoView

LEMMA CameraStays == CameraInv /\ [CameraNext]_cameraVars => CameraInv'
<1>1. CameraInv /\ UNCHANGED cameraVars => CameraInv'
  BY DEF cameraVars, CameraInv, Steady, BoundsKept, FlightKept
<1> QED
  BY <1>1, ApplicationSteady, MapSteady DEF CameraNext

(***************************************************************************)
(* The bounds of a map at rest were asked for or are about to be, for any  *)
(* places, albums and number of movements (syncMapBounds).                 *)
(***************************************************************************)
THEOREM BoundsAreAsked == CameraSpec => []BoundsAreOnTheWay
<1>1. CameraInv => BoundsAreOnTheWay
  BY DEF CameraInv, Steady, BoundsKept, BoundsAreOnTheWay
<1> QED
  BY <1>1, CameraInitially, CameraStays, PTL DEF CameraSpec

\* A flight that ends, however it ends, leaves the pin (handleMoveEnd).
THEOREM PinSurvivesFlights == CameraSpec => FlightsKeepThePin
<1>1. CameraInv /\ [CameraNext]_cameraVars =>
        [cam.to # NoView /\ ~cam.crossed /\ cam'.to = NoView => page'.pin = page.pin]_cameraVars
  BY ApplicationSteady, MapSteady DEF CameraNext
<1> QED
  BY <1>1, CameraInitially, CameraStays, PTL DEF CameraSpec, FlightsKeepThePin
==============================================================================
