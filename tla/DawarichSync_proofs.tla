------------------------- MODULE DawarichSync_proofs -------------------------
(***************************************************************************)
(* Proofs about DawarichSync for every set of tracks and requests, every   *)
(* number of changes and any calls that fail.  Both invariants rest on one *)
(* fact about a disconnection (Guarded): from the moment it goes on to     *)
(* delete, no run is under way, or the excuse was taken.                   *)
(***************************************************************************)
EXTENDS DawarichSync, TLAPS

TrackVersions == [Tracks -> Versions \union {Absent}]
RunRecords == [phase : Phases, cancelled : BOOLEAN, landing : BOOLEAN, list : TrackVersions,
               left : SUBSET Tracks, todo : SUBSET Tracks, track : Tracks \union {Absent},
               got : Nat, touched : SUBSET Tracks]
Places == {"idle", "storeKey", "trigger", "cancel", "poll", "clearKey", "deleteData"}

\* What a phase needs of the fields of the run: a track in hand is one of those to fetch,
\* these were listed, and in between the run has no track.
Placed ==
    /\ RunIs("loop") \/ RunIs("store") => run.todo \subseteq Listed
    /\ RunIs("store") => run.track \in run.todo

Typed == TypeOK /\ Placed

\* A run and a deletion meet only with the excuse; so do a run and a user without a key.
Guarded ==
    /\ Syncing /\ (\E p \in Procs : pc[p] \in {"clearKey", "deleteData"}) => excused
    /\ Syncing /\ ~connected => excused

\* Once a run has stored its list every listed track has its row.
ListStored ==
    run.phase \in {"read", "loop", "store", "clean", "stamp"} /\ ~excused =>
        \A t \in Listed : rows[t] # Absent

\* A user without a key has no rows, or they are about to be deleted.
Cleared ==
    ~connected /\ ~excused =>
        \/ rows = Nothing /\ points = NoPoints
        \/ \E p \in Procs : pc[p] = "deleteData"

IInv == Typed /\ Guarded /\ ListStored /\ PointsBelongToTracks /\ Cleared

------------------------------------------------------------------------------
(* Types                                                                   *)

LEMMA Empty ==
    /\ Nothing \in TrackVersions /\ NoPoints \in [Tracks -> Nat]
    /\ NoRun \in RunRecords /\ NoRun.phase = "idle"
BY DEF Nothing, NoPoints, NoRun, TrackVersions, RunRecords, Phases

LEMMA TypedRun == TypeOK <=>
    /\ remote \in TrackVersions /\ rows \in TrackVersions /\ points \in [Tracks -> Nat]
    /\ connected \in BOOLEAN /\ synced \in BOOLEAN /\ failed \in BOOLEAN
    /\ run \in RunRecords
    /\ pc \in [Procs -> Places] /\ down \in BOOLEAN /\ edits \in 0..MaxEdits /\ excused \in BOOLEAN
BY DEF TypeOK, TrackVersions, RunRecords, Places

\* A run that is told to stop is the same run but for that.
LEMMA CancelledRun ==
    ASSUME TypeOK, NEW r \in Cancelled
    PROVE  /\ r \in RunRecords /\ r.phase = run.phase /\ r.list = run.list
           /\ r.todo = run.todo /\ r.track = run.track
<1>1. run \in RunRecords
  BY TypedRun
<1>2. CASE run.cancelled
  BY <1>1, <1>2 DEF Cancelled
<1>3. CASE ~run.cancelled
  <2>1. PICK l \in BOOLEAN : r = [run EXCEPT !.cancelled = TRUE, !.landing = l]
    BY <1>3 DEF Cancelled
  <2> QED
    BY <1>1, <2>1 DEF RunRecords
<1> QED
  BY <1>2, <1>3

\* The steps of a run keep its type, and what a phase needs.
LEMMA RunTyped ==
    ASSUME Typed, RunNext
    PROVE  Typed'
<1>0. /\ run \in RunRecords /\ remote \in TrackVersions /\ rows \in TrackVersions
      /\ points \in [Tracks -> Nat] /\ Listed \subseteq Tracks
  BY TypedRun DEF Typed, Listed
<1>a. ASSUME Unchanged, run' \in RunRecords, rows' \in TrackVersions, points' \in [Tracks -> Nat],
             synced' \in BOOLEAN, failed' \in BOOLEAN
      PROVE  TypeOK'
  BY <1>a, TypedRun DEF Unchanged, Typed, TypeOK, RunRecords, TrackVersions
<1>b. ASSUME run' = NoRun PROVE run' \in RunRecords /\ Placed'
  BY <1>b, Empty DEF Placed, RunIs
<1>c. synced \in BOOLEAN /\ failed \in BOOLEAN
  BY DEF Typed, TypeOK
<1>1. CASE ListTracks
  <2>1. /\ run' \in RunRecords /\ run'.phase = "upsert"
    BY <1>0, <1>1 DEF ListTracks, RunRecords, Phases
  <2> QED
    BY <1>0, <1>1, <1>a, <1>c, <2>1 DEF ListTracks, Typed, Placed, RunIs
<1>2. CASE ListTracksFails \/ UpsertTracksFails \/ FetchPointsFails \/ StorePointsFails
  BY <1>0, <1>2, <1>a, <1>b, <1>c DEF ListTracksFails, UpsertTracksFails, FetchPointsFails,
     StorePointsFails, EndsInError, RunOver, Typed
<1>3. CASE UpsertTracks
  <2>1. run' \in RunRecords /\ run'.phase = "read"
    BY <1>0, <1>3 DEF UpsertTracks, RunRecords, Phases
  <2>2. rows' \in TrackVersions
    BY <1>0, <1>3 DEF UpsertTracks, RunRecords, TrackVersions
  <2> QED
    BY <1>0, <1>3, <1>a, <1>c, <2>1, <2>2 DEF UpsertTracks, Typed, Placed, RunIs
<1>4. CASE ReadExisting
  <2>1. PICK S \in SUBSET Listed : run' = LoopOver(S)
    BY <1>4 DEF ReadExisting
  <2>2. run' \in RunRecords /\ run'.phase = "loop" /\ run'.todo = S /\ run'.list = run.list
    BY <1>0, <2>1 DEF LoopOver, RunRecords, Phases
  <2>3. Placed'
    BY <2>2 DEF Placed, RunIs, Listed
  <2> QED
    BY <1>0, <1>4, <1>a, <1>c, <2>2, <2>3 DEF ReadExisting, Typed
<1>5. CASE LoopCancelled
  BY <1>0, <1>5, <1>a, <1>b, <1>c DEF LoopCancelled, RunOver, Typed
<1>6. ASSUME NEW t \in Tracks, SkipTrack(t) PROVE Typed'
  <2>1. /\ run' \in RunRecords /\ run'.phase = "loop" /\ run'.todo = run.todo /\ run'.list = run.list
    BY <1>0, <1>6 DEF SkipTrack, RunRecords, RunIs
  <2>2. Placed'
    BY <1>6, <2>1 DEF SkipTrack, Typed, Placed, RunIs, Listed
  <2> QED
    BY <1>0, <1>6, <1>a, <1>c, <2>1, <2>2 DEF SkipTrack, Typed
<1>7. ASSUME NEW t \in Tracks, FetchPoints(t) PROVE Typed'
  <2>1. remote[t] \in Nat
    BY <1>0, <1>7 DEF FetchPoints, TrackVersions, Versions
  <2>2. /\ run' \in RunRecords /\ run'.phase = "store" /\ run'.todo = run.todo /\ run'.list = run.list
        /\ run'.track = t
    BY <1>0, <1>7, <2>1 DEF FetchPoints, RunRecords, Phases
  <2>3. Placed'
    BY <1>7, <2>2 DEF FetchPoints, Typed, Placed, RunIs, Listed
  <2> QED
    BY <1>0, <1>7, <1>a, <1>c, <2>2, <2>3 DEF FetchPoints, Typed
<1>8. CASE StorePoints
  <2>1. run.track \in Tracks
    BY <1>0, <1>8 DEF StorePoints, Typed, Placed
  <2>2. /\ run' \in RunRecords /\ run'.phase = "loop" /\ run'.list = run.list
        /\ run'.todo = run.todo \ {run.track}
    BY <1>0, <1>8 DEF StorePoints, RunRecords, Phases
  <2>3. points' \in [Tracks -> Nat]
    BY <1>0, <1>8, <2>1 DEF StorePoints, RunRecords
  <2>4. Placed'
    BY <1>8, <2>2 DEF StorePoints, Typed, Placed, RunIs, Listed
  <2> QED
    BY <1>0, <1>8, <1>a, <1>c, <2>2, <2>3, <2>4 DEF StorePoints, Typed
<1>9. CASE LoopEnds \/ CleanUp \/ CleanUpFails
  <2>1. run' \in RunRecords /\ run'.phase \in {"clean", "stamp"}
    BY <1>0, <1>9 DEF LoopEnds, CleanUp, CleanUpFails, RunRecords, Phases
  <2>2. rows' \in TrackVersions /\ points' \in [Tracks -> Nat]
    BY <1>0, <1>9 DEF LoopEnds, CleanUp, CleanUpFails, TrackVersions
  <2> QED
    BY <1>0, <1>9, <1>a, <1>c, <2>1, <2>2 DEF LoopEnds, CleanUp, CleanUpFails, Typed, Placed, RunIs
<1>10. CASE Stamp
  BY <1>0, <1>10, <1>a, <1>b, <1>c DEF Stamp, RunOver, Typed
<1> QED
  BY <1>1, <1>2, <1>3, <1>4, <1>5, <1>6, <1>7, <1>8, <1>9, <1>10 DEF RunNext

\* So do requests, Dawarich and the process.
LEMMA OthersTyped ==
    ASSUME Typed, Next, ~RunNext
    PROVE  Typed'
<1>0. /\ run \in RunRecords /\ remote \in TrackVersions /\ rows \in TrackVersions
      /\ points \in [Tracks -> Nat] /\ pc \in [Procs -> Places] /\ edits \in 0..MaxEdits
  BY TypedRun DEF Typed
<1>1. ASSUME NEW t \in Tracks, DawarichChanges(t) PROVE Typed'
  <2>1. edits + 2 \in Versions /\ edits' \in 0..MaxEdits
    BY <1>0, <1>1, EditsAssumption DEF DawarichChanges, Versions
  <2>2. remote' \in TrackVersions
    BY <1>0, <1>1, <2>1 DEF DawarichChanges, TrackVersions
  <2>3. /\ run' \in RunRecords /\ run'.phase = run.phase /\ run'.list = run.list
        /\ run'.todo = run.todo /\ run'.track = run.track
    BY <1>0, <1>1 DEF DawarichChanges, RunRecords
  <2>4. UNCHANGED <<rows, points, connected, synced, failed, pc, down, excused>>
    BY <1>1 DEF DawarichChanges
  <2>5. TypeOK'
    BY <2>1, <2>2, <2>3, <2>4 DEF Typed, TypeOK, RunRecords, TrackVersions
  <2> QED
    BY <2>3, <2>5 DEF Typed, Placed, RunIs, Listed
<1>2. ASSUME NEW p \in Procs, BeginSync(p) \/ BeginSettings(p) \/ BeginDisconnect(p) \/ ProcNext(p)
      PROVE  Typed'
  <2>1. pc' \in [Procs -> Places]
    BY <1>0, <1>2 DEF BeginSync, BeginSettings, BeginDisconnect, ProcNext, StoreKey, TriggerStarts,
       TriggerRefused, CancelRun, RunSeenOver, PollTimesOut, ClearKey, ClearKeyFails, DeleteData,
       DeleteDataFails, Goto, Places
  <2>2. CASE TriggerStarts(p)
    <3>1. run' \in RunRecords /\ run'.phase = "list"
      BY <2>2, Empty DEF TriggerStarts, Typed, TypeOK, RunRecords, Phases
    <3>2. TypeOK'
      BY <2>1, <2>2, <3>1, TypedRun DEF TriggerStarts, Typed, TypeOK, Places, RunRecords, TrackVersions
    <3> QED
      BY <3>1, <3>2 DEF Typed, Placed, RunIs
  <2>3. CASE CancelRun(p)
    <3>1. /\ run' \in RunRecords /\ run'.phase = run.phase /\ run'.list = run.list
          /\ run'.todo = run.todo /\ run'.track = run.track
      BY <1>0, <2>3, CancelledRun DEF CancelRun, Typed
    <3>2. TypeOK'
      BY <2>1, <2>3, <3>1 DEF CancelRun, Typed, TypeOK, Places, RunRecords, TrackVersions
    <3> QED
      BY <3>1, <3>2 DEF Typed, Placed, RunIs, Listed
  <2>4. CASE DeleteData(p)
    <3>1. UNCHANGED <<remote, connected, run, down, edits>> /\ excused' \in BOOLEAN
      BY <2>4 DEF DeleteData
    <3>2. TypeOK'
      BY <2>1, <2>4, <3>1, Empty DEF DeleteData, DataDeleted, Typed, TypeOK, Places, TrackVersions
    <3> QED
      BY <3>1, <3>2 DEF Typed, Placed, RunIs, Listed
  <2>5. CASE BeginSync(p) \/ BeginSettings(p) \/ BeginDisconnect(p) \/ StoreKey(p) \/ TriggerRefused(p)
             \/ RunSeenOver(p) \/ PollTimesOut(p) \/ ClearKey(p) \/ ClearKeyFails(p) \/ DeleteDataFails(p)
    <3>1. UNCHANGED <<remote, rows, points, synced, failed, run, down, edits>>
      BY <2>5 DEF BeginSync, BeginSettings, BeginDisconnect, StoreKey, TriggerRefused, RunSeenOver,
         PollTimesOut, ClearKey, ClearKeyFails, DeleteDataFails
    <3>2. connected' \in BOOLEAN /\ excused' \in BOOLEAN
      BY <2>5 DEF BeginSync, BeginSettings, BeginDisconnect, StoreKey, TriggerRefused, RunSeenOver,
         PollTimesOut, ClearKey, ClearKeyFails, DeleteDataFails, Typed, TypeOK
    <3>3. TypeOK'
      BY <2>1, <3>1, <3>2 DEF Typed, TypeOK, Places
    <3> QED
      BY <3>1, <3>3 DEF Typed, Placed, RunIs, Listed
  <2> QED
    BY <1>2, <2>2, <2>3, <2>4, <2>5 DEF ProcNext
<1>3. CASE ImmichKeyChanges
  <2>1. TypeOK'
    BY <1>3, Empty DEF ImmichKeyChanges, DataDeleted, Typed, TypeOK, TrackVersions
  <2> QED
    BY <1>3, <2>1 DEF ImmichKeyChanges, Typed, Placed, RunIs, Listed
<1>4. CASE Shutdown
  <2>1. /\ run' \in RunRecords /\ run'.phase = run.phase /\ run'.list = run.list
        /\ run'.todo = run.todo /\ run'.track = run.track
    BY <1>0, <1>4, CancelledRun DEF Shutdown, Typed
  <2>2. TypeOK'
    BY <1>4, <2>1 DEF Shutdown, Typed, TypeOK, RunRecords, TrackVersions
  <2> QED
    BY <2>1, <2>2 DEF Typed, Placed, RunIs, Listed
<1>5. CASE Restart
  <2>1. run' \in RunRecords /\ run'.phase = "idle"
    BY <1>5, Empty DEF Restart
  <2>2. TypeOK'
    BY <1>5, <2>1 DEF Restart, Typed, TypeOK, RunRecords, TrackVersions
  <2> QED
    BY <2>1, <2>2 DEF Typed, Placed, RunIs
<1> QED
  BY <1>1, <1>2, <1>3, <1>4, <1>5 DEF Next

------------------------------------------------------------------------------
(* The invariant                                                           *)

LEMMA Initially == Init => IInv
<1> SUFFICES ASSUME Init PROVE IInv
  OBVIOUS
<1>1. ~Syncing /\ run = NoRun /\ rows = Nothing /\ points = NoPoints
  BY Empty DEF Init, Syncing
<1>2. Typed
  <2>1. remote \in TrackVersions
    BY DEF Init, TrackVersions, Versions
  <2>2. pc \in [Procs -> Places] /\ edits \in 0..MaxEdits
    BY EditsAssumption DEF Init, Places
  <2>3. TypeOK
    BY <1>1, <2>1, <2>2, Empty, TypedRun DEF Init
  <2> QED
    BY <1>1, <2>3, Empty DEF Typed, Placed, RunIs
<1>3. Guarded /\ ListStored
  BY <1>1, Empty DEF Guarded, ListStored, Syncing
<1>4. PointsBelongToTracks /\ Cleared
  BY <1>1 DEF PointsBelongToTracks, Cleared, NoPoints
<1> QED
  BY <1>2, <1>3, <1>4 DEF IInv

\* A step of a run is taken while there is one, and touches no request.
LEMMA RunSteps ==
    ASSUME RunNext
    PROVE  Syncing /\ Unchanged
BY DEF RunNext, ListTracks, ListTracksFails, UpsertTracks, UpsertTracksFails, ReadExisting,
   LoopCancelled, SkipTrack, FetchPoints, FetchPointsFails, StorePoints, StorePointsFails,
   LoopEnds, CleanUp, CleanUpFails, Stamp, EndsInError, RunIs, Syncing

\* A run stores its list before it fetches points, and drops no row of that list.
LEMMA RunKeepsRows ==
    ASSUME IInv, RunNext, ~excused
    PROVE  ListStored' /\ PointsBelongToTracks'
<1>0. /\ run \in RunRecords /\ rows \in TrackVersions /\ points \in [Tracks -> Nat]
      /\ Placed /\ ListStored /\ PointsBelongToTracks
  BY TypedRun DEF IInv, Typed
<1>a. ASSUME run'.phase = "idle", UNCHANGED <<rows, points>>
      PROVE  ListStored' /\ PointsBelongToTracks'
  <2>1. ~(excused') /\ PointsBelongToTracks'
    BY <1>0, <1>a, RunSteps DEF Unchanged, PointsBelongToTracks
  <2> QED
    BY <1>a, <2>1 DEF ListStored
<1>b. ASSUME run.phase \in {"read", "loop", "store", "clean", "stamp"},
             run'.list = run.list, UNCHANGED rows
      PROVE  ListStored'
  BY <1>0, <1>b DEF ListStored, Listed
<1>1. CASE ListTracks
  BY <1>0, <1>1 DEF ListTracks, ListStored, PointsBelongToTracks, RunRecords
<1>2. CASE ListTracksFails \/ UpsertTracksFails \/ FetchPointsFails \/ StorePointsFails
  BY <1>2, <1>a, Empty DEF ListTracksFails, UpsertTracksFails, FetchPointsFails, StorePointsFails,
     EndsInError, RunOver
<1>3. CASE UpsertTracks
  <2>1. run'.list = run.list
    BY <1>0, <1>3 DEF UpsertTracks, RunRecords
  <2>2. rows' = [t \in Tracks |-> IF t \in Listed THEN run.list[t] ELSE rows[t]] /\ UNCHANGED points
    BY <1>3 DEF UpsertTracks
  <2>3. ListStored'
    BY <2>1, <2>2 DEF ListStored, Listed
  <2>4. \A t \in Tracks : rows[t] # Absent => rows'[t] # Absent
    BY <2>2 DEF Listed
  <2> QED
    BY <1>0, <2>2, <2>3, <2>4 DEF PointsBelongToTracks
<1>4. CASE ReadExisting \/ LoopEnds \/ CleanUpFails
  <2>1. run'.list = run.list
    BY <1>0, <1>4 DEF ReadExisting, LoopOver, LoopEnds, CleanUpFails, RunRecords
  <2>2. UNCHANGED <<rows, points>> /\ run.phase \in {"read", "loop", "clean"}
    BY <1>4 DEF ReadExisting, LoopEnds, CleanUpFails, RunIs
  <2> QED
    BY <1>0, <1>b, <2>1, <2>2 DEF PointsBelongToTracks
<1>5. CASE LoopCancelled \/ Stamp
  BY <1>5, <1>a, Empty DEF LoopCancelled, Stamp, RunOver
<1>6. ASSUME NEW t \in Tracks, SkipTrack(t) \/ FetchPoints(t)
      PROVE  ListStored' /\ PointsBelongToTracks'
  <2>1. run'.list = run.list
    BY <1>0, <1>6 DEF SkipTrack, FetchPoints, RunRecords
  <2>2. UNCHANGED <<rows, points>> /\ run.phase = "loop"
    BY <1>6 DEF SkipTrack, FetchPoints, RunIs
  <2> QED
    BY <1>0, <1>b, <2>1, <2>2 DEF PointsBelongToTracks
<1>7. CASE StorePoints
  <2>1. run'.list = run.list /\ UNCHANGED rows /\ run.phase = "store"
    BY <1>0, <1>7 DEF StorePoints, RunRecords, RunIs
  <2>2. run.track \in Listed
    BY <1>0, <2>1 DEF Placed, RunIs
  <2>3. rows[run.track] # Absent
    BY <1>0, <2>1, <2>2 DEF ListStored
  <2>4. \A t \in Tracks : t # run.track => points'[t] = points[t]
    BY <1>0, <1>7 DEF StorePoints
  <2> QED
    BY <1>0, <1>b, <2>1, <2>3, <2>4 DEF PointsBelongToTracks
<1>8. CASE CleanUp
  <2>1. run'.list = run.list
    BY <1>0, <1>8 DEF CleanUp, RunRecords
  <2>2. /\ rows' = [t \in Tracks |-> IF t \in Listed \/ Listed = {} THEN rows[t] ELSE Absent]
        /\ points' = [t \in Tracks |-> IF t \in Listed \/ Listed = {} THEN points[t] ELSE 0]
        /\ run.phase = "clean"
    BY <1>8 DEF CleanUp, RunIs
  <2>3. \A t \in Listed : rows[t] # Absent
    BY <1>0, <2>2 DEF ListStored
  <2>4. Listed' = Listed /\ Listed \subseteq Tracks
    BY <2>1 DEF Listed
  <2>5. ListStored'
    BY <2>2, <2>3, <2>4 DEF ListStored
  <2> QED
    BY <1>0, <2>2, <2>5 DEF PointsBelongToTracks
<1> QED
  BY <1>1, <1>2, <1>3, <1>4, <1>5, <1>6, <1>7, <1>8 DEF RunNext

LEMMA RunPreserves ==
    ASSUME IInv, RunNext
    PROVE  IInv'
<1>1. Syncing /\ UNCHANGED <<connected, pc, excused>>
  BY RunSteps DEF Unchanged
<1>2. Typed'
  BY RunTyped DEF IInv
<1>3. Guarded'
  BY <1>1 DEF IInv, Guarded
<1>4. CASE excused
  BY <1>1, <1>2, <1>3, <1>4 DEF IInv, ListStored, PointsBelongToTracks, Cleared
<1>5. CASE ~excused
  <2>1. connected
    BY <1>1, <1>5 DEF IInv, Guarded
  <2> QED
    BY <1>1, <1>2, <1>3, <1>5, <2>1, RunKeepsRows DEF IInv, Cleared
<1> QED
  BY <1>4, <1>5

\* What the tables hold matters to the invariant only by the tables themselves, the list of
\* the run and the excuse.
LEMMA SameTables ==
    ASSUME UNCHANGED <<rows, points>>, run'.phase = run.phase, run'.list = run.list,
           excused => excused', ListStored, PointsBelongToTracks
    PROVE  ListStored' /\ PointsBelongToTracks'
BY DEF ListStored, PointsBelongToTracks, Listed

\* Emptied tables suit every part of the invariant, unless a run goes on without the excuse.
LEMMA EmptiedTables ==
    ASSUME rows' = Nothing, points' = NoPoints, Syncing' => excused'
    PROVE  ListStored' /\ PointsBelongToTracks' /\ Cleared'
BY DEF ListStored, PointsBelongToTracks, Cleared, Syncing, NoPoints

LEMMA RequestPreserves ==
    ASSUME IInv, NEW p \in Procs,
           BeginSync(p) \/ BeginSettings(p) \/ BeginDisconnect(p) \/ ProcNext(p), Typed'
    PROVE  IInv'
<1>0. pc \in [Procs -> Places] /\ Guarded /\ ListStored /\ PointsBelongToTracks /\ Cleared
  BY TypedRun DEF IInv, Typed
<1>1. CASE BeginSync(p) \/ BeginSettings(p) \/ BeginDisconnect(p) \/ StoreKey(p)
           \/ TriggerRefused(p) \/ RunSeenOver(p) \/ PollTimesOut(p) \/ ClearKeyFails(p)
  <2>0. UNCHANGED <<rows, points, run>>
    BY <1>1 DEF BeginSync, BeginSettings, BeginDisconnect, StoreKey, TriggerRefused, RunSeenOver,
       PollTimesOut, ClearKeyFails
  <2>1. (excused => excused') /\ (connected => connected')
    <3>1. CASE PollTimesOut(p)
      BY <3>1 DEF PollTimesOut
    <3>2. CASE StoreKey(p)
      BY <3>2 DEF StoreKey
    <3>3. CASE ~PollTimesOut(p) /\ ~StoreKey(p)
      BY <1>1, <3>3 DEF BeginSync, BeginSettings, BeginDisconnect, TriggerRefused, RunSeenOver,
         ClearKeyFails
    <3> QED
      BY <3>1, <3>2, <3>3
  <2>2. pc[p] # "deleteData" /\ \E l : pc' = [pc EXCEPT ![p] = l]
    BY <1>1 DEF BeginSync, BeginSettings, BeginDisconnect, StoreKey, TriggerRefused, RunSeenOver,
       PollTimesOut, ClearKeyFails, Goto
  <2>3. \A q \in Procs : pc[q] = "deleteData" => pc'[q] = "deleteData"
    BY <1>0, <2>2
  <2>4. pc'[p] \in {"clearKey", "deleteData"} /\ Syncing => excused'
    BY <1>0, <1>1 DEF BeginSync, BeginSettings, BeginDisconnect, StoreKey, TriggerRefused,
       RunSeenOver, PollTimesOut, ClearKeyFails, Goto
  <2>5. \A q \in Procs : q # p => pc'[q] = pc[q]
    BY <1>0, <2>2
  <2>6. Guarded'
    BY <1>0, <2>0, <2>1, <2>4, <2>5 DEF Guarded, Syncing
  <2>7. Cleared'
    BY <1>0, <2>0, <2>1, <2>3 DEF Cleared
  <2> QED
    BY <1>0, <2>0, <2>1, <2>6, <2>7, SameTables DEF IInv
<1>2. CASE TriggerStarts(p)
  <2>1. /\ UNCHANGED <<rows, points, connected>> /\ (excused => excused')
        /\ run'.phase = "list" /\ pc' = [pc EXCEPT ![p] = "idle"] /\ pc[p] = "trigger"
    BY <1>2, Empty DEF TriggerStarts, Goto, RunRecords
  <2>2. \A q \in Procs : pc'[q] \in {"clearKey", "deleteData"} => pc'[q] = pc[q]
    BY <1>0, <2>1
  <2>3. \A q \in Procs : pc[q] = "deleteData" => pc'[q] = "deleteData"
    BY <1>0, <2>1
  <2>4. Guarded'
    <3>1. ~connected => excused'
      BY <1>2 DEF TriggerStarts
    <3>2. (\E q \in Procs : pc[q] \in {"clearKey", "deleteData"}) => excused'
      BY <1>2 DEF TriggerStarts
    <3> QED
      BY <2>1, <2>2, <3>1, <3>2 DEF Guarded
  <2>5. ListStored' /\ PointsBelongToTracks'
    BY <1>0, <2>1 DEF ListStored, PointsBelongToTracks
  <2>6. Cleared'
    BY <1>0, <2>1, <2>3 DEF Cleared
  <2> QED
    BY <2>4, <2>5, <2>6 DEF IInv
<1>3. CASE CancelRun(p)
  <2>1. /\ UNCHANGED <<rows, points, connected, excused>>
        /\ run'.phase = run.phase /\ run'.list = run.list /\ pc[p] = "cancel"
        /\ pc' = [pc EXCEPT ![p] = IF Syncing THEN "poll" ELSE "clearKey"]
    BY <1>3, CancelledRun DEF CancelRun, Goto, IInv, Typed
  <2>2. \A q \in Procs : pc[q] = "deleteData" => pc'[q] = "deleteData"
    BY <1>0, <2>1
  <2>3. Syncing => \A q \in Procs : pc'[q] \in {"clearKey", "deleteData"} => pc'[q] = pc[q]
    BY <1>0, <2>1
  <2>4. Guarded'
    BY <1>0, <2>1, <2>3 DEF Guarded, Syncing
  <2>5. Cleared'
    BY <1>0, <2>1, <2>2 DEF Cleared
  <2> QED
    BY <1>0, <2>1, <2>4, <2>5, SameTables DEF IInv
<1>4. CASE ClearKey(p)
  <2>1. /\ UNCHANGED <<rows, points, run, excused>> /\ ~(connected')
        /\ pc[p] = "clearKey" /\ pc' = [pc EXCEPT ![p] = "deleteData"]
    BY <1>4 DEF ClearKey, Goto
  <2>2. Syncing => excused
    BY <1>0, <2>1 DEF Guarded
  <2>3. Guarded' /\ Cleared'
    BY <1>0, <2>1, <2>2 DEF Guarded, Cleared, Syncing
  <2> QED
    BY <1>0, <2>1, <2>3, SameTables DEF IInv
<1>5. CASE DeleteData(p)
  <2>1. /\ rows' = Nothing /\ points' = NoPoints /\ UNCHANGED run /\ pc[p] = "deleteData"
        /\ excused' = (excused /\ Syncing)
    BY <1>5 DEF DeleteData, DataDeleted
  <2>2. Syncing => excused
    BY <1>0, <2>1 DEF Guarded
  <2>3. Syncing' => excused'
    BY <2>1, <2>2 DEF Syncing
  <2> QED
    BY <2>1, <2>3, EmptiedTables DEF IInv, Guarded
<1>6. CASE DeleteDataFails(p)
  <2>1. UNCHANGED <<rows, points, run>> /\ excused'
    BY <1>6 DEF DeleteDataFails
  <2> QED
    BY <2>1 DEF IInv, Guarded, ListStored, PointsBelongToTracks, Cleared
<1> QED
  BY <1>1, <1>2, <1>3, <1>4, <1>5, <1>6 DEF ProcNext

LEMMA ElsewherePreserves ==
    ASSUME IInv, (\E t \in Tracks : DawarichChanges(t)) \/ ImmichKeyChanges \/ Shutdown \/ Restart,
           Typed'
    PROVE  IInv'
<1>0. run \in RunRecords /\ Guarded /\ ListStored /\ PointsBelongToTracks /\ Cleared
  BY TypedRun DEF IInv, Typed
<1>1. CASE (\E t \in Tracks : DawarichChanges(t)) \/ Shutdown
  <2>1. /\ UNCHANGED <<rows, points, connected, pc, excused>>
        /\ run'.phase = run.phase /\ run'.list = run.list
    <3>1. CASE \E t \in Tracks : DawarichChanges(t)
      BY <1>0, <3>1 DEF DawarichChanges, RunRecords
    <3>2. CASE Shutdown
      BY <3>2, CancelledRun DEF Shutdown, IInv, Typed
    <3> QED
      BY <1>1, <3>1, <3>2
  <2>2. Guarded' /\ Cleared'
    BY <1>0, <2>1 DEF Guarded, Cleared, Syncing
  <2> QED
    BY <1>0, <2>1, <2>2, SameTables DEF IInv
<1>2. CASE ImmichKeyChanges
  <2>1. rows' = Nothing /\ points' = NoPoints /\ UNCHANGED run /\ excused' = (excused \/ Syncing)
    BY <1>2 DEF ImmichKeyChanges, DataDeleted
  <2>2. Syncing' => excused'
    BY <2>1 DEF Syncing
  <2> QED
    BY <2>1, <2>2, EmptiedTables DEF IInv, Guarded
<1>3. CASE Restart
  <2>1. /\ UNCHANGED <<rows, points, connected>> /\ ~(Syncing') /\ run'.phase = "idle"
        /\ excused' = (excused \/ \E p \in Procs : pc[p] = "deleteData")
    BY <1>3, Empty DEF Restart, Syncing
  <2>2. ListStored' /\ PointsBelongToTracks' /\ Guarded'
    BY <1>0, <2>1 DEF ListStored, PointsBelongToTracks, Guarded
  <2>3. Cleared'
    BY <1>0, <2>1 DEF Cleared
  <2> QED
    BY <2>2, <2>3 DEF IInv
<1> QED
  BY <1>1, <1>2, <1>3

LEMMA StepPreserves == IInv /\ [Next]_vars => IInv'
<1> SUFFICES ASSUME IInv, [Next]_vars PROVE IInv'
  OBVIOUS
<1>1. CASE RunNext
  BY <1>1, RunPreserves
<1>2. CASE Next /\ ~RunNext
  <2>1. Typed'
    BY <1>2, OthersTyped DEF IInv
  <2> QED
    BY <1>2, <2>1, RequestPreserves, ElsewherePreserves DEF Next
<1>3. CASE UNCHANGED vars
  BY <1>3 DEF vars, IInv, Typed, TypeOK, Placed, Guarded, ListStored, PointsBelongToTracks,
     Cleared, RunIs, Listed, Syncing
<1> QED
  BY <1>1, <1>2, <1>3

LEMMA Invariance == Spec => []IInv
BY Initially, StepPreserves, PTL DEF Spec

------------------------------------------------------------------------------
(* Theorems                                                                *)

\* The tables, the run and the requests keep their types.
THEOREM TypeCorrect == Spec => []TypeOK
<1>1. IInv => TypeOK
  BY DEF IInv, Typed
<1> QED
  BY <1>1, Invariance, PTL

\* dawarichSyncService.go stores the tracks before their points and drops them together: no
\* points are left without their track, whichever calls fail and wherever the run, a
\* disconnection or the process is cut off, unless the tables were emptied under a run.
THEOREM PointsBelong == Spec => []PointsBelongToTracks
<1>1. IInv => PointsBelongToTracks
  BY DEF IInv
<1> QED
  BY <1>1, Invariance, PTL

\* handleDeleteDawarichSettings: a user who is disconnected has no tracks and no points left,
\* unless a run outlived the wait, was started after it or by a request that still held the
\* key, or the deletion failed.
THEOREM DisconnectCorrect == Spec => []DisconnectClears
<1>1. IInv => DisconnectClears
  BY DEF IInv, Cleared, DisconnectClears
<1> QED
  BY <1>1, Invariance, PTL
=============================================================================
