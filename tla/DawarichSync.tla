---------------------------- MODULE DawarichSync ----------------------------
(***************************************************************************)
(* The import of one user's Dawarich tracks (backend/dawarichSyncService.go *)
(* with handlersDawarich.go and databaseDawarich.go): the sync run track by *)
(* track, against the requests that connect, disconnect and trigger, the   *)
(* settings change that wipes the user's data, shutdown and crash.         *)
(*                                                                         *)
(* userSyncing, userCancels and userProgress are set and cleared together  *)
(* in one mutex-protected section each, so the run itself stands for them: *)
(* there is none exactly when userSyncing is false.  A track is known by   *)
(* the version of what decides whether its points are fetched again        *)
(* (distance, duration, finishedAt); its points by the version they were   *)
(* fetched at.                                                             *)
(***************************************************************************)
EXTENDS Naturals

CONSTANTS
    Tracks,       \* track IDs
    Requests,     \* request slots of this user
    Background,   \* the ticker goroutine, and main at startup
    Absent,       \* no such track
    MaxEdits,     \* bound on the changes made in Dawarich
    FailingCalls  \* the calls to Dawarich and to the database that may fail

Procs == Requests \union {Background}
Calls == {"list", "upsert", "read", "points", "store", "clean", "stamp", "clearKey", "deleteData"}

ASSUME BackgroundAssumption == Background \notin Requests
ASSUME AbsentAssumption == Absent \notin Nat
ASSUME CallsAssumption == FailingCalls \subseteq Calls
ASSUME EditsAssumption == MaxEdits \in Nat

VARIABLES
    remote,     \* Dawarich: the version of each track, or Absent
    rows,       \* dawarichTracks: version or Absent
    points,     \* dawarichTrackPoints: the version they were fetched at, 0 for none
    connected,  \* users.dawarichAPIKey is set
    synced,     \* lastDawarichSyncAt is set
    failed,     \* lastDawarichSyncError is set
    run,        \* the sync run
    pc,         \* where each request is
    down,       \* shutdownCtx is done
    edits,      \* changes made in Dawarich so far
    excused     \* history: a run may have outlived the wipe that was to empty the tables

vars == <<remote, rows, points, connected, synced, failed, run, pc, down, edits, excused>>

Nothing == [t \in Tracks |-> Absent]
NoPoints == [t \in Tracks |-> 0]
NoRun == [phase |-> "idle", cancelled |-> FALSE, landing |-> FALSE, list |-> Nothing, 
          left |-> {}, todo |-> {}, track |-> Absent, got |-> 0, touched |-> {}]

Phases == {"idle", "list", "upsert", "read", "loop", "store", "clean", "stamp"}
Versions == Nat \ {0}

TypeOK ==
    /\ remote \in [Tracks -> Versions \union {Absent}]
    /\ rows \in [Tracks -> Versions \union {Absent}]
    /\ points \in [Tracks -> Nat]
    /\ connected \in BOOLEAN /\ synced \in BOOLEAN /\ failed \in BOOLEAN
    /\ run \in [phase : Phases, cancelled : BOOLEAN, landing : BOOLEAN,
                list : [Tracks -> Versions \union {Absent}],
                left : SUBSET Tracks, todo : SUBSET Tracks,
                track : Tracks \union {Absent}, got : Nat, touched : SUBSET Tracks]
    /\ pc \in [Procs -> {"idle", "storeKey", "trigger", "cancel", "poll", "clearKey", "deleteData"}]
    /\ down \in BOOLEAN
    /\ edits \in 0..MaxEdits
    /\ excused \in BOOLEAN

Syncing == run.phase # "idle"

Init ==
    /\ remote = [t \in Tracks |-> 1]
    /\ rows = Nothing
    /\ points = NoPoints
    /\ connected = FALSE /\ synced = FALSE /\ failed = FALSE
    /\ run = NoRun
    /\ pc = [p \in Procs |-> "idle"]
    /\ down = FALSE
    /\ edits = 0
    /\ excused = FALSE

Goto(p, l) == pc' = [pc EXCEPT ![p] = l]

\* Dawarich extends or adds a track, or drops one.
DawarichChanges(t) ==
    /\ edits < MaxEdits
    /\ edits' = edits + 1
    /\ \/ remote' = [remote EXCEPT ![t] = edits + 2]
       \/ remote[t] # Absent /\ remote' = [remote EXCEPT ![t] = Absent]
    /\ run' = IF Syncing THEN [run EXCEPT !.touched = @ \union {t}] ELSE run
    /\ UNCHANGED <<rows, points, connected, synced, failed, pc, down, excused>>

-----------------------------------------------------------------------------
(* The requests                                                            *)

\* POST /dawarich/sync, with the key sessionMiddleware read; or the ticker, with the keys
\* getUsersWithAPIKeys read.
BeginSync(p) ==
    /\ pc[p] = "idle" /\ ~down /\ connected
    /\ Goto(p, "trigger")
    /\ UNCHANGED <<remote, rows, points, connected, synced, failed, run, down, edits, excused>>

\* PUT /dawarich/settings, with a key that was validated.
BeginSettings(p) ==
    /\ p \in Requests /\ pc[p] = "idle" /\ ~down
    /\ Goto(p, "storeKey")
    /\ UNCHANGED <<remote, rows, points, connected, synced, failed, run, down, edits, excused>>

StoreKey(p) ==
    /\ pc[p] = "storeKey"
    /\ connected' = TRUE
    /\ Goto(p, "trigger")
    /\ UNCHANGED <<remote, rows, points, synced, failed, run, down, edits, excused>>

\* triggerUserSync: a run is started, and its first step clears the error.  A context
\* derived from shutdownCtx is done when that is.
TriggerStarts(p) ==
    /\ pc[p] = "trigger" /\ ~Syncing
    /\ run' = [NoRun EXCEPT !.phase = "list", !.cancelled = down]
    /\ failed' = FALSE
    /\ excused' = (excused \/ ~connected \/ \E q \in Procs : pc[q] \in {"clearKey", "deleteData"})
    /\ Goto(p, "idle")
    /\ UNCHANGED <<remote, rows, points, connected, synced, down, edits>>

\* "already syncing": reported by the one handler that looks at the answer.
TriggerRefused(p) ==
    /\ pc[p] = "trigger" /\ Syncing
    /\ Goto(p, "idle")
    /\ UNCHANGED <<remote, rows, points, connected, synced, failed, run, down, edits, excused>>

\* DELETE /dawarich/settings.
BeginDisconnect(p) ==
    /\ p \in Requests /\ pc[p] = "idle" /\ ~down
    /\ Goto(p, "cancel")
    /\ UNCHANGED <<remote, rows, points, connected, synced, failed, run, down, edits, excused>>

\* The context of the run is done.  The call that the run is in may have passed its last
\* look at the context: it still lands, and the ones after it fail.
Cancelled == {IF run.cancelled THEN run ELSE [run EXCEPT !.cancelled = TRUE, !.landing = l] :
                 l \in BOOLEAN}

\* Mutant: the run is told to stop but not waited for.
CancelRunOnly(p) ==
    /\ pc[p] = "cancel"
    /\ IF Syncing THEN run' \in Cancelled ELSE UNCHANGED run
    /\ Goto(p, "clearKey")
    /\ UNCHANGED <<remote, rows, points, connected, synced, failed, down, edits, excused>>

\* cancelUserSync: cancel the run ...
CancelRun(p) ==
    /\ pc[p] = "cancel"
    /\ IF Syncing THEN run' \in Cancelled /\ Goto(p, "poll")
                  ELSE UNCHANGED run /\ Goto(p, "clearKey")
    /\ UNCHANGED <<remote, rows, points, connected, synced, failed, down, edits, excused>>

\* ... and wait until it is over, ...
RunSeenOver(p) ==
    /\ pc[p] = "poll" /\ ~Syncing
    /\ Goto(p, "clearKey")
    /\ UNCHANGED <<remote, rows, points, connected, synced, failed, run, down, edits, excused>>

\* Mutant: no deadline.
PollNeverTimesOut(p) ==
    /\ pc[p] = "poll" /\ ~Syncing
    /\ Goto(p, "clearKey")
    /\ UNCHANGED <<remote, rows, points, connected, synced, failed, run, down, edits, excused>>

\* ... for at most five seconds.
PollTimesOut(p) ==
    /\ pc[p] = "poll"
    /\ excused' = (excused \/ Syncing)
    /\ Goto(p, "clearKey")
    /\ UNCHANGED <<remote, rows, points, connected, synced, failed, run, down, edits>>

ClearKey(p) ==
    /\ pc[p] = "clearKey"
    /\ connected' = FALSE
    /\ Goto(p, "deleteData")
    /\ UNCHANGED <<remote, rows, points, synced, failed, run, down, edits, excused>>

ClearKeyFails(p) ==
    /\ pc[p] = "clearKey" /\ "clearKey" \in FailingCalls
    /\ Goto(p, "idle")
    /\ UNCHANGED <<remote, rows, points, connected, synced, failed, run, down, edits, excused>>

\* One transaction: points, tracks and sync state.
DataDeleted ==
    /\ rows' = Nothing
    /\ points' = NoPoints
    /\ synced' = FALSE
    /\ failed' = FALSE

DeleteData(p) ==
    /\ pc[p] = "deleteData"
    /\ DataDeleted
    /\ excused' = (excused /\ Syncing)
    /\ Goto(p, "idle")
    /\ UNCHANGED <<remote, connected, run, down, edits>>

\* Logged; the request succeeds.
DeleteDataFails(p) ==
    /\ pc[p] = "deleteData" /\ "deleteData" \in FailingCalls
    /\ excused' = TRUE
    /\ Goto(p, "idle")
    /\ UNCHANGED <<remote, rows, points, connected, synced, failed, run, down, edits>>

\* PUT /auth/settings with a new Immich key: deleteUserSyncData empties these tables too,
\* and pauses the Immich sync only.
ImmichKeyChanges ==
    /\ ~down
    /\ DataDeleted
    /\ excused' = (excused \/ Syncing)
    /\ UNCHANGED <<remote, connected, run, pc, down, edits>>

-----------------------------------------------------------------------------
(* The run: doUserSync                                                     *)

RunIs(phase) == run.phase = phase
MayFail(call) == call \in FailingCalls \/ run.cancelled
MaySucceed == ~run.cancelled \/ run.landing
Listed == {t \in Tracks : run.list[t] # Absent}
Unchanged == UNCHANGED <<remote, connected, pc, down, edits, excused>>

\* The deferred function: userSyncing is cleared, the cancel function and the progress go.
RunOver == run' = NoRun

\* recordError, on a context that is never cancelled, and the end of the run.
EndsInError ==
    /\ failed' = TRUE
    /\ RunOver
    /\ UNCHANGED <<rows, points, synced>>
    /\ Unchanged

\* listTracks.
ListTracks ==
    /\ RunIs("list") /\ MaySucceed
    /\ run' = [run EXCEPT !.landing = FALSE, !.phase = "upsert", !.list = remote, !.touched = {}]
    /\ UNCHANGED <<rows, points, synced, failed>>
    /\ Unchanged

ListTracksFails ==
    /\ RunIs("list") /\ MayFail("list")
    /\ EndsInError

\* upsertDawarichTracks, one transaction; nothing to do for an empty list.
UpsertTracks ==
    /\ RunIs("upsert") /\ (MaySucceed \/ Listed = {})
    /\ rows' = [t \in Tracks |-> IF t \in Listed THEN run.list[t] ELSE rows[t]]
    /\ run' = [run EXCEPT !.landing = FALSE, !.phase = "read"]
    /\ UNCHANGED <<points, synced, failed>>
    /\ Unchanged

UpsertTracksFails ==
    /\ RunIs("upsert") /\ MayFail("upsert") /\ Listed # {}
    /\ EndsInError

LoopOver(changed) == [run EXCEPT !.landing = FALSE, !.phase = "loop", !.left = Listed, !.todo = changed]

\* getDawarichTracks: a track is skipped if its row has the distance, the duration and the
\* end that Dawarich lists.  If the read fails its error is dropped and no row is known.
ReadExisting ==
    /\ RunIs("read")
    /\ \/ MaySucceed /\ run' = LoopOver({t \in Listed : rows[t] # run.list[t]})
       \/ MayFail("read") /\ run' = LoopOver(Listed)
    /\ UNCHANGED <<rows, points, synced, failed>>
    /\ Unchanged

\* The head of the loop: a cancelled run ends there, with no error recorded.
LoopCancelled ==
    /\ RunIs("loop") /\ run.cancelled /\ run.left # {}
    /\ RunOver
    /\ UNCHANGED <<rows, points, synced, failed>>
    /\ Unchanged

SkipTrack(t) ==
    /\ RunIs("loop") /\ MaySucceed /\ t \in run.left \ run.todo
    /\ run' = [run EXCEPT !.landing = FALSE, !.left = @ \ {t}]
    /\ UNCHANGED <<rows, points, synced, failed>>
    /\ Unchanged

\* getTrackPoints.
FetchPoints(t) ==
    /\ RunIs("loop") /\ MaySucceed /\ t \in run.todo /\ remote[t] # Absent
    /\ run' = [run EXCEPT !.landing = FALSE, !.phase = "store", !.track = t, !.got = remote[t]]
    /\ UNCHANGED <<rows, points, synced, failed>>
    /\ Unchanged

\* The run may be cancelled, and the track may be gone, after the head of the loop.
FetchPointsFails ==
    /\ RunIs("loop") /\ run.todo # {}
    /\ MayFail("points") \/ \E t \in run.todo : remote[t] = Absent
    /\ EndsInError

\* replaceDawarichTrackPoints.  Where the track has no row the insertion fails on a
\* connection that enforces foreign keys, and succeeds on one that does not.
StorePoints ==
    /\ RunIs("store") /\ MaySucceed
    /\ points' = [points EXCEPT ![run.track] = run.got]
    /\ run' = [run EXCEPT !.landing = FALSE, !.phase = "loop", !.left = @ \ {run.track},
                          !.todo = @ \ {run.track}, !.track = Absent, !.got = 0]
    /\ UNCHANGED <<rows, synced, failed>>
    /\ Unchanged

StorePointsFails ==
    /\ RunIs("store") /\ (MayFail("store") \/ rows[run.track] = Absent)
    /\ EndsInError

LoopEnds ==
    /\ RunIs("loop") /\ run.left = {}
    /\ run' = [run EXCEPT !.landing = FALSE, !.phase = "clean"]
    /\ UNCHANGED <<rows, points, synced, failed>>
    /\ Unchanged

\* Mutant: the points are left to the foreign key.
CleanUpTracksOnly ==
    /\ RunIs("clean") /\ MaySucceed
    /\ rows' = [t \in Tracks |-> IF t \in Listed \/ Listed = {} THEN rows[t] ELSE Absent]
    /\ run' = [run EXCEPT !.landing = FALSE, !.phase = "stamp"]
    /\ UNCHANGED <<points, synced, failed>>
    /\ Unchanged

\* deleteDawarichTracksNotIn, one transaction, for a list that is not empty.
CleanUp ==
    /\ RunIs("clean") /\ (MaySucceed \/ Listed = {})
    /\ rows' = [t \in Tracks |-> IF t \in Listed \/ Listed = {} THEN rows[t] ELSE Absent]
    /\ points' = [t \in Tracks |-> IF t \in Listed \/ Listed = {} THEN points[t] ELSE 0]
    /\ run' = [run EXCEPT !.landing = FALSE, !.phase = "stamp"]
    /\ UNCHANGED <<synced, failed>>
    /\ Unchanged

\* Logged; the run goes on.
CleanUpFails ==
    /\ RunIs("clean") /\ MayFail("clean") /\ Listed # {}
    /\ run' = [run EXCEPT !.landing = FALSE, !.phase = "stamp"]
    /\ UNCHANGED <<rows, points, synced, failed>>
    /\ Unchanged

\* setSyncState and deleteSyncState, on a context that is never cancelled.
Stamp ==
    /\ RunIs("stamp")
    /\ synced' = TRUE \/ ("stamp" \in FailingCalls /\ UNCHANGED synced)
    /\ failed' = FALSE
    /\ RunOver
    /\ UNCHANGED <<rows, points>>
    /\ Unchanged

-----------------------------------------------------------------------------
(* The process                                                             *)

Shutdown ==
    /\ ~down
    /\ down' = TRUE
    /\ IF Syncing THEN run' \in Cancelled ELSE UNCHANGED run
    /\ UNCHANGED <<remote, rows, points, connected, synced, failed, pc, edits, excused>>

\* The process ends, at any point, and is started again; main then triggers a run for the
\* user as the ticker does.
Restart ==
    /\ run' = NoRun
    /\ pc' = [p \in Procs |-> "idle"]
    /\ down' = FALSE
    /\ excused' = (excused \/ \E p \in Procs : pc[p] = "deleteData")
    /\ UNCHANGED <<remote, rows, points, connected, synced, failed, edits>>

RunNext ==
    \/ ListTracks \/ ListTracksFails
    \/ UpsertTracks \/ UpsertTracksFails
    \/ ReadExisting
    \/ LoopCancelled
    \/ \E t \in Tracks : SkipTrack(t) \/ FetchPoints(t)
    \/ FetchPointsFails
    \/ StorePoints \/ StorePointsFails
    \/ LoopEnds
    \/ CleanUp \/ CleanUpFails
    \/ Stamp

ProcNext(p) ==
    \/ StoreKey(p)
    \/ TriggerStarts(p) \/ TriggerRefused(p)
    \/ CancelRun(p) \/ RunSeenOver(p) \/ PollTimesOut(p)
    \/ ClearKey(p) \/ ClearKeyFails(p)
    \/ DeleteData(p) \/ DeleteDataFails(p)

Next ==
    \/ \E t \in Tracks : DawarichChanges(t)
    \/ \E p \in Procs : BeginSync(p) \/ BeginSettings(p) \/ BeginDisconnect(p) \/ ProcNext(p)
    \/ ImmichKeyChanges
    \/ RunNext
    \/ Shutdown \/ Restart

Spec == Init /\ [][Next]_vars
\* A request that is served goes on: it waits for nothing but its own deadline.
FairSpec == Spec /\ \A p \in Procs : WF_vars(ProcNext(p))

-----------------------------------------------------------------------------
(* Properties                                                              *)

\* handleDeleteDawarichSettings: once a user is disconnected, and unless a run outlived the
\* wait, was started after it or by a request that still held the key, or the deletion
\* failed, nothing of the user's location history is left, however the last run ended.
DisconnectClears ==
    (/\ ~connected /\ ~Syncing /\ ~excused
     /\ \A p \in Procs : pc[p] # "deleteData")
        => rows = Nothing /\ points = NoPoints

\* There are no points without their track, even on a connection that does not enforce
\* foreign keys, unless the tables were emptied under a run.
PointsBelongToTracks ==
    ~excused => \A t \in Tracks : points[t] # 0 => rows[t] # Absent

\* Every request is answered, a disconnection in the middle of a run that hangs too.
RequestsAnswered ==
    \A p \in Procs : pc[p] # "idle" ~> pc[p] = "idle"

\* After a sync that completed, each track of the user has its points: that is what the
\* preview matches photos against.
PointsArrive ==
    synced /\ ~Syncing => \A t \in Tracks : rows[t] # Absent => points[t] # 0
=============================================================================
