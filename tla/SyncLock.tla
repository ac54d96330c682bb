------------------------------ MODULE SyncLock ------------------------------
(***************************************************************************)
(* The sync lock of one user (SyncService.userSyncing / userCancels in     *)
(* backend/syncService.go) and every party that takes it:                  *)
(*   - POST /sync and POST /sync/full (handlers.go);                       *)
(*   - PUT /auth/settings, which pauses syncing to change the API key and  *)
(*     to wipe the local library (handlersAuth.go);                        *)
(*   - the startup goroutine and the periodic goroutine;                   *)
(*   - the sync goroutines those start, with their deferred clean-up;      *)
(*   - SIGTERM, process exit, crash and reboot (main.go).                  *)
(* One table is written by those that do not hold the lock, too:           *)
(* frequentLocations.  PATCH /libraries/{id} recomputes it beside a sync,  *)
(* and each recomputation leaves a goroutine that asks for labels and      *)
(* writes the rows again, after the run that started it has ended.         *)
(*                                                                         *)
(* Entries of different users never meet, so one user is modelled.  A      *)
(* mutex-protected section is one action; every point where the code waits *)
(* or touches the database is an action boundary.  The context handed to   *)
(* a run's database calls makes a cancelled run's writes fail.             *)
(***************************************************************************)
EXTENDS Naturals

CONSTANTS
    Requests,   \* request slots: HTTP requests of this user served at one time
    Startup,    \* the goroutine runStartupSyncs starts for this user
    Periodic,   \* the goroutine of startPeriodicSync
    Keys,       \* Immich API keys, one per Immich account
    None,       \* no key, no cancel function
    Passes,     \* recomputations of the frequent locations under way at one time
    FailSteps   \* the database steps of handleUpdateSettings that may fail

Procs == Requests \union {Startup, Periodic}
Fallible == {"storeKey", "wipe", "libraries"}

ASSUME ProcsAssumption ==
    /\ Startup \notin Requests
    /\ Periodic \notin Requests
    /\ Startup # Periodic
    /\ None \notin Procs
ASSUME KeysAssumption == None \notin Keys
ASSUME FailAssumption == FailSteps \subseteq Fallible

VARIABLES
    syncing,    \* userSyncing[userID]
    cancelFn,   \* userCancels[userID]: the run it cancels, or None (no entry)
    run,        \* the sync goroutine each party started
    runKey,     \* the API key that run's Immich client was built with
    cancelled,  \* the runs whose context is done
    pc,         \* where each request handler and background goroutine is
    key,        \* the API key it read (or, for a settings request, was sent)
    expired,    \* the settings requests whose 5 s pause context is done
    down,       \* SIGTERM was received: shutdownCtx is done
    apiKey,     \* users.immichAPIKey
    library,    \* the accounts whose assets, albums and tags are stored for the user
    frequent,   \* the accounts whose photos the user's frequentLocations are of
    pass,       \* the recomputations of these, from their query to the last write
    late        \* at a wipe: the accounts that recomputations under way have in hand

lockVars == <<syncing, cancelFn, run, runKey, cancelled, pc, key, expired>>
tables == <<apiKey, library>>
frequentVars == <<frequent, pass, late>>
vars == <<lockVars, down, tables, frequentVars>>

\* A run: doing its work; after the deferred cancel(); after clearUserCancel.
RunStates == {"none", "running", "stopping", "cleared"}

PauseSteps == {"pauseCancel", "pausePoll", "pauseAcquire", "pauseWait"}

\* Where a settings request has reserved the user's lock (pauseUserSync returned nil).
Section == {"storeKey", "wipe", "libraries"}

RequestPCs == {"idle", "trigger", "fullCancel", "fullPoll"} \union PauseSteps \union Section
LoopPCs == {"idle", "loaded", "inline", "stopped"}

NoPass == [at |-> "none", rows |-> {}, newest |-> FALSE]

\* A recomputation: what it found in the library, in a handler that has to write it, in
\* the goroutine that asks for labels, and after that has compared the generations.
PassType == [at : {"none", "computed", "asking", "checked"}, rows : SUBSET Keys, newest : BOOLEAN]

TypeOK ==
    /\ syncing \in BOOLEAN
    /\ cancelFn \in Procs \union {None}
    /\ run \in [Procs -> RunStates]
    /\ runKey \in [Procs -> Keys \union {None}]
    /\ cancelled \subseteq Procs
    /\ pc \in [Procs -> RequestPCs \union LoopPCs]
    /\ \A r \in Requests : pc[r] \in RequestPCs
    /\ \A l \in {Startup, Periodic} : pc[l] \in LoopPCs
    /\ key \in [Procs -> Keys \union {None}]
    /\ expired \subseteq Requests
    /\ down \in BOOLEAN
    /\ apiKey \in Keys \union {None}
    /\ library \subseteq Keys
    /\ frequent \subseteq Keys
    /\ pass \in [Passes -> PassType]
    /\ late \subseteq Keys

-----------------------------------------------------------------------------
(* Boot and the mutex-protected sections                                   *)

\* main: the in-memory lock table starts empty; a startup goroutine is started for a
\* user that has a key, with the key read at boot.
BootPC(k) == [p \in Procs |->
    IF p # Startup THEN "idle" ELSE IF k # None THEN "loaded" ELSE "stopped"]
BootKey(k) == [p \in Procs |-> IF p = Startup THEN k ELSE None]

Init ==
    /\ syncing = FALSE
    /\ cancelFn = None
    /\ run = [p \in Procs |-> "none"]
    /\ runKey = [p \in Procs |-> None]
    /\ cancelled = {}
    /\ pc = BootPC(None)
    /\ key = BootKey(None)
    /\ expired = {}
    /\ down = FALSE
    /\ apiKey = None
    /\ library = {}
    /\ frequent = {}
    /\ pass = [s \in Passes |-> NoPass]
    /\ late = {}

Goto(p, l) == pc' = [pc EXCEPT ![p] = l]

\* The handler returns (or the loop's iteration ends), and with it its local variables.
Return(p, l) == Goto(p, l) /\ key' = [key EXCEPT ![p] = None]

\* tryStartUserSync, on success, with the goroutine or the call that follows it.  A
\* run started after shutdown has a context that is already done.
TryStart(p, k) ==
    /\ ~syncing
    /\ syncing' = TRUE
    /\ cancelFn' = p
    /\ run' = [run EXCEPT ![p] = "running"]
    /\ runKey' = [runKey EXCEPT ![p] = k]
    /\ cancelled' = IF down THEN cancelled \union {p} ELSE cancelled

\* cancelUserSyncWithTimeout up to its wait: when the lock is held and a cancel function
\* is registered, call it and poll.  Both callers ignore the result, and the wait ends
\* when the lock is seen free or at a deadline, so it may end at any moment.  Reading
\* the function and calling it is one step: on a run that ended in between it is a no-op.
CancelSync(p, poll, after) ==
    IF syncing /\ cancelFn # None
    THEN cancelled' = cancelled \union {cancelFn} /\ Goto(p, poll)
    ELSE Goto(p, after) /\ UNCHANGED cancelled

-----------------------------------------------------------------------------
(* POST /sync and POST /sync/full                                          *)

\* sessionMiddleware reads the user, and with it the key, before the handler runs.
BeginSync(p) ==
    /\ pc[p] = "idle" /\ ~down /\ apiKey # None
    /\ key' = [key EXCEPT ![p] = apiKey]
    /\ \E l \in {"trigger", "fullCancel"} : Goto(p, l)
    /\ UNCHANGED <<syncing, cancelFn, run, runKey, cancelled, expired, down, apiKey, library, frequentVars>>

\* triggerUserFullSync: cancelUserSync first.
FullCancel(p) ==
    /\ pc[p] = "fullCancel"
    /\ CancelSync(p, "fullPoll", "trigger")
    /\ UNCHANGED <<syncing, cancelFn, run, runKey, key, expired, down, apiKey, library, frequentVars>>

FullPollEnds(p) ==
    /\ pc[p] = "fullPoll"
    /\ Goto(p, "trigger")
    /\ UNCHANGED <<syncing, cancelFn, run, runKey, cancelled, key, expired, down, apiKey, library, frequentVars>>

\* triggerUserSync and the tail of triggerUserFullSync: a goroutine is started...
TriggerStarts(p) ==
    /\ pc[p] = "trigger"
    /\ TryStart(p, key[p])
    /\ Return(p, "idle")
    /\ UNCHANGED <<expired, down, apiKey, library, frequentVars>>

\* ... or the request is answered "already syncing".
TriggerRefused(p) ==
    /\ pc[p] = "trigger" /\ syncing
    /\ Return(p, "idle")
    /\ UNCHANGED <<syncing, cancelFn, run, runKey, cancelled, expired, down, apiKey, library, frequentVars>>

-----------------------------------------------------------------------------
(* PUT /auth/settings                                                      *)

\* A validated, non-empty key was sent.
BeginSettings(p) ==
    /\ pc[p] = "idle" /\ ~down
    /\ \E k \in Keys : key' = [key EXCEPT ![p] = k]
    /\ Goto(p, "pauseCancel")
    /\ UNCHANGED <<syncing, cancelFn, run, runKey, cancelled, expired, down, apiKey, library, frequentVars>>

\* Mutant: clearing the key also wipes the library, without pausing.
ClearKeyWiping(p) ==
    /\ pc[p] = "idle" /\ ~down
    /\ apiKey' = None
    /\ library' = {}
    /\ UNCHANGED <<syncing, cancelFn, run, runKey, cancelled, pc, key, expired, down, frequentVars>>

\* No key was sent: the stored one is cleared, without pausing and without wiping.
ClearKey(p) ==
    /\ pc[p] = "idle" /\ ~down
    /\ apiKey' = None
    /\ UNCHANGED <<syncing, cancelFn, run, runKey, cancelled, pc, key, expired, down, library, frequentVars>>

\* pauseUserSync: cancel and wait briefly ...
PauseCancel(p) ==
    /\ pc[p] = "pauseCancel"
    /\ CancelSync(p, "pausePoll", "pauseAcquire")
    /\ UNCHANGED <<syncing, cancelFn, run, runKey, key, expired, down, apiKey, library, frequentVars>>

PausePollEnds(p) ==
    /\ pc[p] = "pausePoll"
    /\ Goto(p, "pauseAcquire")
    /\ UNCHANGED <<syncing, cancelFn, run, runKey, cancelled, key, expired, down, apiKey, library, frequentVars>>

\* ... acquireUserSyncLock: take the lock without registering a cancel function ...
PauseAcquires(p) ==
    /\ pc[p] = "pauseAcquire" /\ ~syncing
    /\ syncing' = TRUE
    /\ expired' = expired \ {p}
    /\ Goto(p, "storeKey")
    /\ UNCHANGED <<cancelFn, run, runKey, cancelled, key, down, apiKey, library, frequentVars>>

\* Mutant: the handler goes on although the lock was not free.
PauseBusyProceeds(p) ==
    /\ pc[p] = "pauseAcquire" /\ syncing
    /\ Goto(p, "storeKey")
    /\ UNCHANGED <<syncing, cancelFn, run, runKey, cancelled, key, expired, down, apiKey, library, frequentVars>>

PauseBusy(p) ==
    /\ pc[p] = "pauseAcquire" /\ syncing
    /\ Goto(p, "pauseWait")
    /\ UNCHANGED <<syncing, cancelFn, run, runKey, cancelled, key, expired, down, apiKey, library, frequentVars>>

\* ... and after 10 ms try again, unless the context is done: 503, lock not taken.
PauseRetries(p) ==
    /\ pc[p] = "pauseWait" /\ p \notin expired
    /\ Goto(p, "pauseCancel")
    /\ UNCHANGED <<syncing, cancelFn, run, runKey, cancelled, key, expired, down, apiKey, library, frequentVars>>

\* Mutant: the deferred release is not guarded by shouldReleaseSyncLock.
PauseGivesUpReleasing(p) ==
    /\ pc[p] = "pauseWait" /\ p \in expired
    /\ expired' = expired \ {p}
    /\ syncing' = FALSE
    /\ Return(p, "idle")
    /\ UNCHANGED <<cancelFn, run, runKey, cancelled, down, apiKey, library, frequentVars>>

PauseGivesUp(p) ==
    /\ pc[p] = "pauseWait" /\ p \in expired
    /\ expired' = expired \ {p}
    /\ Return(p, "idle")
    /\ UNCHANGED <<syncing, cancelFn, run, runKey, cancelled, down, apiKey, library, frequentVars>>

\* Mutant: the request context is passed on without a timeout.
PauseNeverExpires(p) == pc[p] \in PauseSteps /\ FALSE

PauseExpires(p) ==
    /\ pc[p] \in PauseSteps /\ p \notin expired
    /\ expired' = expired \union {p}
    /\ UNCHANGED <<syncing, cancelFn, run, runKey, cancelled, pc, key, down, apiKey, library, frequentVars>>

StoreKey(p) ==
    /\ pc[p] = "storeKey"
    /\ apiKey' = key[p]
    /\ Goto(p, "wipe")
    /\ UNCHANGED <<syncing, cancelFn, run, runKey, cancelled, key, expired, down, library, frequentVars>>

\* deleteUserSyncData: one transaction.
WipeLibrary(p) ==
    /\ pc[p] = "wipe"
    /\ library' = {}
    /\ frequent' = {}
    /\ late' = UNION {pass[s].rows : s \in Passes}
    /\ Goto(p, "libraries")
    /\ UNCHANGED <<syncing, cancelFn, run, runKey, cancelled, key, expired, down, apiKey, pass>>

\* syncLibraries under the lock, then releaseSyncLock; triggerUserSync comes next.
ReleaseSettings(p) ==
    /\ pc[p] = "libraries"
    /\ syncing' = FALSE
    /\ Goto(p, "trigger")
    /\ late' = {}
    /\ UNCHANGED <<cancelFn, run, runKey, cancelled, key, expired, down, apiKey, library, frequent, pass>>

\* A database error (or a client that went away): the deferred releaseSyncLock runs.
SettingsFails(p) ==
    /\ pc[p] \in FailSteps
    /\ syncing' = FALSE
    /\ Return(p, "idle")
    /\ late' = {}
    /\ UNCHANGED <<cancelFn, run, runKey, cancelled, expired, down, apiKey, library, frequent, pass>>

-----------------------------------------------------------------------------
(* The background goroutines: startUserIncrementalSync runs in the caller  *)

\* The ticker fired and syncAllUsers read the users.  Other users are synced first.
PeriodicTick ==
    /\ pc[Periodic] = "idle" /\ ~down /\ apiKey # None
    /\ key' = [key EXCEPT ![Periodic] = apiKey]
    /\ Goto(Periodic, "loaded")
    /\ UNCHANGED <<syncing, cancelFn, run, runKey, cancelled, expired, down, apiKey, library, frequentVars>>

AfterSync(l) == IF l = Periodic THEN "idle" ELSE "stopped"

LoopStarts(l) ==
    /\ pc[l] = "loaded"
    /\ TryStart(l, key[l])
    /\ Goto(l, "inline")
    /\ UNCHANGED <<key, expired, down, apiKey, library, frequentVars>>

LoopSkips(l) ==
    /\ pc[l] = "loaded" /\ syncing
    /\ Return(l, AfterSync(l))
    /\ UNCHANGED <<syncing, cancelFn, run, runKey, cancelled, expired, down, apiKey, library, frequentVars>>

LoopReturns(l) ==
    /\ pc[l] = "inline" /\ run[l] = "none"
    /\ Return(l, AfterSync(l))
    /\ UNCHANGED <<syncing, cancelFn, run, runKey, cancelled, expired, down, apiKey, library, frequentVars>>

\* Mutant: the select of the periodic goroutine has no ctx.Done case.
PeriodicNeverStops == pc[Periodic] = "idle" /\ down /\ FALSE

PeriodicStops ==
    /\ pc[Periodic] = "idle" /\ down
    /\ Goto(Periodic, "stopped")
    /\ UNCHANGED <<syncing, cancelFn, run, runKey, cancelled, key, expired, down, apiKey, library, frequentVars>>

-----------------------------------------------------------------------------
(* A sync run                                                              *)

\* One committed write of doUserFullSync or doUserIncrementalSync.
RunWrites(p) ==
    /\ run[p] = "running" /\ p \notin cancelled
    /\ library' = library \union {runKey[p]}
    /\ UNCHANGED <<syncing, cancelFn, run, runKey, cancelled, pc, key, expired, down, apiKey, frequentVars>>

\* The work returned, by itself, on an error or because its context is done; the
\* deferred calls follow in this order: cancel(), clearUserCancel, releaseUserSyncLock.
RunEnds(p) ==
    /\ run[p] = "running"
    /\ run' = [run EXCEPT ![p] = "stopping"]
    /\ cancelled' = cancelled \union {p}
    /\ UNCHANGED <<syncing, cancelFn, runKey, pc, key, expired, down, apiKey, library, frequentVars>>

\* Mutant: the cancel function is not deleted when the run ends.
RunKeepsCancel(p) ==
    /\ run[p] = "stopping"
    /\ run' = [run EXCEPT ![p] = "cleared"]
    /\ UNCHANGED <<syncing, cancelFn, runKey, cancelled, pc, key, expired, down, apiKey, library, frequentVars>>

RunClearsCancel(p) ==
    /\ run[p] = "stopping"
    /\ run' = [run EXCEPT ![p] = "cleared"]
    /\ cancelFn' = None
    /\ UNCHANGED <<syncing, runKey, cancelled, pc, key, expired, down, apiKey, library, frequentVars>>

RunReleases(p) ==
    /\ run[p] = "cleared"
    /\ run' = [run EXCEPT ![p] = "none"]
    /\ syncing' = FALSE
    /\ runKey' = [runKey EXCEPT ![p] = None]
    /\ cancelled' = cancelled \ {p}
    /\ UNCHANGED <<cancelFn, pc, key, expired, down, apiKey, library, frequentVars>>

-----------------------------------------------------------------------------
(* The frequent locations                                                  *)

\* The next generation: a recomputation that has not been checked is out of date.
NewestPass(s, rows) ==
    pass' = [t \in Passes |-> IF t = s THEN [at |-> "asking", rows |-> rows, newest |-> TRUE]
                             ELSE [pass[t] EXCEPT !.newest = FALSE]]

\* recomputeFrequentLocations in a run: the lock is held, so that the query and the first
\* write are one step.  The goroutine for the labels has shutdownCtx, not the run's context.
RunRecomputes(p, s) ==
    /\ run[p] = "running" /\ p \notin cancelled /\ pass[s].at = "none"
    /\ frequent' = library
    /\ NewestPass(s, library)
    /\ UNCHANGED <<lockVars, down, tables, late>>

\* handleUpdateLibrary recomputes with context.Background() and without the lock: the library may
\* be wiped between the query and the write.
LibraryComputes(s) ==
    /\ pass[s].at = "none" /\ ~down
    /\ pass' = [pass EXCEPT ![s] = [at |-> "computed", rows |-> library, newest |-> FALSE]]
    /\ UNCHANGED <<lockVars, down, tables, frequent, late>>

LibraryReplaces(s) ==
    /\ pass[s].at = "computed"
    /\ frequent' = pass[s].rows
    /\ NewestPass(s, pass[s].rows)
    /\ UNCHANGED <<lockVars, down, tables, late>>

\* The geocoder was asked or its time is up.  Other users take generations, too.
LabelsCompare(s) ==
    /\ pass[s].at = "asking"
    /\ \/ pass[s].newest /\ pass' = [pass EXCEPT ![s] = [at |-> "checked", rows |-> @.rows, newest |-> FALSE]]
       \/ pass' = [pass EXCEPT ![s] = NoPass]
    /\ UNCHANGED <<lockVars, down, tables, frequent, late>>

LabelsWrite(s) ==
    /\ pass[s].at = "checked" /\ ~down
    /\ frequent' = pass[s].rows
    /\ pass' = [pass EXCEPT ![s] = NoPass]
    /\ UNCHANGED <<lockVars, down, tables, late>>

\* A write failed: the labels are not written, or the handler's rows neither.
PassFails(s) ==
    /\ pass[s].at \in {"computed", "checked"}
    /\ pass' = [pass EXCEPT ![s] = NoPass]
    /\ UNCHANGED <<lockVars, down, tables, frequent, late>>

-----------------------------------------------------------------------------
(* The process                                                             *)

\* Every run's context is derived from shutdownCtx.
Shutdown ==
    /\ ~down
    /\ down' = TRUE
    /\ cancelled' = cancelled \union {p \in Procs : run[p] # "none"}
    /\ UNCHANGED <<syncing, cancelFn, run, runKey, pc, key, expired, apiKey, library, frequentVars>>

\* wg counts the background goroutines, the sync goroutines and those that ask for labels.
WgIsZero ==
    /\ pc[Startup] = "stopped" /\ pc[Periodic] = "stopped"
    /\ \A p \in Procs : run[p] = "none"
    /\ \A s \in Passes : pass[s].at \notin {"asking", "checked"}

\* The database survives into the next boot, nothing else does.
Reboot ==
    /\ syncing' = FALSE
    /\ cancelFn' = None
    /\ run' = [p \in Procs |-> "none"]
    /\ runKey' = [p \in Procs |-> None]
    /\ cancelled' = {}
    /\ pc' = BootPC(apiKey)
    /\ key' = BootKey(apiKey)
    /\ expired' = {}
    /\ down' = FALSE
    /\ pass' = [s \in Passes |-> NoPass]
    /\ late' = {}
    /\ UNCHANGED <<tables, frequent>>

\* main returns after wg.Wait; handlers still running when server.Shutdown timed out die
\* with the process.
Exit == down /\ WgIsZero /\ Reboot

Crash == Reboot

-----------------------------------------------------------------------------
RequestStep(p) ==
    \/ FullCancel(p) \/ FullPollEnds(p) \/ TriggerStarts(p) \/ TriggerRefused(p)
    \/ PauseCancel(p) \/ PausePollEnds(p) \/ PauseAcquires(p) \/ PauseBusy(p)
    \/ PauseRetries(p) \/ PauseGivesUp(p)
    \/ StoreKey(p) \/ WipeLibrary(p) \/ ReleaseSettings(p) \/ SettingsFails(p)

LoopStep(l) == LoopStarts(l) \/ LoopSkips(l) \/ LoopReturns(l)

LabelStep(s) == LabelsCompare(s) \/ LabelsWrite(s) \/ PassFails(s)

RunStep(p) == RunEnds(p) \/ RunClearsCancel(p) \/ RunReleases(p)

\* What happens while the process is up ...
Running ==
    \/ \E p \in Requests :
          BeginSync(p) \/ BeginSettings(p) \/ ClearKey(p) \/ PauseExpires(p) \/ RequestStep(p)
    \/ \E l \in {Startup, Periodic} : LoopStep(l)
    \/ PeriodicTick \/ PeriodicStops
    \/ \E p \in Procs : RunWrites(p) \/ RunStep(p) \/ \E s \in Passes : RunRecomputes(p, s)
    \/ \E s \in Passes : LibraryComputes(s) \/ LibraryReplaces(s) \/ LabelStep(s)

\* ... and what happens to the process.
Next == Running \/ Shutdown \/ Exit \/ Crash

\* Goroutines are scheduled, a pause context expires, a run has finitely many pages and
\* every call of it times out.  No client, ticker, signal or crash is ever owed.
Fairness ==
    /\ \A p \in Requests : WF_vars(RequestStep(p)) /\ WF_vars(PauseExpires(p))
    /\ \A l \in {Startup, Periodic} : WF_vars(LoopStep(l))
    /\ WF_vars(PeriodicStops)
    /\ \A p \in Procs : WF_vars(RunStep(p))
    /\ \A s \in Passes : WF_vars(LabelStep(s))
    /\ WF_vars(Exit)

Spec == Init /\ [][Next]_vars

FairSpec == Spec /\ Fairness

-----------------------------------------------------------------------------
(* Properties                                                              *)

\* Who holds the lock: a run until its releaseUserSyncLock, a settings request from
\* pauseUserSync to releaseSyncLock.
Holds(p) == run[p] # "none" \/ pc[p] \in Section

\* Mutual exclusion.  userSyncing is set exactly while one party holds the lock, no two
\* parties ever do, and a request that reserved it has no run of its own going: whatever
\* the order of triggers, pauses, timeouts and deferred releases, nobody releases a lock
\* that is not its own.
MutualExclusion ==
    /\ syncing <=> \E p \in Procs : Holds(p)
    /\ \A p, q \in Procs : Holds(p) /\ Holds(q) => p = q
    /\ \A p \in Procs : pc[p] \in Section => run[p] = "none"

\* A sync that is at work can always be cancelled, and the function registered in
\* userCancels never outlives the run it belongs to: clearUserCancel never deletes the
\* entry of the next run.
CancelFnIsCurrent ==
    \A p \in Procs : run[p] \in {"running", "stopping"} <=> cancelFn = p

\* Between deleteUserSyncData and the release of the lock the library stays empty: no
\* sync of the previous account, still winding down or newly triggered, writes to it.  The
\* frequent locations are less well guarded: what a handler or a goroutine for labels had in
\* hand at the wipe comes back, but nothing else does.
WipedStaysEmpty ==
    \A p \in Requests : pc[p] = "libraries" => library = {} /\ frequent \subseteq late

\* Every request that waits for a sync to stop is answered, even when other requests
\* keep starting syncs.
RequestsAnswered == \A p \in Requests : pc[p] # "idle" ~> pc[p] = "idle"

\* After SIGTERM wg.Wait returns: every background goroutine and every run comes to
\* its end.
ShutdownCompletes == down ~> ~down

LockHolder ==
    IF \E p \in Procs : Holds(p) THEN CHOOSE p \in Procs : Holds(p) ELSE None

InHand == {pass[s].rows : s \in {t \in Passes : pass[t].at # "none"}}

Guard == INSTANCE LibraryGuard WITH holder <- LockHolder, inHand <- InHand

\* The lock guards the library: rows are added or wiped only by the one party that holds
\* userSyncing, and a lock passes from one party to the next only through its release.  The
\* frequent locations are only ever what some recomputation found in the library.
ImplementsLibraryGuard == Guard!Spec
=============================================================================
