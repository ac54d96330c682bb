----------------------------- MODULE SyncPolling -----------------------------
(***************************************************************************)
(* The two hooks of src/src that start a run on the backend and poll it:   *)
(* useResync, for the library, and useDawarich, in the tab of the import   *)
(* dialog.  The backend runs one thing at a time for the user; a request   *)
(* to start it is answered 200 whether it started, was running already or  *)
(* was refused.  Polling ends with the run, with an error or at a limit of *)
(* time; useDawarich polls in chains of timers, of which pollingRef knows  *)
(* the last one armed.  A behaviour is that of one of the hooks.           *)
(***************************************************************************)
EXTENDS Naturals

CONSTANTS MaxPolls,   \* polls of a chain before the limit of time
          MaxActs     \* bound on what the user and other tabs do

ASSUME PollingAssumption == MaxPolls \in Nat \ {0} /\ MaxActs \in Nat

VARIABLES part,      \* "resync" or "dawarich"
          running,   \* the backend has a run for the user
          awaited,   \* the run useResync saw or started is still going on
          flow,      \* executeSync
          checked,   \* initialSyncCheckDoneRef
          stored,    \* the stored version is the backend's syncVersion
          tab,       \* the state of useDawarich, and whether the tab is there
          timer,     \* the chain pollingRef would stop, 0 when there is none
          chains,    \* polls under way, those of a closed tab too
          calls,     \* other requests of useDawarich
          acts

pollingVars == <<part, running, awaited, flow, checked, stored, tab, timer, chains, calls, acts>>
resyncVars == <<awaited, flow, checked, stored>>
tabVars == <<tab, timer, chains, calls>>

NoFlow == [at |-> "idle", polls |-> 0, limited |-> FALSE, storing |-> FALSE]
ClosedTab == [open |-> FALSE, key |-> TRUE, step |-> "setup", loading |-> FALSE, tracks |-> FALSE]

PollingInit ==
    /\ part \in {"resync", "dawarich"}
    /\ running \in BOOLEAN
    /\ awaited = FALSE
    /\ flow = NoFlow
    /\ checked = FALSE /\ stored \in BOOLEAN
    /\ tab = ClosedTab
    /\ timer = 0
    /\ chains = {} /\ calls = {}
    /\ acts = 0

Act == acts < MaxActs /\ acts' = acts + 1
NoAct == UNCHANGED <<part, acts>>

\* A scheduled run, or another tab's.
RunStarts ==
    /\ Act /\ ~running
    /\ running' = TRUE
    /\ UNCHANGED <<part, resyncVars, tabVars>>

RunEnds ==
    /\ running
    /\ running' = FALSE /\ awaited' = FALSE
    /\ UNCHANGED <<part, flow, checked, stored, tabVars, acts>>

------------------------------------------------------------------------------
(***************************************************************************)
(* useResync.  executeSync is guarded by isSyncingRef: the buttons start a *)
(* run, and the check of the first page, which comes once, starts one when *)
(* the backend's version is newer than the stored one, else it asks for    *)
(* the status.                                                             *)
(***************************************************************************)
Resync ==
    /\ part = "resync" /\ flow.at = "idle" /\ Act
    /\ flow' = [NoFlow EXCEPT !.at = "trigger"]
    /\ UNCHANGED <<part, running, awaited, checked, stored, tabVars>>

InitialCheck ==
    /\ part = "resync" /\ ~checked
    /\ checked' = TRUE
    /\ flow' = IF flow.at # "idle" THEN flow
               ELSE [NoFlow EXCEPT !.at = IF stored THEN "check" ELSE "trigger", !.storing = ~stored]
    /\ NoAct /\ UNCHANGED <<running, awaited, stored, tabVars>>

Triggered ==
    /\ flow.at = "trigger"
    /\ running' \in {running, TRUE}
    /\ awaited' = running'
    /\ flow' = [flow EXCEPT !.at = "wait"]
    /\ NoAct /\ UNCHANGED <<checked, stored, tabVars>>

Checked ==
    /\ flow.at = "check"
    /\ awaited' = running
    /\ flow' = IF running THEN [flow EXCEPT !.at = "wait"] ELSE NoFlow
    /\ NoAct /\ UNCHANGED <<running, checked, stored, tabVars>>

\* The delay; past the limit of time the run counts as done.
Wait ==
    /\ flow.at = "wait"
    /\ \/ flow' = [flow EXCEPT !.at = "reload", !.limited = TRUE]
       \/ flow.polls < MaxPolls /\ flow' = [flow EXCEPT !.at = "ask", !.polls = @ + 1]
    /\ NoAct /\ UNCHANGED <<running, awaited, checked, stored, tabVars>>

\* Mutant of Asked: one poll, whatever it says.
AskedOnce ==
    /\ flow.at = "ask"
    /\ flow' = [flow EXCEPT !.at = "reload"]
    /\ NoAct /\ UNCHANGED <<running, awaited, checked, stored, tabVars>>

Asked ==
    /\ flow.at = "ask"
    /\ flow' = [flow EXCEPT !.at = IF running THEN "wait" ELSE "reload"]
    /\ NoAct /\ UNCHANGED <<running, awaited, checked, stored, tabVars>>

\* An error is shown, a request that timed out is not: it counts as an abort.
FlowFails ==
    /\ flow.at \in {"trigger", "check", "ask"}
    /\ flow' = NoFlow /\ awaited' = FALSE
    /\ NoAct /\ UNCHANGED <<running, checked, stored, tabVars>>

\* reloadData: health, catalog, markers and user, none of which can throw.  The version
\* is stored whether the run succeeded, failed or goes on.
ReloadData ==
    /\ flow.at = "reload"
    /\ flow' = NoFlow /\ awaited' = FALSE
    /\ stored' = (stored \/ flow.storing)
    /\ NoAct /\ UNCHANGED <<running, checked, tabVars>>

------------------------------------------------------------------------------
\* setState, which does nothing to a tab that is closed.
Set(x, t) == IF x.orphan THEN UNCHANGED tab ELSE tab' = t

Tracks(t) == [t EXCEPT !.step = "tracks", !.loading = FALSE]

Call(kind) == {[kind |-> kind, n |-> acts + 1, orphan |-> FALSE]}
Then(c, kind) == (calls \ {c}) \union {[c EXCEPT !.kind = kind]}

\* stopPolling: the timer is cleared; a poll whose request is under way goes on.
Stopped == {c \in chains : ~(c.n = timer /\ c.armed /\ ~c.orphan)}

(***************************************************************************)
(* pollSyncStatus.  Of a closed tab it polls as well, with the pollingRef  *)
(* of that tab, which nobody will read.                                    *)
(***************************************************************************)
Poll(c) ==
    /\ Act
    /\ chains' = (IF c.orphan THEN chains ELSE Stopped)
                   \union {[n |-> acts + 1, armed |-> FALSE, polls |-> 0, orphan |-> c.orphan]}
    /\ timer' = IF c.orphan THEN timer ELSE 0
    /\ calls' = calls \ {c}

\* The tab appears, and loads the tracks when there is a key.
Open ==
    /\ part = "dawarich" /\ ~tab.open /\ Act
    /\ tab' = [open |-> TRUE, key |-> tab.key, tracks |-> FALSE,
               step |-> IF tab.key THEN "tracks" ELSE "setup", loading |-> tab.key]
    /\ calls' = calls \union (IF tab.key THEN Call("status") ELSE {})
    /\ timer' = 0
    /\ UNCHANGED <<part, running, resyncVars, chains>>

Orphaned(s) == {[c EXCEPT !.orphan = TRUE] : c \in s}

Leave ==
    /\ tab' = [ClosedTab EXCEPT !.key = tab.key]
    /\ chains' = Orphaned(Stopped)
    /\ timer' = 0

\* The dialog closes or another source is chosen.
Close ==
    /\ tab.open
    /\ Leave
    /\ calls' = Orphaned(calls)
    /\ NoAct /\ UNCHANGED <<running, resyncVars>>

\* The Dawarich key is saved or deleted elsewhere.
KeyChanges ==
    /\ part = "dawarich" /\ Act
    /\ IF ~tab.open THEN tab' = [tab EXCEPT !.key = ~@] /\ UNCHANGED <<timer, chains, calls>>
       ELSE IF tab.key
       THEN /\ tab' = [tab EXCEPT !.key = FALSE, !.step = "setup", !.loading = FALSE, !.tracks = FALSE]
            /\ chains' = Stopped /\ timer' = 0
            /\ UNCHANGED calls
       ELSE /\ tab' = [tab EXCEPT !.key = TRUE, !.step = IF @ = "setup" THEN "tracks" ELSE @,
                                  !.loading = @ \/ ~tab.tracks]
            /\ calls' = calls \union (IF tab.tracks \/ tab.loading THEN {} ELSE Call("status"))
            /\ UNCHANGED <<timer, chains>>
    /\ UNCHANGED <<part, running, resyncVars>>

\* loadTracks: the status, and the tracks unless an import is under way.
StatusAnswered(c) ==
    /\ c.kind = "status"
    /\ \/ running /\ Poll(c) /\ Set(c, [tab EXCEPT !.step = "syncing"])
       \/ ~running /\ calls' = Then(c, "tracks") /\ UNCHANGED <<tab, timer, chains, acts>>
    /\ UNCHANGED <<part, running, resyncVars>>

\* A preview has a loading state of its own.
TracksAnswered(c) ==
    /\ c.kind \in {"status", "tracks"}
    /\ calls' = calls \ {c}
    /\ \E some \in {tab.tracks} \union (IF c.kind = "tracks" THEN BOOLEAN ELSE {}) :
         Set(c, [tab EXCEPT !.tracks = some, !.loading = @ /\ tab.step = "previewing"])
    /\ NoAct /\ UNCHANGED <<running, resyncVars, timer, chains>>

Refresh ==
    /\ tab.open /\ tab.step \in {"tracks", "previewing"} /\ ~tab.loading /\ Act
    /\ tab' = [tab EXCEPT !.step = "syncing", !.loading = TRUE]
    /\ calls' = calls \union Call("trigger")
    /\ UNCHANGED <<part, running, resyncVars, timer, chains>>

RefreshAnswered(c) ==
    /\ c.kind = "trigger"
    /\ running' \in {running, TRUE}
    /\ Poll(c)
    /\ UNCHANGED <<part, resyncVars, tab>>

\* The error of a refused import, and of the tracks after an import.
RefreshFails(c) ==
    /\ c.kind \in {"trigger", "after"}
    /\ calls' = calls \ {c}
    /\ Set(c, Tracks(tab))
    /\ NoAct /\ UNCHANGED <<running, resyncVars, timer, chains>>

\* loadTracksAfterSync
AfterAnswered(c) ==
    /\ c.kind = "after"
    /\ calls' = calls \ {c}
    /\ \E some \in BOOLEAN : Set(c, [Tracks(tab) EXCEPT !.tracks = some])
    /\ NoAct /\ UNCHANGED <<running, resyncVars, timer, chains>>

Preview ==
    /\ tab.open /\ tab.step \in {"tracks", "previewing"} /\ ~tab.loading /\ tab.tracks /\ Act
    /\ tab' = [tab EXCEPT !.step = "previewing", !.loading = TRUE]
    /\ calls' = calls \union Call("preview")
    /\ UNCHANGED <<part, running, resyncVars, timer, chains>>

\* Previews close the dialog; without any the tab stays, in the step it is in.
PreviewAnswered(c) ==
    /\ c.kind = "preview"
    /\ \/ ~c.orphan /\ Leave /\ calls' = Orphaned(calls \ {c})
       \/ calls' = calls \ {c} /\ Set(c, [tab EXCEPT !.loading = FALSE]) /\ UNCHANGED <<timer, chains>>
       \/ calls' = calls \ {c} /\ Set(c, Tracks(tab)) /\ UNCHANGED <<timer, chains>>
    /\ NoAct /\ UNCHANGED <<running, resyncVars>>

\* Mutant of Fires: a poll that fails or goes on for ever is never given up.
FiresAlways(c) ==
    /\ c.armed
    /\ chains' = (chains \ {c}) \union {[c EXCEPT !.armed = FALSE]}
    /\ NoAct /\ UNCHANGED <<running, resyncVars, tab, timer, calls>>

\* A timer fires: the limit of time, or the next request.
Fires(c) ==
    /\ c.armed
    /\ \/ /\ chains' = chains \ {c}
          /\ Set(c, Tracks(tab))
       \/ /\ c.polls < MaxPolls
          /\ chains' = (chains \ {c}) \union {[c EXCEPT !.armed = FALSE, !.polls = @ + 1]}
          /\ UNCHANGED tab
    /\ NoAct /\ UNCHANGED <<running, resyncVars, timer, calls>>

\* The status, or no answer: the timer is armed again, whoever stopped polling.
PollAgain(c) ==
    /\ ~c.armed
    /\ chains' = (chains \ {c}) \union {[c EXCEPT !.armed = TRUE]}
    /\ timer' = IF c.orphan THEN timer ELSE c.n
    /\ NoAct /\ UNCHANGED <<running, resyncVars, tab, calls>>

\* The import is over: the tracks are loaded, or its error is shown.
PollDone(c) ==
    /\ ~c.armed /\ ~running
    /\ chains' = chains \ {c}
    /\ \/ calls' = calls \union {[kind |-> "after", n |-> c.n, orphan |-> c.orphan]} /\ UNCHANGED tab
       \/ Set(c, Tracks(tab)) /\ UNCHANGED calls
    /\ NoAct /\ UNCHANGED <<running, resyncVars, timer>>

FlowStep == Triggered \/ Checked \/ Wait \/ Asked \/ FlowFails \/ ReloadData
ChainStep(c) == Fires(c) \/ PollAgain(c) \/ PollDone(c)
CallStep(c) == StatusAnswered(c) \/ TracksAnswered(c) \/ RefreshAnswered(c) \/ RefreshFails(c)
               \/ AfterAnswered(c) \/ PreviewAnswered(c)

PollingNext ==
    \/ RunStarts \/ RunEnds \/ Resync \/ InitialCheck \/ FlowStep
    \/ Open \/ Close \/ KeyChanges \/ Refresh \/ Preview
    \/ \E c \in chains : ChainStep(c)
    \/ \E c \in calls : CallStep(c)

Kinds == {"status", "tracks", "trigger", "after", "preview"}

(***************************************************************************)
(* Fairness: requests end, by an answer, an error or their timeout, and    *)
(* timers fire.  The timeout covers an answer up to its headers: that its  *)
(* body, once begun, arrives or breaks off is assumed.  Nothing says that  *)
(* a run of the backend ever ends.                                         *)
(***************************************************************************)
PollingFairness ==
    /\ WF_pollingVars(FlowStep)
    /\ \A n \in 1..MaxActs : WF_pollingVars(\E c \in chains : c.n = n /\ ChainStep(c))
    /\ \A k \in Kinds, n \in 1..MaxActs :
         WF_pollingVars(\E c \in calls : c.kind = k /\ c.n = n /\ CallStep(c))

PollingSpec == PollingInit /\ [][PollingNext]_pollingVars /\ PollingFairness

------------------------------------------------------------------------------
PollingTypeOK ==
    /\ part \in {"resync", "dawarich"}
    /\ {running, awaited, checked, stored} \subseteq BOOLEAN
    /\ flow \in [at : {"idle", "trigger", "check", "wait", "ask", "reload"}, polls : 0..MaxPolls,
                 limited : BOOLEAN, storing : BOOLEAN]
    /\ tab \in [open : BOOLEAN, key : BOOLEAN, step : {"setup", "syncing", "tracks", "previewing"},
                loading : BOOLEAN, tracks : BOOLEAN]
    /\ timer \in 0..MaxActs
    /\ chains \subseteq [n : 1..MaxActs, armed : BOOLEAN, polls : 0..MaxPolls, orphan : BOOLEAN]
    /\ calls \subseteq [kind : Kinds, n : 1..MaxActs, orphan : BOOLEAN]
    /\ acts \in 0..MaxActs

(***************************************************************************)
(* The screen is reloaded after the run it waited for, the one it started  *)
(* or the one it found, and not while that run goes on, unless the limit   *)
(* of time ended the polling (useResync.ts:23).                            *)
(***************************************************************************)
ReloadFollowsTheRun == flow.at = "reload" /\ awaited => flow.limited

(***************************************************************************)
(* Whatever the backend does, polling ends: useResync stops saying that it *)
(* is syncing, the chains of useDawarich come to an end, those that were   *)
(* in flight when polling was stopped included (useDawarich.ts:114), and   *)
(* the tab does not stay in the step of an import nor in a loading state.  *)
(***************************************************************************)
PollingEnds ==
    /\ flow.at # "idle" ~> flow.at = "idle"
    /\ chains # {} ~> chains = {}
    /\ tab.step = "syncing" ~> tab.step # "syncing"
    /\ tab.loading ~> ~tab.loading
==============================================================================
