---------------------------- MODULE LatestRequest ----------------------------
(***************************************************************************)
(* The hooks of src/src that load what is on screen: each sends requests   *)
(* for its input, aborts the one before, and guards what an answer may     *)
(* change by the number of the newest request (requestIDRef) or by the     *)
(* signal of its own.  An abort rejects a request that has no answer yet;  *)
(* once the answer is there (backendApi.fetch.ts has let go of the signal, *)
(* or the body is read) only the guard can stop it.  A behaviour is the    *)
(* life of one mounted hook.                                               *)
(***************************************************************************)
EXTENDS Naturals

CONSTANTS Inputs,     \* what can be asked for: filters, a photo, a query
          MaxLoads    \* bound on the requests of a hook

ASSUME InputsAssumption == "none" \notin Inputs /\ Inputs # {}
ASSUME MaxLoadsAssumption == MaxLoads \in Nat

None == "none"

(***************************************************************************)
(* What each hook does:                                                    *)
(*   number    guards by requestIDRef, the others by their signal          *)
(*   once      loads on its own when it is ready                           *)
(*   fixed     has the same input for ever                                 *)
(*   optional  its input may be missing: no photo, a closed calendar       *)
(*   reload    is told to load again: a page, a retry, a new version       *)
(*   save      is reloaded by the callback of a save, which holds the      *)
(*             inputs of when the save began                               *)
(*   clear     is emptied by clearCatalog                                  *)
(*   blank     shows nothing after an answer that never came               *)
(*   spin      says that it is loading                                     *)
(*   raw       calls fetch itself, without the timer of backendFetch       *)
(***************************************************************************)
useAssets == {"number", "once", "reload", "save", "clear", "spin"}
useAlbums == {"number", "once", "reload", "save", "clear", "spin"}
useFolders == {"number", "clear", "spin"}
useMapMarkers == {"number", "optional", "reload"}
usePlaceSearch == {"number", "optional", "blank", "spin", "raw"}
useTags == {"fixed", "spin"}
useBackendStatus == {"fixed", "once", "reload", "blank"}
useDayCounts == {"optional"}
useMissingLocationCount == {"optional", "reload", "blank"}
useAssetFolderPath == {"optional"}
useSuggestions == {"optional", "blank"}

Traits == [assets |-> useAssets, albums |-> useAlbums, folders |-> useFolders,
           markers |-> useMapMarkers, search |-> usePlaceSearch, tags |-> useTags,
           health |-> useBackendStatus, days |-> useDayCounts,
           missing |-> useMissingLocationCount, folderPath |-> useAssetFolderPath,
           suggestions |-> useSuggestions]
Hooks == DOMAIN Traits
Having(trait) == {h \in Hooks : trait \in Traits[h]}

VARIABLES hook,      \* which hook this is
          input,     \* what the screen wants
          on,        \* isReady, with the folder view or the tag picker open
          begun,     \* initialLoadDoneRef
          stale,     \* isStale of the folders, the debounce timer of the search
          shown,     \* whose answer is on screen
          loading,   \* isLoading, isSearching
          failed,    \* the newest request ended without an answer
          reqs,      \* requests under way
          asked,     \* the input of the newest request
          held,      \* the input a save under way began with
          loads

vars == <<hook, input, on, begun, stale, shown, loading, failed, reqs, asked, held, loads>>

Init ==
    /\ hook \in Hooks
    /\ input \in IF hook \in Having("optional") THEN {None} ELSE Inputs
    /\ on = (hook = "health")
    /\ begun = FALSE
    /\ stale = (hook = "folders")
    /\ shown = None /\ asked = None /\ held = None
    /\ loading = FALSE /\ failed = FALSE
    /\ reqs = {}
    /\ loads = 0

Aborted == {[r EXCEPT !.aborted = TRUE] : r \in reqs}
Dropped == {[r EXCEPT !.aborted = TRUE, !.superseded = TRUE] : r \in reqs}

\* What the hook checks before an answer, an error or the end of a request counts.
Counts(r) == IF hook \in Having("number") THEN ~r.superseded ELSE ~r.aborted

\* A new request for i, which replaces every other one.
Load(i) ==
    /\ loads < MaxLoads
    /\ loads' = loads + 1
    /\ reqs' = Dropped \union {[of |-> i, n |-> loads, answered |-> FALSE,
                                aborted |-> FALSE, superseded |-> FALSE]}
    /\ asked' = i
    /\ loading' = (hook \in Having("spin"))
    /\ failed' = FALSE

Idle == UNCHANGED <<reqs, asked, loads>>

\* The effects of useInitialCatalogLoad and useBackendStatus.
FirstLoad ==
    /\ hook \in Having("once") /\ on /\ ~begun
    /\ begun' = TRUE
    /\ Load(input)
    /\ UNCHANGED <<hook, input, on, stale, shown, held>>

Switch ==
    /\ hook \in {"assets", "albums", "folders"}
    /\ on' = ~on
    /\ UNCHANGED <<hook, input, begun, stale, shown, loading, failed, reqs, asked, held, loads>>

\* useTags loads whenever the picker opens and no answer was kept (hasLoadedRef).
OpenTags ==
    /\ hook = "tags"
    /\ on' = ~on
    /\ IF ~on /\ shown = None THEN Load(input) ELSE Idle /\ UNCHANGED <<loading, failed>>
    /\ UNCHANGED <<hook, input, begun, stale, shown, held>>

(***************************************************************************)
(* The filter effects of useAssets, useAlbums and useMapMarkers.  The grid *)
(* is emptied; the albums stay; the markers stay when only the bounds of   *)
(* the map moved, and all of it when there is nothing to ask for.          *)
(***************************************************************************)
ChangeNumbered(i) ==
    /\ hook \in {"assets", "albums", "markers"}
    /\ input' = i
    /\ \/ /\ hook = "markers" /\ i = None
          /\ Idle /\ UNCHANGED <<shown, loading, failed>>
       \/ /\ i # None
          /\ Load(i)
          /\ \/ hook # "albums" /\ shown' = None
             \/ hook # "assets" /\ UNCHANGED shown
    /\ UNCHANGED <<hook, on, begun, stale, held>>

\* useFolders: the tree stays, stale, until the effect of useCatalogDomain loads it.
ChangeFolders(i) ==
    /\ hook = "folders"
    /\ input' = i
    /\ stale' = TRUE
    /\ reqs' = Dropped
    /\ loading' = FALSE /\ failed' = FALSE
    /\ UNCHANGED <<hook, on, begun, shown, asked, held, loads>>

LoadStale ==
    /\ hook = "folders" /\ on /\ stale /\ ~loading /\ ~failed
    /\ stale' = FALSE
    /\ Load(input)
    /\ UNCHANGED <<hook, input, on, begun, shown, held>>

\* The button beside the error.
Retry ==
    /\ hook = "folders" /\ on /\ failed
    /\ stale' = FALSE
    /\ Load(input)
    /\ UNCHANGED <<hook, input, on, begun, shown, held>>

(***************************************************************************)
(* The effects that end with controller.abort(): another input, or none.   *)
(* The path of the folder is forgotten at once, the day counts stay when   *)
(* the calendar closes, the others are forgotten when there is no input.   *)
(***************************************************************************)
ChangeSignalled(i) ==
    /\ hook \in {"days", "missing", "folderPath", "suggestions"}
    /\ input' = i
    /\ shown' = IF hook = "folderPath" \/ (i = None /\ hook # "days") THEN None ELSE shown
    /\ IF i = None THEN reqs' = Dropped /\ loading' = FALSE /\ failed' = FALSE /\ UNCHANGED <<asked, loads>>
                   ELSE Load(i)
    /\ UNCHANGED <<hook, on, begun, stale, held>>

(***************************************************************************)
(* handleChange of the place search: a query waits for the debounce timer; *)
(* an empty field, or coordinates, abort the request without taking a new  *)
(* number, so that an answer that is already there still counts.           *)
(***************************************************************************)
Type(i) ==
    /\ hook = "search"
    /\ input' = i
    /\ stale' = (i # None)
    /\ IF i = None THEN /\ reqs' = Aborted /\ shown' = None /\ loading' = FALSE /\ failed' = FALSE
                        /\ UNCHANGED <<asked, loads>>
                   ELSE Idle /\ UNCHANGED <<shown, loading, failed>>
    /\ UNCHANGED <<hook, on, begun, held>>

\* doSearch, when the timer fires.
Search ==
    /\ hook = "search" /\ stale
    /\ stale' = FALSE
    /\ Load(input)
    /\ UNCHANGED <<hook, input, on, begun, shown, held>>

Change(i) ==
    /\ i # input /\ hook \notin Having("fixed")
    /\ i = None => hook \in Having("optional")
    /\ ChangeNumbered(i) \/ ChangeFolders(i) \/ ChangeSignalled(i) \/ Type(i)

Reload ==
    /\ hook \in Having("reload") /\ input # None
    /\ Load(input)
    /\ UNCHANGED <<hook, input, on, begun, stale, shown, held>>

\* A save begins, with the loadPageAction and loadAlbumsAction of this render.
SaveBegins ==
    /\ hook \in Having("save") /\ held = None
    /\ held' = input
    /\ UNCHANGED <<hook, input, on, begun, stale, shown, loading, failed, reqs, asked, loads>>

\* onBatchSavedAction
SaveEnds ==
    /\ held # None
    /\ held' = None
    /\ Load(held)
    /\ UNCHANGED <<hook, input, on, begun, stale, shown>>

Clear ==
    /\ hook \in Having("clear")
    /\ reqs' = Dropped
    /\ shown' = None
    /\ stale' = (hook = "folders")
    /\ loading' = FALSE /\ failed' = FALSE
    /\ UNCHANGED <<hook, input, on, begun, asked, held, loads>>

(***************************************************************************)
(* The answer is there: an abort no longer rejects the request, and its    *)
(* timer is cleared.  backendFetch lets go of both at the headers, before  *)
(* the body is read.                                                       *)
(***************************************************************************)
Arrive(r) ==
    /\ ~r.answered /\ ~r.aborted
    /\ reqs' = (reqs \ {r}) \union {[r EXCEPT !.answered = TRUE]}
    /\ UNCHANGED <<hook, input, on, begun, stale, shown, loading, failed, asked, held, loads>>

\* Mutant of Apply: whatever arrives is shown.
ApplyAny(r) ==
    /\ r.answered
    /\ reqs' = reqs \ {r}
    /\ shown' = r.of
    /\ loading' = (loading /\ ~Counts(r))
    /\ UNCHANGED <<hook, input, on, begun, stale, failed, asked, held, loads>>

\* What follows the await: the answer is shown if it still counts.
Apply(r) ==
    /\ r.answered
    /\ reqs' = reqs \ {r}
    /\ shown' = IF Counts(r) THEN r.of ELSE shown
    /\ loading' = (loading /\ ~Counts(r))
    /\ UNCHANGED <<hook, input, on, begun, stale, failed, asked, held, loads>>

\* Mutant of Fail: the hook goes on saying that it is loading.
FailLoading(r) ==
    /\ ~r.aborted \/ r.answered
    /\ reqs' = reqs \ {r}
    /\ failed' = (failed \/ (Counts(r) /\ ~r.aborted))
    /\ shown' = IF Counts(r) /\ ~r.aborted /\ hook \in Having("blank") THEN None ELSE shown
    /\ UNCHANGED <<hook, input, on, begun, stale, loading, asked, held, loads>>

\* An error, a timeout or an answer the guards refuse.
Fail(r) ==
    /\ ~r.aborted \/ r.answered
    /\ reqs' = reqs \ {r}
    /\ failed' = (failed \/ (Counts(r) /\ ~r.aborted))
    /\ shown' = IF Counts(r) /\ ~r.aborted /\ hook \in Having("blank") THEN None ELSE shown
    /\ loading' = (loading /\ ~Counts(r))
    /\ UNCHANGED <<hook, input, on, begun, stale, asked, held, loads>>

\* An AbortError changes nothing but the end of a search that is still the newest.
Reject(r) ==
    /\ r.aborted /\ ~r.answered
    /\ reqs' = reqs \ {r}
    /\ loading' = (loading /\ ~Counts(r))
    /\ UNCHANGED <<hook, input, on, begun, stale, shown, failed, asked, held, loads>>

Ends(r) == Apply(r) \/ Fail(r) \/ Reject(r)

Next ==
    \/ FirstLoad \/ Switch \/ OpenTags \/ LoadStale \/ Retry \/ Search \/ Reload
    \/ SaveBegins \/ SaveEnds \/ Clear
    \/ \E i \in Inputs \union {None} : Change(i)
    \/ \E r \in reqs : Arrive(r) \/ Ends(r)

\* Nothing in the browser ends the request: it has no timer, and no abort rejects it.
Unbounded(r) == r.answered \/ (hook \in Having("raw") /\ ~r.aborted)

(***************************************************************************)
(* Fairness: effects and timers run, a save ends, and so does a request    *)
(* that an abort or a timer ends.  Of the others, the body of an answer    *)
(* and a search for a place, nothing is assumed.                           *)
(***************************************************************************)
Fairness ==
    /\ WF_vars(FirstLoad) /\ WF_vars(LoadStale) /\ WF_vars(Search) /\ WF_vars(SaveEnds)
    /\ \A i \in Inputs, n \in 0..MaxLoads-1 :
         WF_vars(\E r \in reqs : r.of = i /\ r.n = n /\ ~Unbounded(r) /\ Ends(r))

Spec == Init /\ [][Next]_vars /\ Fairness

------------------------------------------------------------------------------
Requests == [of : Inputs, n : 0..MaxLoads-1, answered : BOOLEAN, aborted : BOOLEAN, superseded : BOOLEAN]

TypeOK ==
    /\ hook \in Hooks
    /\ {input, shown, asked, held} \subseteq Inputs \union {None}
    /\ {on, begun, stale, loading, failed} \subseteq BOOLEAN
    /\ reqs \subseteq Requests
    /\ loads \in 0..MaxLoads

\* Nothing that could still change the screen is under way.
Settled == ~stale /\ ~loading /\ \A r \in reqs : ~Counts(r)

(***************************************************************************)
(* Once a hook is quiet and its newest request had an answer, what is on   *)
(* screen is that answer or nothing, however the requests, their answers   *)
(* and the changes of the filters overlapped (useSuggestions.ts:219,       *)
(* usePlaceSearch.ts:102).  And that request was for what the screen wants *)
(* now, unless the callback of a save sent it (useSelectionCallbacks.ts    *)
(* holds the filters of when the save began) or there is nothing to ask    *)
(* for: the calendar is closed, or the field of the search was emptied and *)
(* an answer that was already there came after it.                         *)
(***************************************************************************)
QuietScreenIsCurrent ==
    Settled /\ ~failed /\ shown # None =>
        /\ input # None \/ hook # "days" => shown = asked
        /\ input # None /\ hook \notin Having("save") => shown = input

(***************************************************************************)
(* Whichever requests are aborted, superseded, cleared or fail, a hook     *)
(* stops saying that it is loading, or waits for a request that still      *)
(* counts and that no timer ends: the body of an answer whose headers came *)
(* (backendApi.fetch.ts:80), or a search, which is sent without a timeout  *)
(* (nominatim.ts:79).  It never says so of a request that is gone.         *)
(***************************************************************************)
LoadingEnds == loading ~> ~loading \/ \E r \in reqs : Counts(r) /\ Unbounded(r)
==============================================================================
