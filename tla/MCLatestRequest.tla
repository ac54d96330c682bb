--------------------------- MODULE MCLatestRequest ---------------------------
(* Small instances of LatestRequest and of SyncPolling, what the hooks of  *)
(* the application ask the backend for.  A behaviour is that of one of the *)
(* hooks: of "requests" when it is one of LatestRequest, else of useResync *)
(* or of useDawarich.  An idle hook has no action that is enabled.         *)
EXTENDS LatestRequest, SyncPolling

CONSTANT FirstInput

ASSUME FirstInput \in Inputs

NobodyPolls ==
    /\ part = "requests" /\ running = FALSE /\ awaited = FALSE /\ checked = FALSE /\ stored = FALSE
    /\ flow = NoFlow /\ tab = ClosedTab
    /\ timer = 0 /\ chains = {} /\ calls = {} /\ acts = 0

MCInit == Init /\ (NobodyPolls \/ (PollingInit /\ hook = "albums" /\ input = FirstInput))

MCNext ==
    \/ part = "requests" /\ Next /\ UNCHANGED pollingVars
    \/ part # "requests" /\ PollingNext /\ UNCHANGED vars

MCSpec == MCInit /\ [][MCNext]_<<vars, pollingVars>> /\ Fairness /\ PollingFairness
==============================================================================
