----------------------------- MODULE MCSyncLock -----------------------------
(* Small instances of SyncLock, told apart by `part`: many requests and no *)
(* recomputation, or recomputations beside few requests.                   *)
EXTENDS SyncLock

CONSTANT Few  \* the requests there are beside recomputations

VARIABLE part

MCInit == Init /\ part \in {"requests", "recomputations"}

MCNext ==
    /\ Next
    /\ part = "requests" => pass' = pass
    /\ part = "recomputations" => \A r \in Requests \ Few : pc'[r] = "idle"
    /\ part' = part

MCSpec == MCInit /\ [][MCNext]_<<vars, part>> /\ Fairness
=============================================================================
