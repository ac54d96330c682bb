---------------------------- MODULE LibraryGuard ----------------------------
(***************************************************************************)
(* What the per-user sync lock of backend/syncService.go promises: the     *)
(* assets, albums and tags stored for a user are written by one party at a *)
(* time, the one that holds the user's sync lock.  A party that holds the  *)
(* lock may add rows of an Immich account, or wipe the library, and nobody *)
(* else touches it until the lock is given back.                           *)
(*                                                                         *)
(* The frequent locations are computed from the library.  Of them it       *)
(* promises less: whoever has a result in hand may write it at any time,   *)
(* even after the library it was computed from has been wiped.             *)
(***************************************************************************)
CONSTANTS
    Procs,   \* the parties that compete for one user's lock
    Keys,    \* Immich API keys; one key stands for one Immich account
    None     \* "nobody"

VARIABLES
    holder,   \* the party that holds the user's sync lock, or None
    library,  \* the accounts whose rows are in the user's local library
    frequent, \* the accounts whose photos the frequent locations are of
    inHand    \* results, each a set of accounts, that have not been written for good

vars == <<holder, library, frequent, inHand>>

Init == holder = None /\ library = {} /\ frequent = {} /\ inHand = {}

Acquire(p) == holder = None /\ holder' = p /\ UNCHANGED <<library, frequent, inHand>>

AddRows(p, k) == holder = p /\ library' = library \union {k} /\ UNCHANGED <<holder, frequent, inHand>>

Wipe(p) == holder = p /\ library' = {} /\ frequent' = {} /\ UNCHANGED <<holder, inHand>>

Release(p) == holder = p /\ holder' = None /\ UNCHANGED <<library, frequent, inHand>>

\* The holder writes what it computes at once and keeps the result, to write it again.
Recompute(p) ==
    /\ holder = p
    /\ frequent' = library
    /\ inHand' = inHand \union {library}
    /\ UNCHANGED <<holder, library>>

\* Anyone may compute, ...
Compute == inHand' = inHand \union {library} /\ UNCHANGED <<holder, library, frequent>>

\* ... write what was computed ...
Write ==
    /\ frequent' \in inHand
    /\ inHand' \subseteq inHand
    /\ UNCHANGED <<holder, library>>

\* ... and give it up.
Forget == inHand' \subseteq inHand /\ UNCHANGED <<holder, library, frequent>>

\* The process ends: the lock and the results are gone.
Restart == holder' = None /\ inHand' = {} /\ UNCHANGED <<library, frequent>>

Next ==
    \/ \E p \in Procs :
        \/ Acquire(p)
        \/ \E k \in Keys : AddRows(p, k)
        \/ Wipe(p)
        \/ Release(p)
        \/ Recompute(p)
    \/ Compute \/ Write \/ Forget \/ Restart

Spec == Init /\ [][Next]_vars
=============================================================================
