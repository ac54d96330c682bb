--------------------------- MODULE LibraryAccess ---------------------------
(***************************************************************************)
(* The external libraries (syncLibraries in backend/syncService.go, with   *)
(* databaseLibraries.go, handlersLibraries.go and handlersAuth.go).  The   *)
(* table "libraries" belongs to no user: every user's sync refreshes it,   *)
(* and so does POST /libraries/refresh, which takes no lock.  Only an      *)
(* admin key can list the libraries, so each user carries a flag           *)
(* hasLibraryAccess that says how the last attempt ended, and a user       *)
(* without access leaves the table to the users that have it.              *)
(*                                                                         *)
(* SyncLock shows that a user has one run or one settings change at a      *)
(* time: they share a slot here.  Every call to Immich or to the database  *)
(* is a step, but for the asset part of a run (module AssetSync), which is *)
(* one.  A user's key stands for one Immich account all along.  Every user *)
(* is taken to have uploads, photos outside any external library.          *)
(***************************************************************************)
EXTENDS Naturals, FiniteSets

CONSTANTS
    Users,
    Libs,         \* external libraries of Immich
    Owner,        \* the user whose photos a library holds
    Refreshers,   \* the users that call POST /libraries/refresh
    MaxEdits,     \* bound on what people do: in Immich, to settings, and crashes
    MaxFailures   \* bound on the calls that fail

ASSUME OwnerAssumption == Owner \in [Libs -> Users]
ASSUME RefreshersAssumption == Refreshers \subseteq Users
ASSUME BoundsAssumption == MaxEdits \in Nat /\ MaxFailures \in Nat

VARIABLES
    admin,     \* Immich: the users whose key is an admin key
    immich,    \* Immich: the libraries there are
    keyed,     \* users with an immichAPIKey
    access,    \* syncState hasLibraryAccess
    done,      \* users with syncState libraryIDBackfillDone = "true"
    synced,    \* users with a lastSyncAt, and so with assets
    tagged,    \* the libraries each user's assets rows refer to
    rows,      \* table libraries: "none", or whether the library is hidden
    pass,      \* the run or settings change of each user, and its refresh request
    clearing,  \* each user's request to clear the key: none, key gone, flag reset too
    edits, failures,
    wish       \* history: libraries a user hid, and that stayed in Immich since

vars == <<admin, immich, keyed, access, done, synced, tagged, rows, pass, clearing,
          edits, failures, wish>>

Passes == {p \in Users \X {"run", "refresh"} : p[2] = "refresh" => p[1] \in Refreshers}

Phases == {"idle", "wipe", "assets", "check", "others", "fetch", "deny", "grant", "upsert",
           "mark", "unmark"}
PassRecords == [phase : Phases, full : BOOLEAN, list : SUBSET Libs, left : SUBSET Libs]
NoPass == [phase |-> "idle", full |-> FALSE, list |-> {}, left |-> {}]

Unset == "unset"

TypeOK ==
    /\ admin \subseteq Users /\ keyed \subseteq Users /\ done \subseteq Users
    /\ synced \subseteq Users
    /\ immich \subseteq Libs /\ wish \subseteq Libs
    /\ clearing \in [Users -> {"no", "asked", "reset"}]
    /\ access \in [Users -> {"unset", "true", "false"}]
    /\ tagged \in [Users -> SUBSET Libs]
    /\ rows \in [Libs -> {"none", "shown", "hidden"}]
    /\ pass \in [Passes -> PassRecords]
    /\ edits \in 0..MaxEdits /\ failures \in 0..MaxFailures

Init ==
    /\ admin \in SUBSET Users
    /\ immich = Libs
    /\ keyed = Users
    /\ access = [u \in Users |-> Unset]
    /\ done = {} /\ synced = {} /\ wish = {}
    /\ clearing = [u \in Users |-> "no"]
    /\ tagged = [u \in Users |-> {}]
    /\ rows = [l \in Libs |-> "none"]
    /\ pass = [p \in Passes |-> NoPass]
    /\ edits = 0 /\ failures = 0

Edit == edits < MaxEdits /\ edits' = edits + 1

Fails == failures < MaxFailures /\ failures' = failures + 1

At(p, l) == pass[p].phase = l
Goto(p, l) == pass' = [pass EXCEPT ![p].phase = l]

-----------------------------------------------------------------------------
(* People: in Immich, and in the application                               *)

AccountChanges(u) ==
    /\ Edit
    /\ admin' = IF u \in admin THEN admin \ {u} ELSE admin \union {u}
    /\ UNCHANGED <<immich, keyed, access, done, synced, tagged, rows, pass, clearing,
                   failures, wish>>

LibraryChanges(l) ==
    /\ Edit
    /\ immich' = IF l \in immich THEN immich \ {l} ELSE immich \union {l}
    /\ wish' = wish \ {l}
    /\ UNCHANGED <<admin, keyed, access, done, synced, tagged, rows, pass, clearing, failures>>

\* PUT /libraries/{id}: the flag is checked, the row updated.  The recomputation of the
\* frequent locations that follows changes nothing here.
UpdateLibrary(u, l, hide) ==
    /\ Edit
    /\ access[u] = "true" /\ rows[l] # "none"
    /\ rows' = [rows EXCEPT ![l] = IF hide THEN "hidden" ELSE "shown"]
    /\ wish' = IF hide /\ l \in immich THEN wish \union {l} ELSE wish \ {l}
    /\ UNCHANGED <<admin, immich, keyed, access, done, synced, tagged, pass, clearing, failures>>

\* PUT /auth/settings with an empty key, or with none: the key goes ...
ClearKey(u) ==
    /\ Edit
    /\ keyed' = keyed \ {u}
    /\ \E c \in {"asked", "no"} : clearing' = [clearing EXCEPT ![u] = c]
    /\ UNCHANGED <<admin, immich, access, done, synced, tagged, rows, pass, failures, wish>>

\* ... and then, if an empty one was sent, the flag is reset.  No lock is taken and no run is stopped.
ResetAccess(u) ==
    /\ clearing[u] = "asked"
    /\ \/ /\ access' = [access EXCEPT ![u] = "false"]
          /\ clearing' = [clearing EXCEPT ![u] = "reset"]
          /\ UNCHANGED failures
       \/ /\ Fails   \* logged
          /\ clearing' = [clearing EXCEPT ![u] = "no"]
          /\ UNCHANGED access
    /\ UNCHANGED <<admin, immich, keyed, done, synced, tagged, rows, pass, edits, wish>>

\* PUT /auth/settings with a key: a run of the user is cancelled and gone when the lock
\* is taken; the key is stored.
BeginSettings(u) ==
    /\ Edit
    /\ pass[<<u, "run">>].phase # "wipe"
    /\ keyed' = keyed \union {u}
    /\ clearing' = [clearing EXCEPT ![u] = IF @ = "reset" THEN "no" ELSE @]
    /\ pass' = [pass EXCEPT ![<<u, "run">>] = [NoPass EXCEPT !.phase = "wipe"]]
    /\ UNCHANGED <<admin, immich, access, done, synced, tagged, rows, failures, wish>>

\* deleteUserSyncData, one transaction; syncLibraries follows under the lock.
Wipe(u) ==
    LET p == <<u, "run">>
    IN  /\ At(p, "wipe")
        /\ \/ /\ access' = [access EXCEPT ![u] = Unset]
              /\ done' = done \ {u} /\ synced' = synced \ {u}
              /\ tagged' = [tagged EXCEPT ![u] = {}]
              /\ Goto(p, "check")
              /\ UNCHANGED failures
           \/ /\ Fails
              /\ pass' = [pass EXCEPT ![p] = NoPass]
              /\ UNCHANGED <<access, done, synced, tagged>>
        /\ UNCHANGED <<admin, immich, keyed, rows, clearing, edits, wish>>

\* POST /libraries/refresh, with the key of the session.
BeginRefresh(u) ==
    /\ Edit
    /\ u \in keyed /\ At(<<u, "refresh">>, "idle")
    /\ Goto(<<u, "refresh">>, "check")
    /\ UNCHANGED <<admin, immich, keyed, access, done, synced, tagged, rows, clearing,
                   failures, wish>>

Crash ==
    /\ Edit
    /\ pass' = [p \in Passes |-> NoPass]
    /\ clearing' = [u \in Users |-> IF clearing[u] = "asked" THEN "no" ELSE clearing[u]]
    /\ UNCHANGED <<admin, immich, keyed, access, done, synced, tagged, rows, failures, wish>>

-----------------------------------------------------------------------------
(* A run, up to syncLibraries                                              *)

\* needsLibraryIDBackfill.
NeedsBackfill(u) ==
    /\ u \notin done
    /\ access[u] = "true"
    /\ \E l \in Libs : rows[l] # "none"
    /\ u \in synced

BeginRun(u, full) ==
    /\ u \in keyed
    /\ pass' = [pass EXCEPT ![<<u, "run">>] = [NoPass EXCEPT !.phase = "assets", !.full = full]]
    /\ UNCHANGED <<admin, immich, keyed, access, done, synced, tagged, rows, clearing,
                   failures, wish>>

\* The ticker, the start-up or POST /sync: doUserIncrementalSync chooses.
BeginSync(u) ==
    /\ At(<<u, "run">>, "idle")
    /\ BeginRun(u, u \notin synced \/ NeedsBackfill(u))
    /\ UNCHANGED edits

\* POST /sync/full: a run that is under way is cancelled first.
BeginFullSync(u) ==
    /\ Edit
    /\ pass[<<u, "run">>].phase # "wipe"
    /\ BeginRun(u, TRUE)

\* A full run also drops the rows of photos that are gone.
SyncAssets(u) ==
    LET p == <<u, "run">>
        found == {l \in immich : Owner[l] = u}
    IN  /\ At(p, "assets")
        /\ \/ /\ tagged' = [tagged EXCEPT ![u] = IF pass[p].full THEN found ELSE @ \union found]
              /\ synced' = synced \union {u}
              /\ Goto(p, "check")
              /\ UNCHANGED failures
           \/ /\ Fails
              /\ pass' = [pass EXCEPT ![p] = NoPass]
              /\ UNCHANGED <<tagged, synced>>
        /\ UNCHANGED <<admin, immich, keyed, access, done, rows, clearing, edits, wish>>

-----------------------------------------------------------------------------
(* syncLibraries                                                           *)

\* It returns.  A full run notes the outcome, nobody else does.
Leave(p, ok) ==
    pass' = [pass EXCEPT ![p] =
        IF @.full THEN [@ EXCEPT !.phase = IF ok THEN "mark" ELSE "unmark", !.list = {}, !.left = {}]
                  ELSE NoPass]

Rest == <<admin, immich, keyed, synced, tagged, clearing, edits>>

\* Mutant: a user without access gives up at once.
CheckReturningEarly(p) ==
    /\ At(p, "check")
    /\ IF access[p[1]] = "false" THEN Leave(p, TRUE) ELSE Goto(p, "fetch")
    /\ UNCHANGED <<Rest, access, done, rows, failures, wish>>

Check(p) ==
    /\ At(p, "check")
    /\ Goto(p, IF access[p[1]] = "false" THEN "others" ELSE "fetch")
    /\ UNCHANGED <<Rest, access, done, rows, failures, wish>>

\* hasAnyOtherUserWithLibraryAccess: leave the table to that user.
Others(p) ==
    /\ At(p, "others")
    /\ IF \E v \in Users \ {p[1]} : access[v] = "true" THEN Leave(p, TRUE) ELSE Goto(p, "fetch")
    /\ UNCHANGED <<Rest, access, done, rows, failures, wish>>

\* GET /libraries: the list, or 401/403.
Fetch(p) ==
    /\ At(p, "fetch")
    /\ pass' = [pass EXCEPT ![p] =
           IF p[1] \in admin THEN [@ EXCEPT !.phase = "grant", !.list = immich, !.left = immich]
                             ELSE [@ EXCEPT !.phase = "deny"]]
    /\ UNCHANGED <<Rest, access, done, rows, failures, wish>>

\* A check or the fetch fails: an error return that leaves the flag alone.
EarlyCallFails(p) ==
    /\ pass[p].phase \in {"check", "others", "fetch"}
    /\ Fails
    /\ Leave(p, FALSE)
    /\ UNCHANGED <<Rest, access, done, rows, wish>>

\* Mutant: a refused list leaves the flag as it was.
DenySilently(p) ==
    /\ At(p, "deny")
    /\ Leave(p, FALSE)
    /\ UNCHANGED <<Rest, access, done, rows, failures, wish>>

Deny(p) ==
    /\ At(p, "deny")
    /\ \/ access' = [access EXCEPT ![p[1]] = "false"] /\ UNCHANGED failures
       \/ Fails /\ UNCHANGED access   \* logged
    /\ Leave(p, FALSE)
    /\ UNCHANGED <<Rest, done, rows, wish>>

Grant(p) ==
    /\ At(p, "grant")
    /\ \/ access' = [access EXCEPT ![p[1]] = "true"] /\ UNCHANGED failures
       \/ Fails /\ UNCHANGED access   \* logged
    /\ Goto(p, "upsert")
    /\ UNCHANGED <<Rest, done, rows, wish>>

\* Mutant: the row is replaced, isHidden and all.
UpsertReplacing(row) == "shown"

\* INSERT ... ON CONFLICT DO UPDATE: isHidden is not among the columns updated.
Upserted(row) == IF row = "none" THEN "shown" ELSE row

UpsertLibrary(p, l) ==
    /\ At(p, "upsert") /\ l \in pass[p].left
    /\ \/ rows' = [rows EXCEPT ![l] = Upserted(@)] /\ UNCHANGED failures
       \/ Fails /\ UNCHANGED rows   \* logged
    /\ pass' = [pass EXCEPT ![p].left = @ \ {l}]
    /\ UNCHANGED <<Rest, access, done, wish>>

Referenced == UNION {tagged[u] : u \in Users}

\* deleteLibrariesNotIn, one statement: libraries that some photo refers to are kept.
DeleteStale(p) ==
    LET gone == Libs \ (pass[p].list \union Referenced)
    IN  /\ At(p, "upsert") /\ pass[p].left = {}
        /\ \/ /\ rows' = [l \in Libs |-> IF l \in gone THEN "none" ELSE rows[l]]
              /\ wish' = wish \intersect (pass[p].list \union Referenced)
              /\ UNCHANGED failures
           \/ Fails /\ UNCHANGED <<rows, wish>>   \* logged
        /\ Leave(p, TRUE)
        /\ UNCHANGED <<Rest, access, done>>

\* A full run sets libraryIDBackfillDone ...
Mark(p) ==
    /\ At(p, "mark")
    /\ \/ done' = done \union {p[1]} /\ UNCHANGED failures
       \/ Fails /\ UNCHANGED done   \* logged
    /\ pass' = [pass EXCEPT ![p] = NoPass]
    /\ UNCHANGED <<Rest, access, rows, wish>>

\* ... or deletes it.
Unmark(p) ==
    /\ At(p, "unmark")
    /\ \/ done' = done \ {p[1]} /\ UNCHANGED failures
       \/ Fails /\ UNCHANGED done   \* logged
    /\ pass' = [pass EXCEPT ![p] = NoPass]
    /\ UNCHANGED <<Rest, access, rows, wish>>

-----------------------------------------------------------------------------
LibraryStep(p) ==
    \/ Check(p) \/ Others(p) \/ Fetch(p) \/ EarlyCallFails(p) \/ Deny(p) \/ Grant(p)
    \/ \E l \in Libs : UpsertLibrary(p, l)
    \/ DeleteStale(p) \/ Mark(p) \/ Unmark(p)

UserStep(u) == ResetAccess(u) \/ Wipe(u) \/ SyncAssets(u)

Next ==
    \/ \E u \in Users : AccountChanges(u) \/ ClearKey(u) \/ BeginSettings(u) \/ BeginFullSync(u)
                        \/ BeginSync(u) \/ UserStep(u)
    \/ \E u \in Refreshers : BeginRefresh(u)
    \/ \E l \in Libs : LibraryChanges(l)
    \/ \E u \in Users, l \in Libs, hide \in BOOLEAN : UpdateLibrary(u, l, hide)
    \/ \E p \in Passes : LibraryStep(p)
    \/ Crash

\* The ticker goes on syncing every user that has a key, and every call returns.
Fairness ==
    /\ \A u \in Users : WF_vars(BeginSync(u)) /\ WF_vars(UserStep(u))
    /\ \A p \in Passes : WF_vars(LibraryStep(p))

Spec == Init /\ [][Next]_vars

FairSpec == Spec /\ Fairness

-----------------------------------------------------------------------------
(* Properties                                                              *)

\* A library that a user hid, and that Immich still has, is not shown again by any
\* refresh of the table, whichever user's it is and whatever photos were wiped in
\* between.  The one exception is named in DeleteStale: a list fetched before Immich had
\* the library drops the row, and its flag with it.
HiddenStaysHidden == \A l \in wish : rows[l] = "hidden"

\* hasLibraryAccess follows the account.  It does not stay "true" for a key that Immich
\* goes on refusing, and it becomes "true" for an admin key, unless another user holds
\* the flag and keeps the table.
AccessSettles ==
    \A u \in Users :
        /\ <>[](u \in keyed \ admin) => <>[](access[u] # "true")
        /\ <>[](u \in keyed \intersect admin /\ \A v \in Users \ {u} : access[v] # "true")
               => <>[](access[u] = "true")

\* When a user with an admin key remains, the table ends up with the libraries of Immich,
\* besides those that photos still refer to; unless a user without a key holds the flag.
Converges ==
    <>[](keyed \intersect admin # {} /\ \A u \in Users \ keyed : access[u] # "true")
        => LET Listed == {l \in Libs : rows[l] # "none"}
           IN  <>[](immich \subseteq Listed /\ Listed \subseteq immich \union Referenced)

=============================================================================
