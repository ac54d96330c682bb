-------------------------- MODULE FrequentLocations --------------------------
(***************************************************************************)
(* The frequent locations of src/backend (syncService.go, database.go): a  *)
(* sync, or a change of a library's visibility, computes the clusters of a *)
(* user's located photos, replaces the user's rows by them with their      *)
(* coordinates as labels, takes the next generation and starts a goroutine *)
(* that asks the geocoder for names.  When it has them the goroutine       *)
(* compares its generation with the current one and, in a second step,     *)
(* replaces the rows again.  The generation is one number for all users.   *)
(***************************************************************************)
EXTENDS Geocoding, FiniteSets

CONSTANTS Users, Cells,   \* users, and the rounded coordinates of clusters
          Managers,       \* the users who manage libraries
          MaxGen,         \* bound on the recomputations
          MaxChanges      \* bound on the changes of the photos and the wipes

ASSUME FrequentAssumption ==
    Managers \subseteq Users /\ MaxGen \in Nat /\ MaxChanges \in Nat

\* Who calls recomputeFrequentLocations: the user's run, which holds the sync
\* lock, and handleUpdateLibrary, which does not.
Callers == {"sync", "library"}

NoRow == "none"

VARIABLES photos,     \* photos[u]: the clusters of u's located, visible photos
          rows,       \* rows[u][c]: the label of c in frequentLocations, or NoRow
          call,       \* call[u][k]: the recomputation k is in, with its clusters
          gen,        \* freqLocGeneration
          passes,     \* the goroutines that ask for labels
          down,       \* shutdownCtx is done
          latest,     \* latest[u]: the clusters u's newest recomputation found
          disturbed,  \* the users whose newest rows something may have undone
          changes

tables == <<photos, rows, latest>>
frequentVars == <<photos, rows, call, gen, passes, down, latest, disturbed, changes>>

NoRows == [c \in Cells |-> NoRow]
NoCall == [at |-> "idle", clusters |-> {}]

\* formatCoords of every cluster
WithCoords(clusters) == [c \in Cells |-> IF c \in clusters THEN "coords" ELSE NoRow]

Clusters(table) == {c \in Cells : table[c] # NoRow}

PassesOf(u) == {p \in passes : p.user = u}

\* Nothing of u's recomputations is under way.
Settled(u) == PassesOf(u) = {} /\ \A k \in Callers : call[u][k] = NoCall

FrequentInit ==
    /\ photos = [u \in Users |-> Cells]
    /\ rows = [u \in Users |-> NoRows]
    /\ call = [u \in Users |-> [k \in Callers |-> NoCall]]
    /\ gen = 0
    /\ passes = {}
    /\ down = FALSE
    /\ latest = [u \in Users |-> {}]
    /\ disturbed = {}
    /\ changes = 0

\* A sync, a saved location or a change of visibility changes what there is to cluster.
PhotosChange(u) ==
    /\ changes < MaxChanges
    /\ changes' = changes + 1
    /\ \E s \in (SUBSET Cells) \ {photos[u]} : photos' = [photos EXCEPT ![u] = s]
    /\ UNCHANGED <<rows, call, gen, passes, down, latest, disturbed>>

(***************************************************************************)
(* deleteUserSyncData, which runs under the sync lock and leaves the       *)
(* goroutines and the generation alone.                                    *)
(***************************************************************************)
Wipe(u) ==
    /\ changes < MaxChanges
    /\ call[u]["sync"] = NoCall
    /\ changes' = changes + 1
    /\ photos' = [photos EXCEPT ![u] = {}]
    /\ rows' = [rows EXCEPT ![u] = NoRows]
    /\ latest' = [latest EXCEPT ![u] = {}]
    /\ disturbed' = IF Settled(u) THEN disturbed \ {u} ELSE disturbed \union {u}
    /\ UNCHANGED <<call, gen, passes, down>>

Compute(u, k) ==
    /\ k = "library" => u \in Managers
    /\ call[u][k] = NoCall
    /\ down => k = "library"
    /\ gen + Cardinality({w \in Users \X Callers : call[w[1]][w[2]] # NoCall}) < MaxGen
    /\ call' = [call EXCEPT ![u][k] = [at |-> "computed", clusters |-> photos[u]]]
    /\ latest' = [latest EXCEPT ![u] = photos[u]]
    /\ disturbed' = IF Settled(u) THEN disturbed \ {u}
                    ELSE IF \E other \in Callers : call[u][other] # NoCall THEN disturbed \union {u}
                    ELSE disturbed
    /\ UNCHANGED <<photos, rows, gen, passes, down, changes>>

Replace(u, k) ==
    /\ down => k = "library"
    /\ call[u][k].at = "computed"
    /\ call' = [call EXCEPT ![u][k].at = "replaced"]
    /\ rows' = [rows EXCEPT ![u] = WithCoords(call[u][k].clusters)]
    /\ UNCHANGED <<photos, gen, passes, down, latest, disturbed, changes>>

ReplaceFails(u, k) ==
    /\ call[u][k].at = "computed"
    /\ call' = [call EXCEPT ![u][k] = NoCall]
    /\ disturbed' = disturbed \union {u}
    /\ UNCHANGED <<tables, gen, passes, down, changes>>

(***************************************************************************)
(* The next generation, and the goroutine for the labels.  Every pass that *)
(* has not been checked is out of date with it, those of other users too.  *)
(***************************************************************************)
StartLabels(u, k) ==
    /\ call[u][k].at = "replaced"
    /\ call' = [call EXCEPT ![u][k] = NoCall]
    /\ gen' = gen + 1
    /\ passes' = passes \union {[user |-> u, of |-> gen + 1, left |-> call[u][k].clusters,
                                 found |-> WithCoords(call[u][k].clusters), checked |-> FALSE]}
    /\ disturbed' = IF \E p \in PassesOf(u) : p.checked THEN disturbed \union {u} ELSE disturbed
    /\ UNCHANGED <<tables, down, changes>>

(***************************************************************************)
(* The label of one cluster: what a client named it, or the coordinates it *)
(* has, with which a chain answers and which an error of a lone Nominatim  *)
(* leaves.  After a shutdown no client is reached.                         *)
(***************************************************************************)
Geocode(p, c) ==
    /\ c \in p.left
    /\ \E a \in ReverseAnswers :
         /\ down => \A i \in DOMAIN a : a[i] = Failed
         /\ passes' = (passes \ {p}) \union
                {[p EXCEPT !.left = @ \ {c},
                           !.found[c] = IF ReverseGeocode(a) \in Built THEN "label" ELSE @]}
    /\ UNCHANGED <<tables, call, gen, down, disturbed, changes>>

\* Mutant of CheckGeneration: every pass may write.
CheckNothing(p) ==
    /\ p.left = {} /\ ~p.checked
    /\ passes' = (passes \ {p}) \union {[p EXCEPT !.checked = TRUE]}
    /\ UNCHANGED <<tables, call, gen, down, disturbed, changes>>

CheckGeneration(p) ==
    /\ p.left = {} /\ ~p.checked
    /\ passes' = (passes \ {p}) \union
                    (IF p.of = gen THEN {[p EXCEPT !.checked = TRUE]} ELSE {})
    /\ UNCHANGED <<tables, call, gen, down, disturbed, changes>>

WriteLabels(p) ==
    /\ p.checked /\ ~down
    /\ rows' = [rows EXCEPT ![p.user] = p.found]
    /\ passes' = passes \ {p}
    /\ disturbed' = IF \E k \in Callers : call[p.user][k].at = "replaced"
                    THEN disturbed \union {p.user} ELSE disturbed
    /\ UNCHANGED <<photos, call, gen, down, latest, changes>>

\* The rows keep the labels they have.
WriteFails(p) ==
    /\ p.checked
    /\ passes' = passes \ {p}
    /\ UNCHANGED <<tables, call, gen, down, disturbed, changes>>

Shutdown ==
    /\ ~down
    /\ down' = TRUE
    /\ UNCHANGED <<tables, call, gen, passes, disturbed, changes>>

Recompute(u, k) == Compute(u, k) \/ Replace(u, k) \/ ReplaceFails(u, k) \/ StartLabels(u, k)

Pass(p) == (\E c \in p.left : Geocode(p, c)) \/ CheckGeneration(p) \/ WriteLabels(p) \/ WriteFails(p)

FrequentNext ==
    \/ \E u \in Users : PhotosChange(u) \/ Wipe(u) \/ \E k \in Callers : Recompute(u, k)
    \/ \E p \in passes : Pass(p)
    \/ Shutdown

FrequentSpec == FrequentInit /\ [][FrequentNext]_frequentVars

------------------------------------------------------------------------------
PassType == [user : Users, of : 1..MaxGen, left : SUBSET Cells,
             found : [Cells -> {"coords", "label", NoRow}], checked : BOOLEAN]

FrequentTypeOK ==
    /\ photos \in [Users -> SUBSET Cells]
    /\ latest \in [Users -> SUBSET Cells]
    /\ rows \in [Users -> [Cells -> {"coords", "label", NoRow}]]
    /\ call \in [Users -> [Callers -> [at : {"idle", "computed", "replaced"}, clusters : SUBSET Cells]]]
    /\ gen \in 0..MaxGen
    /\ passes \subseteq PassType
    /\ down \in BOOLEAN
    /\ disturbed \subseteq Users
    /\ changes \in 0..MaxChanges

(***************************************************************************)
(* What the generation achieves (syncService.go:452): once nothing of a    *)
(* user is under way, the rows are those of the newest recomputation,      *)
(* whatever passes overlapped while they asked for labels and whatever     *)
(* generations other users took.  It is not so for users the model calls   *)
(* disturbed: a visibility change recomputed beside a sync, the library    *)
(* was wiped under a pass, the rows could not be replaced, or a pass wrote *)
(* after its check although the rows had been replaced in between.         *)
(***************************************************************************)
NewestRowsLast ==
    \A u \in Users \ disturbed : Settled(u) => Clusters(rows[u]) = latest[u]
==============================================================================
