-------------------------- MODULE AssetSync_proofs --------------------------
(***************************************************************************)
(* Proofs about AssetSync, for every finite library, page size, number of  *)
(* changes and choice of failing calls, and, in its last part, about the   *)
(* FrequentLocations of the photos it stores, for every set of users and   *)
(* clusters and every number of recomputations.                            *)
(*                                                                         *)
(* Two arguments meet in the first.  Paging: while a library only grows    *)
(* under a fetch, an asset that was not touched is on a page that was      *)
(* fetched or on one still to come (Paged).  Currency: what was seen and   *)
(* not touched since is current (SeenCurrent), and a save that was not     *)
(* overtaken writes what is dirty (SaveIsDirty).                           *)
(***************************************************************************)
EXTENDS AssetSync, FrequentLocations, FiniteSetTheorems, TLAPS

RunRecords == [phase : {"idle", "search", "upsert", "delete", "stamp", "stacks"},
               full : BOOLEAN, page : Nat \ {0}, buffer : Pages, more : BOOLEAN,
               seen : SUBSET Assets, touched : SUBSET Assets]
EditRecords == [pc : {"idle", "patch", "local"}, loc : Locs, ids : SUBSET Assets,
                overtaken : BOOLEAN]
Tables == [Assets -> Rows \union {Absent}]

\* An incremental fetch has a lastSyncAt, only a full one deletes, and an idle run has
\* nothing.
RunPlaced ==
    /\ Fetching => run.full \/ synced
    /\ run.phase = "delete" => run.full
    /\ ~Fetching => run.touched = {}

\* The page in hand: of assets that were seen, and as Immich has them unless touched since.
PageInHand ==
    \A a \in Assets : run.buffer[a] # Absent =>
        /\ run.phase = "upsert" /\ a \in run.seen
        /\ a \notin run.touched => run.buffer[a] = immich[a]

\* An untouched asset that the search matches was seen, or is on a page to come.
Paged ==
    \A a \in Matching \ run.touched : Fetching =>
        \/ a \in run.seen
        \/ run.phase = "search" /\ Rank(a) > (run.page - 1) * PageSize
        \/ run.phase = "upsert" /\ run.more /\ Rank(a) > run.page * PageSize

\* An asset that was seen and not touched since is in hand or stored as Immich has it.
SeenCurrent ==
    \A a \in run.seen \ run.touched : Fetching /\ immich[a] # Absent =>
        run.buffer[a] # Absent \/ Current(a)

\* What a save is about to write is dirty, unless a stamp came between its two writes.
SaveIsDirty ==
    \A a \in editor.ids :
        editor.pc = "local" /\ ~editor.overtaken /\ immich[a] # Absent => a \in dirty

IInv == TypeOK /\ RunPlaced /\ PageInHand /\ Paged /\ SeenCurrent /\ SaveIsDirty /\ Arrives

------------------------------------------------------------------------------
(* Pages                                                                   *)

\* Rank(a) is the number of elements up to a of the set that is searched.
UpTo(M, a) == {b \in M : b <= a}

LEMMA Segments ==
    ASSUME NEW M \in SUBSET Nat, NEW x \in M, NEW y \in M, x < y
    PROVE  /\ UpTo(M, x) \subseteq UpTo(M, y) /\ y \in UpTo(M, y) /\ y \notin UpTo(M, x)
           /\ {z \in M : y <= z} \subseteq {z \in M : x <= z} /\ x \notin {z \in M : y <= z}
<1>1. x \in Nat /\ y \in Nat
  OBVIOUS
<1>2. ASSUME NEW z \in M PROVE (z <= x => z <= y) /\ (y <= z => x <= z)
  <2>1. z \in Nat
    OBVIOUS
  <2> QED
    BY <1>1, <2>1
<1>3. UpTo(M, x) \subseteq UpTo(M, y) /\ {z \in M : y <= z} \subseteq {z \in M : x <= z}
  BY <1>2 DEF UpTo
<1>4. y <= y /\ ~(y <= x)
  BY <1>1
<1> QED
  BY <1>3, <1>4 DEF UpTo

\* What is up to b but not before b is b.
LEMMA Before ==
    ASSUME NEW M \in SUBSET Nat, NEW b \in M
    PROVE  /\ UpTo(M, b) = {x \in M : x < b} \union {b}
           /\ b \notin {x \in M : x < b}
           /\ \A c \in {x \in M : x < b} : (\A x \in M : x < b => x <= c) =>
                UpTo(M, c) = {x \in M : x < b}
<1>1. ASSUME NEW x \in M PROVE (x <= b <=> x < b \/ x = b) /\ ~(b < b)
  <2>1. x \in Nat /\ b \in Nat
    OBVIOUS
  <2> QED
    BY <2>1
<1>2. ASSUME NEW c \in M, c < b, \A x \in M : x < b => x <= c, NEW x \in M
      PROVE  x <= c <=> x < b
  <2>1. x \in Nat /\ b \in Nat /\ c \in Nat
    OBVIOUS
  <2> QED
    BY <1>2, <2>1
<1>3. UpTo(M, b) = {x \in M : x < b} \union {b} /\ b \notin {x \in M : x < b}
  BY <1>1 DEF UpTo
<1> QED
  BY <1>2, <1>3 DEF UpTo

\* A set of naturals that is finite and not empty has a least and a greatest element: the
\* well-founded order of the library is that of finite sets, here of its initial segments.
LEMMA LeastElement ==
    ASSUME NEW B \in SUBSET Nat, IsFiniteSet(B), B # {}
    PROVE  \E b \in B : \A x \in B : b <= x
<1> DEFINE T == {UpTo(B, b) : b \in B}
<1>1. T \subseteq FiniteSubsetsOf(Nat) /\ T # {}
  <2>1. \A b \in B : UpTo(B, b) \in SUBSET B
    BY DEF UpTo
  <2>2. \A b \in B : UpTo(B, b) \in FiniteSubsetsOf(Nat)
    BY <2>1, FS_Subset DEF FiniteSubsetsOf
  <2> QED
    BY <2>2
<1>2. PICK U \in T : \A V \in T : <<V, U>> \notin StrictSubsetOrdering(Nat)
  <2> HIDE DEF T
  <2> QED
    BY <1>1, FS_StrictSubsetOrderingWellFounded, WFMin
<1>3. PICK b \in B : U = UpTo(B, b)
  OBVIOUS
<1>4. ASSUME NEW x \in B, x < b PROVE FALSE
  <2>1. UpTo(B, x) \subseteq UpTo(B, b) /\ b \in UpTo(B, b) /\ b \notin UpTo(B, x)
    BY <1>4, Segments
  <2>2. UpTo(B, x) \in SUBSET Nat /\ UpTo(B, b) \in SUBSET Nat
    BY DEF UpTo
  <2>3. <<UpTo(B, x), U>> \in StrictSubsetOrdering(Nat)
    BY <2>1, <2>2, <1>3 DEF StrictSubsetOrdering
  <2> QED
    BY <1>2, <2>3
<1> QED
  BY <1>4

LEMMA GreatestElement ==
    ASSUME NEW B \in SUBSET Nat, IsFiniteSet(B), B # {}
    PROVE  \E b \in B : \A x \in B : x <= b
<1> DEFINE From(b) == {x \in B : b <= x}
           T == {From(b) : b \in B}
<1>1. T \subseteq FiniteSubsetsOf(Nat) /\ T # {}
  <2>1. \A b \in B : From(b) \in SUBSET B
    OBVIOUS
  <2> HIDE DEF From
  <2>2. \A b \in B : From(b) \in FiniteSubsetsOf(Nat)
    BY <2>1, FS_Subset DEF FiniteSubsetsOf
  <2> QED
    BY <2>2
<1>2. PICK U \in T : \A V \in T : <<V, U>> \notin StrictSubsetOrdering(Nat)
  <2> HIDE DEF T
  <2> QED
    BY <1>1, FS_StrictSubsetOrderingWellFounded, WFMin
<1>3. PICK b \in B : U = From(b)
  OBVIOUS
<1>4. ASSUME NEW x \in B, b < x PROVE FALSE
  <2>1. From(x) \subseteq From(b) /\ b \in From(b) /\ b \notin From(x)
    BY <1>4, Segments
  <2>2. From(x) \in SUBSET Nat /\ From(b) \in SUBSET Nat
    OBVIOUS
  <2>3. <<From(x), U>> \in StrictSubsetOrdering(Nat)
    <3> HIDE DEF From
    <3> QED
      BY <2>1, <2>2, <1>3 DEF StrictSubsetOrdering
  <2> QED
    BY <1>2, <2>3
<1> QED
  BY <1>4

\* No page is skipped: if there is an element beyond the first k, one is number k + 1.
LEMMA NextRank ==
    ASSUME NEW M \in SUBSET Nat, IsFiniteSet(M), NEW k \in Nat,
           NEW a \in M, Cardinality(UpTo(M, a)) > k
    PROVE  \E b \in M : Cardinality(UpTo(M, b)) = k + 1
<1> DEFINE B == {x \in M : Cardinality(UpTo(M, x)) > k}
<1>1. \A x \in M : IsFiniteSet(UpTo(M, x)) /\ Cardinality(UpTo(M, x)) \in Nat
  BY FS_Subset, FS_CardinalityType DEF UpTo
<1>2. IsFiniteSet(B) /\ B # {} /\ B \in SUBSET Nat
  BY FS_Subset
<1>3. PICK b \in B : \A x \in B : b <= x
  BY <1>2, LeastElement
<1> DEFINE P == {x \in M : x < b}
<1>4. IsFiniteSet(P) /\ P \in SUBSET Nat
  BY FS_Subset
<1>5. Cardinality(UpTo(M, b)) = Cardinality(P) + 1
  <2>1. UpTo(M, b) = P \union {b} /\ b \notin P
    BY Before
  <2> HIDE DEF P
  <2> QED
    BY <1>4, <2>1, FS_AddElement
<1>6. Cardinality(P) <= k
  <2>1. CASE P = {}
    BY <2>1, FS_EmptySet
  <2>2. CASE P # {}
    <3>1. PICK c \in P : \A x \in P : x <= c
      <4> HIDE DEF P
      <4> QED
        BY <1>4, <2>2, GreatestElement
    <3>2. UpTo(M, c) = P
      BY <3>1, Before
    <3>3. c \notin B /\ c \in M
      BY <1>3, <3>1
    <3> QED
      BY <1>1, <3>2, <3>3
  <2> QED
    BY <2>1, <2>2
<1>7. Cardinality(P) \in Nat /\ Cardinality(UpTo(M, b)) > k /\ b \in M
  BY <1>4, FS_CardinalityType
<1>8. Cardinality(UpTo(M, b)) = k + 1
  <2> HIDE DEF P
  <2> QED
    BY <1>5, <1>6, <1>7
<1> QED
  BY <1>7, <1>8

\* In a larger set no element has a smaller rank, and none is beyond the number of elements.
LEMMA RankGrows ==
    ASSUME NEW M, IsFiniteSet(M), NEW L \in SUBSET M, NEW a \in M
    PROVE  /\ Cardinality(UpTo(L, a)) \in Nat /\ Cardinality(UpTo(M, a)) \in Nat
           /\ Cardinality(UpTo(L, a)) <= Cardinality(UpTo(M, a))
           /\ Cardinality(UpTo(M, a)) <= Cardinality(M)
           /\ Cardinality(M) \in Nat
<1>1. UpTo(L, a) \subseteq UpTo(M, a) /\ UpTo(M, a) \subseteq M
  BY DEF UpTo
<1> QED
  BY <1>1, FS_Subset, FS_CardinalityType

------------------------------------------------------------------------------
(* Types                                                                   *)

LEMMA TypedRecords == TypeOK <=>
    /\ immich \in Pages /\ stack \subseteq Assets /\ dirty \subseteq Assets /\ synced \in BOOLEAN
    /\ local \in Tables /\ known \subseteq Assets /\ run \in RunRecords /\ editor \in EditRecords
    /\ edits \in 0..MaxEdits /\ excused \subseteq Assets
BY DEF TypeOK, RunRecords, EditRecords, Tables

LEMMA Empty == NoRun \in RunRecords /\ NoEdit \in EditRecords /\ EmptyPage \in Pages
BY LocsAssumption DEF NoRun, NoEdit, EmptyPage, RunRecords, EditRecords, Pages

\* Touch adds to what a fetch was touched by, and changes nothing else of a run.
LEMMA Touching ==
    ASSUME run \in RunRecords, NEW S \in SUBSET Assets, Touch(S)
    PROVE  /\ run' \in RunRecords
           /\ run'.phase = run.phase /\ run'.full = run.full /\ run'.page = run.page
           /\ run'.buffer = run.buffer /\ run'.more = run.more /\ run'.seen = run.seen
           /\ run'.touched = IF Fetching THEN run.touched \union S ELSE run.touched
BY DEF Touch, RunRecords

LEMMA TypeInit == Init => TypeOK
<1> SUFFICES ASSUME Init PROVE TypeOK
  OBVIOUS
<1>1. immich \in Pages /\ local \in Tables
  BY LocsAssumption DEF Init, Pages, Tables
<1>2. edits \in 0..MaxEdits
  BY MaxEditsAssumption DEF Init
<1>3. run \in RunRecords /\ editor \in EditRecords
  BY Empty DEF Init
<1> QED
  BY <1>1, <1>2, <1>3, TypedRecords DEF Init

\* Changes in Immich and the handlers.
LEMMA HandlersTyped ==
    ASSUME TypeOK,
           \/ \E a \in Assets, l \in Locs : ImmichSets(a, l) \/ ResolveStack(a, l)
           \/ \E a \in Assets : ImmichRemoves(a)
           \/ ImmichUnstacks \/ PatchImmich \/ UpdateLocal \/ UpdateFails
           \/ \E S \in SUBSET Assets, h \in BOOLEAN : SetHidden(S, h)
    PROVE  TypeOK'
<1>0. /\ immich \in Pages /\ local \in Tables /\ run \in RunRecords /\ editor \in EditRecords
      /\ edits \in 0..MaxEdits /\ dirty \subseteq Assets /\ excused \subseteq Assets
  BY TypedRecords
<1>a. edits < MaxEdits => edits + 1 \in 0..MaxEdits
  BY <1>0, MaxEditsAssumption
<1>b. editor.ids \subseteq Assets /\ editor.loc \in Locs
  BY <1>0 DEF EditRecords
<1>1. ASSUME NEW a \in Assets, NEW l \in Locs, ImmichSets(a, l) PROVE TypeOK'
  <2>1. run' \in RunRecords /\ immich' \in Pages
    BY <1>0, <1>1, Touching DEF ImmichSets, Pages
  <2> QED
    BY <1>0, <1>a, <1>1, <2>1 DEF ImmichSets, TypeOK, RunRecords
<1>2. ASSUME NEW a \in Assets, NEW l \in Locs, ResolveStack(a, l) PROVE TypeOK'
  <2>1. editor' \in EditRecords
    BY <1>2 DEF ResolveStack, EditRecords
  <2> QED
    BY <1>0, <1>a, <1>2, <2>1 DEF ResolveStack, TypeOK, EditRecords
<1>3. ASSUME NEW a \in Assets, ImmichRemoves(a) PROVE TypeOK'
  <2>1. run' \in RunRecords /\ immich' \in Pages
    BY <1>0, <1>3, Touching DEF ImmichRemoves, Pages
  <2> QED
    BY <1>0, <1>a, <1>3, <2>1 DEF ImmichRemoves, TypeOK, RunRecords
<1>4. CASE ImmichUnstacks
  BY <1>0, <1>a, <1>4 DEF ImmichUnstacks, TypeOK
<1>5. CASE PatchImmich
  <2>1. Patched \subseteq Assets
    BY <1>b DEF Patched
  <2>2. run' \in RunRecords /\ immich' \in Pages
    BY <1>0, <1>b, <1>5, <2>1, Touching DEF PatchImmich, Pages
  <2>3. editor' \in EditRecords
    BY <1>0, <1>5, Empty DEF PatchImmich, EditRecords
  <2> QED
    BY <1>0, <1>5, <2>1, <2>2, <2>3 DEF PatchImmich, TypeOK, RunRecords, EditRecords
<1>6. CASE UpdateLocal
  <2>1. run' \in RunRecords /\ editor' \in EditRecords
    BY <1>0, <1>b, <1>6, Touching, Empty DEF UpdateLocal
  <2>2. local' \in Tables
    <3>1. ASSUME NEW a \in Assets, Stored(a) PROVE [local[a] EXCEPT !.loc = editor.loc] \in Rows
      BY <1>0, <1>b, <3>1 DEF Tables, Stored, Rows
    <3> QED
      BY <1>0, <1>6, <3>1 DEF UpdateLocal, Tables
  <2> QED
    BY <1>0, <1>b, <1>6, <2>1, <2>2 DEF UpdateLocal, TypeOK, RunRecords, EditRecords, Tables
<1>7. CASE UpdateFails
  BY <1>0, <1>b, <1>7, Empty DEF UpdateFails, TypeOK, EditRecords
<1>8. ASSUME NEW S \in SUBSET Assets, NEW h \in BOOLEAN, SetHidden(S, h) PROVE TypeOK'
  <2>1. local' \in Tables
    <3>1. ASSUME NEW a \in Assets, Stored(a) PROVE [local[a] EXCEPT !.hidden = h] \in Rows
      BY <1>0, <3>1 DEF Tables, Stored, Rows
    <3> QED
      BY <1>0, <1>8, <3>1 DEF SetHidden, Tables
  <2> QED
    BY <1>8, <2>1 DEF SetHidden, TypeOK, Tables
<1> QED
  BY <1>1, <1>2, <1>3, <1>4, <1>5, <1>6, <1>7, <1>8

RunStep ==
    \/ \E full \in BOOLEAN : StartSync(full)
    \/ Search \/ Upsert \/ FetchFails \/ DeleteAssets \/ DeleteFails
    \/ Stamp \/ StampFails \/ SyncStacks \/ StacksFail

LEMMA RunTyped ==
    ASSUME TypeOK, RunStep
    PROVE  TypeOK'
<1>0. /\ immich \in Pages /\ local \in Tables /\ run \in RunRecords /\ editor \in EditRecords
      /\ dirty \subseteq Assets /\ excused \subseteq Assets /\ synced \in BOOLEAN
      /\ stack \subseteq Assets
  BY TypedRecords
<1>a. AfterFetch \in {"delete", "stamp"} /\ run.touched \subseteq Assets
  BY <1>0 DEF AfterFetch, RunRecords
<1>1. ASSUME NEW full \in BOOLEAN, StartSync(full) PROVE TypeOK'
  <2>1. run' \in RunRecords
    BY <1>0, <1>1, Empty DEF StartSync, RunRecords
  <2> QED
    BY <1>1, <2>1 DEF StartSync, TypeOK, RunRecords
<1>2. CASE Search
  <2>1. \A p : OnPage(p) \subseteq Assets
    BY DEF OnPage, Matching
  <2>2. [a \in Assets |-> IF a \in OnPage(run.page) THEN immich[a] ELSE Absent] \in Pages
    BY <1>0 DEF Pages
  <2>3. (Cardinality(Matching) > run.page * PageSize) \in BOOLEAN
    OBVIOUS
  <2>4. run' \in RunRecords
    BY <1>0, <1>a, <1>2, <2>1, <2>2, <2>3 DEF Search, RunRecords
  <2> QED
    BY <1>2, <2>4 DEF Search, TypeOK, RunRecords
<1>3. CASE Upsert
  <2>1. run' \in RunRecords
    <3>1. run.page + 1 \in Nat \ {0}
      BY <1>0 DEF RunRecords
    <3> QED
      BY <1>0, <1>a, <1>3, <3>1, Empty DEF Upsert, RunRecords
  <2>2. local' \in Tables
    <3>1. ASSUME NEW a \in Assets PROVE Upserted(a) \in Rows \union {Absent}
      <4>1. run.buffer[a] \in Locs \union {Absent} /\ local[a] \in Rows \union {Absent}
        BY <1>0 DEF RunRecords, Pages, Tables
      <4>2. (Stored(a) /\ local[a].hidden) \in BOOLEAN
        OBVIOUS
      <4> QED
        BY <4>1, <4>2 DEF Upserted, Rows
    <3> QED
      BY <1>3, <3>1 DEF Upsert, Tables
  <2> QED
    BY <1>3, <2>1, <2>2 DEF Upsert, TypeOK, RunRecords, Tables
<1>4. CASE FetchFails
  BY <1>0, <1>a, <1>4, Empty DEF FetchFails, TypeOK, RunRecords
<1>5. CASE DeleteAssets \/ DeleteFails
  <2>1. run' \in RunRecords /\ local' \in Tables
    BY <1>0, <1>5 DEF DeleteAssets, DeleteFails, RunRecords, Tables
  <2> QED
    BY <1>5, <2>1 DEF DeleteAssets, DeleteFails, TypeOK, RunRecords, Tables
<1>6. CASE Stamp
  <2>1. run' \in RunRecords /\ editor' \in EditRecords
    BY <1>0, <1>6, Empty DEF Stamp, RunRecords, EditRecords
  <2> QED
    BY <1>0, <1>a, <1>6, <2>1 DEF Stamp, Excuse, TypeOK, RunRecords, EditRecords
<1>7. CASE StampFails
  <2>1. run' \in RunRecords
    BY <1>0, <1>7, Empty DEF StampFails, RunRecords
  <2> QED
    BY <1>0, <1>a, <1>7, <2>1 DEF StampFails, TypeOK, RunRecords
<1>8. CASE SyncStacks
  <2>1. local' \in Tables
    <3>1. ASSUME NEW a \in Assets PROVE Stacked(a) \in Rows \union {Absent}
      <4>1. local[a] \in Rows \union {Absent} /\ (a \in stack) \in BOOLEAN
        BY <1>0 DEF Tables
      <4> QED
        BY <4>1 DEF Stacked, Stored, Rows
    <3> QED
      BY <1>8, <3>1 DEF SyncStacks, Tables
  <2> QED
    BY <1>0, <1>8, <2>1, Empty DEF SyncStacks, TypeOK, RunRecords, Tables
<1>9. CASE StacksFail
  BY <1>9, Empty DEF StacksFail, TypeOK, RunRecords
<1> QED
  BY <1>1, <1>2, <1>3, <1>4, <1>5, <1>6, <1>7, <1>8, <1>9 DEF RunStep

LEMMA TypeStep == TypeOK /\ [Next]_vars => TypeOK'
<1>1. TypeOK /\ UNCHANGED vars => TypeOK'
  BY DEF vars, TypeOK
<1> QED
  BY <1>1, HandlersTyped, RunTyped DEF Next, RunStep

------------------------------------------------------------------------------
(* The invariant                                                           *)

LEMMA Initially == Init => IInv
<1> SUFFICES ASSUME Init PROVE IInv
  OBVIOUS
<1>1. /\ run = NoRun /\ ~Fetching /\ editor = NoEdit /\ synced = FALSE
      /\ run.touched = {} /\ run.seen = {} /\ run.phase = "idle" /\ editor.ids = {}
      /\ \A a \in Assets : run.buffer[a] = Absent
  BY DEF Init, NoRun, NoEdit, EmptyPage, Fetching
<1> QED
  BY <1>1, TypeInit DEF IInv, RunPlaced, PageInHand, Paged, SeenCurrent, SaveIsDirty, Arrives

LEMMA MatchingFinite == Matching \in SUBSET Nat /\ IsFiniteSet(Matching)
BY AssetsAssumption, FS_Subset DEF Matching

LEMMA RankIs == ASSUME NEW a \in Matching PROVE Rank(a) = Cardinality(UpTo(Matching, a))
BY DEF Rank, UpTo

\* What happens beside a run leaves its parts of the invariant alone, if the run is told of
\* every asset whose place in Immich, in the table or in the search it takes away.
LEMMA BesideRun ==
    ASSUME IInv, TypeOK', NEW S \in SUBSET Assets, UNCHANGED synced,
           /\ run'.phase = run.phase /\ run'.full = run.full /\ run'.page = run.page
           /\ run'.buffer = run.buffer /\ run'.more = run.more /\ run'.seen = run.seen
           /\ run'.touched = (IF Fetching THEN run.touched \union S ELSE run.touched),
           \A a \in Assets \ S : immich'[a] = immich[a] /\ (a \in dirty' => a \in dirty)
                                 /\ (Current(a) => Current(a)'),
           S = Assets \/ Matching \subseteq Matching'
    PROVE  RunPlaced' /\ PageInHand' /\ Paged' /\ SeenCurrent'
<1>0. /\ run \in RunRecords /\ RunPlaced /\ PageInHand /\ Paged /\ SeenCurrent
      /\ Fetching' = Fetching /\ Matching' \subseteq Assets /\ Matching \subseteq Assets
      /\ run.seen \subseteq Assets
  BY TypedRecords DEF IInv, Fetching, Matching, RunRecords
<1>1. RunPlaced'
  BY <1>0 DEF RunPlaced
<1>2. PageInHand'
  <2> SUFFICES ASSUME NEW a \in Assets, run'.buffer[a] # Absent
               PROVE  /\ run'.phase = "upsert" /\ a \in run'.seen
                      /\ a \notin run'.touched => run'.buffer[a] = immich'[a]
    BY DEF PageInHand
  <2>1. run.phase = "upsert" /\ a \in run.seen /\ (a \notin run.touched => run.buffer[a] = immich[a])
    BY <1>0 DEF PageInHand
  <2> QED
    BY <1>0, <2>1 DEF Fetching
<1>3. Paged'
  <2> SUFFICES ASSUME NEW a \in Matching' \ run'.touched, Fetching
               PROVE  \/ a \in run.seen
                      \/ run.phase = "search" /\ Rank(a)' > (run.page - 1) * PageSize
                      \/ run.phase = "upsert" /\ run.more /\ Rank(a)' > run.page * PageSize
    BY <1>0 DEF Paged
  <2>1. a \in Assets \ S /\ a \notin run.touched /\ Matching \subseteq Matching'
    BY <1>0
  <2>2. a \in Matching
    BY <2>1 DEF Matching
  <2>3. Rank(a) \in Nat /\ Rank(a)' \in Nat /\ Rank(a) <= Rank(a)'
    <3>1. IsFiniteSet(Matching') /\ Rank(a)' = Cardinality(UpTo(Matching', a))
      BY MatchingFinite, AssetsAssumption, FS_Subset, <1>0 DEF Rank, UpTo
    <3> QED
      BY <2>1, <2>2, <3>1, RankIs, RankGrows
  <2>4. run.page \in Nat /\ PageSize \in Nat
    BY <1>0, PageSizeAssumption DEF RunRecords
  <2>5. (run.page - 1) * PageSize \in Int /\ run.page * PageSize \in Int
    BY <2>4
  <2> QED
    BY <1>0, <2>1, <2>2, <2>3, <2>5 DEF Paged
<1>4. SeenCurrent'
  <2> SUFFICES ASSUME NEW a \in run.seen \ run'.touched, Fetching, immich'[a] # Absent
               PROVE  run.buffer[a] # Absent \/ Current(a)'
    BY <1>0 DEF SeenCurrent
  <2> QED
    BY <1>0 DEF SeenCurrent
<1> QED
  BY <1>1, <1>2, <1>3, <1>4

\* What Immich's own users change.
LEMMA ImmichPreserves ==
    ASSUME IInv, TypeOK',
           \/ \E a \in Assets, l \in Locs : ImmichSets(a, l)
           \/ \E a \in Assets : ImmichRemoves(a)
           \/ ImmichUnstacks
    PROVE  IInv'
<1>0. /\ run \in RunRecords /\ editor \in EditRecords /\ immich \in Pages /\ SaveIsDirty /\ Arrives
      /\ editor.ids \subseteq Assets
  BY TypedRecords DEF IInv, EditRecords
<1>1. ASSUME NEW a \in Assets, NEW l \in Locs, ImmichSets(a, l) PROVE IInv'
  <2>1. /\ UNCHANGED <<synced, local, editor, excused>> /\ dirty' = dirty \union {a}
        /\ immich' = [immich EXCEPT ![a] = l]
    BY <1>1 DEF ImmichSets
  <2>2. \A b \in Assets : /\ immich'[b] = IF b = a THEN l ELSE immich[b]
                          /\ immich[b] # Absent => immich'[b] # Absent
    BY <1>0, <2>1, LocsAssumption DEF Pages
  <2>3. /\ run'.phase = run.phase /\ run'.full = run.full /\ run'.page = run.page
        /\ run'.buffer = run.buffer /\ run'.more = run.more /\ run'.seen = run.seen
        /\ run'.touched = IF Fetching THEN run.touched \union {a} ELSE run.touched
    BY <1>0, <1>1, Touching DEF ImmichSets
  <2>4. Matching \subseteq Matching'
    BY <2>1, <2>2, <2>3 DEF Matching
  <2>5. RunPlaced' /\ PageInHand' /\ Paged' /\ SeenCurrent'
    <3>1. \A b \in Assets \ {a} : /\ immich'[b] = immich[b] /\ (b \in dirty' => b \in dirty)
                                  /\ (Current(b) => Current(b)')
      BY <2>1, <2>2 DEF Current, Stored
    <3>2. {a} \in SUBSET Assets
      OBVIOUS
    <3> QED
      BY <2>1, <2>3, <2>4, <3>1, <3>2, BesideRun
  <2>6. SaveIsDirty'
    BY <1>0, <2>1, <2>2 DEF SaveIsDirty
  <2>7. Arrives'
    BY <1>0, <2>1, <2>2, <2>3 DEF Arrives, BeingSaved, Current, Stored
  <2> QED
    BY <2>5, <2>6, <2>7 DEF IInv
<1>2. ASSUME NEW a \in Assets, ImmichRemoves(a) PROVE IInv'
  <2>1. /\ UNCHANGED <<synced, local, editor, excused>> /\ dirty' = dirty \ {a}
        /\ immich' = [immich EXCEPT ![a] = Absent]
    BY <1>2 DEF ImmichRemoves
  <2>2. \A b \in Assets : immich'[b] = IF b = a THEN Absent ELSE immich[b]
    BY <1>0, <2>1 DEF Pages
  <2>3. /\ run'.phase = run.phase /\ run'.full = run.full /\ run'.page = run.page
        /\ run'.buffer = run.buffer /\ run'.more = run.more /\ run'.seen = run.seen
        /\ run'.touched = IF Fetching THEN run.touched \union Assets ELSE run.touched
    BY <1>0, <1>2, Touching DEF ImmichRemoves
  <2>4. RunPlaced' /\ PageInHand' /\ Paged' /\ SeenCurrent'
    BY <2>1, <2>3, BesideRun
  <2>5. SaveIsDirty'
    BY <1>0, <2>1, <2>2 DEF SaveIsDirty
  <2>6. Arrives'
    BY <1>0, <2>1, <2>2, <2>3 DEF Arrives, BeingSaved, Current, Stored
  <2> QED
    BY <2>4, <2>5, <2>6 DEF IInv
<1>3. CASE ImmichUnstacks
  <2>1. UNCHANGED <<immich, dirty, synced, local, run, editor, excused>>
    BY <1>3 DEF ImmichUnstacks
  <2> QED
    BY <2>1 DEF IInv, RunPlaced, PageInHand, Paged, SeenCurrent, SaveIsDirty, Arrives,
       Matching, Rank, Fetching, Current, Stored, BeingSaved
<1> QED
  BY <1>1, <1>2, <1>3

\* The handlers of this program.
LEMMA HandlersPreserve ==
    ASSUME IInv, TypeOK',
           \/ \E a \in Assets, l \in Locs : ResolveStack(a, l)
           \/ PatchImmich \/ UpdateLocal \/ UpdateFails
           \/ \E S \in SUBSET Assets, h \in BOOLEAN : SetHidden(S, h)
    PROVE  IInv'
<1>0. /\ run \in RunRecords /\ editor \in EditRecords /\ immich \in Pages /\ local \in Tables
      /\ SaveIsDirty /\ Arrives /\ editor.ids \subseteq Assets /\ editor.loc \in Locs
  BY TypedRecords DEF IInv, EditRecords
<1>1. ASSUME NEW a \in Assets, NEW l \in Locs, ResolveStack(a, l) PROVE IInv'
  <2>1. /\ UNCHANGED <<immich, dirty, synced, local, run, excused>>
        /\ editor.pc = "idle" /\ editor'.pc = "patch"
    BY <1>1 DEF ResolveStack
  <2>2. RunPlaced' /\ PageInHand' /\ Paged' /\ SeenCurrent'
    BY <2>1 DEF IInv, RunPlaced, PageInHand, Paged, SeenCurrent, Matching, Rank, Fetching,
       Current, Stored
  <2>3. SaveIsDirty' /\ Arrives'
    BY <1>0, <2>1 DEF SaveIsDirty, Arrives, BeingSaved, Current, Stored
  <2> QED
    BY <2>2, <2>3 DEF IInv
<1>2. CASE PatchImmich
  <2>1. /\ UNCHANGED <<synced, local, excused>> /\ dirty' = dirty \union Patched
        /\ editor.pc = "patch" /\ Patched \subseteq Assets
    BY <1>0, <1>2 DEF PatchImmich, Patched
  <2>2. \A b \in Assets : /\ immich'[b] = IF b \in Patched THEN editor.loc ELSE immich[b]
                          /\ immich'[b] # Absent <=> immich[b] # Absent
    BY <1>0, <1>2, LocsAssumption DEF PatchImmich, Patched, Pages
  <2>3. /\ run'.phase = run.phase /\ run'.full = run.full /\ run'.page = run.page
        /\ run'.buffer = run.buffer /\ run'.more = run.more /\ run'.seen = run.seen
        /\ run'.touched = IF Fetching THEN run.touched \union Patched ELSE run.touched
    BY <1>0, <1>2, <2>1, Touching DEF PatchImmich
  <2>4. RunPlaced' /\ PageInHand' /\ Paged' /\ SeenCurrent'
    <3>1. \A b \in Assets \ Patched : /\ immich'[b] = immich[b] /\ (b \in dirty' => b \in dirty)
                                      /\ (Current(b) => Current(b)')
      BY <2>1, <2>2 DEF Current, Stored
    <3>2. Matching \subseteq Matching'
      BY <2>1, <2>2, <2>3 DEF Matching
    <3> QED
      BY <2>1, <2>3, <3>1, <3>2, BesideRun
  <2>5. editor'.ids \subseteq editor.ids
    BY <1>0, <1>2 DEF PatchImmich, NoEdit, EditRecords
  <2>6. SaveIsDirty'
    BY <1>0, <2>1, <2>2, <2>5 DEF SaveIsDirty, Patched
  <2>7. Arrives'
    BY <1>0, <2>1, <2>2, <2>3 DEF Arrives, BeingSaved, Current, Stored
  <2> QED
    BY <2>4, <2>6, <2>7 DEF IInv
<1>3. CASE UpdateLocal
  <2>1. /\ UNCHANGED <<immich, dirty, synced>> /\ editor' = NoEdit /\ editor.pc = "local"
        /\ excused' = IF editor.overtaken THEN excused \union editor.ids ELSE excused
    BY <1>3 DEF UpdateLocal
  <2>2. \A b \in Assets \ editor.ids : local'[b] = local[b]
    BY <1>3 DEF UpdateLocal
  <2>3. /\ run'.phase = run.phase /\ run'.full = run.full /\ run'.page = run.page
        /\ run'.buffer = run.buffer /\ run'.more = run.more /\ run'.seen = run.seen
        /\ run'.touched = IF Fetching THEN run.touched \union editor.ids ELSE run.touched
    BY <1>0, <1>3, Touching DEF UpdateLocal
  <2>4. RunPlaced' /\ PageInHand' /\ Paged' /\ SeenCurrent'
    <3>1. \A b \in Assets \ editor.ids : Current(b) => Current(b)'
      BY <2>1, <2>2 DEF Current, Stored
    <3>2. Matching \subseteq Matching'
      BY <2>1, <2>3 DEF Matching
    <3> QED
      BY <1>0, <2>1, <2>3, <3>1, <3>2, BesideRun
  <2>5. SaveIsDirty'
    BY <2>1 DEF SaveIsDirty, NoEdit
  <2>6. Arrives'
    BY <1>0, <2>1, <2>2, <2>3 DEF Arrives, SaveIsDirty, BeingSaved, Current, Stored
  <2> QED
    BY <2>4, <2>5, <2>6 DEF IInv
<1>4. CASE UpdateFails
  <2>1. /\ UNCHANGED <<immich, dirty, synced, local, run>> /\ editor' = NoEdit
        /\ excused' = IF editor.overtaken THEN excused \union editor.ids ELSE excused
    BY <1>4 DEF UpdateFails
  <2>2. RunPlaced' /\ PageInHand' /\ Paged' /\ SeenCurrent'
    BY <2>1 DEF IInv, RunPlaced, PageInHand, Paged, SeenCurrent, Matching, Rank, Fetching,
       Current, Stored
  <2>3. SaveIsDirty'
    BY <2>1 DEF SaveIsDirty, NoEdit
  <2>4. Arrives'
    BY <1>0, <2>1 DEF Arrives, SaveIsDirty, BeingSaved, Current, Stored
  <2> QED
    BY <2>2, <2>3, <2>4 DEF IInv
<1>5. ASSUME NEW S \in SUBSET Assets, NEW h \in BOOLEAN, SetHidden(S, h) PROVE IInv'
  <2>1. UNCHANGED <<immich, dirty, synced, run, editor, excused>>
    BY <1>5 DEF SetHidden
  <2>2. \A b \in Assets : Current(b) => Current(b)'
    <3>1. ASSUME NEW b \in Assets, Stored(b)
          PROVE  /\ [local[b] EXCEPT !.hidden = h].loc = local[b].loc
                 /\ [local[b] EXCEPT !.hidden = h] # Absent
      <4>1. local[b] \in Rows
        BY <1>0, <3>1 DEF Tables, Stored
      <4> QED
        BY <4>1, RowsAssumption DEF Rows
    <3> QED
      BY <1>5, <2>1, <3>1 DEF SetHidden, Current, Stored
  <2>3. RunPlaced' /\ PageInHand' /\ Paged' /\ SeenCurrent'
    <3>1. Matching \subseteq Matching'
      BY <2>1 DEF Matching
    <3>2. /\ run'.phase = run.phase /\ run'.full = run.full /\ run'.page = run.page
          /\ run'.buffer = run.buffer /\ run'.more = run.more /\ run'.seen = run.seen
          /\ run'.touched = IF Fetching THEN run.touched \union {} ELSE run.touched
      BY <2>1
    <3>3. /\ {} \in SUBSET Assets
          /\ \A b \in Assets \ {} : immich'[b] = immich[b] /\ (b \in dirty' => b \in dirty)
                                  /\ (Current(b) => Current(b)')
      BY <2>1, <2>2
    <3> QED
      BY <2>1, <3>1, <3>2, <3>3, BesideRun
  <2>4. SaveIsDirty'
    BY <1>0, <2>1 DEF SaveIsDirty
  <2>5. Arrives'
    BY <1>0, <2>1, <2>2 DEF Arrives, BeingSaved
  <2> QED
    BY <2>3, <2>4, <2>5 DEF IInv
<1> QED
  BY <1>1, <1>2, <1>3, <1>4, <1>5
------------------------------------------------------------------------------
(* The run                                                                 *)

\* A step that only moves the run on, its flags and what it was touched by as they were.
LEMMA MovesOn ==
    ASSUME IInv, UNCHANGED <<immich, dirty, synced, local, editor, excused>>, run'.touched = run.touched
    PROVE  SaveIsDirty' /\ Arrives'
BY DEF IInv, SaveIsDirty, Arrives, BeingSaved, Current, Stored

LEMMA StartPreserves ==
    ASSUME IInv, TypeOK', NEW full \in BOOLEAN, StartSync(full)
    PROVE  IInv'
<1>1. /\ UNCHANGED <<immich, dirty, synced, local, editor, excused>>
      /\ run.phase = "idle" /\ run'.phase = "search" /\ run'.full = (full \/ ~synced)
      /\ run'.page = 1 /\ run'.seen = {} /\ run'.touched = {}
      /\ \A a \in Assets : run'.buffer[a] = Absent
  BY DEF StartSync, NoRun, EmptyPage
<1>2. run.touched = {}
  BY <1>1 DEF IInv, RunPlaced, Fetching
<1>3. RunPlaced' /\ PageInHand' /\ SeenCurrent'
  BY <1>1 DEF IInv, RunPlaced, PageInHand, SeenCurrent, Fetching, TypeOK
<1>4. Paged'
  <2> SUFFICES ASSUME NEW a \in Matching' PROVE Rank(a)' > (run'.page - 1) * PageSize
    BY <1>1 DEF Paged
  <2>1. Rank(a)' = Cardinality(UpTo(Matching', a)) /\ IsFiniteSet(UpTo(Matching', a))
        /\ a \in UpTo(Matching', a)
    <3>1. Matching' \in SUBSET Assets /\ a \in Nat
      BY AssetsAssumption DEF Matching
    <3>2. UpTo(Matching', a) \in SUBSET Assets
      BY <3>1 DEF UpTo
    <3>3. a <= a
      BY <3>1
    <3> QED
      BY <3>1, <3>2, <3>3, AssetsAssumption, FS_Subset DEF Rank, UpTo
  <2>2. Rank(a)' \in Nat /\ Rank(a)' # 0
    BY <2>1, FS_EmptySet, FS_CardinalityType
  <2>3. (run'.page - 1) * PageSize = 0
    BY <1>1, PageSizeAssumption
  <2> QED
    BY <2>2, <2>3
<1>5. SaveIsDirty' /\ Arrives'
  BY <1>1, <1>2, MovesOn
<1> QED
  BY <1>3, <1>4, <1>5 DEF IInv

\* An empty page is beyond the last: nothing untouched that matches was left out.
LEMMA EmptyPageEnds ==
    ASSUME IInv, run.phase = "search", OnPage(run.page) = {}
    PROVE  \A a \in Matching \ run.touched : a \in run.seen
<1> DEFINE k == (run.page - 1) * PageSize
<1>0. run.page \in Nat \ {0} /\ PageSize \in Nat \ {0} /\ k \in Nat /\ run.page * PageSize = k + PageSize
  <2>1. run.page \in Nat \ {0} /\ PageSize \in Nat \ {0}
    BY TypedRecords, PageSizeAssumption DEF IInv, RunRecords
  <2> QED
    BY <2>1
<1> SUFFICES ASSUME NEW a \in Matching \ run.touched, a \notin run.seen PROVE FALSE
  OBVIOUS
<1>1. Rank(a) > k
  BY DEF IInv, Paged, Fetching
<1>2. PICK b \in Matching : Rank(b) = k + 1
  <2>1. Cardinality(UpTo(Matching, a)) > k
    BY <1>1, RankIs
  <2> HIDE DEF k
  <2>2. \E b \in Matching : Cardinality(UpTo(Matching, b)) = k + 1
    BY <1>0, <2>1, MatchingFinite, NextRank
  <2> QED
    BY <2>2, RankIs
<1>3. b \in OnPage(run.page)
  <2> HIDE DEF k
  <2>1. Rank(b) > k /\ Rank(b) <= run.page * PageSize
    BY <1>0, <1>2
  <2> QED
    BY <2>1 DEF OnPage, k
<1> QED
  BY <1>3

LEMMA SearchPreserves ==
    ASSUME IInv, TypeOK', Search
    PROVE  IInv'
<1> DEFINE items == OnPage(run.page)
<1>0. /\ run \in RunRecords /\ RunPlaced /\ PageInHand /\ Paged /\ SeenCurrent
      /\ items \subseteq Matching /\ Matching \subseteq Assets
  BY TypedRecords DEF IInv, OnPage, Matching
<1>1. /\ UNCHANGED <<immich, dirty, synced, local, editor, excused>> /\ run.phase = "search" /\ Fetching
  BY DEF Search, Fetching
<1>2. \A a \in Assets : run.buffer[a] = Absent
  BY <1>0, <1>1 DEF PageInHand
<1>3. CASE items = {}
  <2>1. /\ run'.phase = AfterFetch /\ run'.full = run.full /\ run'.touched = run.touched
        /\ run'.seen = run.seen /\ run'.buffer = run.buffer
    BY <1>0, <1>3 DEF Search, RunRecords, AfterFetch
  <2>2. RunPlaced' /\ PageInHand' /\ SeenCurrent'
    BY <1>0, <1>1, <1>2, <2>1 DEF RunPlaced, PageInHand, SeenCurrent, Fetching, AfterFetch, Current, Stored
  <2>3. Matching' = Matching
    BY <1>1, <2>1 DEF Matching
  <2>4. Paged'
    BY <1>1, <1>3, <2>1, <2>3, EmptyPageEnds DEF Paged
  <2> QED
    BY <1>1, <2>1, <2>2, <2>4, MovesOn DEF IInv
<1>4. CASE items # {}
  <2>1. /\ run'.phase = "upsert" /\ run'.full = run.full /\ run'.touched = run.touched
        /\ run'.seen = run.seen \union items /\ run'.page = run.page
        /\ run'.buffer = [a \in Assets |-> IF a \in items THEN immich[a] ELSE Absent]
        /\ run'.more = (Cardinality(Matching) > run.page * PageSize)
    BY <1>0, <1>4 DEF Search, RunRecords
  <2>2. RunPlaced' /\ PageInHand'
    BY <1>0, <1>1, <2>1 DEF RunPlaced, PageInHand, Fetching
  <2>3. SeenCurrent'
    BY <1>0, <1>1, <1>2, <2>1 DEF SeenCurrent, Fetching, Current, Stored, RunRecords
  <2>4. Matching' = Matching
    BY <1>1, <2>1 DEF Matching
  <2>5. Paged'
    <3> SUFFICES ASSUME NEW a \in Matching \ run.touched, a \notin run.seen, a \notin items
                 PROVE  run'.more /\ Rank(a) > run.page * PageSize
      BY <1>1, <2>1, <2>4 DEF Paged, Rank
    <3>1. Rank(a) > (run.page - 1) * PageSize
      BY <1>0, <1>1 DEF Paged
    <3>2. /\ Rank(a) \in Nat /\ Cardinality(Matching) \in Nat /\ Rank(a) <= Cardinality(Matching)
          /\ run.page * PageSize \in Int
      <4>1. run.page \in Nat /\ PageSize \in Nat
        BY <1>0, PageSizeAssumption DEF RunRecords
      <4>2. run.page * PageSize \in Int
        BY <4>1
      <4> QED
        BY <4>2, MatchingFinite, RankIs, RankGrows
    <3>3. ~(Rank(a) <= run.page * PageSize)
      BY <3>1 DEF OnPage
    <3>4. Rank(a) > run.page * PageSize /\ Cardinality(Matching) > run.page * PageSize
      BY <3>2, <3>3
    <3> QED
      BY <2>1, <3>4
  <2> QED
    BY <1>1, <2>1, <2>2, <2>3, <2>5, MovesOn DEF IInv
<1> QED
  BY <1>3, <1>4

LEMMA UpsertPreserves ==
    ASSUME IInv, TypeOK', Upsert
    PROVE  IInv'
<1>0. /\ run \in RunRecords /\ immich \in Pages /\ RunPlaced /\ PageInHand /\ Paged /\ SeenCurrent
      /\ SaveIsDirty /\ Arrives
  BY TypedRecords DEF IInv
<1>1. /\ UNCHANGED <<immich, dirty, synced, editor, excused>> /\ run.phase = "upsert" /\ Fetching
      /\ local' = [a \in Assets |-> Upserted(a)]
      /\ run'.full = run.full /\ run'.touched = run.touched /\ run'.seen = run.seen
      /\ run'.buffer = EmptyPage
      /\ run.more => run'.phase = "search" /\ run'.page = run.page + 1
      /\ ~run.more => run'.phase = AfterFetch
  BY <1>0 DEF Upsert, Fetching, RunRecords
<1>2. ASSUME NEW a \in Assets, a \notin run.touched, run.buffer[a] # Absent \/ Current(a)
      PROVE  Current(a)'
  <2>1. CASE run.buffer[a] = Absent
    BY <1>1, <1>2, <2>1 DEF Upserted, Current, Stored
  <2>2. CASE run.buffer[a] # Absent
    <3>1. Upserted(a).loc = immich[a] /\ Upserted(a) \in Rows
      <4>1. run.buffer[a] = immich[a] /\ run.buffer[a] \in Locs
        BY <1>0, <1>2, <2>2 DEF PageInHand, Pages
      <4>2. (Stored(a) /\ local[a].hidden) \in BOOLEAN
        OBVIOUS
      <4> QED
        BY <2>2, <4>1, <4>2 DEF Upserted, Rows
    <3> QED
      BY <1>1, <3>1, RowsAssumption DEF Current, Stored
  <2> QED
    BY <2>1, <2>2
<1>3. RunPlaced'
  BY <1>0, <1>1 DEF RunPlaced, Fetching, AfterFetch
<1>4. PageInHand'
  BY <1>1 DEF PageInHand, EmptyPage
<1>5. SeenCurrent'
  BY <1>0, <1>1, <1>2 DEF SeenCurrent, RunRecords
<1>6. Paged'
  <2> SUFFICES ASSUME NEW a \in Matching \ run.touched, a \notin run.seen
               PROVE  run'.phase = "search" /\ Rank(a) > (run'.page - 1) * PageSize
    BY <1>1 DEF Paged, Rank, Matching
  <2>1. run.more /\ Rank(a) > run.page * PageSize
    BY <1>0, <1>1 DEF Paged
  <2>2. run'.page - 1 = run.page
    BY <1>0, <1>1, <2>1 DEF RunRecords
  <2> QED
    BY <1>1, <2>1, <2>2
<1>7. SaveIsDirty'
  BY <1>0, <1>1 DEF SaveIsDirty
<1>8. Arrives'
  <2> SUFFICES ASSUME NEW a \in Assets \ (excused \union run.touched),
                      synced /\ immich[a] # Absent /\ a \notin dirty /\ ~BeingSaved(a)
               PROVE  Current(a)'
    BY <1>1 DEF Arrives, BeingSaved
  <2> QED
    BY <1>0, <1>2 DEF Arrives
<1> QED
  BY <1>3, <1>4, <1>5, <1>6, <1>7, <1>8 DEF IInv
\* Once the pages of a full run are fetched, what it did not see is gone or was touched.
LEMMA FullFetchSeesAll ==
    ASSUME IInv, run.phase \in {"delete", "stamp"}, run.full,
           NEW a \in Assets \ run.touched, immich[a] # Absent
    PROVE  a \in run.seen
BY DEF IInv, Paged, Matching, Fetching

\* A run that ends, or has nothing left but the stacks, asks nothing of the invariant.
LEMMA NotFetching ==
    ASSUME IInv, run' \in {NoRun, [NoRun EXCEPT !.phase = "stacks"]}
    PROVE  RunPlaced' /\ PageInHand' /\ Paged' /\ SeenCurrent'
<1>1. /\ run'.phase \in {"idle", "stacks"} /\ run'.touched = {} /\ ~(Fetching')
      /\ \A a \in Assets : run'.buffer[a] = Absent
  BY DEF NoRun, EmptyPage, Fetching
<1> QED
  BY <1>1 DEF RunPlaced, PageInHand, Paged, SeenCurrent

LEMMA DeletePreserves ==
    ASSUME IInv, TypeOK', DeleteAssets \/ DeleteFails
    PROVE  IInv'
<1>0. /\ run \in RunRecords /\ RunPlaced /\ PageInHand /\ Paged /\ SeenCurrent /\ SaveIsDirty /\ Arrives
      /\ run.seen \subseteq Assets
  BY TypedRecords DEF IInv, RunRecords
<1>1. /\ UNCHANGED <<immich, dirty, synced, editor, excused>> /\ run.phase = "delete" /\ Fetching
      /\ run'.phase = "stamp" /\ run'.full = run.full /\ run'.touched = run.touched
      /\ run'.seen = run.seen /\ run'.buffer = run.buffer /\ run.full
  BY <1>0 DEF DeleteAssets, DeleteFails, Fetching, RunRecords, RunPlaced
<1>2. \A a \in run.seen : Current(a) => Current(a)'
  BY <1>0, <1>1 DEF DeleteAssets, DeleteFails, Current, Stored
<1>3. \A a \in Assets : run.buffer[a] = Absent
  BY <1>0, <1>1 DEF PageInHand
<1>4. RunPlaced' /\ PageInHand' /\ SaveIsDirty'
  BY <1>0, <1>1, <1>3 DEF RunPlaced, PageInHand, SaveIsDirty, Fetching
<1>5. SeenCurrent'
  BY <1>0, <1>1, <1>2, <1>3 DEF SeenCurrent
<1>6. Paged'
  BY <1>0, <1>1 DEF Paged, Matching
<1>7. Arrives'
  <2> SUFFICES ASSUME NEW a \in Assets \ (excused \union run.touched),
                      synced /\ immich[a] # Absent /\ a \notin dirty /\ ~BeingSaved(a)
               PROVE  Current(a)'
    BY <1>1 DEF Arrives, BeingSaved
  <2>1. a \in run.seen /\ Current(a)
    BY <1>0, <1>1, FullFetchSeesAll DEF Arrives
  <2> QED
    BY <1>2, <2>1
<1> QED
  BY <1>4, <1>5, <1>6, <1>7 DEF IInv

\* A stamp makes the fetch the last word on everything it was not touched by: it has seen
\* it, or an earlier one had and nothing was dirty since.
LEMMA StampPreserves ==
    ASSUME IInv, TypeOK', Stamp
    PROVE  IInv'
<1>0. /\ editor \in EditRecords /\ RunPlaced /\ PageInHand /\ Paged /\ SeenCurrent /\ Arrives
  BY TypedRecords DEF IInv
<1>1. /\ UNCHANGED <<immich, local>> /\ run.phase = "stamp" /\ Fetching
      /\ run' = [NoRun EXCEPT !.phase = "stacks"] /\ run'.touched = {}
      /\ excused' = (excused \ run.seen) \union run.touched
  BY DEF Stamp, Fetching, NoRun, Excuse
<1>2. RunPlaced' /\ PageInHand' /\ Paged' /\ SeenCurrent'
  BY <1>1, NotFetching
<1>3. /\ editor'.pc = editor.pc /\ editor'.ids = editor.ids
      /\ editor.pc = "local" => editor'.overtaken
  BY <1>0 DEF Stamp, EditRecords
<1>4. SaveIsDirty'
  BY <1>3 DEF SaveIsDirty
<1>5. Arrives'
  <2> SUFFICES ASSUME NEW a \in Assets, a \notin run.touched, a \notin excused \/ a \in run.seen,
                      immich[a] # Absent, ~BeingSaved(a)
               PROVE  Current(a)
    BY <1>1, <1>3 DEF Arrives, BeingSaved, Current, Stored
  <2>1. CASE a \in run.seen
    BY <1>0, <1>1, <2>1 DEF SeenCurrent, PageInHand
  <2>2. CASE a \notin run.seen
    <3>1. a \notin Matching
      BY <1>0, <1>1, <2>2 DEF Paged
    <3>2. ~run.full /\ a \notin dirty
      BY <3>1 DEF Matching
    <3>3. synced
      BY <1>0, <1>1, <3>2 DEF RunPlaced
    <3> QED
      BY <1>0, <2>2, <3>2, <3>3 DEF Arrives
  <2> QED
    BY <2>1, <2>2
<1> QED
  BY <1>2, <1>4, <1>5 DEF IInv

\* What ends a run, or its fetch, without a stamp.
LEMMA EndPreserves ==
    ASSUME IInv, TypeOK', FetchFails \/ StampFails \/ SyncStacks \/ StacksFail
    PROVE  IInv'
<1>0. local \in Tables /\ SaveIsDirty /\ Arrives /\ RunPlaced
  BY TypedRecords DEF IInv
<1>1. /\ UNCHANGED <<immich, dirty, synced, editor>>
      /\ run' \in {NoRun, [NoRun EXCEPT !.phase = "stacks"]}
  BY DEF FetchFails, StampFails, SyncStacks, StacksFail
<1>2. RunPlaced' /\ PageInHand' /\ Paged' /\ SeenCurrent'
  BY <1>1, NotFetching
<1>3. SaveIsDirty'
  BY <1>0, <1>1 DEF SaveIsDirty
<1>4. excused \union run.touched \subseteq excused'
  BY <1>0 DEF FetchFails, StampFails, SyncStacks, StacksFail, RunPlaced, Fetching
<1>5. \A a \in Assets : Current(a) => Current(a)'
  <2>1. CASE SyncStacks
    <3> SUFFICES ASSUME NEW a \in Assets, Current(a) PROVE Current(a)'
      OBVIOUS
    <3>1. local[a] \in Rows
      BY <1>0 DEF Tables, Current, Stored
    <3>2. Stored(a) /\ local[a].loc = immich[a] /\ (a \in stack) \in BOOLEAN
      BY DEF Current
    <3>3. Stacked(a) = [local[a] EXCEPT !.stacked = a \in stack]
      BY <3>2 DEF Stacked
    <3>4. Stacked(a) \in Rows /\ Stacked(a).loc = local[a].loc
      BY <3>1, <3>2, <3>3 DEF Rows
    <3>5. local'[a] = Stacked(a) /\ immich' = immich
      BY <2>1 DEF SyncStacks
    <3> QED
      BY <3>2, <3>4, <3>5, RowsAssumption DEF Current, Stored
  <2>2. CASE UNCHANGED local
    BY <1>1, <2>2 DEF Current, Stored
  <2> QED
    BY <2>1, <2>2 DEF FetchFails, StampFails, StacksFail
<1>6. Arrives'
  BY <1>0, <1>1, <1>4, <1>5 DEF Arrives, BeingSaved
<1> QED
  BY <1>2, <1>3, <1>6 DEF IInv

LEMMA StepPreserves == IInv /\ [Next]_vars => IInv'
<1> SUFFICES ASSUME IInv, [Next]_vars PROVE IInv'
  OBVIOUS
<1>1. TypeOK'
  BY TypeStep DEF IInv
<1>2. CASE UNCHANGED vars
  <2>1. UNCHANGED <<immich, dirty, synced, local, run, editor, excused>>
    BY <1>2 DEF vars
  <2>2. Fetching' = Fetching /\ Matching' = Matching /\ \A a \in Assets : Rank(a)' = Rank(a)
    BY <2>1 DEF Fetching, Matching, Rank
  <2>3. RunPlaced' /\ PageInHand'
    BY <2>1, <2>2 DEF IInv, RunPlaced, PageInHand
  <2>4. Paged'
    <3> SUFFICES ASSUME NEW a \in Assets, (a \in Matching \ run.touched)', Fetching'
                 PROVE  (\/ a \in run.seen
                         \/ run.phase = "search" /\ Rank(a) > (run.page - 1) * PageSize
                         \/ run.phase = "upsert" /\ run.more /\ Rank(a) > run.page * PageSize)'
      BY DEF Paged, Matching
    <3>1. a \in Matching \ run.touched /\ Fetching /\ Rank(a)' = Rank(a) /\ run' = run
      BY <2>1, <2>2
    <3>2. \/ a \in run.seen
          \/ run.phase = "search" /\ Rank(a) > (run.page - 1) * PageSize
          \/ run.phase = "upsert" /\ run.more /\ Rank(a) > run.page * PageSize
      BY <3>1 DEF IInv, Paged
    <3> QED
      BY <3>1, <3>2
  <2>5. SeenCurrent' /\ SaveIsDirty' /\ Arrives'
    BY <2>1, <2>2 DEF IInv, SeenCurrent, SaveIsDirty, Arrives, Current, Stored, BeingSaved
  <2> QED
    BY <1>1, <2>3, <2>4, <2>5 DEF IInv
<1>3. CASE Next
  BY <1>1, <1>3, ImmichPreserves, HandlersPreserve, StartPreserves, SearchPreserves, UpsertPreserves,
     DeletePreserves, StampPreserves, EndPreserves DEF Next
<1> QED
  BY <1>2, <1>3

LEMMA Invariance == Spec => []IInv
BY Initially, StepPreserves, PTL DEF Spec

------------------------------------------------------------------------------
(* Theorems                                                                *)

\* Immich, the tables, the run and the save keep their types.
THEOREM TypeCorrect == Spec => []TypeOK
<1>1. IInv => TypeOK
  BY DEF IInv
<1> QED
  BY <1>1, Invariance, PTL

\* doUserFullSync, doUserIncrementalSync and resolveAndUpdateLocation: however pages, failures,
\* saves and changes in Immich fall, for any number of assets and any size of a page, the only
\* changes that incremental syncs ever miss were made while a run was fetching, or were overtaken
\* by a run between the two writes of a save.
THEOREM ArrivesHolds == Spec => []Arrives
<1>1. IInv => Arrives
  BY DEF IInv
<1> QED
  BY <1>1, Invariance, PTL

\* deleteAssetsNotIn deletes no row of an asset that Immich still has, unless Immich changed
\* under the fetch; and nothing but the handler of the hidden flag changes that flag.
THEOREM RowsSurviveHolds == Spec => RowsSurvive
<1> DEFINE Survives == \A a \in Assets : Stored(a) =>
         /\ local'[a] = Absent => immich[a] = Absent \/ a \in run.touched
         /\ local'[a] # Absent /\ local'[a].hidden # local[a].hidden => UNCHANGED <<run, editor>>
<1>1. IInv /\ [Next]_vars => [Survives]_vars
  <2> SUFFICES ASSUME IInv, Next, NEW a \in Assets, Stored(a)
               PROVE  /\ local'[a] = Absent => immich[a] = Absent \/ a \in run.touched
                      /\ local'[a] # Absent /\ local'[a].hidden # local[a].hidden =>
                           UNCHANGED <<run, editor>>
    OBVIOUS
  <2>0. local[a] \in Rows /\ run \in RunRecords /\ editor \in EditRecords
    BY TypedRecords DEF IInv, Tables, Stored
  <2>1. CASE UNCHANGED local
    BY <2>1 DEF Stored
  <2>2. CASE Upsert
    <3>0. run.buffer[a] \in Locs \union {Absent}
      BY <2>0 DEF RunRecords, Pages
    <3>1. \/ local'[a] = local[a]
          \/ /\ run.buffer[a] \in Locs
             /\ local'[a] = [loc |-> run.buffer[a], hidden |-> Stored(a) /\ local[a].hidden,
                             stacked |-> FALSE]
      BY <2>2, <3>0 DEF Upsert, Upserted
    <3>2. CASE local'[a] = local[a]
      BY <3>2 DEF Stored
    <3>3. CASE local'[a] # local[a]
      <4>1. local'[a].hidden = (Stored(a) /\ local[a].hidden) /\ local[a].hidden \in BOOLEAN
        BY <2>0, <3>1, <3>3 DEF Rows
      <4>2. local'[a].hidden = local[a].hidden
        BY <4>1
      <4> DEFINE h == Stored(a) /\ local[a].hidden
      <4>3. h \in BOOLEAN
        OBVIOUS
      <4>4. local'[a] = [loc |-> run.buffer[a], hidden |-> h, stacked |-> FALSE]
        BY <3>1, <3>3
      <4>5. local'[a] \in Rows
        <5> HIDE DEF h
        <5> QED
          BY <3>1, <3>3, <4>3, <4>4 DEF Rows
      <4> QED
        BY <4>2, <4>5, RowsAssumption
    <3> QED
      BY <3>2, <3>3
  <2>3. CASE DeleteAssets
    <3>1. run.phase = "delete" /\ run.full
      BY <2>3 DEF DeleteAssets, IInv, RunPlaced
    <3>2. a \in run.seen => local'[a] = local[a]
      BY <2>3 DEF DeleteAssets
    <3>3. a \notin run.seen => local'[a] = Absent /\ (immich[a] = Absent \/ a \in run.touched)
      BY <2>3, <3>1, FullFetchSeesAll DEF DeleteAssets
    <3> QED
      BY <3>2, <3>3 DEF Stored
  <2>4. CASE SyncStacks
    <3>1. local'[a] = [local[a] EXCEPT !.stacked = a \in stack] /\ (a \in stack) \in BOOLEAN
      BY <2>4 DEF SyncStacks, Stacked
    <3>2. local'[a] \in Rows /\ local'[a].hidden = local[a].hidden
      BY <2>0, <3>1 DEF Rows
    <3> QED
      BY <3>2, RowsAssumption
  <2>5. CASE UpdateLocal
    <3>1. editor.loc \in Locs /\ (local'[a] = local[a] \/ local'[a] = [local[a] EXCEPT !.loc = editor.loc])
      BY <2>0, <2>5 DEF UpdateLocal, EditRecords
    <3>2. local'[a] \in Rows /\ local'[a].hidden = local[a].hidden
      BY <2>0, <3>1 DEF Rows
    <3> QED
      BY <3>2, RowsAssumption
  <2>6. ASSUME NEW S \in SUBSET Assets, NEW h \in BOOLEAN, SetHidden(S, h)
        PROVE  local'[a] # Absent /\ UNCHANGED <<run, editor>>
    <3>1. local'[a] = local[a] \/ local'[a] = [local[a] EXCEPT !.hidden = h]
      BY <2>6 DEF SetHidden
    <3>2. local'[a] \in Rows
      BY <2>0, <3>1 DEF Rows
    <3> QED
      BY <2>6, <3>2, RowsAssumption DEF SetHidden
  <2> QED
    BY <2>1, <2>2, <2>3, <2>4, <2>5, <2>6 DEF Next, ImmichSets, ResolveStack, ImmichRemoves,
       ImmichUnstacks, StartSync, Search, FetchFails, DeleteFails, Stamp, StampFails, StacksFail,
       PatchImmich, UpdateFails
<1> QED
  BY <1>1, Invariance, PTL DEF Spec, RowsSurvive
------------------------------------------------------------------------------
(***************************************************************************)
(* The frequent locations.  NewestRowsLast speaks of users that are        *)
(* settled; the invariant says what is true on the way there: what the     *)
(* recomputation in hand has is the newest (InHand), and without one the   *)
(* rows, and whatever a pass may still write over them, are (AtRest).      *)
(***************************************************************************)
Labels == [Cells -> {"coords", "label", NoRow}]
Recomputations == [at : {"idle", "computed", "replaced"}, clusters : SUBSET Cells]
PassRecords == [user : Users, of : Nat, left : SUBSET Cells, found : Labels, checked : BOOLEAN]

\* The types, and what every pass is: of a generation that was taken, with a label of its
\* own for each cluster it still asks for.
FrequentTyped ==
    /\ photos \in [Users -> SUBSET Cells]
    /\ latest \in [Users -> SUBSET Cells]
    /\ rows \in [Users -> Labels]
    /\ call \in [Users -> [Callers -> Recomputations]]
    /\ gen \in Nat
    /\ passes \subseteq PassRecords
    /\ \A p \in passes : p.of <= gen /\ p.left \subseteq Clusters(p.found)

\* The only recomputation of u has the newest clusters, and the rows once it replaced them.
InHand(u) ==
    \A k \in Callers : call[u][k] # NoCall =>
        /\ call[u][k].clusters = latest[u]
        /\ \A j \in Callers \ {k} : call[u][j] = NoCall
        /\ call[u][k].at = "replaced" => Clusters(rows[u]) = latest[u]

\* Without a recomputation the rows have the newest clusters, and so has every pass that
\* was checked or would be let through.
AtRest(u) ==
    (\A k \in Callers : call[u][k] = NoCall) =>
        /\ Clusters(rows[u]) = latest[u]
        /\ \A p \in passes : p.user = u /\ (p.checked \/ p.of = gen) => Clusters(p.found) = latest[u]

NewestInv == FrequentTyped /\ \A u \in Users \ disturbed : InHand(u) /\ AtRest(u)

------------------------------------------------------------------------------
\* The rows of some clusters have these clusters, those of none have none.
LEMMA CoordsHaveClusters ==
    /\ NoRows \in Labels /\ Clusters(NoRows) = {}
    /\ \A s \in SUBSET Cells : WithCoords(s) \in Labels /\ Clusters(WithCoords(s)) = s
BY DEF NoRows, Labels, Clusters, WithCoords, NoRow

LEMMA NoCallType == NoCall \in Recomputations
BY DEF NoCall, Recomputations

\* The first state has nothing under way and no rows.
LEMMA NewestInitially == FrequentInit => NewestInv
<1> SUFFICES ASSUME FrequentInit PROVE NewestInv
  OBVIOUS
<1>1. FrequentTyped
  BY CoordsHaveClusters, NoCallType DEF FrequentInit, FrequentTyped
<1>2. \A u \in Users : InHand(u) /\ AtRest(u)
  BY CoordsHaveClusters DEF FrequentInit, InHand, AtRest
<1> QED
  BY <1>1, <1>2 DEF NewestInv

------------------------------------------------------------------------------
\* A recomputation, and what the others do to the rows, keep the types.
LEMMA CallTyped ==
    ASSUME FrequentTyped, NEW u \in Users, NEW k \in Callers, Recompute(u, k)
    PROVE  FrequentTyped'
<1> DEFINE c == call[u][k]
<1>0. /\ c \in Recomputations /\ c.clusters \subseteq Cells
      /\ \A d \in Recomputations : [call EXCEPT ![u][k] = d] \in [Users -> [Callers -> Recomputations]]
  BY DEF FrequentTyped, Recomputations
<1>1. CASE Compute(u, k)
  <2>1. [at |-> "computed", clusters |-> photos[u]] \in Recomputations
    BY DEF FrequentTyped, Recomputations
  <2>2. latest' \in [Users -> SUBSET Cells]
    BY <1>1 DEF Compute, FrequentTyped
  <2> QED
    BY <1>0, <1>1, <2>1, <2>2 DEF Compute, FrequentTyped
<1>2. CASE Replace(u, k)
  <2>1. [c EXCEPT !.at = "replaced"] \in Recomputations
    BY <1>0 DEF Recomputations
  <2>2. call' = [call EXCEPT ![u][k] = [c EXCEPT !.at = "replaced"]]
    BY <1>2 DEF Replace, FrequentTyped
  <2>3. call' \in [Users -> [Callers -> Recomputations]]
    BY <1>0, <2>1, <2>2
  <2>4. rows' \in [Users -> Labels]
    BY <1>0, <1>2, CoordsHaveClusters DEF Replace, FrequentTyped
  <2> QED
    BY <1>2, <2>3, <2>4 DEF Replace, FrequentTyped
<1>3. CASE ReplaceFails(u, k)
  BY <1>0, <1>3, NoCallType DEF ReplaceFails, FrequentTyped, tables
<1>4. CASE StartLabels(u, k)
  <2> DEFINE p == [user |-> u, of |-> gen + 1, left |-> c.clusters,
                   found |-> WithCoords(c.clusters), checked |-> FALSE]
  <2>1. p \in PassRecords /\ p.of = gen + 1 /\ p.left = c.clusters /\ p.found = WithCoords(c.clusters)
    BY <1>0, CoordsHaveClusters DEF PassRecords, FrequentTyped
  <2>2. p.left \subseteq Clusters(p.found)
    BY <1>0, <2>1, CoordsHaveClusters
  <2>3. passes' = passes \union {p} /\ gen' = gen + 1
    BY <1>4 DEF StartLabels
  <2>4. call' \in [Users -> [Callers -> Recomputations]]
    BY <1>0, <1>4, NoCallType DEF StartLabels
  <2> HIDE DEF p
  <2>5. \A q \in passes : q.of \in Nat
    BY DEF FrequentTyped, PassRecords
  <2>6. \A q \in passes' : q.of <= gen' /\ q.left \subseteq Clusters(q.found)
    BY <2>1, <2>2, <2>3, <2>5 DEF FrequentTyped
  <2> QED
    BY <1>4, <2>1, <2>3, <2>4, <2>6 DEF StartLabels, FrequentTyped, tables
<1> QED
  BY <1>1, <1>2, <1>3, <1>4 DEF Recompute

\* A recomputation of u leaves the rest of the users what they were.
LEMMA CallKeeps ==
    ASSUME NewestInv, NEW u \in Users, NEW k \in Callers, Recompute(u, k),
           NEW v \in Users \ {u}, v \notin disturbed'
    PROVE  InHand(v)' /\ AtRest(v)'
<1>1. call'[v] = call[v] /\ rows'[v] = rows[v] /\ latest'[v] = latest[v] /\ v \notin disturbed
  BY DEF Recompute, Compute, Replace, ReplaceFails, StartLabels, tables, NewestInv, FrequentTyped
<1>2. \A p \in passes' : p.user = v => p \in passes
  BY DEF Recompute, Compute, Replace, ReplaceFails, StartLabels
<1>3. \A p \in passes : p.of = gen' => p.of = gen
  <2>1. gen' = gen \/ gen' = gen + 1
    BY DEF Recompute, Compute, Replace, ReplaceFails, StartLabels
  <2>2. \A p \in passes : p.of <= gen /\ p.of \in Nat /\ gen \in Nat
    BY DEF NewestInv, FrequentTyped, PassRecords
  <2> QED
    BY <2>1, <2>2
<1>4. InHand(v)'
  BY <1>1 DEF NewestInv, InHand
<1>5. AtRest(v)'
  BY <1>1, <1>2, <1>3 DEF NewestInv, AtRest
<1> QED
  BY <1>4, <1>5

\* The steps of a recomputation keep the invariant of its own user.
LEMMA CallOwn ==
    ASSUME NewestInv, NEW u \in Users, NEW k \in Callers, Recompute(u, k), u \notin disturbed'
    PROVE  InHand(u)' /\ AtRest(u)'
<1> DEFINE c == call[u][k]
<1>0. FrequentTyped /\ call \in [Users -> [Callers -> Recomputations]] /\ c.clusters \subseteq Cells
  BY DEF NewestInv, FrequentTyped, Recomputations
<1>1. CASE Compute(u, k)
  <2>1. /\ call'[u][k] = [at |-> "computed", clusters |-> photos[u]]
        /\ \A j \in Callers \ {k} : call'[u][j] = call[u][j]
        /\ latest'[u] = photos[u]
    BY <1>0, <1>1 DEF Compute, FrequentTyped
  <2>2. \A j \in Callers \ {k} : call[u][j] = NoCall
    BY <1>1 DEF Compute, Settled
  <2>3. call'[u][k] # NoCall /\ call'[u][k].at # "replaced" /\ call'[u][k].clusters = latest'[u]
    BY <2>1 DEF NoCall
  <2> QED
    BY <2>1, <2>2, <2>3 DEF InHand, AtRest
<1>2. CASE Replace(u, k)
  <2>1. u \notin disturbed /\ c # NoCall
    BY <1>2 DEF Replace, NoCall
  <2>2. c.clusters = latest[u] /\ \A j \in Callers \ {k} : call[u][j] = NoCall
    BY <2>1 DEF NewestInv, InHand
  <2>3. /\ call'[u][k].clusters = c.clusters /\ call'[u][k].at = "replaced"
        /\ \A j \in Callers \ {k} : call'[u][j] = call[u][j]
    BY <1>0, <1>2 DEF Replace, Recomputations
  <2>4. Clusters(rows'[u]) = c.clusters /\ latest'[u] = latest[u]
    BY <1>0, <1>2, CoordsHaveClusters DEF Replace, FrequentTyped
  <2>5. call'[u][k] # NoCall
    BY <2>3 DEF NoCall
  <2>6. InHand(u)'
    BY <2>2, <2>3, <2>4 DEF InHand
  <2>7. AtRest(u)'
    BY <2>5 DEF AtRest
  <2> QED
    BY <2>6, <2>7
<1>3. CASE ReplaceFails(u, k)
  BY <1>3 DEF ReplaceFails
<1>4. CASE StartLabels(u, k)
  <2> DEFINE p == [user |-> u, of |-> gen + 1, left |-> c.clusters,
                   found |-> WithCoords(c.clusters), checked |-> FALSE]
  <2>1. u \notin disturbed /\ c # NoCall /\ c.at = "replaced"
    BY <1>4 DEF StartLabels, NoCall
  <2>2. /\ c.clusters = latest[u] /\ Clusters(rows[u]) = latest[u]
        /\ \A j \in Callers \ {k} : call[u][j] = NoCall
    BY <2>1 DEF NewestInv, InHand
  <2>3. /\ \A j \in Callers : call'[u][j] = NoCall
        /\ rows' = rows /\ latest' = latest /\ gen' = gen + 1 /\ passes' = passes \union {p}
    BY <1>0, <1>4, <2>2 DEF StartLabels, tables
  <2>4. Clusters(p.found) = latest[u]
    BY <1>0, <2>2, CoordsHaveClusters
  <2>5. \A q \in passes : q.user = u => ~q.checked /\ q.of # gen'
    <3>1. \A q \in passes : q.user = u => ~q.checked
      BY <1>4 DEF StartLabels, PassesOf
    <3>2. \A q \in passes : q.of <= gen /\ q.of \in Nat /\ gen \in Nat
      BY <1>0 DEF FrequentTyped, PassRecords
    <3> QED
      BY <2>3, <3>1, <3>2
  <2>6. InHand(u)'
    BY <2>3 DEF InHand
  <2> HIDE DEF p
  <2>7. AtRest(u)'
    BY <2>2, <2>3, <2>4, <2>5 DEF AtRest
  <2> QED
    BY <2>6, <2>7
<1> QED
  BY <1>1, <1>2, <1>3, <1>4 DEF Recompute

------------------------------------------------------------------------------
\* A change of the photos, a wipe.
LEMMA ChangeInductive ==
    ASSUME NewestInv, NEW u \in Users, PhotosChange(u) \/ Wipe(u)
    PROVE  NewestInv'
<1>0. FrequentTyped
  BY DEF NewestInv
<1>1. CASE PhotosChange(u)
  <2>1. FrequentTyped'
    BY <1>0, <1>1 DEF PhotosChange, FrequentTyped
  <2>2. \A v \in Users \ disturbed : InHand(v)' /\ AtRest(v)'
    BY <1>1 DEF NewestInv, InHand, AtRest, PhotosChange
  <2> QED
    BY <1>1, <2>1, <2>2 DEF NewestInv, PhotosChange
<1>2. CASE Wipe(u)
  <2>1. FrequentTyped'
    BY <1>0, <1>2, CoordsHaveClusters DEF Wipe, FrequentTyped
  <2>2. ASSUME NEW v \in Users \ disturbed' PROVE InHand(v)' /\ AtRest(v)'
    <3>1. CASE v = u
      <4>1. Settled(u)
        BY <1>2, <3>1, <2>2 DEF Wipe
      <4>2. /\ \A k \in Callers : call'[u][k] = NoCall
            /\ \A p \in passes' : p.user # u
        BY <1>2, <4>1 DEF Wipe, Settled, PassesOf
      <4>3. Clusters(rows'[u]) = latest'[u]
        BY <1>0, <1>2, CoordsHaveClusters DEF Wipe, FrequentTyped
      <4> QED
        BY <3>1, <4>2, <4>3 DEF InHand, AtRest
    <3>2. CASE v # u
      <4>1. v \notin disturbed /\ rows'[v] = rows[v] /\ latest'[v] = latest[v]
        BY <1>0, <1>2, <2>2, <3>2 DEF Wipe, FrequentTyped
      <4>2. UNCHANGED <<call, gen, passes>>
        BY <1>2 DEF Wipe
      <4> QED
        BY <4>1, <4>2 DEF NewestInv, InHand, AtRest
    <3> QED
      BY <3>1, <3>2
  <2> QED
    BY <2>1, <2>2 DEF NewestInv
<1> QED
  BY <1>1, <1>2

\* What a pass does: its labels do not change its clusters, its check lets only the
\* newest generation through, and what it writes then is what the rows should be.
LEMMA PassInductive ==
    ASSUME NewestInv, NEW p \in passes, Pass(p)
    PROVE  NewestInv'
<1>0. FrequentTyped /\ p \in PassRecords
  BY DEF NewestInv, FrequentTyped
<1>1. ASSUME NEW c \in p.left, Geocode(p, c) PROVE NewestInv'
  <2>1. PICK l \in {"label", p.found[c]} :
             passes' = (passes \ {p}) \union {[p EXCEPT !.left = @ \ {c}, !.found[c] = l]}
    BY <1>1 DEF Geocode
  <2> DEFINE q == [p EXCEPT !.left = @ \ {c}, !.found[c] = l]
  <2>2. /\ q \in PassRecords /\ q.user = p.user /\ q.of = p.of /\ q.checked = p.checked
        /\ q.left = p.left \ {c} /\ q.found = [p.found EXCEPT ![c] = l]
    BY <1>0, <2>1 DEF PassRecords, Labels
  <2>3. p.found \in Labels /\ p.left \subseteq Clusters(p.found)
    BY <1>0 DEF PassRecords, FrequentTyped
  <2>4. Clusters(q.found) = Clusters(p.found)
    BY <2>1, <2>2, <2>3 DEF Clusters, Labels, NoRow
  <2>5. passes' = (passes \ {p}) \union {q} /\ UNCHANGED <<photos, rows, latest, call, gen, disturbed>>
    BY <1>1, <2>1 DEF Geocode, tables
  <2> HIDE DEF q
  <2>6. FrequentTyped'
    BY <1>0, <2>2, <2>3, <2>4, <2>5 DEF FrequentTyped
  <2>7. \A u \in Users \ disturbed : InHand(u)' /\ AtRest(u)'
    BY <2>2, <2>4, <2>5 DEF NewestInv, InHand, AtRest
  <2> QED
    BY <2>5, <2>6, <2>7 DEF NewestInv
<1>2. CASE CheckGeneration(p)
  <2> DEFINE q == [p EXCEPT !.checked = TRUE]
  <2>1. q \in PassRecords /\ q.user = p.user /\ q.of = p.of /\ q.left = p.left /\ q.found = p.found
    BY <1>0 DEF PassRecords
  <2>2. UNCHANGED <<photos, rows, latest, call, gen, disturbed>>
    BY <1>2 DEF CheckGeneration, tables
  <2>3. \A r \in passes' : r \in passes \/ (r = q /\ p.of = gen)
    BY <1>2 DEF CheckGeneration
  <2> HIDE DEF q
  <2>4. FrequentTyped'
    BY <1>0, <2>1, <2>2, <2>3 DEF FrequentTyped
  <2>5. \A u \in Users \ disturbed : InHand(u)' /\ AtRest(u)'
    BY <2>1, <2>2, <2>3 DEF NewestInv, InHand, AtRest
  <2> QED
    BY <2>2, <2>4, <2>5 DEF NewestInv
<1>3. CASE WriteLabels(p)
  <2>1. /\ rows' = [rows EXCEPT ![p.user] = p.found] /\ passes' = passes \ {p} /\ p.checked
        /\ UNCHANGED <<photos, call, gen, latest>>
    BY <1>3 DEF WriteLabels
  <2>2. p.user \in Users /\ p.found \in Labels
    BY <1>0 DEF PassRecords
  <2>3. FrequentTyped'
    BY <1>0, <2>1, <2>2 DEF FrequentTyped
  <2>4. ASSUME NEW u \in Users \ disturbed' PROVE InHand(u)' /\ AtRest(u)'
    <3>1. u \notin disturbed
      BY <1>3, <2>4 DEF WriteLabels
    <3>2. CASE u # p.user
      <4>1. rows'[u] = rows[u]
        BY <1>0, <2>1, <3>2 DEF FrequentTyped
      <4> QED
        BY <2>1, <3>1, <4>1 DEF NewestInv, InHand, AtRest
    <3>3. CASE u = p.user
      <4>1. \A k \in Callers : call[u][k].at # "replaced"
        BY <1>3, <2>4, <3>3 DEF WriteLabels
      <4>2. rows'[u] = p.found
        BY <1>0, <2>1, <2>2, <3>3 DEF FrequentTyped
      <4>3. InHand(u)'
        BY <2>1, <3>1, <4>1 DEF NewestInv, InHand
      <4>4. AtRest(u)'
        BY <2>1, <3>1, <3>3, <4>2 DEF NewestInv, AtRest
      <4> QED
        BY <4>3, <4>4
    <3> QED
      BY <3>2, <3>3
  <2> QED
    BY <2>3, <2>4 DEF NewestInv
<1>4. CASE WriteFails(p)
  <2>1. passes' = passes \ {p} /\ UNCHANGED <<photos, rows, latest, call, gen, disturbed>>
    BY <1>4 DEF WriteFails, tables
  <2>2. FrequentTyped'
    BY <1>0, <2>1 DEF FrequentTyped
  <2>3. \A u \in Users \ disturbed : InHand(u)' /\ AtRest(u)'
    BY <2>1 DEF NewestInv, InHand, AtRest
  <2> QED
    BY <2>1, <2>2, <2>3 DEF NewestInv
<1> QED
  BY <1>1, <1>2, <1>3, <1>4 DEF Pass

\* Every step keeps the invariant.
LEMMA NewestInductive == NewestInv /\ [FrequentNext]_frequentVars => NewestInv'
<1> SUFFICES ASSUME NewestInv, [FrequentNext]_frequentVars PROVE NewestInv'
  OBVIOUS
<1>1. ASSUME NEW u \in Users, NEW k \in Callers, Recompute(u, k) PROVE NewestInv'
  <2>1. FrequentTyped'
    BY <1>1, CallTyped DEF NewestInv
  <2>2. ASSUME NEW v \in Users \ disturbed' PROVE InHand(v)' /\ AtRest(v)'
    BY <1>1, <2>2, CallKeeps, CallOwn
  <2> QED
    BY <2>1, <2>2 DEF NewestInv
<1>2. CASE Shutdown
  <2>1. UNCHANGED <<photos, rows, latest, call, gen, passes, disturbed>>
    BY <1>2 DEF Shutdown, tables
  <2> QED
    BY <2>1 DEF NewestInv, FrequentTyped, InHand, AtRest
<1>3. CASE UNCHANGED frequentVars
  BY <1>3 DEF frequentVars, NewestInv, FrequentTyped, InHand, AtRest
<1> QED
  BY <1>1, <1>2, <1>3, ChangeInductive, PassInductive DEF FrequentNext

\* Once nothing of a user is under way and nothing undid them, the rows are those of the
\* newest recomputation, for any number of users, clusters and generations
\* (recomputeFrequentLocations, enrichFrequentLocationLabels).
THEOREM NewestRowsHold == FrequentSpec => []NewestRowsLast
<1>1. NewestInv => NewestRowsLast
  BY DEF NewestInv, AtRest, NewestRowsLast, Settled
<1> QED
  BY <1>1, NewestInitially, NewestInductive, PTL DEF FrequentSpec
=============================================================================
