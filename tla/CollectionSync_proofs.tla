------------------------ MODULE CollectionSync_proofs ------------------------
(***************************************************************************)
(* Proofs about CollectionSync for every set of collections and every      *)
(* number of changes and failures.                                         *)
(*                                                                         *)
(* SkippedIsCurrent is not inductive by itself.  What carries it is an     *)
(* order of versions: the stored updatedAt is not newer than the listed    *)
(* one, the listed one not newer than the assets in hand, and those not    *)
(* newer than Immich; a torn list of assets is in hand only when the       *)
(* listed version is already out of date.                                  *)
(***************************************************************************)
EXTENDS CollectionSync, TLAPS

\* Before the listing there is no list and no work, and work is on listed collections.
WorkPlaced ==
    /\ run.phase \in {"idle", "list"} => run.list = {}
    /\ \A c \in Collections :
          /\ run.phase \in {"idle", "list", "map"} => work[c].state = "none"
          /\ work[c].state # "none" => c \in run.list

\* The stored updatedAt is not newer than the listed one, nor is that newer than Immich.
StampsOrdered ==
    \A c \in Collections :
        /\ Stored(c) => stamp[c] <= version[c]
        /\ run.seen[c] <= version[c]
        /\ (run.phase \notin {"idle", "list"} /\ c \in run.list /\ Stored(c))
              => stamp[c] <= run.seen[c]
        /\ (run.phase = "upsert" /\ work[c].state = "none")
              => run.stored[c] = IF Stored(c) THEN stamp[c] ELSE 0

\* Assets in hand are at least as new as the listing, or torn by a change after it.
InHand ==
    \A c \in Collections :
        /\ work[c].state = "paging"
              => run.seen[c] <= work[c].before /\ work[c].before <= version[c]
        /\ work[c].state \in {"fetched", "replaced"}
              => \/ work[c].got = Torn /\ run.seen[c] < version[c]
                 \/ /\ work[c].got \in Nat
                    /\ run.seen[c] <= work[c].got /\ work[c].got <= version[c]
        /\ work[c].state = "replaced" => assets[c] = work[c].got

SkipInv == TypeOK /\ WorkPlaced /\ StampsOrdered /\ InHand /\ SkippedIsCurrent

\* A run's list is what Immich lists, up to what changed since the run began.
ListCurrent ==
    run.phase \in {"map", "upsert", "fetch", "delete"} =>
        \A c \in Collections \ run.relisted : c \in run.list <=> c \in listed

\* The step of DeletesOnlyWhatIsGone.
DeleteAction ==
    \A c \in Collections : Stored(c) /\ ~Stored(c)' => c \notin listed \/ c \in run.relisted

\* What is done is stamped, a failure is known to the run, and after the fetches
\* nothing that was listed is left to do.
Accounted ==
    \A c \in Collections :
        /\ work[c].state = "done" => stamp[c] = run.seen[c]
        /\ work[c].state = "failed" => run.failed
        /\ (run.phase \in {"delete", "report"} /\ ~run.failed /\ c \in run.list)
              => work[c].state \in {"done", "failed", "skipped"}

\* The step of NoErrorMeansSynced.
EndAction ==
    (run.phase = "report" /\ run'.phase = "idle" /\ ~run.failed)
       => \A c \in run.list : stamp[c] = run.seen[c] \/ work[c].state = "skipped"

\* No run and no work in progress are values of their types.
LEMMA IdleTypes == NoRun \in Runs /\ NoWork \in Works /\ NoWorks \in [Collections -> Works]
<1>1. NoRun \in Runs
  <2>1. [c \in Collections |-> 0] \in [Collections -> Nat]
    OBVIOUS
  <2> QED
    BY <2>1 DEF NoRun, Runs, Phases
<1>2. NoWork \in Works
  BY DEF NoWork, Works, WorkStates
<1>3. NoWorks \in [Collections -> Works]
  BY <1>2 DEF NoWorks
<1> QED
  BY <1>1, <1>2, <1>3

\* Before the first sync there are no rows, and nothing is in hand.
LEMMA InitSkipInv == Init => SkipInv
<1> SUFFICES ASSUME Init PROVE SkipInv
  OBVIOUS
<1> USE AbsentAssumption, TornAssumption DEF Init, NoRun, NoWorks, NoWork, Stored
<1>1. TypeOK
  <2>1. run \in Runs /\ work \in [Collections -> Works]
    BY IdleTypes DEF Init
  <2>2. version \in [Collections -> Nat \ {0}] /\ stamp \in [Collections -> Nat \union {Absent}]
    BY DEF Init
  <2>3. assets \in [Collections -> Nat \union {Torn}] /\ listed \subseteq Collections
    BY DEF Init
  <2> QED
    BY <2>1, <2>2, <2>3 DEF Init, TypeOK
<1>2. WorkPlaced
  BY DEF WorkPlaced
<1>3. StampsOrdered
  <2> SUFFICES ASSUME NEW c \in Collections
               PROVE  ~Stored(c) /\ run.seen[c] <= version[c] /\ run.phase = "idle"
    BY DEF StampsOrdered
  <2>1. run.seen = [d \in Collections |-> 0] /\ run.phase = "idle"
    BY DEF Init, NoRun
  <2> QED
    BY <2>1 DEF Init, Stored
<1>4. InHand
  BY DEF InHand
<1>5. SkippedIsCurrent
  BY DEF SkippedIsCurrent
<1> QED
  BY <1>1, <1>2, <1>3, <1>4, <1>5 DEF SkipInv

\* Every variable keeps its type through every step of Immich and of the run.
LEMMA StepTypeOK == TypeOK /\ [Next]_vars => TypeOK'
<1> SUFFICES ASSUME TypeOK, [Next]_vars PROVE TypeOK'
  OBVIOUS
<1> USE AbsentAssumption, TornAssumption, IdleTypes DEF TypeOK, Stored, Failure
<1>1. ASSUME NEW c \in Collections, ImmichChanges(c) PROVE TypeOK'
  BY <1>1 DEF ImmichChanges
<1>2. ASSUME NEW c \in Collections, ImmichLists(c) PROVE TypeOK'
  <2>1. run' \in Runs
    BY <1>2 DEF ImmichLists, Runs, Phases
  <2> QED
    BY <1>2, <2>1 DEF ImmichLists
<1>3. ASSUME NEW full \in BOOLEAN, StartSync(full) PROVE TypeOK'
  <2>1. run' \in Runs
    BY <1>3 DEF StartSync, Runs, Phases, NoRun
  <2> QED
    BY <1>3, <2>1 DEF StartSync
<1>4. CASE List
  <2>1. run' \in Runs
    BY <1>4 DEF List, Runs, Phases
  <2> QED
    BY <1>4, <2>1 DEF List
<1>5. CASE ReadMap
  <2>1. run' \in Runs
    BY <1>5 DEF ReadMap, Runs, Phases
  <2> QED
    BY <1>5, <2>1 DEF ReadMap
<1>6. CASE UpsertsDone
  <2>1. run' \in Runs
    BY <1>6 DEF UpsertsDone, Runs, Phases
  <2> QED
    BY <1>6, <2>1 DEF UpsertsDone
<1>7. CASE FetchesDone
  <2>1. run' \in Runs
    BY <1>7 DEF FetchesDone, Runs, Phases
  <2> QED
    BY <1>7, <2>1 DEF FetchesDone
<1>8. CASE DeleteRows
  <2>1. run' \in Runs
    BY <1>8 DEF DeleteRows, Runs, Phases
  <2>2. stamp' \in [Collections -> Nat \union {Absent}]
    BY <1>8 DEF DeleteRows
  <2>3. assets' \in [Collections -> Nat \union {Torn}]
    BY <1>8 DEF DeleteRows
  <2> QED
    BY <1>8, <2>1, <2>2, <2>3 DEF DeleteRows
<1>9. CASE Report
  <2>1. failures' \in Nat /\ error' \in BOOLEAN
    BY <1>9 DEF Report, Runs
  <2> QED
    BY <1>9, <2>1 DEF Report
<1>10. ASSUME NEW c \in Collections, Upsert(c) PROVE TypeOK'
  <2>1. work' \in [Collections -> Works]
    BY <1>10 DEF Upsert, RowStamp, Wanted, Works, WorkStates, NoWork
  <2>2. stamp' \in [Collections -> Nat \union {Absent}]
    BY <1>10 DEF Upsert, RowStamp, Runs
  <2> QED
    BY <1>10, <2>1, <2>2 DEF Upsert, RowStamp, Wanted
<1>11. ASSUME NEW c \in Collections, FetchBegins(c) PROVE TypeOK'
  <2>1. work' \in [Collections -> Works]
    BY <1>11 DEF FetchBegins, Works, WorkStates, NoWork
  <2> QED
    BY <1>11, <2>1 DEF FetchBegins
<1>12. ASSUME NEW c \in Collections, FetchEnds(c) PROVE TypeOK'
  <2>1. work' \in [Collections -> Works]
    BY <1>12 DEF FetchEnds, Works, WorkStates, NoWork
  <2> QED
    BY <1>12, <2>1 DEF FetchEnds
<1>13. ASSUME NEW c \in Collections, Replace(c) PROVE TypeOK'
  <2>1. work' \in [Collections -> Works]
    BY <1>13 DEF Replace, StoringNext, Works, WorkStates, NoWork
  <2>2. assets' \in [Collections -> Nat \union {Torn}]
    BY <1>13 DEF Replace, Works
  <2> QED
    BY <1>13, <2>1, <2>2 DEF Replace, StoringNext
<1>14. ASSUME NEW c \in Collections, SetSynced(c) PROVE TypeOK'
  <2>1. work' \in [Collections -> Works]
    BY <1>14 DEF SetSynced, NewStamp, Works, WorkStates, NoWork
  <2>2. stamp' \in [Collections -> Nat \union {Absent}]
    BY <1>14 DEF SetSynced, NewStamp, Runs
  <2> QED
    BY <1>14, <2>1, <2>2 DEF SetSynced, NewStamp
<1>15. CASE ListFails
  <2>1. run' \in Runs
    BY <1>15 DEF ListFails, Runs, Phases
  <2> QED
    BY <1>15, <2>1 DEF ListFails
<1>16. CASE DeleteFails
  <2>1. run' \in Runs
    BY <1>16 DEF DeleteFails, Runs, Phases
  <2> QED
    BY <1>16, <2>1 DEF DeleteFails
<1>17. CASE RunIsLost
  BY <1>17 DEF RunIsLost
<1>18. ASSUME NEW c \in Collections, UpsertFails(c) PROVE TypeOK'
  <2>1. work' \in [Collections -> Works]
    BY <1>18 DEF UpsertFails, Works, WorkStates, NoWork
  <2> QED
    BY <1>18, <2>1 DEF UpsertFails
<1>19. ASSUME NEW c \in Collections, FetchFails(c) PROVE TypeOK'
  <2>1. run' \in Runs
    BY <1>19 DEF FetchFails, Runs, Phases
  <2>2. work' \in [Collections -> Works]
    BY <1>19 DEF FetchFails, Works, WorkStates, NoWork
  <2> QED
    BY <1>19, <2>1, <2>2 DEF FetchFails
<1>20. ASSUME NEW c \in Collections, ReplaceFails(c) PROVE TypeOK'
  <2>1. run' \in Runs
    BY <1>20 DEF ReplaceFails, StoringNext, Runs, Phases
  <2>2. work' \in [Collections -> Works]
    BY <1>20 DEF ReplaceFails, StoringNext, Works, WorkStates, NoWork
  <2> QED
    BY <1>20, <2>1, <2>2 DEF ReplaceFails, StoringNext
<1>21. ASSUME NEW c \in Collections, SetSyncedFails(c) PROVE TypeOK'
  <2>1. run' \in Runs
    BY <1>21 DEF SetSyncedFails, Runs, Phases
  <2>2. work' \in [Collections -> Works]
    BY <1>21 DEF SetSyncedFails, Works, WorkStates, NoWork
  <2> QED
    BY <1>21, <2>1, <2>2 DEF SetSyncedFails
<1>22. CASE UNCHANGED vars
  BY <1>22 DEF vars
<1> QED
  BY <1>1, <1>2, <1>3, <1>4, <1>5, <1>6, <1>7, <1>8, <1>9, <1>10, <1>11, <1>12, <1>13, <1>14, <1>15, <1>16, <1>17, <1>18, <1>19, <1>20, <1>21, <1>22
     DEF Next, RunStep, RunFails

\* Work is only done on listed collections, and is put away when a run ends.
LEMMA StepWorkPlaced == TypeOK /\ WorkPlaced /\ [Next]_vars => WorkPlaced'
<1> SUFFICES ASSUME TypeOK, WorkPlaced, [Next]_vars PROVE WorkPlaced'
  OBVIOUS
<1> USE AbsentAssumption, TornAssumption DEF TypeOK, WorkPlaced, Runs, Phases, Works
<1>1. ASSUME NEW c \in Collections, ImmichChanges(c) PROVE WorkPlaced'
  BY <1>1 DEF ImmichChanges
<1>2. ASSUME NEW c \in Collections, ImmichLists(c) PROVE WorkPlaced'
  BY <1>2 DEF ImmichLists
<1>3. ASSUME NEW full \in BOOLEAN, StartSync(full) PROVE WorkPlaced'
  BY <1>3 DEF StartSync, NoRun
<1>4. CASE List
  BY <1>4 DEF List
<1>5. CASE ReadMap
  BY <1>5 DEF ReadMap
<1>6. CASE UpsertsDone
  BY <1>6 DEF UpsertsDone
<1>7. CASE FetchesDone
  BY <1>7 DEF FetchesDone
<1>8. CASE DeleteRows
  BY <1>8 DEF DeleteRows
<1>9. CASE Report
  BY <1>9 DEF Report, NoRun, NoWorks, NoWork
<1>10. ASSUME NEW c \in Collections, Upsert(c) PROVE WorkPlaced'
  BY <1>10 DEF Upsert, RowStamp, Wanted
<1>11. ASSUME NEW c \in Collections, FetchBegins(c) PROVE WorkPlaced'
  BY <1>11 DEF FetchBegins
<1>12. ASSUME NEW c \in Collections, FetchEnds(c) PROVE WorkPlaced'
  BY <1>12 DEF FetchEnds
<1>13. ASSUME NEW c \in Collections, Replace(c) PROVE WorkPlaced'
  BY <1>13 DEF Replace, StoringNext
<1>14. ASSUME NEW c \in Collections, SetSynced(c) PROVE WorkPlaced'
  BY <1>14 DEF SetSynced, NewStamp, NoWork
<1>15. CASE ListFails
  BY <1>15 DEF ListFails
<1>16. CASE DeleteFails
  BY <1>16 DEF DeleteFails
<1>17. CASE RunIsLost
  BY <1>17 DEF RunIsLost, NoRun, NoWorks, NoWork
<1>18. ASSUME NEW c \in Collections, UpsertFails(c) PROVE WorkPlaced'
  BY <1>18 DEF UpsertFails
<1>19. ASSUME NEW c \in Collections, FetchFails(c) PROVE WorkPlaced'
  BY <1>19 DEF FetchFails, NoWork
<1>20. ASSUME NEW c \in Collections, ReplaceFails(c) PROVE WorkPlaced'
  BY <1>20 DEF ReplaceFails, StoringNext, NoWork
<1>21. ASSUME NEW c \in Collections, SetSyncedFails(c) PROVE WorkPlaced'
  BY <1>21 DEF SetSyncedFails, NoWork
<1>22. CASE UNCHANGED vars
  BY <1>22 DEF vars, Stored
<1> QED
  BY <1>1, <1>2, <1>3, <1>4, <1>5, <1>6, <1>7, <1>8, <1>9, <1>10, <1>11, <1>12, <1>13,
     <1>14, <1>15, <1>16, <1>17, <1>18, <1>19, <1>20, <1>21, <1>22
     DEF Next, RunStep, RunFails

\* Versions only grow, and a row is given none that is newer than the listing.
LEMMA StepStampsOrdered == TypeOK /\ WorkPlaced /\ StampsOrdered /\ [Next]_vars => StampsOrdered'
<1> SUFFICES ASSUME TypeOK, WorkPlaced, StampsOrdered, [Next]_vars PROVE StampsOrdered'
  OBVIOUS
<1> USE AbsentAssumption, TornAssumption DEF TypeOK, WorkPlaced, StampsOrdered, Stored, Runs, Phases, Works
<1>1. ASSUME NEW c \in Collections, ImmichChanges(c) PROVE StampsOrdered'
  BY <1>1 DEF ImmichChanges
<1>2. ASSUME NEW c \in Collections, ImmichLists(c) PROVE StampsOrdered'
  BY <1>2 DEF ImmichLists
<1>3. ASSUME NEW full \in BOOLEAN, StartSync(full) PROVE StampsOrdered'
  BY <1>3 DEF StartSync, NoRun
<1>4. CASE List
  BY <1>4 DEF List
<1>5. CASE ReadMap
  BY <1>5 DEF ReadMap
<1>6. CASE UpsertsDone
  BY <1>6 DEF UpsertsDone
<1>7. CASE FetchesDone
  BY <1>7 DEF FetchesDone
<1>8. CASE DeleteRows
  BY <1>8 DEF DeleteRows
<1>9. CASE Report
  BY <1>9 DEF Report, NoRun, NoWorks, NoWork
<1>10. ASSUME NEW c \in Collections, Upsert(c) PROVE StampsOrdered'
  BY <1>10 DEF Upsert, RowStamp, Wanted
<1>11. ASSUME NEW c \in Collections, FetchBegins(c) PROVE StampsOrdered'
  BY <1>11 DEF FetchBegins
<1>12. ASSUME NEW c \in Collections, FetchEnds(c) PROVE StampsOrdered'
  BY <1>12 DEF FetchEnds
<1>13. ASSUME NEW c \in Collections, Replace(c) PROVE StampsOrdered'
  BY <1>13 DEF Replace, StoringNext
<1>14. ASSUME NEW c \in Collections, SetSynced(c) PROVE StampsOrdered'
  BY <1>14 DEF SetSynced, NewStamp, NoWork
<1>15. CASE ListFails
  BY <1>15 DEF ListFails
<1>16. CASE DeleteFails
  BY <1>16 DEF DeleteFails
<1>17. CASE RunIsLost
  BY <1>17 DEF RunIsLost, NoRun, NoWorks, NoWork
<1>18. ASSUME NEW c \in Collections, UpsertFails(c) PROVE StampsOrdered'
  BY <1>18 DEF UpsertFails
<1>19. ASSUME NEW c \in Collections, FetchFails(c) PROVE StampsOrdered'
  BY <1>19 DEF FetchFails, NoWork
<1>20. ASSUME NEW c \in Collections, ReplaceFails(c) PROVE StampsOrdered'
  BY <1>20 DEF ReplaceFails, StoringNext, NoWork
<1>21. ASSUME NEW c \in Collections, SetSyncedFails(c) PROVE StampsOrdered'
  BY <1>21 DEF SetSyncedFails, NoWork
<1>22. CASE UNCHANGED vars
  BY <1>22 DEF vars, Stored
<1> QED
  BY <1>1, <1>2, <1>3, <1>4, <1>5, <1>6, <1>7, <1>8, <1>9, <1>10, <1>11, <1>12, <1>13,
     <1>14, <1>15, <1>16, <1>17, <1>18, <1>19, <1>20, <1>21, <1>22
     DEF Next, RunStep, RunFails

\* Pages are read after the listing, and a change between two of them tears the list.
LEMMA StepInHand == TypeOK /\ WorkPlaced /\ StampsOrdered /\ InHand /\ [Next]_vars => InHand'
<1> SUFFICES ASSUME TypeOK, WorkPlaced, StampsOrdered, InHand, [Next]_vars PROVE InHand'
  OBVIOUS
<1> USE AbsentAssumption, TornAssumption DEF TypeOK, WorkPlaced, StampsOrdered, InHand, Runs, Phases, Works
<1>1. ASSUME NEW c \in Collections, ImmichChanges(c) PROVE InHand'
  BY <1>1 DEF ImmichChanges
<1>2. ASSUME NEW c \in Collections, ImmichLists(c) PROVE InHand'
  BY <1>2 DEF ImmichLists
<1>3. ASSUME NEW full \in BOOLEAN, StartSync(full) PROVE InHand'
  BY <1>3 DEF StartSync, NoRun
<1>4. CASE List
  BY <1>4 DEF List
<1>5. CASE ReadMap
  BY <1>5 DEF ReadMap
<1>6. CASE UpsertsDone
  BY <1>6 DEF UpsertsDone
<1>7. CASE FetchesDone
  BY <1>7 DEF FetchesDone
<1>8. CASE DeleteRows
  BY <1>8 DEF DeleteRows
<1>9. CASE Report
  BY <1>9 DEF Report, NoRun, NoWorks, NoWork
<1>10. ASSUME NEW c \in Collections, Upsert(c) PROVE InHand'
  BY <1>10 DEF Upsert, RowStamp, Wanted
<1>11. ASSUME NEW c \in Collections, FetchBegins(c) PROVE InHand'
  BY <1>11 DEF FetchBegins
<1>12. ASSUME NEW c \in Collections, FetchEnds(c) PROVE InHand'
  BY <1>12 DEF FetchEnds
<1>13. ASSUME NEW c \in Collections, Replace(c) PROVE InHand'
  BY <1>13 DEF Replace, StoringNext
<1>14. ASSUME NEW c \in Collections, SetSynced(c) PROVE InHand'
  BY <1>14 DEF SetSynced, NewStamp, NoWork
<1>15. CASE ListFails
  BY <1>15 DEF ListFails
<1>16. CASE DeleteFails
  BY <1>16 DEF DeleteFails
<1>17. CASE RunIsLost
  BY <1>17 DEF RunIsLost, NoRun, NoWorks, NoWork
<1>18. ASSUME NEW c \in Collections, UpsertFails(c) PROVE InHand'
  BY <1>18 DEF UpsertFails
<1>19. ASSUME NEW c \in Collections, FetchFails(c) PROVE InHand'
  BY <1>19 DEF FetchFails, NoWork
<1>20. ASSUME NEW c \in Collections, ReplaceFails(c) PROVE InHand'
  BY <1>20 DEF ReplaceFails, StoringNext, NoWork
<1>21. ASSUME NEW c \in Collections, SetSyncedFails(c) PROVE InHand'
  BY <1>21 DEF SetSyncedFails, NoWork
<1>22. CASE UNCHANGED vars
  BY <1>22 DEF vars, Stored
<1> QED
  BY <1>1, <1>2, <1>3, <1>4, <1>5, <1>6, <1>7, <1>8, <1>9, <1>10, <1>11, <1>12, <1>13,
     <1>14, <1>15, <1>16, <1>17, <1>18, <1>19, <1>20, <1>21, <1>22
     DEF Next, RunStep, RunFails

\* Only storing assets, stamping a row and a change in Immich can disturb it.
LEMMA StepSkippedIsCurrent == TypeOK /\ WorkPlaced /\ StampsOrdered /\ InHand /\ SkippedIsCurrent /\ [Next]_vars => SkippedIsCurrent'
<1> SUFFICES ASSUME TypeOK, WorkPlaced, StampsOrdered, InHand, SkippedIsCurrent, [Next]_vars PROVE SkippedIsCurrent'
  OBVIOUS
<1> USE AbsentAssumption, TornAssumption DEF TypeOK, WorkPlaced, StampsOrdered, InHand, SkippedIsCurrent, Stored, Runs, Phases, Works
<1>1. ASSUME NEW c \in Collections, ImmichChanges(c) PROVE SkippedIsCurrent'
  BY <1>1 DEF ImmichChanges
<1>2. ASSUME NEW c \in Collections, ImmichLists(c) PROVE SkippedIsCurrent'
  BY <1>2 DEF ImmichLists
<1>3. ASSUME NEW full \in BOOLEAN, StartSync(full) PROVE SkippedIsCurrent'
  BY <1>3 DEF StartSync, NoRun
<1>4. CASE List
  BY <1>4 DEF List
<1>5. CASE ReadMap
  BY <1>5 DEF ReadMap
<1>6. CASE UpsertsDone
  BY <1>6 DEF UpsertsDone
<1>7. CASE FetchesDone
  BY <1>7 DEF FetchesDone
<1>8. CASE DeleteRows
  BY <1>8 DEF DeleteRows
<1>9. CASE Report
  BY <1>9 DEF Report, NoRun, NoWorks, NoWork
<1>10. ASSUME NEW c \in Collections, Upsert(c) PROVE SkippedIsCurrent'
  BY <1>10 DEF Upsert, RowStamp, Wanted
<1>11. ASSUME NEW c \in Collections, FetchBegins(c) PROVE SkippedIsCurrent'
  BY <1>11 DEF FetchBegins
<1>12. ASSUME NEW c \in Collections, FetchEnds(c) PROVE SkippedIsCurrent'
  BY <1>12 DEF FetchEnds
<1>13. ASSUME NEW c \in Collections, Replace(c) PROVE SkippedIsCurrent'
  BY <1>13 DEF Replace, StoringNext
<1>14. ASSUME NEW c \in Collections, SetSynced(c) PROVE SkippedIsCurrent'
  BY <1>14 DEF SetSynced, NewStamp, NoWork
<1>15. CASE ListFails
  BY <1>15 DEF ListFails
<1>16. CASE DeleteFails
  BY <1>16 DEF DeleteFails
<1>17. CASE RunIsLost
  BY <1>17 DEF RunIsLost, NoRun, NoWorks, NoWork
<1>18. ASSUME NEW c \in Collections, UpsertFails(c) PROVE SkippedIsCurrent'
  BY <1>18 DEF UpsertFails
<1>19. ASSUME NEW c \in Collections, FetchFails(c) PROVE SkippedIsCurrent'
  BY <1>19 DEF FetchFails, NoWork
<1>20. ASSUME NEW c \in Collections, ReplaceFails(c) PROVE SkippedIsCurrent'
  BY <1>20 DEF ReplaceFails, StoringNext, NoWork
<1>21. ASSUME NEW c \in Collections, SetSyncedFails(c) PROVE SkippedIsCurrent'
  BY <1>21 DEF SetSyncedFails, NoWork
<1>22. CASE UNCHANGED vars
  BY <1>22 DEF vars, Stored
<1> QED
  BY <1>1, <1>2, <1>3, <1>4, <1>5, <1>6, <1>7, <1>8, <1>9, <1>10, <1>11, <1>12, <1>13,
     <1>14, <1>15, <1>16, <1>17, <1>18, <1>19, <1>20, <1>21, <1>22
     DEF Next, RunStep, RunFails

\* A collection that appears in or leaves the listing during a run is noted as relisted.
LEMMA StepListCurrent == TypeOK /\ ListCurrent /\ [Next]_vars => ListCurrent'
<1> SUFFICES ASSUME TypeOK, ListCurrent, [Next]_vars PROVE ListCurrent'
  OBVIOUS
<1> USE AbsentAssumption, TornAssumption DEF TypeOK, ListCurrent, Runs, Phases
<1>1. ASSUME NEW c \in Collections, ImmichChanges(c) PROVE ListCurrent'
  BY <1>1 DEF ImmichChanges
<1>2. ASSUME NEW c \in Collections, ImmichLists(c) PROVE ListCurrent'
  BY <1>2 DEF ImmichLists
<1>3. ASSUME NEW full \in BOOLEAN, StartSync(full) PROVE ListCurrent'
  BY <1>3 DEF StartSync, NoRun
<1>4. CASE List
  BY <1>4 DEF List
<1>5. CASE ReadMap
  BY <1>5 DEF ReadMap
<1>6. CASE UpsertsDone
  BY <1>6 DEF UpsertsDone
<1>7. CASE FetchesDone
  BY <1>7 DEF FetchesDone
<1>8. CASE DeleteRows
  BY <1>8 DEF DeleteRows
<1>9. CASE Report
  BY <1>9 DEF Report, NoRun, NoWorks, NoWork
<1>10. ASSUME NEW c \in Collections, Upsert(c) PROVE ListCurrent'
  BY <1>10 DEF Upsert, RowStamp, Wanted
<1>11. ASSUME NEW c \in Collections, FetchBegins(c) PROVE ListCurrent'
  BY <1>11 DEF FetchBegins
<1>12. ASSUME NEW c \in Collections, FetchEnds(c) PROVE ListCurrent'
  BY <1>12 DEF FetchEnds
<1>13. ASSUME NEW c \in Collections, Replace(c) PROVE ListCurrent'
  BY <1>13 DEF Replace, StoringNext
<1>14. ASSUME NEW c \in Collections, SetSynced(c) PROVE ListCurrent'
  BY <1>14 DEF SetSynced, NewStamp, NoWork
<1>15. CASE ListFails
  BY <1>15 DEF ListFails
<1>16. CASE DeleteFails
  BY <1>16 DEF DeleteFails
<1>17. CASE RunIsLost
  BY <1>17 DEF RunIsLost, NoRun, NoWorks, NoWork
<1>18. ASSUME NEW c \in Collections, UpsertFails(c) PROVE ListCurrent'
  BY <1>18 DEF UpsertFails
<1>19. ASSUME NEW c \in Collections, FetchFails(c) PROVE ListCurrent'
  BY <1>19 DEF FetchFails, NoWork
<1>20. ASSUME NEW c \in Collections, ReplaceFails(c) PROVE ListCurrent'
  BY <1>20 DEF ReplaceFails, StoringNext, NoWork
<1>21. ASSUME NEW c \in Collections, SetSyncedFails(c) PROVE ListCurrent'
  BY <1>21 DEF SetSyncedFails, NoWork
<1>22. CASE UNCHANGED vars
  BY <1>22 DEF vars, Stored
<1> QED
  BY <1>1, <1>2, <1>3, <1>4, <1>5, <1>6, <1>7, <1>8, <1>9, <1>10, <1>11, <1>12, <1>13,
     <1>14, <1>15, <1>16, <1>17, <1>18, <1>19, <1>20, <1>21, <1>22
     DEF Next, RunStep, RunFails

\* Rows are removed by the clean-up only, and it keeps the listed ones.
LEMMA StepDeletes == TypeOK /\ ListCurrent /\ [Next]_vars => DeleteAction
<1> SUFFICES ASSUME TypeOK, ListCurrent, [Next]_vars PROVE DeleteAction
  OBVIOUS
<1> USE AbsentAssumption, TornAssumption DEF TypeOK, ListCurrent, DeleteAction, Stored, Runs, Phases, Works
<1>1. ASSUME NEW c \in Collections, ImmichChanges(c) PROVE DeleteAction
  BY <1>1 DEF ImmichChanges
<1>2. ASSUME NEW c \in Collections, ImmichLists(c) PROVE DeleteAction
  BY <1>2 DEF ImmichLists
<1>3. ASSUME NEW full \in BOOLEAN, StartSync(full) PROVE DeleteAction
  BY <1>3 DEF StartSync, NoRun
<1>4. CASE List
  BY <1>4 DEF List
<1>5. CASE ReadMap
  BY <1>5 DEF ReadMap
<1>6. CASE UpsertsDone
  BY <1>6 DEF UpsertsDone
<1>7. CASE FetchesDone
  BY <1>7 DEF FetchesDone
<1>8. CASE DeleteRows
  BY <1>8 DEF DeleteRows
<1>9. CASE Report
  BY <1>9 DEF Report, NoRun, NoWorks, NoWork
<1>10. ASSUME NEW c \in Collections, Upsert(c) PROVE DeleteAction
  BY <1>10 DEF Upsert, RowStamp, Wanted
<1>11. ASSUME NEW c \in Collections, FetchBegins(c) PROVE DeleteAction
  BY <1>11 DEF FetchBegins
<1>12. ASSUME NEW c \in Collections, FetchEnds(c) PROVE DeleteAction
  BY <1>12 DEF FetchEnds
<1>13. ASSUME NEW c \in Collections, Replace(c) PROVE DeleteAction
  BY <1>13 DEF Replace, StoringNext
<1>14. ASSUME NEW c \in Collections, SetSynced(c) PROVE DeleteAction
  BY <1>14 DEF SetSynced, NewStamp, NoWork
<1>15. CASE ListFails
  BY <1>15 DEF ListFails
<1>16. CASE DeleteFails
  BY <1>16 DEF DeleteFails
<1>17. CASE RunIsLost
  BY <1>17 DEF RunIsLost, NoRun, NoWorks, NoWork
<1>18. ASSUME NEW c \in Collections, UpsertFails(c) PROVE DeleteAction
  BY <1>18 DEF UpsertFails
<1>19. ASSUME NEW c \in Collections, FetchFails(c) PROVE DeleteAction
  BY <1>19 DEF FetchFails, NoWork
<1>20. ASSUME NEW c \in Collections, ReplaceFails(c) PROVE DeleteAction
  BY <1>20 DEF ReplaceFails, StoringNext, NoWork
<1>21. ASSUME NEW c \in Collections, SetSyncedFails(c) PROVE DeleteAction
  BY <1>21 DEF SetSyncedFails, NoWork
<1>22. CASE UNCHANGED vars
  BY <1>22 DEF vars, Stored
<1> QED
  BY <1>1, <1>2, <1>3, <1>4, <1>5, <1>6, <1>7, <1>8, <1>9, <1>10, <1>11, <1>12, <1>13,
     <1>14, <1>15, <1>16, <1>17, <1>18, <1>19, <1>20, <1>21, <1>22
     DEF Next, RunStep, RunFails

\* A collection is marked as done with its stamp, and as failed with the run.
LEMMA StepAccounted == TypeOK /\ WorkPlaced /\ Accounted /\ [Next]_vars => Accounted'
<1> SUFFICES ASSUME TypeOK, WorkPlaced, Accounted, [Next]_vars PROVE Accounted'
  OBVIOUS
<1> USE AbsentAssumption, TornAssumption DEF TypeOK, WorkPlaced, Accounted, Runs, Phases, Works
<1>1. ASSUME NEW c \in Collections, ImmichChanges(c) PROVE Accounted'
  BY <1>1 DEF ImmichChanges
<1>2. ASSUME NEW c \in Collections, ImmichLists(c) PROVE Accounted'
  BY <1>2 DEF ImmichLists
<1>3. ASSUME NEW full \in BOOLEAN, StartSync(full) PROVE Accounted'
  BY <1>3 DEF StartSync, NoRun
<1>4. CASE List
  BY <1>4 DEF List
<1>5. CASE ReadMap
  BY <1>5 DEF ReadMap
<1>6. CASE UpsertsDone
  BY <1>6 DEF UpsertsDone
<1>7. CASE FetchesDone
  BY <1>7 DEF FetchesDone
<1>8. CASE DeleteRows
  BY <1>8 DEF DeleteRows
<1>9. CASE Report
  BY <1>9 DEF Report, NoRun, NoWorks, NoWork
<1>10. ASSUME NEW c \in Collections, Upsert(c) PROVE Accounted'
  BY <1>10 DEF Upsert, RowStamp, Wanted
<1>11. ASSUME NEW c \in Collections, FetchBegins(c) PROVE Accounted'
  BY <1>11 DEF FetchBegins
<1>12. ASSUME NEW c \in Collections, FetchEnds(c) PROVE Accounted'
  BY <1>12 DEF FetchEnds
<1>13. ASSUME NEW c \in Collections, Replace(c) PROVE Accounted'
  BY <1>13 DEF Replace, StoringNext
<1>14. ASSUME NEW c \in Collections, SetSynced(c) PROVE Accounted'
  BY <1>14 DEF SetSynced, NewStamp, NoWork
<1>15. CASE ListFails
  BY <1>15 DEF ListFails
<1>16. CASE DeleteFails
  BY <1>16 DEF DeleteFails
<1>17. CASE RunIsLost
  BY <1>17 DEF RunIsLost, NoRun, NoWorks, NoWork
<1>18. ASSUME NEW c \in Collections, UpsertFails(c) PROVE Accounted'
  BY <1>18 DEF UpsertFails
<1>19. ASSUME NEW c \in Collections, FetchFails(c) PROVE Accounted'
  BY <1>19 DEF FetchFails, NoWork
<1>20. ASSUME NEW c \in Collections, ReplaceFails(c) PROVE Accounted'
  BY <1>20 DEF ReplaceFails, StoringNext, NoWork
<1>21. ASSUME NEW c \in Collections, SetSyncedFails(c) PROVE Accounted'
  BY <1>21 DEF SetSyncedFails, NoWork
<1>22. CASE UNCHANGED vars
  BY <1>22 DEF vars
<1> QED
  BY <1>1, <1>2, <1>3, <1>4, <1>5, <1>6, <1>7, <1>8, <1>9, <1>10, <1>11, <1>12, <1>13,
     <1>14, <1>15, <1>16, <1>17, <1>18, <1>19, <1>20, <1>21, <1>22
     DEF Next, RunStep, RunFails

\* Every step keeps the whole invariant.
LEMMA StepSkipInv == SkipInv /\ [Next]_vars => SkipInv'
  BY StepTypeOK, StepWorkPlaced, StepStampsOrdered, StepInHand, StepSkippedIsCurrent
     DEF SkipInv

\* Every variable keeps its type.
THEOREM TypeCorrect == Spec => []TypeOK
<1>1. Init => TypeOK
  BY InitSkipInv DEF SkipInv
<1> QED
  BY <1>1, StepTypeOK, PTL DEF Spec

\* A collection whose stored updatedAt is the one Immich lists has the assets Immich has,
\* for any number of collections, changes, failures, crashes and cancelled runs.
THEOREM SkippedIsCurrentHolds == Spec => []SkippedIsCurrent
<1>1. SkipInv => SkippedIsCurrent
  BY DEF SkipInv
<1> QED
  BY <1>1, InitSkipInv, StepSkipInv, PTL DEF Spec

\* A row is deleted only if Immich no longer lists the collection, or its listing changed
\* during the run: a failed listing or fetch never deletes one.
THEOREM DeletesCorrect == Spec => DeletesOnlyWhatIsGone
<1>1. Init => TypeOK /\ ListCurrent
  <2>1. Init => run.phase = "idle"
    BY DEF Init, NoRun
  <2> QED
    BY <2>1, InitSkipInv DEF SkipInv, ListCurrent
<1>2. TypeOK /\ ListCurrent /\ [Next]_vars => (TypeOK /\ ListCurrent)'
  BY StepTypeOK, StepListCurrent
<1>3. TypeOK /\ ListCurrent /\ [Next]_vars => [DeleteAction]_vars
  BY StepDeletes
<1>4. DeletesOnlyWhatIsGone <=> [][DeleteAction]_vars
  BY DEF DeletesOnlyWhatIsGone, DeleteAction
<1> QED
  BY <1>1, <1>2, <1>3, <1>4, PTL DEF Spec

\* A run that reports no error has brought every collection it listed to the listed updatedAt, but
\* for those whose row could not be written, however many collections it fetched side by side
\* (fetchAndReplaceAlbumAssets, setAlbumSynced).
THEOREM NoErrorCorrect == Spec => NoErrorMeansSynced
<1>1. Init => TypeOK /\ WorkPlaced /\ Accounted
  <2> SUFFICES ASSUME Init PROVE Accounted
    BY InitSkipInv DEF SkipInv
  <2>1. run.phase = "idle" /\ \A c \in Collections : work[c].state = "none"
    BY DEF Init, NoRun, NoWorks, NoWork
  <2> QED
    BY <2>1 DEF Accounted
<1>2. TypeOK /\ WorkPlaced /\ Accounted /\ [Next]_vars => (TypeOK /\ WorkPlaced /\ Accounted)'
  BY StepTypeOK, StepWorkPlaced, StepAccounted
<1>3. TypeOK /\ Accounted => EndAction
  BY DEF TypeOK, Runs, Accounted, EndAction
<1>4. TypeOK /\ WorkPlaced /\ Accounted /\ [Next]_vars => [EndAction]_vars
  BY <1>3
<1>5. NoErrorMeansSynced <=> [][EndAction]_vars
  BY DEF NoErrorMeansSynced, EndAction
<1> QED
  BY <1>1, <1>2, <1>4, <1>5, PTL DEF Spec

==============================================================================
