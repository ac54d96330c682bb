-------------------------- MODULE SyncLock_proofs --------------------------
(***************************************************************************)
(* Proofs about SyncLock for every number of requests and keys.            *)
(*                                                                         *)
(* Each invariant is proved inductive relative to the ones before it:      *)
(* types with KeysInHand, mutual exclusion, the registered cancel          *)
(* function, the wiped library.  The refinement of LibraryGuard then needs *)
(* only mutual exclusion: the mapping's CHOOSE has one candidate.          *)
(***************************************************************************)
EXTENDS SyncLock, TLAPS

\* A party that still has to use a key has one, so that every row that is written
\* belongs to an account.  TypeOK is not inductive without it.
KeysInHand ==
    \A p \in Procs :
        /\ run[p] = "running" => runKey[p] \in Keys
        /\ pc[p] \notin {"idle", "stopped", "inline"} => key[p] \in Keys

TypeInv == TypeOK /\ KeysInHand

\* At boot every variable has its type and nobody has a key to use yet but the startup
\* goroutine.
LEMMA InitTypeInv == Init => TypeInv
<1> SUFFICES ASSUME Init PROVE TypeInv
  OBVIOUS
<1> USE ProcsAssumption DEF Init, BootPC, BootKey, Procs
<1>1. TypeOK
  BY DEF TypeOK, RunStates, RequestPCs, LoopPCs, NoPass, PassType
<1>2. KeysInHand
  BY DEF KeysInHand
<1> QED
  BY <1>1, <1>2 DEF TypeInv

\* No handler, goroutine, run or reboot leaves the types, or leaves a party without the key
\* it still has to use.
LEMMA StepTypeInv == TypeInv /\ [Next]_vars => TypeInv'
<1> SUFFICES ASSUME TypeInv, [Next]_vars PROVE TypeInv'
  OBVIOUS
<1> USE ProcsAssumption, FailAssumption
    DEF TypeInv, TypeOK, KeysInHand, Procs, RunStates, RequestPCs, LoopPCs, PauseSteps,
        Section, Fallible, Goto, lockVars, tables, frequentVars, NoPass, PassType
<1>1. ASSUME NEW p \in Requests, BeginSync(p) PROVE TypeInv'
  BY <1>1 DEF BeginSync
<1>2. ASSUME NEW p \in Requests, FullCancel(p) PROVE TypeInv'
  BY <1>2 DEF FullCancel, CancelSync
<1>3. ASSUME NEW p \in Requests, FullPollEnds(p) PROVE TypeInv'
  BY <1>3 DEF FullPollEnds
<1>4. ASSUME NEW p \in Requests, TriggerStarts(p) PROVE TypeInv'
  BY <1>4 DEF TriggerStarts, TryStart, Return
<1>5. ASSUME NEW p \in Requests, TriggerRefused(p) PROVE TypeInv'
  BY <1>5 DEF TriggerRefused, Return
<1>6. ASSUME NEW p \in Requests, BeginSettings(p) PROVE TypeInv'
  BY <1>6 DEF BeginSettings
<1>7. ASSUME NEW p \in Requests, ClearKey(p) PROVE TypeInv'
  BY <1>7 DEF ClearKey
<1>8. ASSUME NEW p \in Requests, PauseCancel(p) PROVE TypeInv'
  BY <1>8 DEF PauseCancel, CancelSync
<1>9. ASSUME NEW p \in Requests, PausePollEnds(p) PROVE TypeInv'
  BY <1>9 DEF PausePollEnds
<1>10. ASSUME NEW p \in Requests, PauseAcquires(p) PROVE TypeInv'
  BY <1>10 DEF PauseAcquires
<1>11. ASSUME NEW p \in Requests, PauseBusy(p) PROVE TypeInv'
  BY <1>11 DEF PauseBusy
<1>12. ASSUME NEW p \in Requests, PauseRetries(p) PROVE TypeInv'
  BY <1>12 DEF PauseRetries
<1>13. ASSUME NEW p \in Requests, PauseGivesUp(p) PROVE TypeInv'
  BY <1>13 DEF PauseGivesUp, Return
<1>14. ASSUME NEW p \in Requests, PauseExpires(p) PROVE TypeInv'
  BY <1>14 DEF PauseExpires
<1>15. ASSUME NEW p \in Requests, StoreKey(p) PROVE TypeInv'
  BY <1>15 DEF StoreKey
<1>16. ASSUME NEW p \in Requests, WipeLibrary(p) PROVE TypeInv'
  <2>1. late' \subseteq Keys
    <3>1. \A s \in Passes : pass[s].rows \subseteq Keys
      OBVIOUS
    <3>2. late' = UNION {pass[s].rows : s \in Passes}
      BY <1>16 DEF WipeLibrary
    <3> HIDE DEF TypeInv, TypeOK
    <3> QED
      BY <3>1, <3>2
  <2> QED
    BY <1>16, <2>1 DEF WipeLibrary
<1>17. ASSUME NEW p \in Requests, ReleaseSettings(p) PROVE TypeInv'
  BY <1>17 DEF ReleaseSettings
<1>18. ASSUME NEW p \in Requests, SettingsFails(p) PROVE TypeInv'
  BY <1>18 DEF SettingsFails, Return
<1>19. ASSUME NEW l \in {Startup, Periodic}, LoopStarts(l) PROVE TypeInv'
  BY <1>19 DEF LoopStarts, TryStart
<1>20. ASSUME NEW l \in {Startup, Periodic}, LoopSkips(l) PROVE TypeInv'
  BY <1>20 DEF LoopSkips, Return, AfterSync
<1>21. ASSUME NEW l \in {Startup, Periodic}, LoopReturns(l) PROVE TypeInv'
  BY <1>21 DEF LoopReturns, Return, AfterSync
<1>22. CASE PeriodicTick
  BY <1>22 DEF PeriodicTick
<1>23. CASE PeriodicStops
  BY <1>23 DEF PeriodicStops
<1>24. ASSUME NEW p \in Procs, RunWrites(p) PROVE TypeInv'
  BY <1>24 DEF RunWrites
<1>25. ASSUME NEW p \in Procs, RunEnds(p) PROVE TypeInv'
  BY <1>25 DEF RunEnds
<1>26. ASSUME NEW p \in Procs, RunClearsCancel(p) PROVE TypeInv'
  BY <1>26 DEF RunClearsCancel
<1>27. ASSUME NEW p \in Procs, RunReleases(p) PROVE TypeInv'
  BY <1>27 DEF RunReleases
<1>28. CASE Shutdown
  BY <1>28 DEF Shutdown
<1>29. CASE Exit
  BY <1>29 DEF Exit, Reboot, BootPC, BootKey
<1>30. CASE Crash
  BY <1>30 DEF Crash, Reboot, BootPC, BootKey
<1>32. ASSUME NEW p \in Procs, NEW s \in Passes, RunRecomputes(p, s) PROVE TypeInv'
  <2>1. pass' \in [Passes -> PassType]
    <3>1. pass \in [Passes -> PassType] /\ library \subseteq Keys
      OBVIOUS
    <3>2. pass' = [t \in Passes |-> IF t = s THEN [at |-> "asking", rows |-> library, newest |-> TRUE]
                                   ELSE [pass[t] EXCEPT !.newest = FALSE]]
      BY <1>32 DEF RunRecomputes, NewestPass
    <3> HIDE DEF TypeInv, TypeOK
    <3>3. \A t \in Passes : [pass[t] EXCEPT !.newest = FALSE] \in PassType
      BY <3>1
    <3>4. [at |-> "asking", rows |-> library, newest |-> TRUE] \in PassType
      BY <3>1
    <3> HIDE DEF PassType
    <3> QED
      BY <3>2, <3>3, <3>4
  <2> QED
    BY <1>32, <2>1 DEF RunRecomputes
<1>33. ASSUME NEW s \in Passes, LibraryComputes(s) PROVE TypeInv'
  BY <1>33 DEF LibraryComputes
<1>34. ASSUME NEW s \in Passes, LibraryReplaces(s) PROVE TypeInv'
  <2>1. pass' \in [Passes -> PassType]
    <3>1. pass \in [Passes -> PassType] /\ pass[s].rows \subseteq Keys
      OBVIOUS
    <3>2. pass' = [t \in Passes |-> IF t = s THEN [at |-> "asking", rows |-> pass[s].rows, newest |-> TRUE]
                                   ELSE [pass[t] EXCEPT !.newest = FALSE]]
      BY <1>34 DEF LibraryReplaces, NewestPass
    <3> HIDE DEF TypeInv, TypeOK
    <3>3. \A t \in Passes : [pass[t] EXCEPT !.newest = FALSE] \in PassType
      BY <3>1
    <3>4. [at |-> "asking", rows |-> pass[s].rows, newest |-> TRUE] \in PassType
      BY <3>1
    <3> HIDE DEF PassType
    <3> QED
      BY <3>2, <3>3, <3>4
  <2> QED
    BY <1>34, <2>1 DEF LibraryReplaces
<1>35. ASSUME NEW s \in Passes, LabelsCompare(s) PROVE TypeInv'
  <2>1. pass' \in [Passes -> PassType]
    <3>1. CASE pass' = [pass EXCEPT ![s] = [at |-> "checked", rows |-> @.rows, newest |-> FALSE]]
      BY <3>1
    <3>2. CASE pass' = [pass EXCEPT ![s] = NoPass]
      BY <3>2
    <3> QED
      BY <1>35, <3>1, <3>2 DEF LabelsCompare
  <2> QED
    BY <1>35, <2>1 DEF LabelsCompare
<1>36. ASSUME NEW s \in Passes, LabelsWrite(s) PROVE TypeInv'
  BY <1>36 DEF LabelsWrite
<1>37. ASSUME NEW s \in Passes, PassFails(s) PROVE TypeInv'
  BY <1>37 DEF PassFails
<1>31. CASE UNCHANGED vars
  BY <1>31 DEF vars
<1> QED
  BY <1>1, <1>2, <1>3, <1>4, <1>5, <1>6, <1>7, <1>8, <1>9, <1>10, <1>11, <1>12, <1>13,
     <1>14, <1>15, <1>16, <1>17, <1>18, <1>19, <1>20, <1>21, <1>22, <1>23, <1>24,
     <1>25, <1>26, <1>27, <1>28, <1>29, <1>30, <1>31, <1>32, <1>33, <1>34,
     <1>35, <1>36, <1>37 DEF Next, Running, RequestStep,
     LoopStep, RunStep, LabelStep

\* Every variable keeps its type: the lock table, the handlers' places, the stored key
\* and the rows of the library.
THEOREM TypeCorrect == Spec => []TypeOK
<1>1. Spec => []TypeInv
  BY InitTypeInv, StepTypeInv, PTL DEF Spec
<1> QED
  BY <1>1, PTL DEF TypeInv

-----------------------------------------------------------------------------
\* Taking the lock needs it free, and every release is made by the party that holds it.
LEMMA StepMutualExclusion ==
    TypeOK /\ MutualExclusion /\ [Next]_vars => MutualExclusion'
<1> SUFFICES ASSUME TypeOK, MutualExclusion, [Next]_vars PROVE MutualExclusion'
  OBVIOUS
<1> USE ProcsAssumption, FailAssumption
    DEF TypeOK, MutualExclusion, Holds, Procs, RunStates, RequestPCs, LoopPCs, PauseSteps,
        Section, Fallible, Goto, lockVars, tables, frequentVars
<1>1. ASSUME NEW p \in Requests, BeginSync(p) PROVE MutualExclusion'
  BY <1>1 DEF BeginSync
<1>2. ASSUME NEW p \in Requests, FullCancel(p) PROVE MutualExclusion'
  BY <1>2 DEF FullCancel, CancelSync
<1>3. ASSUME NEW p \in Requests, FullPollEnds(p) PROVE MutualExclusion'
  BY <1>3 DEF FullPollEnds
<1>4. ASSUME NEW p \in Requests, TriggerStarts(p) PROVE MutualExclusion'
  BY <1>4 DEF TriggerStarts, TryStart, Return
<1>5. ASSUME NEW p \in Requests, TriggerRefused(p) PROVE MutualExclusion'
  BY <1>5 DEF TriggerRefused, Return
<1>6. ASSUME NEW p \in Requests, BeginSettings(p) PROVE MutualExclusion'
  BY <1>6 DEF BeginSettings
<1>7. ASSUME NEW p \in Requests, ClearKey(p) PROVE MutualExclusion'
  BY <1>7 DEF ClearKey
<1>8. ASSUME NEW p \in Requests, PauseCancel(p) PROVE MutualExclusion'
  BY <1>8 DEF PauseCancel, CancelSync
<1>9. ASSUME NEW p \in Requests, PausePollEnds(p) PROVE MutualExclusion'
  BY <1>9 DEF PausePollEnds
<1>10. ASSUME NEW p \in Requests, PauseAcquires(p) PROVE MutualExclusion'
  BY <1>10 DEF PauseAcquires
<1>11. ASSUME NEW p \in Requests, PauseBusy(p) PROVE MutualExclusion'
  BY <1>11 DEF PauseBusy
<1>12. ASSUME NEW p \in Requests, PauseRetries(p) PROVE MutualExclusion'
  BY <1>12 DEF PauseRetries
<1>13. ASSUME NEW p \in Requests, PauseGivesUp(p) PROVE MutualExclusion'
  BY <1>13 DEF PauseGivesUp, Return
<1>14. ASSUME NEW p \in Requests, PauseExpires(p) PROVE MutualExclusion'
  BY <1>14 DEF PauseExpires
<1>15. ASSUME NEW p \in Requests, StoreKey(p) PROVE MutualExclusion'
  BY <1>15 DEF StoreKey
<1>16. ASSUME NEW p \in Requests, WipeLibrary(p) PROVE MutualExclusion'
  BY <1>16 DEF WipeLibrary
<1>17. ASSUME NEW p \in Requests, ReleaseSettings(p) PROVE MutualExclusion'
  BY <1>17 DEF ReleaseSettings
<1>18. ASSUME NEW p \in Requests, SettingsFails(p) PROVE MutualExclusion'
  BY <1>18 DEF SettingsFails, Return
<1>19. ASSUME NEW l \in {Startup, Periodic}, LoopStarts(l) PROVE MutualExclusion'
  BY <1>19 DEF LoopStarts, TryStart
<1>20. ASSUME NEW l \in {Startup, Periodic}, LoopSkips(l) PROVE MutualExclusion'
  BY <1>20 DEF LoopSkips, Return, AfterSync
<1>21. ASSUME NEW l \in {Startup, Periodic}, LoopReturns(l) PROVE MutualExclusion'
  BY <1>21 DEF LoopReturns, Return, AfterSync
<1>22. CASE PeriodicTick
  BY <1>22 DEF PeriodicTick
<1>23. CASE PeriodicStops
  BY <1>23 DEF PeriodicStops
<1>24. ASSUME NEW p \in Procs, RunWrites(p) PROVE MutualExclusion'
  BY <1>24 DEF RunWrites
<1>25. ASSUME NEW p \in Procs, RunEnds(p) PROVE MutualExclusion'
  BY <1>25 DEF RunEnds
<1>26. ASSUME NEW p \in Procs, RunClearsCancel(p) PROVE MutualExclusion'
  BY <1>26 DEF RunClearsCancel
<1>27. ASSUME NEW p \in Procs, RunReleases(p) PROVE MutualExclusion'
  BY <1>27 DEF RunReleases
<1>28. CASE Shutdown
  BY <1>28 DEF Shutdown
<1>29. CASE Exit
  BY <1>29 DEF Exit, Reboot, BootPC, BootKey
<1>30. CASE Crash
  BY <1>30 DEF Crash, Reboot, BootPC, BootKey
<1>32. ASSUME NEW p \in Procs, NEW s \in Passes, RunRecomputes(p, s) PROVE MutualExclusion'
  BY <1>32 DEF RunRecomputes, NewestPass
<1>33. ASSUME NEW s \in Passes, LibraryComputes(s) PROVE MutualExclusion'
  BY <1>33 DEF LibraryComputes
<1>34. ASSUME NEW s \in Passes, LibraryReplaces(s) PROVE MutualExclusion'
  BY <1>34 DEF LibraryReplaces, NewestPass
<1>35. ASSUME NEW s \in Passes, LabelsCompare(s) PROVE MutualExclusion'
  BY <1>35 DEF LabelsCompare
<1>36. ASSUME NEW s \in Passes, LabelsWrite(s) PROVE MutualExclusion'
  BY <1>36 DEF LabelsWrite
<1>37. ASSUME NEW s \in Passes, PassFails(s) PROVE MutualExclusion'
  BY <1>37 DEF PassFails
<1>31. CASE UNCHANGED vars
  BY <1>31 DEF vars
<1> QED
  BY <1>1, <1>2, <1>3, <1>4, <1>5, <1>6, <1>7, <1>8, <1>9, <1>10, <1>11, <1>12, <1>13,
     <1>14, <1>15, <1>16, <1>17, <1>18, <1>19, <1>20, <1>21, <1>22, <1>23, <1>24,
     <1>25, <1>26, <1>27, <1>28, <1>29, <1>30, <1>31, <1>32, <1>33, <1>34,
     <1>35, <1>36, <1>37 DEF Next, Running, RequestStep,
     LoopStep, RunStep, LabelStep

\* userSyncing is set exactly while one party holds the lock, and only one ever does.
THEOREM MutualExclusionHolds == Spec => []MutualExclusion
<1>1. Init => MutualExclusion
  BY ProcsAssumption DEF Init, MutualExclusion, Holds, BootPC, Procs, Section
<1> QED
  BY <1>1, StepMutualExclusion, TypeCorrect, PTL DEF Spec

-----------------------------------------------------------------------------
\* Under mutual exclusion a run's clearUserCancel can only find its own entry.
LEMMA StepCancelFnIsCurrent ==
    TypeOK /\ MutualExclusion /\ CancelFnIsCurrent /\ [Next]_vars => CancelFnIsCurrent'
<1> SUFFICES ASSUME TypeOK, MutualExclusion, CancelFnIsCurrent, [Next]_vars
             PROVE  CancelFnIsCurrent'
  OBVIOUS
<1> USE ProcsAssumption DEF TypeOK, CancelFnIsCurrent, Procs, RunStates, Goto, lockVars, tables, frequentVars
<1>1. ASSUME NEW p \in Requests, BeginSync(p) PROVE CancelFnIsCurrent'
  BY <1>1 DEF BeginSync
<1>2. ASSUME NEW p \in Requests, FullCancel(p) PROVE CancelFnIsCurrent'
  BY <1>2 DEF FullCancel, CancelSync
<1>3. ASSUME NEW p \in Requests, FullPollEnds(p) PROVE CancelFnIsCurrent'
  BY <1>3 DEF FullPollEnds
<1>4. ASSUME NEW p \in Requests, TriggerStarts(p) PROVE CancelFnIsCurrent'
  BY <1>4 DEF TriggerStarts, TryStart, Return, MutualExclusion, Holds
<1>5. ASSUME NEW p \in Requests, TriggerRefused(p) PROVE CancelFnIsCurrent'
  BY <1>5 DEF TriggerRefused, Return
<1>6. ASSUME NEW p \in Requests, BeginSettings(p) PROVE CancelFnIsCurrent'
  BY <1>6 DEF BeginSettings
<1>7. ASSUME NEW p \in Requests, ClearKey(p) PROVE CancelFnIsCurrent'
  BY <1>7 DEF ClearKey
<1>8. ASSUME NEW p \in Requests, PauseCancel(p) PROVE CancelFnIsCurrent'
  BY <1>8 DEF PauseCancel, CancelSync
<1>9. ASSUME NEW p \in Requests, PausePollEnds(p) PROVE CancelFnIsCurrent'
  BY <1>9 DEF PausePollEnds
<1>10. ASSUME NEW p \in Requests, PauseAcquires(p) PROVE CancelFnIsCurrent'
  BY <1>10 DEF PauseAcquires
<1>11. ASSUME NEW p \in Requests, PauseBusy(p) PROVE CancelFnIsCurrent'
  BY <1>11 DEF PauseBusy
<1>12. ASSUME NEW p \in Requests, PauseRetries(p) PROVE CancelFnIsCurrent'
  BY <1>12 DEF PauseRetries
<1>13. ASSUME NEW p \in Requests, PauseGivesUp(p) PROVE CancelFnIsCurrent'
  BY <1>13 DEF PauseGivesUp, Return
<1>14. ASSUME NEW p \in Requests, PauseExpires(p) PROVE CancelFnIsCurrent'
  BY <1>14 DEF PauseExpires
<1>15. ASSUME NEW p \in Requests, StoreKey(p) PROVE CancelFnIsCurrent'
  BY <1>15 DEF StoreKey
<1>16. ASSUME NEW p \in Requests, WipeLibrary(p) PROVE CancelFnIsCurrent'
  BY <1>16 DEF WipeLibrary
<1>17. ASSUME NEW p \in Requests, ReleaseSettings(p) PROVE CancelFnIsCurrent'
  BY <1>17 DEF ReleaseSettings
<1>18. ASSUME NEW p \in Requests, SettingsFails(p) PROVE CancelFnIsCurrent'
  BY <1>18 DEF SettingsFails, Return
<1>19. ASSUME NEW l \in {Startup, Periodic}, LoopStarts(l) PROVE CancelFnIsCurrent'
  BY <1>19 DEF LoopStarts, TryStart, MutualExclusion, Holds
<1>20. ASSUME NEW l \in {Startup, Periodic}, LoopSkips(l) PROVE CancelFnIsCurrent'
  BY <1>20 DEF LoopSkips, Return, AfterSync
<1>21. ASSUME NEW l \in {Startup, Periodic}, LoopReturns(l) PROVE CancelFnIsCurrent'
  BY <1>21 DEF LoopReturns, Return, AfterSync
<1>22. CASE PeriodicTick
  BY <1>22 DEF PeriodicTick
<1>23. CASE PeriodicStops
  BY <1>23 DEF PeriodicStops
<1>24. ASSUME NEW p \in Procs, RunWrites(p) PROVE CancelFnIsCurrent'
  BY <1>24 DEF RunWrites
<1>25. ASSUME NEW p \in Procs, RunEnds(p) PROVE CancelFnIsCurrent'
  BY <1>25 DEF RunEnds
<1>26. ASSUME NEW p \in Procs, RunClearsCancel(p) PROVE CancelFnIsCurrent'
  BY <1>26 DEF RunClearsCancel
<1>27. ASSUME NEW p \in Procs, RunReleases(p) PROVE CancelFnIsCurrent'
  BY <1>27 DEF RunReleases
<1>28. CASE Shutdown
  BY <1>28 DEF Shutdown
<1>29. CASE Exit
  BY <1>29 DEF Exit, Reboot, BootPC, BootKey
<1>30. CASE Crash
  BY <1>30 DEF Crash, Reboot, BootPC, BootKey
<1>32. ASSUME NEW p \in Procs, NEW s \in Passes, RunRecomputes(p, s) PROVE CancelFnIsCurrent'
  BY <1>32 DEF RunRecomputes, NewestPass
<1>33. ASSUME NEW s \in Passes, LibraryComputes(s) PROVE CancelFnIsCurrent'
  BY <1>33 DEF LibraryComputes
<1>34. ASSUME NEW s \in Passes, LibraryReplaces(s) PROVE CancelFnIsCurrent'
  BY <1>34 DEF LibraryReplaces, NewestPass
<1>35. ASSUME NEW s \in Passes, LabelsCompare(s) PROVE CancelFnIsCurrent'
  BY <1>35 DEF LabelsCompare
<1>36. ASSUME NEW s \in Passes, LabelsWrite(s) PROVE CancelFnIsCurrent'
  BY <1>36 DEF LabelsWrite
<1>37. ASSUME NEW s \in Passes, PassFails(s) PROVE CancelFnIsCurrent'
  BY <1>37 DEF PassFails
<1>31. CASE UNCHANGED vars
  BY <1>31 DEF vars
<1> QED
  BY <1>1, <1>2, <1>3, <1>4, <1>5, <1>6, <1>7, <1>8, <1>9, <1>10, <1>11, <1>12, <1>13,
     <1>14, <1>15, <1>16, <1>17, <1>18, <1>19, <1>20, <1>21, <1>22, <1>23, <1>24,
     <1>25, <1>26, <1>27, <1>28, <1>29, <1>30, <1>31, <1>32, <1>33, <1>34,
     <1>35, <1>36, <1>37 DEF Next, Running, RequestStep,
     LoopStep, RunStep, LabelStep

\* A run at work is the one userCancels can cancel, and no entry outlives its run.
THEOREM CancelFnCorrect == Spec => []CancelFnIsCurrent
<1>1. Init => CancelFnIsCurrent
  BY ProcsAssumption DEF Init, CancelFnIsCurrent, Procs
<1> QED
  BY <1>1, StepCancelFnIsCurrent, TypeCorrect, MutualExclusionHolds, PTL DEF Spec

-----------------------------------------------------------------------------
\* What is in hand after the wipe was in hand when it was made, or was found in what it left.
LateInHand ==
    \A p \in Requests : pc[p] = "libraries" => \A s \in Passes : pass[s].rows \subseteq late

WipeInv == WipedStaysEmpty /\ LateInHand

\* Under mutual exclusion no run is at work between the wipe and the release, and who recomputes
\* then finds nothing.
LEMMA StepWiped ==
    TypeOK /\ MutualExclusion /\ WipeInv /\ [Next]_vars => WipeInv'
<1> SUFFICES ASSUME TypeOK, MutualExclusion, WipeInv, [Next]_vars
             PROVE  WipeInv'
  OBVIOUS
<1> USE ProcsAssumption DEF TypeOK, WipedStaysEmpty, LateInHand, WipeInv, Procs, Goto, lockVars, tables, frequentVars,
                            NoPass, PassType
<1>1. ASSUME NEW p \in Requests, BeginSync(p) PROVE WipeInv'
  BY <1>1 DEF BeginSync
<1>2. ASSUME NEW p \in Requests, FullCancel(p) PROVE WipeInv'
  BY <1>2 DEF FullCancel, CancelSync
<1>3. ASSUME NEW p \in Requests, FullPollEnds(p) PROVE WipeInv'
  BY <1>3 DEF FullPollEnds
<1>4. ASSUME NEW p \in Requests, TriggerStarts(p) PROVE WipeInv'
  BY <1>4 DEF TriggerStarts, TryStart, Return
<1>5. ASSUME NEW p \in Requests, TriggerRefused(p) PROVE WipeInv'
  BY <1>5 DEF TriggerRefused, Return
<1>6. ASSUME NEW p \in Requests, BeginSettings(p) PROVE WipeInv'
  BY <1>6 DEF BeginSettings
<1>7. ASSUME NEW p \in Requests, ClearKey(p) PROVE WipeInv'
  BY <1>7 DEF ClearKey
<1>8. ASSUME NEW p \in Requests, PauseCancel(p) PROVE WipeInv'
  BY <1>8 DEF PauseCancel, CancelSync
<1>9. ASSUME NEW p \in Requests, PausePollEnds(p) PROVE WipeInv'
  BY <1>9 DEF PausePollEnds
<1>10. ASSUME NEW p \in Requests, PauseAcquires(p) PROVE WipeInv'
  BY <1>10 DEF PauseAcquires
<1>11. ASSUME NEW p \in Requests, PauseBusy(p) PROVE WipeInv'
  BY <1>11 DEF PauseBusy
<1>12. ASSUME NEW p \in Requests, PauseRetries(p) PROVE WipeInv'
  BY <1>12 DEF PauseRetries
<1>13. ASSUME NEW p \in Requests, PauseGivesUp(p) PROVE WipeInv'
  BY <1>13 DEF PauseGivesUp, Return
<1>14. ASSUME NEW p \in Requests, PauseExpires(p) PROVE WipeInv'
  BY <1>14 DEF PauseExpires
<1>15. ASSUME NEW p \in Requests, StoreKey(p) PROVE WipeInv'
  BY <1>15 DEF StoreKey
<1>16. ASSUME NEW p \in Requests, WipeLibrary(p) PROVE WipeInv'
  BY <1>16 DEF WipeLibrary
<1>17. ASSUME NEW p \in Requests, ReleaseSettings(p) PROVE WipeInv'
  BY <1>17 DEF ReleaseSettings, MutualExclusion, Holds, Section
<1>18. ASSUME NEW p \in Requests, SettingsFails(p) PROVE WipeInv'
  BY <1>18, FailAssumption DEF SettingsFails, Return, MutualExclusion, Holds, Section, Fallible
<1>19. ASSUME NEW l \in {Startup, Periodic}, LoopStarts(l) PROVE WipeInv'
  BY <1>19 DEF LoopStarts, TryStart
<1>20. ASSUME NEW l \in {Startup, Periodic}, LoopSkips(l) PROVE WipeInv'
  BY <1>20 DEF LoopSkips, Return, AfterSync
<1>21. ASSUME NEW l \in {Startup, Periodic}, LoopReturns(l) PROVE WipeInv'
  BY <1>21 DEF LoopReturns, Return, AfterSync
<1>22. CASE PeriodicTick
  BY <1>22 DEF PeriodicTick
<1>23. CASE PeriodicStops
  BY <1>23 DEF PeriodicStops
<1>24. ASSUME NEW p \in Procs, RunWrites(p) PROVE WipeInv'
  BY <1>24 DEF RunWrites, MutualExclusion, Holds, Section
<1>25. ASSUME NEW p \in Procs, RunEnds(p) PROVE WipeInv'
  BY <1>25 DEF RunEnds
<1>26. ASSUME NEW p \in Procs, RunClearsCancel(p) PROVE WipeInv'
  BY <1>26 DEF RunClearsCancel
<1>27. ASSUME NEW p \in Procs, RunReleases(p) PROVE WipeInv'
  BY <1>27 DEF RunReleases
<1>28. CASE Shutdown
  BY <1>28 DEF Shutdown
<1>29. CASE Exit
  BY <1>29 DEF Exit, Reboot, BootPC, BootKey
<1>30. CASE Crash
  BY <1>30 DEF Crash, Reboot, BootPC, BootKey
<1>32. ASSUME NEW p \in Procs, NEW s \in Passes, RunRecomputes(p, s) PROVE WipeInv'
  BY <1>32 DEF RunRecomputes, NewestPass, MutualExclusion, Holds, Section
<1>33. ASSUME NEW s \in Passes, LibraryComputes(s) PROVE WipeInv'
  BY <1>33 DEF LibraryComputes
<1>34. ASSUME NEW s \in Passes, LibraryReplaces(s) PROVE WipeInv'
  BY <1>34 DEF LibraryReplaces, NewestPass
<1>35. ASSUME NEW s \in Passes, LabelsCompare(s) PROVE WipeInv'
  BY <1>35 DEF LabelsCompare
<1>36. ASSUME NEW s \in Passes, LabelsWrite(s) PROVE WipeInv'
  BY <1>36 DEF LabelsWrite
<1>37. ASSUME NEW s \in Passes, PassFails(s) PROVE WipeInv'
  BY <1>37 DEF PassFails
<1>31. CASE UNCHANGED vars
  BY <1>31 DEF vars
<1> QED
  BY <1>1, <1>2, <1>3, <1>4, <1>5, <1>6, <1>7, <1>8, <1>9, <1>10, <1>11, <1>12, <1>13,
     <1>14, <1>15, <1>16, <1>17, <1>18, <1>19, <1>20, <1>21, <1>22, <1>23, <1>24,
     <1>25, <1>26, <1>27, <1>28, <1>29, <1>30, <1>31, <1>32, <1>33, <1>34,
     <1>35, <1>36, <1>37 DEF Next, Running, RequestStep,
     LoopStep, RunStep, LabelStep

\* No sync writes to the library between deleteUserSyncData and the release of the lock, and
\* only what was in hand at the wipe comes back into the frequent locations.
THEOREM WipeCorrect == Spec => []WipedStaysEmpty
<1>1. Init => WipeInv
  BY ProcsAssumption DEF Init, WipeInv, WipedStaysEmpty, LateInHand, BootPC, Procs
<1>2. WipeInv => WipedStaysEmpty
  BY DEF WipeInv
<1> QED
  BY <1>1, <1>2, StepWiped, TypeCorrect, MutualExclusionHolds, PTL DEF Spec

-----------------------------------------------------------------------------
\* Under mutual exclusion the mapping's CHOOSE has one candidate.
LEMMA LockHolderIs ==
    MutualExclusion =>
        /\ \A p \in Procs : Holds(p) => LockHolder = p
        /\ (\A p \in Procs : ~Holds(p)) => LockHolder = None
BY DEF MutualExclusion, LockHolder

\* Every step of the handlers, goroutines and runs is one of LibraryGuard, or leaves its
\* variables as they are.
LEMMA StepGuard ==
    TypeInv /\ MutualExclusion /\ MutualExclusion' /\ [Next]_vars
        => [Guard!Next]_<<LockHolder, library, frequent, InHand>>
<1> SUFFICES ASSUME TypeInv, MutualExclusion, MutualExclusion', [Next]_vars
             PROVE  [Guard!Next]_<<LockHolder, library, frequent, InHand>>
  OBVIOUS
<1>a. /\ \A p \in Procs : Holds(p) => LockHolder = p
      /\ (\A p \in Procs : ~Holds(p)) => LockHolder = None
  BY LockHolderIs
<1>b. /\ \A p \in Procs : Holds(p)' => LockHolder' = p
      /\ (\A p \in Procs : ~Holds(p)') => LockHolder' = None
  <2>1. (MutualExclusion =>
            /\ \A p \in Procs : Holds(p) => LockHolder = p
            /\ (\A p \in Procs : ~Holds(p)) => LockHolder = None)'
    BY LockHolderIs, PTL
  <2> QED
    BY <2>1
<1>f. ASSUME \A p \in Procs : Holds(p)' <=> Holds(p) PROVE LockHolder' = LockHolder
  <2>1. CASE \E p \in Procs : Holds(p)
    BY <2>1, <1>a, <1>b, <1>f
  <2>2. CASE \A p \in Procs : ~Holds(p)
    BY <2>2, <1>a, <1>b, <1>f
  <2> QED
    BY <2>1, <2>2
<1>g. ASSUME pass' = pass PROVE InHand' = InHand
  BY <1>g DEF InHand
<1>c. ASSUME \A p \in Procs : Holds(p)' <=> Holds(p), library' = library, frequent' = frequent, pass' = pass
      PROVE  UNCHANGED <<LockHolder, library, frequent, InHand>>
  BY <1>c, <1>f, <1>g
<1>d. ASSUME NEW p \in Procs, LockHolder = None, LockHolder' = p,
             library' = library, frequent' = frequent, pass' = pass
      PROVE  Guard!Next
  <2>1. Guard!Acquire(p)
    BY <1>d, <1>g DEF Guard!Acquire
  <2> QED
    BY <2>1 DEF Guard!Next
<1>e. ASSUME NEW p \in Procs, LockHolder = p, LockHolder' = None,
             library' = library, frequent' = frequent, pass' = pass
      PROVE  Guard!Next
  <2>1. Guard!Release(p)
    BY <1>e, <1>g DEF Guard!Release
  <2> QED
    BY <2>1 DEF Guard!Next
<1>h. ASSUME LockHolder' = None, library' = library, frequent' = frequent, pass' = [s \in Passes |-> NoPass]
      PROVE  Guard!Next
  <2>1. InHand' = {}
    BY <1>h DEF InHand, NoPass
  <2>2. Guard!Restart
    BY <1>h, <2>1 DEF Guard!Restart
  <2> QED
    BY <2>2 DEF Guard!Next
<1> USE ProcsAssumption, FailAssumption
    DEF TypeInv, TypeOK, MutualExclusion, Holds, Procs, RunStates, RequestPCs, LoopPCs,
        PauseSteps, Section, Fallible, Goto, lockVars, tables, frequentVars, NoPass, PassType
<1>1. ASSUME NEW p \in Requests, BeginSync(p) PROVE [Guard!Next]_<<LockHolder, library, frequent, InHand>>
  BY <1>1, <1>c DEF BeginSync
<1>2. ASSUME NEW p \in Requests, FullCancel(p) PROVE [Guard!Next]_<<LockHolder, library, frequent, InHand>>
  BY <1>2, <1>c DEF FullCancel, CancelSync
<1>3. ASSUME NEW p \in Requests, FullPollEnds(p) PROVE [Guard!Next]_<<LockHolder, library, frequent, InHand>>
  BY <1>3, <1>c DEF FullPollEnds
<1>4. ASSUME NEW p \in Requests, TriggerStarts(p) PROVE [Guard!Next]_<<LockHolder, library, frequent, InHand>>
  <2>1. /\ \A q \in Procs : ~Holds(q)
        /\ Holds(p)' /\ library' = library /\ frequent' = frequent /\ pass' = pass
    BY <1>4 DEF TriggerStarts, TryStart, Return
  <2> QED
    BY <2>1, <1>a, <1>b, <1>d
<1>5. ASSUME NEW p \in Requests, TriggerRefused(p) PROVE [Guard!Next]_<<LockHolder, library, frequent, InHand>>
  BY <1>5, <1>c DEF TriggerRefused, Return
<1>6. ASSUME NEW p \in Requests, BeginSettings(p) PROVE [Guard!Next]_<<LockHolder, library, frequent, InHand>>
  BY <1>6, <1>c DEF BeginSettings
<1>7. ASSUME NEW p \in Requests, ClearKey(p) PROVE [Guard!Next]_<<LockHolder, library, frequent, InHand>>
  BY <1>7, <1>c DEF ClearKey
<1>8. ASSUME NEW p \in Requests, PauseCancel(p) PROVE [Guard!Next]_<<LockHolder, library, frequent, InHand>>
  BY <1>8, <1>c DEF PauseCancel, CancelSync
<1>9. ASSUME NEW p \in Requests, PausePollEnds(p) PROVE [Guard!Next]_<<LockHolder, library, frequent, InHand>>
  BY <1>9, <1>c DEF PausePollEnds
<1>10. ASSUME NEW p \in Requests, PauseAcquires(p) PROVE [Guard!Next]_<<LockHolder, library, frequent, InHand>>
  <2>1. /\ \A q \in Procs : ~Holds(q)
        /\ Holds(p)' /\ library' = library /\ frequent' = frequent /\ pass' = pass
    BY <1>10 DEF PauseAcquires
  <2> QED
    BY <2>1, <1>a, <1>b, <1>d
<1>11. ASSUME NEW p \in Requests, PauseBusy(p) PROVE [Guard!Next]_<<LockHolder, library, frequent, InHand>>
  BY <1>11, <1>c DEF PauseBusy
<1>12. ASSUME NEW p \in Requests, PauseRetries(p) PROVE [Guard!Next]_<<LockHolder, library, frequent, InHand>>
  BY <1>12, <1>c DEF PauseRetries
<1>13. ASSUME NEW p \in Requests, PauseGivesUp(p) PROVE [Guard!Next]_<<LockHolder, library, frequent, InHand>>
  BY <1>13, <1>c DEF PauseGivesUp, Return
<1>14. ASSUME NEW p \in Requests, PauseExpires(p) PROVE [Guard!Next]_<<LockHolder, library, frequent, InHand>>
  BY <1>14, <1>c DEF PauseExpires
<1>15. ASSUME NEW p \in Requests, StoreKey(p) PROVE [Guard!Next]_<<LockHolder, library, frequent, InHand>>
  BY <1>15, <1>c DEF StoreKey
<1>16. ASSUME NEW p \in Requests, WipeLibrary(p) PROVE [Guard!Next]_<<LockHolder, library, frequent, InHand>>
  <2>1. Holds(p) /\ Holds(p)'
    BY <1>16 DEF WipeLibrary
  <2>2. Guard!Wipe(p)
    BY <1>16, <2>1, <1>a, <1>b, <1>g DEF WipeLibrary, Guard!Wipe
  <2> QED
    BY <2>2 DEF Guard!Next
<1>17. ASSUME NEW p \in Requests, ReleaseSettings(p) PROVE [Guard!Next]_<<LockHolder, library, frequent, InHand>>
  <2>1. /\ Holds(p) /\ library' = library /\ frequent' = frequent /\ pass' = pass
        /\ \A q \in Procs : ~Holds(q)'
    BY <1>17 DEF ReleaseSettings
  <2> QED
    BY <2>1, <1>a, <1>b, <1>e
<1>18. ASSUME NEW p \in Requests, SettingsFails(p) PROVE [Guard!Next]_<<LockHolder, library, frequent, InHand>>
  <2>1. /\ Holds(p) /\ library' = library /\ frequent' = frequent /\ pass' = pass
        /\ \A q \in Procs : ~Holds(q)'
    BY <1>18 DEF SettingsFails, Return
  <2> QED
    BY <2>1, <1>a, <1>b, <1>e
<1>19. ASSUME NEW l \in {Startup, Periodic}, LoopStarts(l) PROVE [Guard!Next]_<<LockHolder, library, frequent, InHand>>
  <2>1. /\ \A q \in Procs : ~Holds(q)
        /\ Holds(l)' /\ library' = library /\ frequent' = frequent /\ pass' = pass
    BY <1>19 DEF LoopStarts, TryStart
  <2> QED
    BY <2>1, <1>a, <1>b, <1>d
<1>20. ASSUME NEW l \in {Startup, Periodic}, LoopSkips(l) PROVE [Guard!Next]_<<LockHolder, library, frequent, InHand>>
  BY <1>20, <1>c DEF LoopSkips, Return, AfterSync
<1>21. ASSUME NEW l \in {Startup, Periodic}, LoopReturns(l) PROVE [Guard!Next]_<<LockHolder, library, frequent, InHand>>
  BY <1>21, <1>c DEF LoopReturns, Return, AfterSync
<1>22. CASE PeriodicTick
  BY <1>22, <1>c DEF PeriodicTick
<1>23. CASE PeriodicStops
  BY <1>23, <1>c DEF PeriodicStops
<1>24. ASSUME NEW p \in Procs, RunWrites(p) PROVE [Guard!Next]_<<LockHolder, library, frequent, InHand>>
  <2>1. Holds(p) /\ Holds(p)' /\ runKey[p] \in Keys
    BY <1>24 DEF RunWrites, KeysInHand
  <2>2. Guard!AddRows(p, runKey[p])
    BY <1>24, <2>1, <1>a, <1>b, <1>g DEF RunWrites, Guard!AddRows
  <2> QED
    BY <2>1, <2>2 DEF Guard!Next
<1>25. ASSUME NEW p \in Procs, RunEnds(p) PROVE [Guard!Next]_<<LockHolder, library, frequent, InHand>>
  BY <1>25, <1>c DEF RunEnds
<1>26. ASSUME NEW p \in Procs, RunClearsCancel(p) PROVE [Guard!Next]_<<LockHolder, library, frequent, InHand>>
  BY <1>26, <1>c DEF RunClearsCancel
<1>27. ASSUME NEW p \in Procs, RunReleases(p) PROVE [Guard!Next]_<<LockHolder, library, frequent, InHand>>
  <2>1. /\ Holds(p) /\ library' = library /\ frequent' = frequent /\ pass' = pass
        /\ \A q \in Procs : ~Holds(q)'
    BY <1>27 DEF RunReleases
  <2> QED
    BY <2>1, <1>a, <1>b, <1>e
<1>28. CASE Shutdown
  BY <1>28, <1>c DEF Shutdown
<1>29. CASE Exit
  <2>1. /\ library' = library /\ frequent' = frequent /\ pass' = [s \in Passes |-> NoPass]
        /\ \A q \in Procs : ~Holds(q)'
    BY <1>29 DEF Exit, Reboot, BootPC, BootKey
  <2> QED
    BY <2>1, <1>b, <1>h
<1>30. CASE Crash
  <2>1. /\ library' = library /\ frequent' = frequent /\ pass' = [s \in Passes |-> NoPass]
        /\ \A q \in Procs : ~Holds(q)'
    BY <1>30 DEF Crash, Reboot, BootPC, BootKey
  <2> QED
    BY <2>1, <1>b, <1>h
<1>32. ASSUME NEW p \in Procs, NEW s \in Passes, RunRecomputes(p, s) PROVE Guard!Next
  <2>1. Holds(p) /\ LockHolder = p /\ LockHolder' = LockHolder
    BY <1>32, <1>a, <1>f DEF RunRecomputes
  <2>2. InHand' = InHand \union {library}
    <3>1. \A t \in Passes : /\ t # s => pass'[t].at = pass[t].at /\ pass'[t].rows = pass[t].rows
                            /\ t = s => pass[t].at = "none" /\ pass'[t].at # "none" /\ pass'[t].rows = library
      BY <1>32 DEF RunRecomputes, NewestPass, PassType
    <3> QED
      BY <3>1 DEF InHand
  <2>3. Guard!Recompute(p)
    BY <1>32, <2>1, <2>2 DEF RunRecomputes, Guard!Recompute
  <2> QED
    BY <2>3 DEF Guard!Next
<1>33. ASSUME NEW s \in Passes, LibraryComputes(s) PROVE Guard!Next
  <2>1. LockHolder' = LockHolder
    BY <1>33, <1>f DEF LibraryComputes
  <2>2. InHand' = InHand \union {library}
    <3>1. \A t \in Passes : /\ t # s => pass'[t] = pass[t]
                            /\ t = s => pass[t].at = "none" /\ pass'[t].at # "none" /\ pass'[t].rows = library
      BY <1>33 DEF LibraryComputes, PassType
    <3> QED
      BY <3>1 DEF InHand
  <2>3. Guard!Compute
    BY <1>33, <2>1, <2>2 DEF LibraryComputes, Guard!Compute
  <2> QED
    BY <2>3 DEF Guard!Next
<1>34. ASSUME NEW s \in Passes, LibraryReplaces(s) PROVE Guard!Next
  <2>1. LockHolder' = LockHolder
    BY <1>34, <1>f DEF LibraryReplaces
  <2>2. \A t \in Passes : /\ t # s => pass'[t].at = pass[t].at
                          /\ pass'[t].rows = pass[t].rows /\ pass[s].at # "none"
    BY <1>34 DEF LibraryReplaces, NewestPass, PassType
  <2>3. InHand' \subseteq InHand /\ frequent' \in InHand
    BY <1>34, <2>2 DEF InHand, LibraryReplaces
  <2>4. Guard!Write
    BY <1>34, <2>1, <2>3 DEF LibraryReplaces, Guard!Write
  <2> QED
    BY <2>4 DEF Guard!Next
<1>i. ASSUME NEW s \in Passes,
             pass' = [pass EXCEPT ![s] = NoPass] \/ pass' = [pass EXCEPT ![s] = [at |-> "checked", rows |-> @.rows, newest |-> FALSE]],
             pass[s].at # "none"
      PROVE  InHand' \subseteq InHand /\ pass[s].rows \in InHand
  <2>1. \A t \in Passes : pass'[t].at # "none" => pass'[t].rows = pass[t].rows /\ pass[t].at # "none"
    BY <1>i
  <2> QED
    BY <1>i, <2>1 DEF InHand
<1>35. ASSUME NEW s \in Passes, LabelsCompare(s) PROVE Guard!Next
  <2>1. LockHolder' = LockHolder
    BY <1>35, <1>f DEF LabelsCompare
  <2>2. Guard!Forget
    BY <1>35, <1>i, <2>1 DEF LabelsCompare, Guard!Forget
  <2> QED
    BY <2>2 DEF Guard!Next
<1>36. ASSUME NEW s \in Passes, LabelsWrite(s) PROVE Guard!Next
  <2>1. LockHolder' = LockHolder
    BY <1>36, <1>f DEF LabelsWrite
  <2>2. Guard!Write
    BY <1>36, <1>i, <2>1 DEF LabelsWrite, Guard!Write
  <2> QED
    BY <2>2 DEF Guard!Next
<1>37. ASSUME NEW s \in Passes, PassFails(s) PROVE Guard!Next
  <2>1. LockHolder' = LockHolder
    BY <1>37, <1>f DEF PassFails
  <2>2. Guard!Forget
    BY <1>37, <1>i, <2>1 DEF PassFails, Guard!Forget
  <2> QED
    BY <2>2 DEF Guard!Next
<1>31. CASE UNCHANGED vars
  BY <1>31, <1>c DEF vars
<1> QED
  BY <1>1, <1>2, <1>3, <1>4, <1>5, <1>6, <1>7, <1>8, <1>9, <1>10, <1>11, <1>12, <1>13,
     <1>14, <1>15, <1>16, <1>17, <1>18, <1>19, <1>20, <1>21, <1>22, <1>23, <1>24,
     <1>25, <1>26, <1>27, <1>28, <1>29, <1>30, <1>31, <1>32, <1>33, <1>34,
     <1>35, <1>36, <1>37 DEF Next, Running, RequestStep,
     LoopStep, RunStep, LabelStep

\* The lock implements its abstract specification: the library is only ever touched by
\* the party that holds the lock, and the frequent locations are what somebody found in it.
THEOREM LibraryGuarded == Spec => ImplementsLibraryGuard
<1>1. Init => Guard!Init
  <2> SUFFICES ASSUME Init PROVE Guard!Init
    OBVIOUS
  <2>1. InHand = {}
    BY DEF Init, InHand, NoPass
  <2>2. LockHolder = None
    BY ProcsAssumption DEF Init, LockHolder, Holds, BootPC, Procs, Section
  <2> QED
    BY <2>1, <2>2 DEF Init, Guard!Init
<1>2. Spec => []TypeInv
  BY InitTypeInv, StepTypeInv, PTL DEF Spec
<1> QED
  BY <1>1, <1>2, StepGuard, MutualExclusionHolds, PTL
     DEF Spec, ImplementsLibraryGuard, Guard!Spec, Guard!vars
=============================================================================
