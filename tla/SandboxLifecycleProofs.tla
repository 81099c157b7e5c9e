------------------------ MODULE SandboxLifecycleProofs ------------------------
(***************************************************************************)
(* Proofs about SandboxLifecycle, for every set of backend kinds, every    *)
(* bound and any number of crashes and profile changes, as long as writes  *)
(* of the session state file succeed (PoisonedStore.cfg shows what a       *)
(* failed one does).                                                       *)
(*                                                                         *)
(* The parts of WorkInv and DeadlineInv are shown to be preserved one by   *)
(* one; each lemma has one step per action.                                *)
(***************************************************************************)
EXTENDS SandboxLifecycleInv, TLAPS

\* No DockerBackend with an armed expiry timer is replaced under a running host.
TimersKept == ~("edit" \in Moves /\ "docker" \in Kinds)

\* A fresh installation satisfies both invariants.
LEMMA InitHolds == Init => WorkInv /\ DeadlineKept /\ NoStray
<1> SUFFICES ASSUME Init PROVE WorkInv /\ DeadlineKept /\ NoStray
  OBVIOUS
<1> USE KindsAssumption DEF Init, Sandbox
<1>1. TypeOK
  BY DEF TypeOK, Fields, WellFormed, Absent, Box, Deadline, RecState, Pcs, NoFile,
         AllKinds
<1>2. StoreSynced /\ WriteAwaited /\ HolderAgrees /\ KindKnown
  BY DEF StoreSynced, WriteAwaited, HolderAgrees, OnSandbox, KindKnown, Absent
<1>3. WorkKept /\ WorkMoving
  BY DEF WorkKept, WorkMoving, Absent
<1>4. DeadlineKept /\ NoStray
  BY SMTT(30) DEF DeadlineKept, NoStray
<1> QED BY <1>1, <1>2, <1>3, <1>4 DEF WorkInv

-----------------------------------------------------------------------------
(* Types *)

\* Every step keeps the types and the shapes of the stored records.
LEMMA TypeStep ==
  ASSUME WorkInv, ~WritesFail, Next
  PROVE  TypeOK'
<1> USE DEF WorkInv, store, files, bounds, Goto, Return, Throw, Set, TypeOK,
        Absent, NoFile, Fields, RecState, Deadline, Pcs, WellFormed, Box
<1>1. CASE Persist
  BY <1>1 DEF Persist
<1>2. CASE ForgetFiles
  BY <1>2 DEF ForgetFiles
<1>3. CASE EnsureRunning
  BY <1>3 DEF EnsureRunning, forgetSession
<1>4. CASE Reclaim
  BY <1>4 DEF Reclaim, destroyed, Gone, Sandbox, forgetSession, RunningRecord,
     OnSandbox, Live
<1>5. CASE Fresh
  BY <1>5 DEF Fresh
<1>6. CASE Claim
  BY <1>6, KindsAssumption DEF Claim, provision, FreeIds, Sandbox,
     RunningRecord, supportsHibernate, Holds
<1>7. CASE Attach
  BY <1>7 DEF Attach
<1>8. CASE Reuse
  BY <1>8 DEF Reuse
<1>9. CASE Health
  BY <1>9 DEF Health
<1>10. CASE Wake
  BY <1>10 DEF Wake, Awake, Sandbox, woken, RunningRecord, WakeEffects
<1>11. CASE ReplaceDestroy
  BY <1>11 DEF ReplaceDestroy, destroyed, Gone, Sandbox, forgetSession,
     RunningRecord, OnSandbox
<1>12. CASE Load
  BY <1>12 DEF Load
<1>13. CASE RestoreAttach
  BY <1>13 DEF RestoreAttach, HolderAgrees, WorkKept, StoreSynced, RunningRecord
<1>14. CASE RestoreUndo
  BY <1>14 DEF RestoreUndo, destroyed, Gone, Sandbox
<1>15. CASE RestoreRemove
  BY <1>15 DEF RestoreRemove
<1>16. CASE Hibernate
  BY <1>16 DEF Hibernate
<1>17. CASE Park
  BY <1>17 DEF Park, NotFound, forgetSession
<1>18. CASE ParkExpire
  BY <1>18 DEF ParkExpire, HolderAgrees, HibernatedRecord, NotFound,
     forgetSession, RunningRecord, OnSandbox
<1>19. CASE CpRunner
  BY <1>19 DEF CpRunner, NotFound, forgetSession
<1>20. CASE CpSave
  BY <1>20 DEF CpSave, Up, Live, saved
<1>21. CASE CpBundle
  BY <1>21 DEF CpBundle
<1>22. CASE CpTar
  BY <1>22 DEF CpTar, HolderAgrees, WorkMoving, saveTar, CheckpointedRecord,
     OnSandbox
<1>23. CASE CpDestroy
  BY <1>23 DEF CpDestroy, destroyed, Gone, Sandbox, OnSandbox, SameBox
<1>24. CASE SuspendEnd
  BY <1>24 DEF SuspendEnd
<1>25. CASE Release
  BY <1>25 DEF Release, releaseSession
<1>26. CASE RelDestroy
  BY <1>26 DEF RelDestroy, destroyed, Gone, Sandbox, forgetSession,
     RunningRecord, OnSandbox
<1>27. CASE Crash
  BY <1>27 DEF Crash, Sandbox
<1>28. CASE Boot
  BY <1>28 DEF Boot, releaseSession
<1>29. CASE BootExpire
  BY <1>29 DEF BootExpire, releaseSession
<1>30. CASE Work
  BY <1>30 DEF Work, Up, Live
<1>31. ASSUME NEW k \in Kinds, Lose(k) PROVE TypeOK'
  BY <1>31 DEF Lose, Vanish, Gone, Sandbox
<1>32. ASSUME NEW k \in Kinds, Expire(k) PROVE TypeOK'
  BY <1>32 DEF Expire, Vanish, Gone, Sandbox
<1>33. CASE Lapse
  BY SMTT(30), <1>33 DEF Lapse, Pass, Sandbox, RunningRecord
<1>34. CASE update
  BY <1>34 DEF update, EditProfile, MoveProfile, Sandbox
<1> QED
  BY <1>1, <1>2, <1>3, <1>4, <1>5, <1>6, <1>7, <1>8, <1>9, <1>10, <1>11, <1>12,
     <1>13, <1>14, <1>15, <1>16, <1>17, <1>18, <1>19, <1>20, <1>21, <1>22,
     <1>23, <1>24, <1>25, <1>26, <1>27, <1>28, <1>29, <1>30, <1>31, <1>32,
     <1>33, <1>34
  DEF Next, Serve, Restore, Suspend, Host, Environment

-----------------------------------------------------------------------------
(* What the lock holder may rely on *)

\* Every step keeps memory, disk and the lock holder's record in agreement: an
\* operation never resumes from an await on a record another one replaced.
LEMMA RecordStep ==
  ASSUME WorkInv, ~WritesFail, Next
  PROVE  StoreSynced' /\ WriteAwaited' /\ HolderAgrees' /\ KindKnown'
<1> USE DEF WorkInv, store, files, bounds, Goto, Return, Throw, Set,
        StoreSynced, WriteAwaited, HolderAgrees, KindKnown, OnSandbox
<1>1. CASE Persist
  BY <1>1 DEF Persist, Absent, SameBox
<1>2. CASE ForgetFiles
  BY <1>2 DEF ForgetFiles
<1>3. CASE EnsureRunning
  BY <1>3 DEF EnsureRunning, forgetSession, TypeOK, SameBox, WellFormed, Absent
<1>4. CASE Reclaim
  BY <1>4 DEF Reclaim, forgetSession, TypeOK, destroyed, Gone, Sandbox, Absent,
     Live
<1>5. CASE Fresh
  BY <1>5 DEF Fresh
<1>6. CASE Claim
  BY <1>6 DEF Claim, TypeOK, RunningRecord, provision, Sandbox, Box
<1>7. CASE Attach
  BY <1>7 DEF Attach
<1>8. CASE Reuse
  BY <1>8 DEF Reuse
<1>9. CASE Health
  BY <1>9 DEF Health
<1>10. CASE Wake
  BY <1>10 DEF Wake, woken, RunningRecord, SameBox, Live, TypeOK, Awake,
     Sandbox, WakeEffects, Box
<1>11. CASE ReplaceDestroy
  BY <1>11 DEF ReplaceDestroy, forgetSession, destroyed, Absent
<1>12. CASE Load
  BY <1>12 DEF Load
<1>13. CASE RestoreAttach
  BY <1>13 DEF RestoreAttach, RunningRecord, TypeOK, Box
<1>14. CASE RestoreUndo
  BY <1>14 DEF RestoreUndo, TypeOK, destroyed, Gone, Sandbox
<1>15. CASE RestoreRemove
  BY <1>15 DEF RestoreRemove
<1>16. CASE Hibernate
  BY <1>16 DEF Hibernate, TypeOK, Absent, SameBox, RunningRecord, WellFormed
<1>17. CASE Park
  BY <1>17 DEF Park, NotFound, forgetSession, TypeOK, Absent
<1>18. CASE ParkExpire
  BY <1>18 DEF ParkExpire, NotFound, forgetSession, HibernatedRecord, SameBox,
     TypeOK, Live, HostTimers, Absent
<1>19. CASE CpRunner
  BY <1>19 DEF CpRunner, NotFound, forgetSession, Absent
<1>20. CASE CpSave
  BY <1>20 DEF CpSave, saved, SameBox
<1>21. CASE CpBundle
  BY <1>21 DEF CpBundle
<1>22. CASE CpTar
  BY <1>22 DEF CpTar, CheckpointedRecord, SameBox
<1>23. CASE CpDestroy
  BY <1>23 DEF CpDestroy, TypeOK, destroyed, Gone, Sandbox
<1>24. CASE SuspendEnd
  BY <1>24 DEF SuspendEnd
<1>25. CASE Release
  BY <1>25 DEF Release, releaseSession, TypeOK, findBackend, Absent, SameBox,
     WellFormed
<1>26. CASE RelDestroy
  BY <1>26 DEF RelDestroy, forgetSession, TypeOK, destroyed, Gone, Sandbox,
     Absent
<1>27. CASE Crash
  BY <1>27 DEF Crash, Absent, Sandbox
<1>28. CASE Boot
  BY <1>28 DEF Boot, releaseSession, TypeOK, findBackend, hasExpired, Absent,
     SameBox, WellFormed
<1>29. CASE BootExpire
  BY <1>29 DEF BootExpire, releaseSession, SameBox, TypeOK, Absent, Box
<1>30. CASE Work
  BY <1>30 DEF Work
<1>31. ASSUME NEW k \in Kinds, Lose(k) PROVE StoreSynced' /\ WriteAwaited' /\ HolderAgrees' /\ KindKnown'
  BY <1>31 DEF Lose, Vanish, Gone, Sandbox, Live
<1>32. ASSUME NEW k \in Kinds, Expire(k) PROVE StoreSynced' /\ WriteAwaited' /\ HolderAgrees' /\ KindKnown'
  BY <1>32 DEF Expire, Vanish, Gone, Sandbox, Live
<1>33. CASE Lapse
  BY <1>33 DEF Lapse, Pass, Absent, SameBox, Sandbox, Live, RunningRecord
<1>34. CASE update
  BY <1>34 DEF update, EditProfile, MoveProfile, Live, Sandbox
<1> QED
  BY <1>1, <1>2, <1>3, <1>4, <1>5, <1>6, <1>7, <1>8, <1>9, <1>10, <1>11, <1>12,
     <1>13, <1>14, <1>15, <1>16, <1>17, <1>18, <1>19, <1>20, <1>21, <1>22,
     <1>23, <1>24, <1>25, <1>26, <1>27, <1>28, <1>29, <1>30, <1>31, <1>32,
     <1>33, <1>34
  DEF Next, Serve, Restore, Suspend, Host, Environment

-----------------------------------------------------------------------------
(* Where the work is *)

\* Every step keeps the work the session is owed where the stored record points.
LEMMA WorkStep ==
  ASSUME WorkInv, ~WritesFail, Next
  PROVE  WorkKept' /\ WorkMoving'
<1> USE DEF WorkInv, store, files, bounds, Goto, Return, Throw, Set, WorkKept,
        WorkMoving, Holds, Live
<1>1. CASE Persist
  BY <1>1 DEF Persist, WriteAwaited, Absent, SameBox
<1>2. CASE ForgetFiles
  BY <1>2 DEF ForgetFiles, HolderAgrees, Absent
<1>3. CASE EnsureRunning
  BY <1>3 DEF EnsureRunning, TypeOK, forgetSession
<1>4. CASE Reclaim
  BY <1>4 DEF Reclaim, forgetSession, destroyed, Gone, Sandbox
<1>5. CASE Fresh
  BY <1>5 DEF Fresh
<1>6. CASE Claim
  BY <1>6 DEF Claim, HolderAgrees, Absent
<1>7. CASE Attach
  BY <1>7 DEF Attach
<1>8. CASE Reuse
  BY <1>8 DEF Reuse
<1>9. CASE Health
  BY <1>9 DEF Health
<1>10. CASE Wake
  BY <1>10 DEF Wake, TypeOK, Awake, Sandbox, WakeEffects, Box, HolderAgrees,
     SameBox, OnSandbox
<1>11. CASE ReplaceDestroy
  BY <1>11 DEF ReplaceDestroy, forgetSession
<1>12. CASE Load
  BY <1>12 DEF Load
<1>13. CASE RestoreAttach
  BY <1>13 DEF RestoreAttach, HolderAgrees, StoreSynced, TypeOK, Up, Box
<1>14. CASE RestoreUndo
  BY <1>14 DEF RestoreUndo, HolderAgrees
<1>15. CASE RestoreRemove
  BY <1>15 DEF RestoreRemove, HolderAgrees
<1>16. CASE Hibernate
  BY <1>16 DEF Hibernate
<1>17. CASE Park
  BY <1>17 DEF Park, TypeOK, NotFound, forgetSession, Box, HolderAgrees,
     SameBox, OnSandbox
<1>18. CASE ParkExpire
  BY <1>18 DEF ParkExpire, TypeOK, NotFound, forgetSession, Box, HolderAgrees,
     SameBox, OnSandbox
<1>19. CASE CpRunner
  BY <1>19 DEF CpRunner, NotFound, forgetSession, HolderAgrees, KindKnown,
     TypeOK, Up, SameBox, supportsHibernate, OnSandbox, RunningRecord, Fields,
     WellFormed, Box, Pcs
<1>20. CASE CpSave
  BY <1>20 DEF CpSave, HolderAgrees, TypeOK, saved, SameBox, OnSandbox, Box
<1>21. CASE CpBundle
  BY <1>21 DEF CpBundle, HolderAgrees
<1>22. CASE CpTar
  BY <1>22 DEF CpTar, HolderAgrees, saveTar, CheckpointedRecord
<1>23. CASE CpDestroy
  BY <1>23 DEF CpDestroy, HolderAgrees
<1>24. CASE SuspendEnd
  BY <1>24 DEF SuspendEnd
<1>25. CASE Release
  BY <1>25 DEF Release, TypeOK, releaseSession
<1>26. CASE RelDestroy
  BY <1>26 DEF RelDestroy, forgetSession
<1>27. CASE Crash
  BY <1>27 DEF Crash, Sandbox
<1>28. CASE Boot
  BY <1>28 DEF Boot, TypeOK, releaseSession
<1>29. CASE BootExpire
  BY <1>29 DEF BootExpire, TypeOK, releaseSession, Box
<1>30. CASE Work
  BY <1>30 DEF Work, StoreSynced, TypeOK, Up, Box
<1>31. ASSUME NEW k \in Kinds, Lose(k) PROVE WorkKept' /\ WorkMoving'
  BY <1>31 DEF Lose, TypeOK, Vanish, BundleIsTruth
<1>32. ASSUME NEW k \in Kinds, Expire(k) PROVE WorkKept' /\ WorkMoving'
  BY <1>32 DEF Expire, TypeOK, Vanish, BundleIsTruth
<1>33. CASE Lapse
  BY <1>33 DEF Lapse, Sandbox
<1>34. CASE update
  BY <1>34 DEF update, EditProfile, MoveProfile, Sandbox
<1> QED
  BY <1>1, <1>2, <1>3, <1>4, <1>5, <1>6, <1>7, <1>8, <1>9, <1>10, <1>11, <1>12,
     <1>13, <1>14, <1>15, <1>16, <1>17, <1>18, <1>19, <1>20, <1>21, <1>22,
     <1>23, <1>24, <1>25, <1>26, <1>27, <1>28, <1>29, <1>30, <1>31, <1>32,
     <1>33, <1>34
  DEF Next, Serve, Restore, Suspend, Host, Environment

\* WorkInv holds in every reachable state.
THEOREM WorkInvariant == ASSUME ~WritesFail PROVE Spec => []WorkInv
<1>1. WorkInv /\ [Next]_vars => WorkInv'
  <2>1. ASSUME WorkInv, Next PROVE WorkInv'
    BY <2>1, ~WritesFail, TypeStep, RecordStep, WorkStep DEF WorkInv
  <2>2. ASSUME WorkInv, UNCHANGED vars PROVE WorkInv'
    BY <2>2 DEF vars, WorkInv, TypeOK, StoreSynced, WriteAwaited, HolderAgrees,
                KindKnown, WorkKept, WorkMoving, Holds, Live
  <2> QED BY <2>1, <2>2
<1> QED
  BY <1>1, InitHolds, PTL DEF Spec

\* Types, and the stored records are of the declared shapes: a running record never
\* carries a deadline, a checkpointed one never names a sandbox.
THEOREM TypeCorrect == ASSUME ~WritesFail PROVE Spec => []TypeOK
<1>1. WorkInv => TypeOK
  BY DEF WorkInv
<1> QED
  BY <1>1, WorkInvariant, ~WritesFail, PTL

\* No interleaving of crashes, failed calls, lost sandboxes, expiries and profile
\* changes with save, record, destroy, claim, restore and wake hands a turn a
\* sandbox that lacks work the session is owed.
THEOREM WorkNeverLost == ASSUME ~WritesFail PROVE Spec => []NoWorkLost
<1>1. WorkInv => NoWorkLost
  <2> SUFFICES ASSUME WorkInv, Served PROVE box[rec.backend].tree >= head
    BY DEF NoWorkLost
  <2>1. rec = disk /\ disk.state = "running" /\ rec.backend \in Kinds
    BY DEF Served, WorkInv, StoreSynced, Up, Live
  <2>2. box[rec.backend].tree \in Nat
    BY <2>1 DEF WorkInv, TypeOK, Box
  <2> QED BY <2>1, <2>2 DEF WorkInv, WorkKept, Holds
<1> QED
  BY <1>1, WorkInvariant, ~WritesFail, PTL

\* Whenever the record on disk says checkpointed, the files beside it are the ones
\* it names and hold everything the session is owed.
THEOREM CheckpointAlwaysTrue == ASSUME ~WritesFail PROVE Spec => []CheckpointIsTruth
<1>1. WorkInv => CheckpointIsTruth
  BY DEF WorkInv, WorkKept, CheckpointIsTruth
<1> QED
  BY <1>1, WorkInvariant, ~WritesFail, PTL

-----------------------------------------------------------------------------
(* Deadlines *)

\* Every step keeps deadlines on parked sandboxes of stored records only.
LEMMA DeadlineStep ==
  ASSUME WorkInv, DeadlineKept, NoStray, ~WritesFail, TimersKept, Next
  PROVE  DeadlineKept' /\ NoStray'
<1> USE DEF WorkInv, store, files, bounds, Goto, Return, Throw, Set,
        DeadlineKept, NoStray, Live
<1>1. CASE Persist
  BY <1>1 DEF Persist, WriteAwaited, SameBox
<1>2. CASE ForgetFiles
  BY <1>2 DEF ForgetFiles, HolderAgrees
<1>3. CASE EnsureRunning
  BY <1>3 DEF EnsureRunning, StoreSynced, forgetSession
<1>4. CASE Reclaim
  BY <1>4 DEF Reclaim, HolderAgrees, TypeOK, destroyed, Gone, Sandbox,
     forgetSession, SameBox, OnSandbox
<1>5. CASE Fresh
  BY <1>5 DEF Fresh
<1>6. CASE Claim
  BY <1>6 DEF Claim, HolderAgrees, TypeOK, Absent, provision, Sandbox, Box
<1>7. CASE Attach
  BY <1>7 DEF Attach
<1>8. CASE Reuse
  BY <1>8 DEF Reuse
<1>9. CASE Health
  BY <1>9 DEF Health
<1>10. CASE Wake
  BY <1>10 DEF Wake, HolderAgrees, TypeOK, Awake, Sandbox, WakeEffects, SameBox,
     OnSandbox, Deadline, WellFormed, Box
<1>11. CASE ReplaceDestroy
  BY <1>11 DEF ReplaceDestroy, HolderAgrees, destroyed, Up, SameBox, OnSandbox,
     TypeOK, Gone, Sandbox
<1>12. CASE Load
  BY <1>12 DEF Load
<1>13. CASE RestoreAttach
  BY <1>13 DEF RestoreAttach, HolderAgrees, TypeOK, Box
<1>14. CASE RestoreUndo
  BY <1>14 DEF RestoreUndo, TypeOK, destroyed, Gone, Sandbox
<1>15. CASE RestoreRemove
  BY <1>15 DEF RestoreRemove
<1>16. CASE Hibernate
  BY <1>16 DEF Hibernate
<1>17. CASE Park
  BY <1>17 DEF Park, HolderAgrees, TypeOK, NotFound, Up, SameBox, OnSandbox, Box
<1>18. CASE ParkExpire
  BY <1>18 DEF ParkExpire, HolderAgrees, TypeOK, NotFound, Up, SameBox,
     OnSandbox, RunningRecord, Deadline, WellFormed, Box
<1>19. CASE CpRunner
  BY <1>19 DEF CpRunner, HolderAgrees, Up, NotFound, SameBox, OnSandbox
<1>20. CASE CpSave
  BY <1>20 DEF CpSave
<1>21. CASE CpBundle
  BY <1>21 DEF CpBundle
<1>22. CASE CpTar
  BY <1>22 DEF CpTar
<1>23. CASE CpDestroy
  BY <1>23 DEF CpDestroy, TypeOK, destroyed, Gone, Sandbox
<1>24. CASE SuspendEnd
  BY <1>24 DEF SuspendEnd
<1>25. CASE Release
  BY <1>25 DEF Release, StoreSynced, releaseSession
<1>26. CASE RelDestroy
  BY <1>26 DEF RelDestroy, HolderAgrees, TypeOK, destroyed, Gone, Sandbox,
     forgetSession, SameBox, OnSandbox
<1>27. CASE Crash
  BY <1>27 DEF Crash, Sandbox
<1>28. CASE Boot
  BY <1>28 DEF Boot, releaseSession
<1>29. CASE BootExpire
  BY <1>29, KindsAssumption DEF BootExpire, HolderAgrees, KindKnown, TypeOK,
     releaseSession, SameBox, OnSandbox, Box, Pcs
<1>30. CASE Work
  BY <1>30 DEF Work
<1>31. ASSUME NEW k \in Kinds, Lose(k) PROVE DeadlineKept' /\ NoStray'
  BY <1>31 DEF Lose, Vanish, Gone, Sandbox, Up
<1>32. ASSUME NEW k \in Kinds, Expire(k) PROVE DeadlineKept' /\ NoStray'
  BY <1>32 DEF Expire, Vanish, Gone, Sandbox, Up
<1>33. CASE Lapse
  BY <1>33 DEF Lapse, Pass, Sandbox, Up
<1>34. CASE update
  BY <1>34 DEF update, EditProfile, MoveProfile, Sandbox, Up, HostTimers,
     TimersKept
<1> QED
  BY <1>1, <1>2, <1>3, <1>4, <1>5, <1>6, <1>7, <1>8, <1>9, <1>10, <1>11, <1>12,
     <1>13, <1>14, <1>15, <1>16, <1>17, <1>18, <1>19, <1>20, <1>21, <1>22,
     <1>23, <1>24, <1>25, <1>26, <1>27, <1>28, <1>29, <1>30, <1>31, <1>32,
     <1>33, <1>34
  DEF Next, Serve, Restore, Suspend, Host, Environment

\* Where a deadline can be, at every await: on the sandbox of the stored record
\* only, and on an active one only while that record says hibernated, if Docker
\* profiles are not edited while the host runs (HiddenExpiry.cfg shows that case).
THEOREM DeadlinesKnown ==
  ASSUME ~WritesFail, TimersKept PROVE Spec => []DeadlineInv
<1>1. WorkInv /\ DeadlineKept /\ NoStray /\ [Next]_vars => (DeadlineKept /\ NoStray)'
  <2>1. ASSUME WorkInv, DeadlineKept, NoStray, Next PROVE (DeadlineKept /\ NoStray)'
    BY <2>1, ~WritesFail, TimersKept, DeadlineStep
  <2>2. ASSUME DeadlineKept, NoStray, UNCHANGED vars PROVE (DeadlineKept /\ NoStray)'
    BY <2>2 DEF vars, DeadlineKept, NoStray, Live, Up
  <2> QED BY <2>1, <2>2
<1>2. WorkInv /\ DeadlineKept /\ NoStray => DeadlineInv
  BY DEF DeadlineInv
<1> QED
  BY <1>1, <1>2, InitHolds, WorkInvariant, ~WritesFail, PTL DEF Spec

\* No turn ever works in a sandbox with a hidden expiry, if Docker profiles are not
\* edited while the host runs.
THEOREM NoExpiryHidden ==
  ASSUME ~WritesFail, TimersKept PROVE Spec => []NoHiddenExpiry
<1>1. DeadlineInv => NoHiddenExpiry
  BY DEF DeadlineInv, WorkInv, StoreSynced, DeadlineKept, NoStray, NoHiddenExpiry, Served, Up, Live
<1> QED
  BY <1>1, DeadlinesKnown, ~WritesFail, TimersKept, PTL

-----------------------------------------------------------------------------
(* The promise *)

\* Time passing changes nothing the session is promised.
LEMMA LapseStutters ==
  ASSUME WorkInv, Lapse PROVE UNCHANGED Promise!vars
<1> USE DEF WorkInv
<1>1. /\ disk'.state = disk.state /\ disk'.backend = disk.backend
      /\ disk'.sb = disk.sb /\ head' = head /\ bundle' = bundle
  BY DEF Lapse, TypeOK, Fields, files
<1>2. \A k \in Kinds : /\ box'[k].id = box[k].id /\ box'[k].st = box[k].st
                       /\ box'[k].tree = box[k].tree
  BY DEF Lapse, TypeOK, Sandbox
<1>3. Live(disk)' <=> Live(disk)
  BY <1>1, <1>2 DEF Live
<1>4. keptWork' = keptWork
  BY <1>1, <1>2, <1>3 DEF keptWork, Live
<1> QED BY <1>1, <1>4 DEF Promise!vars

\* A write of the state file is the step at which the promise moves: each write the
\* lock holder can await is one transition of the abstract machine.
LEMMA PersistStep ==
  ASSUME WorkInv, WorkInv', ~WritesFail, Persist
  PROVE  [Promise!Next]_(Promise!vars)
<1> USE DEF WorkInv
<1>1. /\ disk' = rec /\ UNCHANGED <<rec, bundle, box, head, held>>
      /\ pc = "persist" /\ chain = "resolved"
  BY DEF Persist, StoreSynced, Goto, files
<1>2. CASE then = "attach" /\ disk = Absent /\ rec.state = "running"
  <2>1. keptWork' \in Nat
    BY <1>1, <1>2 DEF keptWork, Live, TypeOK, Box
  <2> QED BY <1>1, <1>2, <2>1 DEF Promise!Next, Promise!Begin, Absent
<1>3. CASE SameBox(disk, rec) /\ /\ disk.state \in {"running", "hibernated"}
                                 /\ rec.state \in {"running", "hibernated"}
  <2>1. keptWork' = keptWork
    BY <1>1, <1>3 DEF keptWork, Live, SameBox
  <2> QED BY <1>1, <1>3, <2>1 DEF Promise!Next, Promise!Park, Promise!Wake, Promise!vars
<1>4. CASE then = "forgetFiles" /\ rec = Absent
  <2>1. keptWork' = 0 /\ head = 0
    BY <1>1, <1>4, KindsAssumption DEF keptWork, Live, Absent, AllKinds, WorkMoving
  <2> QED BY <1>1, <1>4, <2>1 DEF Promise!Next, Promise!Forget, Absent
<1>5. CASE then = "cpDestroy" /\ rec.state = "checkpointed" /\ disk.state = "running"
  <2>1. keptWork' = rec.cp /\ rec.cp >= head /\ rec.cp \in Nat
    BY <1>1, <1>5 DEF keptWork, WorkMoving, TypeOK, Fields
  <2> QED BY <1>1, <1>5, <2>1 DEF Promise!Next, Promise!Save
<1>6. CASE then = "restoreRemove" /\ rec.state = "running" /\ disk.state = "checkpointed"
           /\ rec = held
  <2>1. keptWork' \in Nat /\ keptWork' >= head
    BY <1>1, <1>6 DEF keptWork, Live, TypeOK, Box, WorkMoving, Holds
  <2> QED BY <1>1, <1>6, <2>1 DEF Promise!Next, Promise!Restore
<1> QED BY <1>1, <1>2, <1>3, <1>4, <1>5, <1>6 DEF WriteAwaited

\* Every step of the lifecycle is a step of the promise or leaves it alone.
LEMMA PromiseStep ==
  ASSUME WorkInv, WorkInv', ~WritesFail, Next
  PROVE  [Promise!Next]_(Promise!vars)
<1> USE DEF WorkInv, store, files, bounds, Goto, Return, Throw, Set, keptWork,
        Promise!Next, Promise!vars, Live
<1>1. CASE Persist
  BY <1>1, PersistStep
<1>2. CASE ForgetFiles
  BY <1>2 DEF ForgetFiles, HolderAgrees, Absent
<1>3. CASE EnsureRunning
  BY <1>3 DEF EnsureRunning, forgetSession, Promise!Renounce
<1>4. CASE Reclaim
  BY <1>4 DEF Reclaim, WorkMoving, TypeOK, destroyed, Gone, Sandbox,
     forgetSession, Promise!Renounce, Promise!Forget
<1>5. CASE Fresh
  BY <1>5 DEF Fresh
<1>6. CASE Claim
  BY <1>6 DEF Claim, TypeOK, provision, Sandbox, RunningRecord, WellFormed, Box
<1>7. CASE Attach
  BY <1>7 DEF Attach
<1>8. CASE Reuse
  BY <1>8 DEF Reuse
<1>9. CASE Health
  BY <1>9 DEF Health
<1>10. CASE Wake
  BY <1>10 DEF Wake, TypeOK, Awake, Sandbox, WakeEffects, Box, Pcs
<1>11. CASE ReplaceDestroy
  BY <1>11 DEF ReplaceDestroy, HolderAgrees, destroyed, forgetSession,
     Promise!Begin
<1>12. CASE Load
  BY <1>12 DEF Load
<1>13. CASE RestoreAttach
  BY <1>13 DEF RestoreAttach, HolderAgrees
<1>14. CASE RestoreUndo
  BY <1>14 DEF RestoreUndo, HolderAgrees
<1>15. CASE RestoreRemove
  BY <1>15 DEF RestoreRemove, HolderAgrees
<1>16. CASE Hibernate
  BY <1>16 DEF Hibernate
<1>17. CASE Park
  BY <1>17 DEF Park, TypeOK, NotFound, forgetSession, Box
<1>18. CASE ParkExpire
  BY <1>18 DEF ParkExpire, TypeOK, NotFound, forgetSession, Absent, Box, Pcs
<1>19. CASE CpRunner
  BY <1>19 DEF CpRunner, NotFound, forgetSession
<1>20. CASE CpSave
  BY <1>20 DEF CpSave
<1>21. CASE CpBundle
  BY <1>21 DEF CpBundle, HolderAgrees
<1>22. CASE CpTar
  BY <1>22 DEF CpTar
<1>23. CASE CpDestroy
  BY <1>23 DEF CpDestroy, HolderAgrees
<1>24. CASE SuspendEnd
  BY <1>24 DEF SuspendEnd
<1>25. CASE Release
  BY <1>25 DEF Release, releaseSession, Promise!Renounce
<1>26. CASE RelDestroy
  BY <1>26 DEF RelDestroy, WorkMoving, TypeOK, destroyed, Gone, Sandbox,
     forgetSession, Promise!Renounce, Promise!Forget
<1>27. CASE Crash
  BY <1>27 DEF Crash, Sandbox
<1>28. CASE Boot
  BY <1>28 DEF Boot, releaseSession, Promise!Renounce
<1>29. CASE BootExpire
  BY <1>29 DEF BootExpire, WorkKept, HolderAgrees, TypeOK, Holds, SameBox,
     supportsHibernate, OnSandbox, Box, Pcs
<1>30. CASE Work
  BY <1>30 DEF Work, StoreSynced, TypeOK, Up, Pcs, Promise!Do, Promise!Park
<1>31. ASSUME NEW k \in Kinds, Lose(k) PROVE [Promise!Next]_(Promise!vars)
  BY <1>31 DEF Lose, Vanish, Gone, Sandbox, BundleIsTruth, Promise!Renounce,
     Promise!Forget
<1>32. ASSUME NEW k \in Kinds, Expire(k) PROVE [Promise!Next]_(Promise!vars)
  BY <1>32 DEF Expire, Vanish, Gone, Sandbox, BundleIsTruth, Promise!Renounce,
     Promise!Forget
<1>33. CASE Lapse
  BY <1>33, LapseStutters
<1>34. CASE update
  BY <1>34 DEF update, EditProfile, MoveProfile, Sandbox
<1> QED
  BY <1>1, <1>2, <1>3, <1>4, <1>5, <1>6, <1>7, <1>8, <1>9, <1>10, <1>11, <1>12,
     <1>13, <1>14, <1>15, <1>16, <1>17, <1>18, <1>19, <1>20, <1>21, <1>22,
     <1>23, <1>24, <1>25, <1>26, <1>27, <1>28, <1>29, <1>30, <1>31, <1>32,
     <1>33, <1>34
  DEF Next, Serve, Restore, Suspend, Host, Environment

\* The lifecycle, with its sandboxes, files, lock and crashes, implements the
\* abstract machine of a session's record and the work it keeps.
THEOREM PromiseImplemented == ASSUME ~WritesFail PROVE Spec => ImplementsPromise
<1>1. Init => Promise!Init
  BY KindsAssumption DEF Init, Promise!Init, keptWork, Absent, Live, AllKinds
<1>2. WorkInv /\ WorkInv' /\ [Next]_vars => [Promise!Next]_(Promise!vars)
  <2>1. ASSUME WorkInv, WorkInv', Next PROVE [Promise!Next]_(Promise!vars)
    BY <2>1, ~WritesFail, PromiseStep
  <2>2. ASSUME UNCHANGED vars PROVE UNCHANGED Promise!vars
    BY <2>2 DEF vars, Promise!vars, keptWork, Live
  <2> QED BY <2>1, <2>2
<1> QED
  BY <1>1, <1>2, WorkInvariant, ~WritesFail, PTL
  DEF Spec, ImplementsPromise, Promise!Spec

=============================================================================
