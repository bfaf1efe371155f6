----------------------- MODULE SessionLifecycleProofs -----------------------
(* Theorems about SessionLifecycle, for every set of processes, both session *)
(* modes, every mix of commands and any number of launches.                  *)
EXTENDS SessionLifecycle, TLAPS

\* What the proofs need to know of the two stage lists.
LEMMA StagesFacts ==
    /\ NStages \in Nat /\ NStages >= 3
    /\ Stages[1] = "vm_cloned" /\ Stages[3] = "vm_started"
    /\ \A i \in 1..NStages : Stages[i] \in StageNames
<1>1. CASE Mode = "sandbox"
  BY <1>1 DEF Stages, NStages, StageNames
<1>2. CASE Mode = "repo"
  BY <1>2 DEF Stages, NStages, StageNames
<1> QED
  BY <1>1, <1>2, LifecycleAssumption

\* The initial state satisfies the whole inductive invariant.
LEMMA InitIInv == Init => IInv
<1> SUFFICES ASSUME Init PROVE IInv
  OBVIOUS
<1> USE DEF Init
<1>1. TypeOK
  BY StagesFacts, LifecycleAssumption DEF TypeOK, Idle, Lives, Syncs
<1>2. LockInv /\ LockMetadataTruthful /\ StageInv
  BY StagesFacts, LifecycleAssumption
     DEF LockInv, LockMetadataTruthful, StageInv, LockedPcs, LaunchPcs, SyncPcs,
         ClosePcs, RepairPcs, Idle, BeforeClone
<1>3. ProgressInv /\ BlankInv /\ GoneInv /\ RowInv
  BY DEF ProgressInv, BlankInv, OrphanIsBlank, GoneInv, ClosedMeansGone,
         RowInv, Idle, BeforeClone, AfterClone
<1> QED
  BY <1>1, <1>2, <1>3 DEF IInv

\* One step keeps the types, and a launch phase within the list of stages.
LEMMA TypeStep == ASSUME TypeOK, StageInv, [Next]_vars PROVE TypeOK' /\ StageInv'
<1> USE StagesFacts, LifecycleAssumption
<1> USE DEF TypeOK, StageInv, BeforeClone, Idle, Lives, Syncs, AllCommands,
            LockedPcs, LaunchPcs, SyncPcs, ClosePcs, RepairPcs, UnlockedPcs,
            catalog, machine, local, Goto, Step, SetLife, Exit
<1>1. CASE UNCHANGED vars
  BY <1>1 DEF vars
<1>2. ASSUME NEW p \in Procs, Begin(p) PROVE TypeOK' /\ StageInv'
  <2>1. CASE LaunchBegin(p)
    BY <2>1 DEF LaunchBegin, SlotFree
  <2>2. CASE RetryBegin(p)
    BY <2>2 DEF RetryBegin, CanResume, Admit
  <2>3. CASE CloseSyncBegin(p)
    BY <2>3 DEF CloseSyncBegin, Admit
  <2>4. CASE CloseDiscardBegin(p)
    BY <2>4 DEF CloseDiscardBegin, Admit
  <2>5. CASE SyncBegin(p)
    BY <2>5 DEF SyncBegin, Admit
  <2>6. CASE RepairBegin(p)
    BY <2>6 DEF RepairBegin, FirstRepairStep, Admit
  <2> QED
    BY <1>2, <2>1, <2>2, <2>3, <2>4, <2>5, <2>6 DEF Begin
<1>3. ASSUME NEW p \in Procs, LaunchStep(p) PROVE TypeOK' /\ StageInv'
  <2>1. CASE SetLockMetadata(p)
    BY <2>1 DEF SetLockMetadata
  <2>2. CASE InitializeSessionRefs(p)
    <3>1. refs' \subseteq {"base", "head", "review"}
      BY <2>2 DEF InitializeSessionRefs
    <3>2. pc' = pc \/ pc' = [pc EXCEPT ![p] = "clone"]
      BY <2>2 DEF InitializeSessionRefs
    <3>3. UNCHANGED <<lock, catalog, machine, local>> /\ pc[p] = "refs"
      BY <2>2 DEF InitializeSessionRefs
    <3> QED
      BY <3>1, <3>2, <3>3
  <2>3. CASE CloneVm(p)
    BY <2>3 DEF CloneVm, NewVm
  <2>4. CASE BeforeCloneFails(p)
    <3>1. CASE UNCHANGED machine
      BY <2>4, <3>1 DEF BeforeCloneFails
    <3>2. CASE NewVm({})
      BY <2>4, <3>2 DEF BeforeCloneFails, NewVm
    <3> QED
      BY <2>4, <3>1, <3>2 DEF BeforeCloneFails
  <2>5. CASE FirstCheckpointFails(p)
    BY <2>5 DEF FirstCheckpointFails
  <2>6. CASE Checkpoint(p)
    BY <2>6 DEF Checkpoint, NextPhase
  <2>7. CASE Mark(p)
    BY <2>7 DEF Mark, NextPhase
  <2>8. CASE StartVm(p)
    BY <2>8 DEF StartVm
  <2>9. CASE DoPhase(p)
    BY <2>9 DEF DoPhase, Windows
  <2>10. CASE Finalize(p)
    BY <2>10 DEF Finalize
  <2>11. CASE Forget(p)
    BY <2>11 DEF Forget
  <2>12. CASE RollbackRow(p)
    BY <2>12 DEF RollbackRow, DeleteRow, AfterRow
  <2>13. CASE RollbackRefs(p)
    <3>1. ASSUME NEW l, NEW r, NEW m \in {"rbhead", "rbreview", "rbvm"},
                 DeleteRef(p, l, r, m)
          PROVE  TypeOK' /\ StageInv'
      <4>1. CASE refs' \in {refs, refs \ {r}} /\ Goto(p, m)
        <5>1. refs' \subseteq {"base", "head", "review"}
          BY <4>1
        <5> QED
          BY <3>1, <4>1, <5>1 DEF DeleteRef
      <4>2. CASE UNCHANGED refs /\ Goto(p, "release")
        BY <3>1, <4>2 DEF DeleteRef
      <4> QED
        BY <3>1, <4>1, <4>2 DEF DeleteRef
    <3> QED
      BY <2>13, <3>1 DEF RollbackRefs
  <2>14. CASE RollbackVm(p)
    <3>1. CASE NoVm
      BY <2>14, <3>1 DEF RollbackVm, NoVm
    <3>2. CASE UNCHANGED machine
      BY <2>14, <3>2 DEF RollbackVm
    <3> QED
      BY <2>14, <3>1, <3>2 DEF RollbackVm
  <2> QED
    BY <1>3, <2>1, <2>2, <2>3, <2>4, <2>5, <2>6, <2>7, <2>8, <2>9, <2>10, <2>11, <2>12, <2>13, <2>14 DEF LaunchStep
<1>4. ASSUME NEW p \in Procs, CloseStep(p) PROVE TypeOK' /\ StageInv'
  <2>1. CASE EnsureInstanceRunning(p)
    BY <2>1 DEF EnsureInstanceRunning
  <2>2. CASE MarkSyncing(p)
    BY <2>2 DEF MarkSyncing
  <2>3. CASE FetchGuestHead(p)
    BY <2>3 DEF FetchGuestHead
  <2>4. CASE Publish(p)
    BY <2>4 DEF Publish
  <2>5. CASE RecordClean(p)
    BY <2>5 DEF RecordClean, RecordOutcomeOf
  <2>6. CASE SyncBlocked(p)
    BY <2>6 DEF SyncBlocked, RecordOutcomeOf
  <2>7. CASE Confirm(p)
    BY <2>7 DEF Confirm
  <2>8. CASE Destroy(p)
    BY <2>8 DEF Destroy, NoVm
  <2>9. CASE RecordClosed(p)
    BY <2>9 DEF RecordClosed
  <2>10. CASE RecordOutcome(p)
    BY <2>10 DEF RecordOutcome
  <2>11. CASE RestartVm(p)
    BY <2>11 DEF RestartVm
  <2>12. CASE RecordRestarted(p)
    BY <2>12 DEF RecordRestarted
  <2> QED
    BY <1>4, <2>1, <2>2, <2>3, <2>4, <2>5, <2>6, <2>7, <2>8, <2>9, <2>10, <2>11, <2>12 DEF CloseStep
<1>5. ASSUME NEW p \in Procs, Abandon(p) \/ Release(p) \/ Crash(p) PROVE TypeOK' /\ StageInv'
  <2>1. CASE Abandon(p)
    BY <2>1 DEF Abandon
  <2>2. CASE Release(p)
    BY <2>2 DEF Release
  <2>3. CASE Crash(p)
    BY <2>3 DEF Crash
  <2> QED
    BY <1>5, <2>1, <2>2, <2>3
<1>6. ASSUME NEW p \in Procs, UnlockedBegin(p) PROVE TypeOK' /\ StageInv'
  <2>1. CASE StartBegin(p)
    BY <2>1 DEF StartBegin, Enter
  <2>2. CASE StopBegin(p)
    BY <2>2 DEF StopBegin, Enter
  <2>3. CASE KillBegin(p)
    BY <2>3 DEF KillBegin, Enter
  <2>4. CASE AgentBegin(p)
    BY <2>4 DEF AgentBegin, Enter
  <2> QED
    BY <1>6, <2>1, <2>2, <2>3, <2>4 DEF UnlockedBegin
<1>7. ASSUME NEW p \in Procs, UnlockedStep(p) PROVE TypeOK' /\ StageInv'
  <2>1. CASE UnlockedStart(p)
    BY <2>1 DEF UnlockedStart
  <2>2. CASE EnsureShell(p)
    BY <2>2 DEF EnsureShell
  <2>3. CASE UnlockedStop(p)
    BY <2>3 DEF UnlockedStop
  <2>4. CASE UnlockedWrite(p)
    BY <2>4 DEF UnlockedWrite
  <2>5. CASE StartAgent(p)
    BY <2>5 DEF StartAgent
  <2>6. CASE KillWindow(p)
    BY <2>6 DEF KillWindow
  <2>7. CASE KillVm(p)
    BY <2>7 DEF KillVm
  <2>8. CASE UnlockedFails(p)
    BY <2>8 DEF UnlockedFails
  <2> QED
    BY <1>7, <2>1, <2>2, <2>3, <2>4, <2>5, <2>6, <2>7, <2>8 DEF UnlockedStep
<1>8. CASE VmStops
  BY <1>8 DEF VmStops
<1>9. CASE HostCreatesReview
  BY <1>9 DEF HostCreatesReview
<1> QED
  BY <1>1, <1>2, <1>3, <1>4, <1>5, <1>6, <1>7, <1>8, <1>9 DEF Next, Proceed, Outside

\* One step keeps the lock with the process inside a locked command, and the
\* owner shown in the row with the lock.
LEMMA LockStep ==
    ASSUME TypeOK, LockInv, LockMetadataTruthful, [Next]_vars
    PROVE  LockInv' /\ LockMetadataTruthful'
<1> USE LifecycleAssumption
<1> USE DEF TypeOK, LockInv, LockMetadataTruthful, Idle,
            LockedPcs, LaunchPcs, SyncPcs, ClosePcs, RepairPcs, UnlockedPcs,
            catalog, machine, local, Goto, Step, Exit
<1>1. CASE UNCHANGED vars
  BY <1>1 DEF vars
<1>2. ASSUME NEW p \in Procs, Begin(p) PROVE LockInv' /\ LockMetadataTruthful'
  <2>1. CASE LaunchBegin(p)
    BY <2>1 DEF LaunchBegin, SlotFree
  <2>2. CASE RetryBegin(p)
    BY <2>2 DEF RetryBegin, CanResume, Admit
  <2>3. CASE CloseSyncBegin(p)
    BY <2>3 DEF CloseSyncBegin, Admit
  <2>4. CASE CloseDiscardBegin(p)
    BY <2>4 DEF CloseDiscardBegin, Admit
  <2>5. CASE SyncBegin(p)
    BY <2>5 DEF SyncBegin, Admit
  <2>6. CASE RepairBegin(p)
    BY <2>6 DEF RepairBegin, FirstRepairStep, Admit
  <2> QED
    BY <1>2, <2>1, <2>2, <2>3, <2>4, <2>5, <2>6 DEF Begin
<1>3. ASSUME NEW p \in Procs, LaunchStep(p) PROVE LockInv' /\ LockMetadataTruthful'
  <2>1. CASE SetLockMetadata(p)
    BY <2>1 DEF SetLockMetadata
  <2>2. CASE InitializeSessionRefs(p)
    BY <2>2 DEF InitializeSessionRefs
  <2>3. CASE CloneVm(p)
    BY <2>3 DEF CloneVm, NewVm
  <2>4. CASE BeforeCloneFails(p)
    BY <2>4 DEF BeforeCloneFails, NewVm
  <2>5. CASE FirstCheckpointFails(p)
    BY <2>5 DEF FirstCheckpointFails
  <2>6. CASE Checkpoint(p)
    BY <2>6 DEF Checkpoint, NextPhase
  <2>7. CASE Mark(p)
    BY <2>7 DEF Mark, NextPhase
  <2>8. CASE StartVm(p)
    BY <2>8 DEF StartVm
  <2>9. CASE DoPhase(p)
    BY <2>9 DEF DoPhase, Windows
  <2>10. CASE Finalize(p)
    BY <2>10 DEF Finalize
  <2>11. CASE Forget(p)
    BY <2>11 DEF Forget
  <2>12. CASE RollbackRow(p)
    BY <2>12 DEF RollbackRow, DeleteRow, AfterRow
  <2>13. CASE RollbackRefs(p)
    BY <2>13 DEF RollbackRefs, DeleteRef
  <2>14. CASE RollbackVm(p)
    BY <2>14 DEF RollbackVm, NoVm
  <2> QED
    BY <1>3, <2>1, <2>2, <2>3, <2>4, <2>5, <2>6, <2>7, <2>8, <2>9, <2>10, <2>11, <2>12, <2>13, <2>14 DEF LaunchStep
<1>4. ASSUME NEW p \in Procs, CloseStep(p) PROVE LockInv' /\ LockMetadataTruthful'
  <2>1. CASE EnsureInstanceRunning(p)
    BY <2>1 DEF EnsureInstanceRunning
  <2>2. CASE MarkSyncing(p)
    BY <2>2 DEF MarkSyncing
  <2>3. CASE FetchGuestHead(p)
    BY <2>3 DEF FetchGuestHead
  <2>4. CASE Publish(p)
    BY <2>4 DEF Publish
  <2>5. CASE RecordClean(p)
    BY <2>5 DEF RecordClean, RecordOutcomeOf
  <2>6. CASE SyncBlocked(p)
    BY <2>6 DEF SyncBlocked, RecordOutcomeOf
  <2>7. CASE Confirm(p)
    BY <2>7 DEF Confirm
  <2>8. CASE Destroy(p)
    BY <2>8 DEF Destroy, NoVm
  <2>9. CASE RecordClosed(p)
    BY <2>9 DEF RecordClosed
  <2>10. CASE RecordOutcome(p)
    BY <2>10 DEF RecordOutcome
  <2>11. CASE RestartVm(p)
    BY <2>11 DEF RestartVm
  <2>12. CASE RecordRestarted(p)
    BY <2>12 DEF RecordRestarted
  <2> QED
    BY <1>4, <2>1, <2>2, <2>3, <2>4, <2>5, <2>6, <2>7, <2>8, <2>9, <2>10, <2>11, <2>12 DEF CloseStep
<1>5. ASSUME NEW p \in Procs, Abandon(p) \/ Release(p) \/ Crash(p) PROVE LockInv' /\ LockMetadataTruthful'
  <2>1. CASE Abandon(p)
    BY <2>1 DEF Abandon
  <2>2. CASE Release(p)
    BY <2>2 DEF Release
  <2>3. CASE Crash(p)
    BY <2>3 DEF Crash
  <2> QED
    BY <1>5, <2>1, <2>2, <2>3
<1>6. ASSUME NEW p \in Procs, UnlockedBegin(p) PROVE LockInv' /\ LockMetadataTruthful'
  <2>1. CASE StartBegin(p)
    BY <2>1 DEF StartBegin, Enter
  <2>2. CASE StopBegin(p)
    BY <2>2 DEF StopBegin, Enter
  <2>3. CASE KillBegin(p)
    BY <2>3 DEF KillBegin, Enter
  <2>4. CASE AgentBegin(p)
    BY <2>4 DEF AgentBegin, Enter
  <2> QED
    BY <1>6, <2>1, <2>2, <2>3, <2>4 DEF UnlockedBegin
<1>7. ASSUME NEW p \in Procs, UnlockedStep(p) PROVE LockInv' /\ LockMetadataTruthful'
  <2>1. CASE UnlockedStart(p)
    BY <2>1 DEF UnlockedStart
  <2>2. CASE EnsureShell(p)
    BY <2>2 DEF EnsureShell
  <2>3. CASE UnlockedStop(p)
    BY <2>3 DEF UnlockedStop
  <2>4. CASE UnlockedWrite(p)
    BY <2>4 DEF UnlockedWrite
  <2>5. CASE StartAgent(p)
    BY <2>5 DEF StartAgent
  <2>6. CASE KillWindow(p)
    BY <2>6 DEF KillWindow
  <2>7. CASE KillVm(p)
    BY <2>7 DEF KillVm
  <2>8. CASE UnlockedFails(p)
    BY <2>8 DEF UnlockedFails
  <2> QED
    BY <1>7, <2>1, <2>2, <2>3, <2>4, <2>5, <2>6, <2>7, <2>8 DEF UnlockedStep
<1>8. CASE VmStops
  BY <1>8 DEF VmStops
<1>9. CASE HostCreatesReview
  BY <1>9 DEF HostCreatesReview
<1> QED
  BY <1>1, <1>2, <1>3, <1>4, <1>5, <1>6, <1>7, <1>8, <1>9 DEF Next, Proceed, Outside

\* One step keeps the checkpoints true of the VM.
LEMMA ProgressStep ==
    ASSUME TypeOK, LockInv, StageInv, ProgressInv, [Next]_vars
    PROVE  ProgressInv'
<1> USE LifecycleAssumption, StagesFacts
<1> USE DEF TypeOK, LockInv, StageInv, ProgressInv, HonestUpTo, Progress, Idle,
            BeforeClone, AfterClone,
            LockedPcs, LaunchPcs, SyncPcs, ClosePcs, RepairPcs, UnlockedPcs,
            catalog, machine, local, Goto, Step, SetLife, Exit
<1>1. CASE UNCHANGED vars
  BY <1>1 DEF vars
<1>2. ASSUME NEW p \in Procs, Begin(p) PROVE ProgressInv'
  <2>1. CASE LaunchBegin(p)
    BY <2>1 DEF LaunchBegin, SlotFree
  <2>2. CASE RetryBegin(p)
    BY <2>2 DEF RetryBegin, CanResume, Admit
  <2>3. CASE CloseSyncBegin(p)
    BY <2>3 DEF CloseSyncBegin, Admit
  <2>4. CASE CloseDiscardBegin(p)
    BY <2>4 DEF CloseDiscardBegin, Admit
  <2>5. CASE SyncBegin(p)
    BY <2>5 DEF SyncBegin, Admit
  <2>6. CASE RepairBegin(p)
    BY <2>6 DEF RepairBegin, FirstRepairStep, Admit
  <2> QED
    BY <1>2, <2>1, <2>2, <2>3, <2>4, <2>5, <2>6 DEF Begin
<1>3. ASSUME NEW p \in Procs, LaunchStep(p) PROVE ProgressInv'
  <2>1. CASE SetLockMetadata(p)
    BY <2>1 DEF SetLockMetadata
  <2>2. CASE InitializeSessionRefs(p)
    BY <2>2 DEF InitializeSessionRefs
  <2>3. CASE CloneVm(p)
    BY <2>3 DEF CloneVm, NewVm
  <2>4. CASE BeforeCloneFails(p)
    BY <2>4 DEF BeforeCloneFails, NewVm
  <2>5. CASE FirstCheckpointFails(p)
    BY <2>5 DEF FirstCheckpointFails
  <2>6. CASE Checkpoint(p)
    BY <2>6 DEF Checkpoint, NextPhase
  <2>7. CASE Mark(p)
    BY <2>7 DEF Mark, NextPhase
  <2>8. CASE StartVm(p)
    BY <2>8 DEF StartVm, DiskStages
  <2>9. CASE DoPhase(p)
    BY <2>9 DEF DoPhase, Windows
  <2>10. CASE Finalize(p)
    BY <2>10 DEF Finalize
  <2>11. CASE Forget(p)
    BY <2>11 DEF Forget
  <2>12. CASE RollbackRow(p)
    BY <2>12 DEF RollbackRow, DeleteRow, AfterRow
  <2>13. CASE RollbackRefs(p)
    BY <2>13 DEF RollbackRefs, DeleteRef
  <2>14. CASE RollbackVm(p)
    BY <2>14 DEF RollbackVm, NoVm
  <2> QED
    BY <1>3, <2>1, <2>2, <2>3, <2>4, <2>5, <2>6, <2>7, <2>8, <2>9, <2>10, <2>11, <2>12, <2>13, <2>14 DEF LaunchStep
<1>4. ASSUME NEW p \in Procs, CloseStep(p) PROVE ProgressInv'
  <2>1. CASE EnsureInstanceRunning(p)
    BY <2>1 DEF EnsureInstanceRunning
  <2>2. CASE MarkSyncing(p)
    BY <2>2 DEF MarkSyncing
  <2>3. CASE FetchGuestHead(p)
    BY <2>3 DEF FetchGuestHead
  <2>4. CASE Publish(p)
    BY <2>4 DEF Publish
  <2>5. CASE RecordClean(p)
    BY <2>5 DEF RecordClean, RecordOutcomeOf
  <2>6. CASE SyncBlocked(p)
    BY <2>6 DEF SyncBlocked, RecordOutcomeOf
  <2>7. CASE Confirm(p)
    BY <2>7 DEF Confirm
  <2>8. CASE Destroy(p)
    BY <2>8 DEF Destroy, NoVm
  <2>9. CASE RecordClosed(p)
    BY <2>9 DEF RecordClosed
  <2>10. CASE RecordOutcome(p)
    BY <2>10 DEF RecordOutcome
  <2>11. CASE RestartVm(p)
    BY <2>11 DEF RestartVm
  <2>12. CASE RecordRestarted(p)
    BY <2>12 DEF RecordRestarted
  <2> QED
    BY <1>4, <2>1, <2>2, <2>3, <2>4, <2>5, <2>6, <2>7, <2>8, <2>9, <2>10, <2>11, <2>12 DEF CloseStep
<1>5. ASSUME NEW p \in Procs, Abandon(p) \/ Release(p) \/ Crash(p) PROVE ProgressInv'
  <2>1. CASE Abandon(p)
    BY <2>1 DEF Abandon
  <2>2. CASE Release(p)
    BY <2>2 DEF Release
  <2>3. CASE Crash(p)
    BY <2>3 DEF Crash
  <2> QED
    BY <1>5, <2>1, <2>2, <2>3
<1>6. ASSUME NEW p \in Procs, UnlockedBegin(p) PROVE ProgressInv'
  <2>1. CASE StartBegin(p)
    BY <2>1 DEF StartBegin, Enter
  <2>2. CASE StopBegin(p)
    BY <2>2 DEF StopBegin, Enter
  <2>3. CASE KillBegin(p)
    BY <2>3 DEF KillBegin, Enter
  <2>4. CASE AgentBegin(p)
    BY <2>4 DEF AgentBegin, Enter
  <2> QED
    BY <1>6, <2>1, <2>2, <2>3, <2>4 DEF UnlockedBegin
<1>7. ASSUME NEW p \in Procs, UnlockedStep(p) PROVE ProgressInv'
  <2>1. CASE UnlockedStart(p)
    BY <2>1 DEF UnlockedStart
  <2>2. CASE EnsureShell(p)
    BY <2>2 DEF EnsureShell
  <2>3. CASE UnlockedStop(p)
    BY <2>3 DEF UnlockedStop
  <2>4. CASE UnlockedWrite(p)
    BY <2>4 DEF UnlockedWrite
  <2>5. CASE StartAgent(p)
    BY <2>5 DEF StartAgent
  <2>6. CASE KillWindow(p)
    BY <2>6 DEF KillWindow
  <2>7. CASE KillVm(p)
    BY <2>7 DEF KillVm
  <2>8. CASE UnlockedFails(p)
    BY <2>8 DEF UnlockedFails
  <2> QED
    BY <1>7, <2>1, <2>2, <2>3, <2>4, <2>5, <2>6, <2>7, <2>8 DEF UnlockedStep
<1>8. CASE VmStops
  BY <1>8 DEF VmStops
<1>9. CASE HostCreatesReview
  BY <1>9 DEF HostCreatesReview
<1> QED
  BY <1>1, <1>2, <1>3, <1>4, <1>5, <1>6, <1>7, <1>8, <1>9 DEF Next, Proceed, Outside

\* One step keeps a VM that may lose its row free of users' work.
LEMMA BlankStep ==
    ASSUME TypeOK, LockInv, StageInv, ProgressInv, BlankInv, [Next]_vars
    PROVE  BlankInv'
<1> USE LifecycleAssumption, StagesFacts
<1> USE DEF TypeOK, LockInv, StageInv, ProgressInv, BlankInv, OrphanIsBlank, Idle,
            BeforeClone, AfterClone,
            LockedPcs, LaunchPcs, SyncPcs, ClosePcs, RepairPcs, UnlockedPcs,
            catalog, machine, local, Goto, Step, SetLife, Exit
<1>1. CASE UNCHANGED vars
  BY <1>1 DEF vars
<1>2. ASSUME NEW p \in Procs, Begin(p) PROVE BlankInv'
  <2>1. CASE LaunchBegin(p)
    BY <2>1 DEF LaunchBegin, SlotFree
  <2>2. CASE RetryBegin(p)
    BY <2>2 DEF RetryBegin, CanResume, Admit
  <2>3. CASE CloseSyncBegin(p)
    BY <2>3 DEF CloseSyncBegin, Admit
  <2>4. CASE CloseDiscardBegin(p)
    BY <2>4 DEF CloseDiscardBegin, Admit
  <2>5. CASE SyncBegin(p)
    BY <2>5 DEF SyncBegin, Admit
  <2>6. CASE RepairBegin(p)
    BY <2>6 DEF RepairBegin, FirstRepairStep, Admit
  <2> QED
    BY <1>2, <2>1, <2>2, <2>3, <2>4, <2>5, <2>6 DEF Begin
<1>3. ASSUME NEW p \in Procs, LaunchStep(p) PROVE BlankInv'
  <2>1. CASE SetLockMetadata(p)
    BY <2>1 DEF SetLockMetadata
  <2>2. CASE InitializeSessionRefs(p)
    BY <2>2 DEF InitializeSessionRefs
  <2>3. CASE CloneVm(p)
    BY <2>3 DEF CloneVm, NewVm
  <2>4. CASE BeforeCloneFails(p)
    BY <2>4 DEF BeforeCloneFails, NewVm
  <2>5. CASE FirstCheckpointFails(p)
    BY <2>5 DEF FirstCheckpointFails
  <2>6. CASE Checkpoint(p)
    BY <2>6 DEF Checkpoint, NextPhase
  <2>7. CASE Mark(p)
    BY <2>7 DEF Mark, NextPhase
  <2>8. CASE StartVm(p)
    BY <2>8 DEF StartVm
  <2>9. CASE DoPhase(p)
    BY <2>9 DEF DoPhase, Windows
  <2>10. CASE Finalize(p)
    BY <2>10 DEF Finalize
  <2>11. CASE Forget(p)
    BY <2>11 DEF Forget
  <2>12. CASE RollbackRow(p)
    BY <2>12 DEF RollbackRow, DeleteRow, AfterRow
  <2>13. CASE RollbackRefs(p)
    BY <2>13 DEF RollbackRefs, DeleteRef
  <2>14. CASE RollbackVm(p)
    BY <2>14 DEF RollbackVm, NoVm
  <2> QED
    BY <1>3, <2>1, <2>2, <2>3, <2>4, <2>5, <2>6, <2>7, <2>8, <2>9, <2>10, <2>11, <2>12, <2>13, <2>14 DEF LaunchStep
<1>4. ASSUME NEW p \in Procs, CloseStep(p) PROVE BlankInv'
  <2>1. CASE EnsureInstanceRunning(p)
    BY <2>1 DEF EnsureInstanceRunning
  <2>2. CASE MarkSyncing(p)
    BY <2>2 DEF MarkSyncing
  <2>3. CASE FetchGuestHead(p)
    BY <2>3 DEF FetchGuestHead
  <2>4. CASE Publish(p)
    BY <2>4 DEF Publish
  <2>5. CASE RecordClean(p)
    BY <2>5 DEF RecordClean, RecordOutcomeOf
  <2>6. CASE SyncBlocked(p)
    BY <2>6 DEF SyncBlocked, RecordOutcomeOf
  <2>7. CASE Confirm(p)
    BY <2>7 DEF Confirm
  <2>8. CASE Destroy(p)
    BY <2>8 DEF Destroy, NoVm
  <2>9. CASE RecordClosed(p)
    BY <2>9 DEF RecordClosed
  <2>10. CASE RecordOutcome(p)
    BY <2>10 DEF RecordOutcome
  <2>11. CASE RestartVm(p)
    BY <2>11 DEF RestartVm
  <2>12. CASE RecordRestarted(p)
    BY <2>12 DEF RecordRestarted
  <2> QED
    BY <1>4, <2>1, <2>2, <2>3, <2>4, <2>5, <2>6, <2>7, <2>8, <2>9, <2>10, <2>11, <2>12 DEF CloseStep
<1>5. ASSUME NEW p \in Procs, Abandon(p) \/ Release(p) \/ Crash(p) PROVE BlankInv'
  <2>1. CASE Abandon(p)
    BY <2>1 DEF Abandon
  <2>2. CASE Release(p)
    BY <2>2 DEF Release
  <2>3. CASE Crash(p)
    BY <2>3 DEF Crash
  <2> QED
    BY <1>5, <2>1, <2>2, <2>3
<1>6. ASSUME NEW p \in Procs, UnlockedBegin(p) PROVE BlankInv'
  <2>1. CASE StartBegin(p)
    BY <2>1 DEF StartBegin, Enter
  <2>2. CASE StopBegin(p)
    BY <2>2 DEF StopBegin, Enter
  <2>3. CASE KillBegin(p)
    BY <2>3 DEF KillBegin, Enter
  <2>4. CASE AgentBegin(p)
    BY <2>4 DEF AgentBegin, Enter
  <2> QED
    BY <1>6, <2>1, <2>2, <2>3, <2>4 DEF UnlockedBegin
<1>7. ASSUME NEW p \in Procs, UnlockedStep(p) PROVE BlankInv'
  <2>1. CASE UnlockedStart(p)
    BY <2>1 DEF UnlockedStart
  <2>2. CASE EnsureShell(p)
    BY <2>2 DEF EnsureShell
  <2>3. CASE UnlockedStop(p)
    BY <2>3 DEF UnlockedStop
  <2>4. CASE UnlockedWrite(p)
    BY <2>4 DEF UnlockedWrite
  <2>5. CASE StartAgent(p)
    BY <2>5 DEF StartAgent
  <2>6. CASE KillWindow(p)
    BY <2>6 DEF KillWindow
  <2>7. CASE KillVm(p)
    BY <2>7 DEF KillVm
  <2>8. CASE UnlockedFails(p)
    BY <2>8 DEF UnlockedFails
  <2> QED
    BY <1>7, <2>1, <2>2, <2>3, <2>4, <2>5, <2>6, <2>7, <2>8 DEF UnlockedStep
<1>8. CASE VmStops
  BY <1>8 DEF VmStops
<1>9. CASE HostCreatesReview
  BY <1>9 DEF HostCreatesReview
<1> QED
  BY <1>1, <1>2, <1>3, <1>4, <1>5, <1>6, <1>7, <1>8, <1>9 DEF Next, Proceed, Outside

\* One step keeps a closed session without a VM.
LEMMA GoneStep ==
    ASSUME TypeOK, LockInv, ProgressInv, GoneInv, [Next]_vars
    PROVE  GoneInv'
<1> USE LifecycleAssumption
<1> USE DEF TypeOK, LockInv, ProgressInv, GoneInv, ClosedMeansGone, Idle,
            BeforeClone, AfterClone,
            LockedPcs, LaunchPcs, SyncPcs, ClosePcs, RepairPcs, UnlockedPcs,
            catalog, machine, local, Goto, Step, SetLife, Exit
<1>1. CASE UNCHANGED vars
  BY <1>1 DEF vars
<1>2. ASSUME NEW p \in Procs, Begin(p) PROVE GoneInv'
  <2>1. CASE LaunchBegin(p)
    BY <2>1 DEF LaunchBegin, SlotFree
  <2>2. CASE RetryBegin(p)
    BY <2>2 DEF RetryBegin, CanResume, Admit
  <2>3. CASE CloseSyncBegin(p)
    BY <2>3 DEF CloseSyncBegin, Admit
  <2>4. CASE CloseDiscardBegin(p)
    BY <2>4 DEF CloseDiscardBegin, Admit
  <2>5. CASE SyncBegin(p)
    BY <2>5 DEF SyncBegin, Admit
  <2>6. CASE RepairBegin(p)
    BY <2>6 DEF RepairBegin, FirstRepairStep, Admit
  <2> QED
    BY <1>2, <2>1, <2>2, <2>3, <2>4, <2>5, <2>6 DEF Begin
<1>3. ASSUME NEW p \in Procs, LaunchStep(p) PROVE GoneInv'
  <2>1. CASE SetLockMetadata(p)
    BY <2>1 DEF SetLockMetadata
  <2>2. CASE InitializeSessionRefs(p)
    BY <2>2 DEF InitializeSessionRefs
  <2>3. CASE CloneVm(p)
    BY <2>3 DEF CloneVm, NewVm
  <2>4. CASE BeforeCloneFails(p)
    BY <2>4 DEF BeforeCloneFails, NewVm
  <2>5. CASE FirstCheckpointFails(p)
    BY <2>5 DEF FirstCheckpointFails
  <2>6. CASE Checkpoint(p)
    BY <2>6 DEF Checkpoint, NextPhase
  <2>7. CASE Mark(p)
    BY <2>7 DEF Mark, NextPhase
  <2>8. CASE StartVm(p)
    BY <2>8 DEF StartVm
  <2>9. CASE DoPhase(p)
    BY <2>9 DEF DoPhase, Windows
  <2>10. CASE Finalize(p)
    BY <2>10 DEF Finalize
  <2>11. CASE Forget(p)
    BY <2>11 DEF Forget
  <2>12. CASE RollbackRow(p)
    BY <2>12 DEF RollbackRow, DeleteRow, AfterRow
  <2>13. CASE RollbackRefs(p)
    BY <2>13 DEF RollbackRefs, DeleteRef
  <2>14. CASE RollbackVm(p)
    BY <2>14 DEF RollbackVm, NoVm
  <2> QED
    BY <1>3, <2>1, <2>2, <2>3, <2>4, <2>5, <2>6, <2>7, <2>8, <2>9, <2>10, <2>11, <2>12, <2>13, <2>14 DEF LaunchStep
<1>4. ASSUME NEW p \in Procs, CloseStep(p) PROVE GoneInv'
  <2>1. CASE EnsureInstanceRunning(p)
    BY <2>1 DEF EnsureInstanceRunning
  <2>2. CASE MarkSyncing(p)
    BY <2>2 DEF MarkSyncing
  <2>3. CASE FetchGuestHead(p)
    BY <2>3 DEF FetchGuestHead
  <2>4. CASE Publish(p)
    BY <2>4 DEF Publish
  <2>5. CASE RecordClean(p)
    BY <2>5 DEF RecordClean, RecordOutcomeOf
  <2>6. CASE SyncBlocked(p)
    BY <2>6 DEF SyncBlocked, RecordOutcomeOf
  <2>7. CASE Confirm(p)
    BY <2>7 DEF Confirm
  <2>8. CASE Destroy(p)
    BY <2>8 DEF Destroy, NoVm
  <2>9. CASE RecordClosed(p)
    BY <2>9 DEF RecordClosed
  <2>10. CASE RecordOutcome(p)
    BY <2>10 DEF RecordOutcome
  <2>11. CASE RestartVm(p)
    BY <2>11 DEF RestartVm
  <2>12. CASE RecordRestarted(p)
    BY <2>12 DEF RecordRestarted
  <2> QED
    BY <1>4, <2>1, <2>2, <2>3, <2>4, <2>5, <2>6, <2>7, <2>8, <2>9, <2>10, <2>11, <2>12 DEF CloseStep
<1>5. ASSUME NEW p \in Procs, Abandon(p) \/ Release(p) \/ Crash(p) PROVE GoneInv'
  <2>1. CASE Abandon(p)
    BY <2>1 DEF Abandon
  <2>2. CASE Release(p)
    BY <2>2 DEF Release
  <2>3. CASE Crash(p)
    BY <2>3 DEF Crash
  <2> QED
    BY <1>5, <2>1, <2>2, <2>3
<1>6. ASSUME NEW p \in Procs, UnlockedBegin(p) PROVE GoneInv'
  <2>1. CASE StartBegin(p)
    BY <2>1 DEF StartBegin, Enter
  <2>2. CASE StopBegin(p)
    BY <2>2 DEF StopBegin, Enter
  <2>3. CASE KillBegin(p)
    BY <2>3 DEF KillBegin, Enter
  <2>4. CASE AgentBegin(p)
    BY <2>4 DEF AgentBegin, Enter
  <2> QED
    BY <1>6, <2>1, <2>2, <2>3, <2>4 DEF UnlockedBegin
<1>7. ASSUME NEW p \in Procs, UnlockedStep(p) PROVE GoneInv'
  <2>1. CASE UnlockedStart(p)
    BY <2>1 DEF UnlockedStart
  <2>2. CASE EnsureShell(p)
    BY <2>2 DEF EnsureShell
  <2>3. CASE UnlockedStop(p)
    BY <2>3 DEF UnlockedStop
  <2>4. CASE UnlockedWrite(p)
    BY <2>4 DEF UnlockedWrite
  <2>5. CASE StartAgent(p)
    BY <2>5 DEF StartAgent
  <2>6. CASE KillWindow(p)
    BY <2>6 DEF KillWindow
  <2>7. CASE KillVm(p)
    BY <2>7 DEF KillVm
  <2>8. CASE UnlockedFails(p)
    BY <2>8 DEF UnlockedFails
  <2> QED
    BY <1>7, <2>1, <2>2, <2>3, <2>4, <2>5, <2>6, <2>7, <2>8 DEF UnlockedStep
<1>8. CASE VmStops
  BY <1>8 DEF VmStops
<1>9. CASE HostCreatesReview
  BY <1>9 DEF HostCreatesReview
<1> QED
  BY <1>1, <1>2, <1>3, <1>4, <1>5, <1>6, <1>7, <1>8, <1>9 DEF Next, Proceed, Outside

\* One step writes a state for every row and for nothing else.
LEMMA RowStep ==
    ASSUME TypeOK, LockInv, ProgressInv, GoneInv, RowInv, [Next]_vars
    PROVE  RowInv'
<1> USE LifecycleAssumption
<1> USE DEF TypeOK, LockInv, ProgressInv, GoneInv, ClosedMeansGone, RowInv, Idle,
            BeforeClone, AfterClone, Lives,
            LockedPcs, LaunchPcs, SyncPcs, ClosePcs, RepairPcs, UnlockedPcs,
            catalog, machine, local, Goto, Step, SetLife, Exit
<1>1. CASE UNCHANGED vars
  BY <1>1 DEF vars
<1>2. ASSUME NEW p \in Procs, Begin(p) PROVE RowInv'
  <2>1. CASE LaunchBegin(p)
    BY <2>1 DEF LaunchBegin, SlotFree
  <2>2. CASE RetryBegin(p)
    BY <2>2 DEF RetryBegin, CanResume, Admit
  <2>3. CASE CloseSyncBegin(p)
    BY <2>3 DEF CloseSyncBegin, Admit
  <2>4. CASE CloseDiscardBegin(p)
    BY <2>4 DEF CloseDiscardBegin, Admit
  <2>5. CASE SyncBegin(p)
    BY <2>5 DEF SyncBegin, Admit
  <2>6. CASE RepairBegin(p)
    BY <2>6 DEF RepairBegin, FirstRepairStep, Admit
  <2> QED
    BY <1>2, <2>1, <2>2, <2>3, <2>4, <2>5, <2>6 DEF Begin
<1>3. ASSUME NEW p \in Procs, LaunchStep(p) PROVE RowInv'
  <2>1. CASE SetLockMetadata(p)
    BY <2>1 DEF SetLockMetadata
  <2>2. CASE InitializeSessionRefs(p)
    BY <2>2 DEF InitializeSessionRefs
  <2>3. CASE CloneVm(p)
    BY <2>3 DEF CloneVm, NewVm
  <2>4. CASE BeforeCloneFails(p)
    BY <2>4 DEF BeforeCloneFails, NewVm
  <2>5. CASE FirstCheckpointFails(p)
    BY <2>5 DEF FirstCheckpointFails
  <2>6. CASE Checkpoint(p)
    BY <2>6 DEF Checkpoint, NextPhase
  <2>7. CASE Mark(p)
    BY <2>7 DEF Mark, NextPhase
  <2>8. CASE StartVm(p)
    BY <2>8 DEF StartVm
  <2>9. CASE DoPhase(p)
    BY <2>9 DEF DoPhase, Windows
  <2>10. CASE Finalize(p)
    BY <2>10 DEF Finalize
  <2>11. CASE Forget(p)
    BY <2>11 DEF Forget
  <2>12. CASE RollbackRow(p)
    BY <2>12 DEF RollbackRow, DeleteRow, AfterRow
  <2>13. CASE RollbackRefs(p)
    BY <2>13 DEF RollbackRefs, DeleteRef
  <2>14. CASE RollbackVm(p)
    BY <2>14 DEF RollbackVm, NoVm
  <2> QED
    BY <1>3, <2>1, <2>2, <2>3, <2>4, <2>5, <2>6, <2>7, <2>8, <2>9, <2>10, <2>11, <2>12, <2>13, <2>14 DEF LaunchStep
<1>4. ASSUME NEW p \in Procs, CloseStep(p) PROVE RowInv'
  <2>1. CASE EnsureInstanceRunning(p)
    BY <2>1 DEF EnsureInstanceRunning
  <2>2. CASE MarkSyncing(p)
    BY <2>2 DEF MarkSyncing
  <2>3. CASE FetchGuestHead(p)
    BY <2>3 DEF FetchGuestHead
  <2>4. CASE Publish(p)
    BY <2>4 DEF Publish
  <2>5. CASE RecordClean(p)
    BY <2>5 DEF RecordClean, RecordOutcomeOf
  <2>6. CASE SyncBlocked(p)
    BY <2>6 DEF SyncBlocked, RecordOutcomeOf
  <2>7. CASE Confirm(p)
    BY <2>7 DEF Confirm
  <2>8. CASE Destroy(p)
    BY <2>8 DEF Destroy, NoVm
  <2>9. CASE RecordClosed(p)
    BY <2>9 DEF RecordClosed
  <2>10. CASE RecordOutcome(p)
    BY <2>10 DEF RecordOutcome
  <2>11. CASE RestartVm(p)
    BY <2>11 DEF RestartVm
  <2>12. CASE RecordRestarted(p)
    BY <2>12 DEF RecordRestarted
  <2> QED
    BY <1>4, <2>1, <2>2, <2>3, <2>4, <2>5, <2>6, <2>7, <2>8, <2>9, <2>10, <2>11, <2>12 DEF CloseStep
<1>5. ASSUME NEW p \in Procs, Abandon(p) \/ Release(p) \/ Crash(p) PROVE RowInv'
  <2>1. CASE Abandon(p)
    BY <2>1 DEF Abandon
  <2>2. CASE Release(p)
    BY <2>2 DEF Release
  <2>3. CASE Crash(p)
    BY <2>3 DEF Crash
  <2> QED
    BY <1>5, <2>1, <2>2, <2>3
<1>6. ASSUME NEW p \in Procs, UnlockedBegin(p) PROVE RowInv'
  <2>1. CASE StartBegin(p)
    BY <2>1 DEF StartBegin, Enter
  <2>2. CASE StopBegin(p)
    BY <2>2 DEF StopBegin, Enter
  <2>3. CASE KillBegin(p)
    BY <2>3 DEF KillBegin, Enter
  <2>4. CASE AgentBegin(p)
    BY <2>4 DEF AgentBegin, Enter
  <2> QED
    BY <1>6, <2>1, <2>2, <2>3, <2>4 DEF UnlockedBegin
<1>7. ASSUME NEW p \in Procs, UnlockedStep(p) PROVE RowInv'
  <2>1. CASE UnlockedStart(p)
    BY <2>1 DEF UnlockedStart
  <2>2. CASE EnsureShell(p)
    BY <2>2 DEF EnsureShell
  <2>3. CASE UnlockedStop(p)
    BY <2>3 DEF UnlockedStop
  <2>4. CASE UnlockedWrite(p)
    BY <2>4 DEF UnlockedWrite
  <2>5. CASE StartAgent(p)
    BY <2>5 DEF StartAgent
  <2>6. CASE KillWindow(p)
    BY <2>6 DEF KillWindow
  <2>7. CASE KillVm(p)
    BY <2>7 DEF KillVm
  <2>8. CASE UnlockedFails(p)
    BY <2>8 DEF UnlockedFails
  <2> QED
    BY <1>7, <2>1, <2>2, <2>3, <2>4, <2>5, <2>6, <2>7, <2>8 DEF UnlockedStep
<1>8. CASE VmStops
  BY <1>8 DEF VmStops
<1>9. CASE HostCreatesReview
  BY <1>9 DEF HostCreatesReview
<1> QED
  BY <1>1, <1>2, <1>3, <1>4, <1>5, <1>6, <1>7, <1>8, <1>9 DEF Next, Proceed, Outside

\* With locked commands only, one step keeps the catalog true of the VM.
LEMMA CatalogStep ==
    ASSUME LocksOnly, IInv, CatalogInv, [Next]_vars
    PROVE  CatalogInv'
<1> USE LifecycleAssumption, StagesFacts
<1> USE DEF LocksOnly, IInv, TypeOK, LockInv, StageInv, ProgressInv, BlankInv, OrphanIsBlank,
            GoneInv, ClosedMeansGone, RowInv, CatalogInv, CatalogMatchesVm,
            Provisioned, DiskStages, Rollback, HonestUpTo, Progress, Idle,
            BeforeClone, AfterClone,
            LockedPcs, LaunchPcs, SyncPcs, ClosePcs, RepairPcs, UnlockedPcs,
            catalog, machine, local, Goto, Step, SetLife, Exit
<1>1. CASE UNCHANGED vars
  BY <1>1 DEF vars
<1>2. ASSUME NEW p \in Procs, Begin(p) PROVE CatalogInv'
  <2>1. CASE LaunchBegin(p)
    BY <2>1 DEF LaunchBegin, SlotFree
  <2>2. CASE RetryBegin(p)
    BY <2>2 DEF RetryBegin, CanResume, Admit
  <2>3. CASE CloseSyncBegin(p)
    BY <2>3 DEF CloseSyncBegin, Admit
  <2>4. CASE CloseDiscardBegin(p)
    BY <2>4 DEF CloseDiscardBegin, Admit
  <2>5. CASE SyncBegin(p)
    BY <2>5 DEF SyncBegin, Admit
  <2>6. CASE RepairBegin(p)
    BY <2>6 DEF RepairBegin, FirstRepairStep, RepairAction, Admit
  <2> QED
    BY <1>2, <2>1, <2>2, <2>3, <2>4, <2>5, <2>6 DEF Begin
<1>3. ASSUME NEW p \in Procs, LaunchStep(p) PROVE CatalogInv'
  <2>1. CASE SetLockMetadata(p)
    BY <2>1 DEF SetLockMetadata
  <2>2. CASE InitializeSessionRefs(p)
    BY <2>2 DEF InitializeSessionRefs
  <2>3. CASE CloneVm(p)
    <3>1. CatalogMatchesVm'
      BY <2>3 DEF CloneVm, NewVm
    <3>2. (vm = "absent" => done = {})'
      BY <2>3 DEF CloneVm, NewVm
    <3>3. (row # 0 /\ ~Provisioned => life \in {"cloning", "syncing", "destroying", "closed"})'
      BY <2>3 DEF CloneVm, NewVm
    <3>4. (row # 0 /\ "workspace_seeded" \in done => Provisioned)'
      BY <2>3 DEF CloneVm, NewVm
    <3>5. ASSUME NEW q \in Procs PROVE (pc[q] \notin UnlockedPcs)'
      BY <2>3 DEF CloneVm, NewVm
    <3>6. ASSUME NEW q \in Procs PROVE (pc[q] \in {"syncing", "guest", "publish", "record", "restarted"} => vm # "absent")'
      BY <2>3 DEF CloneVm, NewVm
    <3>7. ASSUME NEW q \in Procs PROVE (pc[q] \in {"publish", "record", "restart", "restarted"} => Provisioned)'
      BY <2>3 DEF CloneVm, NewVm
    <3>8. ASSUME NEW q \in Procs PROVE (pc[q] \in {"destroy", "closed"} => life = "destroying")'
      BY <2>3 DEF CloneVm, NewVm
    <3>9. ASSUME NEW q \in Procs PROVE (pc[q] \in Rollback => row = 0 \/ (life = "cloning" /\ ckpt = 0))'
      BY <2>3 DEF CloneVm, NewVm
    <3>10. ASSUME NEW q \in Procs PROVE (pc[q] \in {"stage", "mark", "finalize"} => ckpt # 0)'
      BY <2>3 DEF CloneVm, NewVm
    <3>11. ASSUME NEW q \in Procs PROVE (pc[q] = "checkpoint" =>
              IF stage[q] = 1 THEN op[q] = "launch" /\ ckpt = 0 /\ life = "cloning"
                              ELSE ckpt # 0)'
      BY <2>3 DEF CloneVm, NewVm
    <3>12. ASSUME NEW q \in Procs PROVE (pc[q] \in BeforeClone => life = "cloning" /\ op[q] = "launch")'
      BY <2>3 DEF CloneVm, NewVm
    <3>13. ASSUME NEW q \in Procs PROVE (pc[q] = "forget" => DiskStages \subseteq done)'
      BY <2>3 DEF CloneVm, NewVm
    <3>14. ASSUME NEW q \in Procs PROVE (pc[q] \in SyncPcs \cup {"confirm"} => row # 0)'
      BY <2>3 DEF CloneVm, NewVm
    <3> QED
      BY <3>1, <3>2, <3>3, <3>4, <3>5, <3>6, <3>7, <3>8, <3>9, <3>10, <3>11, <3>12, <3>13, <3>14
  <2>4. CASE BeforeCloneFails(p)
    BY <2>4 DEF BeforeCloneFails, NewVm
  <2>5. CASE FirstCheckpointFails(p)
    BY <2>5 DEF FirstCheckpointFails
  <2>6. CASE Checkpoint(p)
    BY <2>6 DEF Checkpoint, NextPhase
  <2>7. CASE Mark(p)
    BY <2>7 DEF Mark, NextPhase
  <2>8. CASE StartVm(p)
    BY <2>8 DEF StartVm
  <2>9. CASE DoPhase(p)
    BY <2>9 DEF DoPhase, Windows
  <2>10. CASE Finalize(p)
    <3>1. CatalogMatchesVm'
      BY <2>10 DEF Finalize
    <3>2. (vm = "absent" => done = {})'
      BY <2>10 DEF Finalize
    <3>3. (row # 0 /\ ~Provisioned => life \in {"cloning", "syncing", "destroying", "closed"})'
      BY <2>10 DEF Finalize
    <3>4. (row # 0 /\ "workspace_seeded" \in done => Provisioned)'
      BY <2>10 DEF Finalize
    <3>5. ASSUME NEW q \in Procs PROVE (pc[q] \notin UnlockedPcs)'
      BY <2>10 DEF Finalize
    <3>6. ASSUME NEW q \in Procs PROVE (pc[q] \in {"syncing", "guest", "publish", "record", "restarted"} => vm # "absent")'
      BY <2>10 DEF Finalize
    <3>7. ASSUME NEW q \in Procs PROVE (pc[q] \in {"publish", "record", "restart", "restarted"} => Provisioned)'
      BY <2>10 DEF Finalize
    <3>8. ASSUME NEW q \in Procs PROVE (pc[q] \in {"destroy", "closed"} => life = "destroying")'
      BY <2>10 DEF Finalize
    <3>9. ASSUME NEW q \in Procs PROVE (pc[q] \in Rollback => row = 0 \/ (life = "cloning" /\ ckpt = 0))'
      BY <2>10 DEF Finalize
    <3>10. ASSUME NEW q \in Procs PROVE (pc[q] \in {"stage", "mark", "finalize"} => ckpt # 0)'
      BY <2>10 DEF Finalize
    <3>11. ASSUME NEW q \in Procs PROVE (pc[q] = "checkpoint" =>
              IF stage[q] = 1 THEN op[q] = "launch" /\ ckpt = 0 /\ life = "cloning"
                              ELSE ckpt # 0)'
      BY <2>10 DEF Finalize
    <3>12. ASSUME NEW q \in Procs PROVE (pc[q] \in BeforeClone => life = "cloning" /\ op[q] = "launch")'
      BY <2>10 DEF Finalize
    <3>a. HonestUpTo(NStages)
      BY <2>10 DEF Finalize
    <3>b. DiskStages \subseteq done
      BY <3>a DEF StageNames
    <3>13. ASSUME NEW q \in Procs PROVE (pc[q] = "forget" => DiskStages \subseteq done)'
      BY <2>10, <3>b DEF Finalize
    <3>14. ASSUME NEW q \in Procs PROVE (pc[q] \in SyncPcs \cup {"confirm"} => row # 0)'
      BY <2>10 DEF Finalize
    <3> QED
      BY <3>1, <3>2, <3>3, <3>4, <3>5, <3>6, <3>7, <3>8, <3>9, <3>10, <3>11, <3>12, <3>13, <3>14
  <2>11. CASE Forget(p)
    BY <2>11 DEF Forget
  <2>12. CASE RollbackRow(p)
    BY <2>12 DEF RollbackRow, DeleteRow, AfterRow
  <2>13. CASE RollbackRefs(p)
    BY <2>13 DEF RollbackRefs, DeleteRef
  <2>14. CASE RollbackVm(p)
    BY <2>14 DEF RollbackVm, NoVm
  <2> QED
    BY <1>3, <2>1, <2>2, <2>3, <2>4, <2>5, <2>6, <2>7, <2>8, <2>9, <2>10, <2>11, <2>12, <2>13, <2>14 DEF LaunchStep
<1>4. ASSUME NEW p \in Procs, CloseStep(p) PROVE CatalogInv'
  <2>1. CASE EnsureInstanceRunning(p)
    BY <2>1 DEF EnsureInstanceRunning
  <2>2. CASE MarkSyncing(p)
    BY <2>2 DEF MarkSyncing
  <2>3. CASE FetchGuestHead(p)
    <3>1. CatalogMatchesVm'
      BY <2>3 DEF FetchGuestHead, GuestAnswers
    <3>2. (vm = "absent" => done = {})'
      BY <2>3 DEF FetchGuestHead, GuestAnswers
    <3>3. (row # 0 /\ ~Provisioned => life \in {"cloning", "syncing", "destroying", "closed"})'
      BY <2>3 DEF FetchGuestHead, GuestAnswers
    <3>4. (row # 0 /\ "workspace_seeded" \in done => Provisioned)'
      BY <2>3 DEF FetchGuestHead, GuestAnswers
    <3>5. ASSUME NEW q \in Procs PROVE (pc[q] \notin UnlockedPcs)'
      BY <2>3 DEF FetchGuestHead, GuestAnswers
    <3>6. ASSUME NEW q \in Procs PROVE (pc[q] \in {"syncing", "guest", "publish", "record", "restarted"} => vm # "absent")'
      BY <2>3 DEF FetchGuestHead, GuestAnswers
    <3>7. ASSUME NEW q \in Procs PROVE (pc[q] \in {"publish", "record", "restart", "restarted"} => Provisioned)'
      BY <2>3 DEF FetchGuestHead, GuestAnswers
    <3>8. ASSUME NEW q \in Procs PROVE (pc[q] \in {"destroy", "closed"} => life = "destroying")'
      BY <2>3 DEF FetchGuestHead, GuestAnswers
    <3>9. ASSUME NEW q \in Procs PROVE (pc[q] \in Rollback => row = 0 \/ (life = "cloning" /\ ckpt = 0))'
      BY <2>3 DEF FetchGuestHead, GuestAnswers
    <3>10. ASSUME NEW q \in Procs PROVE (pc[q] \in {"stage", "mark", "finalize"} => ckpt # 0)'
      BY <2>3 DEF FetchGuestHead, GuestAnswers
    <3>11. ASSUME NEW q \in Procs PROVE (pc[q] = "checkpoint" =>
              IF stage[q] = 1 THEN op[q] = "launch" /\ ckpt = 0 /\ life = "cloning"
                              ELSE ckpt # 0)'
      BY <2>3 DEF FetchGuestHead, GuestAnswers
    <3>12. ASSUME NEW q \in Procs PROVE (pc[q] \in BeforeClone => life = "cloning" /\ op[q] = "launch")'
      BY <2>3 DEF FetchGuestHead, GuestAnswers
    <3>13. ASSUME NEW q \in Procs PROVE (pc[q] = "forget" => DiskStages \subseteq done)'
      BY <2>3 DEF FetchGuestHead, GuestAnswers
    <3>14. ASSUME NEW q \in Procs PROVE (pc[q] \in SyncPcs \cup {"confirm"} => row # 0)'
      BY <2>3 DEF FetchGuestHead, GuestAnswers
    <3> QED
      BY <3>1, <3>2, <3>3, <3>4, <3>5, <3>6, <3>7, <3>8, <3>9, <3>10, <3>11, <3>12, <3>13, <3>14
  <2>4. CASE Publish(p)
    BY <2>4 DEF Publish
  <2>5. CASE RecordClean(p)
    BY <2>5 DEF RecordClean, RecordOutcomeOf
  <2>6. CASE SyncBlocked(p)
    <3>1. CatalogMatchesVm'
      BY <2>6 DEF SyncBlocked, GuestAnswers, RecordOutcomeOf
    <3>2. (vm = "absent" => done = {})'
      BY <2>6 DEF SyncBlocked, GuestAnswers, RecordOutcomeOf
    <3>3. (row # 0 /\ ~Provisioned => life \in {"cloning", "syncing", "destroying", "closed"})'
      BY <2>6 DEF SyncBlocked, GuestAnswers, RecordOutcomeOf
    <3>4. (row # 0 /\ "workspace_seeded" \in done => Provisioned)'
      BY <2>6 DEF SyncBlocked, GuestAnswers, RecordOutcomeOf
    <3>5. ASSUME NEW q \in Procs PROVE (pc[q] \notin UnlockedPcs)'
      BY <2>6 DEF SyncBlocked, GuestAnswers, RecordOutcomeOf
    <3>6. ASSUME NEW q \in Procs PROVE (pc[q] \in {"syncing", "guest", "publish", "record", "restarted"} => vm # "absent")'
      BY <2>6 DEF SyncBlocked, GuestAnswers, RecordOutcomeOf
    <3>7. ASSUME NEW q \in Procs PROVE (pc[q] \in {"publish", "record", "restart", "restarted"} => Provisioned)'
      BY <2>6 DEF SyncBlocked, GuestAnswers, RecordOutcomeOf
    <3>8. ASSUME NEW q \in Procs PROVE (pc[q] \in {"destroy", "closed"} => life = "destroying")'
      BY <2>6 DEF SyncBlocked, GuestAnswers, RecordOutcomeOf
    <3>9. ASSUME NEW q \in Procs PROVE (pc[q] \in Rollback => row = 0 \/ (life = "cloning" /\ ckpt = 0))'
      BY <2>6 DEF SyncBlocked, GuestAnswers, RecordOutcomeOf
    <3>10. ASSUME NEW q \in Procs PROVE (pc[q] \in {"stage", "mark", "finalize"} => ckpt # 0)'
      BY <2>6 DEF SyncBlocked, GuestAnswers, RecordOutcomeOf
    <3>11. ASSUME NEW q \in Procs PROVE (pc[q] = "checkpoint" =>
              IF stage[q] = 1 THEN op[q] = "launch" /\ ckpt = 0 /\ life = "cloning"
                              ELSE ckpt # 0)'
      BY <2>6 DEF SyncBlocked, GuestAnswers, RecordOutcomeOf
    <3>12. ASSUME NEW q \in Procs PROVE (pc[q] \in BeforeClone => life = "cloning" /\ op[q] = "launch")'
      BY <2>6 DEF SyncBlocked, GuestAnswers, RecordOutcomeOf
    <3>13. ASSUME NEW q \in Procs PROVE (pc[q] = "forget" => DiskStages \subseteq done)'
      BY <2>6 DEF SyncBlocked, GuestAnswers, RecordOutcomeOf
    <3>14. ASSUME NEW q \in Procs PROVE (pc[q] \in SyncPcs \cup {"confirm"} => row # 0)'
      BY <2>6 DEF SyncBlocked, GuestAnswers, RecordOutcomeOf
    <3> QED
      BY <3>1, <3>2, <3>3, <3>4, <3>5, <3>6, <3>7, <3>8, <3>9, <3>10, <3>11, <3>12, <3>13, <3>14
  <2>7. CASE Confirm(p)
    <3>1. CatalogMatchesVm'
      BY <2>7 DEF Confirm
    <3>2. (vm = "absent" => done = {})'
      BY <2>7 DEF Confirm
    <3>3. (row # 0 /\ ~Provisioned => life \in {"cloning", "syncing", "destroying", "closed"})'
      BY <2>7 DEF Confirm
    <3>4. (row # 0 /\ "workspace_seeded" \in done => Provisioned)'
      BY <2>7 DEF Confirm
    <3>5. ASSUME NEW q \in Procs PROVE (pc[q] \notin UnlockedPcs)'
      BY <2>7 DEF Confirm
    <3>6. ASSUME NEW q \in Procs PROVE (pc[q] \in {"syncing", "guest", "publish", "record", "restarted"} => vm # "absent")'
      BY <2>7 DEF Confirm
    <3>7. ASSUME NEW q \in Procs PROVE (pc[q] \in {"publish", "record", "restart", "restarted"} => Provisioned)'
      BY <2>7 DEF Confirm
    <3>8. ASSUME NEW q \in Procs PROVE (pc[q] \in {"destroy", "closed"} => life = "destroying")'
      BY <2>7 DEF Confirm
    <3>9. ASSUME NEW q \in Procs PROVE (pc[q] \in Rollback => row = 0 \/ (life = "cloning" /\ ckpt = 0))'
      BY <2>7 DEF Confirm
    <3>10. ASSUME NEW q \in Procs PROVE (pc[q] \in {"stage", "mark", "finalize"} => ckpt # 0)'
      BY <2>7 DEF Confirm
    <3>11. ASSUME NEW q \in Procs PROVE (pc[q] = "checkpoint" =>
              IF stage[q] = 1 THEN op[q] = "launch" /\ ckpt = 0 /\ life = "cloning"
                              ELSE ckpt # 0)'
      BY <2>7 DEF Confirm
    <3>12. ASSUME NEW q \in Procs PROVE (pc[q] \in BeforeClone => life = "cloning" /\ op[q] = "launch")'
      BY <2>7 DEF Confirm
    <3>13. ASSUME NEW q \in Procs PROVE (pc[q] = "forget" => DiskStages \subseteq done)'
      BY <2>7 DEF Confirm
    <3>14. ASSUME NEW q \in Procs PROVE (pc[q] \in SyncPcs \cup {"confirm"} => row # 0)'
      BY <2>7 DEF Confirm
    <3> QED
      BY <3>1, <3>2, <3>3, <3>4, <3>5, <3>6, <3>7, <3>8, <3>9, <3>10, <3>11, <3>12, <3>13, <3>14
  <2>8. CASE Destroy(p)
    BY <2>8 DEF Destroy, NoVm
  <2>9. CASE RecordClosed(p)
    BY <2>9 DEF RecordClosed
  <2>10. CASE RecordOutcome(p)
    BY <2>10 DEF RecordOutcome
  <2>11. CASE RestartVm(p)
    BY <2>11 DEF RestartVm
  <2>12. CASE RecordRestarted(p)
    BY <2>12 DEF RecordRestarted
  <2> QED
    BY <1>4, <2>1, <2>2, <2>3, <2>4, <2>5, <2>6, <2>7, <2>8, <2>9, <2>10, <2>11, <2>12 DEF CloseStep
<1>5. ASSUME NEW p \in Procs, Abandon(p) \/ Release(p) \/ Crash(p) PROVE CatalogInv'
  <2>1. CASE Abandon(p)
    BY <2>1 DEF Abandon
  <2>2. CASE Release(p)
    BY <2>2 DEF Release
  <2>3. CASE Crash(p)
    BY <2>3 DEF Crash
  <2> QED
    BY <1>5, <2>1, <2>2, <2>3
<1>6. ASSUME NEW p \in Procs, UnlockedBegin(p) PROVE CatalogInv'
  <2>1. CASE StartBegin(p)
    BY <2>1 DEF StartBegin, Enter
  <2>2. CASE StopBegin(p)
    BY <2>2 DEF StopBegin, Enter
  <2>3. CASE KillBegin(p)
    BY <2>3 DEF KillBegin, Enter
  <2>4. CASE AgentBegin(p)
    BY <2>4 DEF AgentBegin, Enter
  <2> QED
    BY <1>6, <2>1, <2>2, <2>3, <2>4 DEF UnlockedBegin
<1>7. ASSUME NEW p \in Procs, UnlockedStep(p) PROVE CatalogInv'
  <2>1. CASE UnlockedStart(p)
    BY <2>1 DEF UnlockedStart
  <2>2. CASE EnsureShell(p)
    BY <2>2 DEF EnsureShell
  <2>3. CASE UnlockedStop(p)
    BY <2>3 DEF UnlockedStop
  <2>4. CASE UnlockedWrite(p)
    BY <2>4 DEF UnlockedWrite
  <2>5. CASE StartAgent(p)
    BY <2>5 DEF StartAgent
  <2>6. CASE KillWindow(p)
    BY <2>6 DEF KillWindow
  <2>7. CASE KillVm(p)
    BY <2>7 DEF KillVm
  <2>8. CASE UnlockedFails(p)
    BY <2>8 DEF UnlockedFails
  <2> QED
    BY <1>7, <2>1, <2>2, <2>3, <2>4, <2>5, <2>6, <2>7, <2>8 DEF UnlockedStep
<1>8. CASE VmStops
  BY <1>8 DEF VmStops
<1>9. CASE HostCreatesReview
  BY <1>9 DEF HostCreatesReview
<1> QED
  BY <1>1, <1>2, <1>3, <1>4, <1>5, <1>6, <1>7, <1>8, <1>9 DEF Next, Proceed, Outside

\* One step is a step of SessionRegistry, or none it can see.
LEMMA RegistryStep ==
    ASSUME IInv, [Next]_vars
    PROVE  [Registry!RegistryNext]_(Registry!registry)
<1> USE LifecycleAssumption
<1> USE DEF IInv, TypeOK, LockInv, ProgressInv, GoneInv, RowInv, Lives,
            BeforeClone, AfterClone, LockedPcs, LaunchPcs, Idle,
            catalog, machine, Goto, Step, SetLife, Exit,
            Registry!RegistryNext, Registry!registry, Registry!Insert,
            Registry!WriteState, Registry!Forget, Registry!Clone,
            Registry!Power, Registry!Delete
<1>1. CASE UNCHANGED vars
  BY <1>1 DEF vars
<1>2. ASSUME NEW p \in Procs, Begin(p) PROVE [Registry!RegistryNext]_(Registry!registry)
  <2>1. CASE LaunchBegin(p)
    BY <2>1 DEF LaunchBegin, SlotFree
  <2>2. CASE RetryBegin(p)
    BY <2>2 DEF RetryBegin, CanResume, Admit
  <2>3. CASE CloseSyncBegin(p)
    BY <2>3 DEF CloseSyncBegin, Admit
  <2>4. CASE CloseDiscardBegin(p)
    BY <2>4 DEF CloseDiscardBegin, Admit
  <2>5. CASE SyncBegin(p)
    BY <2>5 DEF SyncBegin, Admit
  <2>6. CASE RepairBegin(p)
    BY <2>6 DEF RepairBegin, FirstRepairStep, Admit
  <2> QED
    BY <1>2, <2>1, <2>2, <2>3, <2>4, <2>5, <2>6 DEF Begin
<1>3. ASSUME NEW p \in Procs, LaunchStep(p) PROVE [Registry!RegistryNext]_(Registry!registry)
  <2>1. CASE SetLockMetadata(p)
    BY <2>1 DEF SetLockMetadata
  <2>2. CASE InitializeSessionRefs(p)
    BY <2>2 DEF InitializeSessionRefs
  <2>3. CASE CloneVm(p)
    BY <2>3 DEF CloneVm, NewVm
  <2>4. CASE BeforeCloneFails(p)
    BY <2>4 DEF BeforeCloneFails, NewVm
  <2>5. CASE FirstCheckpointFails(p)
    BY <2>5 DEF FirstCheckpointFails
  <2>6. CASE Checkpoint(p)
    BY <2>6 DEF Checkpoint, NextPhase
  <2>7. CASE Mark(p)
    BY <2>7 DEF Mark, NextPhase
  <2>8. CASE StartVm(p)
    BY <2>8 DEF StartVm
  <2>9. CASE DoPhase(p)
    BY <2>9 DEF DoPhase, Windows
  <2>10. CASE Finalize(p)
    BY <2>10 DEF Finalize
  <2>11. CASE Forget(p)
    BY <2>11 DEF Forget
  <2>12. CASE RollbackRow(p)
    BY <2>12 DEF RollbackRow, DeleteRow, AfterRow
  <2>13. CASE RollbackRefs(p)
    BY <2>13 DEF RollbackRefs, DeleteRef
  <2>14. CASE RollbackVm(p)
    BY <2>14 DEF RollbackVm, NoVm
  <2> QED
    BY <1>3, <2>1, <2>2, <2>3, <2>4, <2>5, <2>6, <2>7, <2>8, <2>9, <2>10, <2>11, <2>12, <2>13, <2>14 DEF LaunchStep
<1>4. ASSUME NEW p \in Procs, CloseStep(p) PROVE [Registry!RegistryNext]_(Registry!registry)
  <2>1. CASE EnsureInstanceRunning(p)
    BY <2>1 DEF EnsureInstanceRunning
  <2>2. CASE MarkSyncing(p)
    BY <2>2 DEF MarkSyncing
  <2>3. CASE FetchGuestHead(p)
    BY <2>3 DEF FetchGuestHead
  <2>4. CASE Publish(p)
    BY <2>4 DEF Publish
  <2>5. CASE RecordClean(p)
    BY <2>5 DEF RecordClean, RecordOutcomeOf
  <2>6. CASE SyncBlocked(p)
    BY <2>6 DEF SyncBlocked, RecordOutcomeOf
  <2>7. CASE Confirm(p)
    BY <2>7 DEF Confirm
  <2>8. CASE Destroy(p)
    BY <2>8 DEF Destroy, NoVm
  <2>9. CASE RecordClosed(p)
    BY <2>9 DEF RecordClosed
  <2>10. CASE RecordOutcome(p)
    BY <2>10 DEF RecordOutcome
  <2>11. CASE RestartVm(p)
    BY <2>11 DEF RestartVm
  <2>12. CASE RecordRestarted(p)
    BY <2>12 DEF RecordRestarted
  <2> QED
    BY <1>4, <2>1, <2>2, <2>3, <2>4, <2>5, <2>6, <2>7, <2>8, <2>9, <2>10, <2>11, <2>12 DEF CloseStep
<1>5. ASSUME NEW p \in Procs, Abandon(p) \/ Release(p) \/ Crash(p) PROVE [Registry!RegistryNext]_(Registry!registry)
  <2>1. CASE Abandon(p)
    BY <2>1 DEF Abandon
  <2>2. CASE Release(p)
    BY <2>2 DEF Release
  <2>3. CASE Crash(p)
    BY <2>3 DEF Crash
  <2> QED
    BY <1>5, <2>1, <2>2, <2>3
<1>6. ASSUME NEW p \in Procs, UnlockedBegin(p) PROVE [Registry!RegistryNext]_(Registry!registry)
  <2>1. CASE StartBegin(p)
    BY <2>1 DEF StartBegin, Enter
  <2>2. CASE StopBegin(p)
    BY <2>2 DEF StopBegin, Enter
  <2>3. CASE KillBegin(p)
    BY <2>3 DEF KillBegin, Enter
  <2>4. CASE AgentBegin(p)
    BY <2>4 DEF AgentBegin, Enter
  <2> QED
    BY <1>6, <2>1, <2>2, <2>3, <2>4 DEF UnlockedBegin
<1>7. ASSUME NEW p \in Procs, UnlockedStep(p) PROVE [Registry!RegistryNext]_(Registry!registry)
  <2>1. CASE UnlockedStart(p)
    BY <2>1 DEF UnlockedStart
  <2>2. CASE EnsureShell(p)
    BY <2>2 DEF EnsureShell
  <2>3. CASE UnlockedStop(p)
    BY <2>3 DEF UnlockedStop
  <2>4. CASE UnlockedWrite(p)
    BY <2>4 DEF UnlockedWrite
  <2>5. CASE StartAgent(p)
    BY <2>5 DEF StartAgent
  <2>6. CASE KillWindow(p)
    BY <2>6 DEF KillWindow
  <2>7. CASE KillVm(p)
    BY <2>7 DEF KillVm
  <2>8. CASE UnlockedFails(p)
    BY <2>8 DEF UnlockedFails
  <2> QED
    BY <1>7, <2>1, <2>2, <2>3, <2>4, <2>5, <2>6, <2>7, <2>8 DEF UnlockedStep
<1>8. CASE VmStops
  BY <1>8 DEF VmStops
<1>9. CASE HostCreatesReview
  BY <1>9 DEF HostCreatesReview
<1> QED
  BY <1>1, <1>2, <1>3, <1>4, <1>5, <1>6, <1>7, <1>8, <1>9 DEF Next, Proceed, Outside

-----------------------------------------------------------------------------
LEMMA IInvStep == IInv /\ [Next]_vars => IInv'
<1> SUFFICES ASSUME IInv, [Next]_vars PROVE IInv'
  OBVIOUS
<1> USE DEF IInv
<1>1. TypeOK' /\ StageInv'
  BY TypeStep
<1>2. LockInv' /\ LockMetadataTruthful'
  BY LockStep
<1>3. ProgressInv'
  BY ProgressStep
<1>4. BlankInv'
  BY BlankStep
<1>5. GoneInv'
  BY GoneStep
<1>6. RowInv'
  BY RowStep
<1> QED
  BY <1>1, <1>2, <1>3, <1>4, <1>5, <1>6

\* The inductive invariant holds in every state of every behaviour.
THEOREM Invariance == Spec => []IInv
  BY InitIInv, IInvStep, PTL DEF Spec

\* Type correctness of the session's row, VM, refs and processes.
THEOREM TypeCorrect == Spec => []TypeOK
<1>1. IInv => TypeOK
  BY DEF IInv
<1> QED
  BY <1>1, Invariance, PTL

\* The pid in the row is the holder of the session lock or a dead process, for
\* any number of processes that run, fail and die (LockMetadataGuard).
THEOREM LockOwnerTruthful == Spec => []LockMetadataTruthful
<1>1. IInv => LockMetadataTruthful
  BY DEF IInv
<1> QED
  BY <1>1, Invariance, PTL

\* retry may rely on the saved checkpoint: in every reachable state the VM that
\* carries the session's name went through the phases it names.
THEOREM CheckpointsAreHonest == Spec => []CheckpointHonest
<1>1. IInv => CheckpointHonest
  BY StagesFacts DEF IInv, TypeOK, ProgressInv, HonestUpTo, CheckpointHonest, Resumable
<1> QED
  BY <1>1, Invariance, PTL

\* Closed is written only after the VM is gone, and no other command brings it
\* back, though start, stop and kill take no lock.
THEOREM ClosedIsGone == Spec => []ClosedMeansGone
<1>1. IInv => ClosedMeansGone
  BY DEF IInv, GoneInv
<1> QED
  BY <1>1, Invariance, PTL

\* The rollback of a later launch can only delete a VM nobody worked in.
THEOREM OrphansAreBlank == Spec => []OrphanIsBlank
<1>1. IInv => OrphanIsBlank
  BY DEF IInv, BlankInv
<1> QED
  BY <1>1, Invariance, PTL

\* delete_launch_retry runs only after every phase of this launch is done.
THEOREM ForgottenComplete == Spec => ForgottenOnlyWhenComplete
<1>1. IInv /\ [Next]_vars
      => (ckpt # 0 /\ ckpt' = 0 /\ row' # 0 => DiskStages \subseteq done /\ owner = row)
  <2> SUFFICES ASSUME IInv, [Next]_vars, ckpt # 0, ckpt' = 0, row' # 0
               PROVE  DiskStages \subseteq done /\ owner = row
    OBVIOUS
  <2>1. PICK p \in Procs : Forget(p)
    BY StagesFacts
    DEF Next, vars, catalog, machine, IInv, TypeOK, DeleteRow, DeleteRef,
        RecordOutcomeOf, Exit, Begin, Proceed, LaunchStep, CloseStep,
        Abandon, Release, Crash, UnlockedBegin, UnlockedStep, Outside,
        VmStops, HostCreatesReview, StartBegin, StopBegin, KillBegin,
        AgentBegin, Enter, UnlockedStart, EnsureShell, UnlockedStop,
        UnlockedWrite, StartAgent, KillWindow, KillVm, UnlockedFails,
        LaunchBegin, SlotFree, RetryBegin, CanResume, CloseSyncBegin, CloseDiscardBegin,
        SyncBegin, RepairBegin, Admit, SetLockMetadata,
        InitializeSessionRefs, CloneVm, BeforeCloneFails,
        FirstCheckpointFails, Checkpoint, Mark, StartVm, DoPhase, Finalize,
        RollbackRow, RollbackRefs, RollbackVm, EnsureInstanceRunning,
        MarkSyncing, FetchGuestHead, Publish, RecordClean, SyncBlocked,
        Confirm, Destroy, RecordClosed, RecordOutcome, RestartVm,
        RecordRestarted
  <2>2. HonestUpTo(NStages)
    BY <2>1 DEF IInv, ProgressInv, AfterClone, Progress, Forget, Step
  <2> QED
    BY <2>2 DEF HonestUpTo, DiskStages, StageNames
<1> QED
  BY <1>1, Invariance, PTL DEF Spec, ForgottenOnlyWhenComplete

\* With locked commands only, the invariant that ties the catalog to the VM
\* holds in every state.
LEMMA CatalogInvariance == ASSUME LocksOnly PROVE Spec => [](IInv /\ CatalogInv)
<1>1. Init => CatalogInv
  BY DEF Init, CatalogInv, CatalogMatchesVm, Provisioned, UnlockedPcs, Rollback,
         BeforeClone, SyncPcs, Idle
<1>2. IInv /\ CatalogInv /\ [Next]_vars => CatalogInv'
  BY CatalogStep
<1> QED
  BY <1>1, <1>2, InitIInv, IInvStep, PTL DEF Spec

\* A row whose VM is gone is one of a launch before its clone, of a destroy under
\* way or of a closed session, when nobody runs start or stop.
THEOREM CatalogIsTrue == ASSUME LocksOnly PROVE Spec => []CatalogMatchesVm
<1>1. CatalogInv => CatalogMatchesVm
  BY DEF CatalogInv
<1> QED
  BY <1>1, CatalogInvariance, PTL

\* No locked command writes Running for a session whose launch is neither
\* complete nor resumable.
THEOREM RunningIsUsable ==
    ASSUME LocksOnly PROVE Spec => []RunningIsProvisionedOrResumable
<1>1. IInv /\ CatalogInv => RunningIsProvisionedOrResumable
  BY DEF IInv, RowInv, CatalogInv, Provisioned, RunningIsProvisionedOrResumable
<1> QED
  BY <1>1, CatalogInvariance, PTL

\* With locked commands only, no step deletes the VM of a row that did not say
\* Destroying, but for the rollback of a launch that saved nothing.
THEOREM DestroysAreAuthorised == ASSUME LocksOnly PROVE Spec => DestroyAuthorised
<1>1. IInv /\ CatalogInv /\ [Next]_vars
      => (row # 0 /\ vm # "absent" /\ vm' = "absent"
          => life = "destroying" \/ (life = "cloning" /\ ckpt = 0))
  <2> SUFFICES ASSUME IInv, CatalogInv, [Next]_vars,
                      row # 0, vm # "absent", vm' = "absent"
               PROVE  life = "destroying" \/ (life = "cloning" /\ ckpt = 0)
    OBVIOUS
  <2>1. PICK p \in Procs : Destroy(p) \/ RollbackVm(p)
    BY DEF Next, vars, catalog, machine, NewVm, Exit, Begin, Proceed, LaunchStep,
        CloseStep, Abandon, Release, Crash, UnlockedBegin, UnlockedStep, Outside,
        VmStops, HostCreatesReview, StartBegin, StopBegin, KillBegin,
        AgentBegin, Enter, UnlockedStart, EnsureShell, UnlockedStop,
        UnlockedWrite, StartAgent, KillWindow, KillVm, UnlockedFails,
        LaunchBegin, RetryBegin, CloseSyncBegin, CloseDiscardBegin,
        SyncBegin, RepairBegin, Admit, SetLockMetadata,
        InitializeSessionRefs, CloneVm, BeforeCloneFails,
        FirstCheckpointFails, Checkpoint, Mark, StartVm, DoPhase, Finalize, Forget,
        RollbackRow, RollbackRefs, DeleteRef, EnsureInstanceRunning,
        MarkSyncing, FetchGuestHead, Publish, RecordClean, SyncBlocked,
        Confirm, RecordClosed, RecordOutcome, RestartVm, RecordRestarted
  <2> QED
    BY <2>1 DEF Destroy, RollbackVm, Step, CatalogInv, Rollback
<1> QED
  BY <1>1, CatalogInvariance, PTL DEF Spec, DestroyAuthorised

\* Every step of every command, locked or not, changes the row's state and the
\* VM as SessionRegistry allows, which is what the observers build on.
THEOREM RefinesRegistry == Spec => ImplementsRegistry
<1>1. Init => Registry!RegistryInit
  BY DEF Init, Registry!RegistryInit
<1>2. IInv /\ [Next]_vars => [Registry!RegistryNext]_(Registry!registry)
  BY RegistryStep
<1> QED
  BY <1>1, <1>2, Invariance, PTL DEF Spec, ImplementsRegistry, Registry!RegistrySpec
=============================================================================
