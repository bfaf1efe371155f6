--------------------------- MODULE SyncBackProofs ---------------------------
(***************************************************************************)
(* The safety of sync-back for every history of commits: the inductive     *)
(* invariant, that close --sync deletes no VM before it published, and     *)
(* that the detailed protocol implements ReviewBranch.                     *)
(***************************************************************************)
EXTENDS SyncBack, TLAPS

\* What the proofs use of the constants.
LEMMA ConstantFacts == MaxFaults \in Nat /\ Base \in Commits
BY SyncAssumption

LEMMA ReachesFacts ==
    /\ NoCommit \notin Commits
    /\ \A c \in Commits : Host!Reaches(c, c)
    /\ \A c, d, e \in Commits : Host!Reaches(c, d) /\ Host!Reaches(d, e) => Host!Reaches(c, e)
BY SyncAssumption

\* A blocked sync-back, from whichever check: its outcome is recorded and nothing
\* else happens, but that a failed update-ref may have moved the refs.
LEMMA BlockedStep ==
    ASSUME IInv, NEW c \in {NoCommit, incoming}, Record("blocked", c), Exit,
           pc \in SyncSteps, UNCHANGED <<guest, vm, incoming, unlocked>>,
           faults' \in 0..MaxFaults,
           UNCHANGED <<head, review>> \/ (incoming # NoCommit /\ MoveRefs)
    PROVE  IInv'
<1>1. c \in MaybeCommit /\ (c # NoCommit => c \in Commits /\ Host!Reaches(c, incoming))
  BY ReachesFacts DEF IInv, TypeOK, MaybeCommit
<1>2. /\ log' = [result |-> "blocked", staged |-> c] /\ sync' = "blocked"
      /\ life' = "running" /\ overwritten' = FALSE
  BY DEF Record, LogRun, WriteLife
<1>3. pc' = Idle /\ op' = "sync" /\ bundle' = NoCommit /\ expected' = NoCommit /\ late' = {}
  BY DEF Exit
<1>4. TypeOK'
  <2>1. log' \in Logs BY <1>1, <1>2 DEF Logs
  <2>2. head' \in Commits /\ review' \in MaybeCommit
    BY DEF IInv, TypeOK, MaybeCommit, MoveRefs
  <2> QED
    BY <2>1, <2>2, <1>2, <1>3 DEF IInv, TypeOK, Operations, Idle, MaybeCommit, guest
<1>5. Knows' /\ CleanMeansPublished'
  BY <1>2, <1>3 DEF Knows, CleanMeansPublished, Idle, SyncSteps
<1>6. StagedWorkIsKept'
  BY <1>1, <1>2 DEF StagedWorkIsKept, Host!Reaches, IInv, TypeOK
<1> QED BY <1>4, <1>5, <1>6 DEF IInv

LEMMA BlockStep ==
    ASSUME IInv, NEW c \in {NoCommit, incoming}, pc \in SyncSteps, Block(c)
    PROVE  IInv'
<1>1. faults' \in 0..MaxFaults
  BY DEF IInv, TypeOK, Block, outside
<1> QED BY <1>1, BlockedStep DEF Block, hostrefs, outside

\* The same of a step that blocks once the bundle has been fetched.
LEMMA BlockWithArtifactsStep ==
    ASSUME IInv, pc \in SyncSteps, BlockWithArtifacts PROVE IInv'
BY BlockStep DEF BlockWithArtifacts

\* One more failure stays within the bound.
LEMMA FaultFacts == ASSUME IInv, Fault PROVE faults' \in 0..MaxFaults
BY ConstantFacts DEF IInv, TypeOK, Fault

\* A command that ends without having changed anything.
LEMMA ExitKeeps ==
    ASSUME IInv, Exit, faults' \in 0..MaxFaults,
           UNCHANGED <<guest, vm, hostrefs, catalog, unlocked>>
    PROVE  IInv'
<1>1. UNCHANGED <<tip, on, dirty, vm, incoming, head, review,
                  life, overwritten, sync, log, unlocked>>
  BY DEF guest, hostrefs, catalog
<1>2. pc' = Idle /\ op' = "sync" /\ bundle' = NoCommit /\ expected' = NoCommit /\ late' = {}
  BY DEF Exit
<1>3. TypeOK'
  BY <1>1, <1>2 DEF IInv, TypeOK, Operations, MaybeCommit
<1>4. Knows' /\ CleanMeansPublished' /\ StagedWorkIsKept'
  BY <1>1, <1>2
  DEF IInv, Knows, CleanMeansPublished, StagedWorkIsKept, Idle, SyncSteps, Host!Reaches
<1> QED BY <1>3, <1>4 DEF IInv

\* A command that fails leaves everything as it is; a show-ref that fails lets the
\* transaction expect no review branch; a failed update-ref is a blocked sync.
LEMMA FailuresKeep == ASSUME IInv, Failures PROVE IInv'
<1>1. CASE Fail
  BY <1>1, FaultFacts, ExitKeeps DEF Fail
<1>2. CASE ReadReviewFails
  <2>1. faults' \in 0..MaxFaults
    BY <1>2, FaultFacts DEF ReadReviewFails
  <2>2. /\ UNCHANGED <<tip, on, dirty, vm, bundle, incoming, head, review, life,
                       overwritten, sync, log, op, late, unlocked>>
        /\ pc = "review" /\ pc' = "update" /\ expected' = NoCommit
    BY <1>2 DEF ReadReviewFails, Step, guest, hostrefs, catalog
  <2>3. TypeOK'
    BY <2>1, <2>2 DEF IInv, TypeOK, MaybeCommit, SyncSteps
  <2>4. Knows'
    BY <2>2 DEF IInv, Knows, SyncSteps, Host!Reaches, Host!FastForwards
  <2>5. CleanMeansPublished' /\ StagedWorkIsKept'
    BY <2>2 DEF IInv, CleanMeansPublished, StagedWorkIsKept, Host!Reaches
  <2> QED BY <2>3, <2>4, <2>5 DEF IInv
<1>3. CASE UpdateRefsFails
  <2>1. faults' \in 0..MaxFaults
    BY <1>3, FaultFacts DEF UpdateRefsFails
  <2>2. pc = "update" /\ incoming # NoCommit
    BY <1>3 DEF UpdateRefsFails, IInv, Knows
  <2> QED BY <1>3, <2>1, <2>2, BlockedStep DEF UpdateRefsFails, SyncSteps
<1> QED BY <1>1, <1>2, <1>3 DEF Failures

\* So does one whose fetch is refused.
LEMMA RefusedKeeps == ASSUME IInv, FetchRefused PROVE IInv'
<1>1. faults' \in 0..MaxFaults /\ UNCHANGED unlocked
  BY DEF IInv, TypeOK, FetchRefused, outside
<1> QED BY <1>1, ExitKeeps DEF FetchRefused

\* start and stop write the lifecycle state, and the history says over what.
LEMMA UnlockedKeeps == ASSUME IInv, Unlocked PROVE IInv'
<1>1. UNCHANGED <<tip, on, dirty, vm, bundle, incoming, head, review, sync, log,
                  pc, op, expected, late, faults>>
  BY DEF Unlocked, UnlockedBegin, UnlockedWrite, UnlockedFails, guest, hostrefs,
         catalog, locals
<1>2. /\ unlocked' \in BOOLEAN
      /\ \/ UNCHANGED <<life, overwritten>>
         \/ life' = "running" /\ overwritten' = (overwritten \/ life # "running")
  BY DEF Unlocked, UnlockedBegin, UnlockedWrite, UnlockedFails, catalog
<1>3. TypeOK'
  BY <1>1, <1>2 DEF IInv, TypeOK
<1>4. CASE UNCHANGED <<life, overwritten>>
  <2>1. Knows' /\ CleanMeansPublished' /\ StagedWorkIsKept'
    BY <1>1, <1>4 DEF IInv, Knows, CleanMeansPublished, StagedWorkIsKept, Host!Reaches,
                      Host!FastForwards
  <2> QED BY <1>3, <2>1 DEF IInv
<1>5. CASE life' = "running" /\ overwritten' = (overwritten \/ life # "running")
  <2>1. overwritten \/ life # "running" => overwritten'
    BY <1>5
  <2>2. pc \in SyncSteps \ {"running"} \/ pc = "outcome" => overwritten'
    BY <2>1 DEF IInv, Knows
  <2>3. Knows'
    BY <1>1, <2>2 DEF IInv, Knows, Host!Reaches, Host!FastForwards
  <2>4. ~overwritten' => life = "running" /\ ~overwritten
    BY <2>1
  <2>5. CleanMeansPublished'
    BY <1>1, <2>4 DEF IInv, CleanMeansPublished
  <2>6. StagedWorkIsKept'
    BY <1>1 DEF IInv, StagedWorkIsKept, Host!Reaches
  <2> QED BY <1>3, <2>3, <2>5, <2>6 DEF IInv
<1> QED BY <1>2, <1>4, <1>5

\* The users of guest and host, and gc, touch nothing the invariant speaks of
\* but the types.
LEMMA UsersStep == ASSUME IInv, Users \/ GcReclaims PROVE IInv'
<1>1. CASE GuestCommits \/ GuestSwitches \/ GuestEdits
  <2>1. tip' \in Commits
    BY <1>1 DEF IInv, TypeOK, GuestCommits, GuestSwitches, GuestEdits
  <2>2. on' \in BOOLEAN /\ dirty' \in BOOLEAN
    BY <1>1 DEF IInv, TypeOK, GuestCommits, GuestSwitches, GuestEdits
  <2>3. late' \subseteq {"edit", "switch", "commit"}
    BY <1>1 DEF IInv, TypeOK, WorkInGuest, GuestCommits, GuestSwitches, GuestEdits
  <2>4. UNCHANGED <<vm, bundle, incoming, head, review, life, overwritten, sync, log, pc,
                    op, expected, unlocked, faults>>
    BY <1>1 DEF GuestCommits, GuestSwitches, GuestEdits, WorkInGuest, hostrefs, catalog,
                outside
  <2> QED
    BY <2>1, <2>2, <2>3, <2>4 DEF IInv, TypeOK, Knows, CleanMeansPublished, StagedWorkIsKept,
                            Host!Reaches, Host!FastForwards
<1>2. CASE HostMovesReview
  BY <1>2 DEF IInv, TypeOK, Knows, CleanMeansPublished, StagedWorkIsKept, HostMovesReview, guest,
              catalog, locals, outside, MaybeCommit, Host!Reaches, Host!FastForwards
<1>3. CASE GcReclaims
  BY <1>3 DEF IInv, TypeOK, Knows, CleanMeansPublished, StagedWorkIsKept, GcReclaims, guest, hostrefs,
              catalog, locals, outside, MaybeCommit, Host!Reaches, Host!FastForwards
<1> QED BY <1>1, <1>2, <1>3 DEF Users

\* A command begins on the session as it is.
LEMMA BeginsKeep == ASSUME IInv, SyncBegin \/ CloseBegin \/ RepairBegin PROVE IInv'
<1>1. /\ UNCHANGED <<tip, on, dirty, vm, bundle, incoming, head, review, life,
                     overwritten, sync, log, expected, late, unlocked, faults>>
      /\ op' \in Operations
      /\ \/ pc' = "running" /\ vm /\ op' \in {"sync", "close"}
         \/ pc' = "confirm" /\ (op' = "close" => sync = "discarded")
         \/ pc' = "destroy" /\ op' = "repair"
  BY DEF SyncBegin, CloseBegin, RepairBegin, Begin, Step, Operations, guest, hostrefs,
         catalog, outside
<1>2. TypeOK'
  BY <1>1 DEF IInv, TypeOK, SyncSteps, CloseSteps
<1>3. Knows'
  BY <1>1 DEF IInv, Knows, SyncSteps
<1>4. CleanMeansPublished' /\ StagedWorkIsKept'
  BY <1>1 DEF IInv, CleanMeansPublished, StagedWorkIsKept, Host!Reaches
<1> QED BY <1>2, <1>3, <1>4 DEF IInv

\* A check that passes moves the command on, and remembers the review branch.
LEMMA PassKeeps ==
    ASSUME IInv, pc \in SyncSteps \ {"running"}, pc' \in SyncSteps \ {"running"},
           UNCHANGED <<guest, vm, hostrefs, catalog, op, bundle, late, outside>>,
           expected' \in MaybeCommit,
           pc' \in {"ancestor", "review", "update", "record"} => incoming # NoCommit,
           pc' \in {"review", "update"} => Host!Reaches(head, incoming),
           pc' = "update" => Host!FastForwards(expected', incoming),
           pc' # "record"
    PROVE  IInv'
<1>1. UNCHANGED <<tip, on, dirty, vm, bundle, incoming, head, review, life, overwritten,
                  sync, log, op, late, unlocked, faults>>
  BY DEF guest, hostrefs, catalog, outside
<1>2. TypeOK'
  BY <1>1 DEF IInv, TypeOK
<1>3. Knows'
  BY <1>1 DEF IInv, Knows, SyncSteps, Host!Reaches, Host!FastForwards
<1>4. CleanMeansPublished' /\ StagedWorkIsKept'
  BY <1>1 DEF IInv, CleanMeansPublished, StagedWorkIsKept, Host!Reaches
<1> QED BY <1>2, <1>3, <1>4 DEF IInv

LEMMA ChecksKeep == ASSUME IInv, CheckDirty \/ CheckHead \/ CheckAncestor \/ ReadReview PROVE IInv'
<1>1. CASE CheckDirty
  <2>1. CASE dirty
    BY <1>1, <2>1, BlockStep DEF CheckDirty, SyncSteps
  <2>2. CASE ~dirty
    <3>1. expected \in MaybeCommit BY DEF IInv, TypeOK
    <3> QED BY <1>1, <2>2, <3>1, PassKeeps DEF CheckDirty, SyncSteps, locals
  <2> QED BY <2>1, <2>2
<1>2. CASE CheckHead
  <2>1. CASE ~on
    BY <1>2, <2>1, BlockStep DEF CheckHead, SyncSteps
  <2>2. CASE on
    <3>1. expected \in MaybeCommit BY DEF IInv, TypeOK
    <3> QED BY <1>2, <2>2, <3>1, PassKeeps DEF CheckHead, SyncSteps, locals
  <2> QED BY <2>1, <2>2
<1>3. CASE CheckAncestor
  <2>1. CASE ~Host!Reaches(head, incoming)
    BY <1>3, <2>1, BlockWithArtifactsStep DEF CheckAncestor, SyncSteps
  <2>2. CASE Host!Reaches(head, incoming)
    <3>1. expected \in MaybeCommit /\ incoming # NoCommit
      BY <1>3 DEF IInv, TypeOK, Knows, CheckAncestor
    <3> QED BY <1>3, <2>2, <3>1, PassKeeps DEF CheckAncestor, SyncSteps, locals
  <2> QED BY <2>1, <2>2
<1>4. CASE ReadReview
  <2>1. CASE ~Host!FastForwards(review, incoming)
    BY <1>4, <2>1, BlockWithArtifactsStep DEF ReadReview, SyncSteps
  <2>2. CASE Host!FastForwards(review, incoming)
    <3>1. review \in MaybeCommit /\ incoming # NoCommit /\ Host!Reaches(head, incoming)
      BY <1>4 DEF IInv, TypeOK, Knows, ReadReview
    <3>2. pc = "review" /\ pc' = "update" /\ expected' = review
          /\ UNCHANGED <<guest, vm, hostrefs, catalog, op, bundle, late, outside>>
      BY <1>4, <2>2 DEF ReadReview
    <3>3. Host!FastForwards(expected', incoming)
      BY <2>2, <3>2 DEF Host!FastForwards
    <3>4. expected' \in MaybeCommit BY <3>1, <3>2
    <3> QED BY <3>1, <3>2, <3>3, <3>4, PassKeeps DEF SyncSteps
  <2> QED BY <2>1, <2>2
<1> QED BY <1>1, <1>2, <1>3, <1>4

\* The steps of sync-back.
LEMMA SyncStepsKeep == ASSUME IInv, SyncStep PROVE IInv'
<1> USE DEF IInv, TypeOK, Knows, CleanMeansPublished, StagedWorkIsKept, Step, Exit, Idle, SyncSteps,
            CloseSteps, MaybeCommit, guest, hostrefs, catalog, locals, outside
<1>1. CASE MarkSyncing
  <2>1. /\ pc = "running" /\ pc' = "dirty" /\ life' = "syncing" /\ overwritten' = FALSE
        /\ UNCHANGED <<tip, on, dirty, vm, bundle, incoming, head, review, sync, log,
                       op, expected, late, unlocked, faults>>
    BY <1>1 DEF MarkSyncing, WriteLife
  <2>2. TypeOK' BY <2>1
  <2>3. Knows' BY <2>1
  <2>4. CleanMeansPublished' BY <2>1
  <2>5. StagedWorkIsKept' BY <2>1 DEF Host!Reaches
  <2> QED BY <2>2, <2>3, <2>4, <2>5
<1>2. CASE CheckDirty \/ CheckHead \/ CheckAncestor \/ ReadReview
  BY <1>2, ChecksKeep
<1>5. CASE CreateBundle
  BY <1>5 DEF CreateBundle, GuestHeads, Host!Reaches, Host!FastForwards
<1>6. CASE FetchBundle
  <2>1. log.staged \in MaybeCommit
    BY DEF Logs
  <2>2. log.staged # NoCommit => Host!Reaches(log.staged, incoming')
    BY <1>6, <2>1, ReachesFacts DEF FetchBundle, Host!FastForwards
  <2>3. ~(life' = "running" /\ ~overwritten')
    BY <1>6 DEF FetchBundle
  <2> QED BY <1>6, <2>2, <2>3 DEF FetchBundle, Host!Reaches, Host!FastForwards
<1>7. CASE FetchRefused
  BY <1>7, RefusedKeeps
<1>10. CASE UpdateRefs
  <2>1. CASE review # expected
    BY <1>10, <2>1, BlockWithArtifactsStep DEF UpdateRefs
  <2>2. CASE review = expected
    <3>1. log.result = "success" /\ log.staged # NoCommit => Host!Reaches(log.staged, head')
      BY <1>10, <2>2 DEF UpdateRefs, MoveRefs
    <3>2. /\ pc = "update" /\ pc' = "record" /\ review' = incoming /\ head' = incoming
          /\ incoming \in Commits
          /\ expected' = NoCommit
          /\ UNCHANGED <<tip, on, dirty, vm, bundle, incoming, life, overwritten, sync,
                         log, op, late, unlocked, faults>>
      BY <1>10, <2>2 DEF UpdateRefs, MoveRefs, Sent
    <3>3. TypeOK' BY <3>2
    <3>4. Knows' BY <3>2
    <3>5. CleanMeansPublished' BY <3>2
    <3>6. StagedWorkIsKept' BY <3>1, <3>2 DEF Host!Reaches
    <3> QED BY <3>3, <3>4, <3>5, <3>6
  <2> QED BY <2>1, <2>2
<1>11. CASE RecordClean
  <2>1. incoming \in Commits /\ Host!Reaches(incoming, incoming) /\ head = incoming
    BY <1>11, ReachesFacts DEF RecordClean
  <2>2. log' = [result |-> "success", staged |-> incoming] /\ sync' = "clean"
        /\ life' = "running" /\ overwritten' = FALSE
    BY <1>11 DEF RecordClean, Record, LogRun, WriteLife
  <2>3. log' \in Logs BY <2>1, <2>2 DEF Logs
  <2>4. op' \in Operations /\ (pc' = "confirm" \/ pc' = Idle)
    BY <1>11 DEF RecordClean, Operations
  <2> QED BY <1>11, <2>1, <2>2, <2>3, <2>4 DEF RecordClean, Host!Reaches, Host!FastForwards
<1> QED
  BY <1>1, <1>2, <1>5, <1>6, <1>7, <1>10, <1>11 DEF SyncStep

\* The steps that destroy a session.
LEMMA CloseStepsKeep == ASSUME IInv, CloseStep PROVE IInv'
<1> USE DEF IInv
<1>1. CASE MarkDestroying
  <2>1. /\ UNCHANGED <<tip, on, dirty, vm, bundle, incoming, head, review, sync, log, op,
                       expected, late, unlocked, faults>>
        /\ pc = "confirm" /\ pc' = "destroy" /\ life' = "destroying" /\ overwritten' = FALSE
    BY <1>1 DEF MarkDestroying, WriteLife, Step, guest, hostrefs, locals, outside
  <2>2. TypeOK' BY <2>1 DEF TypeOK, CloseSteps
  <2>3. Knows' BY <2>1 DEF Knows, SyncSteps
  <2>4. CleanMeansPublished' /\ StagedWorkIsKept'
    BY <2>1 DEF CleanMeansPublished, StagedWorkIsKept, Host!Reaches
  <2> QED BY <2>2, <2>3, <2>4
<1>2. CASE DeleteVm
  <2>1. /\ UNCHANGED <<tip, on, dirty, bundle, incoming, head, review, life, overwritten,
                       sync, log, op, expected, unlocked, faults>>
        /\ pc = "destroy" /\ pc' = "closed" /\ vm' = FALSE /\ late' = {}
    BY <1>2 DEF DeleteVm, Step, guest, hostrefs, catalog, locals, outside
  <2>2. TypeOK' BY <2>1 DEF TypeOK, CloseSteps
  <2>3. Knows' BY <2>1 DEF Knows, SyncSteps
  <2>4. CleanMeansPublished' /\ StagedWorkIsKept'
    BY <2>1 DEF CleanMeansPublished, StagedWorkIsKept, Host!Reaches
  <2> QED BY <2>2, <2>3, <2>4
<1>3. CASE RecordClosed
  <2>1. /\ UNCHANGED <<tip, on, dirty, vm, incoming, head, review, sync, log,
                       unlocked, faults>>
        /\ bundle' \in {bundle, NoCommit}
        /\ pc = "closed" /\ life' = "closed" /\ overwritten' = FALSE
        /\ \/ pc' = "outcome" /\ UNCHANGED <<op, expected, late>>
           \/ pc' = Idle /\ op' = "sync" /\ bundle' = NoCommit /\ expected' = NoCommit /\ late' = {}
    BY <1>3 DEF RecordClosed, WriteLife, Exit, guest, hostrefs, locals, outside
  <2>2. TypeOK' BY <2>1 DEF TypeOK, CloseSteps, Idle, MaybeCommit, Operations
  <2>3. Knows' BY <2>1 DEF Knows, SyncSteps, Idle
  <2>4. CleanMeansPublished' /\ StagedWorkIsKept'
    BY <2>1 DEF CleanMeansPublished, StagedWorkIsKept, Host!Reaches
  <2> QED BY <2>2, <2>3, <2>4
<1>4. CASE RecordOutcome
  <2>1. /\ UNCHANGED <<tip, on, dirty, vm, incoming, head, review, life,
                       overwritten, log, unlocked, faults>>
        /\ pc = "outcome" /\ sync' \in {"discarded", "clean"}
        /\ pc' = Idle /\ op' = "sync" /\ bundle' = NoCommit /\ expected' = NoCommit /\ late' = {}
    BY <1>4 DEF RecordOutcome, Exit, guest, hostrefs, outside
  <2>2. TypeOK' BY <2>1 DEF TypeOK, Idle, MaybeCommit, Operations
  <2>3. Knows' BY <2>1 DEF Knows, SyncSteps, Idle
  <2>4. CleanMeansPublished' /\ StagedWorkIsKept'
    BY <2>1 DEF Knows, CleanMeansPublished, StagedWorkIsKept, Host!Reaches
  <2> QED BY <2>2, <2>3, <2>4
<1> QED BY <1>1, <1>2, <1>3, <1>4 DEF CloseStep

LEMMA InitIInv == Init => IInv
<1> SUFFICES ASSUME Init PROVE IInv OBVIOUS
<1>1. Base \in Commits /\ 0 \in 0..MaxFaults BY ConstantFacts
<1>2. TypeOK
  BY <1>1 DEF Init, TypeOK, Logs, Idle, SyncSteps, CloseSteps, MaybeCommit, Operations
<1>3. Knows /\ CleanMeansPublished /\ StagedWorkIsKept
  BY DEF Init, Knows, CleanMeansPublished, StagedWorkIsKept, Idle, SyncSteps
<1> QED BY <1>2, <1>3 DEF IInv

LEMMA IInvStep == IInv /\ [Next]_vars => IInv'
<1> SUFFICES ASSUME IInv, [Next]_vars PROVE IInv' OBVIOUS
<1>1. CASE Next
  BY <1>1, BeginsKeep, SyncStepsKeep, CloseStepsKeep, FailuresKeep, UnlockedKeeps, UsersStep
  DEF Next, Command
<1>2. CASE UNCHANGED vars
  BY <1>2 DEF IInv, TypeOK, Knows, CleanMeansPublished, StagedWorkIsKept, vars, guest, hostrefs,
              catalog, locals, outside, Host!Reaches, Host!FastForwards
<1> QED BY <1>1, <1>2

\* What a command knows at each of its steps is true whatever the users of guest
\* and host, start and stop, gc, failures and crashes do in between.
THEOREM SyncInvariance == Spec => []IInv
BY InitIInv, IInvStep, PTL DEF Spec

\* A session at rest that says clean has published all it fetched, unless start or
\* stop wrote that state over an unfinished command's.
THEOREM CleanIsPublished == Spec => []CleanMeansPublished
<1>1. IInv => CleanMeansPublished BY DEF IInv
<1> QED BY <1>1, SyncInvariance, PTL

\* The commit that the last recorded sync-back had staged stays in the host
\* repository, and in the session head if it was a success.
THEOREM StagedIsKept == Spec => []StagedWorkIsKept
<1>1. IInv => StagedWorkIsKept BY DEF IInv
<1> QED BY <1>1, SyncInvariance, PTL

\* Only the delete step takes the VM away.
LEMMA OnlyDeleteVm == ASSUME Next, vm, ~vm' PROVE DeleteVm
BY DEF Next, Command, SyncBegin, CloseBegin, RepairBegin, Begin, SyncStep, CloseStep,
           MarkSyncing, CheckDirty, CheckHead, CreateBundle, FetchBundle, FetchRefused,
           CheckAncestor, ReadReview, UpdateRefs, RecordClean, Block, BlockWithArtifacts,
           MarkDestroying, RecordClosed, RecordOutcome, Failures, Fail, ReadReviewFails,
           UpdateRefsFails, Unlocked, UnlockedBegin, UnlockedWrite, UnlockedFails, Users,
           GuestCommits, GuestSwitches, GuestEdits, WorkInGuest, HostMovesReview, GcReclaims

\* close --sync deletes the VM only after its sync-back published.
THEOREM DestroyIsPublished == Spec => DestroyOnlyPublished
<1>1. IInv /\ [Next]_vars
      => [op = "close" /\ vm /\ ~vm' => sync = "clean" /\ head = incoming]_vars
  <2> SUFFICES ASSUME IInv, Next, op = "close", vm, ~vm'
               PROVE  sync = "clean" /\ head = incoming
    OBVIOUS
  <2> QED BY OnlyDeleteVm DEF IInv, Knows, DeleteVm, Step
<1> QED BY <1>1, SyncInvariance, PTL DEF Spec, DestroyOnlyPublished

\* The steps that write neither ref of the promise.
LEMMA OtherStepsLeaveRefs ==
    ASSUME Next, ~UpdateRefs, ~UpdateRefsFails, ~HostMovesReview
    PROVE  UNCHANGED <<review, head>>
BY DEF Next, Command, SyncBegin, CloseBegin, RepairBegin, Begin, SyncStep, CloseStep,
           MarkSyncing, CheckDirty, CheckHead, CreateBundle, FetchBundle, FetchRefused,
           CheckAncestor, ReadReview, RecordClean, Block, BlockWithArtifacts,
           MarkDestroying, DeleteVm, RecordClosed, RecordOutcome, Failures, Fail, ReadReviewFails,
           Unlocked, UnlockedBegin, UnlockedWrite, UnlockedFails, Users,
           GuestCommits, GuestSwitches, GuestEdits, WorkInGuest, GcReclaims, hostrefs

\* The transaction publishes what the checks before it saw, or nothing; it expects
\* what was checked, or no review branch at all.
LEMMA UpdatePublishes ==
    ASSUME IInv, UpdateRefs \/ UpdateRefsFails
    PROVE  (\E c \in Commits : Host!Publish(c)) \/ UNCHANGED <<review, head>>
<1>1. UNCHANGED <<review, head>> \/ (review = expected /\ MoveRefs)
  BY DEF UpdateRefs, UpdateRefsFails, Block, BlockWithArtifacts, hostrefs
<1>2. CASE review = expected /\ MoveRefs
  <2>1. incoming \in Commits /\ Host!Reaches(head, incoming)
    BY DEF IInv, TypeOK, Knows, MaybeCommit, UpdateRefs, UpdateRefsFails
  <2>2. Host!FastForwards(review, incoming)
    BY <1>2 DEF IInv, Knows, UpdateRefs, UpdateRefsFails
  <2> QED BY <1>2, <2>1, <2>2 DEF MoveRefs, Host!Publish
<1> QED BY <1>1, <1>2

\* No command moves the review branch but forward, to the new session head.
THEOREM ReviewMovesForward == Spec => ReviewOnlyForward
<1> DEFINE A == pc' # pc /\ review' # review
                => review' = head' /\ Host!FastForwards(review, review')
<1>1. IInv /\ [Next]_vars => [A]_vars
  <2> SUFFICES ASSUME IInv, Next PROVE A
    OBVIOUS
  <2>1. CASE UpdateRefs \/ UpdateRefsFails
    BY <2>1, UpdatePublishes DEF Host!Publish
  <2>2. CASE HostMovesReview
    BY <2>2 DEF HostMovesReview
  <2> QED BY <2>1, <2>2, OtherStepsLeaveRefs
<1>2. Spec => [][A]_vars
  BY <1>1, SyncInvariance, PTL DEF Spec
<1> QED BY <1>2 DEF ReviewOnlyForward

\* Sync-back, with all that can happen between its steps, implements the
\* promise of ReviewBranch: both refs move at once and forward.
THEOREM Refinement == Spec => RefsPromise
<1>1. Init => Host!Init
  BY DEF Init, Host!Init
<1>2. IInv /\ [Next]_vars => [Host!Next]_(Host!refs)
  <2> SUFFICES ASSUME IInv, [Next]_vars PROVE [Host!Next]_(Host!refs)
    OBVIOUS
  <2>1. CASE UpdateRefs \/ UpdateRefsFails
    BY <2>1, UpdatePublishes DEF Host!Next, Host!refs
  <2>2. CASE HostMovesReview
    BY <2>2 DEF HostMovesReview, Host!Next, Host!HostMoves, MaybeCommit
  <2>3. CASE Next /\ ~UpdateRefs /\ ~UpdateRefsFails /\ ~HostMovesReview
    BY <2>3, OtherStepsLeaveRefs DEF Host!refs
  <2>4. CASE UNCHANGED vars
    BY <2>4 DEF vars, hostrefs, Host!refs
  <2> QED BY <2>1, <2>2, <2>3, <2>4
<1> QED BY <1>1, <1>2, SyncInvariance, PTL DEF Spec, RefsPromise, Host!Spec

-------------------------------------------------------------------------------
(* What a command has seen of the guest *)

LEMMA InitGuestAsSeen == Init => GuestAsSeen
BY DEF Init, GuestAsSeen, Idle, PastDirty, PastBundle

\* A command that ended has seen nothing any more.
LEMMA ExitSeesNothing == ASSUME Exit PROVE GuestAsSeen'
BY DEF Exit, Idle, GuestAsSeen, PastDirty, PastBundle

\* The checks and the close find what they leave.
LEMMA CommandKeepsSeen == ASSUME IInv, GuestAsSeen, Command PROVE GuestAsSeen'
<1> USE ExitSeesNothing
<1> USE DEF GuestAsSeen, Step, Idle, PastDirty, PastBundle, guest, hostrefs, catalog, locals
<1>0. UNCHANGED <<tip, on, dirty>>
  BY DEF Command, SyncBegin, CloseBegin, RepairBegin, Begin, SyncStep, CloseStep,
         MarkSyncing, CheckDirty, CheckHead, CreateBundle, FetchBundle, FetchRefused,
         CheckAncestor, ReadReview, UpdateRefs, RecordClean, Block, BlockWithArtifacts,
         MarkDestroying, DeleteVm, RecordClosed, RecordOutcome
<1>1. CASE SyncBegin \/ CloseBegin \/ RepairBegin
  BY <1>0, <1>1 DEF SyncBegin, CloseBegin, RepairBegin, Begin, IInv, Knows
<1>2. CASE MarkSyncing
  BY <1>0, <1>2 DEF MarkSyncing
<1>3. CASE CheckDirty
  BY <1>0, <1>3 DEF CheckDirty, Block
<1>4. CASE CheckHead
  BY <1>0, <1>4 DEF CheckHead, Block
<1>5. CASE CreateBundle
  BY <1>0, <1>5 DEF CreateBundle, GuestHeads
<1>6. CASE FetchBundle
  BY <1>0, <1>6 DEF FetchBundle
<1>7. CASE FetchRefused
  BY <1>7 DEF FetchRefused
<1>8. CASE CheckAncestor
  BY <1>0, <1>8 DEF CheckAncestor, Block, BlockWithArtifacts
<1>9. CASE ReadReview
  BY <1>0, <1>9 DEF ReadReview, Block, BlockWithArtifacts
<1>10. CASE UpdateRefs
  BY <1>0, <1>10 DEF UpdateRefs, Sent, Block, BlockWithArtifacts
<1>11. CASE RecordClean
  BY <1>0, <1>11 DEF RecordClean
<1>12. CASE CloseStep
  BY <1>0, <1>12 DEF CloseStep, MarkDestroying, DeleteVm, RecordClosed, RecordOutcome
<1> QED
  BY <1>1, <1>2, <1>3, <1>4, <1>5, <1>6, <1>7, <1>8, <1>9, <1>10, <1>11, <1>12
     DEF Command, SyncStep

\* What is done in the guest where it matters is late; the rest changes nothing
\* that was seen.
LEMMA OthersKeepSeen ==
    ASSUME IInv, GuestAsSeen, Failures \/ Unlocked \/ Users \/ GcReclaims PROVE GuestAsSeen'
<1> USE DEF PastDirty, PastBundle
<1>1. CASE Fail \/ UpdateRefsFails
  BY <1>1, ExitSeesNothing DEF Fail, UpdateRefsFails
<1>2. CASE ReadReviewFails
  BY <1>2 DEF ReadReviewFails, Step, GuestAsSeen, guest, hostrefs
<1>3. CASE GuestCommits
  BY <1>3 DEF GuestCommits, WorkInGuest, GuestAsSeen, hostrefs
<1>4. CASE GuestSwitches
  BY <1>4 DEF GuestSwitches, WorkInGuest, GuestAsSeen, hostrefs
<1>5. CASE GuestEdits
  BY <1>5 DEF GuestEdits, WorkInGuest, GuestAsSeen, hostrefs
<1>6. CASE HostMovesReview
  BY <1>6 DEF HostMovesReview, GuestAsSeen, guest, locals
<1>7. CASE GcReclaims
  BY <1>7 DEF GcReclaims, GuestAsSeen, guest, hostrefs, locals
<1>8. CASE Unlocked
  BY <1>8 DEF Unlocked, UnlockedBegin, UnlockedWrite, UnlockedFails, GuestAsSeen, guest,
              hostrefs, locals
<1> QED BY <1>1, <1>2, <1>3, <1>4, <1>5, <1>6, <1>7, <1>8 DEF Users, Failures

LEMMA GuestAsSeenStep == IInv /\ GuestAsSeen /\ [Next]_vars => GuestAsSeen'
<1> SUFFICES ASSUME IInv, GuestAsSeen, [Next]_vars PROVE GuestAsSeen' OBVIOUS
<1>1. CASE UNCHANGED vars
  BY <1>1 DEF GuestAsSeen, vars, guest, hostrefs, locals, PastDirty, PastBundle
<1> QED BY <1>1, CommandKeepsSeen, OthersKeepSeen DEF Next

\* What close --sync saw of the guest stays true to its end, but for what was done
\* there after it had looked.
THEOREM SeenStaysSo == Spec => []GuestAsSeen
BY InitIInv, IInvStep, InitGuestAsSeen, GuestAsSeenStep, PTL DEF Spec

\* close --sync takes with the VM no uncommitted edit that was there when it asked
\* for the status, and no commit of the review branch that was there when it made
\* the bundle, unless HEAD was switched just before.
THEOREM CloseLosesOnlyLateWork == Spec => OnlyLateWorkIsLost
<1> DEFINE A == op = "close" /\ vm /\ ~vm' =>
                  /\ dirty => "edit" \in late
                  /\ tip # head => "commit" \in late \/ "switch" \in late
<1>1. IInv /\ GuestAsSeen /\ [Next]_vars => [A]_vars
  <2> SUFFICES ASSUME IInv, GuestAsSeen, Next, op = "close", vm, ~vm'
               PROVE  /\ dirty => "edit" \in late
                      /\ tip # head => "commit" \in late \/ "switch" \in late
    OBVIOUS
  <2>1. pc = "destroy"
    BY OnlyDeleteVm DEF DeleteVm, Step
  <2> QED BY <2>1 DEF IInv, Knows, GuestAsSeen, PastDirty, PastBundle
<1>2. Spec => [][A]_vars
  BY <1>1, SyncInvariance, SeenStaysSo, PTL DEF Spec
<1> QED BY <1>2 DEF OnlyLateWorkIsLost

\* The bundle of close --sync carries the guest's review branch, unless HEAD was switched between
\* its check and the bundle.
THEOREM BundlesTheReviewBranch == Spec => BundleIsReviewBranch
<1> DEFINE A == op = "close" /\ pc = "bundle" /\ pc' = "fetch"
                => bundle' = tip \/ "switch" \in late
<1>1. IInv /\ GuestAsSeen /\ [Next]_vars => [A]_vars
  <2> SUFFICES ASSUME IInv, GuestAsSeen, Next, op = "close", pc = "bundle", pc' = "fetch"
               PROVE  bundle' = tip \/ "switch" \in late
    OBVIOUS
  <2>1. CreateBundle
    BY DEF Next, Command, SyncBegin, CloseBegin, RepairBegin, Begin, SyncStep, CloseStep,
           MarkSyncing, CheckDirty, CheckHead, FetchBundle, FetchRefused,
           CheckAncestor, ReadReview, UpdateRefs, RecordClean, Block, BlockWithArtifacts,
           MarkDestroying, DeleteVm, RecordClosed, RecordOutcome, Failures, Fail, ReadReviewFails,
           UpdateRefsFails, Unlocked, UnlockedBegin, UnlockedWrite, UnlockedFails, Users,
           GuestCommits, GuestSwitches, GuestEdits, WorkInGuest, HostMovesReview, GcReclaims,
           Step, Exit, Idle
  <2>2. vm
    BY DEF IInv, Knows, SyncSteps
  <2> QED BY <2>1, <2>2 DEF CreateBundle, GuestHeads, GuestAsSeen
<1>2. Spec => [][A]_vars
  BY <1>1, SyncInvariance, SeenStaysSo, PTL DEF Spec
<1> QED BY <1>2 DEF BundleIsReviewBranch

-------------------------------------------------------------------------------
(* The registry *)

\* All commands here change row and VM as SessionRegistry allows, like the coarser
\* steps that stand for them in SessionLifecycle; Closed is written only by a
\* command that has deleted the VM.
THEOREM SyncRefinesRegistry == Spec => MovesAsRegistry
<1>1. IInv /\ [Next]_vars => [Registry!RegistryNext]_(Registry!registry)
  <2> SUFFICES ASSUME IInv, [Next]_vars
               PROVE  [Registry!RegistryNext]_(Registry!registry)
    OBVIOUS
  <2>1. life \in {"running", "syncing", "destroying", "closed"}
    BY DEF IInv, TypeOK
  <2>2. CASE DeleteVm
    BY <2>2 DEF DeleteVm, catalog, Registry!registry, Registry!RegistryNext, Registry!Delete
  <2>3. CASE RecordClosed
    BY <2>1, <2>3
    DEF RecordClosed, WriteLife, IInv, Knows, Registry!RegistryNext, Registry!WriteState
  <2>4. CASE ~DeleteVm /\ ~RecordClosed
    <3>1. vm' = vm /\ (life' = life \/ life' \in {"running", "syncing", "destroying"})
      BY <2>4
      DEF Next, Command, SyncBegin, CloseBegin, RepairBegin, Begin, SyncStep, CloseStep,
           MarkSyncing, CheckDirty, CheckHead, CreateBundle, FetchBundle, FetchRefused,
           CheckAncestor, ReadReview, UpdateRefs, RecordClean, Block, Record, WriteLife, BlockWithArtifacts,
           MarkDestroying, RecordOutcome, Failures, Fail, ReadReviewFails,
           UpdateRefsFails, Unlocked, UnlockedBegin, UnlockedWrite, UnlockedFails, Users,
           GuestCommits, GuestSwitches, GuestEdits, WorkInGuest, HostMovesReview, GcReclaims,
          vars, catalog
    <3> QED
      BY <2>1, <3>1 DEF Registry!registry, Registry!RegistryNext, Registry!WriteState
  <2> QED BY <2>2, <2>3, <2>4
<1> QED
  BY <1>1, SyncInvariance, PTL DEF Spec, MovesAsRegistry
=============================================================================
