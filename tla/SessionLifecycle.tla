--------------------------- MODULE SessionLifecycle ---------------------------
(***************************************************************************)
(* The life of ONE session name of agbranch: its catalog row, its Lima VM, *)
(* its host git refs, its lock file, and the agbranch processes that work  *)
(* on it at the same time.                                                 *)
(*                                                                         *)
(* launch/open, retry, close, sync-back and repair hold the session lock   *)
(* (locks/<session>.lock, a try-lock the kernel drops when the process     *)
(* dies).  start, stop, kill and agent start take no lock at all.  A       *)
(* refused command (lock busy, slot taken, nothing to retry ...) changes   *)
(* nothing, so it is no step here.                                         *)
(***************************************************************************)
EXTENDS Integers, Sequences, FiniteSets

CONSTANTS
    Procs,        \* agbranch processes that may run at the same time
    None,         \* no process
    Dead,         \* the pid of a process that died without clearing the row
    Mode,         \* "sandbox" (agbranch launch) or "repo" (agbranch open)
    Agent,        \* TRUE when the session is launched with a provider
    Commands,     \* the commands the users run
    MaxLaunches   \* bound: rows ever inserted for this session name

AllCommands == {"launch", "retry", "close_sync", "close_discard", "sync",
                "repair", "start", "stop", "kill", "agent"}

ASSUME LifecycleAssumption ==
    /\ None \notin Procs /\ Dead \notin Procs /\ None # Dead
    /\ Mode \in {"sandbox", "repo"}
    /\ Agent \in BOOLEAN
    /\ Commands \subseteq AllCommands \cup {"reboot", "host_branch"}
    /\ MaxLaunches \in Nat \ {0}

\* SANDBOX_STAGES and REPO_STAGES: the launch checkpoints in their order.
Stages ==
    IF Mode = "sandbox"
    THEN <<"vm_cloned", "ports_configured", "vm_started",
           "guest_support_installed", "shell_ready", "workspace_seeded",
           "agent_started">>
    ELSE <<"vm_cloned", "ports_configured", "vm_started",
           "guest_support_installed", "workspace_seeded", "shell_ready",
           "git_identity_configured", "agent_started">>

NStages == Len(Stages)
StageNames == {Stages[i] : i \in 1..NStages}

\* What a phase leaves in the VM's memory; it is gone once the VM stops.
Windows(s) ==
    CASE s = "shell_ready" -> {"shell"}
      [] s = "agent_started" -> IF Agent THEN {"shell", "agent"} ELSE {}
      [] OTHER -> {}

\* Phases whose effect is on the VM's disk and survives a stop of the VM.
DiskStages == StageNames \ {"vm_started", "shell_ready", "agent_started"}

VARIABLES
    lock,     \* holder of locks/<session>.lock
    row,      \* 0: no row; n: the row of the n-th launch
    life,     \* lifecycle_state
    sync,     \* sync_state
    ckpt,     \* session_launch_retries: 0 for no entry, else the stage saved
    meta,     \* lock_owner_pid
    launches, \* rows inserted so far
    vm,       \* the session VM: "absent", "stopped" or "running"
    owner,    \* the launch that cloned this VM (0 when there is none)
    done,     \* disk effects the VM carries
    live,     \* tmux windows alive in the VM
    refs,     \* host refs: "base" and "head" (hidden), "review" (the branch)
    pc, op,   \* per process: next step and command
    stage,    \* per process: index of the launch phase it works on
    from      \* per process: checkpoint a retry resumed from (0: launch)

catalog == <<row, life, sync, ckpt, meta, launches>>
machine == <<vm, owner, done, live>>
local == <<op, stage, from>>
vars == <<lock, catalog, machine, refs, pc, local>>

Idle == "idle"

LaunchPcs == {"meta", "refs", "clone", "checkpoint", "mark", "stage",
              "finalize", "forget", "rbrow", "rbbase", "rbhead", "rbreview", "rbvm"}
SyncPcs == {"sync", "syncing", "guest", "publish", "record"}
ClosePcs == {"confirm", "destroy", "closed", "outcome"}
RepairPcs == {"restart", "restarted"}
LockedPcs == LaunchPcs \cup SyncPcs \cup ClosePcs \cup RepairPcs \cup {"release"}
UnlockedPcs == {"u_start", "u_shell", "u_agent", "u_stop", "u_kill", "u_force",
                "u_write"}

Lives == {"none", "cloning", "starting", "seeding", "running", "stopped",
          "syncing", "destroying", "closed"}
Syncs == {"none", "pending", "clean", "blocked", "discarded"}

TypeOK ==
    /\ lock \in Procs \cup {None}
    /\ row \in 0..MaxLaunches /\ launches \in 0..MaxLaunches
    /\ life \in Lives /\ sync \in Syncs
    /\ ckpt \in 0..NStages
    /\ meta \in Procs \cup {None, Dead}
    /\ vm \in {"absent", "stopped", "running"}
    /\ owner \in 0..MaxLaunches
    /\ done \subseteq StageNames
    /\ live \subseteq {"shell", "agent"}
    /\ refs \subseteq {"base", "head", "review"}
    /\ pc \in [Procs -> LockedPcs \cup UnlockedPcs \cup {Idle}]
    /\ op \in [Procs -> AllCommands \cup {Idle}]
    /\ stage \in [Procs -> 1..(NStages + 1)]
    /\ from \in [Procs -> 0..NStages]

Init ==
    /\ lock = None /\ row = 0 /\ life = "none" /\ sync = "none"
    /\ ckpt = 0 /\ meta = None /\ launches = 0
    /\ vm = "absent" /\ owner = 0 /\ done = {} /\ live = {} /\ refs = {}
    /\ pc = [p \in Procs |-> Idle]
    /\ op = [p \in Procs |-> Idle]
    /\ stage = [p \in Procs |-> 1]
    /\ from = [p \in Procs |-> 0]

Goto(p, l) == pc' = [pc EXCEPT ![p] = l]
Step(p, l, m) == pc[p] = l /\ Goto(p, m)

\* The process ends and its local variables with it.
Exit(p) ==
    /\ Goto(p, Idle)
    /\ op' = [op EXCEPT ![p] = Idle]
    /\ stage' = [stage EXCEPT ![p] = 1]
    /\ from' = [from EXCEPT ![p] = 0]

\* What `limactl delete` and a fresh clone do to the VM.
NoVm == vm' = "absent" /\ owner' = 0 /\ done' = {} /\ live' = {}
NewVm(d) == vm' = "stopped" /\ owner' = row /\ done' = d /\ live' = {}

\* UPDATE sessions ... WHERE name: no row, no change.
SetLife(l) == life' = IF row = 0 THEN life ELSE l

-------------------------------------------------------------------------------
(* launch / open *)

\* No row has the session's name, a closed one neither.
SlotFree == row = 0

\* ensure_open_targets_available.
TargetsFree == refs = {}

\* The checks, then the insert, all under the session lock.
LaunchBegin(p) ==
    /\ "launch" \in Commands
    /\ pc[p] = Idle /\ lock = None
    /\ SlotFree /\ TargetsFree /\ launches < MaxLaunches
    /\ lock' = p
    /\ launches' = launches + 1 /\ row' = launches + 1
    /\ life' = "cloning" /\ sync' = "pending"
    /\ Goto(p, "meta")
    /\ op' = [op EXCEPT ![p] = "launch"]
    /\ stage' = [stage EXCEPT ![p] = 1]
    /\ from' = [from EXCEPT ![p] = 0]
    /\ UNCHANGED <<ckpt, meta, machine, refs>>

SetLockMetadata(p) ==
    /\ Step(p, "meta", IF Mode = "repo" THEN "refs" ELSE "clone")
    /\ meta' = p
    /\ UNCHANGED <<lock, row, life, sync, ckpt, launches, machine, refs, local>>

\* update-ref base, then update-ref head.
InitializeSessionRefs(p) ==
    /\ pc[p] = "refs"
    /\ IF "base" \in refs
       THEN refs' = refs \cup {"head"} /\ Goto(p, "clone")
       ELSE refs' = refs \cup {"base"} /\ UNCHANGED pc
    /\ UNCHANGED <<lock, catalog, machine, local>>

CloneVm(p) ==
    /\ vm = "absent"
    /\ Step(p, "clone", "checkpoint")
    /\ NewVm({"vm_cloned"})
    /\ UNCHANGED <<lock, catalog, refs, local>>

\* prepare-base, the seed clone or `limactl clone` fails; a clone that is
\* killed on its timeout may leave an instance behind.
BeforeCloneFails(p) ==
    /\ pc[p] \in {"refs", "clone"}
    /\ Goto(p, "rbrow")
    /\ \/ UNCHANGED machine
       \/ pc[p] = "clone" /\ vm = "absent" /\ NewVm({})
    /\ UNCHANGED <<lock, catalog, refs, local>>

\* LockMetadataGuard::acquire fails before SessionGuard exists: the row of the
\* launch stays.  In every other place an error just abandons the command.  An
\* external command that fails or is killed on its timeout after it had its
\* effect is that command's step followed by this one.
Abandon(p) ==
    /\ pc[p] \in {"meta", "stage", "checkpoint", "mark", "finalize", "forget"}
                 \cup SyncPcs \cup ClosePcs \cup RepairPcs
    /\ ~(pc[p] = "checkpoint" /\ stage[p] = 1 /\ op[p] = "launch")
    /\ Goto(p, "release")
    /\ UNCHANGED <<lock, catalog, machine, refs, local>>

\* checkpoint(VM_CLONED) fails: retryable is still false, so roll back.
FirstCheckpointFails(p) ==
    /\ stage[p] = 1 /\ op[p] = "launch"
    /\ Step(p, "checkpoint", "rbrow")
    /\ UNCHANGED <<lock, catalog, machine, refs, local>>

-------------------------------------------------------------------------------
(* The phases after the clone, shared by launch, open and retry *)

NextPhase(p, i) ==
    /\ stage' = [stage EXCEPT ![p] = i]
    /\ Goto(p, IF i > NStages THEN "finalize" ELSE "stage")
    /\ UNCHANGED <<op, from>>

\* The row's state changes after the clone and after the start.
Marks(p) == Stages[stage[p]] \in {"vm_cloned", "vm_started"}

Checkpoint(p) ==
    /\ pc[p] = "checkpoint"
    /\ ckpt' = stage[p]
    /\ IF Marks(p)
       THEN Goto(p, "mark") /\ UNCHANGED local
       ELSE NextPhase(p, stage[p] + 1)
    /\ UNCHANGED <<lock, row, life, sync, meta, launches, machine, refs>>

\* Starting after the clone, Seeding after the start.  A retry resumes with the
\* first phase after its checkpoint.
Mark(p) ==
    /\ pc[p] = "mark"
    /\ SetLife(IF Stages[stage[p]] = "vm_cloned" THEN "starting" ELSE "seeding")
    /\ NextPhase(p, (IF from[p] > stage[p] THEN from[p] ELSE stage[p]) + 1)
    /\ UNCHANGED <<lock, row, sync, ckpt, meta, launches, machine, refs>>

\* A retry whose checkpoint is past the start boots a stopped VM again, but
\* saves no checkpoint for it.
StartVm(p) ==
    /\ pc[p] = "stage" /\ Stages[stage[p]] = "vm_started" /\ vm # "absent"
    /\ vm' = "running"
    /\ Goto(p, IF from[p] >= stage[p] THEN "mark" ELSE "checkpoint")
    /\ UNCHANGED <<lock, catalog, owner, done, live, refs, local>>

\* Port forwards are written to the instance's file; everything else runs in
\* the guest.
DoPhase(p) ==
    /\ pc[p] = "stage" /\ Stages[stage[p]] # "vm_started"
    /\ IF Stages[stage[p]] = "ports_configured" THEN vm # "absent"
                                                ELSE vm = "running"
    /\ done' = done \cup {Stages[stage[p]]}
    /\ live' = live \cup Windows(Stages[stage[p]])
    /\ Goto(p, "checkpoint")
    /\ UNCHANGED <<lock, catalog, vm, owner, refs, local>>

Finalize(p) ==
    /\ Step(p, "finalize", "forget")
    /\ SetLife("running")
    /\ UNCHANGED <<lock, row, sync, ckpt, meta, launches, machine, refs, local>>

\* delete_launch_retry: the launch needs no retry any more.
Forget(p) ==
    /\ Step(p, "forget", "release")
    /\ ckpt' = 0
    /\ UNCHANGED <<lock, row, life, sync, meta, launches, machine, refs, local>>

-------------------------------------------------------------------------------
(* SessionGuard's rollback of a launch that failed before its first checkpoint *)

DeleteRow ==
    /\ row' = 0 /\ life' = "none" /\ sync' = "none" /\ ckpt' = 0 /\ meta' = None
    /\ UNCHANGED launches

AfterRow == IF Mode = "repo" THEN "rbbase" ELSE "rbvm"

\* launch ignores an error here and deletes the VM all the same; open stops.
RollbackRow(p) ==
    /\ pc[p] = "rbrow"
    /\ \/ DeleteRow /\ Goto(p, AfterRow)
       \/ UNCHANGED catalog /\ Goto(p, IF Mode = "repo" THEN "release" ELSE "rbvm")
    /\ UNCHANGED <<lock, machine, refs, local>>

\* delete_ref_if_exists, whoever created the ref; a show-ref that fails is taken
\* for a ref that does not exist.
DeleteRef(p, l, r, m) ==
    /\ pc[p] = l
    /\ \/ refs' \in {refs, refs \ {r}} /\ Goto(p, m)
       \/ UNCHANGED refs /\ Goto(p, "release")
    /\ UNCHANGED <<lock, catalog, machine, local>>

RollbackRefs(p) ==
    \/ DeleteRef(p, "rbbase", "base", "rbhead")
    \/ DeleteRef(p, "rbhead", "head", "rbreview")
    \/ DeleteRef(p, "rbreview", "review", "rbvm")

RollbackVm(p) ==
    /\ Step(p, "rbvm", "release")
    /\ NoVm \/ UNCHANGED machine
    /\ UNCHANGED <<lock, catalog, refs, local>>

-------------------------------------------------------------------------------
(* The other commands that hold the session lock *)

\* SessionLock::acquire, find_session, LockMetadataGuard::acquire.
Admit(p, c, l) ==
    /\ c \in Commands
    /\ pc[p] = Idle /\ lock = None /\ row # 0
    /\ lock' = p /\ meta' = p
    /\ op' = [op EXCEPT ![p] = c]
    /\ Goto(p, l)
    /\ UNCHANGED <<row, life, sync, ckpt, launches, machine, refs>>

\* Only a session with a checkpoint and a VM is resumed.
CanResume == ckpt # 0 /\ vm # "absent"

\* Mutant: remaining_stages starts one phase too late.
RetrySkipsPhase(p) ==
    /\ CanResume
    /\ Admit(p, "retry", "stage")
    /\ from' = [from EXCEPT ![p] = ckpt]
    /\ stage' = [stage EXCEPT ![p] = 3]

\* The first of remaining_stages.
RetryBegin(p) ==
    /\ CanResume
    /\ Admit(p, "retry", "stage")
    /\ from' = [from EXCEPT ![p] = ckpt]
    /\ stage' = [stage EXCEPT ![p] = IF ckpt = 1 THEN 2 ELSE 3]

\* should_sync_before_close: everything but a discarded session is synced.
CloseSyncBegin(p) ==
    /\ Mode = "repo"
    /\ Admit(p, "close_sync", IF sync = "discarded" THEN "confirm" ELSE "sync")
    /\ UNCHANGED <<stage, from>>

CloseDiscardBegin(p) ==
    Admit(p, "close_discard", "confirm") /\ UNCHANGED <<stage, from>>

SyncBegin(p) ==
    Mode = "repo" /\ Admit(p, "sync", "sync") /\ UNCHANGED <<stage, from>>

\* Mutant: an interrupted clone is restarted like an interrupted start.
RepairRestartsClone(l) ==
    CASE l \in {"cloning", "starting"} -> "restart"
      [] l = "destroying" -> "finish_destroy"
      [] l \in {"running", "stopped", "closed"} -> "noop"
      [] OTHER -> "manual"

\* Mutant: Destroying is left to the user.
RepairNeverDestroys(l) ==
    CASE l = "starting" -> "restart"
      [] l \in {"running", "stopped", "closed"} -> "noop"
      [] OTHER -> "manual"

\* repair_action_for_state.
RepairAction(l) ==
    CASE l = "starting" -> "restart"
      [] l = "destroying" -> "finish_destroy"
      [] l \in {"running", "stopped", "closed"} -> "noop"
      [] OTHER -> "manual"

\* No-op and manual repairs end at once.
FirstRepairStep ==
    IF RepairAction(life) = "restart" THEN "restart"
    ELSE IF RepairAction(life) = "finish_destroy" THEN "destroy"
    ELSE "release"

RepairBegin(p) == Admit(p, "repair", FirstRepairStep) /\ UNCHANGED <<stage, from>>

\* Mutant: the VM is deleted without writing Destroying first.
ConfirmSilently(p) ==
    /\ Step(p, "confirm", "destroy")
    /\ UNCHANGED <<lock, catalog, machine, refs, local>>

\* Mutant: Closed is written right after Destroying.
ConfirmThenClose(p) ==
    /\ Step(p, "confirm", "closed")
    /\ SetLife("destroying")
    /\ UNCHANGED <<lock, row, sync, ckpt, meta, launches, machine, refs, local>>

\* finish_close: without --yes the close is abandoned here.
Confirm(p) ==
    /\ Step(p, "confirm", "destroy")
    /\ SetLife("destroying")
    /\ UNCHANGED <<lock, row, sync, ckpt, meta, launches, machine, refs, local>>

\* `limactl delete --force`, which does not mind a missing VM.
Destroy(p) ==
    /\ Step(p, "destroy", "closed")
    /\ NoVm
    /\ UNCHANGED <<lock, catalog, refs, local>>

\* close records the sync outcome next; repair leaves it as it is.
RecordClosed(p) ==
    /\ Step(p, "closed", IF op[p] = "repair" THEN "release" ELSE "outcome")
    /\ SetLife("closed")
    /\ UNCHANGED <<lock, row, sync, ckpt, meta, launches, machine, refs, local>>

RecordOutcome(p) ==
    /\ Step(p, "outcome", "release")
    /\ sync' = IF op[p] = "close_sync" THEN "clean" ELSE "discarded"
    /\ UNCHANGED <<lock, row, life, ckpt, meta, launches, machine, refs, local>>

RestartVm(p) ==
    /\ vm # "absent"
    /\ Step(p, "restart", "restarted")
    /\ vm' = "running"
    /\ UNCHANGED <<lock, catalog, owner, done, live, refs, local>>

RecordRestarted(p) ==
    /\ Step(p, "restarted", "release")
    /\ SetLife("running")
    /\ UNCHANGED <<lock, row, sync, ckpt, meta, launches, machine, refs, local>>

-------------------------------------------------------------------------------
(* Sync-back, alone or as the first half of close --sync *)

EnsureInstanceRunning(p) ==
    /\ vm # "absent"
    /\ Step(p, "sync", "syncing")
    /\ vm' = "running"
    /\ UNCHANGED <<lock, catalog, owner, done, live, refs, local>>

MarkSyncing(p) ==
    /\ Step(p, "syncing", "guest")
    /\ SetLife("syncing")
    /\ UNCHANGED <<lock, row, sync, ckpt, meta, launches, machine, refs, local>>

\* The guest repository answers, and its HEAD is bundled and fetched.
GuestAnswers == vm = "running" /\ "workspace_seeded" \in done

FetchGuestHead(p) ==
    /\ GuestAnswers /\ "head" \in refs
    /\ Step(p, "guest", "publish")
    /\ UNCHANGED <<lock, catalog, machine, refs, local>>

\* publish_synced_refs moves the review branch and the session head.  Which commit
\* they move to is SyncBack's subject: of refs this module knows only whether they
\* exist, for that is what a launch refuses and a rollback deletes.
Publish(p) ==
    /\ Step(p, "publish", "record")
    /\ refs' = refs \cup {"review"}
    /\ UNCHANGED <<lock, catalog, machine, local>>

\* record_sync_outcome: one transaction.
RecordOutcomeOf(s) ==
    /\ sync' = IF row = 0 THEN sync ELSE s
    /\ SetLife("running")
    /\ UNCHANGED <<row, ckpt, meta, launches>>

RecordClean(p) ==
    /\ Step(p, "record", IF op[p] = "close_sync" THEN "confirm" ELSE "release")
    /\ RecordOutcomeOf("clean")
    /\ UNCHANGED <<lock, machine, refs, local>>

\* Dirty guest, wrong branch, rewritten head or diverged review branch.
SyncBlocked(p) ==
    /\ \/ pc[p] = "guest" /\ GuestAnswers
       \/ pc[p] = "publish"
    /\ Goto(p, "release")
    /\ RecordOutcomeOf("blocked")
    /\ UNCHANGED <<lock, machine, refs, local>>

-------------------------------------------------------------------------------
(* The end of a locked command *)

\* Mutant: the release waits for the row to carry its own pid.
ReleaseNeedsMeta(p) ==
    /\ meta = p
    /\ pc[p] = "release" /\ Exit(p)
    /\ lock' = None /\ meta' = None
    /\ UNCHANGED <<row, life, sync, ckpt, launches, machine, refs>>

\* LockMetadataGuard clears the row, then the file lock is dropped.
Release(p) ==
    /\ pc[p] = "release" /\ Exit(p)
    /\ lock' = None /\ meta' = None
    /\ UNCHANGED <<row, life, sync, ckpt, launches, machine, refs>>

\* The process dies: the kernel drops its lock, nobody clears the row.
Crash(p) ==
    /\ pc[p] # Idle /\ Exit(p)
    /\ lock' = IF lock = p THEN None ELSE lock
    /\ meta' = IF meta = p THEN Dead ELSE meta
    /\ UNCHANGED <<row, life, sync, ckpt, launches, machine, refs>>

-------------------------------------------------------------------------------
(* start, stop, kill and agent start: no lock *)

Enter(p, c, l) ==
    /\ c \in Commands
    /\ pc[p] = Idle /\ row # 0
    /\ op' = [op EXCEPT ![p] = c]
    /\ Goto(p, l)
    /\ UNCHANGED <<lock, catalog, machine, refs, stage, from>>

StartBegin(p) == Enter(p, "start", "u_start")
StopBegin(p) == Enter(p, "stop", "u_stop")
KillBegin(p) == Enter(p, "kill", "u_kill")
AgentBegin(p) == Agent /\ Enter(p, "agent", "u_start")

UnlockedStart(p) ==
    /\ vm # "absent"
    /\ Step(p, "u_start", IF op[p] = "agent" THEN "u_agent" ELSE "u_shell")
    /\ vm' = "running"
    /\ UNCHANGED <<lock, catalog, owner, done, live, refs, local>>

EnsureShell(p) ==
    /\ vm = "running"
    /\ Step(p, "u_shell", "u_write")
    /\ live' = live \cup {"shell"}
    /\ UNCHANGED <<lock, catalog, vm, owner, done, refs, local>>

UnlockedStop(p) ==
    /\ vm # "absent"
    /\ Step(p, "u_stop", "u_write")
    /\ vm' = "stopped" /\ live' = {}
    /\ UNCHANGED <<lock, catalog, owner, done, refs, local>>

\* The state the command wants is written whatever the row says by now.
UnlockedWrite(p) ==
    /\ pc[p] = "u_write" /\ Exit(p)
    /\ SetLife(IF op[p] = "start" THEN "running" ELSE "stopped")
    /\ UNCHANGED <<lock, row, sync, ckpt, meta, launches, machine, refs>>

StartAgent(p) ==
    /\ vm = "running"
    /\ pc[p] = "u_agent" /\ Exit(p)
    /\ live' = live \cup {"shell", "agent"}
    /\ UNCHANGED <<lock, catalog, vm, owner, done, refs>>

\* kill closes the agent's window and fails when there is none; kill --force goes
\* on to stop the VM, and neither writes the row.
KillWindow(p) ==
    /\ vm = "running" /\ "agent" \in live
    /\ pc[p] = "u_kill"
    /\ live' = live \ {"agent"}
    /\ \/ Exit(p)
       \/ Goto(p, "u_force") /\ UNCHANGED local
    /\ UNCHANGED <<lock, catalog, vm, owner, done, refs>>

KillVm(p) ==
    /\ vm # "absent"
    /\ pc[p] = "u_force" /\ Exit(p)
    /\ vm' = "stopped" /\ live' = {}
    /\ UNCHANGED <<lock, catalog, owner, done, refs>>

UnlockedFails(p) ==
    /\ pc[p] \in UnlockedPcs /\ Exit(p)
    /\ UNCHANGED <<lock, catalog, machine, refs>>

-------------------------------------------------------------------------------
(* What happens outside agbranch *)

\* The host sleeps or reboots, or somebody runs `limactl stop`.
VmStops ==
    /\ "reboot" \in Commands
    /\ vm = "running"
    /\ vm' = "stopped" /\ live' = {}
    /\ UNCHANGED <<lock, catalog, owner, done, refs, pc, local>>

\* The user creates agbranch/<session> in the host repository.
HostCreatesReview ==
    /\ "host_branch" \in Commands
    /\ "review" \notin refs
    /\ refs' = refs \cup {"review"}
    /\ UNCHANGED <<lock, catalog, machine, pc, local>>

-------------------------------------------------------------------------------
LaunchStep(p) ==
    \/ SetLockMetadata(p) \/ InitializeSessionRefs(p) \/ CloneVm(p)
    \/ BeforeCloneFails(p) \/ FirstCheckpointFails(p)
    \/ Checkpoint(p) \/ Mark(p) \/ StartVm(p) \/ DoPhase(p)
    \/ Finalize(p) \/ Forget(p)
    \/ RollbackRow(p) \/ RollbackRefs(p) \/ RollbackVm(p)

CloseStep(p) ==
    \/ EnsureInstanceRunning(p) \/ MarkSyncing(p) \/ FetchGuestHead(p)
    \/ Publish(p) \/ RecordClean(p) \/ SyncBlocked(p)
    \/ Confirm(p) \/ Destroy(p) \/ RecordClosed(p) \/ RecordOutcome(p)
    \/ RestartVm(p) \/ RecordRestarted(p)

\* A process that is under way goes on: every external command has a timeout.
Proceed(p) == LaunchStep(p) \/ CloseStep(p) \/ Abandon(p) \/ Release(p)

Begin(p) ==
    \/ LaunchBegin(p) \/ RetryBegin(p) \/ CloseSyncBegin(p)
    \/ CloseDiscardBegin(p) \/ SyncBegin(p) \/ RepairBegin(p)

UnlockedBegin(p) == StartBegin(p) \/ StopBegin(p) \/ KillBegin(p) \/ AgentBegin(p)

UnlockedStep(p) ==
    \/ UnlockedStart(p) \/ EnsureShell(p) \/ UnlockedStop(p)
    \/ UnlockedWrite(p) \/ StartAgent(p) \/ KillWindow(p) \/ KillVm(p)
    \/ UnlockedFails(p)

Outside == VmStops \/ HostCreatesReview

Next ==
    \/ \E p \in Procs : Begin(p) \/ Proceed(p) \/ Crash(p)
                        \/ UnlockedBegin(p) \/ UnlockedStep(p)
    \/ Outside

Spec == Init /\ [][Next]_vars

-------------------------------------------------------------------------------
(* Safety *)

\* A lock owner shown by ps and doctor is the process that holds the lock now,
\* or one that died: never a live process that has gone on to something else.
LockMetadataTruthful == meta \in Procs => lock = meta

\* A saved checkpoint is true of the VM that carries the session's name: that
\* VM was cloned by this very launch, and every phase up to the checkpoint left
\* its effect on the disk.  retry skips those phases without looking.
Resumable == row # 0 /\ ckpt > 0 /\ vm # "absent"

CheckpointHonest ==
    Resumable => /\ owner = row
                 /\ {Stages[i] : i \in 1..ckpt} \cap DiskStages \subseteq done

\* The catalog says closed only when the VM is really gone, whatever start,
\* stop or a second close do at the same time.
ClosedMeansGone == life = "closed" => vm = "absent"

\* A VM that no row speaks of any more never got past its clone: no user's work
\* can be in it, so the next launch's rollback may delete it.
OrphanIsBlank == row = 0 /\ vm # "absent" => done \subseteq {"vm_cloned"}

\* A row whose VM is gone says so: nothing but a launch that has not cloned
\* yet, a destroy under way or a closed session.
CatalogMatchesVm ==
    row # 0 /\ vm = "absent" => life \in {"cloning", "destroying", "closed"}

\* A session shown as running either went through every phase of its launch or
\* can still be resumed with retry, though sync-back and repair also write
\* Running.
RunningIsProvisionedOrResumable ==
    life = "running" => ckpt # 0 \/ DiskStages \subseteq done

\* The retry entry of a row is dropped only when the whole launch is done on
\* the VM of this launch.
ForgottenOnlyWhenComplete ==
    [][ckpt # 0 /\ ckpt' = 0 /\ row' # 0
       => DiskStages \subseteq done /\ owner = row]_vars

\* While a row exists its VM is destroyed only after the row said Destroying,
\* or by the rollback of a launch that never saved a checkpoint.
DestroyAuthorised ==
    [][row # 0 /\ vm # "absent" /\ vm' = "absent"
       => life = "destroying" \/ (life = "cloning" /\ ckpt = 0)]_vars

\* What the other commands may rely on: the catalog and the VM change as
\* SessionRegistry says.
Registry == INSTANCE SessionRegistry
            WITH state <- life, machine <- vm, NoRow <- "none",
                 Closed <- "closed", Opening <- "cloning", Lives <- Lives

ImplementsRegistry == Registry!RegistrySpec

-------------------------------------------------------------------------------
(* The inductive invariant behind the safety properties *)

\* A process is inside a locked command exactly when it holds the lock.
LockInv == \A p \in Procs : pc[p] \in LockedPcs <=> lock = p

BeforeClone == {"meta", "refs", "clone"}
AfterClone == {"stage", "checkpoint", "mark", "finalize", "forget"}

StageInv ==
    \A p \in Procs :
        /\ pc[p] \in BeforeClone => stage[p] = 1 /\ from[p] = 0
        /\ pc[p] \in {"stage", "checkpoint", "mark"} => stage[p] <= NStages
        /\ pc[p] = "stage" => stage[p] > 1

\* The VM is this row's, and the first n phases left their mark on its disk.
HonestUpTo(n) ==
    /\ owner = row
    /\ \A i \in 1..n : Stages[i] \in DiskStages => Stages[i] \in done

\* How far the phases got when process p is at its current step.
Progress(p) ==
    CASE pc[p] = "stage" -> IF from[p] > stage[p] - 1 THEN from[p] ELSE stage[p] - 1
      [] pc[p] \in {"checkpoint", "mark"} -> IF from[p] > stage[p] THEN from[p] ELSE stage[p]
      [] OTHER -> NStages

ProgressInv ==
    /\ row # 0 /\ ckpt # 0 /\ vm # "absent" => HonestUpTo(ckpt)
    /\ row = 0 => ckpt = 0
    /\ \A p \in Procs :
        /\ pc[p] \in BeforeClone => ckpt = 0 /\ row # 0 /\ life # "closed"
        /\ pc[p] \in AfterClone => vm # "absent" /\ row # 0 /\ HonestUpTo(Progress(p))

\* What is in a VM whose row may go away.
BlankInv ==
    /\ OrphanIsBlank
    /\ \A p \in Procs :
        pc[p] \in BeforeClone \cup {"rbrow"}
        \/ (pc[p] = "checkpoint" /\ op[p] = "launch" /\ stage[p] = 1)
        => (vm # "absent" => done \subseteq {"vm_cloned"})

GoneInv ==
    /\ ClosedMeansGone
    /\ \A p \in Procs : pc[p] = "closed" => vm = "absent"

\* A row always has a lifecycle_state.
RowInv == row = 0 <=> life = "none"

IInv ==
    /\ TypeOK /\ LockInv /\ LockMetadataTruthful /\ StageInv
    /\ ProgressInv /\ BlankInv /\ GoneInv /\ RowInv

\* Only commands that hold the session lock are run.
LocksOnly == Commands \cap {"start", "stop", "kill", "agent"} = {}

\* The launch can be resumed, or it went through all its phases.
Provisioned == ckpt # 0 \/ DiskStages \subseteq done

Rollback == {"rbrow", "rbbase", "rbhead", "rbreview", "rbvm"}

\* What the lifecycle state says of the VM when every writer holds the lock.
CatalogInv ==
    /\ CatalogMatchesVm
    /\ vm = "absent" => done = {}
    /\ row # 0 /\ ~Provisioned => life \in {"cloning", "syncing", "destroying", "closed"}
    /\ row # 0 /\ "workspace_seeded" \in done => Provisioned
    /\ \A p \in Procs :
        /\ pc[p] \notin UnlockedPcs
        /\ pc[p] \in {"syncing", "guest", "publish", "record", "restarted"} => vm # "absent"
        /\ pc[p] \in {"publish", "record", "restart", "restarted"} => Provisioned
        /\ pc[p] \in {"destroy", "closed"} => life = "destroying"
        /\ pc[p] \in Rollback => row = 0 \/ (life = "cloning" /\ ckpt = 0)
        /\ pc[p] \in {"stage", "mark", "finalize"} => ckpt # 0
        /\ pc[p] = "checkpoint" =>
             IF stage[p] = 1 THEN op[p] = "launch" /\ ckpt = 0 /\ life = "cloning"
                             ELSE ckpt # 0
        /\ pc[p] \in BeforeClone => life = "cloning" /\ op[p] = "launch"
        /\ pc[p] \in SyncPcs \cup {"confirm"} => row # 0
        /\ pc[p] = "forget" => DiskStages \subseteq done

CInv == LocksOnly => CatalogInv

-------------------------------------------------------------------------------
(* Liveness *)

\* A process that is under way takes its next step or fails.
FairSpec == Spec /\ \A p \in Procs : WF_vars(Proceed(p))

\* The session lock is never kept for ever: whatever fails, the holder gets to
\* its release or dies.
LockEventuallyFreed == \A p \in Procs : (lock = p) ~> (lock # p)

\* Somebody runs repair again and again, and `limactl delete` and the catalog
\* do not fail for ever.
RepairingSpec ==
    /\ FairSpec
    /\ \A p \in Procs : SF_vars(RepairBegin(p)) /\ SF_vars(Destroy(p))
                        /\ SF_vars(RecordClosed(p))

\* A destroy that was interrupted is finished by repair, or its VM taken back by
\* retry when the session's launch never ended, or by the sync-back of a second
\* close --sync.
DestroyFinishes ==
    life = "destroying" ~> \/ life = "closed"
                           \/ ckpt # 0 /\ life # "destroying"
                           \/ Mode = "repo" /\ life = "syncing"

=============================================================================
