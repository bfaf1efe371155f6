# A TLA+ model of agbranch

agbranch runs coding agents in disposable Lima VMs. Every invocation of the
binary is a short-lived process; what lasts is shared by all of them: a SQLite
catalog, lock files, Lima instances and what is in them, git refs in the user's
repositories, a cache of embedded assets. The modules here model how those
processes share that state when they overlap, fail, are killed, and when the
user, git and `limactl` act on their own. TLC checks small instances (`MC*.tla`,
`*.cfg`); TLAPS proves the safety properties for every value of the constants
(`*Proofs.tla`). Paths below are relative to the repository.

## 1. The system

| component | state it keeps | operations | who else touches it |
|---|---|---|---|
| session lifecycle (`src/commands/{launch,open,retry,close,repair,start,stop,kill,agent}.rs`, `src/session/`, `src/db/`) | the row (`lifecycle_state`, `sync_state`, lock owner), `session_launch_retries`, the session VM, `locks/<session>.lock` | launch/open through 7 or 8 checkpointed phases, rollback, retry, close, repair, start, stop, kill, agent start | each other: five commands take the session lock, four do not; the host may stop a VM |
| sync-back (`src/sync/`, `src/git/`) | `refs/agbranch/sessions/<s>/{base,head,incoming}`, `refs/heads/agbranch/<s>`, `staging/<s>.bundle`, `sync_runs` | sync-back, close --sync | the guest's users, the host's git, gc; start and stop, which write the row without the lock |
| prepared base (`src/lima/base.rs`, `base_info.rs`, `src/commands/{base,prepare}.rs`) | one VM, its `agbranch-base.json`, `base.lock` | base prepare, automatic prepare, clone, base show | other binaries and overrides, `limactl` |
| assets (`src/lima/{asset_resolver,asset_inspect}.rs`) | `assets/<fingerprint>`, `.tmp.`/`.stale.` siblings, `assets.lock`, the override tree | resolve, extract, commit, inspect | gc, hand edits |
| gc (`src/commands/gc.rs`) | none of its own | reclaims staging, logs, asset directories, obsolete bases | all of the above |
| agent of a session (`src/commands/{agent,auth,attach}.rs`, `src/provider/`, `src/lima/tmux.rs`) | `provider_preferences`, `provider_kind` and the imported files in the row, credentials and `agent.env` in the guest, tmux windows | agent start, auth set/reset, start, kill, attach | itself: no lock at all; shells and agents that exit, a user who switches windows |
| published ports (`src/ports.rs`, `src/commands/ports.rs`, `src/lima/instance.rs`) | `session_ports`, `portForwards` of the instance | validation, the edit by launch and retry, `agbranch ports` | Lima, services in the guest, whoever else takes host ports |
| guest access (`src/commands/{run,shell,ssh,export}.rs`, `src/session/exec.rs`, `src/policy/secrets.rs`) | `command.env` in the guest, a temporary file on the host | boot if needed, hand over `--env`, ssh; copy out | each other, launch and close |
| observers (`src/commands/{watch,logs,ps,doctor}.rs`, `src/db/events.rs`) | what they read last | poll, print | everybody who writes |
| process runner (`src/util/{process,signals}.rs`) | a child, its pipes, a deadline, the interrupt flag | run_bounded: 30 minutes, 8 MiB, kills the group | every command above runs in it |

Interaction is only through that shared state: the lifecycle clones the prepared
base under a shared `base.lock`, resolves the assets before anything else, runs
sync-back as the first half of `close --sync`, and edits the port rules between
clone and boot; observers and guest access look at what it left.

What is hard here: two processes on one session of which one holds no lock; a
crash between an effect and the row that records it; an external command that
fails or is killed after it had its effect; state read, then used minutes later;
two pieces of code that decide the same question apart from each other; and
everything a user can do to git and Lima without agbranch. The hazards, each at
its line with the properties that watch it, are in `PROJECT.json`.

## 2. The modules

How they compose:

* `SessionLifecycle`, `SyncBack` and `PublishedPorts` with `GuestAccess` each move
  the row and the VM of a session; all of them implement `SessionRegistry`
  (`ImplementsRegistry`, `MovesAsRegistry`). `Observers` EXTENDS `SessionRegistry`
  for the world it looks at: what is shown of observers holds over every session
  that moves as the registry allows, that is, over all of these.
* `SyncBack` implements `ReviewBranch` (`RefsPromise`); `Observers` implements
  `EventFeed` (`ImplementsFeed`).
* `GuestAccess` EXTENDS `PublishedPorts`: the calls into a guest run over the
  launch, retries, VM and ports of one session.
* `MCAgentSession` builds the users of `AgentSession` with `AuthDetection`.

### SessionLifecycle, SessionRegistry

One session name, any number of processes. Variables: `lock`; the catalog `row`
(0, or the number of the launch that inserted it), `life`, `sync`, `ckpt` (the
retry entry), `meta` (lock owner), `launches`; the machine `vm`, `owner` (which
launch cloned it), `done` (phases on its disk), `live` (tmux windows); `refs`;
and per process `pc`, `op`, `stage`, `from`.

`Mode` chooses launch (`SANDBOX_STAGES`) or open (`REPO_STAGES`); the phases are
run by the actions retry shares with them: `DoPhase`/`StartVm`, `Checkpoint`,
`Mark`, `Finalize`, `Forget`. A process that fails goes to `release` (retryable,
`Abandon`) or, before the first checkpoint, to the rollback (`rbrow`, the refs,
`rbvm`), whose order differs between launch and open as in `SessionGuard`.
`Crash` drops the kernel's lock and leaves the row, and takes an external command
that was under way along: a child of `run_bounded` is in a process group of its own
(`process.rs:107`) and in truth survives a SIGKILL of agbranch. Only `PreparedBase`
has such survivors. The same goes for `Die` in `GuestAccess` and for the scripts of
`AgentSession`, which go on in the guest. `start`, `stop`, `kill` and
`agent start` use no lock (`Unlocked...`). A refused command changes nothing and
is no action. `SessionRegistry` keeps of all this `lifecycle_state` and the VM's
status, and when each of them may appear and disappear.

### ReviewBranch, SyncBack

`ReviewBranch` is the promise to the host: `Publish` moves session head and
review branch together, only forward of both, and everything else is the host's
own move. `SyncBack` is `run_git_native_sync_back` and the destroying half of
`close --sync`, one action per external call or transaction: ask for dirt, ask
for HEAD, bundle, fetch, ancestor check, read the review branch, `update-ref
--stdin` with expected values, record. `log` is the last `sync_runs` row with the
commit it staged; a blocked sync that prepares artifacts bundles and fetches too
(`BlockWithArtifacts`). A `show-ref` that fails is taken for a missing branch
(`ReadReviewFails`), an `update-ref` that fails for a diverged one, which is recorded
(`UpdateRefsFails`). The guest's user commits, resets, switches and edits, the
host moves the branch, gc takes the bundle, between any two of them.

The same row is moved by `close --discard` and `repair` (`Ops` says which commands
of the lock's holders an instance runs; one at a time, which is `LockInv` of
`SessionLifecycle`) and by `start` and `stop`, which take no lock (`Unlocked`, where
`Beside` has "unlocked"): between the end of `limactl` and the write any command may
have come. No step here tells Running from Stopped, so `life` is "running" for both,
and of other branches of the guest there is only that HEAD may be on one. `bundle` is
kept until it is fetched, as nothing reads the file later. `late` and `overwritten`
are histories: what was done in the guest after close --sync had looked for it, and
that start or stop wrote its state over the one of an unfinished command.

### PreparedBase

`base` is the VM's record (status, provisioned, metadata, protection, deprecated
configuration); the steps of prepare are a chain (`After`) entered where
`prepare_steps_for_existing` says (`FirstStep`). Launch decides with no lock
(`LaunchBegin`), decides again under the exclusive lock (`Recheck`), drops it and
takes the shared one (`AcquireShared`). `HostStarts` and `HostStops` are `limactl`
used by others, the surviving child of a killed agbranch included.

### AssetCache

A tree is presence, a set of files and a marker. The check is two steps (marker,
tree), once without and once under `assets.lock`; extraction writes file by file
and the marker last; the commit is rename, or remove the marker, aside, swap,
discard. gc lists without the lock and takes it for each candidate;
`remove_dir_all` removes one thing at a time. `Fingerprint # Canonical` is an
assumption of the code: the directory name is the fingerprint with `:` replaced.

### BaseReadiness

The decisions, where the two modules before have the interleavings. Every process
has its own `AGBRANCH_LIMA_ASSETS_DIR`, so each operator takes an environment `e`.
A tree says what `symlink_metadata` says of each asset, which are too late for the
marker, the fingerprint of its provision inputs, and in `rest` whether a path that is
no asset is late, or breaks the walk over the tree, in which case `mtime_guard_passes`
passes. One half of the module is `Inspect`, `ShowIssue` (`asset_inspect.rs`,
`base_info.rs`), the other `ResolveFails`, `Extracts`, `Strategy`, `CloneNotice`
(`asset_resolver.rs`, `base.rs`); a launch or prepare works in steps (`Build`,
`Stamp`, `Protect`) while users edit trees and base and install another binary.

### EventFeed, Observers

`EventFeed` is what a user may expect of `watch` and `logs --follow`. `Observers`
has one of the four commands at a time, as they do not see each other: each read
of the rows, of the events and of `limactl list` is a step, with the other
commands' writes in between, rows that are rolled back with their events, and ids
that AUTOINCREMENT never gives out twice. `due`, `ran` and `lost` are histories.

### AuthDetection, AgentSession

`AuthDetection` is `detect_auth` as operators on a host (platform, files,
environment, `settings.json`). `AgentSession` is the agent of one open session: a
start resolves the import (`Resolve`, `Prompt`), boots, bootstraps, copies file by
file, writes `agent.env`, runs the script in the guest and writes the row (`Record`).
Each `||` of the script is two steps, as any other script may come between the test
and the command: `HasSession`, `NewSession`, `ListWindows`, `NewShellWindow`, `KeepShell`
for the shell, which `start` runs too, then `KillOldAgent`, `NewAgentWindow`,
`KeepAgent`, `SendLine` for the agent. Windows have numbers (`MaxWindows`) and names
that need not be unique; a target given by an ambiguous name is refused, which the
script ignores (`|| true`). Shells and agents exit, the VM stops, `auth set` and `auth
reset` change the preference. `user`, chosen once from `Users`, says which of these
are done, with which providers and values of `--auth`, and what may be found on the
host: one run so covers several ways to use a session, each with small bounds.
tmux ends with its last window. attach is a probe and a selection (`AdmitAttach`,
`RefuseAttach`). The row names imported variables with their values, where the code
has names only; `RowTellsGuest` compares them with what `agent.env` holds.
Histories: `ensured` (a start has seen to the shell window in this boot), `raced`
(two scripts looked for it before either made it), `alone` and `settled` (a start
runs, or ran and recorded, with no other start beside it).

### CommandRunner

`run_bounded` call after call: the waiting thread (`Check`, `Wait`, `Interrupted`,
`TimedOut`, `Reap`, the joins, `Judge`), a reader per stream that keeps
`CaptureLimit` and drops the rest, the writer of stdin, bounded pipes, the command
and helpers in its process group or out of it. The interrupt flag outlives the
call. Its `Init`, `Next` and `Spec` are called `RunnerInit`, `RunnerNext`, `RunnerSpec`.

### PublishedPorts, GuestAccess

`PublishedPorts` follows `--publish` from `WellFormed` and `Distinct` over the rows
(`InsertPorts`) and the edit of the configuration before the template's rules
(`Edit`) to what Lima forwards (`Forward`: the first rule that matches, on a host port that is
not `Taken`). `Rivals` are host ports that other sessions or programs may hold
(`TakePort`), as nothing compares host ports across sessions. `agbranch ports` only
reads: what it calls listening is `Answers`. A retry edits the rows in the
order of the catalog's ORDER BY (`Listings`). close deletes the VM (`DestroyVm`) and then
writes the row (`RecordClosed`), and may die between the two. `GuestAccess` adds calls of run, shell, ssh, logs
and export: a first and a second look at the VM, `limactl start` and its one
retry, the steps of `materialize_guest_secret` (`MakeTemp`, `Mkdir`, `Copy`, `Chmod`,
`Cleanup`), ssh, any of which may fail or be the last.

### What is assumed of the outside

`limactl start` fails on a missing VM and does nothing to a running one; `stop`
fails on a VM that does not run; `delete --force` does not mind a missing VM and
is refused on a protected one; a running base is not cloned, and its rules are not
edited; rules take effect at boot. `git fetch` without `+` refuses what is not a
fast-forward; `update-ref --stdin` is atomic; `flock` dies with its process. One
SQL statement or transaction is one step; AUTOINCREMENT ids only grow. A write to
a full pipe waits; a read ends when no process holds the other end. An external
command that fails after it had its effect is its step followed by `Abandon` or
`Fail`.

## 3. The runs

`CHECK_DEADLOCK FALSE` in all of them, because commands run out (`MaxLaunches`,
`MaxEvents`, calls, closed sessions) and the system may rest.

| run | instance | states | properties |
|---|---|---|---|
| session_repo | repo, 2 processes, all locked commands, 2 launches, repeated repair | @session_repo | CatalogMatchesVm, RunningIsProvisionedOrResumable, DestroyAuthorised, LockEventuallyFreed, DestroyFinishes |
| session_unlocked | sandbox with agent, 2 processes, every command, symmetric | @session_unlocked | CheckpointHonest, ClosedMeansGone, ForgottenOnlyWhenComplete, ImplementsRegistry |
| sync_sync | base <- a and an unrelated x, every locked command, start and stop, gc, 1 fault, fairness | @sync_sync | CleanMeansPublished, StagedWorkIsKept, DestroyOnlyPublished, OnlyLateWorkIsLost, RefsPromise, SettledIsPublished |
| base | 3 processes, 2 fingerprints, 1 fault, 1 outside act, fairness | @base | ClonesAreProvisioned, CloneUndisturbed, PrepareHeals |
| base_ready | a template and a script, 2 fingerprints, 2 edits | @base_ready | InspectorMatchesResolver, ReadyMeansClone, PrepareMakesReady |
| asset | 2 processes and gc, 2 files, 3 scratch names, 1 fault, 1 edit, fairness | @asset | UsersTreeComplete, LitterIsBounded, CacheHeals |
| observe | 5 lifecycle states, 2 values of the other columns, 3 events, fairness | @observe | ImplementsFeed, EveryEventShown, WatchCatchesUp, PsShowsWhatRuns |
| agent | 2 processes, 3 windows, symmetric; a user who imports from 3 hosts, one with kills and exits, one with 2 providers and attach | @agent | RecordedFilesInGuest, RowTellsGuest, ShellOutlivesAgent, ImportsOnlyWithConsent |
| runner | a helper in the group and a daemon out of it, pipes and capture of 1, output and input of 2, 1 Ctrl-C, fairness | @runner | OkIsComplete, KilledIsGone, OneCallPerInterrupt, CallReturns |
| guest | 2 calls, 7 requests of which 4 are refused, 1 service, 1 rival host port, 1 break, symmetric | @guest | ForwardsArePublished, NoStaleSecrets, SecretsAreKept |
| asset_current, agent_attach | 1 process | | the two findings below |

`MCAgentSession` also evaluates `DetectionAssumption`: what `AuthDetection` finds on
every host with some of the files and up to two tokens.

Why the bounds suffice. Two processes show every pair of overlapping commands;
the session lock admits one locked command, so a third only adds unlocked ones,
and the proofs hold for any number. Two launches are needed for a VM that
outlives its row (rollback failing half way) and meets the next launch; three
repeat that. Three commits give equal, descendant and unrelated, all an ancestry
test can tell apart. Two fingerprints give "mine" and "another's"; three processes
let one prepare, one clone and one decide. Two files distinguish a partial tree
from an empty one, and a script from one whose mode does not matter; three scratch
names hold two extractions and a stale tree. Three events give one printed, one
fetched and one that is only written, and an id lost with a rollback. A pipe of
one and an output of two fill it, a capture limit of one is reached by the second.
Two calls and one break give each step of a hand-over failing beside another call;
a request with one guest port twice gives the order of Lima's rules a meaning. One
fault puts a failure at every step; the repeated case is covered by the proofs,
where `MaxFaults` is any number.

Three windows are a shell and two agents, or two shells that a race made and an
agent; two hosts with credentials show a token that changes. The three
users of `agent` stand for what would be too large as one: what is imported and what
happens to windows meet only in the order of a start's own steps, which all three have.

Conditional properties. `faults`, `acts`, `edits`, `late`, `overwritten`, `raced`,
`alone`, `settled`, `ended` and `ensured` bound the environment or record history, and
let a property name the case it holds in: `CleanMeansPublished` unless start or stop
wrote over an unfinished command, `OnlyLateWorkIsLost` what close --sync may take with
the VM, `ClonesAreProvisioned` without faults and outside acts, `UsersTreeComplete`
without gc and edits, `RowTellsGuest` after a start that ran alone, `ShellOutlivesAgent`
unless two scripts raced for the window, `ReadyMeansClone` and
`InspectorMatchesResolver` but for late stray paths and for a tree the resolver cannot
walk, `ForwardsArePublished` without two host ports for one guest port and for host
ports nobody else holds. Section 5 says what happens otherwise.

Fairness. Weak fairness of every process under way: each external command is
bounded by `run_bounded`'s timeout, which `CallReturns` checks, so a process does
its next step, fails or dies. Beyond that:

* `DestroyFinishes` assumes a user who keeps running repair, and a `limactl delete`
  and catalog that do not fail every time (strong fairness of the three steps);
* `SettledIsPublished` assumes syncs are repeated; its premise says guest, host and
  gc rest;
* `PrepareHeals` assumes base prepare is run again, and launches that take the lock
  against it have come to an end: try-locks give no more;
* `CacheHeals` assumes commands that need the assets keep coming;
* `EveryEventShown` and `WatchCatchesUp` assume that a command that polls goes on
  polling, which is what its loop does until it is interrupted;
* `CallReturns` assumes that threads are scheduled and time passes, and that helpers
  (not the command itself) end or close their pipes at some time. Without that the
  property is false, see section 5.

## 4. What is proved

For every set of processes, both modes, any subset of commands and any bounds,
from the named `ASSUME`s of the modules only, which TLC evaluates on every run.
Every inductive invariant was first checked by TLC on the instance of its run.

* `SessionLifecycleProofs`: `Spec => []IInv`, and from it `LockMetadataTruthful`,
  `CheckpointHonest`, `ClosedMeansGone`, `OrphanIsBlank`, the
  action property `ForgottenOnlyWhenComplete`, and `RefinesRegistry`. `CheckpointHonest`
  is not inductive: a checkpoint is written by a process that is past its phase, so
  `ProgressInv` says for each process what the disk carries at its step
  (`HonestUpTo(Progress(p))`), which needs `LockInv` (one such process) and
  `StageInv` (its index makes sense). `BlankInv` and `GoneInv` say what
  a process about to delete a row or to write Closed knows, `RowInv` that row and state
  come and go together. With `LocksOnly`
  (no start, stop, kill or agent start) `CatalogInv` is inductive on top of it and
  gives `CatalogMatchesVm`, `RunningIsProvisionedOrResumable`, `DestroyAuthorised`;
  without that assumption they are false.
* `SyncBackProofs`: `IInv` (`Knows`: what each step of a command has established about
  refs, row and VM), `CleanMeansPublished`, `StagedWorkIsKept`, `DestroyOnlyPublished`,
  `ReviewOnlyForward`, and the refinement `Spec => RefsPromise`: `UpdateRefs` is
  `Publish`, or one that failed and moved the refs all the same, everything else a
  stutter or the host's move. `OnlyLateWorkIsLost` needs `GuestAsSeen` beside it: what
  close --sync saw of the guest (its cleanliness, its branch, the tip in the bundle) is
  still so at each later step, or `late` has what changed it; the same fact gives
  `BundleIsReviewBranch`. `MovesAsRegistry` needs of `Knows` that Closed is written by
  a command that has deleted the VM. Assumes of the ancestry only that it is reflexive
  and transitive.
* `PreparedBaseProofs`: `IInv` (`LockExclusion`, `ProvisionInv`: the holder that is
  past `start` has a provisioned base), `MetadataMeansProvisioned`, `CloneUndisturbed`.
  `ClonesAreProvisioned` is about a launch that was told "ready" under one lock and
  clones under another. `CleanInv` carries it over: while nothing failed, a base that
  nobody holds is `Settled` (stopped means provisioned), and each holder `Knows` what
  its step may rely on, so that no chain of steps ends half way.
* `AssetCacheProofs`: `IInv` (`LockInv`, `ScratchInv`, `ServedInv`), `UsersTreeComplete`
  while gc was not run and nothing edited, `OnlyCompleteCommits` and
  `ExtractionUndisturbed` in any case. The lemma `OneExtracts` carries most of it: only
  the lock's holder is between scratch and discard. `LitterIsBounded` counts: a step
  that turns a directory into litter is a fault, and a process has two to leave.
* `BaseReadinessProofs`: the agreement of inspector and resolver and `ReadyMeansClone`
  follow from the types, for any set of assets: they compare two pieces of code on one
  state. `PrepareMakesReady` needs `JobInv`, what a preparation may rely on at each step
  while nobody interferes, and `PreparedInv`, what it leaves.
* `ObserversProofs`: `Spec => ImplementsFeed` by `FeedInv` (what is due is what was
  fetched and what is beyond the position, and all printed is older), and
  `PsShowsWhatRuns` and `DoctorBlamesOnlyForgotten` by `LookInv`, which rests on
  `SessionRegistry`'s rule that Closed is written only over an absent VM.
* `AgentSessionProofs`: `JobInv`, `FilesInv` (a process past its copies has what it
  selected in the guest), `WindowInv` (while no two scripts look for the shell window at
  once there is at most one, and none where a script is about to open it, so that its
  name finds it and remain-on-exit is set), `AloneInv` (what a start that runs alone has
  put there by its step, `PutSoFar`, is still there), and the four properties of the run.
* `CommandProofs`, first half, on `CommandRunner`: `RunnerIInv` with `CaptureInv`
  (nothing dropped means captured plus in the pipe is all written) and `CallInv`, the
  three safety properties of the run, and `PipesAreDrained`.
* `CommandProofs`, second half, on `PublishedPorts` and `GuestAccess`: `Spec =>
  []AccessInv` and the three properties of the run, for any arguments, services, calls
  and number of retries, and `ImplementsRegistry`. For the ports, `ForwardOf` says which
  rule of a list Lima takes (`LeastOf`: a non-empty set of numbers has a least one), and
  `EditGuards` that whatever order the rows come in, the edit puts rules for all of
  them, and for nothing else, before the template's that ignore every port. That is
  `Guarded`, and `GuardInv` says it of the rules in the configuration and of those the
  VM was booted with: `Edit` changes the first, a boot copies them to the second, and a
  crash between the two is why they are two. For the environments,
  `NoStaleSecrets` is not inductive, as it speaks of a command that has started:
  `OwnerInv` says from the copy on that `command.env` belongs to the call or to one it
  overlaps, `PrivateInv` that its mode is what this call set it to, `WaitInv` that no
  call hands over or runs anything before there is a VM, `EndedInv` and `SawInv` that
  the histories the properties use are what their names say.

Every safety invariant and action property of a passing run, and every refinement, is
thus proved. Model-checked only is liveness, which is out of the prover's reach:
`LockEventuallyFreed`, `DestroyFinishes`, `SettledIsPublished`, `PrepareHeals`,
`CacheHeals`, `EveryEventShown`, `WatchCatchesUp`, `CallReturns`. What `AuthDetection`
finds is checked on the hosts of `DetectionAssumption` by evaluation; the proofs hold
for any detection. Stated and proved without a run of their own, as a run showed
nothing the others do not: `BundleIsReviewBranch`, `ExtractionUndisturbed`,
`MovesAsRegistry`, and `ImplementsRegistry` of the guest.

## 5. What the model shows to be wrong

Runs that are expected to fail, each against a line of the repository
(`PROJECT.json`, findings):

1. `asset_current`: gc does not recognise the current cache, whose name is
   `sha256-...`, not `sha256:...`.
2. `agent_attach`: after agent start `attach --shell` is refused as if the shell
   window were missing, because the probe lists the current window only.

Known weaknesses without a run. All show when a property's condition is dropped,
or when the model's step is read beside the code.

Lifecycle and sync-back:
* A retry boots a stopped VM whose checkpoint is past `shell_ready` and does not redo
  it: it ends on Running without a shell window (`retry.rs:97`; README.md:159 says
  it resumes from the last completed phase).
* The rollback of a failed open deletes the review branch whoever made it after the
  check minutes before (`orchestration.rs:209`; README.md:176).
* `start` that overlaps `close` writes Running over Closed; repair calls it a no-op.
  Over the Syncing of a sync that died after its fetch, or over Destroying, it leaves a
  session that is Running and clean with a head that is not published, as it does not
  touch `sync_state` (`start.rs:37-54`).
* `close --discard` writes `discarded` last: if it dies after the delete, repair closes
  the session with whatever `sync_state` it had, clean perhaps, though nothing was
  synced since. A `close --sync` of a discarded session records clean without a sync,
  which `close.rs:603` tests for. repair finishes an interrupted destroy without
  another look at the guest.
* `close --sync` loses commits made between bundle and delete and edits made after `git
  status`; a guest that switches branch between the HEAD check and the bundle gets
  another branch published; commits on other branches of the guest are never looked at
  and go with the VM.
* An `update-ref` or `show-ref` that fails for any reason is recorded as a diverged
  review branch (`session_refs.rs:83`, `session_refs.rs:163`), also when the refs moved.
* A guest that rewrote synced history makes the fetch without `+` fail
  (`git_native.rs:210`, `bundle.rs:111`) instead of blocking the sync as
  `sync_plan.rs:29` words it; the session stays `syncing`.
* gc removes `<session>.bundle` of an active session, as it spares the bare name only;
  the commit stays in `refs/agbranch`.

Base and assets:
* `base prepare` without `--rebuild` stamps the new fingerprint on a base provisioned
  from the old template (`base.rs:216`). A base stamped under an override with the
  same fingerprint counts as fresh for the built-in lineage.
* After a failed first prepare a launch clones the unprovisioned base "anyway".
* base show may say "cache" where stray paths under `lima/` make a launch extract; where
  the walk over the tree fails, the resolver's check passes and the cache is used
  (`asset_resolver.rs:304`) while base show says it would be extracted.
* A launch notices an edit of the cache by its modification time only, with two seconds
  of grace (`asset_resolver.rs:300`): an edit in that time, or one that sets the time
  back, stays in use. In `AssetCache` the check sees every edit.
* Exclusive tries of `base.lock` fail at once, so launches that keep cloning can starve
  a `base prepare` (`locks.rs:62`).
* gc's grace counts from extraction, so a reader may lose its tree, and its second
  phase may take a cache that was just extracted anew under a listed name
  (`gc.rs:381`).

Agent and guest:
* `--auth none` after an import leaves files and `agent.env` in the guest while the
  row says nothing was imported; `agent.env` is written whole by each start.
* Two overlapping starts of different providers both pass the compatibility check,
  and may leave two windows named `agent`; the row may then name variables that are
  not in `agent.env`. A start that dies between its `send-keys` and its record leaves
  an agent in the guest that the row does not name.
* Two scripts that look for the shell window at once may open two named `shell`
  (`tmux.rs:31`, `tmux.rs:35`). tmux then finds none by that name, `remain-on-exit`
  fails unseen, and when the shells exit tmux may end.
* The bootstrap tests for a file, then copies it; scripts end in `|| true`, which
  hides a failing `new-window`. Two attached clients share one current window.
  `kill --force` does not stop the VM when there is no agent window.
* `run`/`shell --env` always fails in a sandbox: `guest_secret_path` takes the third
  ancestor of the workspace for the home (`secrets.rs:37`), which is `/home` there.
* Overlapping calls with `--env` share one `command.env`; it stays in the guest.
* The retry of an early start failure stops a VM another call may just have booted
  (`instance.rs:85`). `test -d` failing because the VM is stopped counts as "a file";
  two exports to one free path both pass the check.
* Of two host ports for one guest port only the one whose rule Lima meets first is
  forwarded, which a retry may change (it sorts), and `agbranch ports` calls both
  listening. Host ports are compared within one launch (`ports.rs:43`): of two sessions
  on one host port only one has the forward, and `agbranch ports`, which asks the guest
  alone (`commands/ports.rs:53`), says listening for both, at one URL. A `run` that boots the VM while launch configures ports makes the edit
  fail until the VM is stopped.

Observers and runner:
* An event written between watch's first read of rows and its first position is
  shown neither way; labels come from rows read before the events; the end of a row
  is never announced. doctor without a readable catalog calls every VM orphaned; ps
  shows rows whose VM is gone.
* A helper that keeps an output pipe blocks the join, and so `run_bounded`, for ever.
  A broken pipe of the writer hides Timeout and Interrupted (docs/commands.md:77
  names their exit code). Ctrl-C during the last joins ends the next call. A failing
  `wait_timeout` returns its error without killing the child (`process.rs:155`).

## 6. Not modelled

* gc of logs, other staging paths and obsolete bases: one listing and one removal
  each, of names nothing else uses again. That it takes no `base.lock` and stops at
  the first error are weaknesses without state to check.
* open_catalog and the migrations: their races are decided by SQLite's locking, which
  is not part of the repository.
* show, logs without `--follow`, ps's agent column, the sync log: print one read.
* Git identity, baseline, seed and patches; artifact policy; paths; CLI parsing;
  provider configuration text; templates, provision scripts; build script: pure
  functions, rendering, or code that runs in the guest. Contents of guest workspaces
  and of the host's worktree are not state, so a review branch checked out on the
  host, and a retry that seeds again over a user's edits, are out of sight.
* External commands that outlive a killed agbranch, but for `PreparedBase`
  (`HostStarts`, `HostStops`): a `limactl clone`, `delete` or `copy` of a call that died
  may still finish beside the next command's steps, a copied `command.env` or a guest
  script of agent start included.
* That the whole of a session is one system. `SessionLifecycle`, `SyncBack` and
  `GuestAccess` are each shown to move row and VM as `SessionRegistry` allows, and no
  more: that the one-step sync of the first is what the steps of the second come to,
  or that the launch in `PublishedPorts` is the launch of the first with its other
  phases hidden, is not stated. No theorem says what the three do beside each other.
