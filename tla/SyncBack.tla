------------------------------ MODULE SyncBack ------------------------------
(***************************************************************************)
(* git-native sync-back of one repo session, alone (agbranch sync-back) or *)
(* as the first half of close --sync, and the other commands that move the *)
(* same row while they hold the session lock: close --discard and repair.  *)
(* The lock lets one of them run at a time (see SessionLifecycle), so      *)
(* there is one pc; the guest's user, the host's user, agbranch gc, start  *)
(* and stop take no session lock and move between any two of its steps.    *)
(*                                                                         *)
(* The code keeps session head and fetched head in locals; only the lock's *)
(* holder writes those refs, so the refs stand for them here.  late and    *)
(* overwritten are histories: no step reads them.  Nothing here tells      *)
(* Running from Stopped (sync-back boots the VM): life is "running" for both.*)
(***************************************************************************)
EXTENDS Naturals

CONSTANTS
    Commits, NoCommit, Base, Ancestry,   \* as in ReviewBranch
    MaxFaults,    \* bound: commands that fail or die
    Ops,          \* commands of the session that are run
    Beside        \* what runs beside the commands: "gc", "unlocked" (start and stop)

VARIABLES
    tip,       \* the guest's review branch
    on,        \* the guest's HEAD is the review branch, not another one
    dirty,     \* git status --porcelain prints something
    vm,        \* the session VM exists
    bundle,    \* staging/<session>.bundle: the commit it carries, until it is fetched
               \* (no later step reads the file)
    incoming,  \* refs/agbranch/sessions/<session>/incoming
    head,      \* refs/agbranch/sessions/<session>/head
    review,    \* refs/heads/agbranch/<session>
    life, sync,
    overwritten, \* start or stop has written life over an unfinished command's
    log,       \* the last row of sync_runs: its result and the commit it has staged
    pc,        \* next step of the running command
    op,        \* the command
    expected,  \* expected_review_oid
    late,      \* what was done in the guest after close --sync had looked for it
    unlocked,  \* a start or stop is done with the VM and about to write life
    faults

\* The commands that hold the session lock.
Operations == {"sync", "close", "discard", "repair"}

Host == INSTANCE ReviewBranch WITH review <- review, head <- head

ASSUME SyncAssumption ==
    /\ NoCommit \notin Commits
    /\ Base \in Commits
    /\ Ancestry \subseteq Commits \X Commits
    /\ \A a \in Commits : Host!Reaches(a, a)
    /\ \A a, b, c \in Commits :
           Host!Reaches(a, b) /\ Host!Reaches(b, c) => Host!Reaches(a, c)
    /\ MaxFaults \in Nat /\ Ops \subseteq Operations
    /\ Beside \subseteq {"gc", "unlocked"}

guest == <<tip, on, dirty>>
hostrefs == <<incoming, head, review>>
catalog == <<life, overwritten, sync, log>>
locals == <<op, bundle, expected, late>>
outside == <<unlocked, faults>>
vars == <<guest, vm, hostrefs, catalog, pc, locals, outside>>

Idle == "idle"
SyncSteps == {"running", "dirty", "head", "bundle", "fetch", "ancestor",
              "review", "update", "record"}
CloseSteps == {"confirm", "destroy", "closed", "outcome"}
MaybeCommit == Commits \cup {NoCommit}

Logs == [result: {"none", "success", "blocked"}, staged: MaybeCommit]

TypeOK ==
    /\ tip \in Commits /\ on \in BOOLEAN /\ dirty \in BOOLEAN /\ vm \in BOOLEAN
    /\ bundle \in MaybeCommit /\ incoming \in MaybeCommit
    /\ head \in Commits /\ review \in MaybeCommit
    /\ life \in {"running", "syncing", "destroying", "closed"}
    /\ overwritten \in BOOLEAN
    /\ sync \in {"pending", "clean", "blocked", "discarded"}
    /\ log \in Logs
    /\ pc \in {Idle} \cup SyncSteps \cup CloseSteps
    /\ op \in Operations
    /\ expected \in MaybeCommit
    /\ late \subseteq {"edit", "switch", "commit"}
    /\ unlocked \in BOOLEAN
    /\ faults \in 0..MaxFaults

\* A session that open has just finished.
Init ==
    /\ tip = Base /\ on = TRUE /\ dirty = FALSE
    /\ vm = TRUE
    /\ bundle = NoCommit /\ incoming = NoCommit
    /\ head = Base /\ review = NoCommit
    /\ life = "running" /\ overwritten = FALSE /\ sync = "pending"
    /\ log = [result |-> "none", staged |-> NoCommit]
    /\ pc = Idle /\ op = "sync" /\ expected = NoCommit /\ late = {}
    /\ unlocked = FALSE /\ faults = 0

\* The commit at HEAD in the guest: of another branch, any.
GuestHeads == IF on THEN {tip} ELSE Commits

\* One of the failures that the bound allows.
Fault == faults < MaxFaults /\ faults' = faults + 1

\* The command ends and its locals with it.
Exit ==
    /\ pc' = Idle /\ op' = "sync" /\ bundle' = NoCommit
    /\ expected' = NoCommit /\ late' = {}

Step(l, m) == pc = l /\ pc' = m

\* update_lifecycle_state by the holder of the lock.
WriteLife(s) == life' = s /\ overwritten' = FALSE

-------------------------------------------------------------------------------
(* sync-back *)

Begin(o, l) ==
    /\ Step(Idle, l)
    /\ o \in Ops /\ op' = o
    /\ UNCHANGED <<guest, vm, hostrefs, catalog, bundle, expected, late, outside>>

\* Sessions that were closed are left out: their VM is gone and the sync fails
\* on its first step.  ensure_instance_running boots a VM that is stopped.
SyncBegin ==
    /\ vm
    /\ \/ Begin("sync", "running")
       \/ Begin("close", "running") /\ sync # "discarded"

MarkSyncing ==
    /\ Step("running", "dirty")
    /\ WriteLife("syncing")
    /\ UNCHANGED <<guest, vm, hostrefs, sync, log, locals, outside>>

\* insert_sync_run and finish_sync_run.
LogRun(r, c) == log' = [result |-> r, staged |-> c]

\* record_sync_outcome writes log, sync state and lifecycle in one transaction.
Record(r, c) ==
    /\ LogRun(r, c)
    /\ sync' = (IF r = "success" THEN "clean" ELSE "blocked")
    /\ WriteLife("running")

\* Mutant: close --sync drops the error of a blocked sync-back.
BlockIgnored(staged) ==
    /\ IF op = "close" THEN pc' = "confirm" /\ UNCHANGED locals ELSE Exit
    /\ Record("blocked", staged)
    /\ UNCHANGED <<guest, vm, hostrefs, outside>>

\* block_git_native_sync: the outcome is recorded, then the command fails;
\* close --sync goes no further.
Block(staged) ==
    /\ Exit
    /\ Record("blocked", staged)
    /\ UNCHANGED <<guest, vm, hostrefs, outside>>

\* prepare_blocked_sync_artifacts, once the bundle has been fetched: the log names
\* the bundle, and --export-patch writes the difference of the two heads.
BlockWithArtifacts == Block(incoming)

\* Mutant: a dirty guest is synced like a clean one.
DirtyIgnored ==
    /\ Step("dirty", "head")
    /\ UNCHANGED <<guest, vm, hostrefs, catalog, locals, outside>>

CheckDirty ==
    /\ pc = "dirty"
    /\ IF dirty THEN Block(NoCommit)
       ELSE /\ pc' = "head"
            /\ UNCHANGED <<guest, vm, hostrefs, catalog, locals, outside>>

CheckHead ==
    /\ pc = "head"
    /\ IF ~on THEN Block(NoCommit)
       ELSE /\ pc' = "bundle"
            /\ UNCHANGED <<guest, vm, hostrefs, catalog, locals, outside>>

\* git bundle create HEAD, whatever HEAD is by now, and the copy to staging/.
CreateBundle ==
    /\ Step("bundle", "fetch")
    /\ bundle' \in GuestHeads
    /\ UNCHANGED <<guest, vm, hostrefs, catalog, op, expected, late, outside>>

\* Mutant: the fetch has a leading +.
FetchForced ==
    /\ Step("fetch", "ancestor")
    /\ bundle # NoCommit
    /\ incoming' = bundle /\ bundle' = NoCommit
    /\ UNCHANGED <<guest, vm, head, review, catalog, op, expected, late, outside>>

\* git fetch <bundle> HEAD:<incoming>, without a leading +.
FetchBundle ==
    /\ Step("fetch", "ancestor")
    /\ bundle # NoCommit /\ Host!FastForwards(incoming, bundle)
    /\ incoming' = bundle /\ bundle' = NoCommit
    /\ UNCHANGED <<guest, vm, head, review, catalog, op, expected, late, outside>>

\* git refuses to move incoming to a commit that does not descend from it, and
\* there may be no bundle any more: an error, not a blocked sync.
FetchRefused ==
    /\ pc = "fetch" /\ Exit
    /\ bundle = NoCommit \/ ~Host!FastForwards(incoming, bundle)
    /\ UNCHANGED <<guest, vm, hostrefs, catalog, outside>>

\* Mutant: the session head is not compared with what was fetched.
AncestorUnchecked ==
    /\ Step("ancestor", "review")
    /\ UNCHANGED <<guest, vm, hostrefs, catalog, locals, outside>>

CheckAncestor ==
    /\ pc = "ancestor"
    /\ IF ~Host!Reaches(head, incoming) THEN BlockWithArtifacts
       ELSE /\ pc' = "review"
            /\ UNCHANGED <<guest, vm, hostrefs, catalog, locals, outside>>

\* Mutant: only a review branch that exists is moved.
ReadReviewMustExist ==
    /\ pc = "review"
    /\ IF review = NoCommit \/ ~Host!FastForwards(review, incoming) THEN BlockWithArtifacts
       ELSE /\ pc' = "update" /\ expected' = review
            /\ UNCHANGED <<guest, vm, hostrefs, catalog, op, bundle, late, outside>>

\* publish_synced_refs reads the review branch, 0000... when it is missing.
ReadReview ==
    /\ pc = "review"
    /\ IF ~Host!FastForwards(review, incoming) THEN BlockWithArtifacts
       ELSE /\ pc' = "update" /\ expected' = review
            /\ UNCHANGED <<guest, vm, hostrefs, catalog, op, bundle, late, outside>>

\* A show-ref that fails is taken for a branch that does not exist, and what is
\* there is not compared with what was fetched.
ReadReviewFails ==
    /\ Step("review", "update") /\ Fault
    /\ expected' = NoCommit
    /\ UNCHANGED <<guest, vm, hostrefs, catalog, op, bundle, late, unlocked>>

MoveRefs == review' = incoming /\ head' = incoming

\* The transaction was sent: what it expected is of no more use.
Sent == expected' = NoCommit /\ UNCHANGED <<op, bundle, late>>

\* Mutant: a lost transaction is taken for a published one.
UpdateRefsIgnoresFailure ==
    /\ Step("update", "record")
    /\ IF review = expected THEN MoveRefs ELSE UNCHANGED <<review, head>>
    /\ Sent /\ UNCHANGED <<guest, vm, incoming, catalog, outside>>

\* git update-ref --stdin: one transaction, refused unless both refs still have
\* the expected old values.
UpdateRefs ==
    /\ pc = "update"
    /\ IF review # expected THEN BlockWithArtifacts
       ELSE /\ pc' = "record"
            /\ MoveRefs /\ Sent
            /\ UNCHANGED <<guest, vm, incoming, catalog, outside>>

\* Any other failure of that command is recorded as a diverged review branch too,
\* whether git had moved the refs or not.
UpdateRefsFails ==
    /\ pc = "update" /\ Fault /\ Exit
    /\ \/ review = expected /\ MoveRefs
       \/ UNCHANGED <<review, head>>
    /\ Record("blocked", incoming)
    /\ UNCHANGED <<guest, vm, incoming, unlocked>>

\* record_sync_outcome; close --sync goes on to destroy the session.
RecordClean ==
    /\ pc = "record"
    /\ Record("success", incoming)
    /\ IF op = "close" THEN pc' = "confirm" /\ UNCHANGED locals ELSE Exit
    /\ UNCHANGED <<guest, vm, hostrefs, outside>>

-------------------------------------------------------------------------------
(* The rest of close --sync, close --discard, repair *)

\* should_sync_before_close: a session that was discarded is closed without one.
CloseBegin ==
    \/ sync = "discarded" /\ Begin("close", "confirm")
    \/ Begin("discard", "confirm")

\* FinishDestroy; of every other state here repair writes nothing.
RepairBegin == life = "destroying" /\ Begin("repair", "destroy")

MarkDestroying ==
    /\ Step("confirm", "destroy")
    /\ WriteLife("destroying")
    /\ UNCHANGED <<guest, vm, hostrefs, sync, log, locals, outside>>

DeleteVm ==
    /\ Step("destroy", "closed")
    /\ vm' = FALSE /\ late' = {}
    /\ UNCHANGED <<guest, hostrefs, catalog, op, bundle, expected, outside>>

RecordClosed ==
    /\ pc = "closed"
    /\ IF op = "repair" THEN Exit ELSE pc' = "outcome" /\ UNCHANGED locals
    /\ WriteLife("closed")
    /\ UNCHANGED <<guest, vm, hostrefs, sync, log, outside>>

RecordOutcome ==
    /\ pc = "outcome" /\ Exit
    /\ sync' = IF op = "discard" THEN "discarded" ELSE "clean"
    /\ UNCHANGED <<guest, vm, hostrefs, life, overwritten, log, outside>>

-------------------------------------------------------------------------------
(* start and stop: no lock *)

\* limactl start or stop has returned.
UnlockedBegin ==
    /\ "unlocked" \in Beside /\ vm /\ ~unlocked
    /\ unlocked' = TRUE
    /\ UNCHANGED <<guest, vm, hostrefs, catalog, pc, locals, faults>>

\* The state the command wants is written whatever the row says by now, and
\* sync_state is left as it is.
UnlockedWrite ==
    /\ unlocked /\ unlocked' = FALSE
    /\ life' = "running"
    /\ overwritten' = (overwritten \/ life # "running")
    /\ UNCHANGED <<guest, vm, hostrefs, sync, log, pc, locals, faults>>

UnlockedFails ==
    /\ unlocked /\ unlocked' = FALSE
    /\ UNCHANGED <<guest, vm, hostrefs, catalog, pc, locals, faults>>

-------------------------------------------------------------------------------
(* The environment *)

\* An external command fails, --yes is missing, or the process dies.  A command
\* that fails after it had its effect is its own step followed by this one.
Fail ==
    /\ pc # Idle /\ Fault
    /\ Exit
    /\ UNCHANGED <<guest, vm, hostrefs, catalog, unlocked>>

\* The steps after git status was run, and those after the bundle was made.
PastDirty == {"head", "bundle", "fetch", "ancestor", "review", "update", "record",
              "confirm", "destroy"}
PastBundle == PastDirty \ {"head", "bundle"}

\* Somebody does w in the guest; for close --sync, which deletes the guest in the
\* end, it is late if a step of these is the next one.
WorkInGuest(w, steps) ==
    /\ vm
    /\ late' = IF op = "close" /\ pc \in steps THEN late \cup {w} ELSE late
    /\ UNCHANGED <<vm, hostrefs, catalog, pc, op, bundle, expected, outside>>

\* Whoever works in the guest moves the review branch: a commit, an amend, a reset.
GuestCommits ==
    /\ WorkInGuest("commit", PastBundle) /\ tip' \in Commits
    /\ UNCHANGED <<on, dirty>>

\* HEAD is asked for in one call into the guest and bundled in another.
GuestSwitches ==
    /\ WorkInGuest("switch", {"bundle"}) /\ on' = ~on
    /\ UNCHANGED <<tip, dirty>>

GuestEdits ==
    /\ WorkInGuest("edit", PastDirty) /\ dirty' = ~dirty
    /\ UNCHANGED <<tip, on>>

HostMovesReview ==
    /\ review' \in MaybeCommit
    /\ UNCHANGED <<guest, vm, incoming, head, catalog, pc, locals, outside>>

\* gc spares names of active sessions in staging/, and "<session>.bundle" is
\* not such a name; what it takes is missed only by the fetch.
GcReclaims ==
    /\ "gc" \in Beside /\ bundle # NoCommit
    /\ bundle' = NoCommit
    /\ UNCHANGED <<guest, vm, hostrefs, catalog, pc, op, expected, late, outside>>

-------------------------------------------------------------------------------
SyncStep ==
    \/ MarkSyncing \/ CheckDirty \/ CheckHead \/ CreateBundle
    \/ FetchBundle \/ FetchRefused \/ CheckAncestor \/ ReadReview
    \/ UpdateRefs \/ RecordClean

CloseStep == MarkDestroying \/ DeleteVm \/ RecordClosed \/ RecordOutcome

Command == SyncBegin \/ CloseBegin \/ RepairBegin \/ SyncStep \/ CloseStep

Unlocked == UnlockedBegin \/ UnlockedWrite \/ UnlockedFails

Failures == Fail \/ ReadReviewFails \/ UpdateRefsFails

Users == GuestCommits \/ GuestSwitches \/ GuestEdits \/ HostMovesReview

Next == Command \/ Failures \/ Unlocked \/ Users \/ GcReclaims

Spec == Init /\ [][Next]_vars

-------------------------------------------------------------------------------
(* Safety *)

\* No command moves the review branch but to the new session head, and then
\* only forward from where the user of the host has it at that moment.
ReviewOnlyForward ==
    [][pc' # pc /\ review' # review
       => review' = head' /\ Host!FastForwards(review, review')]_vars

\* A session at rest that says clean has published all it ever fetched, also
\* after commands that failed between the fetch and the refs; unless start or
\* stop has written that state over the Syncing or Destroying of a command that
\* did not finish, for they leave sync_state alone (start.rs, stop.rs).
CleanMeansPublished ==
    sync = "clean" /\ life = "running" /\ ~overwritten => head = incoming

\* The commit that the last recorded sync-back had staged is still in the host
\* repository, whatever the guest rewrote, gc deleted and later commands failed
\* at; that of a successful one is also in the session head.
StagedWorkIsKept ==
    log.staged # NoCommit =>
        /\ incoming # NoCommit /\ Host!Reaches(log.staged, incoming)
        /\ log.result = "success" => Host!Reaches(log.staged, head)

\* close --sync deletes the VM only when the session head is the commit it
\* fetched last and the catalog says clean.
DestroyOnlyPublished ==
    [][op = "close" /\ vm /\ ~vm' => sync = "clean" /\ head = incoming]_vars

\* Of the review branch and the uncommitted edits, close --sync takes with the VM
\* only what came after the command had looked: edits after git status, commits
\* after the bundle, and all that is not on the host yet when HEAD was switched
\* between its check and the bundle.  Other branches of the guest are never looked
\* at, and go with the VM (git_native.rs, close.rs).
OnlyLateWorkIsLost ==
    [][op = "close" /\ vm /\ ~vm' =>
        /\ dirty => "edit" \in late
        /\ tip # head => "commit" \in late \/ "switch" \in late]_vars

\* What close --sync bundles is the review branch of the guest, unless HEAD was
\* switched after it had been checked.
BundleIsReviewBranch ==
    [][op = "close" /\ pc = "bundle" /\ pc' = "fetch"
       => bundle' = tip \/ "switch" \in late]_vars

\* The two refs behave as ReviewBranch says.
RefsPromise == Host!Spec

\* Row and VM move as SessionRegistry says, whose other steps are those of other
\* commands: Closed is written over a deleted VM only.
Registry == INSTANCE SessionRegistry
            WITH state <- life, machine <- IF vm THEN "running" ELSE "absent",
                 NoRow <- "none", Closed <- "closed", Opening <- "cloning",
                 Lives <- {"none", "cloning", "running", "stopped", "syncing",
                           "destroying", "closed"}

MovesAsRegistry == [][Registry!RegistryNext]_(Registry!registry)

-------------------------------------------------------------------------------
(* The inductive invariant behind them *)

\* What a command knows at the step it is about to take.
Knows ==
    /\ pc \in {"ancestor", "review", "update", "record"} => incoming # NoCommit
    /\ pc \in {"review", "update"} => Host!Reaches(head, incoming)
    /\ pc = "update" => Host!FastForwards(expected, incoming)
    /\ pc = "record" => head = incoming
    /\ pc \in SyncSteps => vm /\ op \in {"sync", "close"}
    /\ pc \in SyncSteps \ {"running"} => life = "syncing" \/ overwritten
    /\ pc \in {"confirm", "destroy"} /\ op = "close" /\ vm =>
           sync = "clean" /\ head = incoming
    /\ pc \in {"closed", "outcome"} => ~vm
    /\ pc = "outcome" => life = "closed" \/ overwritten
    /\ sync = "discarded" => ~vm

IInv == TypeOK /\ Knows /\ CleanMeansPublished /\ StagedWorkIsKept

\* What close --sync has seen of the guest is still so, but for what came late.
GuestAsSeen ==
    op = "close" /\ vm =>
        /\ pc \in PastDirty /\ dirty => "edit" \in late
        /\ pc = "bundle" => on \/ "switch" \in late
        /\ pc = "fetch" => \/ bundle \in {tip, NoCommit}
                          \/ "commit" \in late \/ "switch" \in late
        /\ pc \in PastBundle \ {"fetch"} => \/ incoming = tip
                                          \/ "commit" \in late \/ "switch" \in late

-------------------------------------------------------------------------------
(* Liveness *)

\* The user runs sync-back again and again, and a command under way goes on.
FairSpec == Spec /\ WF_vars(SyncBegin) /\ WF_vars(SyncStep) /\ WF_vars(CloseStep)

\* Nothing stands between the guest's review branch and the host.
Settled(c) ==
    /\ vm /\ on /\ ~dirty /\ tip = c
    /\ Host!FastForwards(incoming, c) /\ Host!Reaches(head, c)
    /\ Host!FastForwards(review, c)

\* Once guest, host and gc leave a publishable branch alone it is published,
\* whatever was interrupted or blocked before.
SettledIsPublished ==
    \A c \in Commits :
        <>[]Settled(c) /\ <>[][~HostMovesReview /\ ~GcReclaims]_vars
        => <>[](head = c /\ review = c)

=============================================================================
