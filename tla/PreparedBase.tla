---------------------------- MODULE PreparedBase ----------------------------
(***************************************************************************)
(* The prepared base VM and base.lock: agbranch base prepare builds it     *)
(* under the exclusive lock, launch and open clone it under the shared one *)
(* and build it themselves when it is missing or deprecated.  Both locks   *)
(* are tried, never waited for, and the kernel drops a dead process's.     *)
(*                                                                         *)
(* Who holds the lock follows from where a process is: a lock is acquired  *)
(* and dropped together with a step of its holder.                         *)
(***************************************************************************)
EXTENDS Naturals

CONSTANTS
    Procs,      \* agbranch processes
    Prints,     \* effective provision fingerprints: one per binary or override
    NoPrint,
    MaxFaults,  \* bound: commands that fail or die
    MaxActs     \* bound: uses of limactl outside agbranch

ASSUME PreparedBaseAssumption ==
    NoPrint \notin Prints /\ MaxFaults \in Nat /\ MaxActs \in Nat

VARIABLES
    base,     \* the VM named prepared_base_name
    pc, want, rebuild, print,  \* per process: next step, command, --rebuild, fingerprint
    faults, acts

locals == <<pc, want, rebuild, print>>
vars == <<base, locals, faults, acts>>

MaybePrint == Prints \cup {NoPrint}
Steps == {"unprotect", "delete", "create", "restop", "start", "probe",
          "metadata", "stop", "protect"}
Pcs == {"idle", "exclusive", "recheck", "plan", "done", "shared", "clone"} \cup Steps

\* base.lock, exclusive and shared.
Holds(p) == pc[p] \in {"recheck", "plan", "done"} \cup Steps
Shares(p) == pc[p] = "clone"

Bases ==
    [status: {"missing", "stopped", "running"},
     ready: BOOLEAN,       \* its provision scripts have finished
     meta: MaybePrint,     \* agbranch-base.json
     protected: BOOLEAN,
     deprecated: BOOLEAN]  \* host mounts or top-level rosetta

TypeOK ==
    /\ base \in Bases
    /\ pc \in [Procs -> Pcs]
    /\ want \in [Procs -> {"prepare", "clone"}]
    /\ rebuild \in [Procs -> BOOLEAN]
    /\ print \in [Procs -> MaybePrint]
    /\ faults \in 0..MaxFaults /\ acts \in 0..MaxActs

NoBase == [status |-> "missing", ready |-> FALSE,
           meta |-> NoPrint, protected |-> FALSE, deprecated |-> FALSE]

NewBase == [NoBase EXCEPT !.status = "stopped"]

\* A base some older agbranch has prepared.
OldBase(v) == [NewBase EXCEPT !.ready = TRUE, !.protected = TRUE,
                               !.deprecated = TRUE]

Init ==
    /\ base \in {NoBase} \cup {OldBase(v) : v \in Prints}
    /\ pc = [p \in Procs |-> "idle"]
    /\ want = [p \in Procs |-> "prepare"]
    /\ rebuild = [p \in Procs |-> FALSE]
    /\ print = [p \in Procs |-> NoPrint]
    /\ faults = 0 /\ acts = 0

Goto(p, l) ==
    /\ pc' = [pc EXCEPT ![p] = l]
    /\ UNCHANGED <<want, rebuild, print>>

Exit(p) ==
    /\ pc' = [pc EXCEPT ![p] = "idle"]
    /\ want' = [want EXCEPT ![p] = "prepare"]
    /\ rebuild' = [rebuild EXCEPT ![p] = FALSE]
    /\ print' = [print EXCEPT ![p] = NoPrint]

\* Mutant: exclusive does not mind the shared holders.
CanHoldBesideClones(p) == \A q \in Procs \ {p} : ~Holds(q)

CanHold(p) == \A q \in Procs \ {p} : ~Holds(q) /\ ~Shares(q)

\* Mutant: the shared lock is not taken.
CanShareAlways(p) == TRUE

CanShare(p) == \A q \in Procs \ {p} : ~Holds(q)

-------------------------------------------------------------------------------
(* Commands.  One that finds the lock busy before its first change just ends. *)

PrepareBegin(p) ==
    /\ pc[p] = "idle" /\ CanHold(p)
    /\ pc' = [pc EXCEPT ![p] = "plan"]
    /\ \E v \in Prints, r \in BOOLEAN :
           print' = [print EXCEPT ![p] = v] /\ rebuild' = [rebuild EXCEPT ![p] = r]
    /\ UNCHANGED <<base, want, faults, acts>>

NeedsPreparing == base.status = "missing" \/ base.deprecated

\* The base is looked at with no lock held.  One that runs blocks the command;
\* one that is stale, unprotected or has no metadata is cloned anyway.
LaunchBegin(p) ==
    /\ pc[p] = "idle" /\ base.status # "running"
    /\ pc' = [pc EXCEPT ![p] = IF NeedsPreparing THEN "exclusive" ELSE "shared"]
    /\ want' = [want EXCEPT ![p] = "clone"]
    /\ \E v \in Prints : print' = [print EXCEPT ![p] = v]
    /\ UNCHANGED <<base, rebuild, faults, acts>>

AcquireExclusive(p) ==
    /\ pc[p] = "exclusive"
    /\ IF CanHold(p) THEN Goto(p, "recheck") ELSE Exit(p)
    /\ UNCHANGED <<base, faults, acts>>

\* The strategy once more, now under the lock.
Recheck(p) ==
    /\ pc[p] = "recheck"
    /\ \/ base.status = "running" /\ Exit(p)
       \/ /\ base.status # "running" /\ ~NeedsPreparing
          /\ Goto(p, "shared")
       \/ /\ base.status # "running" /\ NeedsPreparing
          /\ pc' = [pc EXCEPT ![p] = "plan"]
          /\ rebuild' = [rebuild EXCEPT ![p] = base.deprecated]
          /\ UNCHANGED <<want, print>>
    /\ UNCHANGED <<base, faults, acts>>

\* The exclusive lock was dropped before: anyone may have been quicker.
AcquireShared(p) ==
    /\ pc[p] = "shared"
    /\ IF CanShare(p) THEN Goto(p, "clone") ELSE Exit(p)
    /\ UNCHANGED <<base, faults, acts>>

\* limactl clone returns, and with it the lock; the session goes on without.
Clone(p) ==
    /\ pc[p] = "clone"
    /\ Exit(p)
    /\ UNCHANGED <<base, faults, acts>>

-------------------------------------------------------------------------------
(* prepare_base_report_with_progress_timeout *)

FirstStep(r) ==
    CASE base.status = "missing" -> "create"
      [] base.status # "missing" /\ (r \/ base.deprecated) -> "unprotect"
      [] base.status = "running" /\ ~r /\ ~base.deprecated -> "restop"
      [] base.status = "stopped" /\ ~r /\ ~base.deprecated -> "start"

\* Mutant: an existing base is not protected again.
AfterUnprotected ==
    [unprotect |-> "delete", delete |-> "create", create |-> "start",
     restop |-> "start", start |-> "probe", probe |-> "metadata",
     metadata |-> "stop", stop |-> "done", protect |-> "done"]

\* Every list of steps is a tail of this chain.
After ==
    [unprotect |-> "delete", delete |-> "create", create |-> "start",
     restop |-> "start", start |-> "probe", probe |-> "metadata",
     metadata |-> "stop", stop |-> "protect", protect |-> "done"]

Plan(p) ==
    /\ pc[p] = "plan"
    /\ Goto(p, FirstStep(rebuild[p]))
    /\ UNCHANGED <<base, faults, acts>>

\* Step l: limactl does it, or refuses it and the command ends there.
Do(p, l, possible, result) ==
    /\ pc[p] = l
    /\ IF possible THEN base' = result /\ Goto(p, After[l])
                   ELSE UNCHANGED base /\ Exit(p)
    /\ UNCHANGED <<faults, acts>>

Exists == base.status # "missing"
Runs == base.status = "running"
Stopped == [base EXCEPT !.status = "stopped"]

Unprotect(p) == Do(p, "unprotect", Exists, [base EXCEPT !.protected = FALSE])

Delete(p) == Do(p, "delete", ~base.protected, NoBase)

Create(p) == Do(p, "create", ~Exists, NewBase)

StopFirst(p) == Do(p, "restop", Runs, Stopped)

\* limactl start provisions, and has nothing to do for a VM that runs.
Start(p) ==
    Do(p, "start", Exists,
       IF Runs THEN base ELSE [base EXCEPT !.status = "running", !.ready = TRUE])

Probe(p) == Do(p, "probe", Runs, base)

\* The fingerprint of this binary, whatever the base was created from.
WriteMetadata(p) ==
    Do(p, "metadata", Exists, [base EXCEPT !.meta = print[p]])

Stop(p) == Do(p, "stop", Runs, Stopped)

Protect(p) == Do(p, "protect", Exists, [base EXCEPT !.protected = TRUE])

FinishPrepare(p) ==
    /\ pc[p] = "done"
    /\ IF want[p] = "clone" THEN Goto(p, "shared") ELSE Exit(p)
    /\ UNCHANGED <<base, faults, acts>>

-------------------------------------------------------------------------------
(* The environment *)

\* What a failed step may leave: limactl start can time out with the VM up, a
\* failed metadata step stops the VM.  A step that fails after its whole effect
\* is that step followed by a failure.
Leaves(l) ==
    {base}
      \cup {b \in {[base EXCEPT !.status = "running"]} : l = "start" /\ Exists}
      \cup {b \in {Stopped} : l = "metadata" /\ Runs}

Fail(p) ==
    /\ pc[p] # "idle" /\ faults < MaxFaults
    /\ faults' = faults + 1
    /\ base' \in Leaves(pc[p])
    /\ Exit(p)
    /\ UNCHANGED acts

\* Someone else's limactl start, or the one a killed agbranch left behind.
HostStarts ==
    /\ acts < MaxActs /\ acts' = acts + 1 /\ base.status = "stopped"
    /\ \E r \in {base.ready, TRUE} :
           base' = [base EXCEPT !.status = "running", !.ready = r]
    /\ UNCHANGED <<locals, faults>>

HostStops ==
    /\ acts < MaxActs /\ acts' = acts + 1 /\ Runs
    /\ base' = Stopped
    /\ UNCHANGED <<locals, faults>>

-------------------------------------------------------------------------------
PrepareStep(p) ==
    \/ Plan(p) \/ Unprotect(p) \/ Delete(p) \/ Create(p) \/ StopFirst(p)
    \/ Start(p) \/ Probe(p) \/ WriteMetadata(p) \/ Stop(p) \/ Protect(p)
    \/ FinishPrepare(p)

CloneStep(p) == AcquireExclusive(p) \/ Recheck(p) \/ AcquireShared(p) \/ Clone(p)

Next ==
    \/ \E p \in Procs : \/ PrepareBegin(p) \/ LaunchBegin(p)
                        \/ PrepareStep(p) \/ CloneStep(p) \/ Fail(p)
    \/ HostStarts \/ HostStops

Spec == Init /\ [][Next]_vars

-------------------------------------------------------------------------------
(* Safety *)

\* No agbranch process changes the base while another one clones it, although
\* the decision to clone is taken before any lock is.
CloneUndisturbed ==
    [][base' # base /\ locals' # locals => \A p \in Procs : ~Shares(p)]_vars

\* Metadata is only ever in a base whose provisioning finished, whatever was
\* interrupted, as long as nobody else starts the VM.
MetadataMeansProvisioned == acts = 0 /\ base.meta # NoPrint => base.ready

\* As long as no command failed and nobody else used the VM, a session is cloned
\* from a provisioned base, though nothing was locked when it chose to clone.
ClonesAreProvisioned ==
    faults + acts = 0 =>
        \A p \in Procs : Shares(p) /\ base.status = "stopped" => base.ready

-------------------------------------------------------------------------------
(* The inductive invariant behind them *)

LockExclusion ==
    \A p, q \in Procs : p # q /\ Holds(p) => ~Holds(q) /\ ~Shares(q)

\* A process that is about to start finds the VM stopped, and one past it has
\* seen the provisioning end.
ProvisionInv ==
    /\ MetadataMeansProvisioned
    /\ \A p \in Procs :
           /\ pc[p] = "start" => base.status # "running"
           /\ pc[p] \in {"probe", "metadata"} => base.ready

PrintsInv == \A p \in Procs : pc[p] # "idle" => print[p] \in Prints

IInv ==
    /\ TypeOK /\ LockExclusion /\ PrintsInv
    /\ acts = 0 => ProvisionInv

Settled == base.status # "running" /\ (base.status = "stopped" => base.ready)

\* What the holder of the lock knows of the base when its next step is l.
Knows(l) ==
    /\ l \in {"recheck", "plan", "unprotect", "delete", "done"} => Settled
    /\ l = "unprotect" => Exists
    /\ l = "delete" => ~base.protected
    /\ l = "create" => ~Exists
    /\ l # "restop"
    /\ l = "start" => base.status = "stopped"
    /\ l \in {"probe", "metadata", "stop"} => Runs /\ base.ready
    /\ l = "protect" => base.status = "stopped" /\ base.ready

\* Without a failure and without anybody else at the VM every step of the chain
\* finds the base as the steps before it have left it, so none is refused and no
\* process lets go of the lock halfway.
ChainInv ==
    /\ (\A p \in Procs : ~Holds(p)) => Settled
    /\ \A p \in Procs : Knows(pc[p])

CleanInv == faults + acts = 0 => ChainInv

-------------------------------------------------------------------------------
(* Liveness *)

\* A process goes on, every external command being bounded, and a user runs
\* base prepare again whenever nothing else runs.
FairSpec ==
    /\ Spec
    /\ \A p \in Procs : WF_vars(PrepareStep(p)) /\ WF_vars(CloneStep(p))
    /\ WF_vars(\E p \in Procs : PrepareBegin(p))

Ready ==
    /\ base.status = "stopped" /\ base.ready /\ base.protected
    /\ base.meta # NoPrint

\* Once no new launch holds the lock against it, base prepare heals a base from
\* whatever state crashes and failures left it in.
PrepareHeals ==
    <>[][\A p \in Procs : ~LaunchBegin(p)]_vars => []<>Ready

=============================================================================
