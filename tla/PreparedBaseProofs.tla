------------------------- MODULE PreparedBaseProofs -------------------------
(***************************************************************************)
(* What base.lock guarantees for any number of processes and versions.     *)
(***************************************************************************)
EXTENDS PreparedBase, TLAPS

\* The chain of steps stays inside the steps.
LEMMA AfterStaysInChain ==
    \A l \in Steps : After[l] \in Steps \cup {"done"}
BY DEF After, Steps

\* Where prepare enters the chain, and what it has seen of the base by then.
LEMMA FirstStepFits ==
    ASSUME TypeOK, NEW r \in BOOLEAN
    PROVE  /\ FirstStep(r) \in {"create", "unprotect", "restop", "start"}
           /\ FirstStep(r) = "start" => base.status = "stopped"
<1>1. base.status \in {"missing", "stopped", "running"} /\ base.deprecated \in BOOLEAN
  BY DEF TypeOK, Bases
<1>2. CASE base.status = "missing"
  BY <1>2 DEF FirstStep
<1>3. CASE base.status # "missing" /\ (r \/ base.deprecated)
  BY <1>3 DEF FirstStep
<1>4. CASE base.status = "running" /\ ~r /\ ~base.deprecated
  BY <1>4 DEF FirstStep
<1>5. CASE base.status = "stopped" /\ ~r /\ ~base.deprecated
  BY <1>5 DEF FirstStep
<1>6. QED
  BY <1>1, <1>2, <1>3, <1>4, <1>5

\* The bases a step or a failure leaves are bases.
LEMMA BasesClosed ==
    /\ NoBase \in Bases
    /\ \A v \in Prints : NewBase \in Bases /\ OldBase(v) \in Bases
    /\ \A b \in Bases : /\ [b EXCEPT !.status = "stopped"] \in Bases
                        /\ [b EXCEPT !.status = "running"] \in Bases
                        /\ [b EXCEPT !.protected = TRUE] \in Bases
                        /\ [b EXCEPT !.protected = FALSE] \in Bases
                        /\ \A r \in BOOLEAN :
                               [b EXCEPT !.status = "running", !.ready = r] \in Bases
                        /\ \A v \in MaybePrint : [b EXCEPT !.meta = v] \in Bases
<1>1. NoBase \in Bases
  BY DEF NoBase, Bases, MaybePrint
<1>2. ASSUME NEW v \in Prints PROVE NewBase \in Bases /\ OldBase(v) \in Bases
  BY <1>1 DEF NewBase, OldBase, Bases, MaybePrint
<1>3. ASSUME NEW b \in Bases, NEW r \in BOOLEAN, NEW v \in MaybePrint
      PROVE  /\ [b EXCEPT !.status = "stopped"] \in Bases
             /\ [b EXCEPT !.status = "running"] \in Bases
             /\ [b EXCEPT !.protected = TRUE] \in Bases
             /\ [b EXCEPT !.protected = FALSE] \in Bases
             /\ [b EXCEPT !.status = "running", !.ready = r] \in Bases
             /\ [b EXCEPT !.meta = v] \in Bases
  <2>1. /\ [b EXCEPT !.status = "stopped"] \in Bases
        /\ [b EXCEPT !.status = "running"] \in Bases
    BY DEF Bases
  <2>2. /\ [b EXCEPT !.protected = TRUE] \in Bases
        /\ [b EXCEPT !.protected = FALSE] \in Bases
    BY DEF Bases
  <2>3. [b EXCEPT !.status = "running", !.ready = r] \in Bases
    BY DEF Bases
  <2>4. [b EXCEPT !.meta = v] \in Bases
    BY DEF Bases
  <2>5. QED
    BY <2>1, <2>2, <2>3, <2>4
<1>4. NoPrint \in MaybePrint
  BY DEF MaybePrint
<1>5. QED
  BY <1>1, <1>2, <1>3, <1>4

LEMMA InitIInv == Init => IInv
<1> SUFFICES ASSUME Init PROVE IInv
  OBVIOUS
<1>1. base \in Bases
  BY BasesClosed DEF Init
<1>2. TypeOK
  BY <1>1, PreparedBaseAssumption DEF Init, TypeOK, MaybePrint, Pcs
<1>3. base.meta = NoPrint
  <2>1. CASE base = NoBase
    BY <2>1 DEF NoBase
  <2>2. CASE \E v \in Prints : base = OldBase(v)
    <3>1. PICK v \in Prints : base = OldBase(v)
      BY <2>2
    <3>2. OldBase(v).meta = NoPrint
      BY DEF NoBase, NewBase, OldBase
    <3>3. QED
      BY <3>1, <3>2
  <2>3. QED
    BY <2>1, <2>2 DEF Init
<1>4. LockExclusion /\ PrintsInv /\ ProvisionInv
  BY <1>3 DEF Init, LockExclusion, PrintsInv, ProvisionInv, MetadataMeansProvisioned,
              Holds, Shares, Steps
<1>5. QED
  BY <1>2, <1>4 DEF IInv

-------------------------------------------------------------------------------
\* A process that ends keeps the lock invariants, whatever it does to the base.
LEMMA ExitKeepsLocks ==
    ASSUME IInv, NEW p \in Procs, Exit(p)
    PROVE  /\ LockExclusion' /\ PrintsInv'
           /\ pc' \in [Procs -> Pcs] /\ want' \in [Procs -> {"prepare", "clone"}]
           /\ rebuild' \in [Procs -> BOOLEAN] /\ print' \in [Procs -> MaybePrint]
           /\ \A q \in Procs : pc'[q] = IF q = p THEN "idle" ELSE pc[q]
BY DEF IInv, Exit, LockExclusion, PrintsInv, Holds, Shares, Steps, TypeOK, Pcs, MaybePrint

\* Where a process may go without taking a lock somebody else holds.
MayGoto(p, l) ==
    /\ pc[p] # "idle"
    /\ \/ l = "shared"
       \/ l \in {"recheck", "plan", "done"} \cup Steps /\ (Holds(p) \/ CanHold(p))
       \/ l = "clone" /\ CanShare(p)

\* So does one that goes where it may.
LEMMA GotoKeepsLocks ==
    ASSUME IInv, NEW p \in Procs, NEW l \in Pcs, Goto(p, l), MayGoto(p, l)
    PROVE  /\ LockExclusion' /\ PrintsInv'
           /\ pc' \in [Procs -> Pcs] /\ want' \in [Procs -> {"prepare", "clone"}]
           /\ rebuild' \in [Procs -> BOOLEAN] /\ print' \in [Procs -> MaybePrint]
           /\ \A q \in Procs : pc'[q] = IF q = p THEN l ELSE pc[q]
BY DEF IInv, Goto, MayGoto, LockExclusion, PrintsInv, Holds, Shares, CanHold, CanShare,
       Steps, TypeOK, Pcs, MaybePrint

\* Steps of the prepare chain: what one does to the base keeps what the other
\* processes know, because none of them is in the chain.
LEMMA ProvisionIsMine ==
    ASSUME TypeOK, LockExclusion, NEW p \in Procs, Holds(p), ProvisionInv,
           NEW b \in Bases, base' = b,
           \A q \in Procs \ {p} : pc'[q] = pc[q],
           b.meta # NoPrint => b.ready,
           pc'[p] = "start" => b.status # "running",
           pc'[p] \in {"probe", "metadata"} => b.ready
    PROVE  ProvisionInv'
<1>1. \A q \in Procs \ {p} : pc[q] \notin {"start", "probe", "metadata"}
  BY DEF LockExclusion, Holds, Steps
<1>2. QED
  BY <1>1 DEF ProvisionInv, MetadataMeansProvisioned

\* Step l of the chain, whichever it is.
LEMMA DoKeeps ==
    ASSUME IInv, NEW p \in Procs, NEW l \in Steps, NEW possible \in BOOLEAN,
           NEW result \in Bases, Do(p, l, possible, result),
           acts = 0 /\ possible =>
               /\ result.meta # NoPrint => result.ready
               /\ After[l] = "start" => result.status # "running"
               /\ After[l] \in {"probe", "metadata"} => result.ready
    PROVE  IInv'
<1>1. pc[p] = l /\ Holds(p)
  BY DEF Do, Holds
<1>2. faults' \in 0..MaxFaults /\ acts' \in 0..MaxActs /\ acts' = acts
  BY DEF Do, IInv, TypeOK
<1>3. CASE possible
  <2>1. base' = result /\ Goto(p, After[l])
    BY <1>3 DEF Do
  <2>2. PICK m \in Pcs : m = After[l] /\ m \in {"recheck", "plan", "done"} \cup Steps
    BY AfterStaysInChain DEF Pcs
  <2>3. Goto(p, m)
    BY <2>1, <2>2
  <2>4. MayGoto(p, m)
    BY <1>1, <2>2 DEF MayGoto, Steps
  <2>5. /\ LockExclusion' /\ PrintsInv'
        /\ pc' \in [Procs -> Pcs] /\ want' \in [Procs -> {"prepare", "clone"}]
        /\ rebuild' \in [Procs -> BOOLEAN] /\ print' \in [Procs -> MaybePrint]
        /\ \A q \in Procs : pc'[q] = IF q = p THEN m ELSE pc[q]
    BY <2>3, <2>4, GotoKeepsLocks
  <2>6. TypeOK'
    BY <1>2, <2>1, <2>5 DEF TypeOK
  <2>7. acts' = 0 => ProvisionInv'
    BY <1>1, <1>2, <1>3, <2>1, <2>2, <2>5, ProvisionIsMine DEF IInv
  <2>8. QED
    BY <2>5, <2>6, <2>7 DEF IInv
<1>4. CASE ~possible
  <2>1. base' = base /\ Exit(p)
    BY <1>4 DEF Do
  <2>2. /\ LockExclusion' /\ PrintsInv'
        /\ pc' \in [Procs -> Pcs] /\ want' \in [Procs -> {"prepare", "clone"}]
        /\ rebuild' \in [Procs -> BOOLEAN] /\ print' \in [Procs -> MaybePrint]
        /\ \A q \in Procs : pc'[q] = IF q = p THEN "idle" ELSE pc[q]
    BY <2>1, ExitKeepsLocks
  <2>3. TypeOK' /\ (acts' = 0 => ProvisionInv')
    BY <1>2, <2>1, <2>2 DEF IInv, TypeOK, ProvisionInv, MetadataMeansProvisioned
  <2>4. QED
    BY <2>2, <2>3 DEF IInv
<1>5. QED
  BY <1>3, <1>4

\* A step that moves one process by Goto or Exit and leaves the base alone.
LEMMA BaseLeftAlone ==
    ASSUME IInv, NEW p \in Procs, NEW l \in Pcs, UNCHANGED <<base, faults, acts>>,
           /\ LockExclusion' /\ PrintsInv'
           /\ pc' \in [Procs -> Pcs] /\ want' \in [Procs -> {"prepare", "clone"}]
           /\ rebuild' \in [Procs -> BOOLEAN] /\ print' \in [Procs -> MaybePrint]
           /\ \A q \in Procs : pc'[q] = IF q = p THEN l ELSE pc[q],
           l \notin {"probe", "metadata"},
           l = "start" => base.status # "running"
    PROVE  IInv'
BY DEF IInv, TypeOK, ProvisionInv, MetadataMeansProvisioned

LEMMA ExitKeeps ==
    ASSUME IInv, NEW p \in Procs, Exit(p), UNCHANGED <<base, faults, acts>>
    PROVE  IInv'
<1>1. "idle" \in Pcs
  BY DEF Pcs
<1>2. QED
  BY <1>1, ExitKeepsLocks, BaseLeftAlone

LEMMA GotoKeeps ==
    ASSUME IInv, NEW p \in Procs, NEW l \in Pcs, Goto(p, l), UNCHANGED <<base, faults, acts>>,
           MayGoto(p, l),
           l \notin {"probe", "metadata"},
           l = "start" => base.status # "running"
    PROVE  IInv'
BY GotoKeepsLocks, BaseLeftAlone

\* The steps of base prepare.
LEMMA PrepareStepKeeps ==
    ASSUME IInv, NEW p \in Procs, PrepareStep(p)
    PROVE  IInv'
<1> USE DEF Exists, Runs, Stopped
<1>0. /\ base \in Bases /\ base.status \in {"missing", "stopped", "running"}
      /\ base.protected \in BOOLEAN /\ rebuild[p] \in BOOLEAN
      /\ acts = 0 => (base.meta # NoPrint => base.ready)
      /\ acts = 0 /\ pc[p] \in {"probe", "metadata"} => base.ready
      /\ print[p] \in MaybePrint
      /\ Holds(p) => print[p] \in Prints
  BY DEF IInv, TypeOK, Bases, ProvisionInv, MetadataMeansProvisioned, PrintsInv,
         MaybePrint, Holds, Steps
<1>1. CASE Plan(p)
  <2>1. PICK l \in {"create", "unprotect", "restop", "start"} :
            l = FirstStep(rebuild[p]) /\ (l = "start" => base.status = "stopped")
    BY <1>0, FirstStepFits DEF IInv
  <2>2. l \in Pcs /\ l \in Steps /\ Holds(p) /\ Goto(p, l)
    BY <1>1, <2>1 DEF Plan, Pcs, Steps, Holds
  <2>3. MayGoto(p, l)
    <3>1. l \in {"recheck", "plan", "done"} \cup Steps
      BY <2>2
    <3>2. QED
      BY <1>1, <2>2, <3>1 DEF MayGoto, Plan
  <2>4. l \notin {"probe", "metadata"} /\ (l = "start" => base.status # "running")
    BY <2>1
  <2>5. UNCHANGED <<base, faults, acts>>
    BY <1>1 DEF Plan
  <2>6. QED
    BY <2>2, <2>3, <2>4, <2>5, GotoKeeps
<1>2. CASE Unprotect(p)
  <2>1. [base EXCEPT !.protected = FALSE] \in Bases
    BY <1>0, BasesClosed
  <2>2. QED
    BY <1>0, <1>2, <2>1, DoKeeps DEF Unprotect, Steps, After, Bases
<1>3. CASE Delete(p)
  BY <1>0, <1>3, BasesClosed, DoKeeps DEF Delete, Steps, After, NoBase
<1>4. CASE Create(p)
  <2>1. print[p] \in Prints
    BY <1>0, <1>4 DEF Create, Do, Holds, Steps
  <2>2. /\ NewBase \in Bases /\ NewBase.meta = NoPrint
        /\ NewBase.status = "stopped"
    BY <2>1, BasesClosed DEF NewBase, NoBase
  <2>3. QED
    BY <1>0, <1>4, <2>2, DoKeeps DEF Create, Steps, After
<1>5. CASE StopFirst(p)
  <2>1. [base EXCEPT !.status = "stopped"] \in Bases
    BY <1>0, BasesClosed
  <2>2. QED
    BY <1>0, <1>5, <2>1, DoKeeps DEF StopFirst, Steps, After, Bases
<1>6. CASE Start(p)
  <2>1. [base EXCEPT !.status = "running", !.ready = TRUE] \in Bases
    BY <1>0, BasesClosed
  <2> DEFINE r == IF Runs THEN base
                    ELSE [base EXCEPT !.status = "running", !.ready = TRUE]
  <2>3. Do(p, "start", Exists, r) /\ r \in Bases /\ Exists \in BOOLEAN
    BY <1>0, <1>6, <2>1 DEF Start
  <2>4. acts = 0 => r.ready
    <3>1. acts = 0 /\ pc[p] = "start" => ~Runs
      BY DEF IInv, ProvisionInv
    <3>2. pc[p] = "start"
      BY <1>6 DEF Start, Do
    <3>3. [base EXCEPT !.status = "running", !.ready = TRUE].ready = TRUE
      BY <1>0 DEF Bases
    <3>4. QED
      BY <3>1, <3>2, <3>3
  <2>5. "start" \in Steps /\ After["start"] = "probe"
    BY DEF Steps, After
  <2> HIDE DEF r
  <2>6. QED
    BY <2>3, <2>4, <2>5, DoKeeps
<1>7. CASE Probe(p)
  BY <1>0, <1>7, DoKeeps DEF Probe, Steps, After, Do
<1>8. CASE WriteMetadata(p)
  <2>1. [base EXCEPT !.meta = print[p]] \in Bases
    BY <1>0, BasesClosed
  <2>2. pc[p] = "metadata"
    BY <1>8 DEF WriteMetadata, Do
  <2>3. acts = 0 => [base EXCEPT !.meta = print[p]].ready
    BY <1>0, <2>2 DEF Bases
  <2>4. QED
    BY <1>0, <1>8, <2>1, <2>3, DoKeeps DEF WriteMetadata, Steps, After
<1>9. CASE Stop(p)
  <2>1. [base EXCEPT !.status = "stopped"] \in Bases
    BY <1>0, BasesClosed
  <2>2. QED
    BY <1>0, <1>9, <2>1, DoKeeps DEF Stop, Steps, After, Bases
<1>10. CASE Protect(p)
  <2>1. [base EXCEPT !.protected = TRUE] \in Bases
    BY <1>0, BasesClosed
  <2>2. QED
    BY <1>0, <1>10, <2>1, DoKeeps DEF Protect, Steps, After, Bases
<1>11. CASE FinishPrepare(p)
  BY <1>11, ExitKeeps, GotoKeeps DEF FinishPrepare, Pcs, MayGoto
<1>12. QED
  BY <1>1, <1>2, <1>3, <1>4, <1>5, <1>6, <1>7, <1>8, <1>9, <1>10, <1>11 DEF PrepareStep

\* The commands begin, and the launch path up to the clone.
LEMMA BeginKeeps ==
    ASSUME IInv, NEW p \in Procs, PrepareBegin(p) \/ LaunchBegin(p)
    PROVE  IInv'
<1>1. CASE PrepareBegin(p)
  <2>1. TypeOK'
    BY <1>1 DEF PrepareBegin, IInv, TypeOK, Pcs, MaybePrint
  <2>2. LockExclusion' /\ PrintsInv'
    BY <1>1 DEF PrepareBegin, IInv, TypeOK, LockExclusion, PrintsInv, CanHold,
                Holds, Shares, Steps
  <2>3. acts' = 0 => ProvisionInv'
    BY <1>1 DEF PrepareBegin, IInv, TypeOK, ProvisionInv, MetadataMeansProvisioned
  <2>4. QED
    BY <2>1, <2>2, <2>3 DEF IInv
<1>2. CASE LaunchBegin(p)
  <2>1. TypeOK'
    BY <1>2 DEF LaunchBegin, IInv, TypeOK, Pcs, MaybePrint
  <2>2. LockExclusion' /\ PrintsInv'
    BY <1>2 DEF LaunchBegin, IInv, TypeOK, LockExclusion, PrintsInv,
                Holds, Shares, Steps
  <2>3. acts' = 0 => ProvisionInv'
    BY <1>2 DEF LaunchBegin, IInv, TypeOK, ProvisionInv, MetadataMeansProvisioned
  <2>4. QED
    BY <2>1, <2>2, <2>3 DEF IInv
<1>3. QED
  BY <1>1, <1>2

LEMMA CloneStepKeeps ==
    ASSUME IInv, NEW p \in Procs, CloneStep(p)
    PROVE  IInv'
<1>0. want[p] \in {"prepare", "clone"} /\ base.deprecated \in BOOLEAN
  BY DEF IInv, TypeOK, Bases
<1>1. CASE AcquireExclusive(p)
  <2>1. CASE ~CanHold(p)
    BY <1>1, <2>1, ExitKeeps DEF AcquireExclusive
  <2>2. CASE CanHold(p)
    <3>1. "recheck" \in Pcs /\ MayGoto(p, "recheck")
      BY <1>1, <2>2 DEF AcquireExclusive, Pcs, MayGoto
    <3>2. QED
      BY <1>1, <2>2, <3>1, GotoKeeps DEF AcquireExclusive
  <2>3. QED
    BY <2>1, <2>2
<1>2. CASE Recheck(p)
  <2>1. CASE Exit(p)
    BY <1>2, <2>1, ExitKeeps DEF Recheck
  <2>2. CASE Goto(p, "shared")
    BY <1>2, <2>2, GotoKeeps DEF Recheck, MayGoto, Pcs
  <2>3. CASE /\ pc' = [pc EXCEPT ![p] = "plan"]
             /\ rebuild' = [rebuild EXCEPT ![p] = base.deprecated]
             /\ UNCHANGED <<want, print>>
    <3>1. TypeOK'
      BY <1>0, <1>2, <2>3 DEF Recheck, IInv, TypeOK, Pcs
    <3>2. LockExclusion' /\ PrintsInv'
      BY <1>2, <2>3 DEF Recheck, IInv, TypeOK, LockExclusion, PrintsInv, Holds, Shares, Steps
    <3>3. acts' = 0 => ProvisionInv'
      BY <1>2, <2>3 DEF Recheck, IInv, TypeOK, ProvisionInv, MetadataMeansProvisioned
    <3>4. QED
      BY <3>1, <3>2, <3>3 DEF IInv
  <2>4. QED
    BY <1>2, <2>1, <2>2, <2>3 DEF Recheck
<1>3. CASE AcquireShared(p)
  BY <1>3, ExitKeeps, GotoKeeps DEF AcquireShared, MayGoto, Pcs
<1>4. CASE Clone(p)
  BY <1>4, ExitKeeps DEF Clone
<1>5. QED
  BY <1>1, <1>2, <1>3, <1>4 DEF CloneStep

\* A failure leaves what it leaves, and the lock with it.
LEMMA FailKeeps ==
    ASSUME IInv, NEW p \in Procs, Fail(p)
    PROVE  IInv'
<1>1. base \in Bases
  BY DEF IInv, TypeOK
<1>2. /\ Exit(p) /\ base' \in Leaves(pc[p])
      /\ faults' \in 0..MaxFaults /\ acts' \in 0..MaxActs /\ acts' = acts
  BY PreparedBaseAssumption DEF Fail, IInv, TypeOK
<1>3. /\ base' \in Bases
      /\ base'.meta = base.meta /\ base'.ready = base.ready
      /\ base'.status = "running" => base.status = "running" \/ pc[p] = "start"
  <2>1. CASE base' = base
    BY <1>1, <2>1
  <2>2. CASE pc[p] = "start" /\ base' = [base EXCEPT !.status = "running"]
    BY <1>1, <2>2, BasesClosed DEF Bases
  <2>3. CASE base' = [base EXCEPT !.status = "stopped"]
    BY <1>1, <2>3, BasesClosed DEF Bases
  <2>4. QED
    BY <1>2, <2>1, <2>2, <2>3 DEF Leaves, Stopped
<1>4. /\ LockExclusion' /\ PrintsInv'
      /\ pc' \in [Procs -> Pcs] /\ want' \in [Procs -> {"prepare", "clone"}]
      /\ rebuild' \in [Procs -> BOOLEAN] /\ print' \in [Procs -> MaybePrint]
      /\ \A q \in Procs : pc'[q] = IF q = p THEN "idle" ELSE pc[q]
  BY <1>2, ExitKeepsLocks
<1>5. pc[p] = "start" => \A q \in Procs \ {p} : pc[q] # "start"
  BY DEF IInv, LockExclusion, Holds, Steps
<1>6. acts' = 0 => ProvisionInv'
  BY <1>2, <1>3, <1>4, <1>5 DEF IInv, ProvisionInv, MetadataMeansProvisioned
<1>7. QED
  BY <1>2, <1>3, <1>4, <1>6 DEF IInv, TypeOK

LEMMA HostKeeps ==
    ASSUME IInv, HostStarts \/ HostStops
    PROVE  IInv'
<1>1. base \in Bases /\ base.ready \in BOOLEAN
  BY DEF IInv, TypeOK, Bases
<1>2. acts' # 0 /\ acts' \in 0..MaxActs /\ UNCHANGED <<locals, faults>>
  BY PreparedBaseAssumption DEF HostStarts, HostStops, IInv, TypeOK
<1>3. base' \in Bases
  BY <1>1, BasesClosed DEF HostStarts, HostStops, Stopped
<1>4. QED
  BY <1>2, <1>3 DEF IInv, TypeOK, LockExclusion, PrintsInv, Holds, Shares, locals

-------------------------------------------------------------------------------
LEMMA IInvStep == IInv /\ [Next]_vars => IInv'
<1> SUFFICES ASSUME IInv, [Next]_vars PROVE IInv'
  OBVIOUS
<1>1. CASE UNCHANGED vars
  BY <1>1 DEF vars, locals, IInv, TypeOK, LockExclusion, PrintsInv, Holds, Shares,
              ProvisionInv, MetadataMeansProvisioned
<1>2. ASSUME NEW p \in Procs, PrepareBegin(p) \/ LaunchBegin(p) PROVE IInv'
  BY <1>2, BeginKeeps
<1>3. ASSUME NEW p \in Procs, PrepareStep(p) PROVE IInv'
  BY <1>3, PrepareStepKeeps
<1>4. ASSUME NEW p \in Procs, CloneStep(p) PROVE IInv'
  BY <1>4, CloneStepKeeps
<1>5. ASSUME NEW p \in Procs, Fail(p) PROVE IInv'
  BY <1>5, FailKeeps
<1>6. CASE HostStarts \/ HostStops
  BY <1>6, HostKeeps
<1>7. QED
  BY <1>1, <1>2, <1>3, <1>4, <1>5, <1>6 DEF Next

\* base.lock excludes, and what a process in the chain of steps knows of the
\* base stays true: for any number of processes, versions and failures.
THEOREM BaseInvariance == Spec => []IInv
<1>1. QED
  BY InitIInv, IInvStep, PTL DEF Spec

\* Metadata vouches for the provisioning until limactl is used outside.
THEOREM MetadataVouches == Spec => []MetadataMeansProvisioned
<1>1. IInv => MetadataMeansProvisioned
  BY DEF IInv, ProvisionInv, MetadataMeansProvisioned
<1>2. QED
  BY <1>1, BaseInvariance, PTL

\* A base that is being cloned is not changed under the clone.
THEOREM ClonesSeeOneBase == Spec => CloneUndisturbed
<1>1. IInv /\ [Next]_vars =>
          [base' # base /\ locals' # locals => \A p \in Procs : ~Shares(p)]_vars
  <2> SUFFICES ASSUME IInv, Next, base' # base, locals' # locals
               PROVE  \A p \in Procs : ~Shares(p)
    BY DEF vars
  <2>1. PICK p \in Procs : PrepareStep(p) \/ Fail(p)
    BY DEF Next, HostStarts, HostStops, PrepareBegin, LaunchBegin, CloneStep,
           AcquireExclusive, Recheck, AcquireShared, Clone
  <2>2. Holds(p)
    <3>1. CASE PrepareStep(p)
      BY <3>1 DEF PrepareStep, Plan, Unprotect, Delete, Create, StopFirst, Start, Probe,
                  WriteMetadata, Stop, Protect, FinishPrepare, Do, Holds, Steps
    <3>2. CASE Fail(p)
      BY <3>2 DEF Fail, Leaves, Holds, Steps
    <3>3. QED
      BY <2>1, <3>1, <3>2
  <2>3. QED
    BY <2>2 DEF IInv, LockExclusion, Holds, Shares, Steps
<1>2. QED
  BY <1>1, BaseInvariance, PTL DEF Spec, CloneUndisturbed

-------------------------------------------------------------------------------
(* A run without failures: what the holder of the lock knows. *)

\* The holder is alone in the chain, so the others know nothing it could spoil.
LEMMA HolderKeepsChain ==
    ASSUME LockExclusion, NEW p \in Procs, Holds(p),
           \A q \in Procs \ {p} : pc'[q] = pc[q],
           Knows(pc[p])', Holds(p)' \/ Settled'
    PROVE  ChainInv'
<1>1. ASSUME NEW q \in Procs \ {p} PROVE ~Holds(q) /\ Knows(pc[q])'
  <2>1. ~Holds(q) /\ pc'[q] = pc[q]
    BY DEF LockExclusion
  <2>2. QED
    BY <2>1 DEF Holds, Knows, Steps
<1>2. QED
  BY <1>1 DEF ChainInv

\* A process that neither had the lock nor takes it changes nothing here.
LEMMA OthersKeepChain ==
    ASSUME ChainInv, NEW p \in Procs, ~Holds(p), base' = base,
           \A q \in Procs \ {p} : pc'[q] = pc[q],
           pc'[p] \in {"idle", "exclusive", "shared", "clone"}
    PROVE  ChainInv'
<1>1. Settled' <=> Settled
  BY DEF Settled
<1>2. ASSUME NEW q \in Procs \ {p} PROVE Knows(pc[q])'
  BY <1>2 DEF ChainInv, Knows, Settled, Exists, Runs
<1>3. Knows(pc[p])' /\ ~Holds(p)'
  BY DEF Knows, Holds, Steps
<1>4. \A q \in Procs \ {p} : Holds(q)' <=> Holds(q)
  BY DEF Holds
<1>5. QED
  BY <1>1, <1>2, <1>3, <1>4 DEF ChainInv

\* One that takes it finds no other holder, hence a base that was left in order.
LEMMA TakingKeepsChain ==
    ASSUME ChainInv, NEW p \in Procs, ~Holds(p), CanHold(p), base' = base,
           \A q \in Procs \ {p} : pc'[q] = pc[q],
           pc'[p] \in {"recheck", "plan"}
    PROVE  ChainInv'
<1>1. Settled /\ Settled'
  BY DEF ChainInv, CanHold, Settled
<1>2. Knows(pc[p])' /\ Holds(p)'
  BY <1>1 DEF Knows, Holds
<1>3. ASSUME NEW q \in Procs \ {p} PROVE Knows(pc[q])'
  BY <1>3 DEF ChainInv, Knows, Settled, Exists, Runs
<1>4. QED
  BY <1>2, <1>3 DEF ChainInv

\* Where a Goto or an Exit leaves the others, and itself.
LEMMA Moves ==
    ASSUME TypeOK, NEW p \in Procs
    PROVE  /\ Exit(p) => /\ \A q \in Procs \ {p} : pc'[q] = pc[q]
                         /\ pc'[p] = "idle"
           /\ \A l : Goto(p, l) => /\ \A q \in Procs \ {p} : pc'[q] = pc[q]
                                   /\ pc'[p] = l
BY DEF TypeOK, Exit, Goto

\* A step of the chain is possible, and leaves what the next one counts on.
LEMMA PrepareStepKeepsChain ==
    ASSUME IInv, ChainInv, NEW p \in Procs, PrepareStep(p)
    PROVE  ChainInv'
<1>0. /\ base \in Bases /\ base.status \in {"missing", "stopped", "running"}
      /\ base.ready \in BOOLEAN
      /\ base.deprecated \in BOOLEAN /\ rebuild[p] \in BOOLEAN
      /\ TypeOK /\ LockExclusion /\ Knows(pc[p])
  BY DEF IInv, TypeOK, Bases, ChainInv
<1>1. Holds(p)
  BY DEF PrepareStep, Plan, Unprotect, Delete, Create, StopFirst, Start, Probe,
         WriteMetadata, Stop, Protect, FinishPrepare, Do, Holds, Steps
<1>2. SUFFICES /\ \A q \in Procs \ {p} : pc'[q] = pc[q]
               /\ Knows(pc[p])'
               /\ Holds(p)' \/ Settled'
  BY <1>0, <1>1, HolderKeepsChain
<1>3. CASE Plan(p)
  <2>1. PICK l : /\ l = FirstStep(rebuild[p]) /\ Goto(p, l) /\ pc[p] = "plan"
                 /\ base' = base
    BY <1>3 DEF Plan
  <2>2. Settled
    BY <1>0, <2>1 DEF Knows
  <2>3. \/ l = "create" /\ base.status = "missing"
        \/ l = "unprotect" /\ base.status = "stopped"
        \/ l = "start" /\ base.status = "stopped"
    <3>1. CASE base.status = "missing"
      BY <2>1, <3>1 DEF FirstStep
    <3>2. CASE base.status = "stopped" /\ (rebuild[p] \/ base.deprecated)
      BY <2>1, <3>2 DEF FirstStep
    <3>3. CASE base.status = "stopped" /\ ~rebuild[p] /\ ~base.deprecated
      BY <2>1, <3>3 DEF FirstStep
    <3>4. QED
      BY <1>0, <2>2, <3>1, <3>2, <3>3 DEF Settled
  <2>4. /\ \A q \in Procs \ {p} : pc'[q] = pc[q]
        /\ pc'[p] = l
    BY <1>0, <2>1, Moves
  <2>5. Knows(pc[p])' /\ Holds(p)'
    BY <2>1, <2>2, <2>3, <2>4 DEF Knows, Holds, Steps, Settled, Exists, Runs
  <2>6. QED
    BY <2>4, <2>5
<1>4. ASSUME NEW l \in Steps, NEW possible, NEW result, Do(p, l, possible, result),
             Knows(l) => possible
      PROVE  /\ \A q \in Procs \ {p} : pc'[q] = pc[q]
             /\ pc[p] = l /\ Knows(l) /\ base' = result /\ pc'[p] = After[l]
  <2>1. pc[p] = l /\ possible
    BY <1>0, <1>4 DEF Do
  <2>2. Goto(p, After[l]) /\ base' = result
    BY <1>4, <2>1 DEF Do
  <2>3. QED
    BY <1>0, <2>1, <2>2, Moves
<1>5. CASE Unprotect(p)
  <2>1. /\ \A q \in Procs \ {p} : pc'[q] = pc[q]
        /\ pc[p] = "unprotect" /\ Knows("unprotect")
        /\ base' = [base EXCEPT !.protected = FALSE] /\ pc'[p] = After["unprotect"]
    BY <1>4, <1>5 DEF Unprotect, Steps, Knows
  <2>2. /\ base'.protected = FALSE
        /\ base'.status = base.status /\ base'.ready = base.ready
    BY <1>0, <2>1 DEF Bases
  <2>3. Knows(pc[p])' /\ Holds(p)'
    BY <2>1, <2>2 DEF Knows, Holds, Steps, Settled, After
  <2>4. QED
    BY <2>1, <2>3
<1>6. CASE Delete(p)
  <2>1. /\ \A q \in Procs \ {p} : pc'[q] = pc[q]
        /\ base' = NoBase /\ pc'[p] = After["delete"]
    BY <1>4, <1>6 DEF Delete, Steps, Knows
  <2>2. Knows(pc[p])' /\ Holds(p)'
    BY <2>1 DEF Knows, Holds, Steps, After, NoBase, Exists
  <2>3. QED
    BY <2>1, <2>2
<1>7. CASE Create(p)
  <2>1. /\ \A q \in Procs \ {p} : pc'[q] = pc[q]
        /\ base' = NewBase /\ pc'[p] = After["create"]
    BY <1>4, <1>7 DEF Create, Steps, Knows
  <2>2. Knows(pc[p])' /\ Holds(p)'
    BY <2>1 DEF Knows, Holds, Steps, After, NoBase, NewBase
  <2>3. QED
    BY <2>1, <2>2
<1>8. CASE StopFirst(p)
  BY <1>0, <1>8 DEF StopFirst, Do, Knows
<1>9. CASE Start(p)
  <2>1. /\ \A q \in Procs \ {p} : pc'[q] = pc[q]
        /\ Knows("start")
        /\ base' = IF Runs THEN base
                   ELSE [base EXCEPT !.status = "running", !.ready = TRUE]
        /\ pc'[p] = After["start"]
    <3> DEFINE r == IF Runs THEN base
                      ELSE [base EXCEPT !.status = "running", !.ready = TRUE]
    <3>1. Do(p, "start", Exists, r) /\ "start" \in Steps
      BY <1>9 DEF Start, Steps
    <3>2. Knows("start") => Exists
      BY DEF Knows, Exists
    <3> HIDE DEF r
    <3>3. /\ \A q \in Procs \ {p} : pc'[q] = pc[q]
          /\ Knows("start") /\ base' = r /\ pc'[p] = After["start"]
      BY <1>4, <3>1, <3>2
    <3>4. QED
      BY <3>3 DEF r
  <2>2. base'.status = "running" /\ base'.ready = TRUE
    BY <1>0, <2>1 DEF Bases, Knows, Runs
  <2>3. Knows(pc[p])' /\ Holds(p)'
    BY <2>1, <2>2 DEF Knows, Holds, Steps, After, Runs
  <2>4. QED
    BY <2>1, <2>3
<1>10. CASE Probe(p)
  <2>1. /\ \A q \in Procs \ {p} : pc'[q] = pc[q]
        /\ Knows("probe") /\ base' = base /\ pc'[p] = After["probe"]
    BY <1>4, <1>10 DEF Probe, Steps, Knows
  <2>2. Knows(pc[p])' /\ Holds(p)'
    BY <2>1 DEF Knows, Holds, Steps, After, Runs
  <2>3. QED
    BY <2>1, <2>2
<1>11. CASE WriteMetadata(p)
  <2>1. /\ \A q \in Procs \ {p} : pc'[q] = pc[q]
        /\ Knows("metadata") /\ pc'[p] = After["metadata"]
        /\ base' = [base EXCEPT !.meta = print[p]]
    BY <1>4, <1>11 DEF WriteMetadata, Steps, Knows, Exists, Runs
  <2>2. base'.status = base.status /\ base'.ready = base.ready
    BY <1>0, <2>1 DEF Bases
  <2>3. Knows(pc[p])' /\ Holds(p)'
    BY <2>1, <2>2 DEF Knows, Holds, Steps, After, Runs
  <2>4. QED
    BY <2>1, <2>3
<1>12. CASE Stop(p)
  <2>1. /\ \A q \in Procs \ {p} : pc'[q] = pc[q]
        /\ Knows("stop") /\ base' = Stopped /\ pc'[p] = After["stop"]
    BY <1>4, <1>12 DEF Stop, Steps, Knows
  <2>2. base'.status = "stopped" /\ base'.ready = base.ready
    BY <1>0, <2>1 DEF Bases, Stopped
  <2>3. Knows(pc[p])' /\ Holds(p)'
    BY <2>1, <2>2 DEF Knows, Holds, Steps, After
  <2>4. QED
    BY <2>1, <2>3
<1>13. CASE Protect(p)
  <2>1. /\ \A q \in Procs \ {p} : pc'[q] = pc[q]
        /\ Knows("protect") /\ pc'[p] = After["protect"]
        /\ base' = [base EXCEPT !.protected = TRUE]
    BY <1>4, <1>13 DEF Protect, Steps, Knows, Exists
  <2>2. base'.status = base.status /\ base'.ready = base.ready
    BY <1>0, <2>1 DEF Bases
  <2>3. Knows(pc[p])' /\ Holds(p)'
    BY <2>1, <2>2 DEF Knows, Holds, Steps, After, Settled
  <2>4. QED
    BY <2>1, <2>3
<1>14. CASE FinishPrepare(p)
  <2>1. base' = base /\ Settled /\ (Goto(p, "shared") \/ Exit(p))
    BY <1>0, <1>14 DEF FinishPrepare, Knows
  <2>2. /\ \A q \in Procs \ {p} : pc'[q] = pc[q]
        /\ pc'[p] \in {"shared", "idle"}
    BY <1>0, <2>1, Moves
  <2>3. Knows(pc[p])' /\ Settled'
    BY <2>1, <2>2 DEF Knows, Settled
  <2>4. QED
    BY <2>2, <2>3
<1>15. QED
  BY <1>3, <1>5, <1>6, <1>7, <1>8, <1>9, <1>10, <1>11, <1>12, <1>13, <1>14
     DEF PrepareStep

\* The commands that begin, and the path of a launch.
LEMMA OtherStepsKeepChain ==
    ASSUME IInv, ChainInv, NEW p \in Procs,
           PrepareBegin(p) \/ LaunchBegin(p) \/ CloneStep(p)
    PROVE  ChainInv'
<1>0. TypeOK /\ LockExclusion /\ Knows(pc[p]) /\ pc \in [Procs -> Pcs]
  BY DEF IInv, TypeOK, ChainInv
<1>1. CASE PrepareBegin(p)
  <2>1. /\ ~Holds(p) /\ CanHold(p) /\ base' = base
        /\ \A q \in Procs \ {p} : pc'[q] = pc[q]
        /\ pc'[p] = "plan"
    BY <1>0, <1>1 DEF PrepareBegin, Holds, Steps
  <2>2. QED
    BY <2>1, TakingKeepsChain
<1>2. CASE LaunchBegin(p)
  <2>1. /\ ~Holds(p) /\ base' = base
        /\ \A q \in Procs \ {p} : pc'[q] = pc[q]
        /\ pc'[p] \in {"exclusive", "shared"}
    BY <1>0, <1>2 DEF LaunchBegin, Holds, Steps
  <2>2. QED
    BY <2>1, OthersKeepChain
<1>3. CASE AcquireExclusive(p)
  <2>1. ~Holds(p) /\ base' = base
    BY <1>3 DEF AcquireExclusive, Holds, Steps
  <2>2. CASE CanHold(p)
    BY <1>0, <1>3, <2>1, <2>2, Moves, TakingKeepsChain DEF AcquireExclusive
  <2>3. CASE ~CanHold(p)
    BY <1>0, <1>3, <2>1, <2>3, Moves, OthersKeepChain DEF AcquireExclusive
  <2>4. QED
    BY <2>2, <2>3
<1>4. CASE Recheck(p)
  <2>1. Holds(p) /\ Settled /\ base' = base /\ Settled'
    BY <1>0, <1>4 DEF Recheck, Holds, Knows, Settled
  <2>2. /\ \A q \in Procs \ {p} : pc'[q] = pc[q]
        /\ pc'[p] \in {"idle", "shared", "plan"}
    BY <1>0, <1>4, Moves DEF Recheck
  <2>3. Knows(pc[p])'
    BY <2>1, <2>2 DEF Knows
  <2>4. QED
    BY <1>0, <2>1, <2>2, <2>3, HolderKeepsChain
<1>5. CASE AcquireShared(p) \/ Clone(p)
  <2>1. ~Holds(p) /\ base' = base /\ (Exit(p) \/ Goto(p, "clone"))
    BY <1>5 DEF AcquireShared, Clone, Holds, Steps
  <2>2. QED
    BY <1>0, <2>1, Moves, OthersKeepChain
<1>6. QED
  BY <1>1, <1>2, <1>3, <1>4, <1>5 DEF CloneStep

LEMMA NoneOfBoth ==
    \A f \in 0..MaxFaults, a \in 0..MaxActs :
        f \in Nat /\ a \in Nat /\ (f + a = 0 => f = 0 /\ a = 0)
BY PreparedBaseAssumption

LEMMA CleanInvStep == IInv /\ IInv' /\ CleanInv /\ [Next]_vars => CleanInv'
<1> SUFFICES ASSUME IInv, IInv', CleanInv, [Next]_vars, (faults + acts)' = 0
             PROVE  ChainInv'
  BY DEF CleanInv
<1>0. /\ faults \in Nat /\ acts \in Nat /\ faults' = 0 /\ acts' = 0
  <2>1. faults \in 0..MaxFaults /\ acts \in 0..MaxActs
    BY DEF IInv, TypeOK
  <2>2. faults' \in 0..MaxFaults /\ acts' \in 0..MaxActs
    BY DEF IInv, TypeOK
  <2>3. faults' + acts' = 0
    OBVIOUS
  <2>4. QED
    BY <2>1, <2>2, <2>3, NoneOfBoth
<1>1. CASE UNCHANGED vars
  <2>1. UNCHANGED <<base, pc, faults, acts>>
    BY <1>1 DEF vars, locals
  <2>2. QED
    BY <1>0, <2>1 DEF CleanInv, ChainInv, Knows, Settled, Holds, Exists, Runs
<1>2. ASSUME NEW p \in Procs,
             PrepareBegin(p) \/ LaunchBegin(p) \/ CloneStep(p) \/ PrepareStep(p)
      PROVE  ChainInv'
  <2>1. UNCHANGED <<faults, acts>>
    BY <1>2 DEF PrepareBegin, LaunchBegin, CloneStep, AcquireExclusive, Recheck,
                AcquireShared, Clone, PrepareStep, Plan, Unprotect, Delete, Create,
                StopFirst, Start, Probe, WriteMetadata, Stop, Protect, FinishPrepare, Do
  <2>2. ChainInv
    BY <1>0, <2>1 DEF CleanInv
  <2>3. QED
    BY <1>2, <2>2, PrepareStepKeepsChain, OtherStepsKeepChain
<1>3. ASSUME NEW p \in Procs, Fail(p) PROVE FALSE
  BY <1>0, <1>3 DEF Fail
<1>4. CASE HostStarts \/ HostStops
  BY <1>0, <1>4 DEF HostStarts, HostStops
<1>5. QED
  BY <1>1, <1>2, <1>3, <1>4 DEF Next

LEMMA InitCleanInv == Init => CleanInv
<1> SUFFICES ASSUME Init PROVE ChainInv
  BY DEF CleanInv
<1>1. Settled
  <2>1. CASE base = NoBase
    BY <2>1 DEF Settled, NoBase
  <2>2. ASSUME NEW v \in Prints, base = OldBase(v) PROVE Settled
    <3>1. OldBase(v).status = "stopped" /\ OldBase(v).ready = TRUE
      BY DEF NoBase, NewBase, OldBase
    <3>2. QED
      BY <2>2, <3>1 DEF Settled
  <2>3. QED
    BY <2>1, <2>2 DEF Init
<1>2. QED
  BY <1>1 DEF Init, ChainInv, Knows

\* While no command failed and nobody else used the VM, whatever is cloned under
\* the shared lock is a base whose provisioning finished, for any number of
\* processes and versions, though a launch chooses to clone with no lock held.
THEOREM CloningIsSafe == Spec => []ClonesAreProvisioned
<1>1. IInv /\ CleanInv => ClonesAreProvisioned
  <2> SUFFICES ASSUME IInv, CleanInv, faults + acts = 0, NEW p \in Procs,
                      Shares(p), base.status = "stopped"
               PROVE  base.ready
    BY DEF ClonesAreProvisioned
  <2>1. \A q \in Procs : ~Holds(q)
    BY DEF IInv, LockExclusion, Shares, Holds, Steps
  <2>2. QED
    BY <2>1 DEF CleanInv, ChainInv, Settled
<1>2. QED
  BY <1>1, InitIInv, IInvStep, InitCleanInv, CleanInvStep, PTL DEF Spec
=============================================================================
