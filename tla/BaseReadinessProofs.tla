------------------------- MODULE BaseReadinessProofs -------------------------
(***************************************************************************)
(* For every set of assets and fingerprints: the read-only inspector and   *)
(* the resolver agree, a base reported ready is cloned as it is, and a     *)
(* preparation nobody disturbs ends with a base that is reported ready.    *)
(***************************************************************************)
EXTENDS BaseReadiness, TLAPS

-------------------------------------------------------------------------------
(* Helpers *)

LEMMA ScanIsCompleteTree ==
    ASSUME NEW t \in Trees
    PROVE  (ScanTree(t) = {}) <=> CompleteTree(t)
  <1>1. ASSUME ScanTree(t) = {}, NEW f \in Files
        PROVE  t.entry[f] \in {"unreadable", "plain", "executable"} /\ ModeOk(f, t.entry[f])
    <2>1. t.entry[f] \in Kinds
      BY DEF Trees
    <2>2. f \notin ScanTree(t)
      BY <1>1
    <2> QED
      BY <2>1, <2>2 DEF ScanTree, Kinds, ModeOk
  <1>2. ASSUME CompleteTree(t)
        PROVE  ScanTree(t) = {}
    BY <1>2 DEF ScanTree, CompleteTree, Kinds
  <1> QED
    BY <1>1, <1>2 DEF CompleteTree

LEMMA ExtractedIsAcceptable ==
    ASSUME NEW v \in Prints
    PROVE  Extracted(v) \in Trees /\ Acceptable(Extracted(v))
  BY DEF Extracted, AsEmbedded, Trees, Rests, Kinds, Acceptable, CompleteTree, ModeOk, MtimeGuard

LEMMA NoTreeInTrees == NoTree \in Trees
  BY DEF NoTree, Trees, Rests, Kinds

LEMMA EditedInTrees ==
    ASSUME NEW t \in Trees
    PROVE  Edited(t) \subseteq Trees
  <1>1. ASSUME NEW f \in Files, NEW k \in Kinds, NEW l \in {{}, Files}
        PROVE  Replaced(t, f, k, l) \in Trees
    BY <1>1 DEF Trees, Replaced
  <1>2. ASSUME NEW v \in Prints \cup {NoPrint}, NEW l \in {{}, Scripts}
        PROVE  Rewritten(t, v, l) \in Trees
    BY <1>2, BaseReadinessAssumption DEF Trees, Rewritten
  <1>3. ASSUME NEW v \in Prints
        PROVE  WithStray(t, v) \in Trees
    BY <1>3 DEF Trees, Rests, WithStray
  <1>4. ASSUME NEW m \in {"missing", "other"}
        PROVE  Remarked(t, m) \in Trees
    BY <1>4 DEF Trees, Remarked
  <1>5. ASSUME NEW v \in {t.print, NoPrint}
        PROVE  WithBroken(t, v) \in Trees
    BY <1>5 DEF Trees, Rests, WithBroken
  <1> QED
    BY <1>1, <1>2, <1>3, <1>4, <1>5 DEF Edited

LEMMA MetasClosed ==
    ASSUME NEW v \in Prints \cup {NoPrint},
           NEW s \in {"absent", "baked_in", "env_override", "unknown"}
    PROVE  Meta(v, s) \in Metas
  BY DEF Meta, Metas

LEMMA NoBaseInBases == NoBase \in Bases
  BY DEF NoBase, NoMeta, Bases, Metas

LEMMA OtherBasesInBases == OtherBases \subseteq Bases
  <1>1. ASSUME NEW m \in Metas, NEW d \in BOOLEAN
        PROVE  Protected(m) \in Bases /\ Deprecated(m, d) \in Bases
    BY <1>1, NoBaseInBases DEF Bases, Protected, Deprecated
  <1>2. UnreadableMeta \in Metas
    BY DEF NoMeta, Metas, UnreadableMeta
  <1>3. ASSUME NEW v \in Prints
        PROVE  /\ Meta(v, "absent") \in Metas /\ Meta(v, "unknown") \in Metas
               /\ NextSchema(v) \in Metas
    BY <1>3 DEF Meta, Metas, NextSchema
  <1>4. {Protected(Meta(v, s)) : v \in Prints, s \in {"absent", "unknown"}} \subseteq Bases
    <2>1. \A v \in Prints, s \in {"absent", "unknown"} : Protected(Meta(v, s)) \in Bases
      BY <1>1, <1>3
    <2> QED
      BY <2>1
  <1>5. {Protected(NextSchema(v)) : v \in Prints} \subseteq Bases
    BY <1>1, <1>3
  <1>6. {Deprecated(UnreadableMeta, d) : d \in BOOLEAN} \subseteq Bases
    BY <1>1, <1>2
  <1> QED
    BY <1>4, <1>5, <1>6 DEF OtherBases

LEMMA StampInMetas ==
    ASSUME TypeOK, NEW e \in Envs
    PROVE  StampOf(e) \in Metas
  BY DEF TypeOK, StampOf, Meta, Metas, Envs, Trees

-------------------------------------------------------------------------------
(* Types *)

\* Every variable keeps its type, whatever users edit and commands do.
THEOREM TypeCorrect == Spec => []TypeOK
  <1>1. Init => TypeOK
    BY NoTreeInTrees, ExtractedIsAcceptable, NoBaseInBases, OtherBasesInBases,
       BaseReadinessAssumption
    DEF Init, TypeOK, NoJob, Jobs, Envs
  <1>2. TypeOK /\ [Next]_vars => TypeOK'
    <2> SUFFICES ASSUME TypeOK, [Next]_vars
                 PROVE  TypeOK'
      OBVIOUS
    <2>1. ASSUME NEW e \in Envs
          PROVE  CacheAfter(e) \in Trees
      BY ExtractedIsAcceptable DEF CacheAfter, TypeOK
    <2>2. ASSUME NEW e \in Envs, NEW r \in BOOLEAN, Begin(e, r)
          PROVE  job' \in Jobs
      BY <2>2 DEF Begin, Jobs
    <2>3. ASSUME NEW e \in Envs, Launch(e)
          PROVE  TypeOK'
      BY <2>1, <2>2, <2>3 DEF Launch, TypeOK
    <2>4. ASSUME NEW e \in Envs, Resolve(e)
          PROVE  TypeOK'
      BY <2>1, <2>4 DEF Resolve, TypeOK
    <2>5. ASSUME NEW e \in Envs, NEW r \in BOOLEAN, Prepare(e, r)
          PROVE  TypeOK'
      BY <2>1, <2>2, <2>5 DEF Prepare, TypeOK
    <2>6. CASE Build
      BY <2>6, NoBaseInBases DEF Build, TypeOK, Bases, Jobs
    <2>7. CASE Stamp
      <3>1. StampOf(job.env) \in Metas
        BY StampInMetas DEF TypeOK, Jobs
      <3> QED
        <4>1. base' \in Bases
          BY <2>7, <3>1 DEF Stamp, TypeOK, Bases
        <4>2. job' \in Jobs
          <5>1. NoJob \in Jobs /\ [job EXCEPT !.pc = "protect"] \in Jobs
            BY DEF TypeOK, Jobs, NoJob, Envs
          <5> QED
            BY <2>7, <5>1 DEF Stamp
        <4> QED
          BY <2>7, <4>1, <4>2 DEF Stamp, TypeOK
    <2>8. CASE Protect
      BY <2>8 DEF Protect, TypeOK, Bases, Jobs, NoJob, Envs
    <2>9. CASE Fail
      BY <2>9 DEF Fail, world, TypeOK, Jobs, NoJob, Envs
    <2>10. ASSUME Touch
           PROVE  job' \in Jobs /\ prepared' \in Envs \cup {NoEnv} /\ edits' \in 0..MaxEdits
      <3>1. job' \in Jobs
        BY <2>10 DEF Touch, TypeOK, Jobs
      <3>2. edits' \in 0..MaxEdits
        BY <2>10, BaseReadinessAssumption DEF Touch, TypeOK
      <3> QED
        BY <2>10, <3>1, <3>2 DEF Touch
    <2>11. CASE EditCache
      BY <2>10, <2>11, NoTreeInTrees, EditedInTrees DEF EditCache, TypeOK
    <2>12. CASE EditOverride
      BY <2>10, <2>12, NoTreeInTrees, EditedInTrees, ExtractedIsAcceptable
      DEF EditOverride, TypeOK
    <2>13. CASE UseBase
      <3>1. ASSUME NEW s \in {"stopped", "running"}, NEW q \in BOOLEAN
            PROVE  [base EXCEPT !.status = s, !.protected = q] \in Bases
        BY DEF TypeOK, Bases
      <3>2. base' \in Bases
        BY <2>13, <3>1, NoBaseInBases DEF UseBase
      <3> QED
        BY <2>10, <2>13, <3>2 DEF UseBase, TypeOK
    <2>14. CASE Upgrade
      BY <2>10, <2>14, NoTreeInTrees DEF Upgrade, TypeOK
    <2>15. CASE UNCHANGED vars
      BY <2>15 DEF vars, world, TypeOK
    <2> QED
      BY <2>3, <2>4, <2>5, <2>6, <2>7, <2>8, <2>9, <2>11, <2>12, <2>13, <2>14, <2>15
      DEF Next
  <1> QED
    BY <1>1, <1>2, PTL DEF Spec

-------------------------------------------------------------------------------
(* The two sides agree *)

LEMMA AgreeFromTypes == TypeOK => InspectorMatchesResolver
  <1> SUFFICES ASSUME TypeOK
               PROVE  InspectorMatchesResolver
    OBVIOUS
  <1>1. (ScanTree(cache) = {}) <=> CompleteTree(cache)
    BY ScanIsCompleteTree DEF TypeOK
  <1>2. /\ InspectCache(cache) = "cache" => Acceptable(cache) \/ cache.rest = "late"
        /\ Acceptable(cache) => InspectCache(cache) = "cache" \/ cache.rest = "broken"
    BY <1>1 DEF InspectCache, Acceptable, MtimeGuard, TypeOK, Trees, Rests
  <1> QED
    BY <1>2 DEF InspectorMatchesResolver, Inspect, Extracts, Envs

LEMMA ReadyFromAgreement ==
    TypeOK /\ InspectorMatchesResolver => ReadyMeansClone
  <1> SUFFICES ASSUME TypeOK, InspectorMatchesResolver, NEW e \in Envs,
                      ShowIssue(e) = "none", e # "set" => cache.rest # "late",
                      base.status = "stopped", ~base.deprecated
               PROVE  /\ ~ResolveFails(e) /\ ~Extracts(e) /\ Strategy(e) = "clone"
                      /\ CloneNotice(e) = "none"
    BY DEF ReadyMeansClone
  <1>1. BaseIssue(base, ShowPrint(e)) = "none" /\ Inspect(e) \in {"cache", "env_override"}
    BY DEF ShowIssue
  <1>2. CASE e = "set"
    <2>1. Inspect(e) = "env_override"
      BY <1>1, <1>2 DEF Inspect
    <2>2. ~ResolveFails(e) /\ ShowPrint(e) = LaunchPrint(e)
      BY <1>2, <2>1 DEF Inspect, ResolveFails, ShowPrint, LaunchPrint
    <2> QED
      BY <1>1, <1>2, <2>2 DEF Extracts, Strategy, CloneNotice
  <1>3. CASE e # "set"
    <2>1. Inspect(e) = "cache"
      <3>1. Inspect(e) = InspectCache(cache)
        BY <1>3 DEF Inspect
      <3>2. InspectCache(cache) # "env_override"
        BY DEF InspectCache, TypeOK, Trees
      <3> QED
        BY <1>1, <3>1, <3>2
    <2>2. ~Extracts(e) /\ ShowPrint(e) = LaunchPrint(e)
      BY <1>3, <2>1 DEF InspectorMatchesResolver, ShowPrint, LaunchPrint
    <2> QED
      BY <1>1, <1>3, <2>2 DEF ResolveFails, Strategy, CloneNotice
  <1> QED
    BY <1>2, <1>3

\* The inspector reports a cache as usable exactly when the resolver accepts it,
\* but for a late path that is no asset and a tree whose walk fails, whatever the
\* assets are.
THEOREM InspectorAgrees == Spec => []InspectorMatchesResolver
  BY TypeCorrect, AgreeFromTypes, PTL

\* What base show --require-ready lets pass, a launch clones as it is.
THEOREM ReadyIsCloned == Spec => []ReadyMeansClone
  BY TypeCorrect, AgreeFromTypes, ReadyFromAgreement, PTL

-------------------------------------------------------------------------------
(* A preparation nobody disturbs *)

\* An accepted tree stays the one in use: resolving does not change it.
LEMMA CacheStays ==
    ASSUME NEW e \in Envs, ~Extracts(e), e # "set", NEW d \in Envs
    PROVE  CacheAfter(d) = cache
  BY DEF Extracts, CacheAfter

\* What a command leaves of the cache never needs extraction.
LEMMA ResolvedIsAccepted ==
    ASSUME TypeOK, NEW e \in Envs, NEW d \in Envs, cache' = CacheAfter(d),
           UNCHANGED override, e = d \/ ~Extracts(e)
    PROVE  ~Extracts(e)'
  BY ExtractedIsAcceptable DEF TypeOK, Extracts, CacheAfter, Acceptable,
     CompleteTree, MtimeGuard

\* Stamps and verdicts depend on the trees and the binary alone.
LEMMA SameTreesSameStamp ==
    ASSUME NEW e \in Envs, UNCHANGED <<binary, cache, override>>
    PROVE  /\ StampOf(e)' = StampOf(e)
           /\ Extracts(e)' = Extracts(e) /\ ResolveFails(e)' = ResolveFails(e)
  BY DEF StampOf, Meta, Extracts, Acceptable, CompleteTree, MtimeGuard,
     ResolveFails, OverrideValid, ScanTree

\* A calm job keeps the tree it resolved, and what it stamped stays until
\* somebody touches it.
LEMMA InitIInv == Init => JobInv /\ PreparedInv
  BY DEF Init, NoJob, JobInv, PreparedInv

\* What a step of another command, which only resolves, leaves alone.
LEMMA ResolvingKeeps ==
    ASSUME TypeOK, NEW d \in Envs, cache' = CacheAfter(d), UNCHANGED <<binary, override>>,
           NEW e \in Envs, ~ResolveFails(e), ~Extracts(e)
    PROVE  /\ ~ResolveFails(e)' /\ ~Extracts(e)'
           /\ StampOf(e)' = StampOf(e)
  <1>1. ~ResolveFails(e)'
    BY DEF ResolveFails, OverrideValid, ScanTree
  <1>2. CASE e = "set"
    BY <1>1, <1>2 DEF Extracts, StampOf, Meta
  <1>3. CASE e # "set"
    <2>1. cache' = cache
      BY <1>3, CacheStays
    <2> QED
      BY <2>1, SameTreesSameStamp
  <1> QED
    BY <1>2, <1>3

\* A command that begins to prepare has just resolved its own tree.
LEMMA BeginIsCalm ==
    ASSUME TypeOK, NEW e \in Envs, NEW r \in BOOLEAN, Begin(e, r), prepared' = NoEnv,
           ~ResolveFails(e), cache' = CacheAfter(e), UNCHANGED <<binary, override>>
    PROVE  JobInv' /\ PreparedInv'
  <1>1. ~ResolveFails(e)'
    BY DEF ResolveFails, OverrideValid, ScanTree
  <1>2. ~Extracts(e)'
    BY ResolvedIsAccepted
  <1> QED
    BY <1>1, <1>2 DEF Begin, JobInv, PreparedInv

LEMMA NextIInv == IInv /\ [Next]_vars => JobInv' /\ PreparedInv'
  <1> SUFFICES ASSUME IInv, [Next]_vars
               PROVE  JobInv' /\ PreparedInv'
    OBVIOUS
  <1> USE DEF IInv
  <1>1. ASSUME NEW d \in Envs, cache' = CacheAfter(d),
               UNCHANGED <<binary, override, base, job, prepared>>
        PROVE  JobInv' /\ PreparedInv'
    <2>1. JobInv'
      BY <1>1, ResolvingKeeps DEF JobInv, TypeOK, Jobs
    <2>2. PreparedInv'
      BY <1>1, ResolvingKeeps DEF PreparedInv, TypeOK
    <2> QED
      BY <2>1, <2>2
  <1>2. ASSUME NEW e \in Envs, Launch(e)
        PROVE  JobInv' /\ PreparedInv'
    <2>1. CASE Strategy(e) \in {"rebuild", "prepare"}
      BY <1>2, <2>1, BeginIsCalm DEF Launch
    <2>2. CASE Strategy(e) \notin {"rebuild", "prepare"}
      BY <1>2, <2>2, <1>1 DEF Launch
    <2> QED
      BY <2>1, <2>2
  <1>3. ASSUME NEW e \in Envs, Resolve(e)
        PROVE  JobInv' /\ PreparedInv'
    BY <1>3, <1>1 DEF Resolve
  <1>4. ASSUME NEW e \in Envs, NEW r \in BOOLEAN, Prepare(e, r)
        PROVE  JobInv' /\ PreparedInv'
    BY <1>4, BeginIsCalm DEF Prepare
  <1>5. CASE Build
    <2>1. JobInv'
      BY <1>5, SameTreesSameStamp DEF Build, JobInv, TypeOK, Jobs, Bases, NoBase
    <2>2. PreparedInv'
      BY <1>5 DEF Build, JobInv, PreparedInv
    <2> QED
      BY <2>1, <2>2
  <1>6. CASE Stamp
    <2>1. JobInv'
      BY <1>6, SameTreesSameStamp DEF Stamp, JobInv, TypeOK, Jobs, Bases, NoJob
    <2>2. PreparedInv'
      BY <1>6 DEF Stamp, JobInv, PreparedInv
    <2> QED
      BY <2>1, <2>2
  <1>7. CASE Protect
    <2>1. job.env \in Envs /\ job.env # NoEnv
      BY DEF TypeOK, Jobs, Envs, NoEnv
    <2>2. JobInv'
      BY <1>7 DEF Protect, JobInv, NoJob
    <2>3. CASE job.calm
      <3>1. /\ prepared' = job.env /\ base.meta = StampOf(job.env)
            /\ ~ResolveFails(job.env) /\ ~Extracts(job.env)
        BY <1>7, <2>3 DEF Protect, JobInv
      <3>2. base'.status = "stopped" /\ base'.protected /\ base'.meta = base.meta
        BY <1>7 DEF Protect, TypeOK, Bases
      <3>3. /\ StampOf(prepared)' = StampOf(job.env)
            /\ ~ResolveFails(prepared)' /\ ~Extracts(prepared)'
        BY <1>7, <2>1, <3>1, SameTreesSameStamp
        DEF Protect, StampOf, Meta, Extracts, Acceptable, CompleteTree, MtimeGuard,
            ResolveFails, OverrideValid, ScanTree
      <3> QED
        BY <2>2, <3>1, <3>2, <3>3 DEF PreparedInv
    <2>4. CASE ~job.calm
      <3>1. prepared' = NoEnv
        BY <1>7, <2>4 DEF Protect
      <3> QED
        BY <2>2, <3>1 DEF PreparedInv
    <2> QED
      BY <2>2, <2>3, <2>4
  <1>8. CASE Fail
    <2>1. JobInv'
      BY <1>8 DEF Fail, JobInv, NoJob
    <2>2. PreparedInv'
      BY <1>8, SameTreesSameStamp DEF Fail, world, PreparedInv, TypeOK
    <2> QED
      BY <2>1, <2>2
  <1>9. ASSUME Touch
        PROVE  JobInv' /\ PreparedInv'
    BY <1>9 DEF Touch, JobInv, PreparedInv, TypeOK, Jobs
  <1>10. CASE UNCHANGED vars
    BY <1>10, <1>1 DEF vars, world, JobInv, PreparedInv, StampOf, Meta, Extracts,
       Acceptable, CompleteTree, MtimeGuard, ResolveFails, OverrideValid, ScanTree
  <1> QED
    BY <1>2, <1>3, <1>4, <1>5, <1>6, <1>7, <1>8, <1>9, <1>10
    DEF Next, EditCache, EditOverride, UseBase, Upgrade

\* What a preparation relies on holds in every reachable state.
THEOREM Inductive == Spec => []IInv
  <1>1. Init /\ TypeOK => IInv
    BY InitIInv DEF IInv
  <1>2. IInv /\ TypeOK' /\ [Next]_vars => IInv'
    BY NextIInv DEF IInv
  <1> QED
    BY <1>1, <1>2, TypeCorrect, PTL DEF Spec

\* A base that was just prepared is ready for those who prepared it.
THEOREM PreparedIsReady == Spec => []PrepareMakesReady
  <1>1. IInv /\ InspectorMatchesResolver => PrepareMakesReady
    <2> SUFFICES ASSUME IInv, InspectorMatchesResolver, NEW e \in Envs, prepared = e,
                        e = "empty" => cache.print = binary
                 PROVE  /\ BaseIssue(base, LaunchPrint(e)) = "none"
                        /\ ShowIssue(e) = "none" \/ cache.rest # "plain"
      BY DEF PrepareMakesReady
    <2>1. /\ base.status = "stopped" /\ base.protected /\ base.meta = StampOf(e)
          /\ ~ResolveFails(e) /\ ~Extracts(e)
      BY DEF IInv, PreparedInv, Envs, NoEnv
    <2>2. base.meta.print = LaunchPrint(e) /\ ValidMeta(base.meta)
      BY <2>1 DEF StampOf, Meta, LaunchPrint, ValidMeta, Envs
    <2>3. BaseIssue(base, LaunchPrint(e)) = "none"
      BY <2>1, <2>2 DEF BaseIssue
    <2>4. CASE e = "set"
      BY <2>1, <2>3, <2>4 DEF ShowIssue, ShowPrint, LaunchPrint, Inspect, ResolveFails
    <2>5. CASE e # "set" /\ cache.rest = "plain"
      BY <2>1, <2>3, <2>5 DEF ShowIssue, ShowPrint, LaunchPrint, InspectorMatchesResolver
    <2> QED
      BY <2>3, <2>4, <2>5, <2>1
      DEF ShowIssue, ShowPrint, Inspect
  <1> QED
    BY <1>1, Inductive, InspectorAgrees, PTL

=============================================================================
