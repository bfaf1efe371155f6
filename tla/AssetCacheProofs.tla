-------------------------- MODULE AssetCacheProofs --------------------------
(***************************************************************************)
(* What assets.lock and the order of an extraction guarantee, for any      *)
(* number of processes, files, directories, edits and failures.            *)
(***************************************************************************)
EXTENDS AssetCache, FiniteSetTheorems, TLAPS

\* The trees a step leaves are trees.
LEMMA TreesClosed ==
    /\ NoTree \in Trees /\ Empty \in Trees
    /\ NoTree.there = FALSE /\ NoTree.files = {} /\ NoTree.marker = FALSE
    /\ Empty.there = TRUE /\ Empty.marker = FALSE
    /\ \A t \in Trees :
           /\ t.there \in BOOLEAN /\ t.marker \in BOOLEAN /\ t.files \subseteq Files
           /\ [t EXCEPT !.marker = FALSE] \in Trees
           /\ [t EXCEPT !.marker = FALSE].there = t.there
           /\ [t EXCEPT !.marker = FALSE].files = t.files
           /\ [t EXCEPT !.marker = FALSE].marker = FALSE
           /\ [t EXCEPT !.marker = TRUE] \in Trees
           /\ [t EXCEPT !.marker = TRUE].there = t.there
           /\ [t EXCEPT !.marker = TRUE].files = t.files
           /\ [t EXCEPT !.marker = TRUE].marker = TRUE
           /\ \A s \in SUBSET Files : /\ [t EXCEPT !.files = s] \in Trees
                                      /\ [t EXCEPT !.files = s].there = t.there
<1>1. NoTree \in Trees /\ NoTree.there = FALSE /\ NoTree.files = {} /\ NoTree.marker = FALSE
  BY DEF NoTree, Trees
<1>2. Empty \in Trees /\ Empty.there = TRUE /\ Empty.marker = FALSE
  BY DEF Empty, NoTree, Trees
<1>3. ASSUME NEW t \in Trees
      PROVE  /\ t.there \in BOOLEAN /\ t.marker \in BOOLEAN /\ t.files \subseteq Files
             /\ [t EXCEPT !.marker = FALSE] \in Trees
             /\ [t EXCEPT !.marker = FALSE].there = t.there
             /\ [t EXCEPT !.marker = FALSE].files = t.files
             /\ [t EXCEPT !.marker = FALSE].marker = FALSE
  BY DEF Trees
<1>4. ASSUME NEW t \in Trees
      PROVE  /\ [t EXCEPT !.marker = TRUE] \in Trees
             /\ [t EXCEPT !.marker = TRUE].there = t.there
             /\ [t EXCEPT !.marker = TRUE].files = t.files
             /\ [t EXCEPT !.marker = TRUE].marker = TRUE
  BY DEF Trees
<1>5. ASSUME NEW t \in Trees, NEW s \in SUBSET Files
      PROVE  [t EXCEPT !.files = s] \in Trees /\ [t EXCEPT !.files = s].there = t.there
  BY DEF Trees
<1>6. QED
  BY <1>1, <1>2, <1>3, <1>4, <1>5

LEMMA InitIInv == Init => IInv
<1> SUFFICES ASSUME Init PROVE IInv
  OBVIOUS
<1>1. TypeOK
  <2>1. cache \in Trees /\ dirs \in [Scratch -> Trees]
    BY TreesClosed DEF Init
  <2>2. /\ old \in BOOLEAN /\ lock \in Procs \cup {Gc, Free}
        /\ pc \in [Procs -> Pcs] /\ mine \in [Procs -> Names] /\ aside \in [Procs -> Names]
    BY DEF Init, Pcs, Names
  <2>3. /\ gcRuns \in BOOLEAN /\ gcpc \in {"idle", "take", "remove"}
        /\ listed \subseteq Scratch \cup {Canonical} /\ target \in Names \cup {Canonical}
    BY DEF Init, Names
  <2>4. faults \in 0..MaxFaults /\ edits \in 0..MaxEdits
    BY AssetCacheAssumption DEF Init
  <2>5. QED
    BY <2>1, <2>2, <2>3, <2>4 DEF TypeOK
<1>2. LockInv
  BY AssetCacheAssumption DEF Init, LockInv, Extracting
<1>3. ScratchInv
  BY AssetCacheAssumption DEF Init, ScratchInv, Extracting
<1>4. ServedInv
  BY TreesClosed DEF Init, ServedInv, Extracting, Complete
<1>5. QED
  BY <1>1, <1>2, <1>3, <1>4 DEF IInv

\* Only one process is past assets.lock, and then gc is not removing.
LEMMA OneExtracts ==
    ASSUME LockInv, TypeOK, NEW p \in Procs, lock = p
    PROVE  /\ gcpc # "remove" /\ target = NoName
           /\ \A q \in Procs \ {p} :
                  pc[q] \notin Extracting \cup {"scratch", "discard"}
  BY AssetCacheAssumption DEF LockInv

-------------------------------------------------------------------------------
\* The steps of a resolver that change neither trees nor scratch names.
LEMMA CheckStepKeeps ==
    ASSUME IInv, NEW p \in Procs,
           Resolve(p) \/ ReadMarker(p) \/ CheckTree(p) \/ TakeLock(p) \/ Done(p)
    PROVE  IInv'
<1> USE AssetCacheAssumption
<1>1. CASE Resolve(p)
  <2>1. TypeOK'
    BY <1>1 DEF IInv, TypeOK, Pcs, Names,
       Resolve, Goto, others, gcLocals, unchangedFiles
  <2>2. LockInv'
    BY <1>1 DEF IInv, TypeOK, LockInv, Extracting,
       Resolve, Goto, others, gcLocals, unchangedFiles
  <2>3. ScratchInv'
    BY <1>1 DEF IInv, TypeOK, LockInv, ScratchInv, Extracting, Names, Complete,
       Resolve, Goto, others, gcLocals, unchangedFiles
  <2>4. ~gcRuns' /\ edits' = 0 => ServedInv'
    BY <1>1 DEF IInv, TypeOK, LockInv, ScratchInv, ServedInv, Extracting, Complete,
       Resolve, Goto, others, gcLocals, unchangedFiles
  <2>5. QED
    BY <2>1, <2>2, <2>3, <2>4 DEF IInv
<1>2. CASE ReadMarker(p)
  <2>1. TypeOK'
    BY <1>2 DEF IInv, TypeOK, Pcs, Names,
       ReadMarker, Reject, Goto, others, gcLocals, unchangedFiles
  <2>2. LockInv'
    BY <1>2 DEF IInv, TypeOK, LockInv, Extracting,
       ReadMarker, Reject, Goto, others, gcLocals, unchangedFiles
  <2>3. ScratchInv'
    BY <1>2 DEF IInv, TypeOK, LockInv, ScratchInv, Extracting, Names, Complete,
       ReadMarker, Reject, Goto, others, gcLocals, unchangedFiles
  <2>4. ~gcRuns' /\ edits' = 0 => ServedInv'
    BY <1>2 DEF IInv, TypeOK, LockInv, ScratchInv, ServedInv, Extracting, Complete,
       ReadMarker, Reject, Goto, others, gcLocals, unchangedFiles
  <2>5. QED
    BY <2>1, <2>2, <2>3, <2>4 DEF IInv
<1>3. CASE CheckTree(p)
  <2>1. TypeOK'
    BY <1>3 DEF IInv, TypeOK, Pcs, Names,
       CheckTree, Reject, Leave, Release, Goto, others, gcLocals, unchangedFiles
  <2>2. LockInv'
    BY <1>3 DEF IInv, TypeOK, LockInv, Extracting,
       CheckTree, Reject, Leave, Release, Goto, others, gcLocals, unchangedFiles
  <2>3. ScratchInv'
    BY <1>3 DEF IInv, TypeOK, LockInv, ScratchInv, Extracting, Names, Complete,
       CheckTree, Reject, Leave, Release, Goto, others, gcLocals, unchangedFiles
  <2>4. ~gcRuns' /\ edits' = 0 => ServedInv'
    BY <1>3 DEF IInv, TypeOK, LockInv, ScratchInv, ServedInv, Extracting, Complete,
       CheckTree, Reject, Leave, Release, Goto, others, gcLocals, unchangedFiles
  <2>5. QED
    BY <2>1, <2>2, <2>3, <2>4 DEF IInv
<1>4. CASE TakeLock(p)
  <2>1. TypeOK'
    BY <1>4 DEF IInv, TypeOK, Pcs, Names,
       TakeLock, Leave, Release, Goto, others, gcLocals, unchangedFiles
  <2>2. LockInv'
    BY <1>4 DEF IInv, TypeOK, LockInv, Extracting,
       TakeLock, Leave, Release, Goto, others, gcLocals, unchangedFiles
  <2>3. ScratchInv'
    BY <1>4 DEF IInv, TypeOK, LockInv, ScratchInv, Extracting, Names, Complete,
       TakeLock, Leave, Release, Goto, others, gcLocals, unchangedFiles
  <2>4. ~gcRuns' /\ edits' = 0 => ServedInv'
    BY <1>4 DEF IInv, TypeOK, LockInv, ScratchInv, ServedInv, Extracting, Complete,
       TakeLock, Leave, Release, Goto, others, gcLocals, unchangedFiles
  <2>5. QED
    BY <2>1, <2>2, <2>3, <2>4 DEF IInv
<1>5. CASE Done(p)
  <2>1. TypeOK'
    BY <1>5 DEF IInv, TypeOK, Pcs, Names,
       Done, Leave, Release, Goto, others, gcLocals, unchangedFiles
  <2>2. LockInv'
    BY <1>5 DEF IInv, TypeOK, LockInv, Extracting,
       Done, Leave, Release, Goto, others, gcLocals, unchangedFiles
  <2>3. ScratchInv'
    BY <1>5 DEF IInv, TypeOK, LockInv, ScratchInv, Extracting, Names, Complete,
       Done, Leave, Release, Goto, others, gcLocals, unchangedFiles
  <2>4. ~gcRuns' /\ edits' = 0 => ServedInv'
    BY <1>5 DEF IInv, TypeOK, LockInv, ScratchInv, ServedInv, Extracting, Complete,
       Done, Leave, Release, Goto, others, gcLocals, unchangedFiles
  <2>5. QED
    BY <2>1, <2>2, <2>3, <2>4 DEF IInv
<1>6. QED
  BY <1>1, <1>2, <1>3, <1>4, <1>5

\* The steps of an extraction, which hold assets.lock, and its end.
LEMMA ExtractStepKeeps ==
    ASSUME IInv, NEW p \in Procs,
           \/ MakeScratch(p) \/ WriteFile(p) \/ WriteMarker(p) \/ Commit(p)
           \/ PutAside(p) \/ Swap(p) \/ Discard(p) \/ Fail(p)
    PROVE  IInv'
<1> USE AssetCacheAssumption, TreesClosed
<1>1. CASE MakeScratch(p)
  <2>1. TypeOK'
    BY <1>1 DEF IInv, TypeOK, Pcs, Names,
       MakeScratch, Goto, others, gcLocals
  <2>2. LockInv'
    BY <1>1 DEF IInv, TypeOK, LockInv, Extracting,
       MakeScratch, Goto, others, gcLocals
  <2>3. ScratchInv'
    BY <1>1 DEF IInv, TypeOK, LockInv, ScratchInv, Extracting, Names, Complete,
       MakeScratch, Goto, others, gcLocals
  <2>4. ~gcRuns' /\ edits' = 0 => ServedInv'
    BY <1>1 DEF IInv, TypeOK, LockInv, ScratchInv, ServedInv, Extracting, Complete,
       MakeScratch, Goto, others, gcLocals
  <2>5. QED
    BY <2>1, <2>2, <2>3, <2>4 DEF IInv
<1>2. CASE WriteFile(p)
  <2>1. TypeOK'
    <3>1. mine[p] \in Scratch
      BY <1>2 DEF IInv, TypeOK, ScratchInv, WriteFile, Extracting, Names
    <3>2. dirs[mine[p]] \in Trees
      BY <3>1 DEF IInv, TypeOK
    <3>3. PICK f \in Files :
              dirs' = [dirs EXCEPT ![mine[p]].files = dirs[mine[p]].files \cup {f}]
      BY <1>2, <3>1, <3>2 DEF WriteFile, IInv, TypeOK, Trees
    <3>4. [dirs[mine[p]] EXCEPT !.files = dirs[mine[p]].files \cup {f}] \in Trees
      <4>1. dirs[mine[p]].files \cup {f} \in SUBSET Files
        BY <3>2
      <4>2. QED
        BY <3>2, <4>1
    <3>5. dirs' \in [Scratch -> Trees]
      BY <3>1, <3>3, <3>4 DEF IInv, TypeOK
    <3>6. QED
      BY <1>2, <3>5 DEF IInv, TypeOK, WriteFile, locals, others, gcLocals
  <2>2. LockInv'
    BY <1>2 DEF IInv, TypeOK, LockInv, Extracting,
       WriteFile, locals, others, gcLocals
  <2>3. ScratchInv'
    BY <1>2 DEF IInv, TypeOK, LockInv, ScratchInv, Extracting, Names, Complete,
       WriteFile, locals, others, gcLocals
  <2>4. ~gcRuns' /\ edits' = 0 => ServedInv'
    BY <1>2 DEF IInv, TypeOK, LockInv, ScratchInv, ServedInv, Extracting, Complete,
       WriteFile, locals, others, gcLocals
  <2>5. QED
    BY <2>1, <2>2, <2>3, <2>4 DEF IInv
<1>3. CASE WriteMarker(p)
  <2>1. TypeOK'
    BY <1>3 DEF IInv, TypeOK, Pcs, Names,
       WriteMarker, Goto, others, gcLocals
  <2>2. LockInv'
    BY <1>3 DEF IInv, TypeOK, LockInv, Extracting,
       WriteMarker, Goto, others, gcLocals
  <2>3. ScratchInv'
    BY <1>3 DEF IInv, TypeOK, LockInv, ScratchInv, Extracting, Names, Complete,
       WriteMarker, Goto, others, gcLocals
  <2>4. ~gcRuns' /\ edits' = 0 => ServedInv'
    BY <1>3 DEF IInv, TypeOK, LockInv, ScratchInv, ServedInv, Extracting, Complete,
       WriteMarker, Goto, others, gcLocals
  <2>5. QED
    BY <2>1, <2>2, <2>3, <2>4 DEF IInv
<1>4. CASE Commit(p)
  <2>1. TypeOK'
    <3>1. mine[p] \in Scratch
      BY <1>4 DEF IInv, TypeOK, ScratchInv, Commit, Extracting, Names
    <3>2. CASE ~cache.there
      <4>1. MoveIntoPlace(p)
        BY <1>4, <3>2 DEF Commit
      <4>2. cache' \in Trees /\ dirs' \in [Scratch -> Trees] /\ old' \in BOOLEAN
        BY <3>1, <4>1 DEF IInv, TypeOK, MoveIntoPlace
      <4>3. QED
        BY <1>4, <3>2, <4>2 DEF IInv, TypeOK, Pcs, Names, Commit, Leave,
                                Release, Goto, others, gcLocals
    <3>3. CASE cache.there
      <4>1. cache' = [cache EXCEPT !.marker = FALSE] /\ UNCHANGED <<dirs, old>>
        BY <1>4, <3>3 DEF Commit
      <4>2. cache' \in Trees /\ dirs' \in [Scratch -> Trees] /\ old' \in BOOLEAN
        BY <4>1 DEF IInv, TypeOK
      <4>3. QED
        BY <1>4, <3>3, <4>2 DEF IInv, TypeOK, Pcs, Names, Commit, Goto, others, gcLocals
    <3>4. QED
      BY <3>2, <3>3
  <2>2. LockInv'
    BY <1>4 DEF IInv, TypeOK, LockInv, Extracting,
       Commit, MoveIntoPlace, Leave, Release, Goto, others, gcLocals
  <2>3. ScratchInv'
    BY <1>4 DEF IInv, TypeOK, LockInv, ScratchInv, Extracting, Names, Complete,
       Commit, MoveIntoPlace, Leave, Release, Goto, others, gcLocals
  <2>4. ~gcRuns' /\ edits' = 0 => ServedInv'
    <3> SUFFICES ASSUME ServedInv PROVE ServedInv'
      BY <1>4 DEF IInv, Commit, others, gcLocals
    <3>1. /\ \A q \in Procs \ {p} : pc[q] \notin Extracting \cup {"scratch", "discard"}
          /\ \A q \in Procs : pc[q] \notin {"tree", "use", "discard"}
          /\ Complete(dirs[mine[p]])
      BY <1>4 DEF IInv, LockInv, ScratchInv, ServedInv, Commit, Extracting
    <3>2. gcpc' = "idle"
      BY <1>4 DEF ServedInv, Commit, others, gcLocals
    <3>3. CASE ~cache.there
      <4>1. cache' = dirs[mine[p]] /\ pc' = [pc EXCEPT ![p] = "use"]
        BY <1>4, <3>3 DEF Commit, MoveIntoPlace, Leave, Goto
      <4>2. QED
        BY <3>1, <3>2, <4>1 DEF IInv, TypeOK, ServedInv, Complete, Extracting
    <3>4. CASE cache.there
      <4>1. cache' = [cache EXCEPT !.marker = FALSE] /\ pc' = [pc EXCEPT ![p] = "aside"]
        BY <1>4, <3>4 DEF Commit, Goto
      <4>2. cache'.marker = FALSE
        BY <4>1 DEF IInv, TypeOK
      <4>3. QED
        BY <3>1, <3>2, <4>1, <4>2 DEF IInv, TypeOK, ServedInv, Complete, Extracting
    <3>5. QED
      BY <3>3, <3>4
  <2>5. QED
    BY <2>1, <2>2, <2>3, <2>4 DEF IInv
<1>5. CASE PutAside(p)
  <2>1. TypeOK'
    BY <1>5 DEF IInv, TypeOK, Pcs, Names,
       PutAside, Goto, others, gcLocals
  <2>2. LockInv'
    BY <1>5 DEF IInv, TypeOK, LockInv, Extracting,
       PutAside, Goto, others, gcLocals
  <2>3. ScratchInv'
    BY <1>5 DEF IInv, TypeOK, LockInv, ScratchInv, Extracting, Names, Complete,
       PutAside, Goto, others, gcLocals
  <2>4. ~gcRuns' /\ edits' = 0 => ServedInv'
    BY <1>5 DEF IInv, TypeOK, LockInv, ScratchInv, ServedInv, Extracting, Complete,
       PutAside, Goto, others, gcLocals
  <2>5. QED
    BY <2>1, <2>2, <2>3, <2>4 DEF IInv
<1>6. CASE Swap(p)
  <2>1. TypeOK'
    <3>1. mine[p] \in Scratch
      BY <1>6 DEF IInv, TypeOK, ScratchInv, Swap, Extracting, Names
    <3>2. cache' \in Trees /\ dirs' \in [Scratch -> Trees]
      BY <1>6, <3>1 DEF IInv, TypeOK, Swap, MoveIntoPlace
    <3>3. QED
      BY <1>6, <3>2 DEF IInv, TypeOK, Pcs, Names, Swap, MoveIntoPlace, Goto,
                        others, gcLocals
  <2>2. LockInv'
    BY <1>6 DEF IInv, TypeOK, LockInv, Extracting,
       Swap, MoveIntoPlace, Goto, others, gcLocals
  <2>3. ScratchInv'
    BY <1>6 DEF IInv, TypeOK, LockInv, ScratchInv, Extracting, Names, Complete,
       Swap, MoveIntoPlace, Goto, others, gcLocals
  <2>4. ~gcRuns' /\ edits' = 0 => ServedInv'
    BY <1>6 DEF IInv, TypeOK, LockInv, ScratchInv, ServedInv, Extracting, Complete,
       Swap, MoveIntoPlace, Goto, others, gcLocals
  <2>5. QED
    BY <2>1, <2>2, <2>3, <2>4 DEF IInv
<1>7. CASE Discard(p)
  <2>1. TypeOK'
    BY <1>7 DEF IInv, TypeOK, Pcs, Names,
       Discard, Leave, Release, Goto, gcLocals
  <2>2. LockInv'
    BY <1>7 DEF IInv, TypeOK, LockInv, Extracting,
       Discard, Leave, Release, Goto, gcLocals
  <2>3. ScratchInv'
    BY <1>7 DEF IInv, TypeOK, LockInv, ScratchInv, Extracting, Names, Complete,
       Discard, Leave, Release, Goto, gcLocals
  <2>4. ~gcRuns' /\ edits' = 0 => ServedInv'
    BY <1>7 DEF IInv, TypeOK, LockInv, ScratchInv, ServedInv, Extracting, Complete,
       Discard, Leave, Release, Goto, gcLocals
  <2>5. QED
    BY <2>1, <2>2, <2>3, <2>4 DEF IInv
<1>8. CASE Fail(p)
  <2>1. TypeOK'
    BY <1>8 DEF IInv, TypeOK, Pcs, Names,
       Fail, Leave, Release, Goto, gcLocals, unchangedFiles
  <2>2. LockInv'
    BY <1>8 DEF IInv, TypeOK, LockInv, Extracting,
       Fail, Leave, Release, Goto, gcLocals, unchangedFiles
  <2>3. ScratchInv'
    BY <1>8 DEF IInv, TypeOK, LockInv, ScratchInv, Extracting, Names, Complete,
       Fail, Leave, Release, Goto, gcLocals, unchangedFiles
  <2>4. ~gcRuns' /\ edits' = 0 => ServedInv'
    BY <1>8 DEF IInv, TypeOK, LockInv, ScratchInv, ServedInv, Extracting, Complete,
       Fail, Leave, Release, Goto, gcLocals, unchangedFiles
  <2>5. QED
    BY <2>1, <2>2, <2>3, <2>4 DEF IInv
<1>9. QED
  BY <1>1, <1>2, <1>3, <1>4, <1>5, <1>6, <1>7, <1>8

-------------------------------------------------------------------------------
\* gc removes with the lock held, so what it takes apart is nobody's scratch.
LEMMA GcStepKeeps ==
    ASSUME IInv, GcStep \/ GcDies
    PROVE  IInv'
<1> USE AssetCacheAssumption
<1> USE DEF resolvers, locals
<1>1. CASE GcList
  BY <1>1 DEF GcList, Reclaimable, IInv, TypeOK, LockInv, ScratchInv, ServedInv
<1>2. CASE GcTake
  <2>1. TypeOK'
    BY <1>2 DEF GcTake, IInv, TypeOK, Names
  <2>2. LockInv'
    BY <1>2 DEF GcTake, IInv, TypeOK, LockInv, Extracting, Names
  <2>3. ScratchInv' /\ (~gcRuns' /\ edits' = 0 => ServedInv')
    BY <1>2 DEF GcTake, IInv, ScratchInv, ServedInv
  <2>4. QED
    BY <2>1, <2>2, <2>3 DEF IInv
<1>3. CASE GcRemove
  <2>1. \A p \in Procs : mine[p] = NoName /\ pc[p] \notin Extracting \cup {"discard"}
    BY <1>3 DEF GcRemove, IInv, LockInv, ScratchInv, Extracting
  <2>2. cache' \in Trees /\ dirs' \in [Scratch -> Trees]
    BY <1>3, TreesClosed DEF GcRemove, IInv, TypeOK, OneLess
  <2>3. TypeOK' /\ LockInv'
    BY <1>3, <2>2 DEF GcRemove, IInv, TypeOK, LockInv, gcLocals
  <2>4. ScratchInv'
    BY <1>3, <2>1 DEF GcRemove, IInv, ScratchInv, Extracting
  <2>5. ~gcRuns' /\ edits' = 0 => ServedInv'
    BY <1>3 DEF GcRemove, IInv, ServedInv
  <2>6. QED
    BY <2>3, <2>4, <2>5 DEF IInv
<1>4. CASE GcRemoved \/ GcDies
  <2>1. TypeOK'
    BY <1>4 DEF GcRemoved, GcDies, Release, IInv, TypeOK, Names
  <2>2. LockInv'
    <3>1. gcpc' # "remove" /\ target' = NoName /\ pc' = pc
      BY <1>4 DEF GcRemoved, GcDies
    <3>2. lock' # Gc /\ \A p \in Procs : lock' = p <=> lock = p
      BY <1>4 DEF GcRemoved, GcDies, Release
    <3>3. QED
      BY <3>1, <3>2 DEF IInv, LockInv
  <2>3. ScratchInv' /\ (~gcRuns' /\ edits' = 0 => ServedInv')
    BY <1>4 DEF GcRemoved, GcDies, IInv, ScratchInv, ServedInv
  <2>4. QED
    BY <2>1, <2>2, <2>3 DEF IInv
<1>5. CASE GcEnd
  BY <1>5 DEF GcEnd, IInv, TypeOK, LockInv, ScratchInv, ServedInv
<1>6. QED
  BY <1>1, <1>2, <1>3, <1>4, <1>5 DEF GcStep

LEMMA OutsideKeeps ==
    ASSUME IInv, Edit \/ Age
    PROVE  IInv'
<1> USE AssetCacheAssumption
<1> USE DEF locals, gcLocals
<1>1. CASE Edit
  <2>1. PICK f \in cache.files : cache' = [cache EXCEPT !.files = cache.files \ {f}]
    BY <1>1 DEF Edit, IInv, TypeOK, Trees
  <2>2. cache.files \ {f} \in SUBSET Files
    BY TreesClosed DEF IInv, TypeOK
  <2>3. cache' \in Trees /\ cache'.there = cache.there
    BY <2>1, <2>2 DEF IInv, TypeOK, Trees
  <2>4. TypeOK' /\ LockInv'
    BY <1>1, <2>3 DEF Edit, IInv, TypeOK, LockInv
  <2>5. ScratchInv'
    BY <1>1, <2>3 DEF Edit, IInv, ScratchInv
  <2>6. edits' # 0
    BY <1>1 DEF Edit, IInv, TypeOK
  <2>7. QED
    BY <2>4, <2>5, <2>6 DEF IInv
<1>2. CASE Age
  BY <1>2 DEF Age, IInv, TypeOK, LockInv, ScratchInv, ServedInv
<1>3. QED
  BY <1>1, <1>2

LEMMA IInvStep == IInv /\ [Next]_vars => IInv'
<1> SUFFICES ASSUME IInv, [Next]_vars PROVE IInv'
  OBVIOUS
<1>1. CASE UNCHANGED vars
  BY <1>1 DEF vars, locals, gcLocals, IInv, TypeOK, LockInv, ScratchInv, ServedInv
<1>2. ASSUME NEW p \in Procs, Resolve(p) \/ ResolveStep(p) \/ Fail(p)
      PROVE  IInv'
  BY <1>2, CheckStepKeeps, ExtractStepKeeps DEF ResolveStep
<1>3. CASE GcStep \/ GcDies
  BY <1>3, GcStepKeeps
<1>4. CASE Edit \/ Age
  BY <1>4, OutsideKeeps
<1>5. QED
  BY <1>1, <1>2, <1>3, <1>4 DEF Next

\* The lock, the scratch directories and the order of an extraction hold
\* together under crashes, gc and edits, for any number of processes.
THEOREM CacheInvariance == Spec => []IInv
<1>1. QED
  BY InitIInv, IInvStep, PTL DEF Spec

\* Readers take no lock and still keep a complete tree, on a host where gc is not
\* run and nobody has edited the cache.
THEOREM ReadersKeepTheTree == Spec => []UsersTreeComplete
<1>1. IInv => UsersTreeComplete
  BY DEF IInv, ServedInv, UsersTreeComplete
<1>2. QED
  BY <1>1, CacheInvariance, PTL

\* Nothing but a complete tree is moved into place, also with gc and edits.
THEOREM CommitsAreComplete == Spec => OnlyCompleteCommits
<1>1. IInv /\ [Next]_vars => [~cache.there /\ cache'.there => Complete(cache')]_vars
  <2> SUFFICES ASSUME IInv, Next, ~cache.there, cache'.there
               PROVE  Complete(cache')
    BY DEF vars
  <2>1. cache # cache'
    OBVIOUS
  <2>2. ASSUME NEW p \in Procs, ResolveStep(p) PROVE Complete(cache')
    <3>1. CASE Commit(p) \/ Swap(p)
      <4>1. cache' = dirs[mine[p]] /\ Complete(dirs[mine[p]])
        BY <3>1 DEF Commit, Swap, MoveIntoPlace, IInv, ScratchInv
      <4>2. QED
        BY <4>1
    <3>2. CASE PutAside(p)
      BY <3>2, TreesClosed DEF PutAside
    <3>3. QED
      BY <2>1, <2>2, <3>1, <3>2 DEF ResolveStep, ReadMarker, CheckTree, TakeLock, MakeScratch,
         WriteFile, WriteMarker, Discard, Done, unchangedFiles
  <2>3. ASSUME NEW p \in Procs, Resolve(p) \/ Fail(p) PROVE FALSE
    BY <2>1, <2>3 DEF Resolve, Fail, unchangedFiles
  <2>4. CASE GcStep
    <3>1. GcRemove
      BY <2>1, <2>4 DEF GcStep, GcList, GcTake, GcRemoved, GcEnd
    <3>2. cache' \in OneLess(cache)
      BY <2>1, <3>1 DEF GcRemove
    <3>3. cache'.there => cache.there
      <4>1. \/ \E f \in cache.files : cache' = [cache EXCEPT !.files = cache.files \ {f}]
            \/ cache' = [cache EXCEPT !.marker = FALSE]
            \/ cache' = NoTree
        BY <3>2 DEF OneLess
      <4>2. CASE \E f \in cache.files : cache' = [cache EXCEPT !.files = cache.files \ {f}]
        BY <4>2 DEF IInv, TypeOK, Trees
      <4>3. CASE cache' = [cache EXCEPT !.marker = FALSE]
        BY <4>3 DEF IInv, TypeOK, Trees
      <4>4. CASE cache' = NoTree
        BY <4>4, TreesClosed
      <4>5. QED
        BY <4>1, <4>2, <4>3, <4>4
    <3>4. QED
      BY <3>3
  <2>5. CASE GcDies \/ Age
    BY <2>1, <2>5 DEF GcDies, Age
  <2>6. CASE Edit
    <3>1. PICK f \in cache.files : cache' = [cache EXCEPT !.files = cache.files \ {f}]
      BY <2>6 DEF Edit, IInv, TypeOK, Trees
    <3>2. cache.files \ {f} \in SUBSET Files
      BY TreesClosed DEF IInv, TypeOK
    <3>3. cache'.there = cache.there
      BY <3>1, <3>2 DEF IInv, TypeOK, Trees
    <3>4. QED
      BY <3>3
  <2>7. QED
    BY <2>2, <2>3, <2>4, <2>5, <2>6 DEF Next
<1>2. QED
  BY <1>1, CacheInvariance, PTL DEF Spec, OnlyCompleteCommits

-------------------------------------------------------------------------------
(* How much litter failures leave. *)

\* A call that fails or dies strands at most the two directories it had.
LEMMA FailLitters ==
    ASSUME IInv, NEW p \in Procs, Fail(p)
    PROVE  Litter' \subseteq Litter \cup {mine[p], aside[p]}
<1>1. /\ dirs' = dirs
      /\ \A q \in Procs \ {p} : mine'[q] = mine[q] /\ aside'[q] = aside[q]
  BY DEF IInv, TypeOK, Fail, Leave, unchangedFiles
<1>2. QED
  BY <1>1 DEF Litter

\* Where a call lets go of a name it had none, or the directory is gone.
LEMMA LettingGo ==
    ASSUME IInv, NEW p \in Procs,
           \A q \in Procs \ {p} : mine'[q] = mine[q] /\ aside'[q] = aside[q],
           \A n \in Scratch : dirs'[n].there => dirs[n].there \/ n \in {mine'[p], aside'[p]},
           mine[p] \in Scratch => mine'[p] = mine[p] \/ ~dirs'[mine[p]].there,
           aside[p] \in Scratch => aside'[p] = aside[p] \/ ~dirs'[aside[p]].there
    PROVE  Litter' \subseteq Litter
<1> SUFFICES ASSUME NEW n \in Scratch, dirs'[n].there,
                    \A q \in Procs : n \notin {mine'[q], aside'[q]}
             PROVE  dirs[n].there /\ \A q \in Procs : n \notin {mine[q], aside[q]}
  BY DEF Litter
<1>1. dirs[n].there
  OBVIOUS
<1>2. n # mine[p] /\ n # aside[p]
  OBVIOUS
<1>3. QED
  BY <1>1, <1>2

\* Outside the extraction a call has no directory.
LEMMA NoDirectories ==
    ASSUME IInv, NEW p \in Procs
    PROVE  /\ pc[p] \notin Extracting => mine[p] = NoName
           /\ pc[p] \notin {"swap", "discard"} => aside[p] = NoName
           /\ mine[p] \in Scratch \cup {NoName} /\ aside[p] \in Scratch \cup {NoName}
           /\ NoName \notin Scratch
  BY AssetCacheAssumption DEF IInv, TypeOK, ScratchInv, Names

\* Every other step of a call takes its directories with it.
LEMMA StepsLeaveNoLitter ==
    ASSUME IInv, NEW p \in Procs, Resolve(p) \/ ResolveStep(p), faults' = faults
    PROVE  Litter' \subseteq Litter
<1>0. /\ mine \in [Procs -> Names] /\ aside \in [Procs -> Names]
      /\ dirs \in [Scratch -> Trees] /\ faults \in Nat
  BY AssetCacheAssumption DEF IInv, TypeOK
<1>1. CASE Resolve(p) \/ ReadMarker(p) \/ CheckTree(p) \/ TakeLock(p) \/ Done(p)
  <2>1. dirs' = dirs
    BY <1>1 DEF Resolve, ReadMarker, CheckTree, TakeLock, Done, unchangedFiles
  <2>2. mine[p] = NoName /\ aside[p] = NoName
    BY <1>1, NoDirectories DEF Resolve, ReadMarker, CheckTree, TakeLock, Done, Extracting
  <2>3. \A q \in Procs \ {p} : mine'[q] = mine[q] /\ aside'[q] = aside[q]
    BY <1>0, <1>1 DEF Resolve, ReadMarker, CheckTree, TakeLock, Done, Leave
  <2>4. QED
    BY <2>1, <2>2, <2>3, NoDirectories, LettingGo
<1>2. CASE MakeScratch(p)
  <2>1. PICK n \in Scratch : /\ dirs' = [dirs EXCEPT ![n] = Empty]
                             /\ mine' = [mine EXCEPT ![p] = n]
    BY <1>2 DEF MakeScratch
  <2>2. mine[p] = NoName /\ aside[p] = NoName /\ aside' = aside
    BY <1>2, NoDirectories DEF MakeScratch, Extracting
  <2>3. /\ \A q \in Procs \ {p} : mine'[q] = mine[q] /\ aside'[q] = aside[q]
        /\ mine'[p] = n
    BY <1>0, <2>1, <2>2
  <2>4. \A m \in Scratch : dirs'[m].there => dirs[m].there \/ m = n
    BY <1>0, <2>1
  <2>5. QED
    BY <2>2, <2>3, <2>4, NoDirectories, LettingGo
<1>3. CASE WriteFile(p) \/ WriteMarker(p)
  <2>1. mine' = mine /\ aside' = aside
    BY <1>3 DEF WriteFile, WriteMarker, locals
  <2>2. \A m \in Scratch : dirs'[m].there => dirs[m].there
    BY <1>0, <1>3 DEF WriteFile, WriteMarker, Trees
  <2>3. QED
    BY <2>1, <2>2, LettingGo
<1>4. CASE Commit(p)
  <2>1. aside[p] = NoName /\ mine[p] \in Scratch
    BY <1>4, NoDirectories DEF Commit, IInv, ScratchInv, Extracting
  <2>2. CASE cache.there
    <3>1. dirs' = dirs /\ mine' = mine /\ aside' = aside
      BY <1>4, <2>2 DEF Commit
    <3>2. QED
      BY <3>1, LettingGo
  <2>3. CASE ~cache.there
    <3>1. /\ dirs' = [dirs EXCEPT ![mine[p]] = NoTree]
          /\ mine' = [mine EXCEPT ![p] = NoName]
          /\ aside' = [aside EXCEPT ![p] = NoName]
      BY <1>4, <2>3 DEF Commit, MoveIntoPlace, Leave
    <3>2. /\ \A q \in Procs \ {p} : mine'[q] = mine[q] /\ aside'[q] = aside[q]
          /\ \A m \in Scratch : dirs'[m].there => dirs[m].there
          /\ ~dirs'[mine[p]].there
      BY <1>0, <2>1, <3>1, TreesClosed
    <3>3. QED
      BY <2>1, <3>2, NoDirectories, LettingGo
  <2>4. QED
    BY <2>2, <2>3
<1>5. CASE PutAside(p)
  <2>1. PICK n \in Scratch : /\ dirs' = [dirs EXCEPT ![n] = cache]
                             /\ aside' = [aside EXCEPT ![p] = n]
    BY <1>5 DEF PutAside
  <2>2. aside[p] = NoName /\ mine' = mine
    BY <1>5, NoDirectories DEF PutAside
  <2>3. /\ \A q \in Procs \ {p} : mine'[q] = mine[q] /\ aside'[q] = aside[q]
        /\ aside'[p] = n
        /\ \A m \in Scratch : dirs'[m].there => dirs[m].there \/ m = n
    BY <1>0, <2>1, <2>2
  <2>4. QED
    BY <2>2, <2>3, NoDirectories, LettingGo
<1>6. CASE Swap(p)
  <2>1. /\ dirs' = [dirs EXCEPT ![mine[p]] = NoTree]
        /\ mine' = [mine EXCEPT ![p] = NoName] /\ aside' = aside
    BY <1>6 DEF Swap, MoveIntoPlace
  <2>2. mine[p] \in Scratch
    BY <1>6, NoDirectories DEF Swap, IInv, ScratchInv, Extracting
  <2>3. /\ \A q \in Procs \ {p} : mine'[q] = mine[q] /\ aside'[q] = aside[q]
        /\ \A m \in Scratch : dirs'[m].there => dirs[m].there
        /\ ~dirs'[mine[p]].there /\ aside'[p] = aside[p]
    BY <1>0, <2>1, <2>2, TreesClosed
  <2>4. QED
    BY <2>3, LettingGo
<1>7. CASE Discard(p)
  <2>1. /\ dirs' = [dirs EXCEPT ![aside[p]] = NoTree]
        /\ mine' = [mine EXCEPT ![p] = NoName]
        /\ aside' = [aside EXCEPT ![p] = NoName]
    BY <1>0, <1>7 DEF Discard, Leave
  <2>2. aside[p] \in Scratch /\ mine[p] = NoName
    BY <1>7, NoDirectories DEF Discard, IInv, ScratchInv, Extracting
  <2>3. /\ \A q \in Procs \ {p} : mine'[q] = mine[q] /\ aside'[q] = aside[q]
        /\ \A m \in Scratch : dirs'[m].there => dirs[m].there
        /\ ~dirs'[aside[p]].there
    BY <1>0, <2>1, <2>2, TreesClosed
  <2>4. QED
    BY <2>2, <2>3, NoDirectories, LettingGo
<1>8. QED
  BY <1>1, <1>2, <1>3, <1>4, <1>5, <1>6, <1>7 DEF ResolveStep

\* A stale tree that could not be removed is one directory more.
LEMMA DiscardLitters ==
    ASSUME IInv, NEW p \in Procs, Discard(p), dirs' = dirs
    PROVE  Litter' \subseteq Litter \cup {mine[p], aside[p]}
<1>1. \A q \in Procs \ {p} : mine'[q] = mine[q] /\ aside'[q] = aside[q]
  BY DEF IInv, TypeOK, Discard, Leave
<1>2. QED
  BY <1>1 DEF Litter

\* gc only takes away.
LEMMA GcLeavesNoLitter ==
    ASSUME IInv, GcStep \/ GcDies \/ Edit \/ Age
    PROVE  Litter' \subseteq Litter
<1>1. UNCHANGED <<mine, aside>>
  BY DEF GcStep, GcList, GcTake, GcRemove, GcRemoved, GcEnd, GcDies, Edit, Age,
         resolvers, locals
<1>2. CASE dirs' = dirs
  BY <1>1, <1>2 DEF Litter
<1>3. CASE dirs' # dirs
  <2>1. PICK t \in OneLess(dirs[target]) : dirs' = [dirs EXCEPT ![target] = t]
    BY <1>3 DEF GcStep, GcList, GcTake, GcRemove, GcRemoved, GcEnd, GcDies, Edit, Age
  <2>2. dirs[target] \in Trees \/ target \notin Scratch
    BY DEF IInv, TypeOK
  <2>3. target \in Scratch /\ t.there => dirs[target].there
    BY <2>1, <2>2, TreesClosed DEF OneLess, Trees
  <2>4. \A m \in Scratch : dirs'[m].there => dirs[m].there
    BY <2>1, <2>3 DEF IInv, TypeOK
  <2>5. QED
    BY <1>1, <2>4 DEF Litter
<1>4. QED
  BY <1>2, <1>3

\* What the bound needs of the cardinalities.
LEMMA OneMore ==
    ASSUME NEW S, NEW x, IsFiniteSet(S)
    PROVE  /\ IsFiniteSet(S \cup {x}) /\ Cardinality(S \cup {x}) \in Nat
           /\ Cardinality(S \cup {x}) <= Cardinality(S) + 1
<1>1. Cardinality(S) \in Nat
  BY FS_CardinalityType
<1>2. /\ IsFiniteSet(S \cup {x})
      /\ Cardinality(S \cup {x}) = IF x \in S THEN Cardinality(S) ELSE Cardinality(S) + 1
  BY FS_AddElement
<1>3. QED
  BY <1>1, <1>2

LEMMA TwoMore ==
    ASSUME NEW S, NEW T, NEW x, NEW y, IsFiniteSet(S), T \subseteq S \cup {x, y}
    PROVE  /\ IsFiniteSet(T) /\ Cardinality(T) \in Nat /\ Cardinality(S) \in Nat
           /\ Cardinality(T) <= Cardinality(S) + 2
           /\ T \subseteq S => Cardinality(T) <= Cardinality(S)
<1> DEFINE U == S \cup {x}
<1>1. /\ IsFiniteSet(U) /\ Cardinality(U) \in Nat
      /\ Cardinality(U) <= Cardinality(S) + 1
  BY OneMore
<1>2. T \in SUBSET (U \cup {y})
  OBVIOUS
<1> HIDE DEF U
<1>3. /\ IsFiniteSet(U \cup {y}) /\ Cardinality(U \cup {y}) \in Nat
      /\ Cardinality(U \cup {y}) <= Cardinality(U) + 1
  BY <1>1, OneMore
<1>4. IsFiniteSet(T) /\ Cardinality(T) <= Cardinality(U \cup {y})
  BY <1>2, <1>3, FS_Subset
<1>5. Cardinality(T) \in Nat /\ Cardinality(S) \in Nat
  BY <1>4, FS_CardinalityType
<1>6. T \subseteq S => Cardinality(T) <= Cardinality(S)
  BY FS_Subset
<1>7. QED
  BY <1>1, <1>3, <1>4, <1>5, <1>6

LitterInv == IsFiniteSet(Litter) /\ LitterIsBounded

LEMMA LitterStep == IInv /\ IInv' /\ LitterInv /\ [Next]_vars => LitterInv'
<1> SUFFICES ASSUME IInv, IInv', LitterInv, [Next]_vars PROVE LitterInv'
  OBVIOUS
<1>0. faults \in Nat /\ faults' \in Nat
  BY AssetCacheAssumption DEF IInv, TypeOK
<1>1. CASE Litter' \subseteq Litter /\ faults' >= faults
  <2>1. IsFiniteSet(Litter') /\ Cardinality(Litter') <= Cardinality(Litter)
        /\ Cardinality(Litter') \in Nat /\ Cardinality(Litter) \in Nat
    BY <1>1, TwoMore DEF LitterInv
  <2>2. QED
    BY <1>0, <1>1, <2>1 DEF LitterInv, LitterIsBounded
<1>2. ASSUME NEW p \in Procs, Litter' \subseteq Litter \cup {mine[p], aside[p]},
             faults' = faults + 1
      PROVE  LitterInv'
  <2>1. IsFiniteSet(Litter') /\ Cardinality(Litter') <= Cardinality(Litter) + 2
        /\ Cardinality(Litter') \in Nat /\ Cardinality(Litter) \in Nat
    BY <1>2, TwoMore DEF LitterInv
  <2>2. QED
    BY <1>0, <1>2, <2>1 DEF LitterInv, LitterIsBounded
<1>3. CASE UNCHANGED vars
  <2>1. Litter' = Litter /\ faults' = faults
    BY <1>3 DEF vars, locals, Litter
  <2>2. QED
    BY <1>0, <1>1, <2>1
<1>4. ASSUME NEW p \in Procs, Fail(p) PROVE LitterInv'
  BY <1>2, <1>4, FailLitters DEF Fail
<1>5. ASSUME NEW p \in Procs, Resolve(p) \/ ResolveStep(p) PROVE LitterInv'
  <2>1. CASE faults' = faults
    BY <1>0, <1>1, <1>5, <2>1, StepsLeaveNoLitter
  <2>2. CASE faults' # faults
    <3>1. Discard(p)
      BY <1>5, <2>2 DEF Resolve, ResolveStep, ReadMarker, CheckTree, TakeLock, MakeScratch,
         WriteFile, WriteMarker, Commit, PutAside, Swap, Done, others
    <3>2. dirs' = dirs /\ faults' = faults + 1
      BY <2>2, <3>1 DEF Discard
    <3>3. QED
      BY <1>2, <3>1, <3>2, DiscardLitters
  <2>3. QED
    BY <2>1, <2>2
<1>6. CASE GcStep \/ GcDies \/ Edit \/ Age
  <2>1. faults' = faults \/ faults' = faults + 1
    BY <1>6 DEF GcStep, GcList, GcTake, GcRemove, GcRemoved, GcEnd, GcDies, Edit, Age
  <2>2. QED
    BY <1>0, <1>1, <1>6, <2>1, GcLeavesNoLitter
<1>7. QED
  BY <1>3, <1>4, <1>5, <1>6 DEF Next

\* Each call that fails or dies strands at most two directories, and nothing else
\* does, for any number of processes, names and failures.
THEOREM LitterStaysBounded == Spec => []LitterIsBounded
<1>1. Init => LitterInv
  <2> SUFFICES ASSUME Init PROVE LitterInv
    OBVIOUS
  <2>1. Litter = {} /\ faults = 0
    BY TreesClosed DEF Init, Litter
  <2>2. QED
    BY <2>1, FS_EmptySet DEF LitterInv, LitterIsBounded
<1>2. LitterInv => LitterIsBounded
  BY DEF LitterInv
<1>3. QED
  BY <1>1, <1>2, LitterStep, CacheInvariance, PTL DEF Spec

-------------------------------------------------------------------------------
\* Who changes a scratch directory has the lock, so the one process that extracts
\* finds in its own what it wrote.
THEOREM ScratchIsPrivate == Spec => ExtractionUndisturbed
<1> DEFINE Disturbs(p) ==
       /\ pc[p] \in Extracting /\ UNCHANGED locals
       /\ dirs'[mine[p]] # dirs[mine[p]]
       /\ ~(pc[p] = "write" /\ dirs[mine[p]].files \subseteq dirs'[mine[p]].files)
<1>1. IInv /\ [Next]_vars => [\A p \in Procs : ~Disturbs(p)]_vars
  <2> SUFFICES ASSUME IInv, Next, NEW p \in Procs, Disturbs(p) PROVE FALSE
    OBVIOUS
  <2>0. /\ lock = p /\ mine[p] \in Scratch /\ dirs' # dirs /\ UNCHANGED locals
        /\ \A q \in Procs \ {p} : pc[q] \notin Extracting \cup {"scratch", "discard"}
        /\ gcpc # "remove" /\ pc \in [Procs -> Pcs] /\ dirs \in [Scratch -> Trees]
    BY OneExtracts, NoDirectories DEF IInv, TypeOK, LockInv, ScratchInv, Extracting
  <2>1. ASSUME NEW q \in Procs, WriteFile(q) PROVE FALSE
    <3>1. q = p
      BY <2>0, <2>1 DEF WriteFile, Extracting
    <3>2. PICK f : dirs' = [dirs EXCEPT ![mine[p]].files = @ \cup {f}]
      BY <2>1, <3>1 DEF WriteFile
    <3>3. dirs[mine[p]].files \subseteq dirs'[mine[p]].files
      BY <2>0, <3>2 DEF Trees
    <3>4. QED
      BY <2>1, <3>1, <3>3 DEF WriteFile
  <2>2. ASSUME NEW q \in Procs,
               \/ MakeScratch(q) \/ WriteMarker(q) \/ Commit(q) \/ PutAside(q)
               \/ Swap(q) \/ Discard(q)
        PROVE  FALSE
    <3>1. pc'[q] # pc[q]
      BY <2>0, <2>2 DEF MakeScratch, WriteMarker, Commit, PutAside, Swap, Discard,
                        Leave, Goto
    <3>2. QED
      BY <2>0, <3>1 DEF locals
  <2>3. ASSUME NEW q \in Procs,
               \/ Resolve(q) \/ ReadMarker(q) \/ CheckTree(q) \/ TakeLock(q)
               \/ Done(q) \/ Fail(q)
        PROVE  FALSE
    BY <2>0, <2>3 DEF Resolve, ReadMarker, CheckTree, TakeLock, Done, Fail, unchangedFiles
  <2>4. CASE GcStep \/ GcDies \/ Edit \/ Age
    BY <2>0, <2>4 DEF GcStep, GcList, GcTake, GcRemove, GcRemoved, GcEnd, GcDies, Edit, Age
  <2>5. QED
    BY <2>1, <2>2, <2>3, <2>4 DEF Next, ResolveStep
<1>2. Spec => [][\A p \in Procs : ~Disturbs(p)]_vars
  BY <1>1, CacheInvariance, PTL DEF Spec
<1>3. (\A p \in Procs : ~Disturbs(p)) <=>
          \A p \in Procs :
              pc[p] \in Extracting /\ UNCHANGED locals
              => \/ dirs'[mine[p]] = dirs[mine[p]]
                 \/ pc[p] = "write" /\ dirs[mine[p]].files \subseteq dirs'[mine[p]].files
  OBVIOUS
<1>4. QED
  BY <1>2, <1>3, PTL DEF ExtractionUndisturbed
=============================================================================
