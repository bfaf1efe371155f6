----------------------------- MODULE AssetCache -----------------------------
(***************************************************************************)
(* The cache of the Lima assets embedded in the binary: resolve_uncached   *)
(* accepts the cached tree or extracts it anew, agbranch gc reclaims trees *)
(* that are old.  Readers take no lock; extraction and every single        *)
(* removal hold assets.lock, which is tried and never waited for.          *)
(***************************************************************************)
EXTENDS Naturals, FiniteSets

CONSTANTS
    Procs,        \* processes that resolve the assets
    Gc,           \* a gc process
    Free,         \* nobody, for the lock
    Files,        \* the embedded assets
    Canonical,    \* the cache directory: the fingerprint with ':' replaced
    Fingerprint,  \* the fingerprint gc compares directory names with
    Scratch,      \* bound: names for .tmp. and .stale. directories
    NoName,
    MaxFaults,    \* bound: processes that fail or die
    MaxEdits      \* bound: times somebody edits the cache

ASSUME AssetCacheAssumption ==
    /\ Gc \notin Procs /\ Free \notin Procs \cup {Gc}
    /\ NoName \notin Scratch \cup {Canonical} /\ Canonical \notin Scratch
    /\ Fingerprint # Canonical /\ Fingerprint \notin Scratch
    /\ MaxFaults \in Nat /\ MaxEdits \in Nat

VARIABLES
    cache,    \* the canonical directory
    dirs,     \* the .tmp. and .stale. directories
    old,      \* the marker in the cache is older than CANONICAL_CACHE_GRACE
    lock,     \* assets.lock
    pc, mine, aside,     \* per process: next step, its scratch and stale directory
    gcRuns,               \* whether anybody ever runs agbranch gc on this host
    gcpc, listed, target, \* gc: next step, candidates, the one being removed
    faults, edits

locals == <<pc, mine, aside>>
gcLocals == <<gcRuns, gcpc, listed, target>>
vars == <<cache, dirs, old, lock, locals, gcLocals, faults, edits>>

\* files are those that are there, untouched since the marker was written;
\* marker stands for a fingerprint.ok that names this binary's bundle.
Trees == [there: BOOLEAN, files: SUBSET Files, marker: BOOLEAN]
NoTree == [there |-> FALSE, files |-> {}, marker |-> FALSE]
Empty == [NoTree EXCEPT !.there = TRUE]
Complete(t) == t.there /\ t.marker /\ t.files = Files

Tree(n) == IF n = Canonical THEN cache ELSE dirs[n]

Pcs == {"idle", "marker", "tree", "lock", "scratch", "write", "commit", "aside",
        "swap", "discard", "use"}
Extracting == {"write", "commit", "aside", "swap"}
Names == Scratch \cup {NoName}

TypeOK ==
    /\ cache \in Trees /\ dirs \in [Scratch -> Trees] /\ old \in BOOLEAN
    /\ lock \in Procs \cup {Gc, Free}
    /\ pc \in [Procs -> Pcs]
    /\ mine \in [Procs -> Names] /\ aside \in [Procs -> Names]
    /\ gcRuns \in BOOLEAN /\ gcpc \in {"idle", "take", "remove"}
    /\ listed \subseteq Scratch \cup {Canonical}
    /\ target \in Names \cup {Canonical}
    /\ faults \in 0..MaxFaults /\ edits \in 0..MaxEdits

Init ==
    /\ cache = NoTree /\ dirs = [n \in Scratch |-> NoTree] /\ old = FALSE
    /\ lock = Free
    /\ pc = [p \in Procs |-> "idle"]
    /\ mine = [p \in Procs |-> NoName] /\ aside = [p \in Procs |-> NoName]
    /\ gcRuns \in BOOLEAN
    /\ gcpc = "idle" /\ listed = {} /\ target = NoName
    /\ faults = 0 /\ edits = 0

Goto(p, l) == pc' = [pc EXCEPT ![p] = l]

Release(p) == lock' = IF lock = p THEN Free ELSE lock

\* The call ends, in use of the cache or not, and its lock and locals with it.
Leave(p, l) ==
    /\ Goto(p, l) /\ Release(p)
    /\ mine' = [mine EXCEPT ![p] = NoName]
    /\ aside' = [aside EXCEPT ![p] = NoName]

unchangedFiles == <<cache, dirs, old>>
others == <<gcLocals, faults, edits>>

-------------------------------------------------------------------------------
(* resolve_uncached *)

Resolve(p) ==
    /\ pc[p] = "idle"
    /\ Goto(p, "marker")
    /\ UNCHANGED <<unchangedFiles, lock, mine, aside, others>>

\* cache_is_acceptable said no: extract if this was the check under the lock.
Reject(p) == Goto(p, IF lock = p THEN "scratch" ELSE "lock")

\* Mutant: the marker is trusted and the tree not looked at.
ReadMarkerOnly(p) ==
    /\ pc[p] = "marker"
    /\ IF cache.there /\ cache.marker
       THEN Leave(p, "use")
       ELSE Reject(p) /\ UNCHANGED <<lock, mine, aside>>
    /\ UNCHANGED <<unchangedFiles, others>>

\* The check reads the marker first and the tree later.
ReadMarker(p) ==
    /\ pc[p] = "marker"
    /\ IF cache.there /\ cache.marker THEN Goto(p, "tree") ELSE Reject(p)
    /\ UNCHANGED <<unchangedFiles, lock, mine, aside, others>>

CheckTree(p) ==
    /\ pc[p] = "tree"
    /\ IF cache.there /\ cache.files = Files
       THEN Leave(p, "use")
       ELSE Reject(p) /\ UNCHANGED <<lock, mine, aside>>
    /\ UNCHANGED <<unchangedFiles, others>>

\* Mutant: the cache is not checked again under the lock.
TakeLockAndExtract(p) ==
    /\ pc[p] = "lock"
    /\ IF lock = Free THEN lock' = p /\ Goto(p, "scratch") /\ UNCHANGED <<mine, aside>>
                      ELSE Leave(p, "idle")
    /\ UNCHANGED <<unchangedFiles, others>>

\* Busy means Blocked.
TakeLock(p) ==
    /\ pc[p] = "lock"
    /\ IF lock = Free THEN lock' = p /\ Goto(p, "marker") /\ UNCHANGED <<mine, aside>>
                      ELSE Leave(p, "idle")
    /\ UNCHANGED <<unchangedFiles, others>>

MakeScratch(p) ==
    /\ pc[p] = "scratch"
    /\ \E n \in Scratch :
           /\ ~dirs[n].there
           /\ dirs' = [dirs EXCEPT ![n] = Empty]
           /\ mine' = [mine EXCEPT ![p] = n]
    /\ Goto(p, "write")
    /\ UNCHANGED <<cache, old, lock, aside, others>>

WriteFile(p) ==
    /\ pc[p] = "write"
    /\ \E f \in Files \ dirs[mine[p]].files :
           dirs' = [dirs EXCEPT ![mine[p]].files = @ \cup {f}]
    /\ UNCHANGED <<cache, old, lock, locals, others>>

\* fingerprint.ok is written last.
WriteMarker(p) ==
    /\ pc[p] = "write" /\ dirs[mine[p]].files = Files
    /\ dirs' = [dirs EXCEPT ![mine[p]].marker = TRUE]
    /\ Goto(p, "commit")
    /\ UNCHANGED <<cache, old, lock, mine, aside, others>>

MoveIntoPlace(p) ==
    /\ cache' = dirs[mine[p]]
    /\ dirs' = [dirs EXCEPT ![mine[p]] = NoTree]
    /\ old' = FALSE

\* Mutant: the rename is tried whether or not a rejected cache is in its place.
CommitOverCache(p) ==
    /\ pc[p] = "commit"
    /\ IF ~cache.there THEN MoveIntoPlace(p) /\ Leave(p, "use")
                       ELSE UNCHANGED unchangedFiles /\ Leave(p, "idle")
    /\ UNCHANGED others

\* The marker of a rejected cache goes first.
Commit(p) ==
    /\ pc[p] = "commit"
    /\ IF ~cache.there
       THEN MoveIntoPlace(p) /\ Leave(p, "use")
       ELSE /\ cache' = [cache EXCEPT !.marker = FALSE]
            /\ Goto(p, "aside")
            /\ UNCHANGED <<dirs, old, lock, mine, aside>>
    /\ UNCHANGED others

PutAside(p) ==
    /\ pc[p] = "aside"
    /\ \E n \in Scratch :
           /\ ~dirs[n].there
           /\ dirs' = [dirs EXCEPT ![n] = cache]
           /\ aside' = [aside EXCEPT ![p] = n]
    /\ cache' = NoTree
    /\ Goto(p, "swap")
    /\ UNCHANGED <<old, lock, mine, others>>

Swap(p) ==
    /\ pc[p] = "swap"
    /\ MoveIntoPlace(p)
    /\ Goto(p, "discard")
    /\ mine' = [mine EXCEPT ![p] = NoName]
    /\ UNCHANGED <<lock, aside, others>>

\* Whether or not the stale tree could be removed, the assets are resolved.
Discard(p) ==
    /\ pc[p] = "discard"
    /\ \/ dirs' = [dirs EXCEPT ![aside[p]] = NoTree] /\ UNCHANGED faults
       \/ faults < MaxFaults /\ faults' = faults + 1 /\ UNCHANGED dirs
    /\ Leave(p, "use")
    /\ UNCHANGED <<cache, old, gcLocals, edits>>

\* The command has read what it wanted of the tree.
Done(p) ==
    /\ pc[p] = "use"
    /\ Leave(p, "idle")
    /\ UNCHANGED <<unchangedFiles, others>>

\* The call fails or the process dies: the kernel drops the lock, the scratch
\* directory stays.
Fail(p) ==
    /\ pc[p] # "idle" /\ faults < MaxFaults
    /\ faults' = faults + 1
    /\ Leave(p, "idle")
    /\ UNCHANGED <<unchangedFiles, gcLocals, edits>>

-------------------------------------------------------------------------------
(* agbranch gc: the asset cache *)

resolvers == <<gcRuns, old, locals, edits>>

\* Any scratch directory may be older than SCRATCH_CACHE_GRACE by now.
Reclaimable ==
    {n \in Scratch : dirs[n].there}
      \cup {n \in {Canonical} : n # Fingerprint /\ cache.marker /\ old}

\* Phase 1, with no lock.
GcList ==
    /\ gcRuns /\ gcpc = "idle"
    /\ listed' \in SUBSET Reclaimable
    /\ Canonical \in Reclaimable => Canonical \in listed'
    /\ gcpc' = "take"
    /\ UNCHANGED <<cache, dirs, lock, target, resolvers, faults>>

\* Phase 2, one candidate after the other: it is skipped when the lock is busy
\* or the directory is gone; its age is not looked at again.
GcTake ==
    /\ gcpc = "take"
    /\ \E n \in listed :
           /\ listed' = listed \ {n}
           /\ IF lock = Free /\ Tree(n).there
              THEN target' = n /\ gcpc' = "remove" /\ lock' = Gc
              ELSE UNCHANGED <<target, gcpc, lock>>
    /\ UNCHANGED <<cache, dirs, resolvers, faults>>

\* What remove_dir_all leaves of t after its next call.
OneLess(t) ==
    {u \in Trees : \/ \E f \in t.files : u = [t EXCEPT !.files = @ \ {f}]
                   \/ t.marker /\ u = [t EXCEPT !.marker = FALSE]
                   \/ t.files = {} /\ ~t.marker /\ u = NoTree}

GcRemove ==
    /\ gcpc = "remove"
    /\ IF target = Canonical
       THEN cache' \in OneLess(cache) /\ UNCHANGED dirs
       ELSE /\ \E t \in OneLess(dirs[target]) : dirs' = [dirs EXCEPT ![target] = t]
            /\ UNCHANGED cache
    /\ UNCHANGED <<lock, gcLocals, resolvers, faults>>

GcRemoved ==
    /\ gcpc = "remove"
    /\ ~Tree(target).there
    /\ gcpc' = "take" /\ target' = NoName /\ Release(Gc)
    /\ UNCHANGED <<cache, dirs, listed, resolvers, faults>>

GcEnd ==
    /\ gcpc = "take" /\ listed = {}
    /\ gcpc' = "idle"
    /\ UNCHANGED <<cache, dirs, lock, listed, target, resolvers, faults>>

GcDies ==
    /\ gcpc # "idle" /\ faults < MaxFaults
    /\ faults' = faults + 1
    /\ gcpc' = "idle" /\ listed' = {} /\ target' = NoName /\ Release(Gc)
    /\ UNCHANGED <<cache, dirs, resolvers>>

-------------------------------------------------------------------------------
(* The environment *)

\* Somebody deletes a file of the cache, or changes it after the marker.
Edit ==
    /\ edits < MaxEdits /\ edits' = edits + 1
    /\ \E f \in cache.files : cache' = [cache EXCEPT !.files = @ \ {f}]
    /\ UNCHANGED <<dirs, old, lock, locals, gcLocals, faults>>

\* A day passes.
Age ==
    /\ ~old /\ cache.marker /\ old' = TRUE
    /\ UNCHANGED <<cache, dirs, lock, locals, gcLocals, faults, edits>>

-------------------------------------------------------------------------------
ResolveStep(p) ==
    \/ ReadMarker(p) \/ CheckTree(p) \/ TakeLock(p) \/ MakeScratch(p)
    \/ WriteFile(p) \/ WriteMarker(p) \/ Commit(p) \/ PutAside(p)
    \/ Swap(p) \/ Discard(p) \/ Done(p)

GcStep == GcList \/ GcTake \/ GcRemove \/ GcRemoved \/ GcEnd

Next ==
    \/ \E p \in Procs : Resolve(p) \/ ResolveStep(p) \/ Fail(p)
    \/ GcStep \/ GcDies \/ Edit \/ Age

Spec == Init /\ [][Next]_vars

-------------------------------------------------------------------------------
(* Safety *)

\* A command reads a complete tree for as long as it needs it, whoever else
\* extracts or dies extracting: with no gc and until somebody edits the cache.
UsersTreeComplete ==
    ~gcRuns /\ edits = 0 => \A p \in Procs : pc[p] = "use" => Complete(cache)

\* No gc takes anything out of a tree that is being written or moved into place.
ExtractionUndisturbed ==
    [][\A p \in Procs :
           pc[p] \in Extracting /\ UNCHANGED locals
           => \/ dirs'[mine[p]] = dirs[mine[p]]
              \/ pc[p] = "write" /\ dirs[mine[p]].files \subseteq dirs'[mine[p]].files]_vars

\* Scratch directories that no extraction under way will move or remove.
Litter == {n \in Scratch : dirs[n].there /\ \A p \in Procs : n \notin {mine[p], aside[p]}}

\* They come from calls that failed or died, at most two from each: extractions
\* that go well never fill the disk.
LitterIsBounded == Cardinality(Litter) <= 2 * faults

\* Only a complete tree is ever moved into place.
OnlyCompleteCommits == [][~cache.there /\ cache'.there => Complete(cache')]_vars

\* gc preserves the cache of the current fingerprint.
CurrentCachePreserved == [][target = Canonical => cache' = cache]_vars

-------------------------------------------------------------------------------
(* The inductive invariant behind them *)

LockInv ==
    /\ \A p \in Procs : pc[p] \in Extracting \cup {"scratch", "discard"} => lock = p
    /\ \A p \in Procs : pc[p] \in {"idle", "lock", "use"} => lock # p
    /\ lock = Gc <=> gcpc = "remove"
    /\ gcpc = "remove" => target # NoName
    /\ gcpc # "remove" => target = NoName

ScratchInv ==
    \A p \in Procs :
        /\ pc[p] \in Extracting <=> mine[p] # NoName
        /\ pc[p] \in {"swap", "discard"} <=> aside[p] # NoName
        /\ pc[p] = "swap" => aside[p] # mine[p] /\ ~cache.there
        /\ mine[p] # NoName => dirs[mine[p]].there
        /\ pc[p] \in {"commit", "aside", "swap"} => Complete(dirs[mine[p]])

\* Without gc and edits a cache that is there and marked is complete, and a
\* process that saw it keeps it.
ServedInv ==
    /\ gcpc = "idle"
    /\ cache.there /\ cache.marker => Complete(cache)
    /\ \A p \in Procs : pc[p] \in {"tree", "use", "discard"} => Complete(cache)
    /\ \A p \in Procs : pc[p] \in Extracting \cup {"scratch"} => ~Complete(cache)

IInv ==
    /\ TypeOK /\ LockInv /\ ScratchInv
    /\ ~gcRuns /\ edits = 0 => ServedInv

-------------------------------------------------------------------------------
(* Liveness *)

\* Commands that need the assets keep coming and processes go on; nobody has to
\* run gc.
FairSpec == Spec /\ \A p \in Procs : WF_vars(Resolve(p)) /\ WF_vars(ResolveStep(p))

\* Whatever crashes and edits left behind, the cache is made whole again; where
\* gc runs, the next command may be refused for as long as gc holds the lock.
CacheHeals == []<>(Complete(cache) \/ gcRuns)

=============================================================================
