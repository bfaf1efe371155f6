---------------------------- MODULE BaseReadiness ----------------------------
(***************************************************************************)
(* What agbranch base show and agbranch doctor say of the prepared base    *)
(* and the Lima assets, without changing anything, and what launch, open   *)
(* and base prepare then do.  The two sides decide with code of their own: *)
(* scan_tree and inspect_cache beside complete_tree_check and              *)
(* cache_is_acceptable.                                                    *)
(*                                                                         *)
(* Every process has its own AGBRANCH_LIMA_ASSETS_DIR, so what a command   *)
(* sees depends on e \in Envs.  AssetCache has the interleavings of one    *)
(* extraction, PreparedBase those of the steps of one preparation.         *)
(***************************************************************************)
EXTENDS Naturals

CONSTANTS
    Files,     \* the embedded assets
    Scripts,   \* those that end in .sh
    Prints,    \* fingerprints of provision inputs
    NoPrint,   \* of inputs that cannot be read
    MaxEdits   \* bound: what users and other tools do to trees and base

ASSUME BaseReadinessAssumption ==
    Scripts \subseteq Files /\ NoPrint \notin Prints /\ MaxEdits \in Nat

VARIABLES
    binary,    \* CURRENT_PROVISION_FINGERPRINT of the installed agbranch
    cache,     \* the canonical cache directory of that binary
    override,  \* the tree AGBRANCH_LIMA_ASSETS_DIR names
    base,      \* the prepared base VM
    job,       \* the command that prepares it, under base.lock
    prepared,  \* a preparation under these Envs just ended, nothing happened since
    edits

world == <<binary, cache, override, base>>
vars == <<world, job, prepared, edits>>

\* The variable is not set, set to nothing, or names the override tree.
Envs == {"unset", "empty", "set"}
NoEnv == "none"

\* What symlink_metadata says of a path; "plain" lacks the owner's x.
Kinds == {"missing", "symlink", "other", "unreadable", "plain", "executable"}

\* late are the embedded files whose time is over two seconds past the marker's.
\* rest is all else below lima/: it may hold a path that is late like that (an
\* empty directory always is), or break the walk over the tree, with a symlink
\* that dangles or a directory that cannot be listed.
Rests == {"plain", "late", "broken"}

Trees == [there: BOOLEAN, entry: [Files -> Kinds], print: Prints \cup {NoPrint},
          marker: {"missing", "other", "current"},
          late: SUBSET Files, rest: Rests]

AsEmbedded == [f \in Files |-> IF f \in Scripts THEN "executable" ELSE "plain"]

Extracted(v) == [there |-> TRUE, entry |-> AsEmbedded, print |-> v,
                 marker |-> "current", late |-> {}, rest |-> "plain"]

NoTree == [there |-> FALSE, entry |-> [f \in Files |-> "missing"],
           print |-> NoPrint, marker |-> "missing", late |-> {}, rest |-> "plain"]

\* agbranch-base.json; schema_version 1 is the only one known.
Metas == [form: {"absent", "unreadable", "json"}, schema: {1, 2},
          print: Prints \cup {NoPrint},
          source: {"absent", "baked_in", "env_override", "unknown"}]

NoMeta == [form |-> "absent", schema |-> 1, print |-> NoPrint, source |-> "absent"]
Meta(v, source) == [form |-> "json", schema |-> 1, print |-> v, source |-> source]

Bases == [status: {"missing", "stopped", "running"}, deprecated: BOOLEAN,
          protected: BOOLEAN, meta: Metas]

NoBase == [status |-> "missing", deprecated |-> FALSE, protected |-> FALSE,
           meta |-> NoMeta]

\* Bases that other versions of agbranch left.
Protected(m) == [NoBase EXCEPT !.status = "stopped", !.protected = TRUE, !.meta = m]
Deprecated(m, d) == [NoBase EXCEPT !.status = "stopped", !.deprecated = d, !.meta = m]
UnreadableMeta == [NoMeta EXCEPT !.form = "unreadable"]
NextSchema(v) == [Meta(v, "baked_in") EXCEPT !.schema = 2]

OtherBases ==
    {Protected(Meta(v, s)) : v \in Prints, s \in {"absent", "unknown"}}
    \cup {Protected(NextSchema(v)) : v \in Prints}
    \cup {Deprecated(UnreadableMeta, d) : d \in BOOLEAN}

\* calm: nobody has touched trees or base since the job began.
Jobs == [pc: {"idle", "build", "stamp", "protect"}, env: Envs, rebuild: BOOLEAN,
         calm: BOOLEAN]
NoJob == [pc |-> "idle", env |-> "unset", rebuild |-> FALSE, calm |-> FALSE]

TypeOK ==
    /\ binary \in Prints
    /\ cache \in Trees /\ override \in Trees
    /\ base \in Bases
    /\ job \in Jobs
    /\ prepared \in Envs \cup {NoEnv}
    /\ edits \in 0..MaxEdits

Init ==
    /\ binary \in Prints
    /\ cache = NoTree
    /\ override \in {Extracted(v) : v \in Prints}
    /\ base \in {NoBase} \cup OtherBases
    /\ job = NoJob
    /\ prepared = NoEnv
    /\ edits = 0

-------------------------------------------------------------------------------
(* The mutating side: lima_asset_dir *)

\* The mode bits a file of this name needs.
ModeOk(f, k) == k = "executable" \/ (k = "plain" /\ f \notin Scripts)

CompleteTree(t) ==
    \A f \in Files : /\ t.entry[f] \in {"unreadable", "plain", "executable"}
                     /\ ModeOk(f, t.entry[f])

\* newest_mtime looks at everything below lima/, embedded or not; the guard lets
\* pass a tree whose walk fails.
MtimeGuard(t) == t.rest = "broken" \/ (t.late = {} /\ t.rest = "plain")

Acceptable(t) ==
    /\ t.there
    /\ t.marker = "current"
    /\ CompleteTree(t)
    /\ MtimeGuard(t)

-------------------------------------------------------------------------------
(* The reading side: inspect_lima_asset_dir *)

\* Mutant: the mode of a file is not looked at.
ScanWithoutModes(t) == {f \in Files : t.entry[f] \in {"missing", "symlink", "other"}}

\* The files there is a reason against; a symlink is one whatever it points to.
ScanTree(t) ==
    {f \in Files : \/ t.entry[f] \in {"missing", "symlink", "other"}
                   \/ t.entry[f] \in {"unreadable", "plain"} /\ ~ModeOk(f, t.entry[f])}

\* The first failure decides what is reported; only embedded files are old or new.
InspectCache(t) ==
    CASE ~t.there -> "absent"
      [] t.there /\ t.marker = "missing" -> "fingerprint_missing"
      [] t.there /\ t.marker = "other" -> "fingerprint_mismatch"
      [] t.there /\ t.marker = "current" /\ ScanTree(t) # {} -> "tree_incomplete"
      [] t.there /\ t.marker = "current" /\ ScanTree(t) = {} /\ t.late # {} ->
             "mtime_guard"
      [] t.there /\ t.marker = "current" /\ ScanTree(t) = {} /\ t.late = {} -> "cache"

\* compute_effective_provision_fingerprint fails on inputs it cannot read.
OverrideValid(t) == t.there /\ ScanTree(t) = {} /\ t.print # NoPrint

\* One process, variable e: the state the inspector reports.
Inspect(e) ==
    IF e = "set" THEN IF OverrideValid(override) THEN "env_override"
                                                 ELSE "invalid_override"
                 ELSE InspectCache(cache)

-------------------------------------------------------------------------------
(* BaseSummary::from_parts and readiness_issue *)

ValidMeta(m) ==
    /\ m.form = "json" /\ m.schema = 1
    /\ m.source \in {"absent", "baked_in", "env_override"}

\* The base's own readiness for a process whose effective fingerprint is v.
BaseIssue(b, v) ==
    CASE b.status = "missing" -> "missing"
      [] b.status # "missing" /\ ~ValidMeta(b.meta) -> "metadata_missing"
      [] b.status # "missing" /\ ValidMeta(b.meta) /\ b.meta.print # v -> "stale"
      [] b.status # "missing" /\ ValidMeta(b.meta) /\ b.meta.print = v
         /\ ~b.protected -> "unprotected"
      [] b.status # "missing" /\ ValidMeta(b.meta) /\ b.meta.print = v
         /\ b.protected -> "none"

\* Mutant: base show takes the binary's fingerprint under every variable.
ShowPrintOfBinary(e) == binary

\* base show: an invalid override leaves the fingerprint of the binary.
ShowPrint(e) == IF Inspect(e) = "env_override" THEN override.print ELSE binary

\* What base show --require-ready fails with: assets are the second gate.
ShowIssue(e) ==
    IF BaseIssue(base, ShowPrint(e)) # "none" THEN BaseIssue(base, ShowPrint(e))
    ELSE CASE Inspect(e) \in {"cache", "env_override"} -> "none"
           [] Inspect(e) = "invalid_override" -> "override_invalid"
           [] OTHER -> "needs_extraction"

-------------------------------------------------------------------------------
(* launch and open: acquire_clone_lock_for_prepared_base *)

ResolveFails(e) == e = "set" /\ ~OverrideValid(override)
Extracts(e) == e # "set" /\ ~Acceptable(cache)

\* Resolving leaves an accepted cache behind, unless the variable is set.
CacheAfter(e) == IF Extracts(e) THEN Extracted(binary) ELSE cache

LaunchPrint(e) == IF e = "set" THEN override.print ELSE binary

\* Where prepare_strategy sends a launch; the notices do not stop it.
Strategy(e) ==
    CASE base.status = "running" -> "blocked"
      [] base.status # "running" /\ base.deprecated -> "rebuild"
      [] base.status = "missing" /\ ~base.deprecated -> "prepare"
      [] base.status = "stopped" /\ ~base.deprecated -> "clone"

\* What the launch warns of while it clones.
CloneNotice(e) ==
    IF BaseIssue(base, LaunchPrint(e)) \in {"metadata_missing", "stale", "unprotected"}
    THEN BaseIssue(base, LaunchPrint(e)) ELSE "none"

Begin(e, rebuild) ==
    job' = [pc |-> "build", env |-> e, rebuild |-> rebuild, calm |-> TRUE]

\* A launch that need not prepare changes the cache at most.
Launch(e) ==
    /\ job.pc = "idle" /\ ~ResolveFails(e)
    /\ cache' = CacheAfter(e)
    /\ IF Strategy(e) \in {"rebuild", "prepare"}
       THEN Begin(e, Strategy(e) = "rebuild") /\ prepared' = NoEnv
       ELSE UNCHANGED <<job, prepared>>
    /\ UNCHANGED <<binary, override, base, edits>>

\* A launch beside a job finds base.lock taken, after it has extracted.
Resolve(e) ==
    /\ ~ResolveFails(e)
    /\ cache' = CacheAfter(e)
    /\ UNCHANGED <<binary, override, base, job, prepared, edits>>

-------------------------------------------------------------------------------
(* base prepare, and what launch and open do of it *)

Prepare(e, rebuild) ==
    /\ job.pc = "idle" /\ ~ResolveFails(e)
    /\ cache' = CacheAfter(e)
    /\ Begin(e, rebuild)
    /\ prepared' = NoEnv
    /\ UNCHANGED <<binary, override, base, edits>>

\* Everything up to the probe: the base runs, a new one without its metadata.
Build ==
    /\ job.pc = "build"
    /\ base' = IF base.status = "missing" \/ job.rebuild \/ base.deprecated
               THEN [NoBase EXCEPT !.status = "running"]
               ELSE [base EXCEPT !.status = "running"]
    /\ job' = [job EXCEPT !.pc = "stamp"]
    /\ UNCHANGED <<binary, cache, override, prepared, edits>>

\* Mutant: the metadata names what the binary carries, whatever tree was used.
StampOfBinary(e) == Meta(binary, "baked_in")

\* write_base_metadata only asks whether the variable is there; the tree is the
\* one the resolver chose, read once more.
StampOf(e) ==
    CASE e = "unset" -> Meta(binary, "baked_in")
      [] e = "empty" -> Meta(cache.print, "env_override")
      [] e = "set" -> Meta(override.print, "env_override")

Stamp ==
    /\ job.pc = "stamp"
    /\ IF StampOf(job.env).print = NoPrint
       THEN base' = [base EXCEPT !.status = "stopped"] /\ job' = NoJob
       ELSE /\ base' = [base EXCEPT !.meta = StampOf(job.env)]
            /\ job' = [job EXCEPT !.pc = "protect"]
    /\ UNCHANGED <<binary, cache, override, prepared, edits>>

\* Stop and protect.
Protect ==
    /\ job.pc = "protect"
    /\ base' = [base EXCEPT !.status = "stopped", !.protected = TRUE]
    /\ prepared' = IF job.calm THEN job.env ELSE NoEnv
    /\ job' = NoJob
    /\ UNCHANGED <<binary, cache, override, edits>>

\* The command fails or dies and leaves what it has done.
Fail ==
    /\ job.pc # "idle"
    /\ job' = NoJob
    /\ UNCHANGED <<world, prepared, edits>>

-------------------------------------------------------------------------------
(* Users and other tools *)

Touch ==
    /\ edits < MaxEdits /\ edits' = edits + 1
    /\ job' = [job EXCEPT !.calm = FALSE]
    /\ prepared' = NoEnv

\* One change to a tree: a file replaced, its inputs edited, something added or
\* made unreadable, its marker lost.  Times may move, within the grace or past it.
Replaced(t, f, k, l) == [t EXCEPT !.entry[f] = k, !.late = @ \cup l]
Rewritten(t, v, l) == [t EXCEPT !.print = v, !.late = @ \cup l]
WithStray(t, v) ==
    [t EXCEPT !.rest = IF @ = "broken" THEN "broken" ELSE "late", !.print = v]
WithBroken(t, v) == [t EXCEPT !.rest = "broken", !.print = v]
Remarked(t, m) == [t EXCEPT !.marker = m]

Edited(t) ==
    {Replaced(t, f, k, l) : f \in Files, k \in Kinds, l \in {{}, Files}}
    \cup {Rewritten(t, v, l) : v \in Prints \cup {NoPrint}, l \in {{}, Scripts}}
    \cup {WithStray(t, v) : v \in Prints}
    \cup {WithBroken(t, v) : v \in {t.print, NoPrint}}
    \cup {Remarked(t, m) : m \in {"missing", "other"}}

EditCache ==
    /\ Touch
    /\ cache' \in {NoTree} \cup (IF cache.there THEN Edited(cache) ELSE {})
    /\ UNCHANGED <<binary, override, base>>

EditOverride ==
    /\ Touch
    /\ override' \in {NoTree} \cup {Extracted(v) : v \in Prints}
                        \cup (IF override.there THEN Edited(override) ELSE {})
    /\ UNCHANGED <<binary, cache, base>>

\* limactl start, stop, protect, unprotect or delete by somebody else.
UseBase ==
    /\ Touch
    /\ base.status # "missing"
    /\ \/ base' = NoBase
       \/ \E s \in {"stopped", "running"}, p \in BOOLEAN :
              base' = [base EXCEPT !.status = s, !.protected = p]
    /\ UNCHANGED <<binary, cache, override>>

\* Another agbranch is installed; its cache is another directory.
Upgrade ==
    /\ Touch
    /\ job.pc = "idle"
    /\ binary' \in Prints
    /\ cache' = NoTree
    /\ UNCHANGED <<override, base>>

-------------------------------------------------------------------------------
Next ==
    \/ \E e \in Envs : Launch(e) \/ Resolve(e)
    \/ \E e \in Envs, r \in BOOLEAN : Prepare(e, r)
    \/ Build \/ Stamp \/ Protect \/ Fail
    \/ EditCache \/ EditOverride \/ UseBase \/ Upgrade

Spec == Init /\ [][Next]_vars

-------------------------------------------------------------------------------
(* Safety *)

\* The inspector and the resolver judge a cache by code of their own and agree:
\* what is reported as the cache is not extracted again, unless a path that is no
\* asset is late, and what is not extracted again is reported as the cache, unless
\* the resolver's walk over the tree fails (asset_inspect.rs, asset_resolver.rs).
InspectorMatchesResolver ==
    \A e \in Envs \ {"set"} :
        /\ Inspect(e) = "cache" => ~Extracts(e) \/ cache.rest = "late"
        /\ ~Extracts(e) => Inspect(e) = "cache" \/ cache.rest = "broken"

\* Whoever saw base show --require-ready succeed can launch: nothing is
\* extracted or prepared and nothing is warned of, unless the VM is running or
\* deprecated, which base show does not look at (base.rs).
ReadyMeansClone ==
    \A e \in Envs :
        /\ ShowIssue(e) = "none" /\ (e # "set" => cache.rest # "late")
        /\ base.status = "stopped" /\ ~base.deprecated
        => ~ResolveFails(e) /\ ~Extracts(e) /\ Strategy(e) = "clone"
           /\ CloneNotice(e) = "none"

\* A base that was just prepared is ready for the command that prepared it and
\* for base show in the same environment (lima/base.rs, base_info.rs); with an
\* empty variable only if the cache was never edited.
PrepareMakesReady ==
    \A e \in Envs :
        prepared = e /\ (e = "empty" => cache.print = binary) =>
            /\ BaseIssue(base, LaunchPrint(e)) = "none"
            /\ ShowIssue(e) = "none" \/ cache.rest # "plain"

-------------------------------------------------------------------------------
(* The inductive invariant behind PrepareMakesReady *)

\* While nobody interferes, the resolved tree stays what it was at the start, the
\* VM is up once built, and the metadata is the environment's.
JobInv ==
    /\ job.pc # "idle" => prepared = NoEnv
    /\ job.calm =>
        /\ job.pc # "idle"
        /\ ~ResolveFails(job.env) /\ ~Extracts(job.env)
        /\ job.pc \in {"stamp", "protect"} => base.status = "running"
        /\ job.pc = "protect" => base.meta = StampOf(job.env)

PreparedInv ==
    prepared # NoEnv =>
        /\ base.status = "stopped" /\ base.protected
        /\ base.meta = StampOf(prepared)
        /\ ~ResolveFails(prepared) /\ ~Extracts(prepared)

IInv == TypeOK /\ JobInv /\ PreparedInv

=============================================================================
