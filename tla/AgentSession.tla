----------------------------- MODULE AgentSession -----------------------------
(***************************************************************************)
(* The agent of ONE open session: the remembered decisions on importing    *)
(* credentials, what `agent start` puts into the guest and into the row,   *)
(* and the tmux windows it starts the provider in.                         *)
(*                                                                         *)
(* agent start, start, kill and attach take no lock, so two of them may be *)
(* under way.  launch, open and retry run the same phases under the        *)
(* session lock; they are starts with the provider the row already names.  *)
(* The tmux commands of a start are one script in the guest; each command  *)
(* is a step, and the scripts of two starts mix.                           *)
(***************************************************************************)
EXTENDS Integers, FiniteSets

CONSTANTS
    Procs,       \* agbranch processes that may run at the same time
    Providers,   \* ProviderKind
    None,        \* no provider
    Files,       \* the sources that are files; the others are variables
    Users,       \* the users: the providers one starts; the values of --auth given,
                 \* "unset" without one; what is done next to agent start; and per
                 \* provider the sets of sources detect_auth may find on the host
    MaxWindows   \* bound: tmux windows at one time

Sources == UNION {UNION UNION {u.found[k] : k \in Providers} : u \in Users}

ASSUME AgentAssumption ==
    /\ None \notin Providers
    /\ \A u \in Users :
        /\ u.providers \subseteq Providers
        /\ u.flags \subseteq {"import", "none", "ask", "unset"}
        /\ u.commands \subseteq {"auth", "start", "kill", "attach", "exit"}
        /\ \A k \in Providers : u.found[k] # {}
    /\ MaxWindows \in Nat \ {0}

VARIABLES
    user,      \* the one who works with the session
    prefs,     \* provider_preferences: "import", "none" or "unset"
    kind,      \* provider_kind of the row
    recorded,  \* imported_provider_files_json of the row, which names the sources;
               \* here with the values the named variables had
    guest,     \* credential files in the guest
    authEnv,   \* variables in agent.env
    vm,        \* the VM is running
    windows,   \* the windows of the guest's tmux session
    current,   \* its current window; without a window tmux ends
    pc,        \* per process: next step
    job,       \* per process: what it was asked for
    selected,  \* per process: sources to import
    ensured,   \* history: a start has seen to a shell window in this boot of the VM
    raced,     \* history: in this boot a script looked for the tmux session or the
               \* shell window while another was between its look and its new window
    alone,     \* history: the start under way that no other has overlapped
    settled    \* history: the row is that of a start that ran alone, and none has
               \* reached the guest's variables or the agent window since

row == <<user, kind, recorded>>
disk == <<guest, authEnv>>
tmux == <<windows, current>>
local == <<job, selected>>
history == <<ensured, raced, alone, settled>>
vars == <<prefs, row, disk, vm, tmux, pc, local, history>>

Idle == "idle"
NoJob == [op |-> Idle, kind |-> None]
Jobs == [op : {"agent", "start", "shell_window", "agent_window", Idle},
         kind : Providers \cup {None}]
\* The steps of the guest's script.
ScriptPcs == {"has", "create", "list", "open", "keep", "kill", "window", "option", "line"}
StartPcs == {"resolve", "prompt", "boot", "bootstrap", "copy", "env", "record"} \cup ScriptPcs

Ids == 1 .. MaxWindows
NoWindow == [name |-> "none", live |-> FALSE, keep |-> FALSE, runs |-> None]
Window == [name : {"shell", "agent", "none"}, live : BOOLEAN, keep : BOOLEAN,
           runs : Providers \cup {None}]

TypeOK ==
    /\ user \in Users
    /\ prefs \in [Providers -> {"import", "none", "unset"}]
    /\ kind \in Providers \cup {None}
    /\ recorded \subseteq Sources /\ guest \subseteq Sources /\ authEnv \subseteq Sources
    /\ vm \in BOOLEAN
    /\ windows \in [Ids -> Window] /\ current \in Ids \cup {0}
    /\ pc \in [Procs -> StartPcs \cup {"probe", "select", Idle}]
    /\ job \in [Procs -> Jobs]
    /\ selected \in [Procs -> SUBSET Sources]
    /\ ensured \in BOOLEAN /\ raced \in BOOLEAN /\ settled \in BOOLEAN
    /\ alone \subseteq Procs

\* A session has been launched, with a provider or without one.
Init ==
    /\ user \in Users
    /\ prefs = [k \in Providers |-> "unset"]
    /\ kind \in user.providers \cup {None} /\ recorded = {}
    /\ guest = {} /\ authEnv = {}
    /\ vm = TRUE
    /\ windows = [w \in Ids |-> IF w # 1 THEN NoWindow ELSE
                   [name |-> "shell", live |-> TRUE, keep |-> TRUE, runs |-> None]]
    /\ current = 1
    /\ pc = [p \in Procs |-> Idle]
    /\ job = [p \in Procs |-> NoJob]
    /\ selected = [p \in Procs |-> {}]
    /\ ensured = TRUE /\ raced = FALSE /\ alone = {} /\ settled = TRUE

Goto(p, l) == pc' = [pc EXCEPT ![p] = l]
Step(p, l, m) == pc[p] = l /\ Goto(p, m)

Exit(p) ==
    /\ Goto(p, Idle)
    /\ job' = [job EXCEPT ![p] = NoJob]
    /\ selected' = [selected EXCEPT ![p] = {}]
    /\ alone' = alone \ {p}

Asked(p, op, k) == job' = [job EXCEPT ![p] = [op |-> op, kind |-> k]]

-------------------------------------------------------------------------------
(* The decision to import *)

\* remember_auth_import
Remember(k, import) ==
    prefs' = [prefs EXCEPT ![k] = IF import THEN "import" ELSE "none"]

\* auth set, auth reset and auth reset --all
AuthSet ==
    /\ "auth" \in user.commands
    /\ \E k \in user.providers, import \in BOOLEAN : Remember(k, import) /\ prefs' # prefs
    /\ UNCHANGED <<row, disk, vm, tmux, pc, local, history>>

AuthReset ==
    /\ "auth" \in user.commands
    /\ \E K \in {{k} : k \in user.providers} \cup {Providers} :
        prefs' = [k \in Providers |-> IF k \in K THEN "unset" ELSE prefs[k]]
    /\ prefs' # prefs
    /\ UNCHANGED <<row, disk, vm, tmux, pc, local, history>>

Starting(p) == pc[p] # Idle /\ job[p].op = "agent"

\* ensure_session_provider: another provider than the row's is refused.
Compatible(k) == kind \in {None, k}

StartBegin(p) ==
    /\ pc[p] = Idle
    /\ \E k \in user.providers : Compatible(k) /\ Asked(p, "agent", k)
    /\ Goto(p, "resolve")
    /\ alone' = IF \E q \in Procs : Starting(q) THEN {} ELSE {p}
    /\ UNCHANGED <<prefs, row, disk, vm, tmux, selected, ensured, raced, settled>>

\* Mutant: without a terminal, what can be detected is imported.
DecisionWithoutTerminal(m, pref, d, tty) ==
    CASE m \in {"import", "none"} -> m
      [] m = "ask" -> IF d = {} THEN "nothing" ELSE IF tty THEN "prompt" ELSE "error"
      [] m = "unset" /\ pref # "unset" -> pref
      [] OTHER -> IF d = {} THEN "nothing" ELSE IF tty THEN "prompt" ELSE "import"

\* What the flag and the remembered decision say of detected sources d; a prompt
\* only where there is a terminal and something to import.
Decision(m, pref, d, tty) ==
    CASE m \in {"import", "none"} -> m
      [] m = "ask" -> IF d = {} THEN "nothing" ELSE IF tty THEN "prompt" ELSE "error"
      [] m = "unset" /\ pref # "unset" -> pref
      [] OTHER -> IF d # {} /\ tty THEN "prompt" ELSE "nothing"

\* resolve_auth_imports, with the --auth flag m; only a flag is remembered here.
Resolve(p) ==
    LET k == job[p].kind IN
    /\ pc[p] = "resolve"
    /\ \E m \in user.flags, tty \in BOOLEAN, d \in user.found[k] :
        LET verdict == Decision(m, prefs[k], d, tty) IN
        /\ verdict # "error"
        /\ selected' = [selected EXCEPT ![p] =
                            IF verdict \in {"import", "prompt"} THEN d ELSE {}]
        /\ Goto(p, IF verdict = "prompt" THEN "prompt" ELSE "boot")
        /\ IF m \in {"import", "none"} THEN Remember(k, m = "import")
                                       ELSE UNCHANGED prefs
    /\ UNCHANGED <<row, disk, vm, tmux, job, history>>

\* confirm_import: the answer is remembered, whatever was set in the meantime.
Prompt(p) ==
    /\ Step(p, "prompt", "boot")
    /\ \E yes \in BOOLEAN :
        /\ Remember(job[p].kind, yes)
        /\ selected' = IF yes THEN selected ELSE [selected EXCEPT ![p] = {}]
    /\ UNCHANGED <<row, disk, vm, tmux, job, history>>

-------------------------------------------------------------------------------
(* What goes into the guest *)

EnsureInstanceRunning(p) ==
    /\ Step(p, "boot", IF job[p].op = "start" THEN "has" ELSE "bootstrap")
    /\ vm' = TRUE
    /\ UNCHANGED <<prefs, row, disk, tmux, local, history>>

\* ensure_provider_binary_available, and install_provider_bootstrap_files, which
\* leaves a file that is there alone: not part of the state.
Bootstrap(p) ==
    /\ vm
    /\ Step(p, "bootstrap", "copy")
    /\ UNCHANGED <<prefs, row, disk, vm, tmux, local, history>>

\* One file after the other.
CopyFile(p) ==
    /\ vm /\ pc[p] = "copy"
    /\ \E f \in selected[p] \cap Files : f \notin guest /\ guest' = guest \cup {f}
    /\ UNCHANGED <<prefs, row, authEnv, vm, tmux, pc, local, history>>

\* Mutant: a file that cannot be copied is left out.
FilesSkipped(p) ==
    /\ Step(p, "copy", "env")
    /\ UNCHANGED <<prefs, row, disk, vm, tmux, local, history>>

FilesCopied(p) ==
    /\ selected[p] \cap Files \subseteq guest
    /\ Step(p, "copy", "env")
    /\ UNCHANGED <<prefs, row, disk, vm, tmux, local, history>>

AuthEnvIs(p, env) ==
    /\ vm
    /\ Step(p, "env", "has")
    /\ IF selected[p] \subseteq Files THEN UNCHANGED <<authEnv, settled>>
                                     ELSE authEnv' = env /\ settled' = FALSE
    /\ UNCHANGED <<prefs, row, guest, vm, tmux, local, ensured, raced, alone>>

\* Mutant: an agent.env that is there is left alone, as the bootstrap files are.
AuthEnvKept(p) == AuthEnvIs(p, IF authEnv = {} THEN selected[p] \ Files ELSE authEnv)

\* The whole agent.env is replaced, but never by an empty one.
WriteAuthEnv(p) == AuthEnvIs(p, selected[p] \ Files)

-------------------------------------------------------------------------------
(* The guest's windows *)

Named(n) == {w \in Ids : windows[w].name = n}

\* tmux finds a window by its name when no other has the name too.
Only(n, w) == Named(n) = {w}
Ambiguous(n) == \A w \in Ids : ~Only(n, w)

NewWindow(n) == [name |-> n, live |-> TRUE, keep |-> FALSE, runs |-> None]

\* new-window, which needs a tmux session; new-session of the first one.
OpenWindow(n) ==
    \E w \in Named("none") :
        /\ \A v \in Named("none") : w <= v
        /\ windows' = [windows EXCEPT ![w] = NewWindow(n)]
        /\ current' = w

OpenIfTmux(n) == IF current = 0 THEN UNCHANGED tmux ELSE OpenWindow(n)

\* Any of the windows that are left becomes the current one.
Close(w) ==
    LET left == Ids \ (Named("none") \cup {w}) IN
    /\ windows' = [windows EXCEPT ![w] = NoWindow]
    /\ current' \in IF current # w THEN {current} ELSE IF left = {} THEN {0} ELSE left

CloseAgent == \E w \in Ids : Only("agent", w) /\ Close(w)

\* set-window-option remain-on-exit, which fails in silence.
Kept(n) == [w \in Ids |-> IF Only(n, w) THEN [windows[w] EXCEPT !.keep = TRUE] ELSE windows[w]]

\* From its look at the session or its windows until it has opened one.
OpeningPcs == {"create", "list", "open"}

\* has-session
HasSession(p) ==
    /\ vm
    /\ Step(p, "has", IF current = 0 THEN "create" ELSE "list")
    /\ raced' = (raced \/ \E q \in Procs : pc[q] \in OpeningPcs)
    /\ UNCHANGED <<prefs, row, disk, vm, tmux, local, ensured, alone, settled>>

\* || new-session: a failure, where another script has made it, is taken for a
\* shell window that is missing.
NewSession(p) ==
    /\ vm
    /\ IF current = 0 THEN Step(p, "create", "list") /\ OpenWindow("shell")
                      ELSE Step(p, "create", "open") /\ UNCHANGED tmux
    /\ UNCHANGED <<prefs, row, disk, vm, local, history>>

\* list-windows | grep
ListWindows(p) ==
    /\ vm
    /\ Step(p, "list", IF Named("shell") = {} THEN "open" ELSE "keep")
    /\ UNCHANGED <<prefs, row, disk, vm, tmux, local, history>>

\* || new-window; its failure is covered by the || true of the next command.
NewShellWindow(p) ==
    /\ vm
    /\ Step(p, "open", "keep")
    /\ OpenIfTmux("shell")
    /\ UNCHANGED <<prefs, row, disk, vm, local, history>>

KeepAnd(p, left) ==
    /\ vm
    /\ Step(p, "keep", IF job[p].op = "start" THEN "record" ELSE "kill")
    /\ windows' = left
    /\ ensured' = (ensured \/ Named("shell") # {})
    /\ UNCHANGED <<prefs, row, disk, vm, current, local, raced, alone, settled>>

\* Mutant: the shell window closes with its shell.
KeepNothing(p) == KeepAnd(p, windows)

\* remain-on-exit on
KeepShell(p) == KeepAnd(p, Kept("shell"))

\* kill-window || true
KillOldAgent(p) ==
    /\ vm
    /\ Step(p, "kill", "window")
    /\ CloseAgent \/ (Ambiguous("agent") /\ UNCHANGED tmux)
    /\ UNCHANGED <<prefs, row, disk, vm, local, history>>

\* new-window, whose failure is covered by the next || true as well.
NewAgentWindow(p) ==
    /\ vm
    /\ Step(p, "window", "option")
    /\ OpenIfTmux("agent")
    /\ alone' = IF Named("agent") = {} THEN alone ELSE {}
    /\ UNCHANGED <<prefs, row, disk, vm, local, ensured, raced, settled>>

\* remain-on-exit failed
KeepAgent(p) ==
    /\ vm
    /\ Step(p, "option", "line")
    /\ windows' = Kept("agent")
    /\ UNCHANGED <<prefs, row, disk, vm, current, local, history>>

\* send-keys: the line the shim of the provider is started with.  It is lost on
\* a dead pane, and is text to a provider that runs there already.
SendLine(p) ==
    /\ vm
    /\ Step(p, "line", "record")
    /\ \E w \in Ids :
        /\ Only("agent", w)
        /\ windows' = IF windows[w].live /\ windows[w].runs = None
                      THEN [windows EXCEPT ![w].runs = job[p].kind] ELSE windows
    /\ settled' = FALSE
    /\ UNCHANGED <<prefs, row, disk, vm, current, local, ensured, raced, alone>>

RecordAs(p, k) ==
    /\ pc[p] = "record" /\ Exit(p)
    /\ IF job[p].op = "agent"
       THEN /\ kind' = k /\ recorded' = selected[p] /\ settled' = (p \in alone)
            /\ UNCHANGED user
       ELSE UNCHANGED <<row, settled>>
    /\ UNCHANGED <<prefs, disk, vm, tmux, ensured, raced>>

\* Mutant: the provider of the row is left as launch wrote it.
RecordImportsOnly(p) == RecordAs(p, kind)

\* update_agent_metadata; start has no provider to write.
Record(p) == RecordAs(p, job[p].kind)

\* An error, or the end of the process, at any step.
Fail(p) ==
    /\ pc[p] # Idle /\ Exit(p)
    /\ UNCHANGED <<prefs, row, disk, vm, tmux, ensured, raced, settled>>

\* start: boots the VM and ensures the shell.
StartVmBegin(p) ==
    /\ "start" \in user.commands
    /\ Step(p, Idle, "boot")
    /\ Asked(p, "start", None)
    /\ UNCHANGED <<prefs, row, disk, vm, tmux, selected, history>>

\* kill and agent stop: an error when tmux does not find the window.
KillAgent ==
    /\ "kill" \in user.commands
    /\ vm /\ CloseAgent
    /\ UNCHANGED <<prefs, row, disk, vm, pc, local, history>>

-------------------------------------------------------------------------------
(* attach *)

Name(op) == IF op = "shell_window" THEN "shell" ELSE "agent"

AttachBegin(p) ==
    /\ "attach" \in user.commands
    /\ Step(p, Idle, "probe")
    /\ \E op \in {"shell_window", "agent_window"} : Asked(p, op, None)
    /\ UNCHANGED <<prefs, row, disk, vm, tmux, selected, history>>

\* list-panes -t <session>, without -s, lists the current window.
Probed(op) ==
    IF ~vm \/ current = 0 THEN "unknown"
    ELSE IF windows[current].name # Name(op) THEN "missing"
    ELSE IF windows[current].live THEN "live" ELSE "dead"

\* validate_attach_target
AdmitAttach(p) ==
    /\ Step(p, "probe", "select")
    /\ Probed(job[p].op) \in {"live", "dead"}
    /\ UNCHANGED <<prefs, row, disk, vm, tmux, local, history>>

RefuseAttach(p) ==
    /\ pc[p] = "probe" /\ Exit(p)
    /\ Probed(job[p].op) \in {"missing", "unknown"}
    /\ UNCHANGED <<prefs, row, disk, vm, tmux, ensured, raced, settled>>

\* A dead shell is started again; then select-window and attach-session.
Attach(p) ==
    /\ vm /\ pc[p] = "select" /\ Exit(p)
    /\ \E w \in Ids :
        /\ Only(Name(job[p].op), w)
        /\ windows' = IF job[p].op = "shell_window"
                      THEN [windows EXCEPT ![w].live = TRUE] ELSE windows
        /\ current' = w
    /\ UNCHANGED <<prefs, row, disk, vm, ensured, raced, settled>>

-------------------------------------------------------------------------------
(* What happens in the guest *)

Dies(w) ==
    /\ windows' = [windows EXCEPT ![w] = [@ EXCEPT !.live = FALSE, !.runs = None]]
    /\ UNCHANGED current

ShellExits ==
    /\ "exit" \in user.commands
    /\ \E w \in Named("shell") :
        /\ windows[w].live
        /\ IF windows[w].keep THEN Dies(w) ELSE Close(w)
    /\ UNCHANGED <<prefs, row, disk, vm, pc, local, history>>

\* remain-on-exit failed: the pane of an agent that ends well is closed.
AgentExits ==
    /\ "exit" \in user.commands
    /\ \E w \in Named("agent") :
        /\ windows[w].live
        /\ Close(w) \/ (windows[w].keep /\ Dies(w))
    /\ UNCHANGED <<prefs, row, disk, vm, pc, local, history>>

\* A user who is attached goes to another window.
UserSwitches ==
    /\ "attach" \in user.commands
    /\ current' \in Ids \ (Named("none") \cup {current})
    /\ UNCHANGED <<prefs, row, disk, vm, windows, pc, local, history>>

\* The scripts end with the VM.
VmStops ==
    LET cut == {p \in Procs : pc[p] \in ScriptPcs \ {"has"}} IN
    /\ vm /\ vm' = FALSE
    /\ windows' = [w \in Ids |-> NoWindow] /\ current' = 0
    /\ pc' = [p \in Procs |-> IF p \in cut THEN Idle ELSE pc[p]]
    /\ job' = [p \in Procs |-> IF p \in cut THEN NoJob ELSE job[p]]
    /\ selected' = [p \in Procs |-> IF p \in cut THEN {} ELSE selected[p]]
    /\ alone' = alone \ cut
    /\ ensured' = FALSE /\ raced' = FALSE
    /\ UNCHANGED <<prefs, row, disk, settled>>

Outside ==
    \/ AuthSet \/ AuthReset \/ KillAgent
    \/ ShellExits \/ AgentExits \/ UserSwitches \/ VmStops

AgentStep(p) ==
    \/ StartBegin(p) \/ Resolve(p) \/ Prompt(p) \/ EnsureInstanceRunning(p)
    \/ Bootstrap(p) \/ CopyFile(p) \/ FilesCopied(p) \/ WriteAuthEnv(p)
    \/ HasSession(p) \/ NewSession(p) \/ ListWindows(p) \/ NewShellWindow(p)
    \/ KeepShell(p) \/ KillOldAgent(p) \/ NewAgentWindow(p) \/ KeepAgent(p)
    \/ SendLine(p) \/ Record(p) \/ Fail(p) \/ StartVmBegin(p)

AttachStep(p) ==
    AttachBegin(p) \/ AdmitAttach(p) \/ RefuseAttach(p) \/ Attach(p)

Next == (\E p \in Procs : AgentStep(p) \/ AttachStep(p)) \/ Outside

Spec == Init /\ [][Next]_vars

-------------------------------------------------------------------------------
(* Properties *)

\* Sources are chosen by a yes that is remembered when they are chosen.
Consented ==
    \A p \in Procs : pc[p] \in {"resolve", "prompt"} /\ pc'[p] = "boot"
                     /\ selected'[p] # {} => prefs'[job[p].kind] = "import"

\* Credentials are chosen for import only when the last thing the user said of
\* that provider - by a flag, at the prompt, or with auth set - was yes, and
\* nobody has reset it since (docs/commands.md on --auth).
ImportsOnlyWithConsent == [][Consented]_vars

\* The files the row says were imported are in the guest, whichever start, of
\* several that overlap or fail half-way, wrote the row last.
RecordedFilesInGuest == recorded \cap Files \subseteq guest

\* Once a start has seen to a shell window the session has one that a shell's
\* exit does not close, until its VM stops: whatever other starts, kills, exits
\* and deaths follow.  It may not be so when two scripts have looked for the
\* window at the same time: each opens its own, neither is found by its name
\* any more, and no start of this boot keeps one.
ShellOutlivesAgent ==
    ensured /\ ~raced => \E w \in Named("shell") : windows[w].keep

\* After a start that ran alone the row tells what the guest has: the variables
\* it names are in agent.env with the values imported then, and no provider but
\* the row's runs in an agent window.  Starts that fail before they reach
\* agent.env, windows that close, reboots and auth commands do not change that.
\* A start that dies between its first effect on either and its record does; so
\* does an overlap.
RowTellsGuest ==
    settled => /\ recorded \ Files \subseteq authEnv
               /\ \A w \in Named("agent") : windows[w].runs \in {None, kind}

\* attach finds a window missing only when it is.
AttachFindsWindow ==
    \A p \in Procs : pc[p] = "probe" /\ Probed(job[p].op) = "missing"
                     => Named(Name(job[p].op)) = {}

\* What a process does at its step, and with what it has selected.
JobInv ==
    \A p \in Procs :
        /\ pc[p] \in StartPcs => job[p].op \in {"agent", "start"}
        /\ job[p].op = "agent" => job[p].kind \in Providers
        /\ job[p].op = "start" => pc[p] \in {"boot", "has", "keep", "record"} \cup OpeningPcs
        /\ pc[p] = Idle \/ job[p].op = "start" => selected[p] = {}

\* What each process selected is in the guest once it has copied its files.
CopiedPcs == {"env", "record"} \cup ScriptPcs

FilesInv ==
    /\ RecordedFilesInGuest
    /\ \A p \in Procs : pc[p] \in CopiedPcs => selected[p] \cap Files \subseteq guest

\* tmux lives as long as it has a window; while no two scripts look for the shell
\* window at once there is at most one, and none where a script opens one.
WindowInv ==
    /\ current = 0 => Named("none") = Ids
    /\ vm \/ current = 0
    /\ ShellOutlivesAgent
    /\ ~raced =>
         /\ \A v, w \in Named("shell") : v = w
         /\ \A p \in Procs : pc[p] \in OpeningPcs =>
              /\ pc[p] = "create" => current = 0
              /\ pc[p] = "open" => Named("shell") = {}
              /\ \A q \in Procs : pc[q] \in OpeningPcs => p = q

\* What a start has put into the guest when it gets to its record.
PutSoFar(p) ==
    /\ pc[p] \in CopiedPcs \ {"env"} => selected[p] \ Files \subseteq authEnv
    /\ pc[p] \in {"option", "line"} => \A w \in Named("agent") : windows[w].runs = None
    /\ pc[p] = "record" => \A w \in Named("agent") : windows[w].runs \in {None, job[p].kind}

\* A start that is alone is the only one under way, and what it put there stays.
AloneInv ==
    \A p \in alone : Starting(p) /\ PutSoFar(p) /\ \A q \in Procs : Starting(q) => p = q

IInv == TypeOK /\ JobInv /\ FilesInv /\ WindowInv /\ RowTellsGuest /\ AloneInv
=============================================================================
