---------------------------- MODULE GuestAccess ----------------------------
(***************************************************************************)
(* The commands that reach into a session's guest with no lock, composed   *)
(* with the launch and the ports of that session: run and shell with their *)
(* --env, ssh and logs of the guest, and export.  Each resolves the        *)
(* session, boots the VM if a first look says it does not run, and then    *)
(* works step by step, so that the calls of one session meet in its VM, in *)
(* its one command.env and on the host's file system.                      *)
(***************************************************************************)
EXTENDS PublishedPorts

CONSTANTS
    Calls,       \* bound: the calls of run, shell, ssh, logs and export
    NoCall       \* nobody's environment

ASSUME GuestAccessAssumption == NoCall \notin Calls

VARIABLES
    mode,        \* of the session, "repo" or "sandbox"
    file,        \* command.env: whose environment it exports, whether it is 0600
    taken,       \* whether the host path exported to exists
    pc,          \* per call: its next step,
    gives,       \*   whether it has an environment to hand over,
    temp,        \*   whether its temporary file is on the host,
    failed,      \*   whether a step failed,
    saw,         \*   the command.env its command runs with,
    ended        \*   the calls that were over when it began

guestVars == <<mode, file, taken, pc, gives, temp, failed, saw, ended>>
vars == <<portVars, guestVars>>

Pcs == {"idle", "ensure", "start", "restop", "restart", "temp", "mkdir", "copy",
        "chmod", "cleanup", "ssh", "guest", "test", "copyout", "done"}

SecretFile == [owner: Calls \cup {NoCall}, private: BOOLEAN]
NoFile == [owner |-> NoCall, private |-> FALSE]

TypeOK ==
    /\ PortTypeOK
    /\ mode \in {"repo", "sandbox"} /\ file \in SecretFile /\ taken \in BOOLEAN
    /\ pc \in [Calls -> Pcs] /\ gives \in [Calls -> BOOLEAN]
    /\ temp \in [Calls -> BOOLEAN] /\ failed \in [Calls -> BOOLEAN]
    /\ saw \in [Calls -> SecretFile] /\ ended \in [Calls -> SUBSET Calls]

Init ==
    /\ PortInit
    /\ mode \in {"repo", "sandbox"} /\ file = NoFile /\ taken = FALSE
    /\ pc = [c \in Calls |-> "idle"] /\ gives = [c \in Calls |-> FALSE]
    /\ temp = [c \in Calls |-> FALSE] /\ failed = [c \in Calls |-> FALSE]
    /\ saw = [c \in Calls |-> NoFile] /\ ended = [c \in Calls |-> {}]

-------------------------------------------------------------------------------
(* Paths in the guest *)

Home == <<"home", "user">>

\* sandbox_workspace_path and repo_workspace_path.
Workspace ==
    Home \o IF mode = "sandbox" THEN <<"sandbox", "name">> ELSE <<"workspaces", "name", "repo">>

\* guest_secret_path takes the third ancestor of the workspace for the home.
SecretDir ==
    SubSeq(Workspace, 1, Len(Workspace) - 3) \o <<".agbranch", "secrets", "name">>

\* mkdir -p as the user of the guest, who may write in the home only.
CanMake(dir) == IsPrefix(Home, dir)

-------------------------------------------------------------------------------
Over == {c \in Calls : pc[c] = "done"}

Goto(c, l) == pc' = [pc EXCEPT ![c] = l] /\ UNCHANGED failed
FailTo(c, l) == pc' = [pc EXCEPT ![c] = l] /\ failed' = [failed EXCEPT ![c] = TRUE]

world == <<rules, launchVars, busy, mode>>
vmState == <<vm, active, listening>>
callVars == <<gives, ended>>

\* resolve_connection: the row and the instance have to be there.
Begin(c, e) ==
    /\ pc[c] = "idle"
    /\ IF vm = "none" THEN FailTo(c, "done") ELSE Goto(c, "ensure")
    /\ gives' = [gives EXCEPT ![c] = e] /\ ended' = [ended EXCEPT ![c] = Over]
    /\ UNCHANGED <<world, vmState, file, taken, temp, saw>>

FirstStep(c) == IF gives[c] THEN "temp" ELSE "ssh"

\* ensure_instance_running looks at a second listing, which may fail.
Ensure(c) ==
    /\ pc[c] = "ensure"
    /\ \/ Goto(c, IF vm = "running" THEN FirstStep(c) ELSE "start")
       \/ FailTo(c, "done")
    /\ UNCHANGED <<world, vmState, file, taken, callVars, temp, saw>>

\* limactl start, which an instance that runs already does not mind; only the
\* first of the two has another try when Lima exits early.
Start(c) ==
    /\ pc[c] \in {"start", "restart"}
    /\ \/ PowerOn /\ Goto(c, FirstStep(c))
       \/ UNCHANGED <<vm, active>> /\ FailTo(c, "done")
       \/ UNCHANGED <<vm, active>> /\ pc[c] = "start" /\ Goto(c, "restop")
    /\ UNCHANGED <<world, listening, file, taken, callVars, temp, saw>>

\* The stop before the second try: whoever else uses the VM, and its error ignored.
Restop(c) ==
    /\ pc[c] = "restop" /\ Goto(c, "restart")
    /\ \/ PowerOff /\ listening' = {}
       \/ UNCHANGED vmState
    /\ UNCHANGED <<world, file, taken, callVars, temp, saw>>

-------------------------------------------------------------------------------
(* materialize_guest_secret *)

MakeTemp(c) ==
    /\ pc[c] = "temp"
    /\ \/ temp' = [temp EXCEPT ![c] = TRUE] /\ Goto(c, "mkdir")
       \/ UNCHANGED temp /\ FailTo(c, "done")
    /\ UNCHANGED <<world, vmState, file, taken, callVars, saw>>

Mkdir(c) ==
    /\ pc[c] = "mkdir"
    /\ \/ vm = "running" /\ CanMake(SecretDir) /\ Goto(c, "copy")
       \/ FailTo(c, "cleanup")
    /\ UNCHANGED <<world, vmState, file, taken, callVars, temp, saw>>

\* limactl copy replaces the file, with what mode is up to rsync; it may also
\* fail after that.
Copy(c) ==
    /\ pc[c] = "copy"
    /\ \/ /\ vm = "running"
          /\ \E p \in BOOLEAN : file' = [owner |-> c, private |-> p]
          /\ Goto(c, "chmod") \/ FailTo(c, "cleanup")
       \/ UNCHANGED file /\ FailTo(c, "cleanup")
    /\ UNCHANGED <<world, vmState, taken, callVars, temp, saw>>

\* Mutant: a chmod that fails is not the copy's failure.
ChmodIgnored(c) ==
    /\ pc[c] = "chmod" /\ Goto(c, "cleanup")
    /\ \/ vm = "running" /\ file' = [file EXCEPT !.private = TRUE]
       \/ UNCHANGED file
    /\ UNCHANGED <<world, vmState, taken, callVars, temp, saw>>

Chmod(c) ==
    /\ pc[c] = "chmod"
    /\ \/ vm = "running" /\ file' = [file EXCEPT !.private = TRUE] /\ Goto(c, "cleanup")
       \/ UNCHANGED file /\ FailTo(c, "cleanup")
    /\ UNCHANGED <<world, vmState, taken, callVars, temp, saw>>

\* Mutant: only the error of the removal ends the call.
CleanupThenRun(c) ==
    /\ pc[c] = "cleanup"
    /\ \/ temp' = [temp EXCEPT ![c] = FALSE] /\ Goto(c, "ssh")
       \/ UNCHANGED temp /\ FailTo(c, "done")
    /\ UNCHANGED <<world, vmState, file, taken, callVars, saw>>

\* finalize_temp_secret_file removes the temporary file whatever came of the copy,
\* and either's error ends the call.
Cleanup(c) ==
    /\ pc[c] = "cleanup"
    /\ \/ temp' = [temp EXCEPT ![c] = FALSE] /\ Goto(c, IF failed[c] THEN "done" ELSE "ssh")
       \/ UNCHANGED temp /\ FailTo(c, "done")
    /\ UNCHANGED <<world, vmState, file, taken, callVars, saw>>

-------------------------------------------------------------------------------
\* ssh into the guest; a call that handed something over has command.env sourced,
\* if it is there.
Ssh(c) ==
    /\ pc[c] = "ssh"
    /\ \/ /\ vm = "running" /\ Goto(c, "guest")
          /\ saw' = [saw EXCEPT ![c] = IF gives[c] THEN file ELSE NoFile]
       \/ UNCHANGED saw /\ FailTo(c, "done")
    /\ UNCHANGED <<world, vmState, file, taken, callVars, temp>>

\* run_host_command reports the status of the command.
Finish(c) ==
    /\ pc[c] = "guest"
    /\ Goto(c, "done") \/ FailTo(c, "done")
    /\ saw' = [saw EXCEPT ![c] = NoFile]
    /\ UNCHANGED <<world, vmState, file, taken, callVars, temp>>

\* The process of a call is killed, with its temporary file where it is.
Die(c) ==
    /\ pc[c] \notin {"idle", "done"} /\ FailTo(c, "done")
    /\ saw' = [saw EXCEPT ![c] = NoFile]
    /\ UNCHANGED <<world, vmState, file, taken, callVars, temp>>

-------------------------------------------------------------------------------
(* export *)

Export(c, force) ==
    /\ pc[c] = "idle" /\ lpc # "none"
    /\ IF (force \/ ~taken) /\ mode = "sandbox" THEN Goto(c, "test") ELSE FailTo(c, "done")
    /\ ended' = [ended EXCEPT ![c] = Over]
    /\ UNCHANGED <<world, vmState, file, taken, gives, temp, saw>>

\* guest_path_is_directory takes exit status 1 for "no", and that is also what
\* limactl answers for a VM that does not run.
Test(c) ==
    /\ pc[c] = "test"
    /\ Goto(c, "copyout") \/ FailTo(c, "done")
    /\ UNCHANGED <<world, vmState, file, taken, callVars, temp, saw>>

CopyOut(c) ==
    /\ pc[c] = "copyout"
    /\ \/ vm = "running" /\ taken' = TRUE /\ Goto(c, "done")
       \/ taken' \in {taken, TRUE} /\ FailTo(c, "done")
    /\ UNCHANGED <<world, vmState, file, callVars, temp, saw>>

-------------------------------------------------------------------------------
\* A step of the launch, of the VM or of those who take host ports; command.env goes with it.
Session ==
    /\ PortNext
    /\ file' = IF vm' = "none" THEN NoFile ELSE file
    /\ UNCHANGED <<mode, taken, pc, gives, temp, failed, saw, ended>>

\* logs of the guest or its kernel, and ssh, hand no environment over.
ReadGuestLogs(c) == Begin(c, FALSE)

\* run, and shell, which differ in what the guest is asked to do.
RunStep(c) ==
    \/ \E e \in BOOLEAN : Begin(c, e)
    \/ ReadGuestLogs(c)
    \/ Ensure(c) \/ Start(c) \/ Restop(c)
    \/ MakeTemp(c) \/ Mkdir(c) \/ Copy(c) \/ Chmod(c) \/ Cleanup(c)
    \/ Ssh(c) \/ Finish(c) \/ Die(c)

ExportStep(c) == (\E force \in BOOLEAN : Export(c, force)) \/ Test(c) \/ CopyOut(c)

Next == Session \/ \E c \in Calls : RunStep(c) \/ ExportStep(c)

Spec == Init /\ [][Next]_vars

-------------------------------------------------------------------------------
\* A command starts with no environment if its call gave none, and otherwise with
\* its own or that of a call it overlapped: never with what an earlier call left
\* in command.env, whichever step of its own hand-over failed.
NoStaleSecrets ==
    \A c \in Calls :
        /\ saw[c].owner # NoCall => gives[c] /\ saw[c].owner \notin ended[c]
        /\ pc[c] = "guest" /\ gives[c] => saw[c].owner # NoCall

\* The environment is readable by its user alone when its own command starts, and
\* it is in clear on the host after the call only if the call was killed or
\* reported a failure.
SecretsAreKept ==
    \A c \in Calls :
        /\ saw[c].owner = c => saw[c].private
        /\ temp[c] => \/ pc[c] \in {"mkdir", "copy", "chmod", "cleanup"}
                      \/ pc[c] = "done" /\ failed[c]

-------------------------------------------------------------------------------
(* The inductive invariant behind them *)

\* The copy and, from then on, the chmod of call c have succeeded.
Copied(c) == gives[c] /\ pc[c] \in {"chmod", "ssh", "cleanup"} /\ (pc[c] = "cleanup" => ~failed[c])
HandedOver(c) == Copied(c) /\ pc[c] # "chmod"

\* No call is past its first look at the VM before there is one.
WaitInv ==
    lpc \in {"none", "clone"} => \A c \in Calls : pc[c] \in {"idle", "test", "copyout", "done"}

EndedInv == \A c \in Calls : \A d \in ended[c] : pc[d] = "done"

SawInv == \A c \in Calls : pc[c] # "guest" => saw[c] = NoFile

\* Until its own command starts, command.env holds the environment of the call or
\* one that a call it overlaps put in its place.
OwnerInv ==
    vm # "none" => \A c \in Calls :
        Copied(c) => file.owner # NoCall /\ file.owner \notin ended[c]

PrivateInv == \A c \in Calls : HandedOver(c) /\ file.owner = c => file.private

HandOverInv == WaitInv /\ EndedInv /\ SawInv /\ OwnerInv /\ PrivateInv

AccessInv == TypeOK /\ PortInv /\ HandOverInv /\ NoStaleSecrets /\ SecretsAreKept

===============================================================================
