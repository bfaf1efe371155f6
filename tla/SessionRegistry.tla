--------------------------- MODULE SessionRegistry ---------------------------
(***************************************************************************)
(* What the commands that change one session promise to those that only    *)
(* look at it: the lifecycle_state of its catalog row and the status of    *)
(* its Lima instance.  The two are never changed at once, and they may     *)
(* disagree; what holds is when each of them may appear and disappear.     *)
(* SessionLifecycle implements this module, Observers looks at it.         *)
(***************************************************************************)
CONSTANTS
    NoRow,    \* the session has no row
    Closed,   \* the final lifecycle_state
    Opening,  \* the lifecycle_state of a row just inserted
    Lives     \* every lifecycle_state, and NoRow

ASSUME RegistryAssumption ==
    /\ {NoRow, Closed, Opening} \subseteq Lives
    /\ NoRow # Closed /\ NoRow # Opening /\ Closed # Opening

VARIABLES
    state,    \* lifecycle_state, or NoRow
    machine   \* what `limactl list` says of the session's instance

registry == <<state, machine>>

Machines == {"absent", "stopped", "running"}

RegistryInit == state = NoRow /\ machine = "absent"

\* insert_session
Insert ==
    /\ state = NoRow
    /\ state' = Opening
    /\ UNCHANGED machine

\* update_lifecycle_state_with_timestamps: Closed only when the VM is gone.
WriteState ==
    /\ state # NoRow
    /\ state' \in Lives \ {NoRow}
    /\ state' = Closed => state = Closed \/ machine = "absent"
    /\ UNCHANGED machine

\* delete_session: only the rollback of a launch.
Forget ==
    /\ state # NoRow
    /\ state' = NoRow
    /\ UNCHANGED machine

\* limactl clone: only for a row that is not closed.
Clone ==
    /\ state \notin {NoRow, Closed}
    /\ machine = "absent"
    /\ machine' = "stopped"
    /\ UNCHANGED state

\* limactl start, limactl stop, a reboot of the host
Power ==
    /\ machine # "absent"
    /\ machine' \in {"stopped", "running"}
    /\ UNCHANGED state

\* limactl delete, by close, repair, a rollback or by hand
Delete ==
    /\ machine' = "absent"
    /\ UNCHANGED state

RegistryNext == Insert \/ WriteState \/ Forget \/ Clone \/ Power \/ Delete

RegistrySpec == RegistryInit /\ [][RegistryNext]_registry
=============================================================================
