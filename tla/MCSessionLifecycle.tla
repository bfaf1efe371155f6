------------------------- MODULE MCSessionLifecycle -------------------------
(* Small instances of SessionLifecycle for TLC. *)
EXTENDS SessionLifecycle, TLC

CONSTANTS p1, p2

TwoProcs == {p1, p2}
Symmetry == Permutations(TwoProcs)

LockedCommands == {"launch", "retry", "close_sync", "close_discard", "sync",
                   "repair", "reboot", "host_branch"}
EveryCommand == AllCommands \cup {"reboot", "host_branch"}
=============================================================================
