--------------------------- MODULE MCCommandRunner ---------------------------
(* A command with one helper in its group and one that leaves it. *)
EXTENDS CommandRunner
=============================================================================
