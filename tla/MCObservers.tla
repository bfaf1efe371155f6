----------------------------- MODULE MCObservers -----------------------------
(* A small instance of Observers for TLC. *)
EXTENDS Observers, TLC

SomeLives == {"none", "cloning", "running", "stopped", "closed"}
SomeActive == {"cloning", "running"}
AllTools == {"watch", "logs", "ps", "doctor"}
SomeColumns == {"c1", "c2"}
=============================================================================
