----------------------------- MODULE MCSyncBack -----------------------------
(* Small histories for TLC. *)
EXTENDS SyncBack

CONSTANTS base, a, x, none

\* base <- a.
TwoCommits == {base, a}
TwoAncestry == {<<c, c>> : c \in TwoCommits} \cup {<<base, a>>}

\* base <- a, and x that descends from neither.
ThreeCommits == {base, a, x}
ThreeAncestry == {<<c, c>> : c \in ThreeCommits} \cup {<<base, a>>}
=============================================================================
