--------------------------- MODULE MCBaseReadiness ---------------------------
(* Two assets, one of them a script, and two builds of agbranch.           *)
EXTENDS BaseReadiness

=============================================================================
