---------------------------- MODULE MCAssetCache ----------------------------
(* A few processes, files and scratch names for TLC. *)
EXTENDS AssetCache

CONSTANTS p1, p2, f1, f2, s1, s2, s3
=============================================================================
