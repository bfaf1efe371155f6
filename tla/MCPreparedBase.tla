--------------------------- MODULE MCPreparedBase ---------------------------
(* Few processes of few versions for TLC. *)
EXTENDS PreparedBase

CONSTANTS p1, p2, p3, v1, v2
=============================================================================
