--------------------------- MODULE MCLineageGraph ---------------------------
(* Small instances of LineageGraph for TLC. *)
EXTENDS LineageGraph, TLC

CONSTANTS a, b

=============================================================================
