------------------------------- MODULE MCPipeline -------------------------------
(* Small instances of Pipeline for TLC. *)
EXTENDS Pipeline, TLC

\* Documents, which also stand for callers, recordings and chunks, are alike, and
\* so are the names that chunks give.
PipelineSymmetry == Permutations(Documents) \cup Permutations(Names)

=============================================================================
