----------------------------- MODULE MCPipeline -----------------------------
(* Small instances of JobPipeline for TLC.                                 *)
EXTENDS JobPipeline, TLC

\* Workers are interchangeable: no action or invariant names one.
WorkerSymmetry == Permutations(Workers)
=============================================================================
