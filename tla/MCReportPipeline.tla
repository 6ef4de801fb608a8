-------------------------- MODULE MCReportPipeline --------------------------
(* Small instances of ReportPipeline for TLC.                              *)
EXTENDS ReportPipeline, TLC

\* Jobs and workers are interchangeable: no action or invariant names one.
Symmetry == Permutations(Jobs) \cup Permutations(Workers)
=============================================================================
