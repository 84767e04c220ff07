-------------------------- MODULE MCAnalysisLifecycle --------------------------
(* The run of AnalysisLifecycle; its temporal properties rule out symmetry. *)
EXTENDS AnalysisLifecycle
===============================================================================
