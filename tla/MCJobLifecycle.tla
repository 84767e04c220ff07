---------------------------- MODULE MCJobLifecycle ----------------------------
(* The runs of JobLifecycle; their temporal properties rule out symmetry. *)
EXTENDS JobLifecycle
===============================================================================
