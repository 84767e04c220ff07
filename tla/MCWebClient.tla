------------------------------ MODULE MCWebClient ------------------------------
(* The run of WebClient; its liveness rules out symmetry. *)
EXTENDS WebClient
===============================================================================
