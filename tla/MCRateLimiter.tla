----------------------------- MODULE MCRateLimiter -----------------------------
(* The run of RateLimiter. *)
EXTENDS RateLimiter
===============================================================================
