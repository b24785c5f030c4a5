----------------------------- MODULE MCRateLimiter -----------------------------
(* Instances of RateLimiter for TLC: see the .cfg files. *)
EXTENDS RateLimiter
=============================================================================
