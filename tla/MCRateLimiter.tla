---------------------------- MODULE MCRateLimiter ----------------------------
(***************************************************************************)
(* Three callers of a window of two requests in two units.               *)
(***************************************************************************)
EXTENDS RateLimiter

CONSTANTS c1, c2, c3
=============================================================================
