---------------------------- MODULE MCRateLimiter ----------------------------
(***************************************************************************)
(* Symmetry of RateLimiter for the runs of TLC that check no liveness.     *)
(***************************************************************************)
EXTENDS RateLimiter, TLC

Symmetry == Permutations(Req) \union Permutations(Addr)
=============================================================================
