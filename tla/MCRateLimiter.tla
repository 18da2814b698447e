--------------------------- MODULE MCRateLimiter ---------------------------
(* Model values and symmetry for checking RateLimiter with TLC. *)
EXTENDS RateLimiter, TLC

ReqSymmetry == Permutations(Reqs)
============================================================================
