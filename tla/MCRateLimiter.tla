--------------------------- MODULE MCRateLimiter ---------------------------
(* The instance of RateLimiter for TLC: calls differ in nothing.             *)
EXTENDS RateLimiter, TLC

AnyCall == Permutations(Calls)
=============================================================================
