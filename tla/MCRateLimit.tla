----------------------------- MODULE MCRateLimit -----------------------------
(* RateLimit for TLC: requests are interchangeable.                         *)
EXTENDS RateLimit, TLC

ReqSymmetry == Permutations(Req)

=============================================================================
