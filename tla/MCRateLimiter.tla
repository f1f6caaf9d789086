--------------------------- MODULE MCRateLimiter ----------------------------
(***************************************************************************)
(* Instances of RateLimiter.  The threads are alike, and no liveness is    *)
(* checked: symmetry is sound.                                             *)
(***************************************************************************)
EXTENDS RateLimiter, TLC

CONSTANTS t1, t2

ThreadSymmetry == Permutations(Threads)

=============================================================================
