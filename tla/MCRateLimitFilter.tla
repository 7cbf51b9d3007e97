------------------------- MODULE MCRateLimitFilter -------------------------
(* RateLimitFilter on a small instance.  Bucket objects are interchangeable. *)
EXTENDS RateLimitFilter, TLC

BucketSymmetry == Permutations(BucketId)
=============================================================================
