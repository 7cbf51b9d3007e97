-------------------------- MODULE MCAdmissionRate --------------------------
(* AdmissionRate on a small instance.  Bucket objects are interchangeable. *)
EXTENDS AdmissionRate, TLC

BucketSymmetry == Permutations(BucketId)

\* In the instance every client fits in the cache, and an expired bucket has
\* always refilled.
ASSUME InstanceIsSteady == ExpiryIsInvisible /\ CacheFitsClients
=============================================================================
