--------------------------- MODULE MCSessionCache ---------------------------
(* SessionCache with music tracks only: the cache cannot tell kinds apart.   *)
EXTENDS SessionCache, TLC

MCKind == [a \in Asset |-> "music"]

RequestSymmetry == Permutations(Req)
=============================================================================
