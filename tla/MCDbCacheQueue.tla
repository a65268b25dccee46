--------------------------- MODULE MCDbCacheQueue ---------------------------
(* Instances of DbCacheQueue for TLC: the callers are interchangeable.      *)
EXTENDS DbCacheQueue, TLC

CallerSymmetry == Permutations(Callers)
=============================================================================
