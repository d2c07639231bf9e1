------------------------------- MODULE MCCacheGC -------------------------------
(* Instances of CacheGC for TLC. *)
EXTENDS CacheGC, TLC

CONSTANTS fa, fb

Symmetry == Permutations({fa, fb})
================================================================================
