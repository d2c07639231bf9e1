--------------------------- MODULE MCLocalCacheLock ---------------------------
(* Instances of LocalCacheLock for TLC. *)
EXTENDS LocalCacheLock, TLC

Symmetry == Permutations(Threads) \cup Permutations(Names)
==============================================================================
