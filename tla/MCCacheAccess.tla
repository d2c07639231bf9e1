----------------------------- MODULE MCCacheAccess -----------------------------
(* Instances of CacheAccess for TLC.  Paths have names of their own in the cache, as
   SHA256 digests give them, or two of them share one. *)
EXTENDS CacheAccess, TLC

CONSTANTS a, b, c, na, nb

OwnName == a :> na @@ b :> nb

SharedName == a :> na @@ b :> nb @@ c :> na

Symmetry == Permutations(Workers) \cup Permutations(Fds)
================================================================================
