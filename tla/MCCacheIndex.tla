------------------------------ MODULE MCCacheIndex ------------------------------
(* Instances of CacheIndex for TLC. *)
EXTENDS CacheIndex, TLC

CONSTANTS n1, n2, p, q, nl

(* The paths p and q have the same digest; nl is p followed by a line feed and more. *)
SomePaths == {p, q, nl}

Digest == (p :> n1) @@ (q :> n1) @@ (nl :> n2)

Csv == (p :> p) @@ (q :> q) @@ (nl :> p)

Run(full, collects, takesIndex, reads, c) ==
  [full |-> full, collects |-> collects, takesIndex |-> takesIndex, reads |-> reads,
   crashes |-> c]

(* Readers of /proc/tgefscache without and with collections; collections that leave
   localfiles.csv alone or take it; a full disk. *)
AllSettings == {Run(FALSE, FALSE, FALSE, TRUE, 2), Run(FALSE, TRUE, FALSE, TRUE, 0),
                Run(FALSE, TRUE, FALSE, FALSE, 1), Run(FALSE, TRUE, TRUE, FALSE, 1),
                Run(TRUE, FALSE, FALSE, FALSE, 2)}
================================================================================
