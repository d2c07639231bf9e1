------------------------------ MODULE MCLockOrder ------------------------------
(* Instances of LockOrder for TLC. *)
EXTENDS LockOrder, TLC

Run(root, kinds, oneTwoPathCall) ==
  [root |-> root, kinds |-> kinds, oneTwoPathCall |-> oneTwoPathCall]

(* The daemons whose calls are orderly. *)
User == Run(FALSE, Kind, TRUE)

RootDaemon == Run(TRUE, Kind \ {"fallback"}, TRUE)

OrderlySettings == {User, RootDaemon}

(* Those, and the daemons of which anything may be asked. *)
AllSettings == OrderlySettings \cup {Run(FALSE, Kind, FALSE), Run(TRUE, Kind, FALSE)}

Symmetry == Permutations(Workers) \cup Permutations(Names)
================================================================================
