------------------------------ MODULE MCLockClient ------------------------------
(* Instances of LockClient for TLC. *)
EXTENDS LockClient

CONSTANT slow

(* Fast clients that may die; a fast and a slow one. *)
AllSettings == {[slow |-> {}, crashes |-> TRUE], [slow |-> {slow}, crashes |-> FALSE]}
================================================================================
