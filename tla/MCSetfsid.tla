------------------------------ MODULE MCSetfsid ------------------------------
(* Instances of Setfsid for TLC. *)
EXTENDS Setfsid

(* Every build, parallel and serial, by root and by a user. *)
AllSettings == Setting

(* A root user, a user whose uid a bool can keep, and one whose uid it cannot. *)
SomeUids == {0, 1, 1000}
================================================================================
