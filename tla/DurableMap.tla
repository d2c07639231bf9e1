------------------------------- MODULE DurableMap -------------------------------
(***************************************************************************)
(* What the index of the cached files promises: a map in memory, and on    *)
(* disk another that is never older than the last entry made, from which   *)
(* the memory is restored after a crash for the names still in use.        *)
(***************************************************************************)
CONSTANTS Names,      (* what the map is asked for                          *)
          Values,     (* what it may answer                                 *)
          None,       (* no entry                                           *)
          Restored(_) (* what comes back of a value that went to disk       *)

VARIABLES memory,  (* the map while the daemon runs                *)
          disk,    (* the map a restart would start from           *)
          open,    (* names whose entry is being made              *)
          up,      (* the daemon runs                              *)
          lossy    (* the disk may lose entries                    *)

vars == <<memory, disk, open, up, lossy>>

Empty == [n \in Names |-> None]

Init == /\ disk \in [Names -> {None}]
        /\ memory = Empty
        /\ open = {}
        /\ up \in BOOLEAN
        /\ lossy \in BOOLEAN

(* An entry is made in memory and then committed. *)
Enter(n, v) == /\ up
               /\ memory' = [memory EXCEPT ![n] = v]
               /\ open' = open \cup {n}
               /\ UNCHANGED <<disk, up, lossy>>

Commit(n) == /\ n \in open
             /\ disk' = [disk EXCEPT ![n] = Restored(memory[n])]
             /\ open' = open \ {n}
             /\ UNCHANGED <<memory, up, lossy>>

(* A name is taken out of the memory, and out of the disk some time later. *)
Forget(n) == /\ up
             /\ memory' = [memory EXCEPT ![n] = None]
             /\ UNCHANGED <<disk, open, up, lossy>>

Compact == /\ disk' = [n \in Names |-> Restored(memory[n])]
           /\ UNCHANGED <<memory, open, up, lossy>>

Crash == /\ memory' = Empty
         /\ open' = {}
         /\ up' = FALSE
         /\ UNCHANGED <<disk, lossy>>

(* The names in use get the entries the disk has. *)
Restart == \E used \in SUBSET Names :
  /\ ~up
  /\ memory' = [n \in Names |-> IF n \in used THEN disk[n] ELSE None]
  /\ up' = TRUE
  /\ UNCHANGED <<disk, open, lossy>>

(* Something went wrong with the disk. *)
Lose == /\ lossy
        /\ disk' \in [Names -> Values \cup {None}]
        /\ open' \in SUBSET open
        /\ UNCHANGED <<memory, up, lossy>>

Next == \/ \E n \in Names : (\E v \in Values : Enter(n, v)) \/ Commit(n) \/ Forget(n)
        \/ Compact \/ Crash \/ Restart \/ Lose

Spec == Init /\ [][Next]_vars
================================================================================
