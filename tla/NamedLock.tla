------------------------------ MODULE NamedLock ------------------------------
(***************************************************************************)
(* What the lock on a cached file promises to the handlers of TGEfs: one   *)
(* lock per name, each held by at most one thread, and no request left     *)
(* unanswered while the name it asks for stays free.  LocalCacheLock       *)
(* implements it with one mutex, one condition variable and one set.       *)
(***************************************************************************)
CONSTANTS Threads,  (* the threads that lock cached files       *)
          Names     (* the names of cached files                *)

VARIABLES holds,    (* holds[t]: the names thread t has locked  *)
          wants     (* wants[t]: {} or the name t is asking for *)

vars == <<holds, wants>>

Held == UNION {holds[t] : t \in Threads}

Init == /\ holds = [t \in Threads |-> {}]
        /\ wants = [t \in Threads |-> {}]

Request(t, n) == /\ wants[t] = {}
                 /\ wants' = [wants EXCEPT ![t] = {n}]
                 /\ UNCHANGED holds

Acquire(t) == \E n \in wants[t] :
                 /\ n \notin Held
                 /\ holds' = [holds EXCEPT ![t] = @ \cup {n}]
                 /\ wants' = [wants EXCEPT ![t] = {}]

Release(t, n) == /\ wants[t] = {}
                 /\ n \in holds[t]
                 /\ holds' = [holds EXCEPT ![t] = @ \ {n}]
                 /\ UNCHANGED wants

Next == \E t \in Threads : \/ Acquire(t)
                           \/ \E n \in Names : Request(t, n) \/ Release(t, n)

SafetySpec == Init /\ [][Next]_vars

Spec == SafetySpec /\ \A t \in Threads : WF_vars(Acquire(t))
==============================================================================
