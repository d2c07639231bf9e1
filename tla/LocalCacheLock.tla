---------------------------- MODULE LocalCacheLock ----------------------------
(***************************************************************************)
(* CachedLocalFiles::LocalCacheFileLock of tgefs.cc: the lock each handler *)
(* takes on the name of a cached file.  The names now locked are a         *)
(* set<string>, guarded by one Mutex; every waiter of every name sleeps on *)
(* one ConditionVariable (pmutex.h, pthreads).                             *)
(***************************************************************************)
EXTENDS FiniteSets, Naturals

CONSTANTS Threads,   (* the worker threads of FUSE                          *)
          Names,     (* the names of cached files                           *)
          Free,      (* stands for no thread, as the owner of the mutex     *)
          MaxLocks   (* locks one thread holds at once: rename, link and    *)
                     (* symlink construct two LocalCacheFileLocks, other    *)
                     (* handlers one                                        *)

ASSUME FreeAssumption == Free \notin Threads
ASSUME MaxLocksAssumption == MaxLocks \in Nat \ {0}

VARIABLES lockedLocalFiles,  (* the set<string> of locked names             *)
          mutex,             (* owner of lockedLocalFiles_mutex, or Free    *)
          waiters,           (* threads asleep on lockedLocalFiles_cond     *)
          pc,                (* where each thread is, "idle" in no lock code *)
          name,              (* the localCacheFileName it locks or unlocks  *)
          held               (* its LocalCacheFileLocks with isLocked       *)

vars == <<lockedLocalFiles, mutex, waiters, pc, name, held>>

Init == /\ lockedLocalFiles = {}
        /\ mutex = Free
        /\ waiters = {}
        /\ pc = [t \in Threads |-> "idle"]
        /\ name \in [Threads -> Names]
        /\ held = [t \in Threads |-> {}]

Goto(t, l) == pc' = [pc EXCEPT ![t] = l]

(* lockLCF: blocks until the mutex is free. *)
LockLCF(t) == /\ mutex = Free
              /\ mutex' = t

(* unlockLCF. *)
UnlockLCF(t) == mutex' = Free

------------------------------------------------------------------------------
(* LocalCacheFileLock(clf, n) is constructed. *)

CtorBegin(t, n) == /\ pc[t] = "idle"
                   /\ Cardinality(held[t]) < MaxLocks
                   /\ name' = [name EXCEPT ![t] = n]
                   /\ Goto(t, "ctor")
                   /\ UNCHANGED <<lockedLocalFiles, mutex, waiters, held>>

CtorLock(t) == /\ pc[t] = "ctor"
               /\ LockLCF(t)
               /\ Goto(t, "test")
               /\ UNCHANGED <<lockedLocalFiles, waiters, name, held>>

(* Variant: the constructor returns when the name is locked. *)
CtorReturn(t) == /\ pc[t] = "test"
                 /\ name[t] \in lockedLocalFiles
                 /\ UnlockLCF(t)
                 /\ Goto(t, "idle")
                 /\ UNCHANGED <<lockedLocalFiles, waiters, name, held>>

(* alreadyExistLCFLock: waitLCFStatChange gives the mutex up and sleeps. *)
CtorWait(t) == /\ pc[t] = "test"
               /\ name[t] \in lockedLocalFiles
               /\ waiters' = waiters \cup {t}
               /\ UnlockLCF(t)
               /\ Goto(t, "wait")
               /\ UNCHANGED <<lockedLocalFiles, name, held>>

CtorInsert(t) == /\ pc[t] = "test"
                 /\ name[t] \notin lockedLocalFiles
                 /\ lockedLocalFiles' = lockedLocalFiles \cup {name[t]}
                 /\ held' = [held EXCEPT ![t] = @ \cup {name[t]}]
                 /\ Goto(t, "unlock")
                 /\ UNCHANGED <<mutex, waiters, name>>

(* Variant: an if for the while. *)
WakeWithoutRetest(t) == /\ pc[t] = "wait"
                        /\ t \notin waiters
                        /\ LockLCF(t)
                        /\ lockedLocalFiles' = lockedLocalFiles \cup {name[t]}
                        /\ held' = [held EXCEPT ![t] = @ \cup {name[t]}]
                        /\ Goto(t, "unlock")
                        /\ UNCHANGED <<waiters, name>>

(* pthread_cond_wait returns once signalled and in possession of the mutex;
   the while loop tests the name again. *)
CtorWake(t) == /\ pc[t] = "wait"
               /\ t \notin waiters
               /\ LockLCF(t)
               /\ Goto(t, "test")
               /\ UNCHANGED <<lockedLocalFiles, waiters, name, held>>

(* pthread_cond_wait may return unsignalled. *)
SpuriousWakeup(t) == /\ t \in waiters
                     /\ waiters' = waiters \ {t}
                     /\ UNCHANGED <<lockedLocalFiles, mutex, pc, name, held>>

------------------------------------------------------------------------------
(* unlock(), called by the destructor or by the handler. *)

DtorBegin(t, n) == /\ pc[t] = "idle"
                   /\ n \in held[t]
                   /\ name' = [name EXCEPT ![t] = n]
                   /\ Goto(t, "dtor")
                   /\ UNCHANGED <<lockedLocalFiles, mutex, waiters, held>>

DtorLock(t) == /\ pc[t] = "dtor"
               /\ LockLCF(t)
               /\ Goto(t, "erase")
               /\ UNCHANGED <<lockedLocalFiles, waiters, name, held>>

(* Variant: signal() for signalAll(). *)
NotifyOne == IF waiters = {} THEN UNCHANGED waiters
             ELSE \E t \in waiters : waiters' = waiters \ {t}

(* signalAll wakes the waiters of every name: they share one condition. *)
NotifyLCFStatChange == waiters' = {}

(* Variant: the set is cleared. *)
RemoveAllLCFLocks(t) == /\ pc[t] = "erase"
                        /\ held' = [held EXCEPT ![t] = @ \ {name[t]}]
                        /\ lockedLocalFiles' = {}
                        /\ NotifyLCFStatChange
                        /\ Goto(t, "unlock")
                        /\ UNCHANGED <<mutex, name>>

RemoveLCFLock(t) == /\ pc[t] = "erase"
                    /\ held' = [held EXCEPT ![t] = @ \ {name[t]}]
                    /\ lockedLocalFiles' = lockedLocalFiles \ {name[t]}
                    /\ NotifyLCFStatChange
                    /\ Goto(t, "unlock")
                    /\ UNCHANGED <<mutex, name>>

(* The last statement of the constructor and of unlock(). *)
Unlock(t) == /\ pc[t] = "unlock"
             /\ UnlockLCF(t)
             /\ Goto(t, "idle")
             /\ UNCHANGED <<lockedLocalFiles, waiters, name, held>>

------------------------------------------------------------------------------
Next == \E t \in Threads :
           \/ \E n \in Names : CtorBegin(t, n) \/ DtorBegin(t, n)
           \/ CtorLock(t) \/ CtorWait(t) \/ CtorInsert(t) \/ CtorWake(t)
           \/ SpuriousWakeup(t)
           \/ DtorLock(t) \/ RemoveLCFLock(t)
           \/ Unlock(t)

(* A thread inside the lock code is scheduled, and one that is offered the
   mutex again and again gets it at last.  Nothing makes a thread call the
   lock code, nor makes a wakeup spurious. *)
Fairness == \A t \in Threads :
               /\ SF_vars(CtorLock(t)) /\ SF_vars(CtorWake(t)) /\ SF_vars(DtorLock(t))
               /\ WF_vars(CtorWait(t) \/ CtorInsert(t) \/ RemoveLCFLock(t) \/ Unlock(t))

SafetySpec == Init /\ [][Next]_vars

Spec == SafetySpec /\ Fairness

------------------------------------------------------------------------------
Labels == {"idle", "ctor", "test", "wait", "unlock", "dtor", "erase"}

(* The variables have their types; the sleepers are threads inside
   pthread_cond_wait, and a thread that unlocks has the lock. *)
TypeOK == /\ lockedLocalFiles \subseteq Names
          /\ mutex \in Threads \cup {Free}
          /\ pc \in [Threads -> Labels]
          /\ name \in [Threads -> Names]
          /\ held \in [Threads -> SUBSET Names]
          /\ waiters \subseteq {t \in Threads : pc[t] = "wait"}
          /\ \A t \in Threads : pc[t] \in {"dtor", "erase"} => name[t] \in held[t]

(* The mutex protects the set: its owner is the one thread between lockLCF
   and unlockLCF. *)
MutexProtects == \A t \in Threads : pc[t] \in {"test", "unlock", "erase"} <=> mutex = t

(* Two handlers never hold the lock of one cached file together. *)
MutualExclusion == \A t, u \in Threads : t # u => held[t] \cap held[u] = {}

(* The set is what the live LocalCacheFileLocks lock: an unlock forgets its own
   name and no other, and no name stays locked when its holder is gone. *)
TableIsHeld == lockedLocalFiles = UNION {held[t] : t \in Threads}

(* No wakeup is lost: a thread sleeps unsignalled only while the name it waits
   for is locked, although one condition serves the waiters of every name. *)
NoLostWakeup == \A t \in waiters : name[t] \in lockedLocalFiles

------------------------------------------------------------------------------
(* A thread asks for a name from the constructor's call to its insertion. *)
Wants(t) == IF pc[t] \in {"ctor", "test", "wait"} THEN {name[t]} ELSE {}

Abstract == INSTANCE NamedLock WITH holds <- held, wants <- [t \in Threads |-> Wants(t)]

(* The protocol implements one lock per name, and grants a lock that stays free
   to the thread that asks for it. *)
ImplementsNamedLock == Abstract!Spec
==============================================================================
