------------------------- MODULE LocalCacheLockProofs -------------------------
(***************************************************************************)
(* Proofs about LocalCacheLock, for every set of threads and of names: the *)
(* inductive invariant, mutual exclusion, no lost wakeup, and that every   *)
(* step is a step of NamedLock or a stutter.                               *)
(***************************************************************************)
EXTENDS LocalCacheLock, TLAPS

(* The whole is inductive, its parts are not: mutual exclusion needs the set to
   be what is held, and both need the mutex to keep the steps of two threads
   between lockLCF and unlockLCF apart. *)
IInv == TypeOK /\ MutexProtects /\ MutualExclusion /\ TableIsHeld /\ NoLostWakeup

USE FreeAssumption

LEMMA InitIInv == Init => IInv
BY DEF Init, IInv, TypeOK, Labels, MutexProtects, MutualExclusion, TableIsHeld, NoLostWakeup

(* The names a thread holds after it took n, or gave n up. *)
LEMMA HeldAdd ==
  ASSUME held \in [Threads -> SUBSET Names], NEW t \in Threads, NEW n \in Names,
         held' = [held EXCEPT ![t] = @ \cup {n}]
  PROVE  UNION {held'[u] : u \in Threads} = (UNION {held[u] : u \in Threads}) \cup {n}
<1>1. \A u \in Threads : held'[u] = IF u = t THEN held[t] \cup {n} ELSE held[u]
  OBVIOUS
<1>2. QED
  BY <1>1

LEMMA HeldRemove ==
  ASSUME held \in [Threads -> SUBSET Names], NEW t \in Threads, NEW n \in held[t],
         MutualExclusion, held' = [held EXCEPT ![t] = @ \ {n}]
  PROVE  UNION {held'[u] : u \in Threads} = (UNION {held[u] : u \in Threads}) \ {n}
<1>1. \A u \in Threads : held'[u] = IF u = t THEN held[t] \ {n} ELSE held[u]
  OBVIOUS
<1>2. \A u \in Threads : u # t => n \notin held[u]
  BY DEF MutualExclusion
<1>3. QED
  BY <1>1, <1>2

LEMMA NextIInv == IInv /\ [Next]_vars => IInv'
<1> SUFFICES ASSUME IInv, [Next]_vars PROVE IInv'
  OBVIOUS
<1> USE DEF IInv, TypeOK, Labels, MutexProtects, MutualExclusion, TableIsHeld, NoLostWakeup,
            Goto, LockLCF, UnlockLCF, NotifyLCFStatChange
<1>1. ASSUME NEW t \in Threads, NEW n \in Names, CtorBegin(t, n)
      PROVE  IInv'
  BY <1>1 DEF CtorBegin
<1>2. ASSUME NEW t \in Threads, NEW n \in Names, DtorBegin(t, n)
      PROVE  IInv'
  BY <1>2 DEF DtorBegin
<1>3. ASSUME NEW t \in Threads, CtorLock(t)
      PROVE  IInv'
  BY <1>3 DEF CtorLock
<1>4. ASSUME NEW t \in Threads, CtorWait(t)
      PROVE  IInv'
  BY <1>4 DEF CtorWait
<1>5. ASSUME NEW t \in Threads, CtorInsert(t)
      PROVE  IInv'
  <2>1. TableIsHeld'
    BY <1>5, HeldAdd DEF CtorInsert
  <2>2. MutualExclusion'
    BY <1>5 DEF CtorInsert
  <2>3. (TypeOK /\ MutexProtects /\ NoLostWakeup)'
    BY <1>5 DEF CtorInsert
  <2>4. QED
    BY <2>1, <2>2, <2>3
<1>6. ASSUME NEW t \in Threads, CtorWake(t)
      PROVE  IInv'
  BY <1>6 DEF CtorWake
<1>7. ASSUME NEW t \in Threads, SpuriousWakeup(t)
      PROVE  IInv'
  BY <1>7 DEF SpuriousWakeup
<1>8. ASSUME NEW t \in Threads, DtorLock(t)
      PROVE  IInv'
  BY <1>8 DEF DtorLock
<1>9. ASSUME NEW t \in Threads, RemoveLCFLock(t)
      PROVE  IInv'
  <2>1. TableIsHeld'
    BY <1>9, HeldRemove DEF RemoveLCFLock
  <2>2. MutualExclusion'
    BY <1>9 DEF RemoveLCFLock
  <2>3. (TypeOK /\ MutexProtects /\ NoLostWakeup)'
    BY <1>9 DEF RemoveLCFLock
  <2>4. QED
    BY <2>1, <2>2, <2>3
<1>10. ASSUME NEW t \in Threads, Unlock(t)
       PROVE  IInv'
  BY <1>10 DEF Unlock
<1>11. CASE UNCHANGED vars
  BY <1>11 DEF vars
<1>12. QED
  BY <1>1, <1>2, <1>3, <1>4, <1>5, <1>6, <1>7, <1>8, <1>9, <1>10, <1>11 DEF Next

(* The invariant holds in every reachable state. *)
THEOREM Invariance == SafetySpec => []IInv
BY InitIInv, NextIInv, PTL DEF SafetySpec

(* Type correctness of the lock of tgefs.cc. *)
THEOREM TypeCorrect == SafetySpec => []TypeOK
<1>1. IInv => TypeOK
  BY DEF IInv
<1>2. QED
  BY Invariance, <1>1, PTL

(* No two threads hold the LocalCacheFileLock of one cached file. *)
THEOREM Exclusion == SafetySpec => []MutualExclusion
<1>1. IInv => MutualExclusion
  BY DEF IInv
<1>2. QED
  BY Invariance, <1>1, PTL

(* lockedLocalFiles is what the live locks lock. *)
THEOREM TableExact == SafetySpec => []TableIsHeld
<1>1. IInv => TableIsHeld
  BY DEF IInv
<1>2. QED
  BY Invariance, <1>1, PTL

(* No waiter of a free name is left asleep, whatever name its waker unlocked. *)
THEOREM WakeupsDelivered == SafetySpec => []NoLostWakeup
<1>1. IInv => NoLostWakeup
  BY DEF IInv
<1>2. QED
  BY Invariance, <1>1, PTL

------------------------------------------------------------------------------
(* The constructor asks, its insertion acquires, the erasure releases; every other
   step leaves what is held and wanted as it is. *)
LEMMA StepSimulation == IInv /\ [Next]_vars => [Abstract!Next]_(Abstract!vars)
<1> SUFFICES ASSUME IInv, [Next]_vars
             PROVE  [Abstract!Next]_(Abstract!vars)
  OBVIOUS
<1> USE DEF IInv, TypeOK, Labels, Goto, Wants
<1>1. ASSUME NEW t \in Threads, NEW n \in Names, CtorBegin(t, n)
      PROVE  Abstract!Request(t, n)
  BY <1>1 DEF CtorBegin, Abstract!Request
<1>2. ASSUME NEW t \in Threads, CtorInsert(t)
      PROVE  Abstract!Acquire(t)
  BY <1>2 DEF CtorInsert, Abstract!Acquire, Abstract!Held, TableIsHeld
<1>3. ASSUME NEW t \in Threads, RemoveLCFLock(t)
      PROVE  Abstract!Release(t, name[t])
  BY <1>3 DEF RemoveLCFLock, Abstract!Release
<1>4. ASSUME NEW t \in Threads,
             \/ \E n \in Names : DtorBegin(t, n)
             \/ CtorLock(t) \/ CtorWait(t) \/ CtorWake(t) \/ SpuriousWakeup(t)
             \/ DtorLock(t) \/ Unlock(t)
      PROVE  UNCHANGED Abstract!vars
  <2>1. held' = held
    BY <1>4 DEF DtorBegin, CtorLock, CtorWait, CtorWake, SpuriousWakeup, DtorLock, Unlock
  <2>2. \A u \in Threads : Wants(u)' = Wants(u)
    BY <1>4 DEF DtorBegin, CtorLock, CtorWait, CtorWake, SpuriousWakeup, DtorLock, Unlock
  <2>3. QED
    BY <2>1, <2>2 DEF Abstract!vars
<1>5. CASE UNCHANGED vars
  BY <1>5 DEF vars, Abstract!vars
<1>6. CASE Next
  BY <1>1, <1>2, <1>3, <1>4, <1>6 DEF Next, Abstract!Next
<1>7. QED
  BY <1>5, <1>6

(* The lock protocol implements NamedLock, for every number of threads and names. *)
THEOREM Refinement == SafetySpec => Abstract!SafetySpec
<1>1. Init => Abstract!Init
  BY DEF Init, Abstract!Init, Wants
<1>2. QED
  BY Invariance, StepSimulation, <1>1, PTL DEF SafetySpec, Abstract!SafetySpec
==============================================================================
