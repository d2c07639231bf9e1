------------------------------ MODULE SetfsidProofs ------------------------------
(***************************************************************************)
(* What Setfsid guarantees for any number of threads and any users.  The   *)
(* thread between its lock and its unlock is the owner of the mutex, even  *)
(* where the flag lies to it; with a flag of its own it also knows so.     *)
(***************************************************************************)
EXTENDS Setfsid, TLAPS

SafetySpec == Init /\ [][Next]_vars

(* The mutex belongs to whoever has locked and not unlocked it. *)
OwnerInside == \A t \in Threads :
  /\ pc[t] \in {"flag", "read", "unlock"} => mutex = t
  /\ setting.root /\ pc[t] = "inside" => mutex = t

(* A user's daemon neither locks nor switches. *)
UserIdle == ~setting.root => /\ mutex = None
                             /\ \A t \in Threads : pc[t] \in {"idle", "inside"} /\ ~held[t]

(* One handler at a time. *)
OneAtATime == setting.serial => \A s, t \in Threads : pc[s] # "idle" /\ pc[t] # "idle" => s = t

(* What a handler that switched has kept, and is now. *)
Switched == \A t \in Threads : setting.root /\ pc[t] = "inside" /\ held[t] =>
               uidSave[t] = 0 /\ fsuid[t] = caller[t]

(* Where nobody else clears the flag, it is set from lock to unlock. *)
FlagSet == setting.serial => \A t \in Threads : pc[t] = "read" => flag

(* With a flag of its own a thread inside knows that it has the mutex. *)
Knows == FlagIsOwn /\ setting.root => \A t \in Threads : pc[t] = "inside" => held[t]

IInv == /\ TypeOK
        /\ OwnerInside
        /\ UserIdle
        /\ OneAtATime
        /\ Switched
        /\ FlagSet
        /\ Knows
        /\ IdentityRestored
        /\ MutexGivenBack

USE SetfsidAssumption DEF Setting, Root, Uid, FlagIsOwn

LEMMA InitIInv == Init => IInv
<1> SUFFICES ASSUME Init
             PROVE  IInv
  OBVIOUS
<1>1. TypeOK
  <2>1. fsuid \in [Threads -> Nat]
    <3>1. Uid \in Nat
      OBVIOUS
    <3>2. fsuid = [t \in Threads |-> Uid]
      BY DEF Init
    <3> HIDE DEF Uid
    <3>3. QED
      BY <3>1, <3>2
  <2>2. QED
    BY <2>1 DEF Init, TypeOK
<1>2. OwnerInside /\ UserIdle /\ OneAtATime /\ Switched /\ FlagSet /\ Knows
  BY DEF Init, OwnerInside, UserIdle, OneAtATime, Switched, FlagSet, Knows
<1>3. IdentityRestored /\ MutexGivenBack
  BY DEF Init, IdentityRestored, MutexGivenBack
<1>4. QED
  BY <1>1, <1>2, <1>3 DEF IInv

LEMMA NextIInv == IInv /\ [Next]_vars => IInv'
<1> SUFFICES ASSUME IInv, [Next]_vars
             PROVE  IInv'
  OBVIOUS
<1>1. ASSUME NEW t \in Threads, NEW u \in Uids, Construct(t, u)
      PROVE  IInv'
  <2> USE <1>1 DEF Construct, ToBool, Goto, TypeOK
  <2>1. TypeOK'
    BY DEF IInv
  <2>2. OwnerInside'
    BY DEF IInv, OwnerInside, UserIdle
  <2>3. UserIdle'
    BY DEF IInv, UserIdle
  <2>4. OneAtATime'
    BY DEF IInv, OneAtATime
  <2>5. Switched'
    BY DEF IInv, Switched, IdentityRestored, OwnerInside
  <2>6. FlagSet'
    BY DEF IInv, FlagSet, OneAtATime
  <2>7. Knows'
    BY DEF IInv, Knows, FlagSet
  <2>8. IdentityRestored'
    BY DEF IInv, IdentityRestored, Switched, OwnerInside
  <2>9. MutexGivenBack'
    BY DEF IInv, MutexGivenBack, OwnerInside, UserIdle, Knows
  <2>10. QED
    BY <2>1, <2>2, <2>3, <2>4, <2>5, <2>6, <2>7, <2>8, <2>9 DEF IInv
<1>2. ASSUME NEW t \in Threads, MutexLock(t)
      PROVE  IInv'
  <2> USE <1>2 DEF MutexLock, Goto, TypeOK
  <2>1. TypeOK'
    BY DEF IInv
  <2>2. OwnerInside'
    BY DEF IInv, OwnerInside, UserIdle
  <2>3. UserIdle'
    BY DEF IInv, UserIdle
  <2>4. OneAtATime'
    BY DEF IInv, OneAtATime
  <2>5. Switched'
    BY DEF IInv, Switched, IdentityRestored, OwnerInside
  <2>6. FlagSet'
    BY DEF IInv, FlagSet, OneAtATime
  <2>7. Knows'
    BY DEF IInv, Knows, FlagSet
  <2>8. IdentityRestored'
    BY DEF IInv, IdentityRestored, Switched, OwnerInside
  <2>9. MutexGivenBack'
    BY DEF IInv, MutexGivenBack, OwnerInside, UserIdle, Knows
  <2>10. QED
    BY <2>1, <2>2, <2>3, <2>4, <2>5, <2>6, <2>7, <2>8, <2>9 DEF IInv
<1>3. ASSUME NEW t \in Threads, SetFlag(t)
      PROVE  IInv'
  <2> USE <1>3 DEF SetFlag, Goto, TypeOK
  <2>1. TypeOK'
    BY DEF IInv
  <2>2. OwnerInside'
    BY DEF IInv, OwnerInside, UserIdle
  <2>3. UserIdle'
    BY DEF IInv, UserIdle
  <2>4. OneAtATime'
    BY DEF IInv, OneAtATime
  <2>5. Switched'
    BY DEF IInv, Switched, IdentityRestored, OwnerInside
  <2>6. FlagSet'
    BY DEF IInv, FlagSet, OneAtATime
  <2>7. Knows'
    BY DEF IInv, Knows, FlagSet
  <2>8. IdentityRestored'
    BY DEF IInv, IdentityRestored, Switched, OwnerInside
  <2>9. MutexGivenBack'
    BY DEF IInv, MutexGivenBack, OwnerInside, UserIdle, Knows
  <2>10. QED
    BY <2>1, <2>2, <2>3, <2>4, <2>5, <2>6, <2>7, <2>8, <2>9 DEF IInv
<1>4. ASSUME NEW t \in Threads, Switch(t)
      PROVE  IInv'
  <2>0. caller \in [Threads -> Uids]
    BY DEF IInv, TypeOK
  <2> USE <1>4 DEF Switch, IsLocked, ToBool, Goto, TypeOK
  <2>1. TypeOK'
    <3>1. caller[t] \in Nat
      BY <2>0
    <3>2. fsuid' \in [Threads -> Nat]
      BY <3>1 DEF IInv
    <3>3. uidSave' \in [Threads -> {0, 1}]
      BY DEF IInv
    <3>4. QED
      BY <3>2, <3>3 DEF IInv
  <2>2. OwnerInside'
    BY DEF IInv, OwnerInside, UserIdle
  <2>3. UserIdle'
    BY DEF IInv, UserIdle
  <2>4. OneAtATime'
    BY DEF IInv, OneAtATime
  <2>5. Switched'
    BY DEF IInv, Switched, IdentityRestored, OwnerInside
  <2>6. FlagSet'
    BY DEF IInv, FlagSet, OneAtATime
  <2>7. Knows'
    BY DEF IInv, Knows, FlagSet
  <2>8. IdentityRestored'
    BY DEF IInv, IdentityRestored, Switched, OwnerInside
  <2>9. MutexGivenBack'
    BY DEF IInv, MutexGivenBack, OwnerInside, UserIdle, Knows
  <2>10. QED
    BY <2>1, <2>2, <2>3, <2>4, <2>5, <2>6, <2>7, <2>8, <2>9 DEF IInv
<1>5. ASSUME NEW t \in Threads, Restore(t)
      PROVE  IInv'
  <2> USE <1>5 DEF Restore, Goto, TypeOK
  <2>1. TypeOK'
    BY DEF IInv
  <2>2. OwnerInside'
    BY DEF IInv, OwnerInside, UserIdle
  <2>3. UserIdle'
    BY DEF IInv, UserIdle
  <2>4. OneAtATime'
    BY DEF IInv, OneAtATime
  <2>5. Switched'
    BY DEF IInv, Switched, IdentityRestored, OwnerInside
  <2>6. FlagSet'
    BY DEF IInv, FlagSet, OneAtATime
  <2>7. Knows'
    BY DEF IInv, Knows, FlagSet
  <2>8. IdentityRestored'
    <3>1. CASE setting.root /\ held[t]
      <4>1. fsuid'[t] = 0
        BY <3>1 DEF IInv, Switched
      <4>2. \A s \in Threads \ {t} : fsuid'[s] = fsuid[s] /\ pc'[s] = pc[s]
        BY <3>1 DEF IInv
      <4>3. QED
        BY <3>1, <4>1, <4>2 DEF IInv, IdentityRestored
    <3>2. CASE ~(setting.root /\ held[t])
      <4>1. fsuid[t] = Uid
        BY <3>2 DEF IInv, IdentityRestored, UserIdle
      <4>2. QED
        BY <3>2, <4>1 DEF IInv, IdentityRestored
    <3>3. QED
      BY <3>1, <3>2
  <2>9. MutexGivenBack'
    BY DEF IInv, MutexGivenBack, OwnerInside, UserIdle, Knows
  <2>10. QED
    BY <2>1, <2>2, <2>3, <2>4, <2>5, <2>6, <2>7, <2>8, <2>9 DEF IInv
<1>6. ASSUME NEW t \in Threads, MutexUnlock(t)
      PROVE  IInv'
  <2> USE <1>6 DEF MutexUnlock, Goto, TypeOK
  <2>1. TypeOK'
    BY DEF IInv
  <2>2. OwnerInside'
    BY DEF IInv, OwnerInside, UserIdle
  <2>3. UserIdle'
    BY DEF IInv, UserIdle
  <2>4. OneAtATime'
    BY DEF IInv, OneAtATime
  <2>5. Switched'
    BY DEF IInv, Switched, IdentityRestored, OwnerInside
  <2>6. FlagSet'
    BY DEF IInv, FlagSet, OneAtATime
  <2>7. Knows'
    BY DEF IInv, Knows, FlagSet
  <2>8. IdentityRestored'
    BY DEF IInv, IdentityRestored, Switched, OwnerInside
  <2>9. MutexGivenBack'
    BY DEF IInv, MutexGivenBack, OwnerInside, UserIdle, Knows
  <2>10. QED
    BY <2>1, <2>2, <2>3, <2>4, <2>5, <2>6, <2>7, <2>8, <2>9 DEF IInv
<1>7. ASSUME NEW t \in Threads, ClearFlag(t)
      PROVE  IInv'
  <2> USE <1>7 DEF ClearFlag, Goto, TypeOK
  <2>1. TypeOK'
    BY DEF IInv
  <2>2. OwnerInside'
    BY DEF IInv, OwnerInside, UserIdle
  <2>3. UserIdle'
    BY DEF IInv, UserIdle
  <2>4. OneAtATime'
    BY DEF IInv, OneAtATime
  <2>5. Switched'
    BY DEF IInv, Switched, IdentityRestored, OwnerInside
  <2>6. FlagSet'
    BY DEF IInv, FlagSet, OneAtATime
  <2>7. Knows'
    BY DEF IInv, Knows, FlagSet
  <2>8. IdentityRestored'
    BY DEF IInv, IdentityRestored, Switched, OwnerInside
  <2>9. MutexGivenBack'
    BY DEF IInv, MutexGivenBack, OwnerInside, UserIdle, Knows
  <2>10. QED
    BY <2>1, <2>2, <2>3, <2>4, <2>5, <2>6, <2>7, <2>8, <2>9 DEF IInv
<1>8. CASE UNCHANGED vars
  BY <1>8 DEF vars, IInv, TypeOK, OwnerInside, UserIdle, OneAtATime, Switched, FlagSet, Knows,
              IdentityRestored, MutexGivenBack
<1>9. QED
  BY <1>1, <1>2, <1>3, <1>4, <1>5, <1>6, <1>7, <1>8 DEF Next

(* The invariant holds in every reachable state. *)
THEOREM SetfsidInvariance == SafetySpec => []IInv
BY InitIInv, NextIInv, PTL DEF SafetySpec

(* Type correctness of SETFSID and its mutex. *)
THEOREM SetfsidTypeCorrect == SafetySpec => []TypeOK
<1>1. IInv => TypeOK
  BY DEF IInv
<1>2. QED
  BY SetfsidInvariance, <1>1, PTL

(* In every build and mode no identity stays behind with a thread that has left its
   SETFSID, and only the owner of the mutex has switched. *)
THEOREM NoIdentityLeft == SafetySpec => []IdentityRestored
<1>1. IInv => IdentityRestored
  BY DEF IInv
<1>2. QED
  BY SetfsidInvariance, <1>1, PTL

(* With a flag of its own, every handler of a daemon run by root works as its caller. *)
THEOREM CallerServed == SafetySpec => []RunsAsCaller
<1>1. IInv => RunsAsCaller
  BY DEF IInv, RunsAsCaller, Knows, Switched
<1>2. QED
  BY SetfsidInvariance, <1>1, PTL

(* And no handler leaves with the mutex. *)
THEOREM NeverAbandoned == SafetySpec => []MutexGivenBack
<1>1. IInv => MutexGivenBack
  BY DEF IInv
<1>2. QED
  BY SetfsidInvariance, <1>1, PTL

(* A handler that failed to switch has the mutex, and shares the daemon with others. *)
THEOREM FailureOwnsMutex == SafetySpec => []FailureKnown
<1>1. IInv => FailureKnown
  BY DEF IInv, FailureKnown, OwnerInside, Knows, FlagIsOwn
<1>2. QED
  BY SetfsidInvariance, <1>1, PTL
================================================================================
