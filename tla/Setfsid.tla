-------------------------------- MODULE Setfsid --------------------------------
(***************************************************************************)
(* SETFSID of tgefs.cc and the Mutex of pmutex.h under it.  A handler of a *)
(* daemon run by root makes its system calls as the user who asked for     *)
(* them, and is root again when its SETFSID is destroyed.  Whether to      *)
(* switch and whether to unlock is decided by a flag that Mutex keeps      *)
(* beside its pthread mutex and writes without holding it.  The group goes *)
(* the same way as the user and is left out.                               *)
(***************************************************************************)
EXTENDS Naturals

CONSTANTS Threads,   (* worker threads of FUSE                     *)
          None,      (* no thread                                  *)
          Uids,      (* users whose calls come in                  *)
          Settings   (* how the daemon is built and run            *)

Root == 0

(* reloads: the compiled SETFSID reads the flag of Mutex anew after lock() instead of
   using the value lock() has just stored, as either is a legal outcome of the race.
   serial: FUSE runs one handler at a time (-s). *)
Setting == [root : BOOLEAN, reloads : BOOLEAN, serial : BOOLEAN]

ASSUME SetfsidAssumption == /\ None \notin Threads
                            /\ Uids \subseteq Nat
                            /\ Settings \subseteq Setting

VARIABLES setting,
          mutex,    (* owner of the pthread mutex of setFSID_mutex, or None    *)
          flag,     (* Mutex::locked of setFSID_mutex                          *)
          pc,       (* where each thread is; "idle" has no SETFSID             *)
          caller,   (* fc->uid                                                 *)
          held,     (* SETFSID::locked                                         *)
          uidSave,  (* SETFSID::uid_save, a bool                               *)
          fsuid     (* the identity the kernel checks files with, per thread   *)

vars == <<setting, mutex, flag, pc, caller, held, uidSave, fsuid>>

(* The identity of the process, which its threads start with. *)
Uid == IF setting.root THEN Root ELSE 1000

(* A number kept in a bool. *)
ToBool(n) == IF n = 0 THEN 0 ELSE 1

Init == /\ setting \in Settings
        /\ mutex = None
        /\ flag = FALSE
        /\ pc = [t \in Threads |-> "idle"]
        /\ caller \in [Threads -> Uids]
        /\ held = [t \in Threads |-> FALSE]
        /\ uidSave = [t \in Threads |-> 0]
        /\ fsuid = [t \in Threads |-> Uid]

Goto(t, l) == pc' = [pc EXCEPT ![t] = l]

------------------------------------------------------------------------------
(* The constructor. *)

Construct(t, u) ==
  /\ pc[t] = "idle"
  /\ setting.serial => \A s \in Threads : pc[s] = "idle"
  /\ caller' = [caller EXCEPT ![t] = u]
  /\ Goto(t, IF setting.root THEN "lock" ELSE "inside")
  /\ held' = [held EXCEPT ![t] = FALSE]
  /\ uidSave' = [uidSave EXCEPT ![t] = ToBool(Uid)]
  /\ UNCHANGED <<setting, mutex, flag, fsuid>>

(* pthread_mutex_lock within Mutex::lock. *)
MutexLock(t) == /\ pc[t] = "lock"
                /\ mutex = None
                /\ mutex' = t
                /\ Goto(t, "flag")
                /\ UNCHANGED <<setting, flag, caller, held, uidSave, fsuid>>

(* Its result goes to the flag. *)
SetFlag(t) == /\ pc[t] = "flag"
              /\ flag' = TRUE
              /\ Goto(t, "read")
              /\ UNCHANGED <<setting, mutex, caller, held, uidSave, fsuid>>

(* Variant: always read anew. *)
FlagAnew == flag

(* islocked(). *)
IsLocked == IF setting.reloads THEN flag ELSE TRUE

(* Switches only if it believes that it has the mutex. *)
Switch(t) == /\ pc[t] = "read"
             /\ held' = [held EXCEPT ![t] = IsLocked]
             /\ IF IsLocked
                THEN /\ uidSave' = [uidSave EXCEPT ![t] = ToBool(fsuid[t])]
                     /\ fsuid' = [fsuid EXCEPT ![t] = caller[t]]
                ELSE /\ uidSave' = [uidSave EXCEPT ![t] = ToBool(Uid)]
                     /\ UNCHANGED fsuid
             /\ Goto(t, "inside")
             /\ UNCHANGED <<setting, mutex, flag, caller>>

(* Variant: gives the mutex back and keeps the identity. *)
UnlockOnly(t) == /\ pc[t] = "inside"
                 /\ Goto(t, IF setting.root /\ held[t] THEN "unlock" ELSE "idle")
                 /\ UNCHANGED <<setting, mutex, flag, caller, held, uidSave, fsuid>>

(* The destructor; between the two the handler does its system calls. *)
Restore(t) == /\ pc[t] = "inside"
              /\ IF setting.root /\ held[t]
                 THEN /\ fsuid' = [fsuid EXCEPT ![t] = uidSave[t]]
                      /\ Goto(t, "unlock")
                 ELSE /\ Goto(t, "idle")
                      /\ UNCHANGED fsuid
              /\ UNCHANGED <<setting, mutex, flag, caller, held, uidSave>>

(* pthread_mutex_unlock within Mutex::unlock. *)
MutexUnlock(t) == /\ pc[t] = "unlock"
                  /\ mutex' = None
                  /\ Goto(t, "clear")
                  /\ UNCHANGED <<setting, flag, caller, held, uidSave, fsuid>>

(* The flag is cleared when the mutex may already be another thread's. *)
ClearFlag(t) == /\ pc[t] = "clear"
                /\ flag' = FALSE
                /\ Goto(t, "idle")
                /\ UNCHANGED <<setting, mutex, caller, held, uidSave, fsuid>>

Next == \E t \in Threads : \/ \E u \in Uids : Construct(t, u)
                           \/ MutexLock(t) \/ SetFlag(t) \/ Switch(t)
                           \/ Restore(t) \/ MutexUnlock(t) \/ ClearFlag(t)

(* Threads run, and the mutex starves nobody. *)
Fairness == \A t \in Threads :
  /\ SF_vars(MutexLock(t))
  /\ WF_vars(SetFlag(t) \/ Switch(t) \/ Restore(t) \/ MutexUnlock(t) \/ ClearFlag(t))

Spec == Init /\ [][Next]_vars /\ Fairness

------------------------------------------------------------------------------
TypeOK == /\ setting \in Settings
          /\ mutex \in Threads \cup {None}
          /\ flag \in BOOLEAN
          /\ pc \in [Threads -> {"idle", "lock", "flag", "read", "inside", "unlock", "clear"}]
          /\ caller \in [Threads -> Uids]
          /\ held \in [Threads -> BOOLEAN]
          /\ uidSave \in [Threads -> {0, 1}]
          /\ fsuid \in [Threads -> Nat]

(* However the daemon is built, a thread that is not in a SETFSID has the identity of
   the process again, and one that has switched is the owner of the mutex: a user's
   identity never stays behind for the next user's call, in spite of the bool that
   keeps the old one. *)
IdentityRestored == \A t \in Threads :
                       fsuid[t] # Uid => mutex = t /\ pc[t] = "inside" /\ held[t]

(* Where the flag that SETFSID looks at is its own. *)
FlagIsOwn == ~setting.reloads \/ setting.serial

(* Then a daemon run by root makes every system call as the user who asked for it. *)
RunsAsCaller == FlagIsOwn /\ setting.root =>
                   \A t \in Threads : pc[t] = "inside" => fsuid[t] = caller[t]

(* Then, too, no thread leaves with the mutex, which nobody could ever give back. *)
MutexGivenBack == FlagIsOwn => \A t \in Threads : mutex = t => pc[t] \notin {"idle", "lock", "clear"}

(* And so every call gets its identity and gives it back, however many there are. *)
SwitchReturns == FlagIsOwn => \A t \in Threads : pc[t] = "lock" ~> pc[t] = "idle"

(* A thread fails to switch only when another's late clearing of the flag fell between its
   own setting and reading of it: while it is inside, unswitched, it has the mutex. *)
FailureKnown == \A t \in Threads :
  setting.root /\ pc[t] = "inside" /\ ~held[t] => mutex = t /\ ~setting.serial

================================================================================
