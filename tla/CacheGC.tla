------------------------------- MODULE CacheGC -------------------------------
(***************************************************************************)
(* The collector of the cache directory (tge_cache.cc): when it runs, what *)
(* it lists, which limit it applies, and which copies it removes, beside   *)
(* the opens that copy files in and read them meanwhile.                   *)
(*                                                                         *)
(* Sizes are in KBytes and times in days.  The time of a file is the later *)
(* of its st_atime and its st_mtime.                                       *)
(***************************************************************************)
EXTENDS Naturals, FiniteSets, FiniteSetsExt

CONSTANTS Files,      (* names in the cache directory that are neither hidden nor tgefslog *)
          IndexFile,  (* localfiles.csv, one of them                                       *)
          Me, Other,  (* users                                                             *)
          None,       (* no user, no file                                                  *)
          softLimitInKBytes, hardLimitInKBytes,
          GC_period_in_KBytes, GC_period_in_nFiles,
          KeepDays,   (* GC_delete_cache_if_this_number_of_days_passed                     *)
          Sizes,      (* sizes of files                                                    *)
          MaxCopies, MaxDay  (* bounds on what happens                                     *)

ASSUME FilesAssumption == IsFiniteSet(Files) /\ IndexFile \in Files /\ None \notin Files
ASSUME UsersAssumption == Me # Other /\ None \notin {Me, Other}
ASSUME NumbersAssumption ==
  /\ {softLimitInKBytes, hardLimitInKBytes, KeepDays, MaxCopies, MaxDay} \subseteq Nat
  /\ {GC_period_in_KBytes, GC_period_in_nFiles} \subseteq Nat \ {0}
  /\ Sizes \subseteq Nat /\ Sizes # {}

VARIABLES
  dir,      (* dir[f]: the file f of the directory, or NoFile             *)
  index,    (* the names in localCacheFileName2originalFullPathName       *)
  today,
  GC_counter_in_KBytes, GC_counter_in_nFiles,
  stage,    (* stage[f]: how far the open that copies f in has come       *)
  copies,   (* how many there were                                        *)
  lastUse,  (* lastUse[f]: the day f was last copied in or read           *)
  pc,       (* where collect is                                           *)
  caller,   (* the file whose open runs it                                *)
  listed,   (* listed[f]: what stat said of f, or NoFile                  *)
  work,     (* the files the loop of collect has still to look at         *)
  candidates, used, limit, oldDate, deleted,  (* its locals               *)
  forget,   (* the file unlinked and still in the index                   *)
  removed, failed  (* the files it unlinked, and those it could not       *)

opens == <<stage, copies, lastUse>>
counters == <<GC_counter_in_KBytes, GC_counter_in_nFiles>>
locals == <<listed, work, candidates, used, limit, oldDate, deleted, forget, removed, failed>>
collector == <<pc, caller, locals>>
vars == <<dir, index, today, counters, opens, collector>>

------------------------------------------------------------------------------
NoFile == [size |-> 0, time |-> 0, owner |-> None]

File(size, time, owner) == [size |-> size, time |-> time, owner |-> owner]

There(f) == dir[f] # NoFile

Mine(f) == listed[f].owner = Me

Size(S) == MapThenSumSet(LAMBDA f : listed[f].size, S)

(* The table of the names of open copies has the empty name only (see LocalFile in
   CacheAccess), which no file of the directory has. *)
IsLockedFile(f) == FALSE

Init ==
  /\ dir = [f \in Files |-> IF f = IndexFile THEN File(0, 0, Me) ELSE NoFile]
  /\ index = {}
  /\ today = 0
  /\ GC_counter_in_KBytes = 0 /\ GC_counter_in_nFiles = 0
  /\ stage = [f \in Files |-> "none"]
  /\ copies = 0
  /\ lastUse = [f \in Files |-> 0]
  /\ pc = "idle" /\ caller = None
  /\ listed = [f \in Files |-> NoFile]
  /\ work = {} /\ candidates = {}
  /\ used = 0 /\ limit = 0 /\ oldDate = 0 /\ deleted = 0
  /\ forget = None
  /\ removed = {} /\ failed = {}

------------------------------------------------------------------------------
(* The opens, and what goes on outside the daemon. *)

(* copyFileWithDecompression writes the copy f, its own or a new one. *)
CopyIn(f) ==
  /\ f # IndexFile /\ stage[f] = "none"
  /\ dir[f].owner # Other
  /\ copies < MaxCopies
  /\ copies' = copies + 1
  /\ \E s \in Sizes : dir' = [dir EXCEPT ![f] = File(s, today, Me)]
  /\ stage' = [stage EXCEPT ![f] = "copied"]
  /\ lastUse' = [lastUse EXCEPT ![f] = today]
  /\ UNCHANGED <<index, today, counters, collector>>

(* touchByAnotherFilesDate gives the copy the times of the original, which may be of
   any day. *)
Touch(f) ==
  /\ stage[f] = "accessed" /\ caller # f
  /\ stage' = [stage EXCEPT ![f] = "touched"]
  /\ IF There(f)
     THEN \E t \in 0..today : dir' = [dir EXCEPT ![f].time = t]
     ELSE UNCHANGED dir
  /\ UNCHANGED <<index, today, counters, copies, lastUse, collector>>

(* Another open finds the copy f new enough. *)
OpenAgain(f) ==
  /\ dir[f].owner = Me /\ f # IndexFile /\ stage[f] = "none"
  /\ stage' = [stage EXCEPT ![f] = "touched"]
  /\ UNCHANGED <<dir, index, today, counters, copies, lastUse, collector>>

(* The copy is opened, and appendLocalFileCollection adds it to the index and to its
   file; or it is gone, and open returns an error. *)
Append(f) ==
  /\ stage[f] = "touched"
  /\ stage' = [stage EXCEPT ![f] = "none"]
  /\ \/ /\ ~There(f)
        /\ UNCHANGED <<dir, index>>
     \/ /\ There(f)
        /\ dir' = [dir EXCEPT ![IndexFile] = File(0, today, Me)]
        /\ index' = index \cup {f}
  /\ UNCHANGED <<today, counters, copies, lastUse, collector>>

(* A user reads the copy, and the file system keeps its st_atime. *)
Read(f) ==
  /\ dir[f].owner = Me /\ f # IndexFile /\ stage[f] = "none"
  /\ dir[f].time # today \/ lastUse[f] # today
  /\ dir' = [dir EXCEPT ![f].time = today]
  /\ lastUse' = [lastUse EXCEPT ![f] = today]
  /\ UNCHANGED <<index, today, counters, stage, copies, collector>>

(* The daemon of another user adds and removes files. *)
OtherCreates(f) ==
  /\ ~There(f) /\ f # IndexFile /\ stage[f] = "none"
  /\ \E s \in Sizes : dir' = [dir EXCEPT ![f] = File(s, today, Other)]
  /\ UNCHANGED <<index, today, counters, opens, collector>>

OtherRemoves(f) ==
  /\ dir[f].owner = Other
  /\ dir' = [dir EXCEPT ![f] = NoFile]
  /\ UNCHANGED <<index, today, counters, opens, collector>>

Tick == /\ today < MaxDay
        /\ today' = today + 1
        /\ UNCHANGED <<dir, index, counters, opens, collector>>

------------------------------------------------------------------------------
(* accessedFile, one at a time: its caller has the LFLock.  The size is rounded up as
   the code does, and a copy that is gone has none. *)

CountedSize(f) == dir[f].size + 3

(* collect begins with the names in the directory. *)
StartCollect(f) ==
  /\ pc' = "stat"
  /\ caller' = f
  /\ work' = {g \in Files : There(g)}
  /\ UNCHANGED <<listed, candidates, used, limit, oldDate, deleted, forget, removed, failed>>

Accessed(f) ==
  /\ pc = "idle"
  /\ stage[f] = "copied"
  /\ stage' = [stage EXCEPT ![f] = "accessed"]
  /\ \/ /\ ~There(f)
        /\ UNCHANGED <<counters, collector>>
     \/ /\ There(f)
        /\ GC_counter_in_KBytes' = CountedSize(f)
        /\ GC_counter_in_nFiles' = GC_counter_in_nFiles + 1
        /\ IF \/ GC_period_in_nFiles <= GC_counter_in_nFiles'
              \/ GC_period_in_KBytes <= GC_counter_in_KBytes'
           THEN StartCollect(f)
           ELSE UNCHANGED collector
  /\ UNCHANGED <<dir, index, today, copies, lastUse>>

(* collect returns, its locals are gone, and accessedFile calls resetCounter. *)
EndCollect ==
  /\ pc' = "idle" /\ caller' = None
  /\ listed' = [f \in Files |-> NoFile]
  /\ work' = {} /\ candidates' = {}
  /\ used' = 0 /\ limit' = 0 /\ oldDate' = 0 /\ deleted' = 0
  /\ forget' = None
  /\ removed' = {} /\ failed' = {}
  /\ GC_counter_in_KBytes' = 0 /\ GC_counter_in_nFiles' = 0

------------------------------------------------------------------------------
(* Step 2: stat of each file listed.  One that is gone ends the collection. *)
Examine(f) ==
  /\ pc = "stat"
  /\ f \in work
  /\ \/ /\ ~There(f)
        /\ EndCollect
     \/ /\ There(f)
        /\ work' = work \ {f}
        /\ listed' = [listed EXCEPT ![f] = dir[f]]
        /\ used' = IF dir[f].owner = Me THEN used + dir[f].size ELSE used
        /\ UNCHANGED <<counters, pc, caller, candidates, limit, oldDate, deleted,
                       forget, removed, failed>>
  /\ UNCHANGED <<dir, index, today, opens>>

(* opendir, readdir_r, stat or statfs fails: collect returns. *)
GiveUp ==
  /\ pc = "stat"
  /\ EndCollect
  /\ UNCHANGED <<dir, index, today, opens>>

(* Step 3: the soft limit when less than 30% of the disk is free, the hard one
   otherwise. *)
LimitSize(scarce) == IF scarce THEN softLimitInKBytes ELSE hardLimitInKBytes

(* Variant: whoever owns them. *)
CollectableAll == {f \in Files : listed[f] # NoFile}

Collectable == {f \in Files : Mine(f)}

Threshold ==
  /\ pc = "stat"
  /\ work = {}
  /\ \E scarce \in BOOLEAN : limit' = LimitSize(scarce)
  /\ oldDate' = IF KeepDays <= today THEN today - KeepDays ELSE 0
  /\ work' = Collectable
  /\ pc' = "age"
  /\ UNCHANGED <<dir, index, today, counters, opens, caller, listed, candidates, used,
                 deleted, forget, removed, failed>>

(* Variant: a failed unlink counts as well. *)
UnlinkUnchecked(f) ==
  /\ deleted' = deleted + listed[f].size
  /\ \/ /\ There(f)
        /\ dir' = [dir EXCEPT ![f] = NoFile]
        /\ removed' = removed \cup {f} /\ UNCHANGED failed
     \/ failed' = failed \cup {f} /\ UNCHANGED <<dir, removed>>
  /\ forget' = f

(* unlink, which may fail; the sizes are those listed. *)
UnlinkCopy(f) ==
  /\ \/ /\ There(f)
        /\ dir' = [dir EXCEPT ![f] = NoFile]
        /\ deleted' = deleted + listed[f].size
        /\ removed' = removed \cup {f}
        /\ UNCHANGED failed
     \/ /\ failed' = failed \cup {f}
        /\ UNCHANGED <<dir, deleted, removed>>
  /\ forget' = f

(* removeLocalFileCollection comes after unlink, whatever that did. *)
Forget ==
  /\ forget # None
  /\ index' = index \ {forget}
  /\ forget' = None
  /\ UNCHANGED <<dir, today, counters, opens, pc, caller, listed, work, candidates, used,
                 limit, oldDate, deleted, removed, failed>>

(* Step 4: files that are too old go, the others become candidates. *)
Age(f) ==
  /\ pc = "age" /\ forget = None
  /\ f \in work
  /\ work' = work \ {f}
  /\ \/ /\ IsLockedFile(f)
        /\ UNCHANGED <<dir, candidates, deleted, forget, removed, failed>>
     \/ /\ ~IsLockedFile(f) /\ listed[f].time < oldDate
        /\ UnlinkCopy(f)
        /\ UNCHANGED candidates
     \/ /\ ~IsLockedFile(f) /\ oldDate <= listed[f].time
        /\ candidates' = candidates \cup {f}
        /\ UNCHANGED <<dir, deleted, forget, removed, failed>>
  /\ UNCHANGED <<index, today, counters, opens, pc, caller, listed, used, limit, oldDate>>

AgeEnd ==
  /\ pc = "age" /\ forget = None
  /\ work = {}
  /\ pc' = "need"
  /\ UNCHANGED <<dir, index, today, counters, opens, caller, locals>>

(* Variant: what is used, whatever the limit. *)
GarbageAll == used

Garbage == IF limit < used THEN used - limit ELSE 0

(* Variant: any candidate. *)
AnyCandidate(f) == f \in candidates

(* The candidates are sorted by time, in any order where the times are equal. *)
NextCandidate(f) == /\ f \in candidates
                    /\ \A g \in candidates : listed[f].time <= listed[g].time

(* Step 5: candidates go, the least recently used first, until enough is deleted. *)
Need(f) ==
  /\ pc = "need" /\ forget = None
  /\ deleted < Garbage
  /\ NextCandidate(f)
  /\ candidates' = candidates \ {f}
  /\ UnlinkCopy(f)
  /\ UNCHANGED <<index, today, counters, opens, pc, caller, listed, work, used, limit, oldDate>>

(* Step 7: saveLocalFileCollection writes the index anew. *)
Save ==
  /\ pc = "need" /\ forget = None
  /\ Garbage <= deleted \/ candidates = {}
  /\ dir' = [dir EXCEPT ![IndexFile] = File(0, today, Me)]
  /\ EndCollect
  /\ UNCHANGED <<index, today, opens>>

------------------------------------------------------------------------------
Collect == \/ GiveUp \/ Threshold \/ AgeEnd \/ Forget \/ Save
           \/ \E f \in Files : Examine(f) \/ Age(f) \/ Need(f)

Around == \/ Tick
          \/ \E f \in Files : \/ CopyIn(f) \/ Touch(f) \/ OpenAgain(f) \/ Append(f) \/ Read(f)
                              \/ OtherCreates(f) \/ OtherRemoves(f)

(* Nothing goes on in the directory. *)
Quiet == pc = "idle" /\ UNCHANGED vars

Next == Quiet \/ Collect \/ Around \/ \E f \in Files : Accessed(f)

Spec == Init /\ [][Next]_vars

------------------------------------------------------------------------------
Labels == {"idle", "stat", "age", "need"}

Entries == [size : Nat, time : Nat, owner : {Me, Other, None}]

(* The variables have their types; the loops of collect work on files they listed, and
   step 5 only on files of this user. *)
TypeOK ==
  /\ dir \in [Files -> Entries] /\ listed \in [Files -> Entries]
  /\ index \subseteq Files
  /\ {today, copies, GC_counter_in_KBytes, GC_counter_in_nFiles} \subseteq Nat
  /\ stage \in [Files -> {"none", "copied", "accessed", "touched"}]
  /\ lastUse \in [Files -> Nat]
  /\ pc \in Labels
  /\ caller \in Files \cup {None} /\ (caller = None <=> pc = "idle")
  /\ {used, limit, oldDate, deleted} \subseteq Nat
  /\ forget \in Files \cup {None}
  /\ work \subseteq Files /\ candidates \subseteq Files /\ removed \subseteq Files /\ failed \subseteq Files
  /\ pc \in {"age", "need"} => work \cup candidates \subseteq {f \in Files : Mine(f)}

(* A collection takes files in the order of their last use: none it has taken, or tried
   to take, was used later than one that is left. *)
OldestFirst == pc = "need" =>
  \A f \in removed \cup failed, g \in candidates : listed[f].time <= listed[g].time

(* A collection that runs to its end has brought this user's files, as listed, down to
   the limit, or has tried them all. *)
RoomMade == pc = "need" /\ (Garbage <= deleted \/ candidates = {}) =>
  LET own == {f \in Files : Mine(f)}
  IN  Size(own \ removed) <= limit \/ own = removed \cup failed

(* Only files of this user are taken, although others come and go between the stat
   that asks for the owner and the unlink. *)
OwnOnly == [][\A f \in removed' \ removed : dir[f].owner = Me]_vars

(* A file that is not too old is taken only while what is left exceeds the limit. *)
DueOnly == [][\A f \in removed' \ removed :
                 \/ listed[f].time < oldDate
                 \/ limit < Size({g \in Files : Mine(g)} \ removed)]_vars

(* A copy that was copied in or read within the days a copy is kept is not taken as too
   old: "Cache files more than 14-day-old are removed because they are unlikely to be
   used in the near future". *)
FreshKept == [][pc = "age" => \A f \in removed' \ removed : lastUse[f] < oldDate]_vars
==============================================================================
