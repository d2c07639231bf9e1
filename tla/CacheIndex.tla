------------------------------- MODULE CacheIndex -------------------------------
(***************************************************************************)
(* The index of the cached files, CacheGarbageCollection's map from the    *)
(* name of a copy to the path it is a copy of (tge_cache.cc).  It is       *)
(* written to localfiles.csv entry by entry, and anew after each           *)
(* collection; a daemon that starts reads the file back.  Its text is      *)
(* served as /proc/tgefscache (tgefs.cc).  A path is one of a small set,   *)
(* and a line of the file is the entry it was written for, whole or cut.   *)
(***************************************************************************)
EXTENDS Naturals, SequencesExt

CONSTANTS Threads,     (* worker threads of FUSE                                    *)
          Names,       (* names of copies                                           *)
          Paths,       (* paths of originals                                        *)
          NameOf,      (* createCachedFileName: the digest of a path                *)
          ReadBack,    (* the path CSVParse returns for a line written for a path   *)
          None,        (* no path, no thread, no file                               *)
          Garbled,     (* what is read from a line that was cut                     *)
          Settings,    (* see Setting                                               *)
          MaxLines     (* bound of the lines of the file                            *)

(* full: opens and writes on the disk may fail, or come short.  collects: collections are made.
   takesIndex: a collection may take localfiles.csv, which lies among the copies.
   reads: someone reads /proc/tgefscache.  crashes: bound of the crashes. *)
Setting == [full : BOOLEAN, collects : BOOLEAN, takesIndex : BOOLEAN,
            reads : BOOLEAN, crashes : Nat]

(* localfiles.csv as one of the files of the cache directory, and the collection as the
   owner of the mutex. *)
IndexFile == "localfiles.csv"
Collector == "collector"

(* A line of the file; cut says where it ends early: within the path, within the name, or
   not. *)
Entry == [name : Names, path : Paths \cup {None, Garbled}, cut : {"no", "path", "name"}]

ASSUME CacheIndexAssumption == /\ IsFiniteSet(Names) /\ IndexFile \notin Names
                               /\ Collector \notin Threads
                               /\ NameOf \in [Paths -> Names]
                               /\ ReadBack \in [Paths -> Paths]
                               /\ \A p \in Paths : ReadBack[ReadBack[p]] = ReadBack[p]
                               /\ None \notin Paths \cup Threads \cup Names \cup {IndexFile, Collector}
                               /\ None \notin Seq(Entry)
                               /\ Garbled \notin Paths \cup {None}
                               /\ Settings \subseteq Setting
                               /\ MaxLines \in Nat

VARIABLES setting,
          index,    (* localCacheFileName2originalFullPathName                       *)
          isDirty,  (* localCacheCollection_SolidText_isDirty                        *)
          solid,    (* the map that localCacheCollection_SolidText was made from     *)
          mutex,    (* owner of localCacheCollectionFile_mutex: a thread, or None    *)
          pc,       (* pc[t] of each thread                                          *)
          path,     (* the path thread t opens                                       *)
          size,     (* the size of /proc/tgefscache that thread t was told           *)
          gc,       (* where the collection, or the initialization, is               *)
          batch,    (* files the collection has still to take                        *)
          taken,    (* the copy it has just unlinked, whose entry comes next         *)
          up,       (* whether the daemon runs                                       *)
          crashes,  (* how often it has crashed                                      *)
          file,     (* the lines of localfiles.csv, or None                          *)
          swp,      (* those of localfiles.csv.swp                                   *)
          copies    (* the copies there are in the cache directory                   *)

disk == <<file, swp, copies>>
readers == <<solid, size>>
collection == <<gc, batch, taken>>
daemon == <<up, crashes>>
vars == <<setting, index, isDirty, mutex, pc, path, daemon, readers, collection, disk>>

Empty == [n \in Names |-> None]

------------------------------------------------------------------------------
(* The file. *)

Line(n, p, cut) == [name |-> n, path |-> p, cut |-> cut]

(* What follows a line that was cut is read as its end. *)
Swallowed(f, i) == i > 1 /\ f[i - 1].cut # "no"

(* Line i says something of name n, to initLocalFileCollection. *)
Says(f, i, n) == f[i].name = n /\ f[i].cut # "name" /\ ~Swallowed(f, i)

(* What a value becomes on its way through the file. *)
Restored(v) == IF v \in Paths THEN ReadBack[v] ELSE v

(* Variant: the last field of the line counts. *)
ReadLineLast(f, i) == IF f[i].cut = "no" THEN Restored(f[i].path)
                      ELSE IF i < Len(f) THEN Restored(f[i + 1].path) ELSE Garbled

(* What the lines of f say of a name when the line number i is the one that counts. *)
ReadLine(f, i) == IF f[i].cut = "no" THEN Restored(f[i].path) ELSE Garbled

(* Variant: the first line of a name counts. *)
ReplayFirst(f) ==
  [n \in Names |->
     LET said == {i \in DOMAIN f : Says(f, i, n)}
     IN  IF said = {} THEN None ELSE ReadLine(f, CHOOSE i \in said : \A j \in said : i <= j)]

(* The map that the lines stand for: the last one of a name counts. *)
Replay(f) ==
  [n \in Names |->
     LET said == {i \in DOMAIN f : Says(f, i, n)}
     IN  IF said = {} THEN None ELSE ReadLine(f, CHOOSE i \in said : \A j \in said : j <= i)]

Entered(idx) == {n \in Names : idx[n] # None}

(* The lines saveLocalFileCollection writes for a map, one for each entry. *)
Written(idx) == SetToSeq({Line(n, idx[n], "no") : n \in Entered(idx)})

Lines == IF file = None THEN <<>> ELSE file

------------------------------------------------------------------------------
Init == /\ setting \in Settings
        /\ index = Empty /\ isDirty = FALSE /\ solid = Empty
        /\ mutex = None
        /\ pc = [t \in Threads |-> "idle"]
        /\ path = [t \in Threads |-> None]
        /\ size = [t \in Threads |-> 0]
        /\ gc = "none" /\ batch = {} /\ taken = None
        /\ up = FALSE /\ crashes = 0
        /\ file = None /\ swp = None /\ copies = {}

Goto(t, l) == pc' = [pc EXCEPT ![t] = l]

Idle(t) == up /\ pc[t] = "idle"

(* An open returns. *)
Return(t) == /\ Goto(t, "idle")
             /\ path' = [path EXCEPT ![t] = None]

------------------------------------------------------------------------------
(* An open of path p. *)

(* canUseLocalCacheNameForLocalFileCollection. *)
CanUse(p) == index[NameOf[p]] \in {None, p}

Opening == {t \in Threads : pc[t] \in {"copied", "enter", "line"}}

(* The name is free or the path's own; then the lock of the copy is taken, and the copy
   is made, or found new enough. *)
Open(t, p) ==
  /\ Idle(t)
  /\ mutex = None /\ CanUse(p)
  /\ \A s \in Opening : NameOf[path[s]] # NameOf[p]
  /\ Len(Lines) + Cardinality(Opening) < MaxLines
  /\ copies' = copies \cup {NameOf[p]}
  /\ path' = [path EXCEPT ![t] = p]
  /\ Goto(t, "copied")
  /\ UNCHANGED <<setting, index, isDirty, mutex, daemon, readers, collection, file, swp>>

(* The copy is opened; a collection may have taken it. *)
OpenCopy(t) ==
  /\ pc[t] = "copied"
  /\ IF NameOf[path[t]] \in copies
     THEN Goto(t, "enter") /\ UNCHANGED path
     ELSE Return(t)
  /\ UNCHANGED <<setting, index, isDirty, mutex, daemon, readers, collection, disk>>

(* appendLocalFileCollection: the entry in memory. *)
Enter(t) ==
  /\ pc[t] = "enter"
  /\ mutex = None
  /\ mutex' = t
  /\ index' = [index EXCEPT ![NameOf[path[t]]] = path[t]]
  /\ Goto(t, "line")
  /\ UNCHANGED <<setting, isDirty, path, daemon, readers, collection, disk>>

(* And its line: at the end of the file, which is made when it is missing.  On a full
   disk the line is cut, and nobody looks. *)
AppendLine(t) ==
  /\ pc[t] = "line"
  /\ \E cut \in IF setting.full THEN {"no", "path", "name"} ELSE {"no"} :
        file' = Lines \o <<Line(NameOf[path[t]], path[t], cut)>>
  /\ isDirty' = TRUE
  /\ mutex' = None
  /\ Return(t)
  /\ UNCHANGED <<setting, index, daemon, readers, collection, swp, copies>>

(* The file cannot be opened: the text of /proc/tgefscache is not marked either. *)
AppendFails(t) ==
  /\ pc[t] = "line" /\ setting.full
  /\ mutex' = None
  /\ Return(t)
  /\ UNCHANGED <<setting, index, isDirty, daemon, readers, collection, disk>>

------------------------------------------------------------------------------
(* The text served under /proc. *)

(* updateSolidText, when someone writes to the special file. *)
Rebuild(t) ==
  /\ Idle(t) /\ mutex = None /\ setting.reads
  /\ isDirty
  /\ mutex' = t
  /\ Goto(t, "rebuild")
  /\ UNCHANGED <<setting, index, isDirty, path, daemon, readers, collection, disk>>

(* Variant: the old text is emptied first. *)
AssignEmpty(t) ==
  /\ pc[t] = "rebuild"
  /\ solid' = IF solid = Empty THEN index ELSE Empty
  /\ isDirty' = (solid # Empty)
  /\ mutex' = None
  /\ Goto(t, "idle")
  /\ UNCHANGED <<setting, index, path, daemon, size, collection, disk>>

Assign(t) ==
  /\ pc[t] = "rebuild"
  /\ solid' = index
  /\ isDirty' = FALSE
  /\ mutex' = None
  /\ Goto(t, "idle")
  /\ UNCHANGED <<setting, index, path, daemon, size, collection, disk>>

(* getattr tells the size of the text, in lines here, to a reader. *)
GetSolidTextSize(t) ==
  /\ Idle(t) /\ setting.reads
  /\ size' = [size EXCEPT ![t] = Cardinality(Entered(solid))]
  /\ Goto(t, "reader")
  /\ UNCHANGED <<setting, index, isDirty, mutex, path, daemon, solid, collection, disk>>

(* Its last read begins where the text ended: substr throws when it has shrunk, and
   nothing catches; a read while the text is being assigned may do anything.  So the
   daemon dies, see Crash; or the read succeeds. *)
ReadFails(t) == /\ pc[t] = "reader"
                /\ \/ size[t] > Cardinality(Entered(solid))
                   \/ \E s \in Threads : pc[s] = "rebuild"

GetSolidText(t) ==
  /\ pc[t] = "reader"
  /\ size[t] <= Cardinality(Entered(solid))
  /\ size' = [size EXCEPT ![t] = 0]
  /\ Goto(t, "idle")
  /\ UNCHANGED <<setting, index, isDirty, mutex, path, daemon, solid, collection, disk>>

------------------------------------------------------------------------------
(* A collection; which copies it may take is the matter of CacheGC. *)

Files == Names \cup {IndexFile}

Collect ==
  /\ up /\ gc = "none" /\ setting.collects
  /\ \E b \in SUBSET (copies \cup (IF setting.takesIndex THEN {IndexFile} ELSE {})) :
        batch' = b
  /\ gc' = "unlink"
  /\ UNCHANGED <<setting, index, isDirty, mutex, pc, path, daemon, readers, taken, disk>>

(* unlink of one file, which may fail. *)
Unlink(x) ==
  /\ gc = "unlink" /\ x \in batch
  /\ batch' = batch \ {x}
  /\ taken' = x /\ gc' = "forget"
  /\ \/ UNCHANGED disk
     \/ /\ x = IndexFile
        /\ file' = None
        /\ UNCHANGED <<swp, copies>>
     \/ /\ x # IndexFile
        /\ copies' = copies \ {x}
        /\ UNCHANGED <<file, swp>>
  /\ UNCHANGED <<setting, index, isDirty, mutex, pc, path, daemon, readers>>

(* Variant: the text is not marked. *)
ForgetUnmarked ==
  /\ gc = "forget" /\ mutex = None
  /\ index' = [n \in Names |-> IF n = taken THEN None ELSE index[n]]
  /\ taken' = None /\ gc' = "unlink"
  /\ UNCHANGED <<setting, isDirty, mutex, pc, path, daemon, readers, batch, disk>>

(* removeLocalFileCollection of that name, whether unlink succeeded or not. *)
Forget ==
  /\ gc = "forget" /\ mutex = None
  /\ index' = [n \in Names |-> IF n = taken THEN None ELSE index[n]]
  /\ isDirty' = (isDirty \/ taken \in Entered(index))
  /\ taken' = None /\ gc' = "unlink"
  /\ UNCHANGED <<setting, mutex, pc, path, daemon, readers, batch, disk>>

EndUnlink ==
  /\ gc = "unlink" /\ batch = {}
  /\ gc' = "save"
  /\ UNCHANGED <<setting, index, isDirty, mutex, pc, path, daemon, readers, batch, taken, disk>>

------------------------------------------------------------------------------
(* saveLocalFileCollection, by the collection or by a daemon that starts. *)

(* Variant: the file is written over. *)
SaveInPlace ==
  /\ gc = "save" /\ mutex = None
  /\ mutex' = Collector
  /\ gc' = "write"
  /\ file' = <<>> /\ swp' = <<>>
  /\ UNCHANGED <<setting, index, isDirty, pc, path, daemon, readers, batch, taken, copies>>

(* The temporary file is begun. *)
Save ==
  /\ gc = "save" /\ mutex = None
  /\ mutex' = Collector
  /\ gc' = "write"
  /\ swp' = <<>>
  /\ UNCHANGED <<setting, index, isDirty, pc, path, daemon, readers, batch, taken, file, copies>>

(* Its lines; on a full disk the first few of them only, and nobody looks. *)
WriteSwp ==
  /\ gc = "write"
  /\ \E k \in (IF setting.full THEN 0 ELSE Cardinality(Entered(index)))..Cardinality(Entered(index)) :
        swp' = SubSeq(Written(index), 1, k)
  /\ gc' = "rename"
  /\ UNCHANGED <<setting, index, isDirty, mutex, pc, path, daemon, readers, batch, taken, file, copies>>

(* saveLocalFileCollection returns, and with it collect or init, which has the text made
   anew at the first request. *)
Saved ==
  /\ mutex' = None
  /\ gc' = "none"
  /\ up' = TRUE
  /\ isDirty' = (isDirty \/ ~up)
  /\ UNCHANGED <<setting, index, pc, path, crashes, readers, batch, taken, copies>>

Rename ==
  /\ gc = "rename"
  /\ file' = swp /\ swp' = None
  /\ Saved

(* The temporary file cannot be made, or not renamed. *)
SaveFails ==
  /\ gc \in {"write", "rename"} /\ setting.full
  /\ UNCHANGED <<file, swp>>
  /\ Saved

------------------------------------------------------------------------------
(* Crash and restart. *)

Crash ==
  /\ up \/ gc # "none"
  /\ crashes < setting.crashes
  /\ crashes' = crashes + 1
  /\ up' = FALSE
  /\ index' = Empty /\ isDirty' = FALSE /\ solid' = Empty
  /\ mutex' = None
  /\ pc' = [t \in Threads |-> "idle"]
  /\ path' = [t \in Threads |-> None] /\ size' = [t \in Threads |-> 0]
  /\ gc' = "none" /\ batch' = {} /\ taken' = None
  /\ UNCHANGED <<setting, disk>>

(* A line that is counted as deleted: its copy is gone, or a later line is of the same
   name.  Of lines that were cut either may come. *)
SomeDropped(idx) == IF \A i \in DOMAIN Lines : Lines[i].cut = "no"
                    THEN {Len(Lines) > Cardinality(Entered(idx))}
                    ELSE BOOLEAN

(* Variant: the lock is kept while the empty file is saved. *)
InitLocalFileCollectionLocked ==
  /\ ~up /\ gc = "none"
  /\ index' = [n \in Names |-> IF n \in copies THEN Replay(Lines)[n] ELSE None]
  /\ \E dropped \in SomeDropped(index') :
        IF dropped \/ file = None
        THEN gc' = "save" /\ mutex' = (IF file = None THEN Collector ELSE None) /\ UNCHANGED <<up, isDirty>>
        ELSE up' = TRUE /\ isDirty' = TRUE /\ UNCHANGED <<gc, mutex>>
  /\ UNCHANGED <<setting, pc, path, crashes, readers, batch, taken, disk>>

(* initLocalFileCollection: the entries of the copies there are.  The file is saved at
   once when it was missing or had more lines than that. *)
InitLocalFileCollection ==
  /\ ~up /\ gc = "none"
  /\ index' = [n \in Names |-> IF n \in copies THEN Replay(Lines)[n] ELSE None]
  /\ \E dropped \in SomeDropped(index') :
        IF dropped \/ file = None
        THEN gc' = "save" /\ UNCHANGED <<up, isDirty>>
        ELSE up' = TRUE /\ isDirty' = TRUE /\ UNCHANGED gc
  /\ UNCHANGED <<setting, mutex, pc, path, crashes, readers, batch, taken, disk>>

(* The file is there but cannot be opened: an empty map, and nothing is saved. *)
InitUnreadable ==
  /\ ~up /\ gc = "none" /\ setting.full /\ file # None
  /\ index' = Empty
  /\ up' = TRUE /\ isDirty' = TRUE
  /\ UNCHANGED <<setting, mutex, pc, path, crashes, readers, collection, disk>>

------------------------------------------------------------------------------
Saving == Save \/ WriteSwp \/ Rename

Step(t) == \/ \E p \in Paths : Open(t, p)
           \/ OpenCopy(t) \/ Enter(t) \/ AppendLine(t) \/ AppendFails(t)
           \/ Rebuild(t) \/ Assign(t) \/ GetSolidTextSize(t) \/ GetSolidText(t)

Next == \/ \E t \in Threads : Step(t)
        \/ Collect \/ (\E x \in Files : Unlink(x)) \/ Forget \/ EndUnlink
        \/ Saving \/ SaveFails
        \/ Crash \/ InitLocalFileCollection \/ InitUnreadable

(* The thread that starts the daemon runs. *)
Fairness == WF_vars(InitLocalFileCollection) /\ WF_vars(~up /\ Saving)

Spec == Init /\ [][Next]_vars /\ Fairness

------------------------------------------------------------------------------
TypeOK == /\ setting \in Settings
          /\ index \in [Names -> Paths \cup {None, Garbled}]
          /\ isDirty \in BOOLEAN
          /\ solid \in [Names -> Paths \cup {None, Garbled}]
          /\ \A t \in Threads : mutex = t <=> pc[t] \in {"line", "rebuild"}
          /\ mutex = Collector <=> gc \in {"write", "rename"}
          /\ mutex \in Threads \cup {None, Collector}
          /\ pc \in [Threads -> {"idle", "copied", "enter", "line", "rebuild", "reader"}]
          /\ path \in [Threads -> Paths \cup {None}]
          /\ size \in [Threads -> Nat]
          /\ gc \in {"none", "unlink", "forget", "save", "write", "rename"}
          /\ batch \in SUBSET Files /\ taken \in Files \cup {None}
          /\ up \in BOOLEAN /\ crashes \in 0..setting.crashes
          /\ copies \in SUBSET Names
          /\ file \in Seq(Entry) \cup {None} /\ swp \in Seq(Entry) \cup {None}

(* Between the entry of a name in memory and its line in the file. *)
Pending(n) == \E t \in Threads : pc[t] = "line" /\ NameOf[path[t]] = n

(* As long as the disk takes what is written, a crash at any moment loses no entry: the
   file as it is read back has every entry the daemon has, the newest of each name,
   whichever of append, collection and save was under way.  While a collection that has
   taken localfiles.csv itself has not saved it again, it has not. *)
EntriesOnDisk ==
  ~setting.full /\ (setting.takesIndex => gc = "none") =>
     \A n \in Entered(index) : Pending(n) \/ Replay(Lines)[n] = Restored(index[n])

(* Whatever was cut, lost or joined on a full disk, no copy is taken for that of a path
   with another digest. *)
NamesOwn == \A n \in Names :
  index[n] \in Paths => \E p \in Paths : NameOf[p] = n /\ index[n] \in {p, ReadBack[p]}

(* The text under /proc is that of the map, or is known not to be. *)
SolidFresh == up /\ ~setting.full /\ ~isDirty =>
                 solid = index \/ \E n \in Names : Pending(n)

(* A reader of that text kills the daemon only where something is collected, or while
   the text is made anew. *)
ReadersSafe == ~setting.collects =>
                  \A t \in Threads : ReadFails(t) => \E s \in Threads : pc[s] = "rebuild"

(* A daemon that crashed gets to run again, its index file being there or not. *)
Restarts == ~up ~> up

Durable == INSTANCE DurableMap
           WITH Values <- Paths \cup {Garbled},
                memory <- index,
                disk <- Replay(Lines),
                open <- {NameOf[path[t]] : t \in {s \in Threads : pc[s] = "line"}},
                up <- up \/ gc # "none",
                lossy <- setting.full \/ setting.takesIndex

(* Lines appended, a file replaced by rename and the replay at the start make a map on
   disk that changes entry by entry or as a whole. *)
ImplementsDurableMap == Durable!Spec
================================================================================
