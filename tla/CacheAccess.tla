----------------------------- MODULE CacheAccess -----------------------------
(***************************************************************************)
(* How TGEfs serves files from its cache (tgefs.cc): open copies a remote  *)
(* file into the cache directory unless the copy there is new enough, write *)
(* goes to the copy, release writes a dirty copy back, and the garbage     *)
(* collector removes copies.  FUSE worker threads run these handlers side  *)
(* by side, one system call or critical section at a time.                 *)
(*                                                                         *)
(* A file is its mtime and the set of chunks in it: the chunk it had at    *)
(* first and those written since.  The lock of a cached file is a named    *)
(* lock, as LocalCacheLock shows it to be.                                 *)
(***************************************************************************)
EXTENDS Naturals, FiniteSets

CONSTANTS Workers,          (* FUSE worker threads; one under -s               *)
          Paths,            (* virtual paths                                   *)
          Names,            (* names of files in the cache directory           *)
          CacheName,        (* createCachedFileName: the SHA256 name of a path *)
          Fds,              (* file descriptors of the daemon                  *)
          None,             (* no path, name, descriptor or worker             *)
          Calls,            (* what else happens: see Call below               *)
          FreshFds,         (* no descriptor is reused during a release        *)
          DistinctSeconds,  (* no two changes fall into one second of mtime    *)
          MaxOpens, MaxWrites, MaxChanges  (* bounds on what happens           *)

Call == {"truncate", "unlink", "mknod", "rename", "utimens", "remote", "gc",
         "crash", "nospace"}

ASSUME CacheNameAssumption == CacheName \in [Paths -> Names]
ASSUME NoneAssumption == None \notin Workers \cup Paths \cup Names \cup Fds
ASSUME CallsAssumption == Calls \subseteq Call
ASSUME FlagsAssumption == FreshFds \in BOOLEAN /\ DistinctSeconds \in BOOLEAN
ASSUME BoundsAssumption == {MaxOpens, MaxWrites, MaxChanges} \subseteq Nat

VARIABLES
  orig,      (* orig[p]: the original file at path p, or Absent                *)
  cache,     (* cache[n]: the file n of the cache directory, or Absent         *)
  clock,     (* the second it is now                                           *)
  desc,      (* desc[f]: what descriptor f is open on                          *)
  localFH2LocalFile,                        (* the LocalFile of each handle    *)
  localFileName2LocalFile,                  (* the keys of this map            *)
  localCacheFileName2originalFullPathName,  (* the path each cache file is for *)
  lcf,       (* lcf[n]: the worker that holds the LocalCacheFileLock of n      *)
  lf,        (* the worker that holds an LFLock across several steps           *)
  pc, call,  (* where each worker is, and the locals of its handler            *)
  handle,    (* handle[f]: the path of the user's handle f, the chunks written *)
             (* through it that no original has got yet                        *)
  opens, writes, changes,  (* how much has happened                            *)
  lost       (* chunks that a closed handle left in no original                *)

store  == <<orig, cache, clock>>
tables == <<localFH2LocalFile, localFileName2LocalFile,
            localCacheFileName2originalFullPathName>>
locks  == <<lcf, lf>>
users  == <<handle, opens, writes, changes, lost>>
vars   == <<store, desc, tables, locks, pc, call, users>>

------------------------------------------------------------------------------
Absent == [data |-> {}, mtime |-> 0]

File(data, mtime) == [data |-> data, mtime |-> mtime]

Chunk(p, k) == [path |-> p, n |-> k]

NoHandle == [path |-> None, unsaved |-> {}]

(* What a descriptor is open on. *)
On(kind, name) == [on |-> kind, name |-> name]

Closed == On("closed", None)

(* Variant: the constructor does not use its argument isCached. *)
LocalFileCached(realFileName, cachedFileName, isCached) ==
  [realFileName |-> realFileName, cachedFileName |-> None,
   isCached |-> realFileName # None, isDirty |-> FALSE]

(* The constructors of LocalFile take a cachedFileName and leave the member as
   it is, empty; None is the empty string. *)
LocalFile(realFileName, cachedFileName, isCached) ==
  [realFileName |-> realFileName, cachedFileName |-> None,
   isCached |-> isCached, isDirty |-> FALSE]

Dummy == LocalFile(None, None, FALSE)

NoCall == [path |-> None, fd |-> None, dest |-> None, lf |-> Dummy,
           data |-> {}, unsaved |-> {}, victims |-> {}, forget |-> None]

Init ==
  /\ orig = [p \in Paths |-> File({Chunk(p, 0)}, 1)]
  /\ cache = [n \in Names |-> Absent]
  /\ clock = 1
  /\ desc = [f \in Fds |-> Closed]
  /\ localFH2LocalFile = [f \in Fds |-> Dummy]
  /\ localFileName2LocalFile = {}
  /\ localCacheFileName2originalFullPathName = [n \in Names |-> None]
  /\ lcf = [n \in Names |-> None]
  /\ lf = None
  /\ pc = [w \in Workers |-> "idle"]
  /\ call = [w \in Workers |-> NoCall]
  /\ handle = [f \in Fds |-> NoHandle]
  /\ opens = 0 /\ writes = 0 /\ changes = 0
  /\ lost = {}

------------------------------------------------------------------------------
(* Steps of a worker. *)

Goto(w, l) == pc' = [pc EXCEPT ![w] = l]

Return(w) == /\ Goto(w, "idle")
             /\ call' = [call EXCEPT ![w] = NoCall]

Exists(file) == file # Absent

(* Something other than an open, a write or a release happens. *)
Change(what) == /\ what \in Calls
                /\ changes < MaxChanges
                /\ changes' = changes + 1

Ccfn(w) == CacheName[call[w].path]

(* What the clock may show at the next change of a file. *)
Now == IF DistinctSeconds THEN {clock + 1} ELSE {clock, clock + 1}

(* LocalCacheFileLock and LFLock, each taken when it is free. *)
LockLCF(w, n) == /\ lcf[n] = None
                 /\ lcf' = [lcf EXCEPT ![n] = w]

UnlockLCF(w) == lcf' = [n \in Names |-> IF lcf[n] = w THEN None ELSE lcf[n]]

(* Variant: an exit that does not unlock. *)
LeaveLocked(w) == lcf' = lcf /\ Return(w)

(* The handler returns: the destructor unlocks. *)
Leave(w) == UnlockLCF(w) /\ Return(w)

LFFree == lf = None

(* Variant: the name is not compared with the path it is in use for. *)
CanUseAny(p) == TRUE

(* canUseLocalCacheNameForLocalFileCollection. *)
CanUse(p) == localCacheFileName2originalFullPathName[CacheName[p]] \in {None, p}

(* A handler of one path that makes one system call under the lock of the cached
   file, or under none when another path has the name: it needs the lock free. *)
LCFPasses(p) == CanUse(p) => lcf[CacheName[p]] = None

(* touchByAnotherFilesDate: does nothing unless both files are there. *)
Touched(n, p) == IF Exists(orig[p]) /\ Exists(cache[n])
                 THEN [cache EXCEPT ![n].mtime = orig[p].mtime]
                 ELSE cache

(* The kernel opens any free descriptor. *)
FreeFds == {f \in Fds : /\ desc[f] = Closed
                        /\ FreshFds => \A w \in Workers : call[w].fd # f}

(* What has been written through handles and is in no original. *)
Unsaved == (UNION {handle[f].unsaved : f \in Fds}) \cup (UNION {call[w].unsaved : w \in Workers})

(* Chunks d reach an original: nobody needs to save them any more. *)
SavedHandles(d) == [f \in Fds |-> [handle[f] EXCEPT !.unsaved = @ \ d]]

------------------------------------------------------------------------------
(* tgefs_open.  createCachedFileName is called before any lock is taken. *)

OpenBegin(w, p) ==
  /\ pc[w] = "idle"
  /\ opens < MaxOpens
  /\ opens' = opens + 1
  /\ call' = [call EXCEPT ![w].path = p]
  /\ Goto(w, IF CanUse(p) THEN "check" ELSE "check_direct")
  /\ UNCHANGED <<store, desc, tables, locks, handle, writes, changes, lost>>

(* The original is opened and closed again: the error, if any, is returned. *)
OpenCheck(w) ==
  /\ pc[w] \in {"check", "check_direct"}
  /\ LCFPasses(call[w].path)
  /\ IF Exists(orig[call[w].path])
     THEN /\ Goto(w, IF pc[w] = "check" THEN "lock" ELSE "direct")
          /\ UNCHANGED call
     ELSE Return(w)
  /\ UNCHANGED <<store, desc, tables, locks, users>>

OpenLock(w) ==
  /\ pc[w] = "lock"
  /\ LockLCF(w, Ccfn(w))
  /\ Goto(w, "stat")
  /\ UNCHANGED <<store, desc, tables, lf, call, users>>

(* Variant: any copy will do. *)
IsThereALocalCache(p) == Exists(cache[CacheName[p]])

(* copyFileIfUpdatedOrFirstTime: the copy is used when its mtime is not older. *)
IsTheLocalCacheNewer(p) == /\ Exists(cache[CacheName[p]])
                           /\ orig[p].mtime <= cache[CacheName[p]].mtime

OpenStat(w) ==
  /\ pc[w] = "stat"
  /\ LET p == call[w].path
     IN  Goto(w, IF ~Exists(orig[p]) THEN "direct"
                 ELSE IF IsTheLocalCacheNewer(p) THEN "open" ELSE "copy")
  /\ UNCHANGED <<store, desc, tables, locks, call, users>>

(* copyFileWithDecompression opens the copy with O_TRUNC, then fills it; when either
   file cannot be opened the original is used. *)
CopyInTruncate(w) ==
  /\ pc[w] = "copy"
  /\ \/ /\ ~Exists(orig[call[w].path]) \/ "nospace" \in Calls
        /\ Goto(w, "direct")
        /\ UNCHANGED <<store, call>>
     \/ /\ Exists(orig[call[w].path])
        /\ \E now \in Now : /\ cache' = [cache EXCEPT ![Ccfn(w)] = File({}, now)]
                            /\ clock' = now
        /\ call' = [call EXCEPT ![w].dest = Ccfn(w)]
        /\ Goto(w, "data")
        /\ UNCHANGED orig
  /\ UNCHANGED <<desc, tables, locks, users>>

(* The results of write are not looked at: with no space left the copy stays
   empty and all goes on.  A copy unlinked by the collector is filled for nobody. *)
CopyInData(w) ==
  /\ pc[w] = "data"
  /\ \E d \in {orig[call[w].path].data} \cup (IF "nospace" \in Calls THEN {{}} ELSE {}) :
     \E now \in Now :
        IF call[w].dest = None
        THEN UNCHANGED store
        ELSE /\ cache' = [cache EXCEPT ![Ccfn(w)] = File(@.data \cup d, now)]
             /\ clock' = now
             /\ UNCHANGED orig
  /\ call' = [call EXCEPT ![w].dest = None]
  /\ Goto(w, "accessed")
  /\ UNCHANGED <<desc, tables, locks, users>>

OpenTouch(w) ==
  /\ pc[w] = "touch"
  /\ cache' = Touched(Ccfn(w), call[w].path)
  /\ Goto(w, "open")
  /\ UNCHANGED <<orig, clock, desc, tables, locks, call, users>>

(* open(ccfn, fi->flags); its error, no such file or no descriptor left, is returned. *)
OpenCached(w) ==
  /\ pc[w] = "open"
  /\ \/ /\ ~Exists(cache[Ccfn(w)]) \/ FreeFds = {}
        /\ Leave(w)
        /\ UNCHANGED desc
     \/ /\ Exists(cache[Ccfn(w)])
        /\ \E f \in FreeFds : /\ desc' = [desc EXCEPT ![f] = On("cache", Ccfn(w))]
                              /\ call' = [call EXCEPT ![w].fd = f]
        /\ Goto(w, "create")
        /\ UNCHANGED lcf
  /\ UNCHANGED <<store, tables, lf, users>>

(* The fall back to direct access, when the name is taken or the copy failed. *)
OpenDirect(w) ==
  /\ pc[w] = "direct"
  /\ \/ /\ ~Exists(orig[call[w].path]) \/ FreeFds = {}
        /\ Leave(w)
        /\ UNCHANGED desc
     \/ /\ Exists(orig[call[w].path])
        /\ \E f \in FreeFds : /\ desc' = [desc EXCEPT ![f] = On("orig", call[w].path)]
                              /\ call' = [call EXCEPT ![w].fd = f]
        /\ Goto(w, "create_direct")
        /\ UNCHANGED lcf
  /\ UNCHANGED <<store, tables, lf, users>>

(* LFLock::createLF. *)
CreateLF(f, file) ==
  /\ LFFree
  /\ localFH2LocalFile' = [localFH2LocalFile EXCEPT ![f] = file]
  /\ localFileName2LocalFile' = localFileName2LocalFile \cup {file.cachedFileName}

(* The user gets the handle when open returns. *)
GiveHandle(w) == handle' = [handle EXCEPT ![call[w].fd] = [path |-> call[w].path, unsaved |-> {}]]

OpenCreateLF(w) ==
  /\ pc[w] = "create"
  /\ CreateLF(call[w].fd, LocalFile(Ccfn(w), Ccfn(w), TRUE))
  /\ Goto(w, "append")
  /\ UNCHANGED <<store, desc, localCacheFileName2originalFullPathName, locks, call, users>>

OpenCreateDirectLF(w) ==
  /\ pc[w] = "create_direct"
  /\ CreateLF(call[w].fd, LocalFile(call[w].path, Ccfn(w), FALSE))
  /\ GiveHandle(w)
  /\ Leave(w)
  /\ UNCHANGED <<store, desc, localCacheFileName2originalFullPathName, lf,
                 opens, writes, changes, lost>>

(* appendLocalFileCollection. *)
OpenAppend(w) ==
  /\ pc[w] = "append"
  /\ localCacheFileName2originalFullPathName' =
        [localCacheFileName2originalFullPathName EXCEPT ![Ccfn(w)] = call[w].path]
  /\ GiveHandle(w)
  /\ Leave(w)
  /\ UNCHANGED <<store, desc, localFH2LocalFile, localFileName2LocalFile, lf,
                 opens, writes, changes, lost>>

------------------------------------------------------------------------------
(* CacheGarbageCollection::accessedFile, called with an LFLock by the copy-in of
   open and by the write-back of release.  Which copies are too old or too many is
   left open here: collect works through any set of them. *)

IsLockedFile(n) == n \in localFileName2LocalFile

AfterAccess == [accessed |-> "touch", rel_accessed |-> "rel_unlock"]

AccessedFile(w) ==
  /\ pc[w] \in DOMAIN AfterAccess
  /\ LFFree
  /\ \/ /\ Goto(w, AfterAccess[pc[w]])
        /\ UNCHANGED <<lf, call, changes>>
     \/ /\ Change("gc")
        /\ \E V \in SUBSET {n \in Names : Exists(cache[n])} :
              V # {} /\ call' = [call EXCEPT ![w].victims = V]
        /\ lf' = w
        /\ Goto(w, IF pc[w] = "accessed" THEN "gc" ELSE "rel_gc")
  /\ UNCHANGED <<store, desc, tables, lcf, handle, opens, writes, lost>>

(* unlink of one copy.  Descriptors stay open on the unlinked file; a copy in
   progress keeps the data it reads. *)
Collect(w, n) ==
  /\ pc[w] \in {"gc", "rel_gc"}
  /\ call[w].forget = None
  /\ n \in call[w].victims
  /\ IF IsLockedFile(n)
     THEN /\ call' = [call EXCEPT ![w].victims = call[w].victims \ {n}]
          /\ UNCHANGED <<cache, desc>>
     ELSE /\ cache' = [cache EXCEPT ![n] = Absent]
          /\ desc' = [f \in Fds |-> IF desc[f] = On("cache", n) THEN On("unlinked", None) ELSE desc[f]]
          /\ call' = [v \in Workers |->
                        IF v = w THEN [call[v] EXCEPT !.victims = @ \ {n}, !.forget = n]
                        ELSE IF call[v].dest = n
                             THEN [call[v] EXCEPT !.dest = None, !.data = cache[n].data]
                             ELSE call[v]]
  /\ UNCHANGED <<orig, clock, tables, locks, pc, users>>

(* removeLocalFileCollection, whether unlink succeeded or not. *)
Forget(w) ==
  /\ call[w].forget # None
  /\ localCacheFileName2originalFullPathName' =
        [localCacheFileName2originalFullPathName EXCEPT ![call[w].forget] = None]
  /\ call' = [call EXCEPT ![w].forget = None]
  /\ UNCHANGED <<store, desc, localFH2LocalFile, localFileName2LocalFile, locks, pc, users>>

CollectEnd(w) ==
  /\ pc[w] \in {"gc", "rel_gc"}
  /\ call[w].victims = {} /\ call[w].forget = None
  /\ lf' = None
  /\ Goto(w, IF pc[w] = "gc" THEN "touch" ELSE "rel_unlock")
  /\ UNCHANGED <<store, desc, tables, lcf, call, users>>

------------------------------------------------------------------------------
(* tgefs_write: pwrite first, the dirty flag in a critical section after it.  The
   flag is set whether pwrite failed or not. *)

Write(w, f) ==
  /\ pc[w] = "idle"
  /\ handle[f].path # None
  /\ writes < MaxWrites
  /\ writes' = writes + 1
  /\ LET chunk == Chunk(handle[f].path, writes + 1)
         n == desc[f].name
     IN  \/ /\ desc[f].on = "cache"
            /\ \E now \in Now : /\ cache' = [cache EXCEPT ![n] = File(@.data \cup {chunk}, now)]
                                /\ clock' = now
            /\ handle' = [handle EXCEPT ![f].unsaved = @ \cup {chunk}]
            /\ UNCHANGED orig
         \/ /\ desc[f].on = "orig"
            /\ \E now \in Now : /\ orig' = [orig EXCEPT ![n] = File(@.data \cup {chunk}, now)]
                                /\ clock' = now
            /\ UNCHANGED <<cache, handle>>
         \/ /\ desc[f].on = "unlinked"
            /\ handle' = [handle EXCEPT ![f].unsaved = @ \cup {chunk}]
            /\ UNCHANGED store
         \/ /\ "nospace" \in Calls
            /\ UNCHANGED <<store, handle>>
  /\ call' = [call EXCEPT ![w].fd = f]
  /\ Goto(w, "flag")
  /\ UNCHANGED <<desc, tables, locks, opens, changes, lost>>

(* LFLock::setDirtyFlag(f, true). *)
Flagged(f) == IF localFH2LocalFile[f] = Dummy THEN localFH2LocalFile
              ELSE [localFH2LocalFile EXCEPT ![f].isDirty = TRUE]

SetDirtyFlag(w) ==
  /\ pc[w] = "flag"
  /\ LFFree
  /\ localFH2LocalFile' = Flagged(call[w].fd)
  /\ Return(w)
  /\ UNCHANGED <<store, desc, localFileName2LocalFile,
                 localCacheFileName2originalFullPathName, locks, users>>

------------------------------------------------------------------------------
(* tgefs_release.  FUSE calls it once per handle, when no call uses the handle. *)

ReleaseClose(w, f) ==
  /\ pc[w] = "idle"
  /\ handle[f].path # None
  /\ \A v \in Workers : pc[v] = "flag" => call[v].fd # f
  /\ desc' = [desc EXCEPT ![f] = Closed]
  /\ handle' = [handle EXCEPT ![f] = NoHandle]
  /\ call' = [call EXCEPT ![w] = [@ EXCEPT !.path = handle[f].path, !.fd = f,
                                           !.unsaved = handle[f].unsaved]]
  /\ Goto(w, "rel_get")
  /\ UNCHANGED <<store, tables, locks, opens, writes, changes, lost>>

NeedsWriteBack(file) == file.isDirty /\ file.isCached

ReleaseGetLF(w) ==
  /\ pc[w] = "rel_get"
  /\ LFFree
  /\ LET file == localFH2LocalFile[call[w].fd]
     IN  /\ call' = [call EXCEPT ![w].lf = file]
         /\ Goto(w, IF NeedsWriteBack(file) THEN "rel_lock" ELSE "rel_remove")
  /\ UNCHANGED <<store, desc, tables, locks, users>>

Real(w) == call[w].lf.realFileName

ReleaseLock(w) ==
  /\ pc[w] = "rel_lock"
  /\ LockLCF(w, Real(w))
  /\ Goto(w, "rel_copy")
  /\ UNCHANGED <<store, desc, tables, lf, call, users>>

(* Variant: a copy that is not newer than the original is not written back. *)
CanCopyBackNewer(w) == /\ Exists(cache[Real(w)])
                       /\ orig[call[w].path].mtime < cache[Real(w)].mtime

(* copyFile (or copyFileWithCompression) opens the original with O_CREAT | O_TRUNC,
   then fills it; when either cannot be opened nothing more is tried. *)
CanCopyBack(w) == Exists(cache[Real(w)])

CopyBackTruncate(w) ==
  /\ pc[w] = "rel_copy"
  /\ \/ /\ ~CanCopyBack(w) \/ "nospace" \in Calls
        /\ Goto(w, "rel_unlock")
        /\ UNCHANGED <<store, call>>
     \/ /\ CanCopyBack(w)
        /\ \E now \in Now : /\ orig' = [orig EXCEPT ![call[w].path] = File({}, now)]
                            /\ clock' = now
        /\ call' = [call EXCEPT ![w].dest = Real(w)]
        /\ Goto(w, "rel_data")
        /\ UNCHANGED cache
  /\ UNCHANGED <<desc, tables, locks, users>>

CopyBackData(w) ==
  /\ pc[w] = "rel_data"
  /\ \E d \in {IF call[w].dest = None THEN call[w].data ELSE cache[Real(w)].data}
              \cup (IF "nospace" \in Calls THEN {{}} ELSE {}) :
     \E now \in Now :
        /\ orig' = [orig EXCEPT ![call[w].path] = File(d, now)]
        /\ clock' = now
        /\ handle' = SavedHandles(d)
        /\ call' = [v \in Workers |->
                      IF v = w THEN [call[v] EXCEPT !.unsaved = @ \ d, !.dest = None, !.data = {}]
                      ELSE [call[v] EXCEPT !.unsaved = @ \ d]]
  /\ Goto(w, "rel_touch")
  /\ UNCHANGED <<cache, desc, tables, locks, opens, writes, changes, lost>>

ReleaseTouch(w) ==
  /\ pc[w] = "rel_touch"
  /\ cache' = Touched(Real(w), call[w].path)
  /\ Goto(w, "rel_accessed")
  /\ UNCHANGED <<orig, clock, desc, tables, locks, call, users>>

ReleaseUnlock(w) ==
  /\ pc[w] = "rel_unlock"
  /\ UnlockLCF(w)
  /\ Goto(w, "rel_remove")
  /\ UNCHANGED <<store, desc, tables, lf, call, users>>

(* Variant: the entries of all handles of the file go. *)
WithoutFile(f) == [g \in Fds |-> IF localFH2LocalFile[g].realFileName =
                                    localFH2LocalFile[f].realFileName
                                 THEN Dummy ELSE localFH2LocalFile[g]]

(* LFLock::removeLF, then release returns. *)
WithoutLF(f) == [localFH2LocalFile EXCEPT ![f] = Dummy]

ReleaseRemoveLF(w) ==
  /\ pc[w] = "rel_remove"
  /\ LFFree
  /\ localFH2LocalFile' = WithoutLF(call[w].fd)
  /\ localFileName2LocalFile' =
        LET file == localFH2LocalFile[call[w].fd]
        IN  IF file = Dummy THEN localFileName2LocalFile
            ELSE localFileName2LocalFile \ {file.cachedFileName}
  /\ lost' = lost \cup call[w].unsaved
  /\ Return(w)
  /\ UNCHANGED <<store, desc, localCacheFileName2originalFullPathName, locks,
                 handle, opens, writes, changes>>

------------------------------------------------------------------------------
(* Handlers that make one system call on the originals, and what happens outside
   the daemon.  libfuse runs unlink and rename when no other call on their paths is
   in progress, and hides a file instead of unlinking it while it has a handle. *)

Unused(p) == /\ \A f \in Fds : handle[f].path # p
             /\ \A w \in Workers : call[w].path # p

SetOrig(p, data) == /\ \E now \in Now : /\ orig' = [orig EXCEPT ![p] = File(data, now)]
                                        /\ clock' = now
                    /\ UNCHANGED cache

(* To length 0: what was written before is not missed any more. *)
Truncate(p) ==
  /\ Change("truncate")
  /\ Exists(orig[p])
  /\ LCFPasses(p)
  /\ SetOrig(p, {})
  /\ handle' = [f \in Fds |-> IF handle[f].path = p THEN [handle[f] EXCEPT !.unsaved = {}]
                                                    ELSE handle[f]]
  /\ call' = [w \in Workers |-> IF call[w].path = p THEN [call[w] EXCEPT !.unsaved = {}]
                                                    ELSE call[w]]
  /\ UNCHANGED <<desc, tables, locks, pc, opens, writes, lost>>

Unlink(p) ==
  /\ Change("unlink")
  /\ Exists(orig[p]) /\ Unused(p)
  /\ LCFPasses(p)
  /\ orig' = [orig EXCEPT ![p] = Absent]
  /\ UNCHANGED <<cache, clock, desc, tables, locks, pc, call, handle, opens, writes, lost>>

Mknod(p) ==
  /\ Change("mknod")
  /\ ~Exists(orig[p])
  /\ LCFPasses(p)
  /\ SetOrig(p, {})
  /\ UNCHANGED <<desc, tables, locks, pc, call, handle, opens, writes, lost>>

(* Both locks are held at the system call.  The handles of p are handles of q from
   then on; their LocalFiles know nothing of it. *)
Rename(p, q) ==
  /\ Change("rename")
  /\ p # q
  /\ Exists(orig[p]) /\ Unused(q)
  /\ \A w \in Workers : call[w].path # p
  /\ CanUse(p) /\ CanUse(q) => /\ CacheName[p] # CacheName[q]
                               /\ LCFPasses(p) /\ LCFPasses(q)
  /\ orig' = [orig EXCEPT ![q] = orig[p], ![p] = Absent]
  /\ handle' = [f \in Fds |-> IF handle[f].path = p THEN [handle[f] EXCEPT !.path = q]
                                                    ELSE handle[f]]
  /\ desc' = [f \in Fds |-> IF desc[f] = On("orig", p) THEN On("orig", q) ELSE desc[f]]
  /\ UNCHANGED <<cache, clock, tables, locks, pc, call, opens, writes, lost>>

(* The mtime is set to any second up to the next. *)
Utimens(p) ==
  /\ Change("utimens")
  /\ Exists(orig[p])
  /\ LCFPasses(p)
  /\ \E t \in 1..clock + 1 : /\ orig' = [orig EXCEPT ![p].mtime = t]
                             /\ clock' = IF t > clock THEN t ELSE clock
  /\ UNCHANGED <<cache, desc, tables, locks, pc, call, handle, opens, writes, lost>>

(* Another host replaces the contents of the original. *)
Remote(p) ==
  /\ Change("remote")
  /\ Exists(orig[p])
  /\ writes < MaxWrites
  /\ writes' = writes + 1
  /\ SetOrig(p, {Chunk(p, writes + 1)})
  /\ UNCHANGED <<desc, tables, locks, pc, call, handle, opens, lost>>

(* The daemon dies and starts again.  initLocalFileCollection keeps the names whose
   copy is there; the handles, their LocalFiles and all locks are gone. *)
Crash ==
  /\ Change("crash")
  /\ localCacheFileName2originalFullPathName' =
        [n \in Names |-> IF Exists(cache[n]) THEN localCacheFileName2originalFullPathName[n]
                                             ELSE None]
  /\ lost' = lost \cup Unsaved
  /\ desc' = [f \in Fds |-> Closed]
  /\ localFH2LocalFile' = [f \in Fds |-> Dummy]
  /\ localFileName2LocalFile' = {}
  /\ lcf' = [n \in Names |-> None]
  /\ lf' = None
  /\ pc' = [w \in Workers |-> "idle"]
  /\ call' = [w \in Workers |-> NoCall]
  /\ handle' = [f \in Fds |-> NoHandle]
  /\ UNCHANGED <<store, opens, writes>>

(* No call is in progress and the users make none. *)
Quiet == /\ \A w \in Workers : pc[w] = "idle"
         /\ UNCHANGED vars

------------------------------------------------------------------------------
OpenStep(w) == \/ OpenCheck(w) \/ OpenLock(w) \/ OpenStat(w)
               \/ CopyInTruncate(w) \/ CopyInData(w) \/ OpenTouch(w)
               \/ OpenCached(w) \/ OpenDirect(w)
               \/ OpenCreateLF(w) \/ OpenCreateDirectLF(w) \/ OpenAppend(w)

ReleaseStep(w) == \/ ReleaseGetLF(w) \/ ReleaseLock(w)
                  \/ CopyBackTruncate(w) \/ CopyBackData(w)
                  \/ ReleaseTouch(w) \/ ReleaseUnlock(w) \/ ReleaseRemoveLF(w)

Begin(w) == \/ \E p \in Paths : OpenBegin(w, p)
            \/ \E f \in Fds : Write(w, f) \/ ReleaseClose(w, f)

Step(w) == \/ OpenStep(w) \/ SetDirtyFlag(w) \/ ReleaseStep(w)
           \/ AccessedFile(w) \/ Forget(w) \/ CollectEnd(w)
           \/ \E n \in Names : Collect(w, n)

OneCall == \/ \E p \in Paths : Truncate(p) \/ Unlink(p) \/ Mknod(p) \/ Utimens(p) \/ Remote(p)
           \/ \E p, q \in Paths : Rename(p, q)

Next == \/ \E w \in Workers : Begin(w) \/ Step(w)
        \/ OneCall \/ Crash \/ Quiet

Spec == Init /\ [][Next]_vars

------------------------------------------------------------------------------
(* What is true of the cache. *)

Chunks == [path : Paths, n : Nat]

Files == [data : SUBSET Chunks, mtime : Nat]

LocalFiles == [realFileName : Names, cachedFileName : Names \cup {None},
               isCached : {TRUE}, isDirty : BOOLEAN]
              \cup
              [realFileName : Paths \cup {None}, cachedFileName : Names \cup {None},
               isCached : {FALSE}, isDirty : BOOLEAN]

Descriptions == [on : {"cache"}, name : Names] \cup [on : {"orig"}, name : Paths]
                \cup [on : {"closed", "unlinked"}, name : {None}]

Locals == [path : Paths \cup {None}, fd : Fds \cup {None}, dest : Names \cup {None},
           lf : LocalFiles, data : SUBSET Chunks, unsaved : SUBSET Chunks,
           victims : SUBSET Names, forget : Names \cup {None}]

Handles == [path : Paths \cup {None}, unsaved : SUBSET Chunks]

Labels == {"idle", "check", "check_direct", "lock", "stat", "copy", "data", "accessed", "gc",
           "touch", "open", "create", "append", "direct", "create_direct", "flag",
           "rel_get", "rel_lock", "rel_copy", "rel_data", "rel_touch", "rel_accessed",
           "rel_gc", "rel_unlock", "rel_remove"}

(* The variables have their types; a LocalFile is for a copy exactly when it names a
   file of the cache. *)
TypeOK ==
  /\ orig \in [Paths -> Files]
  /\ cache \in [Names -> Files]
  /\ clock \in Nat
  /\ desc \in [Fds -> Descriptions]
  /\ localFH2LocalFile \in [Fds -> LocalFiles]
  /\ localFileName2LocalFile \subseteq Names \cup {None}
  /\ localCacheFileName2originalFullPathName \in [Names -> Paths \cup {None}]
  /\ lcf \in [Names -> Workers \cup {None}]
  /\ lf \in Workers \cup {None}
  /\ pc \in [Workers -> Labels]
  /\ call \in [Workers -> Locals]
  /\ handle \in [Fds -> Handles]
  /\ {opens, writes, changes} \subseteq Nat
  /\ lost \subseteq Chunks

CopyInLabels == {"stat", "copy", "data", "accessed", "gc", "touch", "open", "create", "append"}

CopyBackLabels == {"rel_copy", "rel_data", "rel_touch", "rel_accessed", "rel_gc", "rel_unlock"}

(* A copy is filled, emptied or read back only under its own lock, and no handler
   returns, by whatever exit, with a lock still held. *)
LockScope ==
  /\ \A w \in Workers : /\ pc[w] \in CopyInLabels => lcf[Ccfn(w)] = w
                        /\ pc[w] \in CopyBackLabels => lcf[Real(w)] = w
                        /\ pc[w] \in {"gc", "rel_gc"} <=> lf = w
  /\ \A n \in Names : lcf[n] # None =>
        pc[lcf[n]] \in CopyInLabels \cup CopyBackLabels \cup {"direct", "create_direct"}

(* The LocalFile of every handle the users hold is the one its open made, although
   open and release share the table by descriptor number and lock it anew for each
   access: it tells the copy the descriptor is open on, and it is dirty once a
   write through the handle has returned. *)
EntryOfHandle ==
  \A f \in Fds : handle[f].path # None =>
     LET file == localFH2LocalFile[f]
     IN  /\ file # Dummy
         /\ file.isCached <=> desc[f].on # "orig"
         /\ desc[f].on # "unlinked" => file.realFileName = desc[f].name
         /\ handle[f].unsaved # {} =>
               file.isDirty \/ \E w \in Workers : pc[w] = "flag" /\ call[w].fd = f

(* What a user wrote through a handle has reached the original when the handle is
   released. *)
WrittenBack == lost = {}

(* The same while the files see nothing but opens, writes and releases. *)
WrittenBackUndisturbed == changes = 0 => WrittenBack

(* Neither an original nor a copy ever holds data of another path. *)
NoForeignData == /\ \A p \in Paths : \A c \in orig[p].data : c.path = p
                 /\ \A n \in Names : \A c \in cache[n].data : CacheName[c.path] = n

(* An open that does not copy serves what the original holds at that moment, unless
   a handle has still to write the copy back. *)
FreshHit(w) == \/ cache[Ccfn(w)].data = orig[call[w].path].data
               \/ cache[Ccfn(w)].data \cap Unsaved # {}

ServesCurrent == [][\A w \in Workers :
                       pc[w] = "stat" /\ pc'[w] = "open" => FreshHit(w)]_vars

(* The collector leaves a copy alone while a handle is open on it. *)
OpenFilesKept == [][\A n \in Names : Exists(cache[n]) /\ ~Exists(cache[n])' =>
                       \A f \in Fds : desc[f] # On("cache", n)]_vars
==============================================================================
