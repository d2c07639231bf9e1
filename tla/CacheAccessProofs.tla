--------------------------- MODULE CacheAccessProofs ---------------------------
(* Proofs about CacheAccess, for any number of workers, paths, names and descriptors:
   types and the discipline of the locks, whatever else happens; that a handle finds its
   own entry; that no file gets another's data; that what was written is written back; and
   that what an open serves without copying is current. *)
EXTENDS CacheAccess, TLAPS

OpenLabels == {"check", "check_direct", "lock", "stat", "copy", "data", "accessed", "gc",
               "touch", "open", "create", "append", "direct", "create_direct"}

WriteBackLabels == {"rel_lock"} \cup CopyBackLabels

ReleaseLabels == {"rel_get", "rel_remove"} \cup WriteBackLabels

DescriptorLabels == {"create", "append", "create_direct", "flag"} \cup ReleaseLabels

(* A handler has the locals its steps use. *)
Args == \A w \in Workers :
  /\ pc[w] \in OpenLabels \cup ReleaseLabels => call[w].path \in Paths
  /\ pc[w] \in DescriptorLabels => call[w].fd \in Fds
  /\ pc[w] \in WriteBackLabels => Real(w) \in Names

TInv == TypeOK /\ Args

(* The parts of TypeOK, as the steps change them. *)
StoreOK == orig \in [Paths -> Files] /\ cache \in [Names -> Files] /\ clock \in Nat

DescOK == desc \in [Fds -> Descriptions]

TablesOK == /\ localFH2LocalFile \in [Fds -> LocalFiles]
            /\ localFileName2LocalFile \subseteq Names \cup {None}
            /\ localCacheFileName2originalFullPathName \in [Names -> Paths \cup {None}]

LocksOK == lcf \in [Names -> Workers \cup {None}] /\ lf \in Workers \cup {None}

WorkersOK == pc \in [Workers -> Labels] /\ call \in [Workers -> Locals]

UsersOK == /\ handle \in [Fds -> Handles]
           /\ {opens, writes, changes} \subseteq Nat
           /\ lost \subseteq Chunks

LEMMA Parts ==
  /\ TypeOK => StoreOK /\ DescOK /\ TablesOK /\ LocksOK /\ WorkersOK /\ UsersOK
  /\ StoreOK' /\ DescOK' /\ TablesOK' /\ LocksOK' /\ WorkersOK' /\ UsersOK' => TypeOK'
BY DEF TypeOK, StoreOK, DescOK, TablesOK, LocksOK, WorkersOK, UsersOK

(* What does not change stays well typed. *)
LEMMA Unchanged ==
  ASSUME TypeOK
  PROVE  /\ UNCHANGED store => StoreOK'
         /\ UNCHANGED desc => DescOK'
         /\ UNCHANGED tables => TablesOK'
         /\ UNCHANGED locks => LocksOK'
         /\ UNCHANGED <<pc, call>> => WorkersOK'
         /\ UNCHANGED users => UsersOK'
BY DEF TypeOK, StoreOK, DescOK, TablesOK, LocksOK, WorkersOK, UsersOK, store, tables, locks, users

------------------------------------------------------------------------------
(* The operators of the model return what they should. *)

LEMMA FileType ==
  ASSUME NEW data \in SUBSET Chunks, NEW mtime \in Nat
  PROVE  File(data, mtime) \in Files
BY DEF File, Files

LEMMA NowType == ASSUME clock \in Nat, NEW now \in Now PROVE now \in Nat
BY DEF Now

LEMMA ChunkType == ASSUME NEW p \in Paths, NEW k \in Nat PROVE Chunk(p, k) \in Chunks
BY DEF Chunk, Chunks

LEMMA LocalFileType ==
  /\ \A n \in Names : LocalFile(n, n, TRUE) \in LocalFiles
  /\ \A p \in Paths \cup {None}, n \in Names \cup {None} : LocalFile(p, n, FALSE) \in LocalFiles
  /\ Dummy \in LocalFiles
BY DEF LocalFile, LocalFiles, Dummy

LEMMA NoCallType == NoCall \in Locals
BY LocalFileType DEF NoCall, Locals

(* A LocalFile that is written back names a file of the cache. *)
LEMMA CachedName ==
  ASSUME NEW file \in LocalFiles, NeedsWriteBack(file) PROVE file.realFileName \in Names
BY DEF LocalFiles, NeedsWriteBack

LEMMA DescriptionType ==
  /\ \A n \in Names : On("cache", n) \in Descriptions
  /\ \A p \in Paths : On("orig", p) \in Descriptions
  /\ Closed \in Descriptions /\ On("unlinked", None) \in Descriptions
BY DEF On, Closed, Descriptions

LEMMA UnlockLCFType ==
  ASSUME LocksOK, NEW w \in Workers, UnlockLCF(w), UNCHANGED lf PROVE LocksOK'
BY DEF LocksOK, UnlockLCF

LEMMA TouchedType ==
  ASSUME StoreOK, NEW n \in Names, NEW p \in Paths, cache' = Touched(n, p),
         UNCHANGED <<orig, clock>>
  PROVE  StoreOK'
BY DEF StoreOK, Touched, Files

(* A local of a handler is set. *)
LEMMA LocalType ==
  ASSUME call \in [Workers -> Locals], NEW w \in Workers
  PROVE  /\ \A p \in Paths \cup {None} : [call EXCEPT ![w].path = p] \in [Workers -> Locals]
         /\ \A f \in Fds \cup {None} : [call EXCEPT ![w].fd = f] \in [Workers -> Locals]
         /\ \A n \in Names \cup {None} : /\ [call EXCEPT ![w].dest = n] \in [Workers -> Locals]
                                        /\ [call EXCEPT ![w].forget = n] \in [Workers -> Locals]
         /\ \A file \in LocalFiles : [call EXCEPT ![w].lf = file] \in [Workers -> Locals]
         /\ \A V \in SUBSET Names : [call EXCEPT ![w].victims = V] \in [Workers -> Locals]
<1>1. \A p \in Paths \cup {None} : [call EXCEPT ![w].path = p] \in [Workers -> Locals]
  BY DEF Locals
<1>2. \A f \in Fds \cup {None} : [call EXCEPT ![w].fd = f] \in [Workers -> Locals]
  BY DEF Locals
<1>3. \A n \in Names \cup {None} : /\ [call EXCEPT ![w].dest = n] \in [Workers -> Locals]
                                 /\ [call EXCEPT ![w].forget = n] \in [Workers -> Locals]
  BY DEF Locals
<1>4. \A file \in LocalFiles : [call EXCEPT ![w].lf = file] \in [Workers -> Locals]
  BY DEF Locals
<1>5. \A V \in SUBSET Names : [call EXCEPT ![w].victims = V] \in [Workers -> Locals]
  BY DEF Locals
<1> QED
  BY <1>1, <1>2, <1>3, <1>4, <1>5

(* The steps that use a local find it when a handler stays where it is. *)
LEMMA KeepsArgs ==
  ASSUME TInv, pc' = pc,
         \A v \in Workers : /\ call'[v].path = call[v].path
                            /\ call'[v].fd = call[v].fd
                            /\ call'[v].lf = call[v].lf
  PROVE  Args'
BY DEF TInv, Args, Real

(* A handler that returns. *)
LEMMA ReturnTInv ==
  ASSUME TInv, NEW w \in Workers, Return(w) PROVE WorkersOK' /\ Args'
BY NoCallType DEF TInv, TypeOK, WorkersOK, Args, Return, Goto, Labels, OpenLabels, ReleaseLabels,
   DescriptorLabels, WriteBackLabels, CopyBackLabels, Real

------------------------------------------------------------------------------
(* tgefs_open. *)

LEMMA OpenBeginTInv ==
  ASSUME TInv, NEW w \in Workers, NEW p \in Paths, OpenBegin(w, p) PROVE TInv'
<1>1. WorkersOK' /\ UsersOK'
  <2>1. WorkersOK'
    BY LocalType DEF TInv, OpenBegin, Goto, TypeOK, WorkersOK, Labels
  <2>2. UsersOK'
    BY DEF TInv, OpenBegin, TypeOK, UsersOK
  <2> QED
    BY <2>1, <2>2
<1>2. Args'
  BY DEF TInv, OpenBegin, Goto, TypeOK, Args, Locals, Real, OpenLabels, ReleaseLabels,
         DescriptorLabels, WriteBackLabels, CopyBackLabels
<1> QED
  BY <1>1, <1>2, Parts, Unchanged DEF TInv, OpenBegin

LEMMA OpenCheckTInv == ASSUME TInv, NEW w \in Workers, OpenCheck(w) PROVE TInv'
<1>1. WorkersOK' /\ Args'
  <2>1. CASE Return(w)
    BY <2>1, ReturnTInv
  <2>2. CASE UNCHANGED call /\ Goto(w, IF pc[w] = "check" THEN "lock" ELSE "direct")
    <3>1. WorkersOK'
      BY <2>2 DEF TInv, Goto, TypeOK, WorkersOK, Labels
    <3>2. Args'
      BY <2>2 DEF TInv, OpenCheck, Goto, TypeOK, Args, Real, OpenLabels, ReleaseLabels,
                  DescriptorLabels, WriteBackLabels, CopyBackLabels
    <3> QED
      BY <3>1, <3>2
  <2> QED
    BY <2>1, <2>2 DEF OpenCheck
<1> QED
  BY <1>1, Parts, Unchanged DEF TInv, OpenCheck

LEMMA OpenLockTInv == ASSUME TInv, NEW w \in Workers, OpenLock(w) PROVE TInv'
<1>1. WorkersOK'
  BY DEF TInv, OpenLock, Goto, TypeOK, WorkersOK, Labels
<1>2. LocksOK'
  BY DEF TInv, OpenLock, LockLCF, TypeOK, LocksOK
<1>3. Args'
  BY DEF TInv, OpenLock, Goto, TypeOK, Args, Real, OpenLabels, ReleaseLabels,
         DescriptorLabels, WriteBackLabels, CopyBackLabels
<1> QED
  BY <1>1, <1>2, <1>3, Parts, Unchanged DEF TInv, OpenLock

LEMMA OpenStatTInv == ASSUME TInv, NEW w \in Workers, OpenStat(w) PROVE TInv'
<1>1. WorkersOK'
  BY DEF TInv, OpenStat, Goto, TypeOK, WorkersOK, Labels
<1>2. Args'
  BY DEF TInv, OpenStat, Goto, TypeOK, Args, Real, OpenLabels, ReleaseLabels,
         DescriptorLabels, WriteBackLabels, CopyBackLabels
<1> QED
  BY <1>1, <1>2, Parts, Unchanged DEF TInv, OpenStat

LEMMA CopyInTruncateTInv == ASSUME TInv, NEW w \in Workers, CopyInTruncate(w) PROVE TInv'
<1>0. Ccfn(w) \in Names
  BY CacheNameAssumption DEF TInv, Args, CopyInTruncate, Ccfn, OpenLabels
<1>1. WorkersOK'
  <2>1. CASE Goto(w, "direct") /\ UNCHANGED <<store, call>>
    BY <2>1 DEF TInv, Goto, TypeOK, WorkersOK, Labels
  <2>2. CASE Goto(w, "data") /\ call' = [call EXCEPT ![w].dest = Ccfn(w)]
    BY <1>0, <2>2, LocalType DEF TInv, Goto, TypeOK, WorkersOK, Labels
  <2> QED
    BY <2>1, <2>2 DEF CopyInTruncate
<1>2. StoreOK'
  <2>1. CASE UNCHANGED store
    BY <2>1, Unchanged DEF TInv
  <2>2. ASSUME NEW now \in Now, cache' = [cache EXCEPT ![Ccfn(w)] = File({}, now)],
               clock' = now, orig' = orig
        PROVE  StoreOK'
    BY <1>0, <2>2, NowType, FileType DEF TInv, TypeOK, StoreOK
  <2> QED
    BY <2>1, <2>2 DEF CopyInTruncate
<1>3. Args'
  BY DEF TInv, CopyInTruncate, Goto, TypeOK, Args, Locals, Real, OpenLabels, ReleaseLabels,
         DescriptorLabels, WriteBackLabels, CopyBackLabels
<1> QED
  BY <1>1, <1>2, <1>3, Parts, Unchanged DEF TInv, CopyInTruncate

LEMMA CopyInDataTInv == ASSUME TInv, NEW w \in Workers, CopyInData(w) PROVE TInv'
<1>0. Ccfn(w) \in Names /\ call[w].path \in Paths
  BY CacheNameAssumption DEF TInv, Args, CopyInData, Ccfn, OpenLabels
<1>1. WorkersOK'
  BY DEF TInv, CopyInData, Goto, TypeOK, WorkersOK, Labels, Locals
<1>2. StoreOK'
  <2>1. CASE UNCHANGED store
    BY <2>1, Unchanged DEF TInv
  <2>2. ASSUME NEW d \in {orig[call[w].path].data} \cup {{}}, NEW now \in Now,
               cache' = [cache EXCEPT ![Ccfn(w)] = File(@.data \cup d, now)],
               clock' = now, orig' = orig
        PROVE  StoreOK'
    <3>1. cache[Ccfn(w)].data \cup d \subseteq Chunks
      BY <1>0 DEF TInv, TypeOK, Files
    <3> QED
      BY <1>0, <2>2, <3>1, NowType, FileType DEF TInv, TypeOK, StoreOK
  <2> QED
    BY <2>1, <2>2 DEF CopyInData
<1>3. Args'
  BY DEF TInv, CopyInData, Goto, TypeOK, Args, Locals, Real, OpenLabels, ReleaseLabels,
         DescriptorLabels, WriteBackLabels, CopyBackLabels
<1> QED
  BY <1>1, <1>2, <1>3, Parts, Unchanged DEF TInv, CopyInData

LEMMA OpenTouchTInv == ASSUME TInv, NEW w \in Workers, OpenTouch(w) PROVE TInv'
<1>0. Ccfn(w) \in Names /\ call[w].path \in Paths
  BY CacheNameAssumption DEF TInv, Args, OpenTouch, Ccfn, OpenLabels
<1>1. StoreOK'
  BY <1>0, TouchedType, Parts DEF TInv, OpenTouch
<1>2. WorkersOK'
  BY DEF TInv, OpenTouch, Goto, TypeOK, WorkersOK, Labels
<1>3. Args'
  BY DEF TInv, OpenTouch, Goto, TypeOK, Args, Real, OpenLabels, ReleaseLabels,
         DescriptorLabels, WriteBackLabels, CopyBackLabels
<1> QED
  BY <1>1, <1>2, <1>3, Parts, Unchanged DEF TInv, OpenTouch

LEMMA OpenCachedTInv == ASSUME TInv, NEW w \in Workers, OpenCached(w) PROVE TInv'
<1>0. Ccfn(w) \in Names
  BY CacheNameAssumption DEF TInv, Args, OpenCached, Ccfn, OpenLabels
<1>1. CASE Leave(w) /\ UNCHANGED desc
  BY <1>1, ReturnTInv, UnlockLCFType, Parts, Unchanged DEF TInv, OpenCached, Leave
<1>2. ASSUME NEW f \in Fds, desc' = [desc EXCEPT ![f] = On("cache", Ccfn(w))],
             call' = [call EXCEPT ![w].fd = f], Goto(w, "create"), UNCHANGED lcf
      PROVE  TInv'
  <2>1. DescOK'
    BY <1>0, <1>2, DescriptionType DEF TInv, TypeOK, DescOK
  <2>2. WorkersOK'
    BY <1>2, LocalType DEF TInv, Goto, TypeOK, WorkersOK, Labels
  <2>3. Args'
    BY <1>2 DEF TInv, OpenCached, Goto, TypeOK, Locals, Args, Real, OpenLabels, ReleaseLabels,
         DescriptorLabels, WriteBackLabels, CopyBackLabels
  <2> QED
    BY <1>2, <2>1, <2>2, <2>3, Parts, Unchanged DEF TInv, OpenCached, locks
<1> QED
  BY <1>1, <1>2 DEF OpenCached, FreeFds

LEMMA OpenDirectTInv == ASSUME TInv, NEW w \in Workers, OpenDirect(w) PROVE TInv'
<1>0. call[w].path \in Paths
  BY DEF TInv, Args, OpenDirect, OpenLabels
<1>1. CASE Leave(w) /\ UNCHANGED desc
  BY <1>1, ReturnTInv, UnlockLCFType, Parts, Unchanged DEF TInv, OpenDirect, Leave
<1>2. ASSUME NEW f \in Fds, desc' = [desc EXCEPT ![f] = On("orig", call[w].path)],
             call' = [call EXCEPT ![w].fd = f], Goto(w, "create_direct"), UNCHANGED lcf
      PROVE  TInv'
  <2>1. DescOK'
    BY <1>0, <1>2, DescriptionType DEF TInv, TypeOK, DescOK
  <2>2. WorkersOK'
    BY <1>2, LocalType DEF TInv, Goto, TypeOK, WorkersOK, Labels
  <2>3. Args'
    BY <1>2 DEF TInv, OpenDirect, Goto, TypeOK, Locals, Args, Real, OpenLabels, ReleaseLabels,
         DescriptorLabels, WriteBackLabels, CopyBackLabels
  <2> QED
    BY <1>2, <2>1, <2>2, <2>3, Parts, Unchanged DEF TInv, OpenDirect, locks
<1> QED
  BY <1>1, <1>2 DEF OpenDirect, FreeFds

LEMMA GiveHandleType ==
  ASSUME TypeOK, NEW w \in Workers, call[w].path \in Paths, GiveHandle(w),
         UNCHANGED <<opens, writes, changes, lost>>
  PROVE  UsersOK'
BY DEF TypeOK, GiveHandle, UsersOK, Handles

LEMMA OpenCreateLFTInv == ASSUME TInv, NEW w \in Workers, OpenCreateLF(w) PROVE TInv'
<1>0. Ccfn(w) \in Names
  BY CacheNameAssumption DEF TInv, Args, OpenCreateLF, Ccfn, OpenLabels
<1>1. TablesOK'
  <2>1. LocalFile(Ccfn(w), Ccfn(w), TRUE).cachedFileName = None
    BY DEF LocalFile
  <2> QED
    BY <1>0, <2>1, LocalFileType DEF TInv, TypeOK, OpenCreateLF, CreateLF, TablesOK
<1>2. WorkersOK'
  BY DEF TInv, OpenCreateLF, Goto, TypeOK, WorkersOK, Labels
<1>3. Args'
  BY DEF TInv, OpenCreateLF, Goto, TypeOK, Args, Real, OpenLabels, ReleaseLabels,
         DescriptorLabels, WriteBackLabels, CopyBackLabels
<1> QED
  BY <1>1, <1>2, <1>3, Parts, Unchanged DEF TInv, OpenCreateLF

LEMMA OpenCreateDirectLFTInv == ASSUME TInv, NEW w \in Workers, OpenCreateDirectLF(w) PROVE TInv'
<1>0. call[w].path \in Paths /\ Ccfn(w) \in Names
  BY CacheNameAssumption DEF TInv, Args, OpenCreateDirectLF, Ccfn, OpenLabels
<1>1. TablesOK'
  <2>1. LocalFile(call[w].path, Ccfn(w), FALSE).cachedFileName = None
    BY DEF LocalFile
  <2> QED
    BY <1>0, <2>1, LocalFileType DEF TInv, TypeOK, OpenCreateDirectLF, CreateLF, TablesOK
<1>2. UsersOK'
  BY <1>0, GiveHandleType DEF TInv, OpenCreateDirectLF
<1> QED
  BY <1>1, <1>2, ReturnTInv, UnlockLCFType, Parts, Unchanged DEF TInv, OpenCreateDirectLF, Leave

LEMMA OpenAppendTInv == ASSUME TInv, NEW w \in Workers, OpenAppend(w) PROVE TInv'
<1>0. call[w].path \in Paths
  BY DEF TInv, Args, OpenAppend, OpenLabels
<1>1. TablesOK'
  BY <1>0 DEF TInv, TypeOK, OpenAppend, TablesOK
<1>2. UsersOK'
  BY <1>0, GiveHandleType DEF TInv, OpenAppend
<1> QED
  BY <1>1, <1>2, ReturnTInv, UnlockLCFType, Parts, Unchanged DEF TInv, OpenAppend, Leave

------------------------------------------------------------------------------
(* The collector. *)

LEMMA AccessedFileTInv == ASSUME TInv, NEW w \in Workers, AccessedFile(w) PROVE TInv'
<1>0. pc[w] \in {"accessed", "rel_accessed"}
  BY DEF AccessedFile, AfterAccess
<1>1. ASSUME NEW l \in {"touch", "gc", "rel_unlock", "rel_gc"}, Goto(w, l),
             pc[w] = "accessed" <=> l \in {"touch", "gc"},
             NEW V \in SUBSET Names, call' \in {call, [call EXCEPT ![w].victims = V]}
      PROVE  WorkersOK' /\ Args'
  <2>1. WorkersOK'
    BY <1>1, SMTT(30) DEF TInv, Goto, TypeOK, WorkersOK, Labels, Locals
  <2>2. Args'
    BY <1>0, <1>1 DEF TInv, Goto, TypeOK, Locals, Args, Real, OpenLabels, ReleaseLabels,
         DescriptorLabels, WriteBackLabels, CopyBackLabels
  <2> QED
    BY <2>1, <2>2
<1>2. CASE Goto(w, AfterAccess[pc[w]]) /\ UNCHANGED <<lf, call, changes>>
  <2>1. /\ pc[w] = "accessed" => AfterAccess[pc[w]] = "touch"
        /\ pc[w] = "rel_accessed" => AfterAccess[pc[w]] = "rel_unlock"
    BY DEF AfterAccess
  <2>2. WorkersOK' /\ Args'
    BY <1>0, <1>1, <1>2, <2>1
  <2> QED
    BY <1>2, <2>2, Parts, Unchanged DEF TInv, AccessedFile, locks, users
<1>3. CASE /\ Change("gc")
           /\ \E V \in SUBSET {n \in Names : Exists(cache[n])} :
                 V # {} /\ call' = [call EXCEPT ![w].victims = V]
           /\ lf' = w
           /\ Goto(w, IF pc[w] = "accessed" THEN "gc" ELSE "rel_gc")
  <2>1. WorkersOK' /\ Args'
    BY <1>0, <1>1, <1>3
  <2>2. LocksOK' /\ UsersOK'
    BY <1>3 DEF TInv, TypeOK, AccessedFile, Change, LocksOK, UsersOK
  <2> QED
    BY <2>1, <2>2, Parts, Unchanged DEF TInv, AccessedFile
<1> QED
  BY <1>2, <1>3 DEF AccessedFile

LEMMA CollectTInv ==
  ASSUME TInv, NEW w \in Workers, NEW n \in Names, Collect(w, n) PROVE TInv'
<1>0. UNCHANGED <<orig, clock, tables, locks, pc, users>>
  BY DEF Collect
<1>1. CASE /\ call' = [call EXCEPT ![w].victims = call[w].victims \ {n}]
           /\ UNCHANGED <<cache, desc>>
  <2>1. call[w].victims \ {n} \in SUBSET Names
    BY DEF TInv, TypeOK, Locals
  <2>2. WorkersOK'
    BY <1>0, <1>1, <2>1, LocalType DEF TInv, TypeOK, WorkersOK
  <2>3. Args'
    BY <1>0, <1>1, KeepsArgs DEF TInv, TypeOK, Locals
  <2> QED
    BY <1>0, <1>1, <2>2, <2>3, Parts, Unchanged DEF TInv, store
<1>2. ASSUME cache' = [cache EXCEPT ![n] = Absent],
             desc' = [f \in Fds |-> IF desc[f] = On("cache", n) THEN On("unlinked", None)
                                    ELSE desc[f]],
             call' = [v \in Workers |->
                        IF v = w THEN [call[v] EXCEPT !.victims = @ \ {n}, !.forget = n]
                        ELSE IF call[v].dest = n
                             THEN [call[v] EXCEPT !.dest = None, !.data = cache[n].data]
                             ELSE call[v]]
      PROVE  TInv'
  <2>1. StoreOK'
    <3>1. Absent \in Files
      BY DEF Absent, Files
    <3> QED
      BY <1>0, <1>2, <3>1 DEF TInv, TypeOK, StoreOK
  <2>2. DescOK'
    BY <1>2, DescriptionType DEF TInv, TypeOK, DescOK
  <2>3. cache[n].data \subseteq Chunks
    BY DEF TInv, TypeOK, Files
  <2>4. WorkersOK'
    <3>1. ASSUME NEW v \in Workers PROVE call'[v] \in Locals
      <4>0. call[v] \in Locals
        BY DEF TInv, TypeOK
      <4>1. CASE v = w
        <5>1. call'[v] = [call[v] EXCEPT !.victims = @ \ {n}, !.forget = n]
          BY <1>2, <4>1
        <5> QED
          BY <4>0, <5>1 DEF Locals
      <4>2. CASE v # w /\ call[v].dest = n
        <5>1. call'[v] = [call[v] EXCEPT !.dest = None, !.data = cache[n].data]
          BY <1>2, <4>2
        <5> QED
          BY <2>3, <4>0, <5>1 DEF Locals
      <4>3. CASE v # w /\ call[v].dest # n
        BY <1>2, <4>0, <4>3
      <4> QED
        BY <4>1, <4>2, <4>3
    <3> QED
      BY <1>0, <1>2, <3>1 DEF TInv, TypeOK, WorkersOK
  <2>5. Args'
    BY <1>0, <1>2, KeepsArgs DEF TInv, TypeOK, Locals
  <2> QED
    BY <1>0, <2>1, <2>2, <2>4, <2>5, Parts, Unchanged DEF TInv
<1> QED
  BY <1>1, <1>2 DEF Collect

LEMMA ForgetTInv == ASSUME TInv, NEW w \in Workers, Forget(w) PROVE TInv'
<1>1. TablesOK'
  BY DEF TInv, Forget, TypeOK, TablesOK
<1>2. WorkersOK'
  BY SMTT(30) DEF TInv, Forget, TypeOK, WorkersOK, Locals
<1>3. Args'
  BY DEF TInv, Forget, TypeOK, Locals, Args, Real, OpenLabels, ReleaseLabels,
         DescriptorLabels, WriteBackLabels, CopyBackLabels
<1> QED
  BY <1>1, <1>2, <1>3, Parts, Unchanged DEF TInv, Forget

LEMMA CollectEndTInv == ASSUME TInv, NEW w \in Workers, CollectEnd(w) PROVE TInv'
<1>1. WorkersOK' /\ LocksOK'
  BY DEF TInv, CollectEnd, Goto, TypeOK, WorkersOK, LocksOK, Labels
<1>2. Args'
  BY DEF TInv, CollectEnd, Goto, TypeOK, Args, Real, OpenLabels, ReleaseLabels,
         DescriptorLabels, WriteBackLabels, CopyBackLabels
<1> QED
  BY <1>1, <1>2, Parts, Unchanged DEF TInv, CollectEnd

------------------------------------------------------------------------------
(* tgefs_write. *)

LEMMA WriteTInv ==
  ASSUME TInv, NEW w \in Workers, NEW f \in Fds, Write(w, f) PROVE TInv'
<1> DEFINE chunk == Chunk(handle[f].path, writes + 1)
           n == desc[f].name
           Written == [handle EXCEPT ![f].unsaved = @ \cup {chunk}]
<1>0. handle[f].path \in Paths /\ chunk \in Chunks
  <2>1. handle[f].path \in Paths /\ writes + 1 \in Nat
    BY DEF TInv, TypeOK, Write, Handles
  <2> QED
    BY <2>1, ChunkType
<1>1. Written \in [Fds -> Handles]
  BY <1>0 DEF TInv, TypeOK, Handles
<1>2. StoreOK' /\ handle' \in {handle, Written}
  <2>1. CASE UNCHANGED store /\ handle' \in {handle, Written}
    BY <2>1, Unchanged DEF TInv
  <2>2. ASSUME desc[f].on = "cache", NEW now \in Now,
               cache' = [cache EXCEPT ![n] = File(@.data \cup {chunk}, now)],
               clock' = now, handle' = Written, orig' = orig
        PROVE  StoreOK'
    <3>1. n \in Names
      BY <2>2 DEF TInv, TypeOK, Descriptions
    <3>2. cache[n].data \cup {chunk} \subseteq Chunks
      BY <1>0, <3>1 DEF TInv, TypeOK, Files
    <3> QED
      BY <2>2, <3>1, <3>2, NowType, FileType DEF TInv, TypeOK, StoreOK
  <2>3. ASSUME desc[f].on = "orig", NEW now \in Now,
               orig' = [orig EXCEPT ![n] = File(@.data \cup {chunk}, now)],
               clock' = now, UNCHANGED <<cache, handle>>
        PROVE  StoreOK'
    <3>1. n \in Paths
      BY <2>3 DEF TInv, TypeOK, Descriptions
    <3>2. orig[n].data \cup {chunk} \subseteq Chunks
      BY <1>0, <3>1 DEF TInv, TypeOK, Files
    <3> QED
      BY <2>3, <3>1, <3>2, NowType, FileType DEF TInv, TypeOK, StoreOK
  <2> QED
    BY <2>1, <2>2, <2>3 DEF Write
<1>3. UsersOK'
  <2>1. handle' \in [Fds -> Handles]
    BY <1>1, <1>2 DEF TInv, TypeOK
  <2>2. writes' = writes + 1 /\ UNCHANGED <<opens, changes, lost>>
    BY DEF Write
  <2> QED
    BY <2>1, <2>2 DEF TInv, TypeOK, UsersOK
<1>4. WorkersOK'
  BY LocalType DEF TInv, TypeOK, Write, Goto, WorkersOK, Labels
<1>5. Args'
  BY DEF TInv, Write, Goto, TypeOK, Locals, Args, Real, OpenLabels, ReleaseLabels,
         DescriptorLabels, WriteBackLabels, CopyBackLabels
<1> QED
  BY <1>2, <1>3, <1>4, <1>5, Parts, Unchanged DEF TInv, Write

LEMMA SetDirtyFlagTInv == ASSUME TInv, NEW w \in Workers, SetDirtyFlag(w) PROVE TInv'
<1>0. call[w].fd \in Fds
  BY DEF TInv, Args, SetDirtyFlag, DescriptorLabels
<1>1. TablesOK'
  <2>1. \A file \in LocalFiles : [file EXCEPT !.isDirty = TRUE] \in LocalFiles
    BY DEF LocalFiles
  <2>2. Flagged(call[w].fd) \in [Fds -> LocalFiles]
    BY <1>0, <2>1 DEF TInv, TypeOK, Flagged
  <2> QED
    BY <2>2 DEF TInv, TypeOK, SetDirtyFlag, TablesOK
<1> QED
  BY <1>1, ReturnTInv, Parts, Unchanged DEF TInv, SetDirtyFlag

------------------------------------------------------------------------------
(* tgefs_release. *)

LEMMA ReleaseCloseTInv ==
  ASSUME TInv, NEW w \in Workers, NEW f \in Fds, ReleaseClose(w, f) PROVE TInv'
<1> DEFINE Mine == [call[w] EXCEPT !.path = handle[f].path, !.fd = f,
                                   !.unsaved = handle[f].unsaved]
<1>0. handle[f].path \in Paths /\ handle[f].unsaved \subseteq Chunks
  BY DEF TInv, TypeOK, ReleaseClose, Handles
<1>1. Mine \in Locals /\ Mine.path \in Paths /\ Mine.fd \in Fds
  BY <1>0 DEF TInv, TypeOK, Locals
<1>2. call' = [call EXCEPT ![w] = Mine] /\ pc' = [pc EXCEPT ![w] = "rel_get"]
  BY DEF ReleaseClose, Goto
<1>3. WorkersOK'
  BY <1>1, <1>2 DEF TInv, TypeOK, WorkersOK, Labels
<1>4. Args'
  BY <1>1, <1>2 DEF TInv, TypeOK, Args, Real, OpenLabels, ReleaseLabels,
         DescriptorLabels, WriteBackLabels, CopyBackLabels
<1>5. DescOK'
  BY DescriptionType DEF TInv, TypeOK, ReleaseClose, DescOK
<1>6. UsersOK'
  <2>1. NoHandle \in Handles
    BY DEF NoHandle, Handles
  <2> QED
    BY <2>1 DEF TInv, TypeOK, ReleaseClose, UsersOK
<1> QED
  BY <1>3, <1>4, <1>5, <1>6, Parts, Unchanged DEF TInv, ReleaseClose

LEMMA ReleaseGetLFTInv == ASSUME TInv, NEW w \in Workers, ReleaseGetLF(w) PROVE TInv'
<1> DEFINE file == localFH2LocalFile[call[w].fd]
<1>0. file \in LocalFiles /\ (NeedsWriteBack(file) => file.realFileName \in Names)
  <2>1. call[w].fd \in Fds
    BY DEF TInv, Args, ReleaseGetLF, DescriptorLabels, ReleaseLabels
  <2> QED
    BY <2>1, CachedName DEF TInv, TypeOK
<1>1. /\ call' = [call EXCEPT ![w].lf = file]
      /\ pc' = [pc EXCEPT ![w] = IF NeedsWriteBack(file) THEN "rel_lock" ELSE "rel_remove"]
      /\ pc[w] = "rel_get"
  BY DEF ReleaseGetLF, Goto
<1>2. WorkersOK'
  BY <1>0, <1>1, LocalType DEF TInv, TypeOK, WorkersOK, Labels
<1> HIDE DEF file
<1>3. Args'
  BY <1>0, <1>1 DEF TInv, TypeOK, Locals, Args, Real, OpenLabels, ReleaseLabels,
         DescriptorLabels, WriteBackLabels, CopyBackLabels
<1> QED
  BY <1>2, <1>3, Parts, Unchanged DEF TInv, ReleaseGetLF

LEMMA ReleaseLockTInv == ASSUME TInv, NEW w \in Workers, ReleaseLock(w) PROVE TInv'
<1>1. WorkersOK' /\ LocksOK'
  BY DEF TInv, TypeOK, ReleaseLock, LockLCF, Goto, WorkersOK, LocksOK, Labels
<1>2. Args'
  BY DEF TInv, ReleaseLock, Goto, TypeOK, Args, Real, OpenLabels, ReleaseLabels,
         DescriptorLabels, WriteBackLabels, CopyBackLabels
<1> QED
  BY <1>1, <1>2, Parts, Unchanged DEF TInv, ReleaseLock

LEMMA CopyBackTruncateTInv == ASSUME TInv, NEW w \in Workers, CopyBackTruncate(w) PROVE TInv'
<1>0. call[w].path \in Paths /\ Real(w) \in Names
  BY DEF TInv, Args, CopyBackTruncate, ReleaseLabels, WriteBackLabels, CopyBackLabels
<1>1. CASE Goto(w, "rel_unlock") /\ UNCHANGED <<store, call>>
  <2>1. WorkersOK'
    BY <1>1 DEF TInv, Goto, TypeOK, WorkersOK, Labels
  <2>2. Args'
    BY <1>1 DEF TInv, CopyBackTruncate, Goto, TypeOK, Args, Real, OpenLabels, ReleaseLabels,
         DescriptorLabels, WriteBackLabels, CopyBackLabels
  <2> QED
    BY <1>1, <2>1, <2>2, Parts, Unchanged DEF TInv, CopyBackTruncate
<1>2. ASSUME NEW now \in Now, orig' = [orig EXCEPT ![call[w].path] = File({}, now)],
             clock' = now, cache' = cache,
             call' = [call EXCEPT ![w].dest = Real(w)], Goto(w, "rel_data")
      PROVE  TInv'
  <2>1. StoreOK'
    BY <1>0, <1>2, NowType, FileType DEF TInv, TypeOK, StoreOK
  <2>2. WorkersOK'
    BY <1>0, <1>2, LocalType DEF TInv, TypeOK, Goto, WorkersOK, Labels
  <2>3. Args'
    BY <1>2 DEF TInv, CopyBackTruncate, Goto, TypeOK, Locals, Args, Real, OpenLabels, ReleaseLabels,
         DescriptorLabels, WriteBackLabels, CopyBackLabels
  <2> QED
    BY <2>1, <2>2, <2>3, Parts, Unchanged DEF TInv, CopyBackTruncate
<1> QED
  BY <1>1, <1>2 DEF CopyBackTruncate

LEMMA CopyBackDataTInv == ASSUME TInv, NEW w \in Workers, CopyBackData(w) PROVE TInv'
<1>0. call[w].path \in Paths /\ Real(w) \in Names /\ pc[w] = "rel_data"
  BY DEF TInv, Args, CopyBackData, ReleaseLabels, WriteBackLabels, CopyBackLabels
<1>1. PICK d \in {IF call[w].dest = None THEN call[w].data ELSE cache[Real(w)].data} \cup {{}},
           now \in Now :
        /\ orig' = [orig EXCEPT ![call[w].path] = File(d, now)]
        /\ clock' = now
        /\ handle' = SavedHandles(d)
        /\ call' = [v \in Workers |->
                      IF v = w THEN [call[v] EXCEPT !.unsaved = @ \ d, !.dest = None, !.data = {}]
                      ELSE [call[v] EXCEPT !.unsaved = @ \ d]]
  BY DEF CopyBackData
<1>2. d \subseteq Chunks
  BY <1>0 DEF TInv, TypeOK, Files, Locals
<1>3. StoreOK'
  BY <1>0, <1>1, <1>2, NowType, FileType DEF TInv, TypeOK, StoreOK, CopyBackData
<1>4. UsersOK'
  <2>1. handle' \in [Fds -> Handles]
    <3>1. ASSUME NEW f \in Fds PROVE [handle[f] EXCEPT !.unsaved = @ \ d] \in Handles
      <4>1. handle[f] \in Handles
        BY DEF TInv, TypeOK
      <4> QED
        BY <4>1 DEF Handles
    <3> QED
      BY <1>1, <3>1 DEF SavedHandles
  <2>2. UNCHANGED <<opens, writes, changes, lost>>
    BY DEF CopyBackData
  <2> QED
    BY <2>1, <2>2 DEF TInv, TypeOK, UsersOK
<1>5. WorkersOK'
  <2>1. ASSUME NEW v \in Workers PROVE call'[v] \in Locals
    <3>0. call[v] \in Locals
      BY DEF TInv, TypeOK
    <3>1. CASE v = w
      <4>1. call'[v] = [call[v] EXCEPT !.unsaved = @ \ d, !.dest = None, !.data = {}]
        BY <1>1, <3>1
      <4> QED
        BY <3>0, <4>1 DEF Locals
    <3>2. CASE v # w
      <4>1. call'[v] = [call[v] EXCEPT !.unsaved = @ \ d]
        BY <1>1, <3>2
      <4> QED
        BY <3>0, <4>1 DEF Locals
    <3> QED
      BY <3>1, <3>2
  <2> QED
    BY <1>1, <2>1 DEF TInv, TypeOK, CopyBackData, Goto, WorkersOK, Labels
<1>6. Args'
  <2>1. \A v \in Workers : call'[v].path = call[v].path /\ call'[v].fd = call[v].fd
                           /\ call'[v].lf = call[v].lf
    BY <1>1 DEF TInv, TypeOK, Locals
  <2>2. pc' = [pc EXCEPT ![w] = "rel_touch"]
    BY DEF CopyBackData, Goto
  <2> QED
    BY <1>0, <2>1, <2>2 DEF TInv, TypeOK, Args, Real, OpenLabels, ReleaseLabels,
         DescriptorLabels, WriteBackLabels, CopyBackLabels
<1> QED
  BY <1>3, <1>4, <1>5, <1>6, Parts, Unchanged DEF TInv, CopyBackData

LEMMA ReleaseTouchTInv == ASSUME TInv, NEW w \in Workers, ReleaseTouch(w) PROVE TInv'
<1>0. call[w].path \in Paths /\ Real(w) \in Names
  BY DEF TInv, Args, ReleaseTouch, ReleaseLabels, WriteBackLabels, CopyBackLabels
<1>1. StoreOK'
  BY <1>0, TouchedType, Parts DEF TInv, ReleaseTouch
<1>2. WorkersOK'
  BY DEF TInv, ReleaseTouch, Goto, TypeOK, WorkersOK, Labels
<1>3. Args'
  BY DEF TInv, ReleaseTouch, Goto, TypeOK, Args, Real, OpenLabels, ReleaseLabels,
         DescriptorLabels, WriteBackLabels, CopyBackLabels
<1> QED
  BY <1>1, <1>2, <1>3, Parts, Unchanged DEF TInv, ReleaseTouch

LEMMA ReleaseUnlockTInv == ASSUME TInv, NEW w \in Workers, ReleaseUnlock(w) PROVE TInv'
<1>1. WorkersOK'
  BY DEF TInv, ReleaseUnlock, Goto, TypeOK, WorkersOK, Labels
<1>2. Args'
  BY DEF TInv, ReleaseUnlock, Goto, TypeOK, Args, Real, OpenLabels, ReleaseLabels,
         DescriptorLabels, WriteBackLabels, CopyBackLabels
<1> QED
  BY <1>1, <1>2, UnlockLCFType, Parts, Unchanged DEF TInv, ReleaseUnlock

LEMMA ReleaseRemoveLFTInv == ASSUME TInv, NEW w \in Workers, ReleaseRemoveLF(w) PROVE TInv'
<1>1. TablesOK'
  BY LocalFileType DEF TInv, TypeOK, ReleaseRemoveLF, WithoutLF, TablesOK
<1>2. UsersOK'
  BY DEF TInv, TypeOK, ReleaseRemoveLF, Locals, UsersOK
<1> QED
  BY <1>1, <1>2, ReturnTInv, Parts, Unchanged DEF TInv, ReleaseRemoveLF

------------------------------------------------------------------------------
(* The other calls, and what happens outside the daemon. *)

LEMMA SetOrigType ==
  ASSUME TypeOK, NEW p \in Paths, NEW data \in SUBSET Chunks, SetOrig(p, data)
  PROVE  StoreOK'
<1>1. PICK now \in Now : orig' = [orig EXCEPT ![p] = File(data, now)] /\ clock' = now
  BY DEF SetOrig
<1> QED
  BY <1>1, NowType, FileType DEF TypeOK, SetOrig, StoreOK

(* Handlers and workers that are left as they are. *)
LEMMA ChangeTypes ==
  ASSUME TypeOK, NEW what, Change(what), UNCHANGED <<opens, lost>>, writes' \in Nat,
         handle' \in [Fds -> Handles]
  PROVE  UsersOK'
BY DEF TypeOK, Change, UsersOK

LEMMA TruncateTInv == ASSUME TInv, NEW p \in Paths, Truncate(p) PROVE TInv'
<1>1. StoreOK'
  BY SetOrigType DEF TInv, Truncate
<1>2. UsersOK'
  <2>1. handle' \in [Fds -> Handles]
    BY DEF TInv, TypeOK, Truncate, Handles
  <2> QED
    BY <2>1, ChangeTypes DEF TInv, TypeOK, Truncate
<1>3. WorkersOK' /\ Args'
  <2>1. ASSUME NEW v \in Workers
        PROVE  /\ call'[v] \in Locals
               /\ call'[v].path = call[v].path /\ call'[v].fd = call[v].fd
               /\ call'[v].lf = call[v].lf
    BY DEF TInv, TypeOK, Truncate, Locals
  <2>2. pc' = pc /\ call' \in [Workers -> Locals]
    BY <2>1 DEF Truncate
  <2> QED
    BY <2>1, <2>2, KeepsArgs DEF TInv, TypeOK, WorkersOK
<1> QED
  BY <1>1, <1>2, <1>3, Parts, Unchanged DEF TInv, Truncate

LEMMA UnlinkTInv == ASSUME TInv, NEW p \in Paths, Unlink(p) PROVE TInv'
<1>1. StoreOK'
  <2>1. Absent \in Files
    BY DEF Absent, Files
  <2> QED
    BY <2>1 DEF TInv, TypeOK, Unlink, StoreOK
<1>2. UsersOK'
  BY DEF TInv, TypeOK, Unlink, Change, UsersOK
<1>3. Args'
  BY KeepsArgs DEF TInv, Unlink
<1> QED
  BY <1>1, <1>2, <1>3, Parts, Unchanged DEF TInv, Unlink

LEMMA MknodTInv == ASSUME TInv, NEW p \in Paths, Mknod(p) PROVE TInv'
<1>1. StoreOK'
  BY SetOrigType DEF TInv, Mknod
<1>2. UsersOK'
  BY DEF TInv, TypeOK, Mknod, Change, UsersOK
<1>3. Args'
  BY KeepsArgs DEF TInv, Mknod
<1> QED
  BY <1>1, <1>2, <1>3, Parts, Unchanged DEF TInv, Mknod

LEMMA RenameTInv == ASSUME TInv, NEW p \in Paths, NEW q \in Paths, Rename(p, q) PROVE TInv'
<1>1. StoreOK'
  <2>1. Absent \in Files
    BY DEF Absent, Files
  <2> QED
    BY <2>1 DEF TInv, TypeOK, Rename, StoreOK
<1>2. UsersOK'
  <2>1. handle' \in [Fds -> Handles]
    BY DEF TInv, TypeOK, Rename, Handles
  <2> QED
    BY <2>1, ChangeTypes DEF TInv, TypeOK, Rename
<1>3. DescOK'
  BY DescriptionType DEF TInv, TypeOK, Rename, DescOK
<1>4. Args'
  BY KeepsArgs DEF TInv, Rename
<1> QED
  BY <1>1, <1>2, <1>3, <1>4, Parts, Unchanged DEF TInv, Rename

LEMMA UtimensTInv == ASSUME TInv, NEW p \in Paths, Utimens(p) PROVE TInv'
<1>1. StoreOK'
  <2>1. PICK t \in 1..clock + 1 : /\ orig' = [orig EXCEPT ![p].mtime = t]
                                  /\ clock' = IF t > clock THEN t ELSE clock
    BY DEF Utimens
  <2>2. t \in Nat
    BY <2>1 DEF TInv, TypeOK
  <2>3. orig' \in [Paths -> Files]
    BY <2>1, <2>2 DEF TInv, TypeOK, Files
  <2> QED
    BY <2>1, <2>2, <2>3 DEF TInv, TypeOK, Utimens, StoreOK
<1>2. UsersOK'
  BY DEF TInv, TypeOK, Utimens, Change, UsersOK
<1>3. Args'
  BY KeepsArgs DEF TInv, Utimens
<1> QED
  BY <1>1, <1>2, <1>3, Parts, Unchanged DEF TInv, Utimens

LEMMA RemoteTInv == ASSUME TInv, NEW p \in Paths, Remote(p) PROVE TInv'
<1>1. writes + 1 \in Nat /\ writes' = writes + 1
  BY DEF TInv, TypeOK, Remote
<1>2. StoreOK'
  BY <1>1, ChunkType, SetOrigType DEF TInv, Remote
<1>3. UsersOK'
  BY <1>1, ChangeTypes DEF TInv, TypeOK, Remote
<1>4. Args'
  BY KeepsArgs DEF TInv, Remote
<1> QED
  BY <1>2, <1>3, <1>4, Parts, Unchanged DEF TInv, Remote

LEMMA CrashTInv == ASSUME TInv, Crash PROVE TInv'
<1>1. DescOK' /\ LocksOK'
  BY DescriptionType DEF TInv, TypeOK, Crash, DescOK, LocksOK
<1>2. TablesOK'
  BY LocalFileType DEF TInv, TypeOK, Crash, TablesOK
<1>3. WorkersOK' /\ Args'
  BY NoCallType DEF TInv, TypeOK, Crash, WorkersOK, Labels, Args, OpenLabels, ReleaseLabels,
     DescriptorLabels, WriteBackLabels, CopyBackLabels
<1>4. UsersOK'
  <2>1. NoHandle \in Handles
    BY DEF NoHandle, Handles
  <2>2. lost' \subseteq Chunks
    <3>1. /\ \A f \in Fds : handle[f].unsaved \subseteq Chunks
          /\ \A w \in Workers : call[w].unsaved \subseteq Chunks
      BY DEF TInv, TypeOK, Handles, Locals
    <3>2. Unsaved \subseteq Chunks
      BY <3>1 DEF Unsaved
    <3> QED
      BY <3>2 DEF TInv, TypeOK, Crash
  <2>3. handle' \in [Fds -> Handles]
    BY <2>1 DEF Crash
  <2> QED
    BY <2>2, <2>3 DEF TInv, TypeOK, Crash, Change, UsersOK
<1> QED
  BY <1>1, <1>2, <1>3, <1>4, Parts, Unchanged DEF TInv, Crash

LEMMA StutterTInv == ASSUME TInv, UNCHANGED vars PROVE TInv'
<1>1. Args'
  BY KeepsArgs DEF vars
<1> QED
  BY <1>1, Parts, Unchanged DEF TInv, vars

------------------------------------------------------------------------------
LEMMA InitTInv == Init => TInv
<1> SUFFICES ASSUME Init PROVE TInv
  OBVIOUS
<1>1. StoreOK
  <2>1. \A p \in Paths : File({Chunk(p, 0)}, 1) \in Files
    BY ChunkType, FileType
  <2>2. Absent \in Files
    BY DEF Absent, Files
  <2> QED
    BY <2>1, <2>2 DEF Init, StoreOK
<1>2. NoHandle \in Handles
  BY DEF NoHandle, Handles
<1>3. TypeOK
  BY <1>1, <1>2, DescriptionType, LocalFileType, NoCallType DEF Init, TypeOK, StoreOK, Labels
<1>4. Args
  BY DEF Init, Args, OpenLabels, ReleaseLabels, DescriptorLabels, WriteBackLabels, CopyBackLabels
<1> QED
  BY <1>3, <1>4 DEF TInv

LEMMA NextTInv == TInv /\ [Next]_vars => TInv'
<1> SUFFICES ASSUME TInv, [Next]_vars PROVE TInv'
  OBVIOUS
<1>1. ASSUME NEW w \in Workers, Begin(w) PROVE TInv'
  BY <1>1, OpenBeginTInv, WriteTInv, ReleaseCloseTInv DEF Begin
<1>2. ASSUME NEW w \in Workers, OpenStep(w) PROVE TInv'
  BY <1>2, OpenCheckTInv, OpenLockTInv, OpenStatTInv, CopyInTruncateTInv, CopyInDataTInv,
     OpenTouchTInv, OpenCachedTInv, OpenDirectTInv, OpenCreateLFTInv, OpenCreateDirectLFTInv,
     OpenAppendTInv DEF OpenStep
<1>3. ASSUME NEW w \in Workers, ReleaseStep(w) PROVE TInv'
  BY <1>3, ReleaseGetLFTInv, ReleaseLockTInv, CopyBackTruncateTInv, CopyBackDataTInv,
     ReleaseTouchTInv, ReleaseUnlockTInv, ReleaseRemoveLFTInv DEF ReleaseStep
<1>4. ASSUME NEW w \in Workers, Step(w) PROVE TInv'
  BY <1>2, <1>3, <1>4, SetDirtyFlagTInv, AccessedFileTInv, CollectTInv, ForgetTInv,
     CollectEndTInv DEF Step
<1>5. CASE OneCall
  BY <1>5, TruncateTInv, UnlinkTInv, MknodTInv, UtimensTInv, RemoteTInv, RenameTInv DEF OneCall
<1> QED
  BY <1>1, <1>4, <1>5, CrashTInv, StutterTInv DEF Next, Quiet

LEMMA TypesInvariant == Spec => []TInv
BY InitTInv, NextTInv, PTL DEF Spec

(* Every variable of the handlers keeps its type, and a LocalFile counts as cached exactly
   when it names a file of the cache. *)
THEOREM TypeCorrect == Spec => []TypeOK
BY TypesInvariant, PTL DEF TInv

------------------------------------------------------------------------------
(* The locks. *)

HoldLabels == CopyInLabels \cup CopyBackLabels \cup {"direct", "create_direct"}

CollectLabels == {"gc", "rel_gc"}

LInv == TInv /\ LockScope

(* A step that takes and gives no lock, and stays inside or outside of their scopes. *)
LEMMA MoveScope ==
  ASSUME LInv, NEW w \in Workers, NEW l, Goto(w, l), UNCHANGED locks,
         l \in CopyInLabels => pc[w] \in CopyInLabels,
         l \in CopyBackLabels => pc[w] \in CopyBackLabels,
         l \in CollectLabels <=> pc[w] \in CollectLabels,
         pc[w] \in HoldLabels => l \in HoldLabels,
         \A v \in Workers \ {w} : call'[v].path = call[v].path /\ call'[v].lf = call[v].lf,
         pc[w] \in HoldLabels => call'[w].path = call[w].path /\ call'[w].lf = call[w].lf
  PROVE  LockScope'
<1> DEFINE C == CopyInLabels  B == CopyBackLabels  G == CollectLabels  H == HoldLabels
<1>1. C \subseteq H /\ B \subseteq H
  BY DEF HoldLabels
<1>2. LockScope = /\ \A v \in Workers : /\ pc[v] \in C => lcf[Ccfn(v)] = v
                                        /\ pc[v] \in B => lcf[Real(v)] = v
                                        /\ pc[v] \in G <=> lf = v
                  /\ \A n \in Names : lcf[n] # None => pc[lcf[n]] \in H
  BY DEF LockScope, HoldLabels, CollectLabels
<1>3. LockScope' = /\ \A v \in Workers : /\ pc'[v] \in C => lcf'[CacheName[call'[v].path]] = v
                                         /\ pc'[v] \in B => lcf'[call'[v].lf.realFileName] = v
                                         /\ pc'[v] \in G <=> lf' = v
                   /\ \A n \in Names : lcf'[n] # None => pc'[lcf'[n]] \in H
  BY DEF LockScope, HoldLabels, CollectLabels, CopyInLabels, CopyBackLabels, Ccfn, Real
<1>4. pc' = [pc EXCEPT ![w] = l] /\ lcf' = lcf /\ lf' = lf
  BY DEF Goto, locks
<1>5. pc \in [Workers -> Labels] /\ lcf \in [Names -> Workers \cup {None}]
  BY DEF LInv, TInv, TypeOK
<1>6. /\ l \in C => pc[w] \in C
      /\ l \in B => pc[w] \in B
      /\ l \in G <=> pc[w] \in G
      /\ pc[w] \in H => l \in H
      /\ pc[w] \in H => call'[w].path = call[w].path /\ call'[w].lf = call[w].lf
  OBVIOUS
<1>7. ASSUME NEW v \in Workers
      PROVE  /\ pc'[v] \in C => lcf'[CacheName[call'[v].path]] = v
             /\ pc'[v] \in B => lcf'[call'[v].lf.realFileName] = v
             /\ pc'[v] \in G <=> lf' = v
  <2>0. /\ pc[v] \in C => lcf[CacheName[call[v].path]] = v
        /\ pc[v] \in B => lcf[call[v].lf.realFileName] = v
        /\ pc[v] \in G <=> lf = v
    BY <1>2 DEF LInv, Ccfn, Real
  <2> HIDE DEF C, B, G, H
  <2>1. CASE v = w
    BY <1>1, <1>4, <1>5, <1>6, <2>0, <2>1
  <2>2. CASE v # w
    BY <1>4, <1>5, <2>0, <2>2
  <2> QED
    BY <2>1, <2>2
<1>8. ASSUME NEW n \in Names, lcf'[n] # None PROVE pc'[lcf'[n]] \in H
  <2>1. lcf[n] \in Workers /\ pc[lcf[n]] \in H
    BY <1>2, <1>4, <1>5, <1>8 DEF LInv
  <2> HIDE DEF C, B, G, H
  <2> QED
    BY <1>4, <1>5, <1>6, <2>1
<1> HIDE DEF C, B, G, H
<1> QED
  BY <1>3, <1>7, <1>8

(* A handler returns: with what it held given back, or with nothing held. *)
LEMMA ReturnScope ==
  ASSUME LInv, NEW w \in Workers, Return(w), lf' = lf, pc[w] \notin CollectLabels,
         UnlockLCF(w) \/ (pc[w] \notin HoldLabels /\ lcf' = lcf)
  PROVE  LockScope'
<1>1. \A n \in Names : lcf[n] # None => lcf[n] \in Workers /\ pc[lcf[n]] \in HoldLabels
  BY DEF LInv, TInv, TypeOK, LockScope, HoldLabels
<1>2. \A n \in Names : lcf'[n] # None => lcf'[n] = lcf[n] /\ lcf[n] # w
  BY <1>1 DEF UnlockLCF
<1>3. pc' = [pc EXCEPT ![w] = "idle"] /\ call' = [call EXCEPT ![w] = NoCall]
  BY DEF Return, Goto
<1>4. \A n \in Names : lcf[n] \in Workers \ {w} => lcf'[n] = lcf[n]
  BY DEF UnlockLCF
<1>5. pc \in [Workers -> Labels] /\ call \in [Workers -> Locals]
  BY DEF LInv, TInv, TypeOK
<1>6. \A v \in Workers \ {w} : /\ pc'[v] \in CopyInLabels => lcf'[Ccfn(v)'] = v
                               /\ pc'[v] \in CopyBackLabels => lcf'[Real(v)'] = v
                               /\ pc'[v] \in {"gc", "rel_gc"} <=> lf' = v
  <2> SUFFICES ASSUME NEW v \in Workers \ {w}
               PROVE  /\ pc'[v] \in CopyInLabels => lcf'[Ccfn(v)'] = v
                      /\ pc'[v] \in CopyBackLabels => lcf'[Real(v)'] = v
                      /\ pc'[v] \in {"gc", "rel_gc"} <=> lf' = v
    OBVIOUS
  <2>1. pc'[v] = pc[v] /\ Ccfn(v)' = Ccfn(v) /\ Real(v)' = Real(v)
    BY <1>3, <1>5 DEF Ccfn, Real
  <2>2. /\ pc[v] \in CopyInLabels => lcf[Ccfn(v)] = v /\ Ccfn(v) \in Names
        /\ pc[v] \in CopyBackLabels => lcf[Real(v)] = v /\ Real(v) \in Names
        /\ pc[v] \in {"gc", "rel_gc"} <=> lf = v
    BY CacheNameAssumption
       DEF LInv, LockScope, TInv, Args, Ccfn, CopyInLabels, OpenLabels, WriteBackLabels
  <2> QED
    BY <1>4, <2>1, <2>2
<1>7. pc'[w] \notin CopyInLabels \cup CopyBackLabels \cup {"gc", "rel_gc"} /\ lf' # w
  BY <1>3, <1>5 DEF LInv, LockScope, CopyInLabels, CopyBackLabels, CollectLabels
<1>8. \A n \in Names : lcf'[n] # None =>
        pc'[lcf'[n]] \in CopyInLabels \cup CopyBackLabels \cup {"direct", "create_direct"}
  BY <1>1, <1>2, <1>3, <1>5 DEF HoldLabels
<1> QED
  BY <1>6, <1>7, <1>8 DEF LockScope, CopyInLabels, CopyBackLabels

(* A worker that holds no lock of a copy takes one. *)
LEMMA TakeScope ==
  ASSUME LInv, NEW w \in Workers, NEW n \in Names, LockLCF(w, n), lf' = lf, call' = call,
         pc[w] \notin HoldLabels, NEW l, Goto(w, l),
         \/ pc[w] = "lock" /\ l = "stat" /\ n = Ccfn(w)
         \/ pc[w] = "rel_lock" /\ l = "rel_copy" /\ n = Real(w)
  PROVE  LockScope'
<1>1. pc' = [pc EXCEPT ![w] = l] /\ lcf' = [lcf EXCEPT ![n] = w] /\ lcf[n] = None
  BY DEF Goto, LockLCF
<1>2. pc \in [Workers -> Labels] /\ lcf \in [Names -> Workers \cup {None}]
  BY DEF LInv, TInv, TypeOK
<1>3. None \notin Workers
  BY NoneAssumption
<1> QED
  BY <1>1, <1>2, <1>3 DEF LInv, LockScope, Ccfn, Real, CopyInLabels, CopyBackLabels, HoldLabels

(* The collector takes and gives the LFLock. *)
LEMMA CollectorScope ==
  ASSUME LInv, NEW w \in Workers, UNCHANGED lcf, NEW l, Goto(w, l),
         \A v \in Workers : call'[v].path = call[v].path /\ call'[v].lf = call[v].lf,
         \/ /\ lf = None /\ lf' = w
            /\ \/ pc[w] = "accessed" /\ l = "gc"
               \/ pc[w] = "rel_accessed" /\ l = "rel_gc"
         \/ /\ lf' = None
            /\ \/ pc[w] = "gc" /\ l = "touch"
               \/ pc[w] = "rel_gc" /\ l = "rel_unlock"
  PROVE  LockScope'
<1>1. pc' = [pc EXCEPT ![w] = l] /\ pc \in [Workers -> Labels]
  BY DEF Goto, LInv, TInv, TypeOK
<1>2. None \notin Workers
  BY NoneAssumption
<1>3. \A v \in Workers : Ccfn(v)' = Ccfn(v) /\ Real(v)' = Real(v)
  BY DEF Ccfn, Real
<1> QED
  BY <1>1, <1>2, <1>3 DEF LInv, LockScope, CopyInLabels, CopyBackLabels

(* The workers stay where they are. *)
LEMMA StayScope ==
  ASSUME LInv, UNCHANGED <<pc, lcf, lf>>,
         \A v \in Workers : call'[v].path = call[v].path /\ call'[v].lf = call[v].lf
  PROVE  LockScope'
<1>1. \A v \in Workers : Ccfn(v)' = Ccfn(v) /\ Real(v)' = Real(v)
  BY DEF Ccfn, Real
<1> QED
  BY <1>1 DEF LInv, LockScope, CopyInLabels, CopyBackLabels

(* Every step keeps the scopes of the locks. *)

LEMMA OpenStepScope == ASSUME LInv, NEW w \in Workers, OpenStep(w) PROVE LockScope'
<1> USE DEF CopyInLabels, CopyBackLabels, HoldLabels, CollectLabels
<1>0. call \in [Workers -> Locals]
  BY DEF LInv, TInv, TypeOK
<1>1. CASE OpenCheck(w)
  <2>1. CASE Return(w)
    BY <1>1, <2>1, ReturnScope DEF OpenCheck, locks
  <2>2. CASE ~Return(w)
    BY <1>0, <1>1, <2>2, MoveScope DEF OpenCheck
  <2> QED
    BY <2>1, <2>2
<1>2. CASE OpenLock(w)
  <2>1. Ccfn(w) \in Names
    BY <1>2, CacheNameAssumption DEF LInv, TInv, Args, OpenLock, Ccfn, OpenLabels
  <2> QED
    BY <1>2, <2>1, TakeScope DEF OpenLock
<1>3. CASE OpenStat(w)
  BY <1>0, <1>3, MoveScope DEF OpenStat
<1>4. CASE CopyInTruncate(w)
  <2>1. CASE Goto(w, "direct") /\ UNCHANGED <<store, call>>
    BY <1>4, <2>1, MoveScope DEF CopyInTruncate
  <2>2. CASE Goto(w, "data") /\ call' = [call EXCEPT ![w].dest = Ccfn(w)]
    BY <1>0, <1>4, <2>2, MoveScope DEF CopyInTruncate, Locals
  <2> QED
    BY <1>4, <2>1, <2>2 DEF CopyInTruncate
<1>5. CASE CopyInData(w)
  BY <1>0, <1>5, MoveScope DEF CopyInData, Locals
<1>6. CASE OpenTouch(w)
  BY <1>6, MoveScope DEF OpenTouch
<1>7. CASE OpenCached(w)
  <2>1. CASE Leave(w)
    BY <1>7, <2>1, ReturnScope DEF OpenCached, Leave
  <2>2. ASSUME NEW f, call' = [call EXCEPT ![w].fd = f], Goto(w, "create"), UNCHANGED lcf
        PROVE  LockScope'
    BY <1>0, <1>7, <2>2, MoveScope DEF OpenCached, Locals, locks
  <2> QED
    BY <1>7, <2>1, <2>2 DEF OpenCached
<1>8. CASE OpenDirect(w)
  <2>1. CASE Leave(w)
    BY <1>8, <2>1, ReturnScope DEF OpenDirect, Leave
  <2>2. ASSUME NEW f, call' = [call EXCEPT ![w].fd = f], Goto(w, "create_direct"), UNCHANGED lcf
        PROVE  LockScope'
    BY <1>0, <1>8, <2>2, MoveScope DEF OpenDirect, Locals, locks
  <2> QED
    BY <1>8, <2>1, <2>2 DEF OpenDirect
<1>9. CASE OpenCreateLF(w)
  BY <1>9, MoveScope DEF OpenCreateLF
<1>10. CASE OpenCreateDirectLF(w)
  BY <1>10, ReturnScope DEF OpenCreateDirectLF, Leave
<1>11. CASE OpenAppend(w)
  BY <1>11, ReturnScope DEF OpenAppend, Leave
<1> QED
  BY <1>1, <1>2, <1>3, <1>4, <1>5, <1>6, <1>7, <1>8, <1>9, <1>10, <1>11 DEF OpenStep

LEMMA CollectorStepScope ==
  ASSUME LInv, NEW w \in Workers,
         AccessedFile(w) \/ CollectEnd(w) \/ Forget(w) \/ \E n \in Names : Collect(w, n)
  PROVE  LockScope'
<1> USE DEF CopyInLabels, CopyBackLabels, HoldLabels, CollectLabels
<1>0. call \in [Workers -> Locals]
  BY DEF LInv, TInv, TypeOK
<1>1. CASE AccessedFile(w)
  <2>0. pc[w] \in {"accessed", "rel_accessed"}
    BY <1>1 DEF AccessedFile, AfterAccess
  <2>1. CASE Goto(w, AfterAccess[pc[w]]) /\ UNCHANGED <<lf, call, changes>>
    <3>1. /\ pc[w] = "accessed" => AfterAccess[pc[w]] = "touch"
          /\ pc[w] = "rel_accessed" => AfterAccess[pc[w]] = "rel_unlock"
      BY DEF AfterAccess
    <3> QED
      BY <1>1, <2>0, <2>1, <3>1, MoveScope DEF AccessedFile, locks
  <2>2. ASSUME NEW V, call' = [call EXCEPT ![w].victims = V], lf' = w,
               Goto(w, IF pc[w] = "accessed" THEN "gc" ELSE "rel_gc")
        PROVE  LockScope'
    BY <1>0, <1>1, <2>0, <2>2, CollectorScope DEF AccessedFile, LFFree, Locals
  <2> QED
    BY <1>1, <2>1, <2>2 DEF AccessedFile
<1>2. CASE CollectEnd(w)
  BY <1>2, CollectorScope DEF CollectEnd
<1>3. CASE Forget(w)
  BY <1>0, <1>3, StayScope DEF Forget, locks, Locals
<1>4. ASSUME NEW n \in Names, Collect(w, n) PROVE LockScope'
  <2>1. \A v \in Workers : call'[v].path = call[v].path /\ call'[v].lf = call[v].lf
    <3>1. CASE call' = [call EXCEPT ![w].victims = call[w].victims \ {n}]
      BY <1>0, <3>1 DEF Locals
    <3>2. CASE call' = [v \in Workers |->
                          IF v = w THEN [call[v] EXCEPT !.victims = @ \ {n}, !.forget = n]
                          ELSE IF call[v].dest = n
                               THEN [call[v] EXCEPT !.dest = None, !.data = cache[n].data]
                               ELSE call[v]]
      BY <1>0, <3>2 DEF Locals
    <3> QED
      BY <1>4, <3>1, <3>2 DEF Collect
  <2> QED
    BY <1>4, <2>1, StayScope DEF Collect, locks
<1> QED
  BY <1>1, <1>2, <1>3, <1>4

LEMMA ReleaseStepScope == ASSUME LInv, NEW w \in Workers, ReleaseStep(w) PROVE LockScope'
<1> USE DEF CopyInLabels, CopyBackLabels, HoldLabels, CollectLabels
<1>0. call \in [Workers -> Locals]
  BY DEF LInv, TInv, TypeOK
<1>1. CASE ReleaseGetLF(w)
  BY <1>0, <1>1, MoveScope DEF ReleaseGetLF, Locals
<1>2. CASE ReleaseLock(w)
  <2>1. Real(w) \in Names
    BY <1>2 DEF LInv, TInv, Args, ReleaseLock, WriteBackLabels
  <2> QED
    BY <1>2, <2>1, TakeScope DEF ReleaseLock
<1>3. CASE CopyBackTruncate(w)
  <2>1. CASE Goto(w, "rel_unlock") /\ UNCHANGED <<store, call>>
    BY <1>3, <2>1, MoveScope DEF CopyBackTruncate
  <2>2. CASE Goto(w, "rel_data") /\ call' = [call EXCEPT ![w].dest = Real(w)]
    BY <1>0, <1>3, <2>2, MoveScope DEF CopyBackTruncate, Locals
  <2> QED
    BY <1>3, <2>1, <2>2 DEF CopyBackTruncate
<1>4. CASE CopyBackData(w)
  <2>1. \A v \in Workers : call'[v].path = call[v].path /\ call'[v].lf = call[v].lf
    <3>1. PICK d : call' = [v \in Workers |->
                      IF v = w THEN [call[v] EXCEPT !.unsaved = @ \ d, !.dest = None, !.data = {}]
                      ELSE [call[v] EXCEPT !.unsaved = @ \ d]]
      BY <1>4 DEF CopyBackData
    <3> QED
      BY <1>0, <3>1 DEF Locals
  <2> QED
    BY <1>4, <2>1, MoveScope DEF CopyBackData
<1>5. CASE ReleaseTouch(w)
  BY <1>5, MoveScope DEF ReleaseTouch
<1>6. CASE ReleaseUnlock(w)
  <2>1. /\ pc' = [pc EXCEPT ![w] = "rel_remove"] /\ call' = call /\ lf' = lf
        /\ \A n \in Names : lcf'[n] = IF lcf[n] = w THEN None ELSE lcf[n]
    BY <1>6 DEF ReleaseUnlock, Goto, UnlockLCF
  <2>2. /\ pc \in [Workers -> Labels] /\ None \notin Workers
        /\ \A v \in Workers : /\ pc[v] \in CopyInLabels => Ccfn(v) \in Names
                              /\ pc[v] \in CopyBackLabels => Real(v) \in Names
    BY NoneAssumption, CacheNameAssumption
       DEF LInv, TInv, TypeOK, Args, Ccfn, OpenLabels, WriteBackLabels
  <2>3. \A v \in Workers : Ccfn(v)' = Ccfn(v) /\ Real(v)' = Real(v)
    BY <2>1 DEF Ccfn, Real
  <2> QED
    BY <1>6, <2>1, <2>2, <2>3 DEF LInv, LockScope, ReleaseUnlock
<1>7. CASE ReleaseRemoveLF(w)
  BY <1>7, ReturnScope DEF ReleaseRemoveLF, locks
<1> QED
  BY <1>1, <1>2, <1>3, <1>4, <1>5, <1>6, <1>7 DEF ReleaseStep

LEMMA BeginScope == ASSUME LInv, NEW w \in Workers, Begin(w) PROVE LockScope'
<1> USE DEF CopyInLabels, CopyBackLabels, HoldLabels, CollectLabels
<1>0. call \in [Workers -> Locals]
  BY DEF LInv, TInv, TypeOK
<1>1. ASSUME NEW p \in Paths, OpenBegin(w, p) PROVE LockScope'
  BY <1>0, <1>1, MoveScope DEF OpenBegin, Locals
<1>2. ASSUME NEW f \in Fds, Write(w, f) PROVE LockScope'
  BY <1>0, <1>2, MoveScope DEF Write, Locals
<1>3. ASSUME NEW f \in Fds, ReleaseClose(w, f) PROVE LockScope'
  BY <1>0, <1>3, MoveScope DEF ReleaseClose, Locals
<1> QED
  BY <1>1, <1>2, <1>3 DEF Begin

LEMMA OneCallScope == ASSUME LInv, OneCall PROVE LockScope'
<1>1. ASSUME NEW p \in Paths, Truncate(p) PROVE LockScope'
  <2>1. \A v \in Workers : call'[v].path = call[v].path /\ call'[v].lf = call[v].lf
    BY <1>1 DEF Truncate, LInv, TInv, TypeOK, Locals
  <2> QED
    BY <1>1, <2>1, StayScope DEF Truncate, locks
<1>2. ASSUME NEW p \in Paths, Unlink(p) \/ Mknod(p) \/ Utimens(p) \/ Remote(p) PROVE LockScope'
  BY <1>2, StayScope DEF Unlink, Mknod, Utimens, Remote, locks
<1>3. ASSUME NEW p \in Paths, NEW q \in Paths, Rename(p, q) PROVE LockScope'
  BY <1>3, StayScope DEF Rename, locks
<1> QED
  BY <1>1, <1>2, <1>3 DEF OneCall

LEMMA CrashScope == ASSUME LInv, Crash PROVE LockScope'
BY NoneAssumption DEF Crash, LockScope, CopyInLabels, CopyBackLabels

LEMMA InitLInv == Init => LInv
BY InitTInv, NoneAssumption DEF Init, LInv, LockScope, CopyInLabels, CopyBackLabels

LEMMA NextLInv == LInv /\ [Next]_vars => LInv'
<1> SUFFICES ASSUME LInv, [Next]_vars PROVE LInv'
  OBVIOUS
<1>1. TInv'
  BY NextTInv DEF LInv
<1>2. LockScope'
  <2>1. CASE UNCHANGED vars
    BY <2>1, StayScope DEF vars, locks
  <2>2. ASSUME NEW w \in Workers, Step(w) PROVE LockScope'
    <3>1. CASE SetDirtyFlag(w)
      BY <3>1, ReturnScope DEF SetDirtyFlag, locks, HoldLabels, CollectLabels, CopyInLabels,
                               CopyBackLabels
    <3> QED
      BY <2>2, <3>1, OpenStepScope, ReleaseStepScope, CollectorStepScope DEF Step
  <2> QED
    BY <2>1, <2>2, BeginScope, OneCallScope, CrashScope DEF Next, Quiet
<1> QED
  BY <1>1, <1>2 DEF LInv

(* A copy is filled, emptied and read back only under its own lock, the collector runs
   under the LFLock, and no handler returns, by whatever exit, with a lock still held:
   with any number of workers, crashes, failing opens and reused descriptors. *)
THEOREM LocksScoped == Spec => []LockScope
BY InitLInv, NextLInv, PTL DEF Spec, LInv

------------------------------------------------------------------------------
(* The handles.  A descriptor number is not given out again while a release still works
   on its entry: FreshFds says so, and a daemon with one worker sees to it. *)

OneWorker == \A v, w \in Workers : v = w

NoReuse == FreshFds \/ OneWorker

OpenedLabels == {"create", "append", "create_direct"}

(* The open that will give f to a user, or the release that has closed it. *)
Owns(w, f) == pc[w] \in OpenedLabels \cup ReleaseLabels /\ call[w].fd = f

(* A worker that opens and releases nothing has no path. *)
NoPath == \A w \in Workers : pc[w] \in {"idle", "flag"} =>
             call[w].path = None /\ call[w].dest = None /\ call[w].data = {}

(* A descriptor is a user's or one worker's. *)
OneOwner == /\ \A v, w \in Workers, f \in Fds : Owns(v, f) /\ Owns(w, f) => v = w
            /\ \A w \in Workers, f \in Fds : Owns(w, f) => handle[f].path = None
            /\ \A w \in Workers : pc[w] = "flag" => handle[call[w].fd].path # None

(* Descriptor f is open on the copy of path p, which may be unlinked. *)
OnCopy(f, p) == desc[f] \in {On("cache", CacheName[p]), On("unlinked", None)}

OnOriginal(f, p) == desc[f] = On("orig", p)

(* Descriptor f is open for path p, and its LocalFile says on what. *)
EntryFor(f, p) == LET file == localFH2LocalFile[f]
                  IN  \/ file.isCached /\ file.realFileName = CacheName[p] /\ OnCopy(f, p)
                      \/ ~file.isCached /\ file.realFileName = p /\ OnOriginal(f, p)

Entries == /\ \A f \in Fds : handle[f].path # None => EntryFor(f, handle[f].path)
           /\ \A w \in Workers :
                /\ pc[w] = "append" => EntryFor(call[w].fd, call[w].path)
                /\ pc[w] = "create" => OnCopy(call[w].fd, call[w].path)
                /\ pc[w] = "create_direct" => OnOriginal(call[w].fd, call[w].path)

(* A release writes back the copy of its own path. *)
OwnCopy == \A w \in Workers :
  /\ pc[w] = "rel_get" => LET file == localFH2LocalFile[call[w].fd]
                          IN  file.isCached => file.realFileName = CacheName[call[w].path]
  /\ pc[w] \in WriteBackLabels => Real(w) = CacheName[call[w].path]

Dirty == \A f \in Fds : handle[f].path # None /\ handle[f].unsaved # {} =>
  localFH2LocalFile[f].isDirty \/ \E w \in Workers : pc[w] = "flag" /\ call[w].fd = f

HInv == TInv /\ NoPath /\ OneOwner /\ Entries /\ OwnCopy /\ Dirty

(* What the collector leaves a handler of the copy it unlinks is data of that copy. *)
Borrowed == \A w \in Workers :
  /\ call[w].dest # None => call[w].dest = CacheName[call[w].path]
  /\ \A c \in call[w].data : CacheName[c.path] = CacheName[call[w].path]

(* A worker that neither takes a descriptor nor gives it to a user or a release. *)
Settled(w) ==
  \/ /\ pc'[w] = pc[w]
     /\ call'[w].path = call[w].path /\ call'[w].fd = call[w].fd /\ call'[w].lf = call[w].lf
     /\ pc[w] \in {"idle", "flag"} => call'[w].dest = None /\ call'[w].data = {}
  \/ pc[w] # "flag" /\ pc'[w] \notin {"idle", "flag"} \cup OpenedLabels \cup ReleaseLabels
  \/ /\ pc[w] # "flag" /\ pc'[w] = "idle"
     /\ call'[w].path = None /\ call'[w].dest = None /\ call'[w].data = {}
  \/ /\ pc[w] \in ReleaseLabels /\ pc'[w] \in ReleaseLabels \ {"rel_get"}
     /\ call'[w].path = call[w].path /\ call'[w].fd = call[w].fd
     /\ pc'[w] \in WriteBackLabels =>
           \/ pc[w] \in WriteBackLabels /\ call'[w].lf = call[w].lf
           \/ call'[w].lf.realFileName = CacheName[call[w].path]

(* Copies may be unlinked under their descriptors. *)
DescKept == \A f \in Fds :
  desc'[f] = desc[f] \/ \E n \in Names : desc[f] = On("cache", n) /\ desc'[f] = On("unlinked", None)

HandlesKept == \A f \in Fds : /\ handle'[f].path = handle[f].path
                              /\ handle'[f].unsaved \subseteq handle[f].unsaved

(* The entries that count are those of the users' handles, of an open that has made its
   entry and of a release that has not read it. *)
LFKept == \A f \in Fds :
  \/ localFH2LocalFile'[f] = localFH2LocalFile[f]
  \/ handle[f].path = None /\ \A v \in Workers : pc[v] \in {"append", "rel_get"} => call[v].fd # f

LEMMA Frame ==
  ASSUME HInv, TInv', \A w \in Workers : Settled(w), DescKept, HandlesKept, LFKept
  PROVE  HInv'
<1>0. /\ \A w \in Workers : /\ pc[w] \in DescriptorLabels => call[w].fd \in Fds
                            /\ pc[w] \in OpenLabels \cup ReleaseLabels => call[w].path \in Paths
      /\ \A f \in Fds : handle[f].path \in Paths \cup {None}
  BY DEF HInv, TInv, TypeOK, Args, Handles
<1>1. NoPath'
  <2>1. SUFFICES ASSUME NEW w \in Workers, pc'[w] \in {"idle", "flag"}
                 PROVE  call'[w].path = None /\ call'[w].dest = None /\ call'[w].data = {}
    BY DEF NoPath
  <2>2. Settled(w)
    OBVIOUS
  <2> QED
    BY <2>1, <2>2 DEF Settled, HInv, NoPath, OpenedLabels, ReleaseLabels, WriteBackLabels, CopyBackLabels
<1>2. OneOwner'
  <2>1. \A w \in Workers, f \in Fds : Owns(w, f)' => Owns(w, f)
    BY DEF Settled, Owns, OpenedLabels, ReleaseLabels, WriteBackLabels, CopyBackLabels
  <2>2. \A w \in Workers : pc'[w] = "flag" => pc[w] = "flag" /\ call'[w].fd = call[w].fd
    BY DEF Settled, OpenedLabels, ReleaseLabels, WriteBackLabels, CopyBackLabels
  <2>3. \A f \in Fds : handle'[f].path = handle[f].path
    BY DEF HandlesKept
  <2>4. \A w \in Workers : pc[w] = "flag" => call[w].fd \in Fds
    BY <1>0 DEF DescriptorLabels
  <2> QED
    BY <2>1, <2>2, <2>3, <2>4 DEF HInv, OneOwner
<1>3. Entries'
  <2>1. \A f \in Fds, p \in Paths : /\ OnCopy(f, p) => OnCopy(f, p)'
                                    /\ OnOriginal(f, p) => OnOriginal(f, p)'
    <3>1. \A n \in Names, p \in Paths : /\ On("cache", n) # On("orig", p)
                                       /\ On("cache", n) # On("unlinked", None)
      BY DEF On
    <3> QED
      BY <3>1 DEF DescKept, OnCopy, OnOriginal
  <2>2. \A f \in Fds, p \in Paths :
           EntryFor(f, p) /\ localFH2LocalFile'[f] = localFH2LocalFile[f] => EntryFor(f, p)'
    BY <2>1 DEF EntryFor
  <2>3. ASSUME NEW f \in Fds, handle'[f].path # None PROVE EntryFor(f, handle[f].path)'
    <3>1. handle'[f].path = handle[f].path /\ handle[f].path \in Paths
      BY <1>0, <2>3 DEF HandlesKept
    <3>2. EntryFor(f, handle[f].path)
      BY <2>3, <3>1 DEF HInv, Entries
    <3>3. localFH2LocalFile'[f] = localFH2LocalFile[f]
      BY <2>3, <3>1 DEF LFKept
    <3> QED
      BY <2>2, <3>1, <3>2, <3>3 DEF EntryFor, OnCopy, OnOriginal
  <2>4. ASSUME NEW w \in Workers, pc'[w] \in OpenedLabels
        PROVE  /\ pc'[w] = pc[w] /\ call'[w].fd = call[w].fd /\ call'[w].path = call[w].path
               /\ call[w].fd \in Fds /\ call[w].path \in Paths
    <3>1. Settled(w)
      OBVIOUS
    <3>2. pc'[w] = pc[w] /\ call'[w].fd = call[w].fd /\ call'[w].path = call[w].path
      BY <2>4, <3>1 DEF Settled, OpenedLabels, ReleaseLabels, WriteBackLabels, CopyBackLabels
    <3> QED
      BY <1>0, <2>4, <3>2 DEF OpenedLabels, DescriptorLabels, OpenLabels
  <2>5. ASSUME NEW w \in Workers
        PROVE  /\ pc'[w] = "append" => EntryFor(call[w].fd, call[w].path)'
               /\ pc'[w] = "create" => OnCopy(call[w].fd, call[w].path)'
               /\ pc'[w] = "create_direct" => OnOriginal(call[w].fd, call[w].path)'
    <3>1. CASE pc'[w] = "append"
      <4>1. EntryFor(call[w].fd, call[w].path)
        BY <2>4, <3>1 DEF HInv, Entries, OpenedLabels
      <4>2. localFH2LocalFile'[call[w].fd] = localFH2LocalFile[call[w].fd]
        BY <2>4, <3>1 DEF LFKept, OpenedLabels
      <4>3. call'[w].fd = call[w].fd /\ call'[w].path = call[w].path
            /\ call[w].fd \in Fds /\ call[w].path \in Paths
        BY <2>4, <3>1 DEF OpenedLabels
      <4> QED
        BY <2>1, <3>1, <4>1, <4>2, <4>3 DEF EntryFor, OnCopy, OnOriginal
    <3>2. CASE pc'[w] \in {"create", "create_direct"}
      <4>1. call'[w].fd = call[w].fd /\ call'[w].path = call[w].path /\ pc'[w] = pc[w]
            /\ call[w].fd \in Fds /\ call[w].path \in Paths
        BY <2>4, <3>2 DEF OpenedLabels
      <4> QED
        BY <2>1, <3>2, <4>1 DEF HInv, Entries, OnCopy, OnOriginal
    <3> QED
      BY <3>1, <3>2
  <2> QED
    BY <2>3, <2>5 DEF Entries
<1>4. OwnCopy'
  <2>1. SUFFICES ASSUME NEW w \in Workers
                 PROVE  /\ pc'[w] = "rel_get" =>
                            LET file == localFH2LocalFile'[call'[w].fd]
                            IN  file.isCached => file.realFileName = CacheName[call'[w].path]
                        /\ pc'[w] \in WriteBackLabels =>
                            call'[w].lf.realFileName = CacheName[call'[w].path]
    BY DEF OwnCopy, Real
  <2>2. Settled(w)
    OBVIOUS
  <2>3. CASE pc'[w] = "rel_get"
    <3>1. pc[w] = "rel_get" /\ call'[w].fd = call[w].fd /\ call'[w].path = call[w].path
      BY <2>2, <2>3 DEF Settled, OpenedLabels, ReleaseLabels, WriteBackLabels, CopyBackLabels
    <3>2. call[w].fd \in Fds
      BY <1>0, <3>1 DEF DescriptorLabels, ReleaseLabels
    <3>3. localFH2LocalFile'[call[w].fd] = localFH2LocalFile[call[w].fd]
      BY <3>1, <3>2 DEF LFKept
    <3> QED
      BY <2>3, <3>1, <3>3 DEF HInv, OwnCopy, WriteBackLabels, CopyBackLabels
  <2>4. CASE pc'[w] \in WriteBackLabels
    <3>1. pc[w] \in WriteBackLabels => Real(w) = CacheName[call[w].path]
      BY DEF HInv, OwnCopy
    <3>2. /\ call'[w].path = call[w].path
          /\ \/ pc[w] \in WriteBackLabels /\ call'[w].lf = call[w].lf
             \/ call'[w].lf.realFileName = CacheName[call[w].path]
      BY <2>2, <2>4 DEF Settled, OpenedLabels, ReleaseLabels, WriteBackLabels, CopyBackLabels
    <3> QED
      BY <2>4, <3>1, <3>2 DEF Real, WriteBackLabels, CopyBackLabels
  <2> QED
    BY <2>3, <2>4
<1>5. Dirty'
  <2>1. SUFFICES ASSUME NEW f \in Fds, handle'[f].path # None, handle'[f].unsaved # {}
                 PROVE  localFH2LocalFile'[f].isDirty
                        \/ \E w \in Workers : pc'[w] = "flag" /\ call'[w].fd = f
    BY DEF Dirty
  <2>2. handle[f].path # None /\ handle[f].unsaved # {}
    BY <2>1 DEF HandlesKept
  <2>3. localFH2LocalFile'[f] = localFH2LocalFile[f]
    BY <2>2 DEF LFKept
  <2>4. \A w \in Workers : pc[w] = "flag" => pc'[w] = "flag" /\ call'[w].fd = call[w].fd
    BY DEF Settled, OpenedLabels, ReleaseLabels, WriteBackLabels, CopyBackLabels
  <2> QED
    BY <2>2, <2>3, <2>4 DEF HInv, Dirty
<1> QED
  BY <1>1, <1>2, <1>3, <1>4, <1>5 DEF HInv

(* A worker that stays where it is. *)
LEMMA StaysSettled ==
  ASSUME HInv, NEW v \in Workers, pc'[v] = pc[v],
         /\ call'[v].path = call[v].path /\ call'[v].fd = call[v].fd /\ call'[v].lf = call[v].lf
         /\ call'[v].dest = call[v].dest /\ call'[v].data = call[v].data
  PROVE  Settled(v)
BY DEF HInv, NoPath, Settled

(* One worker goes on. *)
LEMMA WorkerFrame ==
  ASSUME HInv, TInv', NEW w \in Workers, NEW l, Goto(w, l), Settled(w),
         \A v \in Workers : v # w => call'[v] = call[v],
         DescKept, HandlesKept, LFKept
  PROVE  HInv'
<1>1. \A v \in Workers : v # w => pc'[v] = pc[v]
  BY DEF Goto, HInv, TInv, TypeOK
<1>2. \A v \in Workers : Settled(v)
  BY <1>1, StaysSettled
<1> QED
  BY <1>2, Frame

(* A worker goes on in its open. *)
LEMMA OpenFrame ==
  ASSUME HInv, TInv', NEW w \in Workers, NEW l, Goto(w, l), pc[w] # "flag",
         l \notin {"idle", "flag"} \cup OpenedLabels \cup ReleaseLabels,
         \A v \in Workers : v # w => call'[v] = call[v],
         UNCHANGED <<desc, handle, localFH2LocalFile>>
  PROVE  HInv'
<1>1. pc'[w] = l
  BY DEF Goto, HInv, TInv, TypeOK
<1>2. Settled(w)
  BY <1>1 DEF Settled
<1> QED
  BY <1>2, WorkerFrame DEF DescKept, HandlesKept, LFKept

(* A worker goes on in its release, with the same LocalFile. *)
LEMMA ReleaseFrame ==
  ASSUME HInv, TInv', NEW w \in Workers, NEW l, Goto(w, l),
         pc[w] \in WriteBackLabels, l \in WriteBackLabels \cup {"rel_remove"},
         \A v \in Workers :
            /\ call'[v].path = call[v].path /\ call'[v].fd = call[v].fd
            /\ call'[v].lf = call[v].lf
            /\ v # w => call'[v].dest = call[v].dest /\ call'[v].data = call[v].data,
         UNCHANGED <<desc, localFH2LocalFile>>, HandlesKept
  PROVE  HInv'
<1>1. pc'[w] = l /\ \A v \in Workers : v # w => pc'[v] = pc[v]
  BY DEF Goto, HInv, TInv, TypeOK
<1>2. Settled(w)
  BY <1>1 DEF Settled, ReleaseLabels, WriteBackLabels, CopyBackLabels
<1>3. \A v \in Workers : v # w => Settled(v)
  BY <1>1, StaysSettled
<1>4. \A v \in Workers : Settled(v)
  BY <1>2, <1>3
<1> QED
  BY <1>4, Frame DEF DescKept, LFKept

(* A handler returns and has done nothing to a handle. *)
LEMMA ReturnFrame ==
  ASSUME HInv, TInv', NEW w \in Workers, Return(w), pc[w] # "flag",
         UNCHANGED <<desc, handle>>, LFKept
  PROVE  HInv'
<1>1. /\ pc'[w] = "idle" /\ call'[w] = NoCall
      /\ \A v \in Workers : v # w => call'[v] = call[v]
  BY DEF Return, Goto, HInv, TInv, TypeOK
<1>2. Settled(w)
  BY <1>1 DEF Settled, NoCall
<1> QED
  BY <1>1, <1>2, WorkerFrame DEF Return, DescKept, HandlesKept

(* An open has got descriptor f. *)
LEMMA OpenedHInv ==
  ASSUME HInv, TInv', NoReuse, NEW w \in Workers, NEW f \in FreeFds,
         pc[w] \in {"open", "direct"}, call' = [call EXCEPT ![w].fd = f],
         \/ Goto(w, "create") /\ desc' = [desc EXCEPT ![f] = On("cache", Ccfn(w))]
         \/ Goto(w, "create_direct") /\ desc' = [desc EXCEPT ![f] = On("orig", call[w].path)],
         UNCHANGED <<handle, localFH2LocalFile>>
  PROVE  HInv'
<1> PICK l : /\ Goto(w, l)
             /\ \/ l = "create" /\ desc' = [desc EXCEPT ![f] = On("cache", Ccfn(w))]
                \/ l = "create_direct" /\ desc' = [desc EXCEPT ![f] = On("orig", call[w].path)]
  OBVIOUS
<1>0. /\ pc'[w] = l /\ call'[w].fd = f /\ call'[w].path = call[w].path
      /\ \A v \in Workers : v # w => pc'[v] = pc[v] /\ call'[v] = call[v]
      /\ \A g \in Fds : g # f => desc'[g] = desc[g]
      /\ f \in Fds /\ desc[f] = Closed
      /\ \A v \in Workers : pc[v] \in DescriptorLabels => call[v].fd \in Fds
      /\ call[w].path \in Paths
      /\ \A g \in Fds : handle[g].path \in Paths \cup {None}
  BY DEF Goto, HInv, TInv, TypeOK, Args, Locals, FreeFds, OpenLabels, Handles
<1>1. handle[f].path = None
  <2>1. \A p : ~EntryFor(f, p)
    BY <1>0 DEF EntryFor, OnCopy, OnOriginal, On, Closed
  <2> QED
    BY <1>0, <2>1 DEF HInv, Entries
<1>2. \A v \in Workers : v # w => call[v].fd # f
  BY DEF NoReuse, OneWorker, FreeFds
<1>3. NoPath'
  BY <1>0 DEF HInv, NoPath
<1>4. OneOwner'
  <2>1. \A v \in Workers, g \in Fds : v # w => (Owns(v, g)' <=> Owns(v, g))
    BY <1>0 DEF Owns
  <2>2. \A g \in Fds : Owns(w, g)' => g = f
    BY <1>0 DEF Owns
  <2>3. \A v \in Workers : v # w => ~Owns(v, f)
    BY <1>2 DEF Owns
  <2> QED
    BY <1>0, <1>1, <2>1, <2>2, <2>3 DEF HInv, OneOwner
<1>5. Entries'
  <2>2. \A g \in Fds : handle'[g].path # None => EntryFor(g, handle[g].path)'
    <3>1. SUFFICES ASSUME NEW g \in Fds, handle'[g].path # None
                   PROVE  EntryFor(g, handle[g].path)'
      OBVIOUS
    <3>2. handle'[g].path = handle[g].path /\ EntryFor(g, handle[g].path) /\ g # f
      BY <1>1, <3>1 DEF HInv, Entries
    <3> QED
      BY <1>0, <3>2 DEF EntryFor, OnCopy, OnOriginal
  <2>3. ASSUME NEW v \in Workers, v # w
        PROVE  /\ pc'[v] = "append" => EntryFor(call[v].fd, call[v].path)'
               /\ pc'[v] = "create" => OnCopy(call[v].fd, call[v].path)'
               /\ pc'[v] = "create_direct" => OnOriginal(call[v].fd, call[v].path)'
    <3>1. pc'[v] = pc[v] /\ call'[v] = call[v] /\ call[v].fd # f
      BY <1>0, <1>2, <2>3
    <3>2. pc[v] \in OpenedLabels => call[v].fd \in Fds
      BY <1>0 DEF OpenedLabels, DescriptorLabels
    <3> QED
      <4>1. CASE pc'[v] = "append"
        <5>1. EntryFor(call[v].fd, call[v].path)
          BY <3>1, <4>1 DEF HInv, Entries
        <5> QED
          BY <1>0, <3>1, <3>2, <4>1, <5>1 DEF EntryFor, OnCopy, OnOriginal, OpenedLabels
      <4>2. CASE pc'[v] \in {"create", "create_direct"}
        BY <1>0, <3>1, <3>2, <4>2 DEF HInv, Entries, OnCopy, OnOriginal, OpenedLabels
      <4> QED
        BY <4>1, <4>2
  <2>4. /\ l = "create" => OnCopy(call[w].fd, call[w].path)'
        /\ l = "create_direct" => OnOriginal(call[w].fd, call[w].path)'
    <3>1. desc \in [Fds -> Descriptions]
      BY DEF HInv, TInv, TypeOK
    <3> QED
      BY <1>0, <3>1 DEF OnCopy, OnOriginal, Ccfn
  <2> QED
    BY <1>0, <2>2, <2>3, <2>4 DEF Entries
<1>6. OwnCopy'
  BY <1>0 DEF HInv, OwnCopy, Real, WriteBackLabels, CopyBackLabels
<1>7. Dirty'
  BY <1>0 DEF HInv, Dirty
<1> QED
  BY <1>3, <1>4, <1>5, <1>6, <1>7 DEF HInv

(* An open makes the entry of the copy it has opened. *)
LEMMA OpenCreateLFHInv == ASSUME HInv, TInv', NEW w \in Workers, OpenCreateLF(w) PROVE HInv'
<1> DEFINE f == call[w].fd
           p == call[w].path
<1>0. /\ pc[w] = "create" /\ pc'[w] = "append" /\ UNCHANGED <<call, desc, handle>>
      /\ \A v \in Workers : v # w => pc'[v] = pc[v]
      /\ f \in Fds /\ p \in Paths /\ CacheName[p] \in Names
      /\ \A v \in Workers : pc[v] \in DescriptorLabels => call[v].fd \in Fds
  BY CacheNameAssumption
     DEF OpenCreateLF, Goto, HInv, TInv, TypeOK, Args, OpenLabels, DescriptorLabels, users
<1>1. /\ localFH2LocalFile'[f] = LocalFile(CacheName[p], CacheName[p], TRUE)
      /\ \A g \in Fds : g # f => localFH2LocalFile'[g] = localFH2LocalFile[g]
  BY <1>0 DEF OpenCreateLF, CreateLF, Ccfn, HInv, TInv, TypeOK
<1>2. Owns(w, f) /\ handle[f].path = None /\ \A v \in Workers : v # w => ~Owns(v, f)
  BY <1>0 DEF HInv, OneOwner, Owns, OpenedLabels
<1>3. EntryFor(f, p)'
  <2>1. OnCopy(f, p)
    BY <1>0 DEF HInv, Entries
  <2> QED
    BY <1>0, <1>1, <2>1 DEF EntryFor, OnCopy, LocalFile
<1>4. NoPath'
  BY <1>0 DEF HInv, NoPath
<1>5. OneOwner'
  <2>1. \A v \in Workers, g \in Fds : Owns(v, g)' <=> Owns(v, g)
    BY <1>0 DEF Owns, OpenedLabels, ReleaseLabels
  <2> QED
    BY <1>0, <2>1 DEF HInv, OneOwner
<1>6. Entries'
  <2>1. ASSUME NEW g \in Fds, handle'[g].path # None PROVE EntryFor(g, handle[g].path)'
    <3>1. g # f /\ EntryFor(g, handle[g].path)
      BY <1>0, <1>2, <2>1 DEF HInv, Entries
    <3> QED
      BY <1>0, <1>1, <3>1 DEF EntryFor, OnCopy, OnOriginal
  <2>2. ASSUME NEW v \in Workers, v # w
        PROVE  /\ pc'[v] = "append" => EntryFor(call[v].fd, call[v].path)'
               /\ pc'[v] = "create" => OnCopy(call[v].fd, call[v].path)'
               /\ pc'[v] = "create_direct" => OnOriginal(call[v].fd, call[v].path)'
    <3>1. CASE pc'[v] = "append"
      <4>1. EntryFor(call[v].fd, call[v].path) /\ call[v].fd \in Fds
        BY <1>0, <2>2, <3>1 DEF HInv, Entries, DescriptorLabels
      <4>2. call[v].fd # f
        BY <1>0, <1>2, <2>2, <3>1 DEF Owns, OpenedLabels
      <4> QED
        BY <1>0, <1>1, <3>1, <4>1, <4>2 DEF EntryFor, OnCopy, OnOriginal
    <3>2. CASE pc'[v] # "append"
      BY <1>0, <2>2, <3>2 DEF HInv, Entries, OnCopy, OnOriginal
    <3> QED
      BY <3>1, <3>2
  <2> QED
    BY <1>0, <1>3, <2>1, <2>2 DEF Entries
<1>7. OwnCopy'
  <2>1. SUFFICES ASSUME NEW v \in Workers, pc'[v] \in {"rel_get"} \cup WriteBackLabels
                 PROVE  /\ pc'[v] = "rel_get" =>
                            LET file == localFH2LocalFile'[call[v].fd]
                            IN  file.isCached => file.realFileName = CacheName[call[v].path]
                        /\ pc'[v] \in WriteBackLabels => Real(v) = CacheName[call[v].path]
    BY <1>0 DEF OwnCopy, Real, WriteBackLabels, CopyBackLabels
  <2>2. v # w /\ pc'[v] = pc[v]
    BY <1>0, <2>1 DEF WriteBackLabels, CopyBackLabels
  <2>3. call[v].fd \in Fds /\ call[v].fd # f
    BY <1>0, <1>2, <2>1, <2>2 DEF Owns, ReleaseLabels, DescriptorLabels
  <2> QED
    BY <1>1, <2>2, <2>3 DEF HInv, OwnCopy
<1>8. Dirty'
  BY <1>0, <1>1, <1>2 DEF HInv, Dirty
<1> QED
  BY <1>4, <1>5, <1>6, <1>7, <1>8 DEF HInv

(* An open returns, and the user gets the handle. *)
LEMMA GivenHInv ==
  ASSUME HInv, TInv', NEW w \in Workers, pc[w] \in OpenedLabels, Return(w), GiveHandle(w),
         NEW f, NEW p, f = call[w].fd, p = call[w].path, EntryFor(f, p)', UNCHANGED desc,
         \A g \in Fds : g # f => localFH2LocalFile'[g] = localFH2LocalFile[g]
  PROVE  HInv'
<1>0. /\ pc'[w] = "idle" /\ call'[w] = NoCall
      /\ \A v \in Workers : v # w => pc'[v] = pc[v] /\ call'[v] = call[v]
      /\ f \in Fds /\ p \in Paths
      /\ \A v \in Workers : pc[v] \in DescriptorLabels => call[v].fd \in Fds
  BY DEF Return, Goto, HInv, TInv, TypeOK, Args, OpenLabels, DescriptorLabels, OpenedLabels
<1>1. /\ handle'[f].path = p /\ handle'[f].unsaved = {}
      /\ \A g \in Fds : g # f => handle'[g] = handle[g]
  BY <1>0 DEF GiveHandle, HInv, TInv, TypeOK, Handles
<1>2. Owns(w, f) /\ \A v \in Workers : v # w => ~Owns(v, f)
  BY <1>0 DEF HInv, OneOwner, Owns
<1>3. None \notin Paths
  BY NoneAssumption
<1>4. NoPath'
  BY <1>0 DEF HInv, NoPath, NoCall
<1>5. OneOwner'
  <2>1. \A v \in Workers, g \in Fds : Owns(v, g)' => v # w /\ Owns(v, g)
    BY <1>0 DEF Owns, OpenedLabels, ReleaseLabels, WriteBackLabels, CopyBackLabels
  <2>2. \A v \in Workers : pc'[v] = "flag" => handle'[call'[v].fd].path # None
    <3>1. \A v \in Workers : pc'[v] = "flag" =>
             /\ v # w /\ call'[v].fd = call[v].fd /\ call[v].fd \in Fds
             /\ handle[call[v].fd].path # None
      BY <1>0 DEF HInv, OneOwner, DescriptorLabels
    <3> QED
      BY <1>0, <1>1, <1>3, <3>1
  <2> QED
    BY <1>0, <1>1, <1>2, <2>1, <2>2 DEF HInv, OneOwner
<1>6. Entries'
  <2>1. ASSUME NEW g \in Fds, handle'[g].path # None PROVE EntryFor(g, handle[g].path)'
    <3>1. CASE g = f
      BY <1>0, <1>1, <3>1 DEF EntryFor, OnCopy, OnOriginal
    <3>2. CASE g # f
      <4>1. EntryFor(g, handle[g].path)
        BY <1>1, <2>1, <3>2 DEF HInv, Entries
      <4> QED
        BY <1>0, <1>1, <3>2, <4>1 DEF EntryFor, OnCopy, OnOriginal
    <3> QED
      BY <3>1, <3>2
  <2>2. ASSUME NEW v \in Workers, pc'[v] \in OpenedLabels
        PROVE  /\ pc'[v] = "append" => EntryFor(call[v].fd, call[v].path)'
               /\ pc'[v] = "create" => OnCopy(call[v].fd, call[v].path)'
               /\ pc'[v] = "create_direct" => OnOriginal(call[v].fd, call[v].path)'
    <3>1. v # w /\ pc'[v] = pc[v] /\ call'[v] = call[v]
      BY <1>0, <2>2 DEF OpenedLabels
    <3>2. call[v].fd \in Fds /\ call[v].fd # f
      BY <1>0, <1>2, <2>2, <3>1 DEF Owns, OpenedLabels, DescriptorLabels
    <3>3. CASE pc'[v] = "append"
      <4>1. EntryFor(call[v].fd, call[v].path)
        BY <3>1, <3>3 DEF HInv, Entries
      <4> QED
        BY <3>1, <3>2, <3>3, <4>1 DEF EntryFor, OnCopy, OnOriginal
    <3>4. CASE pc'[v] # "append"
      BY <3>1, <3>2, <3>4 DEF HInv, Entries, OnCopy, OnOriginal
    <3> QED
      BY <3>3, <3>4
  <2> QED
    BY <2>1, <2>2 DEF Entries, OpenedLabels
<1>7. OwnCopy'
  <2>1. SUFFICES ASSUME NEW v \in Workers, pc'[v] \in {"rel_get"} \cup WriteBackLabels
                 PROVE  /\ pc'[v] = "rel_get" =>
                            LET file == localFH2LocalFile'[call'[v].fd]
                            IN  file.isCached => file.realFileName = CacheName[call'[v].path]
                        /\ pc'[v] \in WriteBackLabels =>
                              call'[v].lf.realFileName = CacheName[call'[v].path]
    BY DEF OwnCopy, Real, WriteBackLabels, CopyBackLabels
  <2>2. v # w /\ pc'[v] = pc[v] /\ call'[v] = call[v]
    BY <1>0, <2>1 DEF WriteBackLabels, CopyBackLabels
  <2>3. call[v].fd \in Fds /\ call[v].fd # f
    BY <1>0, <1>2, <2>1, <2>2 DEF Owns, ReleaseLabels, DescriptorLabels
  <2> QED
    BY <2>2, <2>3 DEF HInv, OwnCopy, Real
<1>8. Dirty'
  <2>1. \A v \in Workers : pc[v] = "flag" => pc'[v] = "flag" /\ call'[v] = call[v]
    BY <1>0 DEF OpenedLabels
  <2> QED
    BY <1>1, <2>1 DEF HInv, Dirty
<1> QED
  BY <1>4, <1>5, <1>6, <1>7, <1>8 DEF HInv

(* A write sets the flag of its handle after it. *)
LEMMA WriteHInv ==
  ASSUME HInv, TInv', NEW w \in Workers, NEW f \in Fds, Write(w, f) PROVE HInv'
<1>0. /\ pc[w] = "idle" /\ pc'[w] = "flag" /\ call'[w].fd = f
      /\ call'[w].path = call[w].path /\ call'[w].dest = call[w].dest /\ call'[w].data = call[w].data
      /\ \A v \in Workers : v # w => pc'[v] = pc[v] /\ call'[v] = call[v]
      /\ \A v \in Workers : pc[v] \in DescriptorLabels => call[v].fd \in Fds
      /\ UNCHANGED <<desc, localFH2LocalFile>>
  BY DEF Write, Goto, HInv, TInv, TypeOK, Args, Locals, tables
<1>1. /\ handle[f].path # None
      /\ \A g \in Fds : /\ handle'[g].path = handle[g].path
                        /\ g # f => handle'[g] = handle[g]
  BY DEF Write, HInv, TInv, TypeOK, Handles
<1>2. NoPath'
  BY <1>0 DEF HInv, NoPath
<1>3. OneOwner'
  <2>1. \A v \in Workers, g \in Fds : Owns(v, g)' => Owns(v, g)
    BY <1>0 DEF Owns, OpenedLabels, ReleaseLabels, WriteBackLabels, CopyBackLabels
  <2>2. \A v \in Workers : pc'[v] = "flag" => call'[v].fd \in Fds /\ handle[call'[v].fd].path # None
    BY <1>0, <1>1 DEF HInv, OneOwner, DescriptorLabels
  <2> QED
    BY <1>1, <2>1, <2>2 DEF HInv, OneOwner
<1>4. Entries'
  <2>1. ASSUME NEW g \in Fds, handle'[g].path # None PROVE EntryFor(g, handle[g].path)'
    <3>1. EntryFor(g, handle[g].path)
      BY <1>1, <2>1 DEF HInv, Entries
    <3> QED
      BY <1>0, <1>1, <3>1 DEF EntryFor, OnCopy, OnOriginal
  <2>2. ASSUME NEW v \in Workers, pc'[v] \in OpenedLabels
        PROVE  /\ pc'[v] = "append" => EntryFor(call[v].fd, call[v].path)'
               /\ pc'[v] = "create" => OnCopy(call[v].fd, call[v].path)'
               /\ pc'[v] = "create_direct" => OnOriginal(call[v].fd, call[v].path)'
    <3>1. pc'[v] = pc[v] /\ call'[v] = call[v]
      BY <1>0, <2>2 DEF OpenedLabels
    <3> QED
      BY <1>0, <3>1 DEF HInv, Entries, EntryFor, OnCopy, OnOriginal
  <2> QED
    BY <2>1, <2>2 DEF Entries, OpenedLabels
<1>5. OwnCopy'
  <2>1. \A v \in Workers : pc'[v] \in {"rel_get"} \cup WriteBackLabels =>
                              pc'[v] = pc[v] /\ call'[v] = call[v]
    BY <1>0 DEF WriteBackLabels, CopyBackLabels
  <2> QED
    BY <1>0, <2>1 DEF HInv, OwnCopy, Real
<1>6. Dirty'
  <2>1. \A v \in Workers : pc[v] = "flag" => pc'[v] = "flag" /\ call'[v] = call[v]
    BY <1>0
  <2> QED
    BY <1>0, <1>1, <2>1 DEF HInv, Dirty
<1> QED
  BY <1>2, <1>3, <1>4, <1>5, <1>6 DEF HInv

(* The flag is set in the entry of the handle that was written. *)
LEMMA SetDirtyFlagHInv ==
  ASSUME HInv, TInv', NEW w \in Workers, SetDirtyFlag(w) PROVE HInv'
<1> DEFINE f == call[w].fd
<1>0. /\ pc[w] = "flag" /\ pc'[w] = "idle" /\ call'[w] = NoCall
      /\ \A v \in Workers : v # w => pc'[v] = pc[v] /\ call'[v] = call[v]
      /\ f \in Fds /\ handle[f].path # None /\ UNCHANGED <<desc, handle>>
      /\ \A v \in Workers : pc[v] \in DescriptorLabels => call[v].fd \in Fds
  BY DEF SetDirtyFlag, Return, Goto, HInv, OneOwner, TInv, TypeOK, Args, DescriptorLabels, users
<1>1. /\ localFH2LocalFile'[f].isDirty
      /\ localFH2LocalFile'[f].isCached = localFH2LocalFile[f].isCached
      /\ localFH2LocalFile'[f].realFileName = localFH2LocalFile[f].realFileName
      /\ \A g \in Fds : g # f => localFH2LocalFile'[g] = localFH2LocalFile[g]
  <2>1. localFH2LocalFile[f] # Dummy
    <3>1. EntryFor(f, handle[f].path) /\ Dummy.isCached = FALSE /\ Dummy.realFileName = None
      BY <1>0 DEF HInv, Entries, Dummy, LocalFile
    <3> QED
      BY <1>0, <3>1 DEF EntryFor
  <2>2. /\ localFH2LocalFile' = [localFH2LocalFile EXCEPT ![f].isDirty = TRUE]
        /\ localFH2LocalFile \in [Fds -> LocalFiles]
    BY <2>1 DEF SetDirtyFlag, Flagged, HInv, TInv, TypeOK
  <2> QED
    BY <1>0, <2>2 DEF LocalFiles
<1>2. \A g \in Fds : \A p : EntryFor(g, p) => EntryFor(g, p)'
  BY <1>0, <1>1 DEF EntryFor, OnCopy, OnOriginal
<1>3. NoPath'
  BY <1>0 DEF HInv, NoPath, NoCall
<1>4. OneOwner'
  <2>1. \A v \in Workers, g \in Fds : Owns(v, g)' => Owns(v, g)
    BY <1>0 DEF Owns, OpenedLabels, ReleaseLabels, WriteBackLabels, CopyBackLabels
  <2> QED
    BY <1>0, <2>1 DEF HInv, OneOwner
<1>5. Entries'
  <2>1. ASSUME NEW g \in Fds, handle'[g].path # None PROVE EntryFor(g, handle[g].path)'
    <3>1. EntryFor(g, handle[g].path)
      BY <1>0, <2>1 DEF HInv, Entries
    <3> QED
      BY <1>0, <1>1, <3>1 DEF EntryFor, OnCopy, OnOriginal
  <2>2. ASSUME NEW v \in Workers, pc'[v] \in OpenedLabels
        PROVE  /\ pc'[v] = "append" => EntryFor(call[v].fd, call[v].path)'
               /\ pc'[v] = "create" => OnCopy(call[v].fd, call[v].path)'
               /\ pc'[v] = "create_direct" => OnOriginal(call[v].fd, call[v].path)'
    <3>1. pc'[v] = pc[v] /\ call'[v] = call[v] /\ call[v].fd \in Fds
      BY <1>0, <2>2 DEF OpenedLabels, DescriptorLabels
    <3>2. CASE pc'[v] = "append"
      <4>1. EntryFor(call[v].fd, call[v].path)
        BY <3>1, <3>2 DEF HInv, Entries
      <4> QED
        BY <1>0, <1>1, <3>1, <3>2, <4>1 DEF EntryFor, OnCopy, OnOriginal
    <3>3. CASE pc'[v] # "append"
      BY <1>0, <3>1, <3>3 DEF HInv, Entries, OnCopy, OnOriginal
    <3> QED
      BY <3>2, <3>3
  <2> QED
    BY <2>1, <2>2 DEF Entries, OpenedLabels
<1>6. OwnCopy'
  <2>1. \A v \in Workers : pc'[v] \in {"rel_get"} \cup WriteBackLabels =>
                              pc'[v] = pc[v] /\ call'[v] = call[v]
    BY <1>0 DEF WriteBackLabels, CopyBackLabels
  <2>2. \A v \in Workers : pc'[v] = "rel_get" => call[v].fd \in Fds /\ call[v].fd # f
    BY <1>0, <2>1 DEF HInv, OneOwner, Owns, ReleaseLabels, DescriptorLabels
  <2> QED
    BY <1>1, <2>1, <2>2 DEF HInv, OwnCopy, Real
<1>7. Dirty'
  <2>1. \A v \in Workers : pc[v] = "flag" /\ v # w => pc'[v] = "flag" /\ call'[v] = call[v]
    BY <1>0
  <2> QED
    BY <1>0, <1>1, <2>1 DEF HInv, Dirty
<1> QED
  BY <1>3, <1>4, <1>5, <1>6, <1>7 DEF HInv

(* A release takes the handle from its user. *)
LEMMA ReleaseCloseHInv ==
  ASSUME HInv, TInv', NEW w \in Workers, NEW f \in Fds, ReleaseClose(w, f) PROVE HInv'
<1>0. /\ pc[w] = "idle" /\ pc'[w] = "rel_get"
      /\ call'[w].fd = f /\ call'[w].path = handle[f].path
      /\ \A v \in Workers : v # w => pc'[v] = pc[v] /\ call'[v] = call[v]
      /\ \A v \in Workers : pc[v] \in DescriptorLabels => call[v].fd \in Fds
      /\ localFH2LocalFile' = localFH2LocalFile
      /\ \A v \in Workers : pc[v] = "flag" => call[v].fd # f
  BY DEF ReleaseClose, Goto, HInv, TInv, TypeOK, Args, Locals, tables
<1>1. /\ handle[f].path # None /\ handle'[f].path = None
      /\ \A g \in Fds : g # f => handle'[g] = handle[g] /\ desc'[g] = desc[g]
  BY DEF ReleaseClose, HInv, TInv, TypeOK, Handles, NoHandle
<1>2. \A v \in Workers : ~Owns(v, f)
  BY <1>1 DEF HInv, OneOwner
<1>3. NoPath'
  BY <1>0 DEF HInv, NoPath
<1>4. OneOwner'
  <2>1. \A v \in Workers, g \in Fds : Owns(v, g)' => (v = w /\ g = f) \/ (v # w /\ g # f /\ Owns(v, g))
    BY <1>0, <1>2 DEF Owns
  <2>2. \A v \in Workers : pc'[v] = "flag" => handle'[call'[v].fd].path # None
    BY <1>0, <1>1 DEF HInv, OneOwner, DescriptorLabels
  <2> QED
    BY <1>1, <2>1, <2>2 DEF HInv, OneOwner
<1>5. Entries'
  <2>1. ASSUME NEW g \in Fds, handle'[g].path # None PROVE EntryFor(g, handle[g].path)'
    <3>1. g # f /\ EntryFor(g, handle[g].path)
      BY <1>1, <2>1 DEF HInv, Entries
    <3> QED
      BY <1>0, <1>1, <3>1 DEF EntryFor, OnCopy, OnOriginal
  <2>2. ASSUME NEW v \in Workers, pc'[v] \in OpenedLabels
        PROVE  /\ pc'[v] = "append" => EntryFor(call[v].fd, call[v].path)'
               /\ pc'[v] = "create" => OnCopy(call[v].fd, call[v].path)'
               /\ pc'[v] = "create_direct" => OnOriginal(call[v].fd, call[v].path)'
    <3>1. pc'[v] = pc[v] /\ call'[v] = call[v] /\ call[v].fd \in Fds /\ call[v].fd # f
      BY <1>0, <1>2, <2>2 DEF OpenedLabels, DescriptorLabels, Owns
    <3>2. CASE pc'[v] = "append"
      <4>1. EntryFor(call[v].fd, call[v].path)
        BY <3>1, <3>2 DEF HInv, Entries
      <4> QED
        BY <1>0, <1>1, <3>1, <3>2, <4>1 DEF EntryFor, OnCopy, OnOriginal
    <3>3. CASE pc'[v] # "append"
      BY <1>1, <3>1, <3>3 DEF HInv, Entries, OnCopy, OnOriginal
    <3> QED
      BY <3>2, <3>3
  <2> QED
    BY <2>1, <2>2 DEF Entries, OpenedLabels
<1>6. OwnCopy'
  <2>1. EntryFor(f, handle[f].path)
    BY <1>1 DEF HInv, Entries
  <2>2. \A v \in Workers : v # w => /\ pc'[v] = pc[v] /\ call'[v] = call[v]
    BY <1>0
  <2> QED
    BY <1>0, <2>1, <2>2 DEF HInv, OwnCopy, Real, EntryFor, WriteBackLabels, CopyBackLabels
<1>7. Dirty'
  <2>1. \A v \in Workers : pc[v] = "flag" => pc'[v] = "flag" /\ call'[v] = call[v]
    BY <1>0
  <2> QED
    BY <1>0, <1>1, <2>1 DEF HInv, Dirty
<1> QED
  BY <1>3, <1>4, <1>5, <1>6, <1>7 DEF HInv

(* After a crash nobody has a handle and no handler runs. *)
LEMMA CrashHInv == ASSUME TInv', Crash PROVE HInv'
<1>1. /\ \A w \in Workers : pc'[w] = "idle" /\ call'[w] = NoCall
      /\ \A f \in Fds : handle'[f] = NoHandle
  BY DEF Crash
<1> QED
  BY <1>1 DEF HInv, NoPath, OneOwner, Owns, Entries, OwnCopy, Dirty, NoCall, NoHandle,
              OpenedLabels, ReleaseLabels, WriteBackLabels, CopyBackLabels

(* Every step keeps the handles right. *)

LEMMA OpenStepHInv == ASSUME HInv, TInv', NoReuse, NEW w \in Workers, OpenStep(w) PROVE HInv'
<1>0. call \in [Workers -> Locals]
  BY DEF HInv, TInv, TypeOK
<1> USE DEF OpenedLabels, ReleaseLabels, WriteBackLabels, CopyBackLabels
<1>1. CASE OpenCheck(w)
  <2>1. CASE Return(w)
    BY <1>1, <2>1, ReturnFrame DEF OpenCheck, tables, users, LFKept
  <2>2. CASE ~Return(w)
    BY <1>1, <2>2, OpenFrame DEF OpenCheck, tables, users
  <2> QED
    BY <2>1, <2>2
<1>2. CASE OpenLock(w)
  BY <1>2, OpenFrame DEF OpenLock, tables, users
<1>3. CASE OpenStat(w)
  BY <1>3, OpenFrame DEF OpenStat, tables, users
<1>4. CASE CopyInTruncate(w)
  <2>1. CASE Goto(w, "direct") /\ UNCHANGED <<store, call>>
    BY <1>4, <2>1, OpenFrame DEF CopyInTruncate, tables, users
  <2>2. CASE Goto(w, "data") /\ call' = [call EXCEPT ![w].dest = Ccfn(w)]
    BY <1>0, <1>4, <2>2, OpenFrame DEF CopyInTruncate, tables, users
  <2> QED
    BY <1>4, <2>1, <2>2 DEF CopyInTruncate
<1>5. CASE CopyInData(w)
  BY <1>0, <1>5, OpenFrame DEF CopyInData, tables, users
<1>6. CASE OpenTouch(w)
  BY <1>6, OpenFrame DEF OpenTouch, tables, users
<1>7. CASE OpenCached(w)
  <2>1. CASE Leave(w) /\ UNCHANGED desc
    BY <1>7, <2>1, ReturnFrame DEF OpenCached, Leave, tables, users, LFKept
  <2>2. ASSUME NEW f \in FreeFds, desc' = [desc EXCEPT ![f] = On("cache", Ccfn(w))],
               call' = [call EXCEPT ![w].fd = f], Goto(w, "create")
        PROVE  HInv'
    <3>1. pc[w] \in {"open", "direct"} /\ UNCHANGED <<handle, localFH2LocalFile>>
      BY <1>7 DEF OpenCached, tables, users
    <3> QED
      BY <2>2, <3>1, OpenedHInv
  <2> QED
    BY <1>7, <2>1, <2>2 DEF OpenCached
<1>8. CASE OpenDirect(w)
  <2>1. CASE Leave(w) /\ UNCHANGED desc
    BY <1>8, <2>1, ReturnFrame DEF OpenDirect, Leave, tables, users, LFKept
  <2>2. ASSUME NEW f \in FreeFds, desc' = [desc EXCEPT ![f] = On("orig", call[w].path)],
               call' = [call EXCEPT ![w].fd = f], Goto(w, "create_direct")
        PROVE  HInv'
    <3>1. pc[w] \in {"open", "direct"} /\ UNCHANGED <<handle, localFH2LocalFile>>
      BY <1>8 DEF OpenDirect, tables, users
    <3> QED
      BY <2>2, <3>1, OpenedHInv
  <2> QED
    BY <1>8, <2>1, <2>2 DEF OpenDirect
<1>9. CASE OpenCreateLF(w)
  BY <1>9, OpenCreateLFHInv
<1>10. CASE OpenCreateDirectLF(w)
  <2> DEFINE f == call[w].fd
             p == call[w].path
  <2>1. f \in Fds /\ p \in Paths /\ OnOriginal(f, p)
    BY <1>10 DEF OpenCreateDirectLF, HInv, TInv, Args, Entries, OpenLabels, DescriptorLabels
  <2>2. /\ localFH2LocalFile'[f] = LocalFile(p, Ccfn(w), FALSE)
        /\ \A g \in Fds : g # f => localFH2LocalFile'[g] = localFH2LocalFile[g]
        /\ desc' = desc
    BY <1>10, <2>1 DEF OpenCreateDirectLF, CreateLF, HInv, TInv, TypeOK
  <2>3. \A g, q : g = f /\ q = p => EntryFor(g, q)'
    BY <2>1, <2>2 DEF EntryFor, OnOriginal, LocalFile
  <2>4. \A g \in Fds : g # f => localFH2LocalFile'[g] = localFH2LocalFile[g]
    BY <2>2
  <2> HIDE DEF f, p
  <2> QED
    BY <1>10, <2>2, <2>3, <2>4, GivenHInv DEF OpenCreateDirectLF, Leave, f, p
<1>11. CASE OpenAppend(w)
  <2>1. call[w].fd \in Fds /\ EntryFor(call[w].fd, call[w].path)
    BY <1>11 DEF OpenAppend, HInv, TInv, Args, Entries, OpenLabels, DescriptorLabels
  <2>2. UNCHANGED <<desc, localFH2LocalFile>>
    BY <1>11 DEF OpenAppend
  <2>3. \A g, q : g = call[w].fd /\ q = call[w].path => EntryFor(g, q)'
    BY <2>1, <2>2 DEF EntryFor, OnCopy, OnOriginal
  <2> QED
    BY <1>11, <2>2, <2>3, GivenHInv DEF OpenAppend, Leave
<1> QED
  BY <1>1, <1>2, <1>3, <1>4, <1>5, <1>6, <1>7, <1>8, <1>9, <1>10, <1>11 DEF OpenStep

LEMMA CollectorStepHInv ==
  ASSUME HInv, TInv', NEW w \in Workers,
         AccessedFile(w) \/ CollectEnd(w) \/ Forget(w) \/ \E n \in Names : Collect(w, n)
  PROVE  HInv'
<1>0. call \in [Workers -> Locals] /\ pc \in [Workers -> Labels]
  BY DEF HInv, TInv, TypeOK
<1> USE DEF OpenedLabels, ReleaseLabels, WriteBackLabels, CopyBackLabels
<1>1. CASE AccessedFile(w)
  <2>0. pc[w] \in {"accessed", "rel_accessed"}
    BY <1>1 DEF AccessedFile, AfterAccess
  <2>1. PICK l \in {"touch", "gc", "rel_unlock", "rel_gc"} :
           Goto(w, l) /\ (pc[w] = "accessed" <=> l \in {"touch", "gc"})
    <3>1. /\ pc[w] = "accessed" => AfterAccess[pc[w]] = "touch"
          /\ pc[w] = "rel_accessed" => AfterAccess[pc[w]] = "rel_unlock"
      BY DEF AfterAccess
    <3> QED
      BY <1>1, <2>0, <3>1 DEF AccessedFile
  <2>2. \A v \in Workers : /\ call'[v].path = call[v].path
                           /\ call'[v].fd = call[v].fd
                           /\ call'[v].lf = call[v].lf
                           /\ call'[v].dest = call[v].dest
                           /\ call'[v].data = call[v].data
                           /\ v # w => call'[v] = call[v]
    BY <1>0, <1>1 DEF AccessedFile, Locals
  <2>3. UNCHANGED <<desc, handle, localFH2LocalFile>>
    BY <1>1 DEF AccessedFile, tables
  <2>4. HandlesKept
    BY <2>3 DEF HandlesKept
  <2>5. CASE pc[w] = "accessed"
    BY <2>1, <2>2, <2>3, <2>5, OpenFrame
  <2>6. CASE pc[w] = "rel_accessed"
    BY <2>1, <2>2, <2>3, <2>4, <2>6, ReleaseFrame
  <2> QED
    BY <2>0, <2>5, <2>6
<1>2. CASE CollectEnd(w)
  <2>1. CASE pc[w] = "gc"
    BY <1>2, <2>1, OpenFrame DEF CollectEnd, tables, users
  <2>2. CASE pc[w] = "rel_gc"
    BY <1>2, <2>2, ReleaseFrame DEF CollectEnd, tables, users, HandlesKept
  <2> QED
    BY <1>2, <2>1, <2>2 DEF CollectEnd
<1>3. CASE Forget(w)
  <2>1. \A v \in Workers : /\ call'[v].path = call[v].path
                           /\ call'[v].fd = call[v].fd
                           /\ call'[v].lf = call[v].lf
                           /\ call'[v].dest = call[v].dest
                           /\ call'[v].data = call[v].data
    BY <1>0, <1>3 DEF Forget, Locals
  <2>2. \A v \in Workers : Settled(v)
    BY <1>3, <2>1, StaysSettled DEF Forget
  <2> QED
    BY <1>3, <2>2, Frame DEF Forget, users, DescKept, HandlesKept, LFKept
<1>4. ASSUME NEW n \in Names, Collect(w, n) PROVE HInv'
  <2>1. ASSUME NEW v \in Workers PROVE Settled(v)
    <3>1. call'[v].path = call[v].path /\ call'[v].fd = call[v].fd /\ call'[v].lf = call[v].lf
      <4>1. CASE call' = [call EXCEPT ![w].victims = call[w].victims \ {n}]
        BY <1>0, <4>1 DEF Locals
      <4>2. CASE call' = [u \in Workers |->
                            IF u = w THEN [call[u] EXCEPT !.victims = @ \ {n}, !.forget = n]
                            ELSE IF call[u].dest = n
                                 THEN [call[u] EXCEPT !.dest = None, !.data = cache[n].data]
                                 ELSE call[u]]
        BY <1>0, <4>2 DEF Locals
      <4> QED
        BY <1>4, <4>1, <4>2 DEF Collect
    <3>2. pc[v] \in {"idle", "flag"} => call'[v].dest = None /\ call'[v].data = {}
      <4>1. n # None
        BY NoneAssumption
      <4>2. pc[v] \in {"idle", "flag"} => call[v].dest = None /\ call[v].data = {} /\ v # w
        BY <1>4 DEF HInv, NoPath, Collect
      <4> QED
        BY <1>0, <1>4, <4>1, <4>2 DEF Collect
    <3> QED
      BY <1>4, <3>1, <3>2 DEF Settled, Collect
  <2>2. DescKept
    BY <1>4 DEF DescKept, Collect
  <2> QED
    BY <1>4, <2>1, <2>2, Frame DEF Collect, tables, users, HandlesKept, LFKept
<1> QED
  BY <1>1, <1>2, <1>3, <1>4

LEMMA ReleaseStepHInv == ASSUME HInv, TInv', NEW w \in Workers, ReleaseStep(w) PROVE HInv'
<1>0. /\ call \in [Workers -> Locals] /\ pc \in [Workers -> Labels] /\ handle \in [Fds -> Handles]
      /\ \A v \in Workers : pc[v] \in DescriptorLabels => call[v].fd \in Fds
  BY DEF HInv, TInv, TypeOK, Args
<1> USE DEF OpenedLabels, ReleaseLabels, WriteBackLabels, CopyBackLabels
<1>1. CASE ReleaseGetLF(w)
  <2> DEFINE file == localFH2LocalFile[call[w].fd]
  <2>1. /\ pc[w] = "rel_get" /\ call'[w].lf = file
        /\ call'[w].path = call[w].path /\ call'[w].fd = call[w].fd
        /\ pc'[w] = IF NeedsWriteBack(file) THEN "rel_lock" ELSE "rel_remove"
        /\ \A v \in Workers : v # w => call'[v] = call[v]
    BY <1>0, <1>1 DEF ReleaseGetLF, Goto, Locals
  <2>2. NeedsWriteBack(file) => file.realFileName = CacheName[call[w].path]
    BY <2>1 DEF HInv, OwnCopy, NeedsWriteBack
  <2>3. Settled(w)
    BY <2>1, <2>2 DEF Settled
  <2> QED
    BY <1>1, <2>1, <2>3, WorkerFrame DEF ReleaseGetLF, tables, users, DescKept, HandlesKept, LFKept
<1>2. CASE ReleaseLock(w)
  BY <1>2, ReleaseFrame DEF ReleaseLock, tables, users, HandlesKept
<1>3. CASE CopyBackTruncate(w)
  <2>1. CASE Goto(w, "rel_unlock") /\ UNCHANGED <<store, call>>
    BY <1>3, <2>1, ReleaseFrame DEF CopyBackTruncate, tables, users, HandlesKept
  <2>2. CASE Goto(w, "rel_data") /\ call' = [call EXCEPT ![w].dest = Real(w)]
    <3>1. \A v \in Workers : /\ call'[v].path = call[v].path
                             /\ call'[v].fd = call[v].fd
                             /\ call'[v].lf = call[v].lf
                             /\ v # w => call'[v] = call[v]
      BY <1>0, <2>2 DEF Locals
    <3> QED
      BY <1>3, <2>2, <3>1, ReleaseFrame DEF CopyBackTruncate, tables, users, HandlesKept
  <2> QED
    BY <1>3, <2>1, <2>2 DEF CopyBackTruncate
<1>4. CASE CopyBackData(w)
  <2>1. PICK d : /\ handle' = SavedHandles(d)
                 /\ call' = [v \in Workers |->
                      IF v = w THEN [call[v] EXCEPT !.unsaved = @ \ d, !.dest = None, !.data = {}]
                      ELSE [call[v] EXCEPT !.unsaved = @ \ d]]
    BY <1>4 DEF CopyBackData
  <2>2. \A v \in Workers : /\ call'[v].path = call[v].path
                           /\ call'[v].fd = call[v].fd
                           /\ call'[v].lf = call[v].lf
                           /\ v # w => call'[v].dest = call[v].dest /\ call'[v].data = call[v].data
    BY <1>0, <2>1 DEF Locals
  <2>3. HandlesKept
    BY <1>0, <2>1 DEF HandlesKept, SavedHandles, Handles
  <2> QED
    BY <1>4, <2>2, <2>3, ReleaseFrame DEF CopyBackData, tables
<1>5. CASE ReleaseTouch(w)
  BY <1>5, ReleaseFrame DEF ReleaseTouch, tables, users, HandlesKept
<1>6. CASE ReleaseUnlock(w)
  BY <1>6, ReleaseFrame DEF ReleaseUnlock, tables, users, HandlesKept
<1>7. CASE ReleaseRemoveLF(w)
  <2>1. Owns(w, call[w].fd) /\ call[w].fd \in Fds
    BY <1>0, <1>7 DEF ReleaseRemoveLF, Owns, DescriptorLabels
  <2>2. LFKept
    <3>1. \A f \in Fds : f # call[w].fd => localFH2LocalFile'[f] = localFH2LocalFile[f]
      BY <1>7 DEF ReleaseRemoveLF, WithoutLF, HInv, TInv, TypeOK
    <3>2. handle[call[w].fd].path = None
      BY <2>1 DEF HInv, OneOwner
    <3>3. \A v \in Workers : pc[v] \in {"append", "rel_get"} => call[v].fd # call[w].fd
      BY <1>0, <1>7, <2>1 DEF ReleaseRemoveLF, HInv, OneOwner, Owns, DescriptorLabels
    <3> QED
      BY <3>1, <3>2, <3>3 DEF LFKept
  <2> QED
    BY <1>7, <2>2, ReturnFrame DEF ReleaseRemoveLF
<1> QED
  BY <1>1, <1>2, <1>3, <1>4, <1>5, <1>6, <1>7 DEF ReleaseStep

(* The calls on paths leave the handles as they are; a rename would move them to
   another path without their entries. *)
NoRename == \A p, q \in Paths : ~Rename(p, q)

LEMMA OneCallHInv == ASSUME HInv, TInv', OneCall, NoRename PROVE HInv'
<1>1. ASSUME NEW p \in Paths, Truncate(p) PROVE HInv'
  <2>0. call \in [Workers -> Locals] /\ handle \in [Fds -> Handles]
    BY DEF HInv, TInv, TypeOK
  <2>1. \A v \in Workers : /\ call'[v].path = call[v].path
                           /\ call'[v].fd = call[v].fd
                           /\ call'[v].lf = call[v].lf
                           /\ call'[v].dest = call[v].dest
                           /\ call'[v].data = call[v].data
    BY <1>1, <2>0 DEF Truncate, Locals
  <2>2. \A v \in Workers : Settled(v)
    BY <1>1, <2>1, StaysSettled DEF Truncate
  <2>3. HandlesKept
    BY <1>1, <2>0 DEF Truncate, HandlesKept, Handles
  <2> QED
    BY <1>1, <2>2, <2>3, Frame DEF Truncate, tables, DescKept, LFKept
<1>2. ASSUME NEW p \in Paths, Unlink(p) \/ Mknod(p) \/ Utimens(p) \/ Remote(p) PROVE HInv'
  <2>1. UNCHANGED <<pc, call, desc, handle, localFH2LocalFile>>
    BY <1>2 DEF Unlink, Mknod, Utimens, Remote, tables
  <2>2. \A v \in Workers : Settled(v)
    BY <2>1, StaysSettled
  <2> QED
    BY <2>1, <2>2, Frame DEF DescKept, HandlesKept, LFKept
<1>3. ASSUME NEW p \in Paths, NEW q \in Paths, Rename(p, q) PROVE HInv'
  BY <1>3 DEF NoRename
<1> QED
  BY <1>1, <1>2, <1>3 DEF OneCall

LEMMA InitHInv == Init => HInv
<1> SUFFICES ASSUME Init PROVE HInv
  OBVIOUS
<1>1. TInv
  BY InitTInv
<1>2. NoPath /\ OneOwner /\ Entries /\ OwnCopy /\ Dirty
  BY DEF Init, NoPath, OneOwner, Owns, Entries, OwnCopy, Dirty, NoCall, NoHandle,
         OpenedLabels, ReleaseLabels, WriteBackLabels, CopyBackLabels
<1> QED
  BY <1>1, <1>2 DEF HInv

LEMMA NextHInv ==
  ASSUME NoReuse PROVE HInv /\ [Next]_vars /\ NoRename => HInv'
<1> SUFFICES ASSUME HInv, [Next]_vars, NoRename PROVE HInv'
  OBVIOUS
<1>1. TInv'
  BY NextTInv DEF HInv
<1>2. CASE UNCHANGED vars
  <2>1. \A v \in Workers : Settled(v)
    BY <1>2, StaysSettled DEF vars
  <2> QED
    BY <1>1, <1>2, <2>1, Frame DEF vars, tables, users, DescKept, HandlesKept, LFKept
<1>3. ASSUME NEW w \in Workers, Begin(w) PROVE HInv'
  <2>1. ASSUME NEW p \in Paths, OpenBegin(w, p) PROVE HInv'
    BY <1>1, <2>1, OpenFrame
       DEF OpenBegin, tables, OpenedLabels, ReleaseLabels, WriteBackLabels, CopyBackLabels
  <2> QED
    BY <1>1, <1>3, <2>1, WriteHInv, ReleaseCloseHInv DEF Begin
<1>4. ASSUME NEW w \in Workers, Step(w) PROVE HInv'
  BY <1>1, <1>4, OpenStepHInv, SetDirtyFlagHInv, ReleaseStepHInv, CollectorStepHInv DEF Step
<1>5. CASE OneCall
  BY <1>1, <1>5, OneCallHInv
<1>6. CASE Crash
  BY <1>1, <1>6, CrashHInv
<1> QED
  BY <1>2, <1>3, <1>4, <1>5, <1>6 DEF Next, Quiet

LEMMA HandlesRight == HInv => EntryOfHandle
<1> SUFFICES ASSUME HInv, NEW f \in Fds, handle[f].path # None
             PROVE  LET file == localFH2LocalFile[f]
                    IN  /\ file # Dummy
                        /\ file.isCached <=> desc[f].on # "orig"
                        /\ desc[f].on # "unlinked" => file.realFileName = desc[f].name
                        /\ handle[f].unsaved # {} =>
                              file.isDirty \/ \E w \in Workers : pc[w] = "flag" /\ call[w].fd = f
  BY DEF EntryOfHandle
<1>1. EntryFor(f, handle[f].path)
  BY DEF HInv, Entries
<1>2. Dummy.isCached = FALSE /\ Dummy.realFileName = None
  BY DEF Dummy, LocalFile
<1>3. handle[f].unsaved # {} => localFH2LocalFile[f].isDirty
                                \/ \E w \in Workers : pc[w] = "flag" /\ call[w].fd = f
  BY DEF HInv, Dirty
<1>4. localFH2LocalFile[f].isCached \in BOOLEAN
  BY DEF HInv, TInv, TypeOK, LocalFiles
<1> QED
  BY <1>1, <1>2, <1>3, <1>4 DEF EntryFor, OnCopy, OnOriginal, On

(* The LocalFile of every handle the users hold is the one its open made: it names the
   copy or the original that the descriptor is open on, and it is dirty once a write has
   returned.  That holds with any number of workers, whatever the collector unlinks and
   however often the daemon starts again, provided that no descriptor number is given out
   during the release of its handle; the number is all that release knows the entry by. *)
THEOREM EntriesRight ==
  ASSUME NoReuse, "rename" \notin Calls PROVE Spec => []EntryOfHandle
<1>1. HInv /\ [Next]_vars => HInv'
  BY NextHInv DEF NoRename, Rename, Change
<1> QED
  BY <1>1, InitHInv, HandlesRight, PTL DEF Spec

------------------------------------------------------------------------------
(* The data.  SHA-256 gives different paths different names: nobody has seen two of
   the same digest. *)

DistinctNames == \A p, q \in Paths : CacheName[p] = CacheName[q] => p = q

DInv == HInv /\ Borrowed /\ NoForeignData

(* No file gets data it had not. *)
DataKept == /\ \A p \in Paths : orig'[p].data \subseteq orig[p].data
            /\ \A n \in Names : cache'[n].data \subseteq cache[n].data

(* A handler keeps, or loses, what it borrowed. *)
LentKept(w) ==
  \/ call'[w].dest = None /\ call'[w].data = {}
  \/ /\ call'[w].path = call[w].path
     /\ call'[w].dest \in {call[w].dest, None}
     /\ call'[w].data \subseteq call[w].data

LEMMA LentFrame == ASSUME Borrowed, \A w \in Workers : LentKept(w) PROVE Borrowed'
BY DEF Borrowed, LentKept

LEMMA DataFrame == ASSUME NoForeignData, DataKept PROVE NoForeignData'
BY DEF NoForeignData, DataKept

(* One worker goes on, and its locals stay as they are or are as new. *)
LEMMA WorkerLent ==
  ASSUME DInv, NEW w \in Workers,
         UNCHANGED call \/ Return(w) \/ (\E f \in Fds : call' = [call EXCEPT ![w].fd = f])
  PROVE  Borrowed'
<1>0. call \in [Workers -> Locals]
  BY DEF DInv, HInv, TInv, TypeOK
<1>1. ASSUME NEW v \in Workers PROVE LentKept(v)
  BY <1>0 DEF LentKept, Return, NoCall, Locals
<1> QED
  BY <1>1, LentFrame DEF DInv

LEMMA TouchedData ==
  ASSUME StoreOK, NEW n \in Names, NEW p, cache' = Touched(n, p), orig' = orig PROVE DataKept
BY DEF StoreOK, Touched, DataKept, Files

(* Every step keeps the data apart. *)

LEMMA OpenStepData == ASSUME DInv, NEW w \in Workers, OpenStep(w) PROVE Borrowed' /\ NoForeignData'
<1>0. /\ call \in [Workers -> Locals] /\ orig \in [Paths -> Files] /\ cache \in [Names -> Files]
      /\ pc[w] \in OpenLabels => call[w].path \in Paths /\ Ccfn(w) \in Names
      /\ None \notin Names
  BY NoneAssumption, CacheNameAssumption DEF DInv, HInv, TInv, TypeOK, Args, Ccfn
<1>1. CASE /\ \/ OpenCheck(w) \/ OpenLock(w) \/ OpenStat(w) \/ OpenCached(w) \/ OpenDirect(w)
              \/ OpenCreateLF(w) \/ OpenCreateDirectLF(w) \/ OpenAppend(w)
  <2>1. UNCHANGED <<orig, cache>>
    BY <1>1 DEF OpenCheck, OpenLock, OpenStat, OpenCached, OpenDirect, OpenCreateLF,
                OpenCreateDirectLF, OpenAppend, store
  <2>2. UNCHANGED call \/ Return(w) \/ (\E f \in Fds : call' = [call EXCEPT ![w].fd = f])
    BY <1>1 DEF OpenCheck, OpenLock, OpenStat, OpenCached, OpenDirect, OpenCreateLF,
                OpenCreateDirectLF, OpenAppend, Leave, FreeFds
  <2> QED
    BY <2>1, <2>2, WorkerLent, DataFrame DEF DInv, DataKept
<1>2. CASE CopyInTruncate(w)
  <2>1. CASE UNCHANGED <<store, call>>
    BY <2>1, WorkerLent, DataFrame DEF DInv, DataKept, store
  <2>2. ASSUME NEW now, cache' = [cache EXCEPT ![Ccfn(w)] = File({}, now)], orig' = orig,
               call' = [call EXCEPT ![w].dest = Ccfn(w)]
        PROVE  Borrowed' /\ NoForeignData'
    <3>1. Borrowed'
      BY <1>0, <2>2 DEF DInv, Borrowed, Ccfn, Locals
    <3>2. DataKept
      BY <1>0, <2>2 DEF DataKept, File
    <3> QED
      BY <3>1, <3>2, DataFrame DEF DInv
  <2> QED
    BY <1>2, <2>1, <2>2 DEF CopyInTruncate
<1>3. CASE CopyInData(w)
  <2>1. Borrowed'
    <3>1. \A v \in Workers : LentKept(v)
      BY <1>0, <1>3 DEF CopyInData, LentKept, Locals
    <3> QED
      BY <3>1, LentFrame DEF DInv
  <2>2. CASE UNCHANGED store
    BY <2>1, <2>2, DataFrame DEF DInv, DataKept, store
  <2>3. ASSUME NEW d \in {orig[call[w].path].data} \cup {{}}, NEW now,
               cache' = [cache EXCEPT ![Ccfn(w)] = File(@.data \cup d, now)], orig' = orig
        PROVE  NoForeignData'
    <3>1. call[w].path \in Paths /\ Ccfn(w) \in Names
      BY <1>0, <1>3 DEF CopyInData, OpenLabels
    <3>2. \A c \in d : CacheName[c.path] = Ccfn(w)
      BY <2>3, <3>1 DEF DInv, NoForeignData, Ccfn
    <3>3. /\ cache'[Ccfn(w)].data = cache[Ccfn(w)].data \cup d
          /\ \A n \in Names : n # Ccfn(w) => cache'[n] = cache[n]
      BY <1>0, <2>3, <3>1 DEF File
    <3> QED
      BY <2>3, <3>1, <3>2, <3>3 DEF DInv, NoForeignData
  <2> QED
    BY <1>3, <2>1, <2>2, <2>3 DEF CopyInData
<1>4. CASE OpenTouch(w)
  <2>1. StoreOK
    BY Parts DEF DInv, HInv, TInv
  <2>2. DataKept
    BY <1>0, <1>4, <2>1, TouchedData DEF OpenTouch, OpenLabels
  <2> QED
    BY <1>4, <2>2, WorkerLent, DataFrame DEF OpenTouch, DInv
<1> QED
  BY <1>1, <1>2, <1>3, <1>4 DEF OpenStep

LEMMA CollectorStepData ==
  ASSUME DInv, NEW w \in Workers,
         AccessedFile(w) \/ CollectEnd(w) \/ Forget(w) \/ \E n \in Names : Collect(w, n)
  PROVE  Borrowed' /\ NoForeignData'
<1>0. /\ call \in [Workers -> Locals] /\ cache \in [Names -> Files] /\ None \notin Names
  BY NoneAssumption DEF DInv, HInv, TInv, TypeOK
<1>1. CASE AccessedFile(w) \/ CollectEnd(w) \/ Forget(w)
  <2>1. \A v \in Workers : LentKept(v)
    BY <1>0, <1>1 DEF AccessedFile, CollectEnd, Forget, LentKept, Locals
  <2>2. UNCHANGED <<orig, cache>>
    BY <1>1 DEF AccessedFile, CollectEnd, Forget, store
  <2> QED
    BY <2>1, <2>2, LentFrame, DataFrame DEF DInv, DataKept
<1>2. ASSUME NEW n \in Names, Collect(w, n) PROVE Borrowed' /\ NoForeignData'
  <2>1. NoForeignData'
    <3>1. DataKept
      <4>1. cache' = cache \/ cache' = [cache EXCEPT ![n] = Absent]
        BY <1>2 DEF Collect
      <4>2. \A m \in Names : cache'[m].data \subseteq cache[m].data
        BY <1>0, <4>1 DEF Absent
      <4> QED
        BY <1>2, <4>2 DEF Collect, DataKept
    <3> QED
      BY <3>1, DataFrame DEF DInv
  <2>2. ASSUME NEW v \in Workers
        PROVE  \/ LentKept(v)
               \/ /\ call[v].dest = n /\ call'[v].path = call[v].path
                  /\ call'[v].dest = None /\ call'[v].data = cache[n].data
    <3>1. CASE call' = [call EXCEPT ![w].victims = call[w].victims \ {n}]
      BY <1>0, <3>1 DEF LentKept, Locals
    <3>2. CASE call' = [u \in Workers |->
                          IF u = w THEN [call[u] EXCEPT !.victims = @ \ {n}, !.forget = n]
                          ELSE IF call[u].dest = n
                               THEN [call[u] EXCEPT !.dest = None, !.data = cache[n].data]
                               ELSE call[u]]
      BY <1>0, <3>2 DEF LentKept, Locals
    <3> QED
      BY <1>2, <3>1, <3>2 DEF Collect
  <2>3. \A c \in cache[n].data : CacheName[c.path] = n
    BY DEF DInv, NoForeignData
  <2>4. Borrowed'
    BY <1>0, <2>2, <2>3 DEF DInv, Borrowed, LentKept
  <2> QED
    BY <2>1, <2>4
<1> QED
  BY <1>1, <1>2

LEMMA WriteData ==
  ASSUME DInv, NEW w \in Workers, NEW f \in Fds, Write(w, f) PROVE Borrowed' /\ NoForeignData'
<1> DEFINE p == handle[f].path
           chunk == Chunk(p, writes + 1)
           n == desc[f].name
<1>0. /\ orig \in [Paths -> Files] /\ cache \in [Names -> Files]
      /\ p \in Paths /\ CacheName[p] \in Names /\ chunk.path = p
  BY CacheNameAssumption DEF Write, DInv, HInv, TInv, TypeOK, Handles, Chunk
<1>1. /\ desc[f].on = "cache" => n = CacheName[p]
      /\ desc[f].on = "orig" => n = p
  <2>1. EntryFor(f, p)
    BY DEF Write, DInv, HInv, Entries
  <2> QED
    BY <2>1 DEF EntryFor, OnCopy, OnOriginal, On
<1>2. Borrowed'
  BY WorkerLent DEF Write
<1> HIDE DEF p, chunk, n
<1>3. CASE UNCHANGED store
  BY <1>2, <1>3, DataFrame DEF DInv, DataKept, store
<1>4. ASSUME NEW now, desc[f].on = "cache", orig' = orig,
             cache' = [cache EXCEPT ![n] = File(@.data \cup {chunk}, now)]
      PROVE  NoForeignData'
  <2>1. /\ cache'[n].data = cache[n].data \cup {chunk}
        /\ \A m \in Names : m # n => cache'[m] = cache[m]
    BY <1>0, <1>1, <1>4 DEF File
  <2> QED
    BY <1>0, <1>1, <1>4, <2>1 DEF DInv, NoForeignData
<1>5. ASSUME NEW now, desc[f].on = "orig", cache' = cache,
             orig' = [orig EXCEPT ![n] = File(@.data \cup {chunk}, now)]
      PROVE  NoForeignData'
  <2>1. /\ orig'[n].data = orig[n].data \cup {chunk}
        /\ \A q \in Paths : q # n => orig'[q] = orig[q]
    BY <1>0, <1>1, <1>5 DEF File
  <2> QED
    BY <1>0, <1>1, <1>5, <2>1 DEF DInv, NoForeignData
<1> QED
  BY <1>2, <1>3, <1>4, <1>5 DEF Write, p, chunk, n

(* What a write-back fills the original with is data of its own path. *)
OwnDataBack(w) == pc[w] = "rel_data" =>
  \A c \in (IF call[w].dest = None THEN call[w].data ELSE cache[Real(w)].data) : c.path = call[w].path

LEMMA DistinctOwnData ==
  ASSUME DInv, DistinctNames, NEW w \in Workers PROVE OwnDataBack(w)
<1> SUFFICES ASSUME pc[w] = "rel_data",
                    NEW c \in (IF call[w].dest = None THEN call[w].data ELSE cache[Real(w)].data)
             PROVE  c.path = call[w].path
  BY DEF OwnDataBack
<1>1. call[w].path \in Paths /\ Real(w) \in Names /\ Real(w) = CacheName[call[w].path]
  BY DEF DInv, HInv, OwnCopy, TInv, Args, ReleaseLabels, WriteBackLabels, CopyBackLabels
<1>2. call[w].data \subseteq Chunks /\ cache[Real(w)].data \subseteq Chunks
  BY <1>1 DEF DInv, HInv, TInv, TypeOK, Locals, Files
<1>3. c.path \in Paths
  BY <1>2 DEF Chunks
<1>4. CacheName[c.path] = CacheName[call[w].path]
  BY <1>1 DEF DInv, Borrowed, NoForeignData
<1> QED
  BY <1>1, <1>3, <1>4 DEF DistinctNames

LEMMA ReleaseStepData ==
  ASSUME DInv, NEW w \in Workers, OwnDataBack(w), ReleaseStep(w) PROVE Borrowed' /\ NoForeignData'
<1>0. /\ call \in [Workers -> Locals] /\ orig \in [Paths -> Files] /\ cache \in [Names -> Files]
      /\ pc[w] \in ReleaseLabels => call[w].path \in Paths
      /\ pc[w] \in WriteBackLabels => Real(w) \in Names /\ Real(w) = CacheName[call[w].path]
      /\ None \notin Names
  BY NoneAssumption DEF DInv, HInv, OwnCopy, TInv, TypeOK, Args
<1>1. CASE ReleaseGetLF(w) \/ ReleaseLock(w) \/ ReleaseUnlock(w) \/ ReleaseRemoveLF(w)
  <2>1. \A v \in Workers : LentKept(v)
    BY <1>0, <1>1 DEF ReleaseGetLF, ReleaseLock, ReleaseUnlock, ReleaseRemoveLF, Return, LentKept,
                      Locals, NoCall
  <2>2. UNCHANGED <<orig, cache>>
    BY <1>1 DEF ReleaseGetLF, ReleaseLock, ReleaseUnlock, ReleaseRemoveLF, store
  <2> QED
    BY <2>1, <2>2, LentFrame, DataFrame DEF DInv, DataKept
<1>2. CASE CopyBackTruncate(w)
  <2>1. CASE UNCHANGED <<store, call>>
    BY <2>1, WorkerLent, DataFrame DEF DInv, DataKept, store
  <2>2. ASSUME NEW now, orig' = [orig EXCEPT ![call[w].path] = File({}, now)], cache' = cache,
               call' = [call EXCEPT ![w].dest = Real(w)]
        PROVE  Borrowed' /\ NoForeignData'
    <3>0. Real(w) = CacheName[call[w].path]
      BY <1>0, <1>2 DEF CopyBackTruncate, WriteBackLabels, CopyBackLabels
    <3>1. Borrowed'
      BY <1>0, <2>2, <3>0 DEF DInv, Borrowed, Locals
    <3>2. DataKept
      BY <1>0, <2>2 DEF DataKept, File
    <3> QED
      BY <3>1, <3>2, DataFrame DEF DInv
  <2> QED
    BY <1>2, <2>1, <2>2 DEF CopyBackTruncate
<1>3. CASE CopyBackData(w)
  <2>0. /\ call[w].path \in Paths /\ Real(w) \in Names /\ Real(w) = CacheName[call[w].path]
    BY <1>0, <1>3 DEF CopyBackData, ReleaseLabels, WriteBackLabels, CopyBackLabels
  <2>1. PICK d \in {IF call[w].dest = None THEN call[w].data ELSE cache[Real(w)].data} \cup {{}}, now \in Now :
          /\ orig' = [orig EXCEPT ![call[w].path] = File(d, now)]
          /\ call' = [v \in Workers |->
                        IF v = w THEN [call[v] EXCEPT !.unsaved = @ \ d, !.dest = None, !.data = {}]
                        ELSE [call[v] EXCEPT !.unsaved = @ \ d]]
    BY <1>3 DEF CopyBackData
  <2>2. \A c \in d : c.path = call[w].path
    BY <1>3, <2>1 DEF OwnDataBack, CopyBackData
  <2>3. /\ orig'[call[w].path].data = d
        /\ \A q \in Paths : q # call[w].path => orig'[q] = orig[q]
    BY <1>0, <2>0, <2>1 DEF File
  <2>4. NoForeignData'
    BY <1>3, <2>0, <2>2, <2>3 DEF DInv, NoForeignData, CopyBackData
  <2>5. \A v \in Workers : LentKept(v)
    BY <1>0, <2>1 DEF LentKept, Locals
  <2> QED
    BY <2>4, <2>5, LentFrame DEF DInv
<1>4. CASE ReleaseTouch(w)
  <2>1. StoreOK
    BY Parts DEF DInv, HInv, TInv
  <2>2. DataKept
    BY <1>0, <1>4, <2>1, TouchedData DEF ReleaseTouch, WriteBackLabels, CopyBackLabels
  <2> QED
    BY <1>4, <2>2, WorkerLent, DataFrame DEF ReleaseTouch, DInv
<1> QED
  BY <1>1, <1>2, <1>3, <1>4 DEF ReleaseStep

LEMMA OneCallData ==
  ASSUME DInv, OneCall, "rename" \notin Calls PROVE Borrowed' /\ NoForeignData'
<1>0. call \in [Workers -> Locals] /\ orig \in [Paths -> Files]
  BY DEF DInv, HInv, TInv, TypeOK
<1>1. Borrowed'
  <2>1. UNCHANGED call \/ \E p : call' = [w \in Workers |->
             IF call[w].path = p THEN [call[w] EXCEPT !.unsaved = {}] ELSE call[w]]
    BY DEF OneCall, Truncate, Unlink, Mknod, Utimens, Remote, Rename
  <2>2. \A v \in Workers : LentKept(v)
    BY <1>0, <2>1 DEF LentKept, Locals
  <2> QED
    BY <2>2, LentFrame DEF DInv
<1>2. ASSUME NEW p \in Paths, Truncate(p) \/ Unlink(p) \/ Mknod(p) \/ Utimens(p)
      PROVE  NoForeignData'
  <2>1. DataKept
    BY <1>0, <1>2 DEF Truncate, Unlink, Mknod, Utimens, SetOrig, DataKept, File, Files, Absent
  <2> QED
    BY <2>1, DataFrame DEF DInv
<1>3. ASSUME NEW p \in Paths, Remote(p) PROVE NoForeignData'
  <2>1. PICK now : /\ orig' = [orig EXCEPT ![p] = File({Chunk(p, writes + 1)}, now)]
                   /\ cache' = cache
    BY <1>3 DEF Remote, SetOrig
  <2>2. /\ orig'[p].data = {Chunk(p, writes + 1)}
        /\ \A q \in Paths : q # p => orig'[q] = orig[q]
    BY <1>0, <2>1 DEF File
  <2>3. Chunk(p, writes + 1).path = p
    BY DEF Chunk
  <2> QED
    BY <2>1, <2>2, <2>3 DEF DInv, NoForeignData
<1>4. ASSUME NEW p \in Paths, NEW q \in Paths, Rename(p, q) PROVE NoForeignData'
  BY <1>4 DEF Rename, Change
<1> QED
  BY <1>1, <1>2, <1>3, <1>4 DEF OneCall

LEMMA InitDInv == Init => DInv
<1> SUFFICES ASSUME Init PROVE DInv
  OBVIOUS
<1>1. HInv
  BY InitHInv
<1>2. Borrowed /\ NoForeignData
  BY DEF Init, Borrowed, NoForeignData, NoCall, File, Chunk, Absent
<1> QED
  BY <1>1, <1>2 DEF DInv

LEMMA StepDInv ==
  ASSUME NoReuse, "rename" \notin Calls, DInv, \A w \in Workers : OwnDataBack(w), [Next]_vars
  PROVE  DInv'
<1> SUFFICES Borrowed' /\ NoForeignData'
  BY NextHInv DEF DInv, NoRename, Rename, Change
<1>0. call \in [Workers -> Locals]
  BY DEF DInv, HInv, TInv, TypeOK
<1>1. CASE UNCHANGED vars
  <2>1. \A v \in Workers : LentKept(v)
    BY <1>1 DEF LentKept, vars
  <2> QED
    BY <1>1, <2>1, LentFrame, DataFrame DEF DInv, DataKept, vars, store
<1>2. ASSUME NEW w \in Workers, Begin(w) PROVE Borrowed' /\ NoForeignData'
  <2>1. ASSUME NEW p \in Paths, OpenBegin(w, p) PROVE Borrowed' /\ NoForeignData'
    <3>1. \A v \in Workers : LentKept(v)
      BY <1>0, <2>1 DEF OpenBegin, LentKept, DInv, HInv, NoPath, Locals
    <3> QED
      BY <2>1, <3>1, LentFrame, DataFrame DEF OpenBegin, DInv, DataKept, store
  <2>2. ASSUME NEW f \in Fds, ReleaseClose(w, f) PROVE Borrowed' /\ NoForeignData'
    <3>1. \A v \in Workers : LentKept(v)
      BY <1>0, <2>2 DEF ReleaseClose, LentKept, DInv, HInv, NoPath, Locals
    <3> QED
      BY <2>2, <3>1, LentFrame, DataFrame DEF ReleaseClose, DInv, DataKept, store
  <2> QED
    BY <1>2, <2>1, <2>2, WriteData DEF Begin
<1>3. ASSUME NEW w \in Workers, Step(w) PROVE Borrowed' /\ NoForeignData'
  <2>1. CASE SetDirtyFlag(w)
    BY <2>1, WorkerLent, DataFrame DEF SetDirtyFlag, DInv, DataKept, store
  <2> QED
    BY <1>3, <2>1, OpenStepData, ReleaseStepData, CollectorStepData DEF Step
<1>4. CASE OneCall
  BY <1>4, OneCallData
<1>5. CASE Crash
  <2>1. \A v \in Workers : LentKept(v)
    BY <1>5 DEF Crash, LentKept, NoCall
  <2> QED
    BY <1>5, <2>1, LentFrame, DataFrame DEF Crash, DInv, DataKept, store
<1> QED
  BY <1>1, <1>2, <1>3, <1>4, <1>5 DEF Next, Quiet

LEMMA NextDInv ==
  ASSUME NoReuse, "rename" \notin Calls, DistinctNames PROVE DInv /\ [Next]_vars => DInv'
BY StepDInv, DistinctOwnData

(* Neither an original nor a copy ever holds data of another path: a write-back lands in
   the file the user wrote to, and the copy a path is served from is its own, with opens,
   writes, releases, the collector, other hosts and crashes in any order. *)
THEOREM DataApart ==
  ASSUME NoReuse, "rename" \notin Calls, DistinctNames PROVE Spec => []NoForeignData
<1>1. DInv /\ [Next]_vars => DInv'
  BY NextDInv
<1> QED
  BY <1>1, InitDInv, PTL DEF Spec, DInv

------------------------------------------------------------------------------
(* Names that collide.  The index of the copies tells which path a name is in use for,
   and the other paths go to their originals directly: that keeps the data apart when two
   paths do have the same digest, as long as one worker opens at a time, no copy is
   collected and no open gives up a copy it has filled. *)

(* An open that has its copy finds a descriptor for it. *)
DescriptorsLast == \A w \in Workers : pc[w] = "open" => FreeFds # {}

(* The calls that leave copies and index as they are. *)
IndexSafe == {"truncate", "unlink", "mknod", "utimens", "remote", "nospace"}

(* An open that may have put data of its path into the copy. *)
FillLabels == {"data", "accessed", "touch", "open", "create", "append"}

NamedLabels == {"check", "lock", "stat", "copy"} \cup FillLabels

(* The index gives the name to path p. *)
OwnsName(p) == localCacheFileName2originalFullPathName[CacheName[p]] = p

(* The index tells whose data a copy holds, or the open at work on the copy does. *)
KnownData == \A n \in Names : \A c \in cache[n].data :
  \/ localCacheFileName2originalFullPathName[n] = c.path
  \/ \E w \in Workers : pc[w] \in FillLabels /\ call[w].path = c.path

NameFree == \A w \in Workers : pc[w] \in NamedLabels => CanUse(call[w].path)

HandlesNamed == \A f \in Fds :
  handle[f].path # None /\ localFH2LocalFile[f].isCached => OwnsName(handle[f].path)

ReleasesNamed == \A w \in Workers :
  /\ pc[w] = "rel_get" /\ localFH2LocalFile[call[w].fd].isCached => OwnsName(call[w].path)
  /\ pc[w] \in WriteBackLabels => OwnsName(call[w].path)

Uncollected == \A w \in Workers :
  /\ pc[w] \notin CollectLabels /\ call[w].forget = None /\ call[w].data = {}
  /\ pc[w] = "rel_data" => call[w].dest # None

IndexInv == KnownData /\ NameFree /\ HandlesNamed /\ ReleasesNamed /\ Uncollected

KInv == DInv /\ IndexInv

IndexKept ==
  localCacheFileName2originalFullPathName' = localCacheFileName2originalFullPathName

(* No handle turns into one on a copy. *)
CopiesGoOn == \A f \in Fds : handle'[f].path # None /\ localFH2LocalFile'[f].isCached =>
  handle'[f].path = handle[f].path /\ localFH2LocalFile[f].isCached

(* A worker stays where the index says of its path what it said before. *)
StaysNamed(w) ==
  \/ pc'[w] \notin {"rel_get"} \cup NamedLabels \cup WriteBackLabels
  \/ /\ call'[w].path = call[w].path
     /\ \/ pc[w] \in NamedLabels /\ pc'[w] \in NamedLabels
        \/ pc[w] \in WriteBackLabels /\ pc'[w] \in WriteBackLabels
        \/ /\ pc'[w] = pc[w] /\ call'[w].fd = call[w].fd
           /\ UNCHANGED localFH2LocalFile

LEMMA IndexFrame ==
  ASSUME IndexInv, IndexKept, CopiesGoOn, \A w \in Workers : StaysNamed(w), KnownData', Uncollected'
  PROVE  IndexInv'
<1>0. /\ "rel_get" \notin NamedLabels \cup WriteBackLabels
      /\ \A l : l \notin NamedLabels \/ l \notin WriteBackLabels
  BY DEF NamedLabels, FillLabels, WriteBackLabels, CopyBackLabels
<1>1. NameFree'
  <2>1. ASSUME NEW w \in Workers, pc'[w] \in NamedLabels
        PROVE  pc[w] \in NamedLabels /\ call'[w].path = call[w].path
    <3>1. StaysNamed(w)
      OBVIOUS
    <3> QED
      BY <1>0, <2>1, <3>1 DEF StaysNamed
  <2> QED
    BY <2>1 DEF IndexInv, NameFree, CanUse, IndexKept
<1>2. HandlesNamed'
  BY DEF IndexInv, HandlesNamed, OwnsName, CopiesGoOn, IndexKept
<1>3. ReleasesNamed'
  <2>1. ASSUME NEW w \in Workers, pc'[w] = "rel_get"
        PROVE  /\ pc[w] = "rel_get" /\ call'[w].path = call[w].path
               /\ call'[w].fd = call[w].fd /\ UNCHANGED localFH2LocalFile
    <3>1. StaysNamed(w)
      OBVIOUS
    <3> QED
      BY <1>0, <2>1, <3>1 DEF StaysNamed
  <2>2. ASSUME NEW w \in Workers, pc'[w] \in WriteBackLabels
        PROVE  pc[w] \in WriteBackLabels /\ call'[w].path = call[w].path
    <3>1. StaysNamed(w)
      OBVIOUS
    <3> QED
      BY <1>0, <2>2, <3>1 DEF StaysNamed
  <2>3. ASSUME NEW w \in Workers, pc'[w] = "rel_get", localFH2LocalFile'[call'[w].fd].isCached
        PROVE  localCacheFileName2originalFullPathName'[CacheName[call'[w].path]] = call'[w].path
    BY <2>1, <2>3 DEF IndexInv, ReleasesNamed, OwnsName, IndexKept
  <2>4. ASSUME NEW w \in Workers, pc'[w] \in WriteBackLabels
        PROVE  localCacheFileName2originalFullPathName'[CacheName[call'[w].path]] = call'[w].path
    BY <2>2, <2>4 DEF IndexInv, ReleasesNamed, OwnsName, IndexKept
  <2> QED
    BY <2>3, <2>4 DEF ReleasesNamed, OwnsName, WriteBackLabels, CopyBackLabels
<1> QED
  BY <1>1, <1>2, <1>3 DEF IndexInv

(* No data comes into a copy, and no open leaves one it fills. *)
LEMMA KnownKept ==
  ASSUME KnownData, IndexKept, DataKept,
         \A w \in Workers : pc[w] \in FillLabels => pc'[w] \in FillLabels /\ call'[w].path = call[w].path
  PROVE  KnownData'
<1>1. ASSUME NEW n \in Names, NEW c \in cache'[n].data
      PROVE  \/ localCacheFileName2originalFullPathName'[n] = c.path
             \/ \E w \in Workers : pc'[w] \in FillLabels /\ call'[w].path = c.path
  <2>1. c \in cache[n].data
    BY <1>1 DEF DataKept
  <2>2. CASE localCacheFileName2originalFullPathName[n] = c.path
    BY <2>2 DEF IndexKept
  <2>3. ASSUME NEW w \in Workers, pc[w] \in FillLabels, call[w].path = c.path
        PROVE  pc'[w] \in FillLabels /\ call'[w].path = c.path
    BY <2>3
  <2> QED
    BY <2>1, <2>2, <2>3 DEF KnownData
<1> QED
  BY <1>1 DEF KnownData, FillLabels

(* What a worker that does not copy in has found in the copies is in the index. *)
LEMMA IndexedData ==
  ASSUME OneWorker, IndexInv, NEW w \in Workers, pc[w] \notin FillLabels,
         NEW n \in Names, NEW c \in cache[n].data
  PROVE  localCacheFileName2originalFullPathName[n] = c.path
BY DEF IndexInv, KnownData, OneWorker

(* A write-back of one worker: the copy it reads is the one the index gives its path. *)
LEMMA IndexedOwnData ==
  ASSUME OneWorker, KInv, NEW w \in Workers PROVE OwnDataBack(w)
<1> SUFFICES ASSUME pc[w] = "rel_data",
                    NEW c \in (IF call[w].dest = None THEN call[w].data ELSE cache[Real(w)].data)
             PROVE  c.path = call[w].path
  BY DEF OwnDataBack
<1>1. Real(w) \in Names /\ Real(w) = CacheName[call[w].path]
  BY DEF KInv, DInv, HInv, OwnCopy, TInv, Args, WriteBackLabels, CopyBackLabels
<1>2. c \in cache[Real(w)].data
  BY DEF KInv, IndexInv, Uncollected
<1>3. localCacheFileName2originalFullPathName[Real(w)] = c.path
  BY <1>1, <1>2, IndexedData DEF KInv, FillLabels
<1>4. OwnsName(call[w].path)
  BY DEF KInv, IndexInv, ReleasesNamed, WriteBackLabels, CopyBackLabels
<1> QED
  BY <1>1, <1>3, <1>4 DEF OwnsName

(* The steps. *)

LEMMA OpenBeginIndex ==
  ASSUME OneWorker, KInv, NEW w \in Workers, NEW p \in Paths, OpenBegin(w, p) PROVE IndexInv'
<1>0. /\ call \in [Workers -> Locals] /\ pc \in [Workers -> Labels]
      /\ \A v \in Workers : v = w
  BY DEF KInv, DInv, HInv, TInv, TypeOK, OneWorker
<1>1. /\ IndexKept /\ UNCHANGED <<cache, orig, handle, localFH2LocalFile>>
      /\ pc[w] = "idle" /\ pc'[w] \in {"check", "check_direct"}
      /\ pc'[w] = "check" => CanUse(p)
      /\ call'[w] = [call[w] EXCEPT !.path = p]
  BY <1>0 DEF OpenBegin, Goto, IndexKept, tables, store
<1>2. KnownData'
  <2>1. KnownData /\ DataKept
    BY <1>1 DEF KInv, IndexInv, DataKept
  <2>2. pc[w] \notin FillLabels
    BY <1>1 DEF FillLabels
  <2> QED
    BY <1>0, <1>1, <2>1, <2>2, KnownKept
<1>3. NameFree'
  <2>1. call'[w].path = p
    BY <1>0, <1>1 DEF Locals
  <2>2. pc'[w] \in NamedLabels => CanUse(p)
    BY <1>1 DEF NamedLabels, FillLabels
  <2>3. IndexKept
    BY <1>1
  <2> QED
    BY <1>0, <2>1, <2>2, <2>3 DEF NameFree, CanUse, IndexKept
<1>4. HandlesNamed'
  BY <1>1 DEF KInv, IndexInv, HandlesNamed, OwnsName, IndexKept
<1>5. ReleasesNamed' /\ Uncollected'
  BY <1>0, <1>1 DEF KInv, IndexInv, ReleasesNamed, Uncollected, Locals, CollectLabels, WriteBackLabels,
                    CopyBackLabels
<1> QED
  BY <1>2, <1>3, <1>4, <1>5 DEF IndexInv

(* An open that goes on and does not touch the copy. *)
LEMMA OpenMoveIndex ==
  ASSUME OneWorker, KInv, NEW w \in Workers,
         OpenCheck(w) \/ OpenLock(w) \/ OpenStat(w) \/ OpenDirect(w)
  PROVE  IndexInv'
<1>0. /\ call \in [Workers -> Locals] /\ pc \in [Workers -> Labels]
      /\ \A v \in Workers : v = w
  BY DEF KInv, DInv, HInv, TInv, TypeOK, OneWorker
<1>1. IndexKept /\ UNCHANGED <<cache, orig, handle, localFH2LocalFile>>
  BY DEF OpenCheck, OpenLock, OpenStat, OpenDirect, IndexKept, tables, store, users
<1>2. /\ pc[w] \in {"check", "check_direct", "lock", "stat", "direct"}
      /\ \/ pc'[w] \in {"idle", "direct", "create_direct"}
         \/ /\ pc[w] \in {"check", "lock", "stat"} /\ pc'[w] \in {"lock", "stat", "copy", "open"}
            /\ call'[w].path = call[w].path
      /\ \/ call'[w] = NoCall
         \/ call'[w].forget = call[w].forget /\ call'[w].data = call[w].data
  <2>1. CASE OpenCheck(w)
    <3>1. /\ pc[w] \in {"check", "check_direct"}
          /\ \/ pc'[w] = (IF pc[w] = "check" THEN "lock" ELSE "direct") /\ call' = call
             \/ pc'[w] = "idle" /\ call'[w] = NoCall
      BY <1>0, <2>1 DEF OpenCheck, Goto, Return
    <3> QED
      BY <3>1
  <2>2. CASE OpenLock(w) \/ OpenStat(w)
    BY <1>0, <2>2 DEF OpenLock, OpenStat, Goto
  <2>3. CASE OpenDirect(w)
    <3>1. CASE Leave(w)
      BY <1>0, <2>3, <3>1 DEF OpenDirect, Goto, Return, Leave
    <3>2. ASSUME NEW f, call' = [call EXCEPT ![w].fd = f], Goto(w, "create_direct")
          PROVE  /\ pc'[w] = "create_direct"
                 /\ call'[w].forget = call[w].forget /\ call'[w].data = call[w].data
      BY <1>0, <3>2 DEF Goto, Locals
    <3> QED
      BY <2>3, <3>1, <3>2 DEF OpenDirect
  <2> QED
    BY <2>1, <2>2, <2>3
<1>3. pc[w] \notin FillLabels /\ StaysNamed(w)
  BY <1>2 DEF StaysNamed, NamedLabels, FillLabels, WriteBackLabels, CopyBackLabels
<1>4. KnownData'
  BY <1>0, <1>1, <1>3, KnownKept DEF KInv, IndexInv, DataKept
<1>5. Uncollected'
  BY <1>0, <1>2 DEF KInv, IndexInv, Uncollected, CollectLabels, NoCall
<1>6. CopiesGoOn
  BY <1>1 DEF CopiesGoOn
<1> QED
  BY <1>0, <1>1, <1>3, <1>4, <1>5, <1>6, IndexFrame DEF KInv

(* The copy is emptied, filled and given the mtime of the original. *)
LEMMA CopyInIndex ==
  ASSUME OneWorker, KInv, NEW w \in Workers, CopyInTruncate(w) \/ CopyInData(w) \/ OpenTouch(w)
  PROVE  IndexInv'
<1>0. /\ call \in [Workers -> Locals] /\ pc \in [Workers -> Labels]
      /\ cache \in [Names -> Files] /\ orig \in [Paths -> Files]
      /\ \A v \in Workers : v = w
  BY DEF KInv, DInv, HInv, TInv, TypeOK, OneWorker
<1>1. IndexKept /\ UNCHANGED <<handle, localFH2LocalFile>>
  BY DEF CopyInTruncate, CopyInData, OpenTouch, IndexKept, tables, users
<1>2. /\ pc[w] \in {"copy", "data", "touch"} /\ pc[w] \in NamedLabels
      /\ pc'[w] \in {"direct"} \cup FillLabels
      /\ pc[w] # "copy" => pc'[w] \in FillLabels
      /\ call'[w].path = call[w].path /\ call'[w].forget = call[w].forget
      /\ call'[w].data = call[w].data
  BY <1>0 DEF CopyInTruncate, CopyInData, OpenTouch, Goto, NamedLabels, FillLabels, Locals
<1>3. /\ call[w].path \in Paths /\ Ccfn(w) \in Names /\ Ccfn(w) = CacheName[call[w].path]
  BY <1>2, CacheNameAssumption DEF KInv, DInv, HInv, TInv, Args, OpenLabels, Ccfn
<1>4. KnownData'
  <2>1. CASE DataKept
    <3>1. \A v \in Workers : pc[v] \in FillLabels => pc'[v] \in FillLabels /\ call'[v].path = call[v].path
      BY <1>0, <1>2 DEF FillLabels
    <3> QED
      BY <1>1, <2>1, <3>1, KnownKept DEF KInv, IndexInv
  <2>2. CASE CopyInTruncate(w)
    <3>1. CASE UNCHANGED store
      BY <2>1, <3>1 DEF DataKept, store
    <3>2. ASSUME NEW now, cache' = [cache EXCEPT ![Ccfn(w)] = File({}, now)], orig' = orig
          PROVE  KnownData'
      <4>1. DataKept
        BY <1>0, <3>2 DEF DataKept, File
      <4> QED
        BY <2>1, <4>1
    <3> QED
      BY <2>2, <3>1, <3>2 DEF CopyInTruncate
  <2>3. CASE CopyInData(w)
    <3>1. CASE UNCHANGED store
      BY <2>1, <3>1 DEF DataKept, store
    <3>2. ASSUME NEW d \in {orig[call[w].path].data} \cup {{}}, NEW now,
                 cache' = [cache EXCEPT ![Ccfn(w)] = File(@.data \cup d, now)]
          PROVE  KnownData'
      <4>1. /\ cache'[Ccfn(w)].data = cache[Ccfn(w)].data \cup d
            /\ \A n \in Names : n # Ccfn(w) => cache'[n] = cache[n]
        BY <1>0, <1>3, <3>2 DEF File
      <4>2. \A c \in d : c.path = call[w].path
        BY <1>3, <3>2 DEF KInv, DInv, NoForeignData
      <4>3. pc[w] = "data" /\ pc'[w] \in FillLabels
        BY <1>2, <2>3 DEF CopyInData
      <4>4. ASSUME NEW n \in Names, NEW c \in cache'[n].data
            PROVE  \/ localCacheFileName2originalFullPathName'[n] = c.path
                   \/ \E v \in Workers : pc'[v] \in FillLabels /\ call'[v].path = c.path
        <5>1. CASE c \in cache[n].data
          <6>1. CASE localCacheFileName2originalFullPathName[n] = c.path
            BY <1>1, <6>1 DEF IndexKept
          <6>2. CASE \E v \in Workers : pc[v] \in FillLabels /\ call[v].path = c.path
            BY <1>0, <1>2, <4>3, <6>2
          <6> QED
            BY <5>1, <6>1, <6>2 DEF KInv, IndexInv, KnownData
        <5>2. CASE c \in d
          BY <1>2, <4>2, <4>3, <5>2
        <5> QED
          BY <4>1, <4>4, <5>1, <5>2
      <4> QED
        BY <4>4 DEF KnownData, FillLabels
    <3> QED
      BY <2>3, <3>1, <3>2 DEF CopyInData
  <2>4. CASE OpenTouch(w)
    <3>1. StoreOK
      BY Parts DEF KInv, DInv, HInv, TInv
    <3>2. DataKept
      BY <1>3, <2>4, <3>1, TouchedData DEF OpenTouch
    <3> QED
      BY <2>1, <3>2
  <2> QED
    BY <2>2, <2>3, <2>4
<1>5. StaysNamed(w)
  BY <1>2 DEF StaysNamed, NamedLabels, FillLabels, WriteBackLabels, CopyBackLabels
<1>6. Uncollected'
  BY <1>0, <1>2 DEF KInv, IndexInv, Uncollected, CollectLabels, FillLabels
<1>7. CopiesGoOn
  BY <1>1 DEF CopiesGoOn
<1> QED
  BY <1>0, <1>1, <1>4, <1>5, <1>6, <1>7, IndexFrame DEF KInv

(* An open that gives up its copy has none: the data of other copies is not of its path. *)
LEMMA OpenCachedIndex ==
  ASSUME OneWorker, KInv, DescriptorsLast, NEW w \in Workers, OpenCached(w) PROVE IndexInv'
<1>0. /\ call \in [Workers -> Locals] /\ pc \in [Workers -> Labels]
      /\ \A v \in Workers : v = w
  BY DEF KInv, DInv, HInv, TInv, TypeOK, OneWorker
<1>1. IndexKept /\ UNCHANGED <<cache, orig, handle, localFH2LocalFile>> /\ pc[w] = "open"
  BY DEF OpenCached, IndexKept, tables, store, users
<1>2. CASE ~Exists(cache[Ccfn(w)]) /\ Leave(w)
  <2>1. pc'[w] = "idle" /\ call'[w] = NoCall
    BY <1>0, <1>2 DEF Leave, Return, Goto
  <2>2. \A n \in Names : \A c \in cache[n].data : localCacheFileName2originalFullPathName[n] = c.path
    <3>1. SUFFICES ASSUME NEW n \in Names, NEW c \in cache[n].data, call[w].path = c.path PROVE FALSE
      BY <1>0 DEF KInv, IndexInv, KnownData
    <3>2. CacheName[c.path] = n
      BY DEF KInv, DInv, NoForeignData
    <3>3. cache[Ccfn(w)].data = {}
      BY <1>2 DEF Exists, Absent
    <3> QED
      BY <3>1, <3>2, <3>3 DEF Ccfn
  <2>3. KnownData'
    BY <1>1, <2>2 DEF KnownData, IndexKept
  <2>4. Uncollected'
    BY <1>0, <2>1 DEF Uncollected, CollectLabels, NoCall
  <2>5. StaysNamed(w) /\ CopiesGoOn
    BY <1>1, <2>1 DEF StaysNamed, CopiesGoOn, NamedLabels, FillLabels, WriteBackLabels, CopyBackLabels
  <2> QED
    BY <1>0, <1>1, <2>3, <2>4, <2>5, IndexFrame DEF KInv
<1>3. ASSUME Goto(w, "create"), NEW f, call' = [call EXCEPT ![w].fd = f] PROVE IndexInv'
  <2>1. /\ pc'[w] = "create" /\ call'[w].path = call[w].path
        /\ call'[w].forget = call[w].forget /\ call'[w].data = call[w].data
    BY <1>0, <1>3 DEF Goto, Locals
  <2>2. pc[w] \in NamedLabels /\ pc'[w] \in NamedLabels /\ pc'[w] \in FillLabels
    BY <1>1, <2>1 DEF NamedLabels, FillLabels
  <2>3. KnownData'
    BY <1>0, <1>1, <2>1, <2>2, KnownKept DEF KInv, IndexInv, DataKept
  <2>4. Uncollected'
    BY <1>0, <2>1 DEF KInv, IndexInv, Uncollected, CollectLabels
  <2>5. StaysNamed(w) /\ CopiesGoOn
    BY <1>1, <2>1, <2>2 DEF StaysNamed, CopiesGoOn
  <2> QED
    BY <1>0, <1>1, <2>3, <2>4, <2>5, IndexFrame DEF KInv
<1> QED
  BY <1>1, <1>2, <1>3 DEF OpenCached, DescriptorsLast

(* The entries of the table of handles. *)
LEMMA OpenCreateIndex ==
  ASSUME OneWorker, KInv, NEW w \in Workers, OpenCreateLF(w) \/ OpenCreateDirectLF(w)
  PROVE  IndexInv'
<1> DEFINE f == call[w].fd
<1>0. /\ call \in [Workers -> Locals] /\ pc \in [Workers -> Labels]
      /\ localFH2LocalFile \in [Fds -> LocalFiles] /\ handle \in [Fds -> Handles]
      /\ \A v \in Workers : v = w
  BY DEF KInv, DInv, HInv, TInv, TypeOK, OneWorker
<1>1. /\ IndexKept /\ UNCHANGED <<cache, orig>>
      /\ pc[w] \in {"create", "create_direct"} /\ pc[w] \in OpenedLabels
  BY DEF OpenCreateLF, OpenCreateDirectLF, IndexKept, store, OpenedLabels
<1>2. f \in Fds /\ handle[f].path = None
  BY <1>1 DEF KInv, DInv, HInv, TInv, Args, OneOwner, Owns, OpenedLabels, DescriptorLabels
<1>3. CASE OpenCreateLF(w)
  <2>1. /\ pc[w] = "create" /\ pc'[w] = "append" /\ call' = call /\ handle' = handle
        /\ \A g \in Fds : g # f => localFH2LocalFile'[g] = localFH2LocalFile[g]
    BY <1>0, <1>3 DEF OpenCreateLF, CreateLF, Goto, users
  <2>2. pc[w] \in NamedLabels /\ pc'[w] \in NamedLabels /\ pc'[w] \in FillLabels
    BY <2>1 DEF NamedLabels, FillLabels
  <2>3. CopiesGoOn
    BY <1>2, <2>1 DEF CopiesGoOn
  <2>4. KnownData'
    BY <1>0, <1>1, <2>1, <2>2, KnownKept DEF KInv, IndexInv, DataKept
  <2>5. Uncollected'
    BY <1>0, <2>1 DEF KInv, IndexInv, Uncollected, CollectLabels
  <2>6. StaysNamed(w)
    BY <2>1, <2>2 DEF StaysNamed
  <2> QED
    BY <1>0, <1>1, <2>3, <2>4, <2>5, <2>6, IndexFrame DEF KInv
<1>4. CASE OpenCreateDirectLF(w)
  <2>1. /\ pc[w] = "create_direct" /\ pc'[w] = "idle" /\ call'[w] = NoCall
        /\ \A g \in Fds : g # f => /\ localFH2LocalFile'[g] = localFH2LocalFile[g]
                                   /\ handle'[g] = handle[g]
        /\ localFH2LocalFile'[f] = LocalFile(call[w].path, Ccfn(w), FALSE)
    BY <1>0, <1>2, <1>4 DEF OpenCreateDirectLF, CreateLF, GiveHandle, Leave, Return, Goto
  <2>2. pc[w] \notin FillLabels
    BY <2>1 DEF FillLabels
  <2>3. CopiesGoOn
    BY <2>1 DEF CopiesGoOn, LocalFile
  <2>4. KnownData'
    BY <1>0, <1>1, <2>2, KnownKept DEF KInv, IndexInv, DataKept
  <2>5. Uncollected'
    BY <1>0, <2>1 DEF Uncollected, CollectLabels, NoCall
  <2>6. StaysNamed(w)
    BY <2>1 DEF StaysNamed, NamedLabels, FillLabels, WriteBackLabels, CopyBackLabels
  <2> QED
    BY <1>0, <1>1, <2>3, <2>4, <2>5, <2>6, IndexFrame DEF KInv
<1> QED
  BY <1>3, <1>4

(* The copy goes into the index.  Its name was nobody else's: what it holds is data of the
   path, and so is every handle on it. *)
LEMMA OpenAppendIndex ==
  ASSUME OneWorker, KInv, NEW w \in Workers, OpenAppend(w) PROVE IndexInv'
<1> DEFINE p == call[w].path
           f == call[w].fd
           index == localCacheFileName2originalFullPathName
<1>0. /\ call \in [Workers -> Locals] /\ pc \in [Workers -> Labels]
      /\ handle \in [Fds -> Handles] /\ index \in [Names -> Paths \cup {None}]
      /\ \A v \in Workers : v = w
  BY DEF KInv, DInv, HInv, TInv, TypeOK, OneWorker
<1>1. /\ pc[w] = "append" /\ pc[w] \in OpenedLabels /\ pc[w] \in NamedLabels
      /\ pc'[w] = "idle" /\ call'[w] = NoCall
      /\ UNCHANGED <<cache, orig, localFH2LocalFile>>
  BY <1>0 DEF OpenAppend, Leave, Return, Goto, store, OpenedLabels, NamedLabels, FillLabels
<1>2. f \in Fds /\ p \in Paths /\ CacheName[p] \in Names /\ Ccfn(w) = CacheName[p]
  BY <1>1, CacheNameAssumption
     DEF KInv, DInv, HInv, TInv, Args, OpenLabels, DescriptorLabels, Ccfn
<1>3. /\ index'[CacheName[p]] = p
      /\ \A n \in Names : n # CacheName[p] => index'[n] = index[n]
      /\ handle'[f].path = p
      /\ \A g \in Fds : g # f => handle'[g] = handle[g]
  BY <1>0, <1>2 DEF OpenAppend, GiveHandle
<1>4. index[CacheName[p]] \in {None, p}
  BY <1>1 DEF KInv, IndexInv, NameFree, CanUse
<1>5. KnownData'
  <2>1. ASSUME NEW n \in Names, NEW c \in cache[n].data PROVE index'[n] = c.path
    <3>1. index[n] = c.path \/ p = c.path
      BY <1>0 DEF KInv, IndexInv, KnownData
    <3>2. CacheName[c.path] = n /\ c.path \in Paths
      <4>1. c \in Chunks
        BY <2>1 DEF KInv, DInv, HInv, TInv, TypeOK, Files
      <4> QED
        BY <4>1 DEF KInv, DInv, NoForeignData, Chunks
    <3>3. c.path # None
      BY <3>2, NoneAssumption
    <3> QED
      BY <1>3, <1>4, <3>1, <3>2, <3>3
  <2> QED
    BY <1>1, <2>1 DEF KnownData
<1>6. HandlesNamed'
  <2>1. ASSUME NEW g \in Fds, handle'[g].path # None, localFH2LocalFile[g].isCached
        PROVE  index'[CacheName[handle'[g].path]] = handle'[g].path
    <3>1. CASE g = f
      BY <1>3, <3>1
    <3>2. CASE g # f
      <4>1. handle'[g] = handle[g] /\ handle[g].path \in Paths
        BY <1>0, <1>3, <2>1, <3>2 DEF Handles
      <4>2. index[CacheName[handle[g].path]] = handle[g].path /\ CacheName[handle[g].path] \in Names
        BY <2>1, <4>1, CacheNameAssumption DEF KInv, IndexInv, HandlesNamed, OwnsName
      <4>3. handle[g].path # None
        BY <4>1, NoneAssumption
      <4>4. CASE CacheName[handle[g].path] = CacheName[p]
        <5>1. handle[g].path = p
          BY <1>4, <4>2, <4>3, <4>4
        <5> QED
          BY <1>3, <4>1, <5>1
      <4>5. CASE CacheName[handle[g].path] # CacheName[p]
        BY <1>3, <4>1, <4>2, <4>5
      <4> QED
        BY <4>4, <4>5
    <3> QED
      BY <3>1, <3>2
  <2> QED
    BY <1>1, <2>1 DEF HandlesNamed, OwnsName
<1>7. NameFree' /\ ReleasesNamed' /\ Uncollected'
  BY <1>0, <1>1 DEF NameFree, ReleasesNamed, Uncollected, NamedLabels, FillLabels, WriteBackLabels,
                    CopyBackLabels, CollectLabels, NoCall
<1> QED
  BY <1>5, <1>6, <1>7 DEF IndexInv

(* accessedFile: no collection starts, and none goes on. *)
LEMMA CollectorIndex ==
  ASSUME OneWorker, KInv, "gc" \notin Calls, NEW w \in Workers,
         AccessedFile(w) \/ CollectEnd(w) \/ Forget(w) \/ \E n \in Names : Collect(w, n)
  PROVE  IndexInv'
<1>0. /\ call \in [Workers -> Locals] /\ pc \in [Workers -> Labels]
      /\ \A v \in Workers : v = w
  BY DEF KInv, DInv, HInv, TInv, TypeOK, OneWorker
<1>1. pc[w] \notin CollectLabels /\ call[w].forget = None
  BY DEF KInv, IndexInv, Uncollected
<1>2. AccessedFile(w)
  BY <1>1 DEF CollectEnd, Forget, Collect, CollectLabels
<1>3. /\ IndexKept /\ UNCHANGED <<cache, orig, handle, localFH2LocalFile, call>>
      /\ \/ pc[w] = "accessed" /\ pc'[w] = "touch"
         \/ pc[w] = "rel_accessed" /\ pc'[w] = "rel_unlock"
  BY <1>0, <1>2 DEF AccessedFile, AfterAccess, Change, Goto, IndexKept, tables, store
<1>4. /\ StaysNamed(w) /\ CopiesGoOn
      /\ pc[w] \in FillLabels => pc'[w] \in FillLabels
  BY <1>3 DEF StaysNamed, CopiesGoOn, NamedLabels, FillLabels, WriteBackLabels, CopyBackLabels
<1>5. KnownData'
  BY <1>0, <1>3, <1>4, KnownKept DEF KInv, IndexInv, DataKept
<1>6. Uncollected'
  BY <1>0, <1>3 DEF KInv, IndexInv, Uncollected, CollectLabels
<1> QED
  BY <1>0, <1>3, <1>4, <1>5, <1>6, IndexFrame DEF KInv

(* A write goes to the copy its handle is open on, which the index gives its path. *)
LEMMA WriteIndex ==
  ASSUME OneWorker, KInv, NEW w \in Workers, NEW f \in Fds, Write(w, f) PROVE IndexInv'
<1> DEFINE p == handle[f].path
           chunk == Chunk(p, writes + 1)
           index == localCacheFileName2originalFullPathName
<1>0. /\ call \in [Workers -> Locals] /\ pc \in [Workers -> Labels]
      /\ cache \in [Names -> Files] /\ handle \in [Fds -> Handles]
      /\ \A v \in Workers : v = w
      /\ chunk.path = p
  BY DEF KInv, DInv, HInv, TInv, TypeOK, OneWorker, Chunk
<1>1. /\ IndexKept /\ UNCHANGED localFH2LocalFile
      /\ pc[w] = "idle" /\ pc'[w] = "flag" /\ p # None
      /\ call'[w].forget = call[w].forget /\ call'[w].data = call[w].data
  BY <1>0 DEF Write, Goto, IndexKept, tables, Locals
<1>2. \A n \in Names : \A c \in cache[n].data : index[n] = c.path
  BY <1>1, IndexedData DEF KInv, FillLabels
<1>3. ASSUME cache' = cache PROVE KnownData'
  BY <1>1, <1>2, <1>3 DEF KnownData, IndexKept
<1>4. ASSUME NEW now, desc[f].on = "cache",
             cache' = [cache EXCEPT ![desc[f].name] = File(@.data \cup {chunk}, now)]
      PROVE  KnownData'
  <2>1. EntryFor(f, p)
    BY <1>1 DEF KInv, DInv, HInv, Entries
  <2>2. desc[f].name = CacheName[p] /\ localFH2LocalFile[f].isCached
    BY <1>4, <2>1 DEF EntryFor, OnCopy, OnOriginal, On
  <2>3. index[CacheName[p]] = p
    BY <1>1, <2>2 DEF KInv, IndexInv, HandlesNamed, OwnsName
  <2>4. \A n \in Names : cache'[n].data \subseteq cache[n].data \cup
                           (IF n = CacheName[p] THEN {chunk} ELSE {})
    BY <1>0, <1>4, <2>2 DEF File
  <2>5. ASSUME NEW n \in Names, NEW c \in cache'[n].data PROVE index'[n] = c.path
    <3>1. c \in cache[n].data \/ (n = CacheName[p] /\ c = chunk)
      BY <2>4, <2>5
    <3> HIDE DEF chunk
    <3> QED
      BY <1>0, <1>1, <1>2, <2>3, <3>1 DEF IndexKept
  <2> QED
    BY <2>5 DEF KnownData
<1>5. KnownData'
  BY <1>3, <1>4 DEF Write, store
<1>6. CopiesGoOn
  <2>1. \A g \in Fds : handle'[g].path = handle[g].path
    BY <1>0 DEF Write, Handles
  <2> QED
    BY <1>1, <2>1 DEF CopiesGoOn
<1>7. StaysNamed(w)
  BY <1>1 DEF StaysNamed, NamedLabels, FillLabels, WriteBackLabels, CopyBackLabels
<1>8. Uncollected'
  BY <1>0, <1>1 DEF KInv, IndexInv, Uncollected, CollectLabels
<1> QED
  BY <1>0, <1>1, <1>5, <1>6, <1>7, <1>8, IndexFrame DEF KInv

LEMMA SetDirtyFlagIndex ==
  ASSUME OneWorker, KInv, NEW w \in Workers, SetDirtyFlag(w) PROVE IndexInv'
<1>0. /\ call \in [Workers -> Locals] /\ pc \in [Workers -> Labels]
      /\ localFH2LocalFile \in [Fds -> LocalFiles]
      /\ \A v \in Workers : v = w
  BY DEF KInv, DInv, HInv, TInv, TypeOK, OneWorker
<1>1. /\ IndexKept /\ UNCHANGED <<cache, orig, handle>>
      /\ pc[w] = "flag" /\ pc'[w] = "idle" /\ call'[w] = NoCall
      /\ localFH2LocalFile' = Flagged(call[w].fd)
  BY <1>0 DEF SetDirtyFlag, Goto, Return, IndexKept, users, store
<1>2. CopiesGoOn
  <2>1. \A g \in Fds : localFH2LocalFile'[g].isCached = localFH2LocalFile[g].isCached
    BY <1>0, <1>1 DEF Flagged, LocalFiles
  <2> QED
    BY <1>1, <2>1 DEF CopiesGoOn
<1>3. pc[w] \notin FillLabels /\ StaysNamed(w)
  BY <1>1 DEF StaysNamed, NamedLabels, FillLabels, WriteBackLabels, CopyBackLabels
<1>4. KnownData'
  BY <1>0, <1>1, <1>3, KnownKept DEF KInv, IndexInv, DataKept
<1>5. Uncollected'
  BY <1>0, <1>1 DEF Uncollected, CollectLabels, NoCall
<1> QED
  BY <1>0, <1>1, <1>2, <1>3, <1>4, <1>5, IndexFrame DEF KInv

(* A release takes from its handle that the name is the path's. *)
LEMMA ReleaseBeginIndex ==
  ASSUME OneWorker, KInv, NEW w \in Workers,
         (\E f \in Fds : ReleaseClose(w, f)) \/ ReleaseGetLF(w)
  PROVE  IndexInv'
<1>0. /\ call \in [Workers -> Locals] /\ pc \in [Workers -> Labels]
      /\ handle \in [Fds -> Handles]
      /\ \A v \in Workers : v = w
  BY DEF KInv, DInv, HInv, TInv, TypeOK, OneWorker
<1>1. /\ IndexKept /\ UNCHANGED <<cache, orig, localFH2LocalFile>>
      /\ pc[w] \notin FillLabels
  BY DEF ReleaseClose, ReleaseGetLF, IndexKept, tables, store, FillLabels
<1>2. KnownData'
  BY <1>0, <1>1, KnownKept DEF KInv, IndexInv, DataKept
<1>3. ASSUME NEW f \in Fds, ReleaseClose(w, f) PROVE IndexInv'
  <2>1. /\ pc'[w] = "rel_get" /\ call'[w].path = handle[f].path /\ call'[w].fd = f
        /\ call'[w].forget = call[w].forget /\ call'[w].data = call[w].data
        /\ handle[f].path # None /\ handle'[f].path = None
        /\ \A g \in Fds : g # f => handle'[g] = handle[g]
    BY <1>0, <1>3 DEF ReleaseClose, Goto, Locals, NoHandle
  <2>2. HandlesNamed'
    BY <1>1, <2>1 DEF KInv, IndexInv, HandlesNamed, OwnsName, IndexKept
  <2>3. localFH2LocalFile[f].isCached => OwnsName(handle[f].path)
    BY <2>1 DEF KInv, IndexInv, HandlesNamed
  <2>4. ReleasesNamed'
    BY <1>0, <1>1, <2>1, <2>3 DEF ReleasesNamed, OwnsName, IndexKept, WriteBackLabels, CopyBackLabels
  <2>5. NameFree' /\ Uncollected'
    BY <1>0, <2>1 DEF KInv, IndexInv, NameFree, Uncollected, NamedLabels, FillLabels, CollectLabels
  <2> QED
    BY <1>2, <2>2, <2>4, <2>5 DEF IndexInv
<1>4. CASE ReleaseGetLF(w)
  <2>1. /\ pc[w] = "rel_get" /\ pc'[w] \in {"rel_lock", "rel_remove"}
        /\ pc'[w] = "rel_lock" => localFH2LocalFile[call[w].fd].isCached
        /\ call'[w].path = call[w].path /\ handle' = handle
        /\ call'[w].forget = call[w].forget /\ call'[w].data = call[w].data
    BY <1>0, <1>4 DEF ReleaseGetLF, NeedsWriteBack, Goto, Locals, users
  <2>2. HandlesNamed'
    BY <1>1, <2>1 DEF KInv, IndexInv, HandlesNamed, OwnsName, IndexKept
  <2>3. localFH2LocalFile[call[w].fd].isCached => OwnsName(call[w].path)
    BY <2>1 DEF KInv, IndexInv, ReleasesNamed
  <2>4. ReleasesNamed'
    BY <1>0, <1>1, <2>1, <2>3 DEF ReleasesNamed, OwnsName, IndexKept, WriteBackLabels, CopyBackLabels
  <2>5. NameFree' /\ Uncollected'
    BY <1>0, <2>1 DEF KInv, IndexInv, NameFree, Uncollected, NamedLabels, FillLabels, CollectLabels
  <2> QED
    BY <1>2, <2>2, <2>4, <2>5 DEF IndexInv
<1> QED
  BY <1>3, <1>4

LEMMA ReleaseMoveIndex ==
  ASSUME OneWorker, KInv, NEW w \in Workers, ReleaseStep(w), ~ReleaseGetLF(w) PROVE IndexInv'
<1>0. /\ call \in [Workers -> Locals] /\ pc \in [Workers -> Labels]
      /\ handle \in [Fds -> Handles] /\ localFH2LocalFile \in [Fds -> LocalFiles]
      /\ \A v \in Workers : v = w
  BY DEF KInv, DInv, HInv, TInv, TypeOK, OneWorker
<1>1. CASE ReleaseRemoveLF(w)
  <2>1. /\ IndexKept /\ UNCHANGED <<cache, orig, handle>>
        /\ pc[w] = "rel_remove" /\ pc'[w] = "idle" /\ call'[w] = NoCall
        /\ localFH2LocalFile' = WithoutLF(call[w].fd)
    BY <1>0, <1>1 DEF ReleaseRemoveLF, Goto, Return, IndexKept, store
  <2>2. CopiesGoOn
    <3>1. \A g \in Fds : localFH2LocalFile'[g].isCached => localFH2LocalFile[g].isCached
      BY <1>0, <2>1 DEF WithoutLF, Dummy, LocalFile
    <3> QED
      BY <2>1, <3>1 DEF CopiesGoOn
  <2>3. pc[w] \notin FillLabels /\ StaysNamed(w)
    BY <2>1 DEF StaysNamed, NamedLabels, FillLabels, WriteBackLabels, CopyBackLabels
  <2>4. KnownData'
    BY <1>0, <2>1, <2>3, KnownKept DEF KInv, IndexInv, DataKept
  <2>5. Uncollected'
    BY <1>0, <2>1 DEF Uncollected, CollectLabels, NoCall
  <2> QED
    BY <1>0, <2>1, <2>2, <2>3, <2>4, <2>5, IndexFrame DEF KInv
<1>2. CASE ReleaseLock(w) \/ CopyBackTruncate(w) \/ CopyBackData(w) \/ ReleaseTouch(w) \/ ReleaseUnlock(w)
  <2>1. IndexKept /\ UNCHANGED localFH2LocalFile
    BY <1>2 DEF ReleaseLock, CopyBackTruncate, CopyBackData, ReleaseTouch, ReleaseUnlock, IndexKept, tables
  <2>2. /\ pc[w] \in WriteBackLabels /\ pc[w] \notin FillLabels
        /\ pc'[w] \in {"rel_copy", "rel_data", "rel_touch", "rel_accessed", "rel_unlock", "rel_remove"}
    BY <1>0, <1>2 DEF ReleaseLock, CopyBackTruncate, CopyBackData, ReleaseTouch, ReleaseUnlock, Goto,
                      WriteBackLabels, CopyBackLabels, FillLabels
  <2>3. /\ call'[w].path = call[w].path /\ call'[w].forget = call[w].forget
        /\ call'[w].data \in {call[w].data, {}}
    <3>1. CASE CopyBackTruncate(w)
      BY <1>0, <3>1 DEF CopyBackTruncate, Locals
    <3>2. CASE CopyBackData(w)
      <4>1. PICK d : call' = [v \in Workers |->
                       IF v = w THEN [call[v] EXCEPT !.unsaved = @ \ d, !.dest = None, !.data = {}]
                       ELSE [call[v] EXCEPT !.unsaved = @ \ d]]
        BY <3>2 DEF CopyBackData
      <4> QED
        BY <1>0, <4>1 DEF Locals
    <3>3. CASE ReleaseLock(w) \/ ReleaseTouch(w) \/ ReleaseUnlock(w)
      BY <3>3 DEF ReleaseLock, ReleaseTouch, ReleaseUnlock
    <3> QED
      BY <1>2, <3>1, <3>2, <3>3
  <2>4. pc'[w] = "rel_data" => call'[w].dest # None
    <3>1. CASE CopyBackTruncate(w)
      <4>1. Real(w) \in Names /\ None \notin Names
        BY <3>1, NoneAssumption DEF CopyBackTruncate, KInv, DInv, HInv, TInv, Args, WriteBackLabels, CopyBackLabels
      <4> QED
        BY <1>0, <3>1, <4>1 DEF CopyBackTruncate, Goto, Locals
    <3>2. CASE ~CopyBackTruncate(w)
      BY <1>0, <1>2, <3>2 DEF ReleaseLock, CopyBackData, ReleaseTouch, ReleaseUnlock, Goto
    <3> QED
      BY <3>1, <3>2
  <2>5. KnownData'
    <3>1. \A n \in Names : cache'[n].data \subseteq cache[n].data
      <4>1. CASE ReleaseTouch(w)
        <5>1. StoreOK /\ Real(w) \in Names
          BY <4>1, Parts DEF ReleaseTouch, KInv, DInv, HInv, TInv, Args, WriteBackLabels, CopyBackLabels
        <5> QED
          BY <4>1, <5>1, TouchedData DEF ReleaseTouch, DataKept
      <4>2. CASE ~ReleaseTouch(w)
        BY <1>2, <4>2 DEF ReleaseLock, CopyBackTruncate, CopyBackData, ReleaseUnlock, store
      <4> QED
        BY <4>1, <4>2
    <3>2. \A n \in Names : \A c \in cache[n].data : localCacheFileName2originalFullPathName[n] = c.path
      BY <2>2, IndexedData DEF KInv
    <3> QED
      BY <2>1, <3>1, <3>2 DEF KnownData, IndexKept
  <2>6. CopiesGoOn
    <3>1. \A g \in Fds : handle'[g].path = handle[g].path
      <4>1. CASE CopyBackData(w)
        <5>1. PICK d : handle' = [g \in Fds |-> [handle[g] EXCEPT !.unsaved = @ \ d]]
          BY <4>1 DEF CopyBackData, SavedHandles
        <5> QED
          BY <1>0, <5>1 DEF Handles
      <4>2. CASE ~CopyBackData(w)
        BY <1>2, <4>2 DEF ReleaseLock, CopyBackTruncate, ReleaseTouch, ReleaseUnlock, users
      <4> QED
        BY <4>1, <4>2
    <3> QED
      BY <2>1, <3>1 DEF CopiesGoOn
  <2>7. StaysNamed(w)
    BY <2>2, <2>3 DEF StaysNamed, NamedLabels, FillLabels, WriteBackLabels, CopyBackLabels
  <2>8. Uncollected'
    BY <1>0, <2>2, <2>3, <2>4 DEF KInv, IndexInv, Uncollected, CollectLabels
  <2> QED
    BY <1>0, <2>1, <2>5, <2>6, <2>7, <2>8, IndexFrame DEF KInv
<1> QED
  BY <1>1, <1>2 DEF ReleaseStep

(* The calls on the originals. *)
LEMMA OneCallIndex ==
  ASSUME KInv, OneCall, "rename" \notin Calls PROVE IndexInv'
<1>0. /\ call \in [Workers -> Locals] /\ pc \in [Workers -> Labels] /\ handle \in [Fds -> Handles]
  BY DEF KInv, DInv, HInv, TInv, TypeOK
<1>1. PICK p \in Paths : Truncate(p) \/ Unlink(p) \/ Mknod(p) \/ Utimens(p) \/ Remote(p)
  BY DEF OneCall, Rename, Change
<1>2. IndexKept /\ UNCHANGED <<cache, localFH2LocalFile, pc>>
  BY <1>1 DEF Truncate, Unlink, Mknod, Utimens, Remote, SetOrig, IndexKept, tables
<1>3. \A w \in Workers : /\ call'[w].path = call[w].path /\ call'[w].fd = call[w].fd
                         /\ call'[w].forget = call[w].forget /\ call'[w].data = call[w].data
                         /\ call'[w].dest = call[w].dest
  BY <1>0, <1>1 DEF Truncate, Unlink, Mknod, Utimens, Remote, Locals
<1>4. CopiesGoOn
  <2>1. \A g \in Fds : handle'[g].path = handle[g].path
    BY <1>0, <1>1 DEF Truncate, Unlink, Mknod, Utimens, Remote, Handles
  <2> QED
    BY <1>2, <2>1 DEF CopiesGoOn
<1>5. \A w \in Workers : StaysNamed(w)
  BY <1>2, <1>3 DEF StaysNamed
<1>6. KnownData'
  BY <1>2, <1>3 DEF KInv, IndexInv, KnownData, IndexKept
<1>7. Uncollected'
  BY <1>2, <1>3 DEF KInv, IndexInv, Uncollected
<1> QED
  BY <1>2, <1>4, <1>5, <1>6, <1>7, IndexFrame DEF KInv

LEMMA InitKInv == Init => KInv
<1> SUFFICES ASSUME Init PROVE IndexInv
  BY InitDInv DEF KInv
<1>1. KnownData
  BY DEF Init, KnownData, Absent
<1>2. NameFree /\ HandlesNamed /\ ReleasesNamed /\ Uncollected
  BY DEF Init, NameFree, HandlesNamed, ReleasesNamed, Uncollected, NamedLabels, FillLabels,
         WriteBackLabels, CopyBackLabels, CollectLabels, NoCall, NoHandle
<1> QED
  BY <1>1, <1>2 DEF IndexInv

LEMMA NextKInv ==
  ASSUME OneWorker, Calls \subseteq IndexSafe
  PROVE  KInv /\ DescriptorsLast /\ [Next]_vars => KInv'
<1> SUFFICES ASSUME KInv, DescriptorsLast, [Next]_vars PROVE KInv'
  OBVIOUS
<1>0. "rename" \notin Calls /\ "gc" \notin Calls /\ "crash" \notin Calls
  BY DEF IndexSafe
<1>1. DInv'
  BY <1>0, IndexedOwnData, StepDInv DEF KInv, NoReuse
<1>2. ASSUME UNCHANGED vars PROVE IndexInv'
  BY <1>2 DEF KInv, IndexInv, KnownData, NameFree, CanUse, HandlesNamed, ReleasesNamed, Uncollected,
              OwnsName, vars, store, tables, users
<1>3. ASSUME NEW w \in Workers, Begin(w) PROVE IndexInv'
  BY <1>3, OpenBeginIndex, WriteIndex, ReleaseBeginIndex DEF Begin
<1>4. ASSUME NEW w \in Workers, Step(w) PROVE IndexInv'
  <2>1. CASE OpenStep(w)
    BY <2>1, OpenMoveIndex, CopyInIndex, OpenCachedIndex, OpenCreateIndex, OpenAppendIndex DEF OpenStep
  <2>2. CASE ReleaseStep(w)
    BY <2>2, ReleaseBeginIndex, ReleaseMoveIndex
  <2> QED
    BY <1>0, <1>4, <2>1, <2>2, SetDirtyFlagIndex, CollectorIndex DEF Step
<1>5. ASSUME OneCall PROVE IndexInv'
  BY <1>0, <1>5, OneCallIndex
<1>6. ~Crash
  BY <1>0 DEF Crash, Change
<1> QED
  BY <1>1, <1>2, <1>3, <1>4, <1>5, <1>6 DEF KInv, Next, Quiet

(* The data stays apart although names collide: with one worker, the local calls, other
   hosts and a disk that fills up, an open finds the name taken by another path and goes to
   the original, and what is in a copy is always data of the path the index gives it to. *)
THEOREM CollisionsApart ==
  ASSUME OneWorker, Calls \subseteq IndexSafe
  PROVE  Spec /\ []DescriptorsLast => []NoForeignData
<1>1. KInv /\ DescriptorsLast /\ [Next]_vars => KInv'
  BY NextKInv
<1>2. KInv => NoForeignData
  BY DEF KInv, DInv
<1> QED
  BY <1>1, <1>2, InitKInv, PTL DEF Spec

------------------------------------------------------------------------------
(* What was written gets to the original.  Nothing is lost while the files see nothing
   but opens, writes and releases; files may be created and removed in between, and
   truncated when no other worker is at work. *)

Calm == /\ "nospace" \notin Calls
        /\ \/ changes = 0
           \/ /\ Calls \subseteq {"truncate", "unlink", "mknod"}
              /\ "truncate" \in Calls => OneWorker

CopyLabels == {"copy", "data", "accessed", "touch"}

FilledLabels == {"data", "accessed", "touch", "open"}

(* A release has the original of p newer than the copy it comes from. *)
Transit(p) == \E w \in Workers : pc[w] \in {"rel_data", "rel_touch"} /\ call[w].path = p

(* The next open of p uses the copy as it is. *)
Current(p) == orig[p].mtime <= cache[CacheName[p]].mtime

(* The chunks in S, written to p and owed to its original, are in the copy, and no open
   will replace it. *)
Safe(p, S) == /\ S \subseteq cache[CacheName[p]].data
              /\ S = {} \/ Current(p) \/ Transit(p)

NothingOwed(p) ==
  /\ \A f \in Fds : handle[f].path = p => handle[f].unsaved = {}
  /\ \A v \in Workers : pc[v] \in ReleaseLabels /\ call[v].path = p => call[v].unsaved = {}

(* A copy is filled anew only when that takes nothing from anybody. *)
MayFill(w) == /\ NothingOwed(call[w].path)
              /\ OneWorker \/ \A f \in Fds : desc[f] # On("cache", Ccfn(w))

Clocked == /\ 0 < clock
           /\ \A p \in Paths : /\ orig[p].mtime <= clock
                               /\ Exists(orig[p]) => 0 < orig[p].mtime
           /\ \A n \in Names : cache[n].mtime <= clock

OwnIndex == \A n \in Names : localCacheFileName2originalFullPathName[n] # None =>
               CacheName[localCacheFileName2originalFullPathName[n]] = n

NoDirect ==
  /\ \A w \in Workers : pc[w] \notin {"check_direct", "direct", "create_direct", "gc", "rel_gc"}
  /\ \A f \in Fds : desc[f].on \in {"closed", "cache"}

Owned == \A f \in Fds : desc[f] # Closed =>
  handle[f].path # None \/ \E w \in Workers : pc[w] \in OpenedLabels /\ call[w].fd = f

(* A path that a user, a release or an open past its check works with. *)
InUse(p) == \/ \E f \in Fds : handle[f].path = p
            \/ \E w \in Workers : /\ pc[w] \in (OpenLabels \ {"check"}) \cup ReleaseLabels
                                  /\ call[w].path = p

Present == \A p \in Paths : InUse(p) => Exists(orig[p])

HasCopy ==
  /\ \A f \in Fds : desc[f].on = "cache" => Exists(cache[desc[f].name])
  /\ \A w \in Workers : pc[w] \in FilledLabels \cup ReleaseLabels =>
        Exists(cache[CacheName[call[w].path]])

Kept == /\ \A f \in Fds : handle[f].path # None => Safe(handle[f].path, handle[f].unsaved)
        /\ \A w \in Workers : pc[w] \in ReleaseLabels => Safe(call[w].path, call[w].unsaved)

CopyingIn == \A w \in Workers : pc[w] \in CopyLabels => MayFill(w)

Newer == OneWorker \/
  /\ \A p \in Paths, f \in Fds : desc[f] = On("cache", CacheName[p]) => Current(p) \/ Transit(p)
  /\ \A w \in Workers : pc[w] = "open" => Current(call[w].path)

Finished == \A w \in Workers :
  /\ pc[w] \in {"rel_touch", "rel_accessed", "rel_unlock", "rel_remove"} => call[w].unsaved = {}
  /\ pc[w] = "rel_get" /\ call[w].unsaved # {} => NeedsWriteBack(localFH2LocalFile[call[w].fd])
  /\ pc[w] = "rel_data" => call[w].dest # None

SInv == /\ Clocked /\ OwnIndex /\ NoDirect /\ Owned /\ Present /\ HasCopy
        /\ Kept /\ CopyingIn /\ Newer /\ Finished

WInv == LInv /\ (Calm => HInv /\ SInv /\ WrittenBack)

(* The state of a calm moment, of which the steps below make the next. *)
CInv == LInv /\ HInv /\ SInv

(* Where a worker goes, with what it has to know there. *)
GoesOn(w) ==
  \/ /\ pc'[w] = pc[w] /\ call'[w].path = call[w].path /\ call'[w].fd = call[w].fd
     /\ call'[w].unsaved \subseteq call[w].unsaved
     /\ pc[w] = "rel_data" => call'[w].dest = call[w].dest
  \/ /\ pc'[w] \in {"idle", "check"}
     /\ pc[w] \notin OpenedLabels \cup {"rel_data", "rel_touch"}
  \/ /\ pc[w] \in OpenLabels \ OpenedLabels
     /\ pc'[w] \in {"lock", "stat"} \cup CopyLabels \cup FilledLabels
     /\ call'[w].path = call[w].path
     /\ Exists(orig'[call[w].path])
     /\ pc'[w] \in FilledLabels => Exists(cache'[CacheName[call[w].path]])
     /\ pc'[w] \in CopyLabels => pc[w] \in CopyLabels \/ MayFill(w)'
     /\ pc'[w] = "open" => OneWorker \/ Current(call[w].path)'
  \/ pc[w] = "create" /\ pc'[w] = "append" /\ call'[w].path = call[w].path /\ call'[w].fd = call[w].fd
  \/ /\ pc[w] \in ReleaseLabels /\ pc'[w] \in ReleaseLabels \ {"rel_get", "rel_gc"}
     /\ call'[w].path = call[w].path
     /\ call'[w].unsaved \subseteq call[w].unsaved
     /\ pc'[w] \in {"rel_touch", "rel_accessed", "rel_unlock", "rel_remove"} => call'[w].unsaved = {}
     /\ pc'[w] = "rel_data" => call'[w].dest # None

(* What happens to the files of a path in use. *)
FilesGoOn(p) ==
  /\ Exists(orig[p]) => Exists(orig'[p])
  /\ cache[CacheName[p]].data \subseteq cache'[CacheName[p]].data \/ NothingOwed(p)'
  /\ Current(p) \/ Transit(p) => (Current(p) \/ Transit(p))' \/ (OneWorker /\ NothingOwed(p)')

(* A descriptor that is open on the copy of p is in use for p. *)
LEMMA DescriptorUsed ==
  ASSUME CInv, DistinctNames, NEW p \in Paths, NEW f \in Fds, desc[f] = On("cache", CacheName[p])
  PROVE  InUse(p)
<1>0. On("cache", CacheName[p]) # Closed
  BY DEF On, Closed
<1>1. \A q \in Paths : OnCopy(f, q) => q = p
  BY CacheNameAssumption DEF DistinctNames, OnCopy, On
<1>2. CASE handle[f].path # None
  <2>1. EntryFor(f, handle[f].path) /\ handle[f].path \in Paths
    BY <1>2 DEF CInv, HInv, Entries, TInv, TypeOK, Handles
  <2>2. OnCopy(f, handle[f].path)
    BY <2>1 DEF EntryFor, OnOriginal, On
  <2> QED
    BY <1>1, <2>1, <2>2 DEF InUse
<1>3. ASSUME NEW w \in Workers, pc[w] \in OpenedLabels, call[w].fd = f PROVE InUse(p)
  <2>1. call[w].path \in Paths
    BY <1>3 DEF CInv, HInv, TInv, Args, OpenedLabels, OpenLabels
  <2>2. OnCopy(f, call[w].path)
    <3>1. pc[w] # "create_direct"
      BY DEF CInv, SInv, NoDirect
    <3>2. CASE pc[w] = "append"
      <4>1. EntryFor(f, call[w].path)
        BY <1>3, <3>2 DEF CInv, HInv, Entries
      <4> QED
        BY <4>1 DEF EntryFor, OnOriginal, On
    <3>3. CASE pc[w] = "create"
      BY <1>3, <3>3 DEF CInv, HInv, Entries
    <3> QED
      BY <1>3, <3>1, <3>2, <3>3 DEF OpenedLabels
  <2> QED
    BY <1>1, <1>3, <2>1, <2>2 DEF InUse, OpenedLabels, OpenLabels
<1> QED
  BY <1>0, <1>2, <1>3 DEF CInv, SInv, Owned

LEMMA CalmFrame ==
  ASSUME CInv, LInv', HInv', DistinctNames, Clocked', OwnIndex',
         desc' = desc, HandlesKept,
         \A v \in Workers : pc[v] = "rel_get" => localFH2LocalFile'[call[v].fd] = localFH2LocalFile[call[v].fd],
         \A v \in Workers : GoesOn(v),
         \A n \in Names : Exists(cache[n]) => Exists(cache'[n]),
         \A p \in Paths : InUse(p) => FilesGoOn(p)
  PROVE  SInv'
<1>0. /\ \A v \in Workers : pc[v] \in OpenLabels \cup ReleaseLabels => call[v].path \in Paths
      /\ \A f \in Fds : handle[f].path # None => handle[f].path \in Paths
      /\ \A p \in Paths : CacheName[p] \in Names
      /\ \A f \in Fds : desc[f].on = "cache" => desc[f].name \in Names
  BY CacheNameAssumption DEF CInv, HInv, TInv, TypeOK, Args, Handles, Descriptions
<1>1. /\ \A v \in Workers : pc[v] \in (OpenLabels \ {"check"}) \cup ReleaseLabels =>
                             InUse(call[v].path) /\ FilesGoOn(call[v].path)
      /\ \A f \in Fds : handle[f].path # None => InUse(handle[f].path) /\ FilesGoOn(handle[f].path)
  BY <1>0 DEF InUse
<1>2. NoDirect'
  <2>1. ASSUME NEW v \in Workers
        PROVE  pc'[v] \notin {"check_direct", "direct", "create_direct", "gc", "rel_gc"}
    <3>1. GoesOn(v) /\ pc[v] \notin {"check_direct", "direct", "create_direct", "gc", "rel_gc"}
      BY DEF CInv, SInv, NoDirect
    <3> QED
      BY <3>1 DEF GoesOn, CopyLabels, FilledLabels, ReleaseLabels, WriteBackLabels, CopyBackLabels
  <2> QED
    BY <2>1 DEF CInv, SInv, NoDirect
<1>3. Owned'
  <2>1. \A v \in Workers : pc[v] \in OpenedLabels => pc'[v] \in OpenedLabels /\ call'[v].fd = call[v].fd
    BY DEF GoesOn, OpenedLabels, ReleaseLabels, WriteBackLabels, CopyBackLabels
  <2> QED
    BY <2>1 DEF CInv, SInv, Owned, HandlesKept
<1>4. Present'
  <2>1. SUFFICES ASSUME NEW p \in Paths, InUse(p)' PROVE Exists(orig'[p])
    BY DEF Present
  <2>2. CASE InUse(p)
    BY <2>2 DEF CInv, SInv, Present, FilesGoOn
  <2>3. ASSUME NEW v \in Workers, ~InUse(p), call'[v].path = p,
               pc'[v] \in (OpenLabels \ {"check"}) \cup ReleaseLabels
        PROVE  Exists(orig'[p])
    <3>1. GoesOn(v)
      OBVIOUS
    <3>2. CASE pc[v] \in (OpenLabels \ {"check"}) \cup ReleaseLabels /\ call'[v].path = call[v].path
      BY <2>3, <3>2 DEF InUse
    <3> QED
      BY <2>3, <3>1, <3>2 DEF GoesOn, OpenLabels, OpenedLabels, ReleaseLabels, WriteBackLabels,
                              CopyBackLabels
  <2> QED
    BY <2>1, <2>2, <2>3 DEF InUse, HandlesKept
<1>5. HasCopy'
  <2>1. ASSUME NEW v \in Workers, pc'[v] \in FilledLabels \cup ReleaseLabels
        PROVE  Exists(cache'[CacheName[call'[v].path]])
    <3>1. GoesOn(v)
      OBVIOUS
    <3>2. CASE Exists(cache'[CacheName[call[v].path]]) /\ call'[v].path = call[v].path
      BY <3>2
    <3>3. CASE pc[v] \in FilledLabels \cup ReleaseLabels /\ call'[v].path = call[v].path
      <4>1. CacheName[call[v].path] \in Names
        BY <1>0, <3>3 DEF FilledLabels, OpenLabels
      <4> QED
        BY <3>3, <4>1 DEF CInv, SInv, HasCopy
    <3> QED
      BY <2>1, <3>1, <3>2, <3>3 DEF GoesOn, OpenedLabels, FilledLabels, CopyLabels, ReleaseLabels,
         WriteBackLabels, CopyBackLabels
  <2>2. \A f \in Fds : desc'[f].on = "cache" => Exists(cache'[desc'[f].name])
    BY <1>0 DEF CInv, SInv, HasCopy
  <2> QED
    BY <2>1, <2>2 DEF HasCopy
<1>6. \A v \in Workers : pc'[v] \in ReleaseLabels =>
         pc[v] \in ReleaseLabels /\ call'[v].path = call[v].path /\ call'[v].unsaved \subseteq call[v].unsaved
  BY DEF GoesOn, OpenLabels, OpenedLabels, FilledLabels, CopyLabels, ReleaseLabels, WriteBackLabels, CopyBackLabels
<1>7. Kept'
  <2>1. ASSUME NEW p \in Paths, FilesGoOn(p), NEW S, NEW T, Safe(p, S), T \subseteq S,
               NothingOwed(p)' => T = {}
        PROVE  Safe(p, T)'
    BY <2>1 DEF Safe, FilesGoOn
  <2>2. ASSUME NEW f \in Fds, handle'[f].path # None PROVE Safe(handle[f].path, handle[f].unsaved)'
    <3>1. PICK p \in Paths : p = handle[f].path /\ p = handle'[f].path
      BY <1>0, <2>2 DEF HandlesKept
    <3>2. PICK T : T = handle'[f].unsaved /\ T \subseteq handle[f].unsaved
      BY DEF HandlesKept
    <3>3. Safe(p, handle[f].unsaved) /\ FilesGoOn(p)
      BY <1>1, <2>2, <3>1 DEF CInv, SInv, Kept
    <3>4. NothingOwed(p)' => T = {}
      BY <3>1, <3>2 DEF NothingOwed
    <3>5. Safe(p, T)'
      BY <2>1, <3>2, <3>3, <3>4
    <3> QED
      BY <3>1, <3>2, <3>5 DEF Safe, Current, Transit
  <2>3. ASSUME NEW v \in Workers, pc'[v] \in ReleaseLabels PROVE Safe(call[v].path, call[v].unsaved)'
    <3>1. PICK p \in Paths : p = call[v].path /\ p = call'[v].path
      BY <1>0, <1>6, <2>3
    <3>2. PICK T : T = call'[v].unsaved /\ T \subseteq call[v].unsaved
      BY <1>6, <2>3
    <3>3. Safe(p, call[v].unsaved) /\ FilesGoOn(p)
      BY <1>1, <1>6, <2>3, <3>1 DEF CInv, SInv, Kept
    <3>4. NothingOwed(p)' => T = {}
      BY <2>3, <3>1, <3>2 DEF NothingOwed
    <3>5. Safe(p, T)'
      BY <2>1, <3>2, <3>3, <3>4
    <3> QED
      BY <3>1, <3>2, <3>5 DEF Safe, Current, Transit
  <2> QED
    BY <2>2, <2>3 DEF Kept
<1>8. CopyingIn'
  <2>1. SUFFICES ASSUME NEW v \in Workers, pc'[v] \in CopyLabels PROVE MayFill(v)'
    BY DEF CopyingIn
  <2>2. GoesOn(v)
    OBVIOUS
  <2>3. CASE pc[v] \in CopyLabels /\ call'[v].path = call[v].path
    <3>1. MayFill(v)
      BY <2>3 DEF CInv, SInv, CopyingIn
    <3>2. NothingOwed(call[v].path)'
      BY <1>6, <2>3, <3>1 DEF MayFill, NothingOwed, HandlesKept
    <3> QED
      BY <2>3, <3>1, <3>2 DEF MayFill, Ccfn
  <2> QED
    BY <2>1, <2>2, <2>3 DEF GoesOn, CopyLabels, ReleaseLabels, WriteBackLabels, CopyBackLabels
<1>9. Newer'
  <2>1. CASE OneWorker
    BY <2>1 DEF Newer, OneWorker
  <2>2. CASE ~OneWorker
    <3>1. ASSUME NEW p \in Paths, NEW f \in Fds, desc'[f] = On("cache", CacheName[p])
          PROVE  (Current(p) \/ Transit(p))'
      <4>1. InUse(p)
        BY <3>1, DescriptorUsed
      <4>2. Current(p) \/ Transit(p)
        BY <2>2, <3>1 DEF CInv, SInv, Newer
      <4> QED
        BY <2>2, <4>1, <4>2 DEF FilesGoOn
    <3>2. ASSUME NEW v \in Workers, pc'[v] = "open" PROVE Current(call[v].path)'
      <4>1. GoesOn(v)
        OBVIOUS
      <4>2. CASE Current(call[v].path)'
        BY <4>2
      <4>3. CASE pc[v] = "open" /\ call'[v].path = call[v].path
        <5>1. PICK p \in Paths : p = call[v].path /\ p = call'[v].path
          BY <1>0, <4>3 DEF OpenLabels
        <5>2. Current(p) /\ FilesGoOn(p)
          BY <1>1, <2>2, <4>3, <5>1 DEF CInv, SInv, Newer, OpenLabels
        <5>3. ASSUME NEW u \in Workers, pc'[u] \in {"rel_data", "rel_touch"}, call'[u].path = p
              PROVE  FALSE
          <6>1. lcf'[CacheName[p]] = v
            BY <3>2, <5>1 DEF LInv, LockScope, CopyInLabels, Ccfn
          <6>2. lcf'[CacheName[p]] = u
            BY <5>3 DEF LInv, LockScope, CopyBackLabels, HInv, OwnCopy, WriteBackLabels, Real
          <6> QED
            BY <3>2, <5>3, <6>1, <6>2
        <5>4. Current(p)'
          BY <2>2, <5>2, <5>3 DEF FilesGoOn, Transit
        <5> QED
          BY <5>1, <5>4 DEF Current
      <4> QED
        BY <2>2, <3>2, <4>1, <4>2, <4>3
           DEF GoesOn, Current, CopyLabels, ReleaseLabels, WriteBackLabels, CopyBackLabels
    <3> QED
      BY <3>1, <3>2 DEF Newer
  <2> QED
    BY <2>1, <2>2
<1>10. Finished'
  <2>1. SUFFICES ASSUME NEW v \in Workers
                 PROVE  /\ pc'[v] \in {"rel_touch", "rel_accessed", "rel_unlock", "rel_remove"} =>
                              call'[v].unsaved = {}
                        /\ pc'[v] = "rel_get" /\ call'[v].unsaved # {} =>
                              NeedsWriteBack(localFH2LocalFile'[call'[v].fd])
                        /\ pc'[v] = "rel_data" => call'[v].dest # None
    BY DEF Finished, NeedsWriteBack
  <2>2. GoesOn(v)
    OBVIOUS
  <2> QED
    BY <2>2 DEF GoesOn, CInv, SInv, Finished, NeedsWriteBack, CopyLabels, FilledLabels
<1> QED
  BY <1>2, <1>3, <1>4, <1>5, <1>7, <1>8, <1>9, <1>10 DEF SInv

(* A file is there once something has been written to it. *)
LEMMA WrittenExists ==
  ASSUME NEW file, file.data # {} \/ file.mtime # 0 PROVE Exists(file)
BY DEF Exists, Absent

(* One worker goes on and the files stay as they are. *)
LEMMA MoveSaved ==
  ASSUME CInv, LInv', HInv', DistinctNames, NEW w \in Workers, GoesOn(w),
         pc[w] \notin {"rel_data", "rel_touch"},
         \A v \in Workers : v # w => pc'[v] = pc[v] /\ call'[v] = call[v],
         UNCHANGED <<store, desc>>, OwnIndex', HandlesKept,
         \A v \in Workers : pc[v] = "rel_get" => localFH2LocalFile'[call[v].fd] = localFH2LocalFile[call[v].fd]
  PROVE  SInv'
<1>1. \A v \in Workers : GoesOn(v)
  BY DEF GoesOn
<1>2. Clocked'
  BY DEF store, CInv, SInv, Clocked
<1>3. \A p \in Paths : FilesGoOn(p)
  <2>1. \A p \in Paths : Transit(p) => Transit(p)'
    BY DEF Transit
  <2> QED
    BY <2>1 DEF FilesGoOn, Current, store
<1> QED
  BY <1>1, <1>2, <1>3, CalmFrame DEF store

(* While an open works on a copy no release does. *)
LEMMA NoTransit ==
  ASSUME LInv, HInv, NEW w \in Workers, pc[w] \in CopyInLabels PROVE ~Transit(call[w].path)
<1>1. SUFFICES ASSUME NEW u \in Workers, pc[u] \in {"rel_data", "rel_touch"},
                      call[u].path = call[w].path
               PROVE  FALSE
  BY DEF Transit
<1>2. lcf[CacheName[call[w].path]] = w
  BY DEF LInv, LockScope, Ccfn
<1>3. lcf[CacheName[call[w].path]] = u
  BY <1>1 DEF LInv, LockScope, CopyBackLabels, HInv, OwnCopy, WriteBackLabels, Real
<1> QED
  BY <1>1, <1>2, <1>3 DEF CopyInLabels

LEMMA OpenStatSaved ==
  ASSUME CInv, LInv', HInv', DistinctNames, NEW w \in Workers, OpenStat(w) PROVE SInv'
<1>0. PICK p \in Paths : p = call[w].path
  BY DEF OpenStat, CInv, HInv, TInv, Args, OpenLabels
<1>1. /\ pc[w] = "stat" /\ UNCHANGED <<store, desc, tables, call, users>>
      /\ \A v \in Workers : v # w => pc'[v] = pc[v]
      /\ pc'[w] = IF ~Exists(orig[p]) THEN "direct"
                  ELSE IF IsTheLocalCacheNewer(p) THEN "open" ELSE "copy"
  BY <1>0 DEF OpenStat, Goto, CInv, HInv, TInv, TypeOK
<1>2. Exists(orig[p])
  BY <1>0, <1>1 DEF CInv, SInv, Present, InUse, OpenLabels
<1>3. ~Transit(p) /\ CacheName[p] \in Names
  BY <1>0, <1>1, NoTransit, CacheNameAssumption DEF CInv, CopyInLabels
<1>4. GoesOn(w)
  <2>1. CASE IsTheLocalCacheNewer(p)
    <3>1. Exists(cache[CacheName[p]]) /\ Current(p)
      BY <2>1 DEF IsTheLocalCacheNewer, Current
    <3> QED
      BY <1>0, <1>1, <1>2, <2>1, <3>1
         DEF GoesOn, OpenLabels, OpenedLabels, FilledLabels, CopyLabels, Current, store
  <2>2. CASE ~IsTheLocalCacheNewer(p)
    <3>1. ~Exists(cache[CacheName[p]]) \/ ~Current(p)
      BY <2>2 DEF IsTheLocalCacheNewer, Current
    <3>2. \A S : Safe(p, S) => S = {}
      BY <1>3, <3>1, WrittenExists DEF Safe
    <3>3. NothingOwed(p)
      <4>1. p # None
        BY NoneAssumption
      <4> QED
        BY <3>2, <4>1 DEF CInv, SInv, Kept, NothingOwed
    <3>4. OneWorker \/ \A f \in Fds : desc[f] # On("cache", CacheName[p])
      BY <1>3, <3>1 DEF CInv, SInv, Newer, HasCopy, On
    <3>5. NothingOwed(p)'
      BY <1>1, <3>3 DEF NothingOwed, users, ReleaseLabels, WriteBackLabels, CopyBackLabels
    <3>6. MayFill(w)'
      BY <1>0, <1>1, <3>4, <3>5 DEF MayFill, Ccfn, NothingOwed
    <3> QED
      BY <1>0, <1>1, <1>2, <2>2, <3>6
         DEF GoesOn, OpenLabels, OpenedLabels, FilledLabels, CopyLabels, store
  <2> QED
    BY <2>1, <2>2
<1> QED
  BY <1>1, <1>4, MoveSaved DEF tables, users, CInv, SInv, OwnIndex, HandlesKept

(* The copy of p, or its original, changes; the other files do not. *)
LEMMA OtherFiles ==
  ASSUME DistinctNames, NEW p \in Paths, NEW q \in Paths, q # p, orig'[q] = orig[q],
         \A n \in Names : n # CacheName[p] => cache'[n] = cache[n],
         Transit(q) => Transit(q)'
  PROVE  FilesGoOn(q)
<1>1. CacheName[q] # CacheName[p] /\ CacheName[q] \in Names
  BY CacheNameAssumption DEF DistinctNames
<1> QED
  BY <1>1 DEF FilesGoOn, Current

LEMMA NowNext ==
  ASSUME CInv, NEW now \in Now PROVE now \in Nat /\ clock <= now /\ 0 < now
BY DEF Now, CInv, HInv, TInv, TypeOK, SInv, Clocked

(* A copy gets new contents. *)
LEMMA FillSaved ==
  ASSUME CInv, LInv', HInv', DistinctNames, NEW w \in Workers,
         pc[w] \in {"copy", "data"}, pc'[w] \in {"data", "accessed"}, pc[w] # pc'[w],
         call'[w].path = call[w].path,
         \A v \in Workers : v # w => pc'[v] = pc[v] /\ call'[v] = call[v],
         NEW data, NEW now \in Now, cache' = [cache EXCEPT ![Ccfn(w)] = File(data, now)],
         clock' = now, UNCHANGED <<orig, desc, tables, users>>
  PROVE  SInv'
<1>0. PICK p \in Paths : p = call[w].path /\ CacheName[p] = Ccfn(w) /\ CacheName[p] \in Names
  BY CacheNameAssumption DEF CInv, HInv, TInv, Args, OpenLabels, Ccfn
<1>1. /\ cache'[CacheName[p]] = File(data, now)
      /\ \A n \in Names : n # CacheName[p] => cache'[n] = cache[n]
      /\ clock \in Nat /\ \A q \in Paths : orig[q].mtime \in Nat
      /\ \A n \in Names : cache[n].mtime \in Nat
  BY <1>0 DEF CInv, HInv, TInv, TypeOK, Files
<1>2. Exists(cache'[CacheName[p]])
  BY <1>1, NowNext, WrittenExists DEF File
<1>3. Clocked'
  BY <1>1, NowNext DEF CInv, SInv, Clocked, File
<1>4. Exists(orig[p]) /\ MayFill(w)
  BY <1>0 DEF CInv, SInv, Present, InUse, OpenLabels, CopyingIn, CopyLabels
<1>5. \A v \in Workers : GoesOn(v)
  BY <1>0, <1>2, <1>4 DEF GoesOn, OpenLabels, OpenedLabels, CopyLabels, FilledLabels
<1>6. \A q \in Paths : Transit(q) => Transit(q)'
  BY DEF Transit
<1>7. FilesGoOn(p)
  <2>1. NothingOwed(p)'
    BY <1>0, <1>4 DEF MayFill, NothingOwed, users, ReleaseLabels, WriteBackLabels, CopyBackLabels
  <2>2. Current(p)'
    BY <1>1, NowNext DEF CInv, SInv, Clocked, Current, File
  <2> QED
    BY <1>4, <2>1, <2>2 DEF FilesGoOn
<1>8. \A q \in Paths : FilesGoOn(q)
  BY <1>1, <1>6, <1>7, OtherFiles
<1>9. \A n \in Names : Exists(cache[n]) => Exists(cache'[n])
  BY <1>1, <1>2
<1> QED
  BY <1>3, <1>5, <1>8, <1>9, CalmFrame DEF tables, users, CInv, SInv, OwnIndex, HandlesKept

(* A copy, which may have been emptied under its open, gets the time of its original. *)
LEMMA TouchSaved ==
  ASSUME CInv, LInv', HInv', DistinctNames, NEW w \in Workers, NEW p \in Paths, p = call[w].path,
         pc[w] \in {"touch", "rel_touch"}, call' = call,
         pc[w] = "touch" => pc'[w] = "open",
         pc[w] = "rel_touch" => pc'[w] = "rel_accessed",
         \A v \in Workers : v # w => pc'[v] = pc[v],
         cache' = Touched(CacheName[p], p), UNCHANGED <<orig, clock, desc, tables, users>>
  PROVE  SInv'
<1>0. /\ CacheName[p] \in Names /\ Exists(orig[p]) /\ Exists(cache[CacheName[p]])
      /\ cache \in [Names -> Files] /\ orig \in [Paths -> Files]
  BY CacheNameAssumption
     DEF CInv, SInv, Present, InUse, HasCopy, OpenLabels, FilledLabels, ReleaseLabels,
         WriteBackLabels, CopyBackLabels, HInv, TInv, TypeOK
<1>1. /\ cache'[CacheName[p]].data = cache[CacheName[p]].data
      /\ cache'[CacheName[p]].mtime = orig[p].mtime
      /\ \A n \in Names : n # CacheName[p] => cache'[n] = cache[n]
  BY <1>0 DEF Touched, Files
<1>2. Exists(cache'[CacheName[p]])
  <2>1. 0 < orig[p].mtime
    BY <1>0 DEF CInv, SInv, Clocked
  <2> QED
    BY <1>1, <2>1, WrittenExists
<1>3. Current(p)'
  BY <1>0, <1>1 DEF Current, Files
<1>4. Clocked'
  BY <1>1 DEF CInv, SInv, Clocked
<1>5. \A v \in Workers : GoesOn(v)
  <2>1. CASE pc[w] = "touch"
    BY <1>0, <1>2, <1>3, <2>1
       DEF GoesOn, OpenLabels, OpenedLabels, CopyLabels, FilledLabels, Current
  <2>2. CASE pc[w] = "rel_touch"
    BY <2>2 DEF GoesOn, ReleaseLabels, WriteBackLabels, CopyBackLabels, CInv, SInv, Finished
  <2> QED
    BY <2>1, <2>2
<1>6. \A q \in Paths : q # p /\ Transit(q) => Transit(q)'
  BY DEF Transit
<1>7. FilesGoOn(p)
  BY <1>0, <1>1, <1>3 DEF FilesGoOn
<1>8. \A q \in Paths : FilesGoOn(q)
  BY <1>1, <1>6, <1>7, OtherFiles
<1>9. \A n \in Names : Exists(cache[n]) => Exists(cache'[n])
  BY <1>1, <1>2
<1> QED
  BY <1>4, <1>5, <1>8, <1>9, CalmFrame DEF tables, users, CInv, SInv, OwnIndex, HandlesKept

(* The original of a release gets the contents of the copy. *)
LEMMA CopyBackSaved ==
  ASSUME CInv, LInv', HInv', DistinctNames, NEW w \in Workers, NEW p \in Paths, p = call[w].path,
         \/ pc[w] = "rel_copy" /\ pc'[w] = "rel_data" /\ call'[w].dest # None
         \/ pc[w] = "rel_data" /\ pc'[w] = "rel_touch" /\ call'[w].unsaved = {},
         call'[w].path = call[w].path, call'[w].unsaved \subseteq call[w].unsaved,
         \A v \in Workers : v # w => /\ pc'[v] = pc[v]
                                     /\ call'[v].path = call[v].path
                                     /\ call'[v].fd = call[v].fd
                                     /\ call'[v].dest = call[v].dest
                                     /\ call'[v].unsaved \subseteq call[v].unsaved,
         NEW data, NEW now \in Now, orig' = [orig EXCEPT ![p] = File(data, now)],
         clock' = now, UNCHANGED <<cache, desc, tables>>, HandlesKept
  PROVE  SInv'
<1>1. /\ orig'[p] = File(data, now)
      /\ \A q \in Paths : q # p => orig'[q] = orig[q]
      /\ clock \in Nat /\ \A q \in Paths : orig[q].mtime \in Nat
      /\ \A n \in Names : cache[n].mtime \in Nat
  BY DEF CInv, HInv, TInv, TypeOK, Files
<1>2. Exists(orig'[p])
  BY <1>1, NowNext, WrittenExists DEF File
<1>3. Clocked'
  BY <1>1, NowNext DEF CInv, SInv, Clocked, File
<1>4. \A v \in Workers : GoesOn(v)
  BY DEF GoesOn, ReleaseLabels, WriteBackLabels, CopyBackLabels
<1>5. \A q \in Paths : Transit(q) => Transit(q)'
  BY DEF Transit
<1>6. FilesGoOn(p)
  <2>1. Transit(p)'
    BY DEF Transit
  <2> QED
    BY <1>2, <2>1 DEF FilesGoOn
<1>7. \A q \in Paths : FilesGoOn(q)
  BY <1>1, <1>5, <1>6, OtherFiles
<1> QED
  BY <1>3, <1>4, <1>7, CalmFrame DEF tables, CInv, SInv, OwnIndex

(* An open has got a descriptor on the copy. *)
LEMMA OpenedSaved ==
  ASSUME CInv, DistinctNames, NEW w \in Workers, NEW f \in FreeFds, pc[w] = "open",
         Goto(w, "create"), call' = [call EXCEPT ![w].fd = f],
         desc' = [desc EXCEPT ![f] = On("cache", Ccfn(w))], Exists(cache[Ccfn(w)]),
         UNCHANGED <<store, tables, users>>
  PROVE  SInv'
<1>0. /\ pc'[w] = "create" /\ call'[w].path = call[w].path /\ call'[w].fd = f
      /\ \A v \in Workers : v # w => pc'[v] = pc[v] /\ call'[v] = call[v]
      /\ desc'[f] = On("cache", Ccfn(w)) /\ \A g \in Fds : g # f => desc'[g] = desc[g]
      /\ f \in Fds /\ call[w].path \in Paths
      /\ UNCHANGED <<orig, cache, clock, localFH2LocalFile, handle,
                     localCacheFileName2originalFullPathName>>
  BY DEF Goto, CInv, HInv, TInv, TypeOK, Locals, Args, OpenLabels, FreeFds, store, tables, users
<1>1. /\ \A v \in Workers : v # w => pc'[v] = pc[v] /\ call'[v].path = call[v].path
      /\ \A p \in Paths : /\ Transit(p)' <=> Transit(p)
                          /\ Current(p)' <=> Current(p)
                          /\ InUse(p)' => InUse(p)
                          /\ NothingOwed(p) => NothingOwed(p)'
  BY <1>0 DEF Transit, Current, InUse, NothingOwed, OpenLabels, ReleaseLabels, WriteBackLabels,
              CopyBackLabels
<1>2. Clocked' /\ OwnIndex'
  BY <1>0 DEF CInv, SInv, Clocked, OwnIndex
<1>3. NoDirect'
  BY <1>0 DEF CInv, SInv, NoDirect, On
<1>4. Owned'
  <2>1. \A v \in Workers : pc[v] \in OpenedLabels => pc'[v] \in OpenedLabels /\ call'[v] = call[v]
    BY <1>0 DEF OpenedLabels
  <2> QED
    BY <1>0, <2>1 DEF CInv, SInv, Owned, OpenedLabels
<1>5. Present'
  BY <1>0, <1>1 DEF CInv, SInv, Present
<1>6. HasCopy'
  BY <1>0 DEF CInv, SInv, HasCopy, On, FilledLabels, ReleaseLabels, WriteBackLabels, CopyBackLabels
<1>7. Kept'
  <2>1. \A v \in Workers : pc'[v] \in ReleaseLabels => pc[v] \in ReleaseLabels /\ call'[v] = call[v]
    BY <1>0 DEF ReleaseLabels, WriteBackLabels, CopyBackLabels
  <2>2. \A p \in Paths, S \in SUBSET Chunks : Safe(p, S) => Safe(p, S)'
    BY <1>0, <1>1 DEF Safe
  <2>3. ASSUME NEW g \in Fds, handle'[g].path # None PROVE Safe(handle[g].path, handle[g].unsaved)'
    <3>1. PICK p \in Paths, S \in SUBSET Chunks : p = handle[g].path /\ S = handle[g].unsaved
      BY <1>0, <2>3 DEF CInv, HInv, TInv, TypeOK, Handles
    <3>2. Safe(p, S)'
      BY <1>0, <2>2, <2>3, <3>1 DEF CInv, SInv, Kept
    <3> QED
      BY <1>0, <3>1, <3>2 DEF Safe, Current, Transit
  <2>4. ASSUME NEW v \in Workers, pc'[v] \in ReleaseLabels PROVE Safe(call[v].path, call[v].unsaved)'
    <3>1. PICK p \in Paths, S \in SUBSET Chunks : p = call[v].path /\ S = call[v].unsaved
      BY <2>1, <2>4 DEF CInv, HInv, TInv, TypeOK, Locals, Args
    <3>2. Safe(p, S)'
      BY <2>1, <2>2, <2>4, <3>1 DEF CInv, SInv, Kept
    <3> QED
      BY <2>1, <2>4, <3>1, <3>2 DEF Safe, Current, Transit
  <2> QED
    BY <2>3, <2>4 DEF Kept
<1>8. CopyingIn'
  <2>1. SUFFICES ASSUME NEW v \in Workers, pc'[v] \in CopyLabels PROVE MayFill(v)'
    BY DEF CopyingIn
  <2>2. v # w /\ pc[v] \in CopyLabels /\ call'[v] = call[v] /\ MayFill(v)
    BY <1>0, <2>1 DEF CopyLabels, CInv, SInv, CopyingIn
  <2>3. Ccfn(v) # Ccfn(w)
    BY <2>2 DEF CInv, LInv, LockScope, CopyInLabels, CopyLabels
  <2>4. PICK p \in Paths : p = call[v].path
    BY <2>2 DEF CInv, HInv, TInv, Args, OpenLabels, CopyLabels
  <2>5. NothingOwed(p)'
    BY <1>1, <2>2, <2>4 DEF MayFill
  <2> QED
    BY <1>0, <2>2, <2>3, <2>4, <2>5 DEF MayFill, NothingOwed, Ccfn, On
<1>9. Newer'
  <2>1. CASE OneWorker
    BY <2>1 DEF Newer, OneWorker
  <2>2. CASE ~OneWorker
    <3>1. ASSUME NEW p \in Paths, NEW g \in Fds, desc'[g] = On("cache", CacheName[p])
          PROVE  (Current(p) \/ Transit(p))'
      <4>1. CASE g = f
        <5>1. p = call[w].path
          BY <1>0, <3>1, <4>1 DEF DistinctNames, Ccfn, On
        <5> QED
          BY <1>1, <2>2, <5>1 DEF CInv, SInv, Newer
      <4>2. CASE g # f
        BY <1>0, <1>1, <2>2, <3>1, <4>2 DEF CInv, SInv, Newer
      <4> QED
        BY <4>1, <4>2
    <3>2. ASSUME NEW v \in Workers, pc'[v] = "open" PROVE Current(call[v].path)'
      BY <1>0, <2>2, <3>2 DEF CInv, SInv, Newer, Current
    <3> QED
      BY <3>1, <3>2 DEF Newer
  <2> QED
    BY <2>1, <2>2
<1>10. Finished'
  BY <1>0 DEF CInv, SInv, Finished, NeedsWriteBack
<1> QED
  BY <1>2, <1>3, <1>4, <1>5, <1>6, <1>7, <1>8, <1>9, <1>10 DEF SInv

(* The user gets the handle. *)
LEMMA OpenAppendSaved ==
  ASSUME CInv, HInv', NEW w \in Workers, OpenAppend(w) PROVE SInv'
<1>0. PICK p \in Paths, f \in Fds : p = call[w].path /\ f = call[w].fd
  BY DEF OpenAppend, CInv, HInv, TInv, Args, OpenLabels, DescriptorLabels
<1>1. /\ pc[w] = "append" /\ pc'[w] = "idle" /\ call'[w] = NoCall
      /\ \A v \in Workers : v # w => pc'[v] = pc[v] /\ call'[v] = call[v]
      /\ handle'[f] = [path |-> p, unsaved |-> {}]
      /\ \A g \in Fds : g # f => handle'[g] = handle[g]
      /\ UNCHANGED <<orig, cache, clock, desc, localFH2LocalFile>>
      /\ localCacheFileName2originalFullPathName' =
            [localCacheFileName2originalFullPathName EXCEPT ![CacheName[p]] = p]
  BY <1>0 DEF OpenAppend, Leave, Return, Goto, GiveHandle, Ccfn, CInv, HInv, TInv, TypeOK, store
<1>2. \A q \in Paths : /\ Transit(q)' <=> Transit(q)
                       /\ Current(q)' <=> Current(q)
                       /\ InUse(q)' => InUse(q)
                       /\ NothingOwed(q) => NothingOwed(q)'
  BY <1>0, <1>1 DEF Transit, Current, InUse, NothingOwed, OpenLabels, ReleaseLabels,
                    WriteBackLabels, CopyBackLabels
<1>3. Clocked'
  BY <1>1 DEF CInv, SInv, Clocked
<1>4. OwnIndex'
  BY <1>1 DEF CInv, SInv, OwnIndex, HInv, TInv, TypeOK
<1>5. NoDirect'
  BY <1>1 DEF CInv, SInv, NoDirect
<1>6. Owned'
  <2>1. p # None
    BY NoneAssumption
  <2>2. \A g \in Fds : g # f /\ desc[g] # Closed =>
           handle[g].path # None \/ \E v \in Workers : v # w /\ pc[v] \in OpenedLabels /\ call[v].fd = g
    BY <1>0 DEF CInv, SInv, Owned
  <2> QED
    BY <1>1, <2>1, <2>2 DEF Owned
<1>7. Present'
  BY <1>1, <1>2 DEF CInv, SInv, Present
<1>8. HasCopy'
  BY <1>1 DEF CInv, SInv, HasCopy, FilledLabels, ReleaseLabels, WriteBackLabels, CopyBackLabels
<1>9. Kept'
  <2>1. \A q \in Paths : \A S : Safe(q, S) => Safe(q, S)'
    BY <1>1, <1>2 DEF Safe
  <2>2. ASSUME NEW g \in Fds, handle'[g].path # None PROVE Safe(handle[g].path, handle[g].unsaved)'
    <3>1. PICK q \in Paths : q = handle'[g].path
      BY <2>2 DEF HInv, TInv, TypeOK, Handles
    <3>2. PICK S : S = handle'[g].unsaved
      OBVIOUS
    <3>3. Safe(q, S)
      BY <1>1, <2>2, <3>1, <3>2 DEF CInv, SInv, Kept, Safe
    <3>4. Safe(q, S)'
      BY <2>1, <3>3
    <3> QED
      BY <3>1, <3>2, <3>4 DEF Safe, Current, Transit
  <2>3. ASSUME NEW v \in Workers, pc'[v] \in ReleaseLabels PROVE Safe(call[v].path, call[v].unsaved)'
    <3>1. pc[v] \in ReleaseLabels /\ call'[v] = call[v]
      BY <1>1, <2>3 DEF ReleaseLabels, WriteBackLabels, CopyBackLabels
    <3>2. PICK q \in Paths : q = call[v].path
      BY <3>1 DEF CInv, HInv, TInv, Args
    <3>3. PICK S : S = call[v].unsaved
      OBVIOUS
    <3>4. Safe(q, S)'
      BY <2>1, <3>1, <3>2, <3>3 DEF CInv, SInv, Kept
    <3> QED
      BY <3>1, <3>2, <3>3, <3>4 DEF Safe, Current, Transit
  <2> QED
    BY <2>2, <2>3 DEF Kept
<1>10. CopyingIn'
  <2>1. SUFFICES ASSUME NEW v \in Workers, pc'[v] \in CopyLabels PROVE MayFill(v)'
    BY DEF CopyingIn
  <2>2. pc[v] \in CopyLabels /\ call'[v] = call[v] /\ MayFill(v)
    BY <1>1, <2>1 DEF CopyLabels, CInv, SInv, CopyingIn
  <2>3. PICK q \in Paths : q = call[v].path
    BY <2>2 DEF CInv, HInv, TInv, Args, OpenLabels, CopyLabels
  <2>4. NothingOwed(q)'
    BY <1>2, <2>2, <2>3 DEF MayFill
  <2> QED
    BY <1>1, <2>2, <2>3, <2>4 DEF MayFill, NothingOwed, Ccfn
<1>11. Newer'
  <2>1. CASE OneWorker
    BY <2>1 DEF Newer, OneWorker
  <2>2. CASE ~OneWorker
    BY <1>1, <1>2, <2>2 DEF CInv, SInv, Newer, Current
  <2> QED
    BY <2>1, <2>2
<1>12. Finished'
  BY <1>1 DEF CInv, SInv, Finished, NeedsWriteBack
<1> QED
  BY <1>3, <1>4, <1>5, <1>6, <1>7, <1>8, <1>9, <1>10, <1>11, <1>12 DEF SInv

(* A write goes to the copy, which is then newer than the original. *)
LEMMA WriteSaved ==
  ASSUME CInv, HInv', DistinctNames, "nospace" \notin Calls,
         NEW w \in Workers, NEW f \in Fds, Write(w, f)
  PROVE  SInv'
<1>0. PICK p \in Paths, n \in Names : p = handle[f].path /\ n = CacheName[p]
  BY CacheNameAssumption DEF Write, CInv, HInv, TInv, TypeOK, Handles
<1>1. desc[f] = On("cache", n)
  <2>1. EntryFor(f, p)
    BY <1>0 DEF Write, CInv, HInv, Entries
  <2> QED
    BY <1>0, <2>1 DEF EntryFor, OnCopy, OnOriginal, On, CInv, SInv, NoDirect
<1>2. PICK now \in Now, chunk \in {Chunk(handle[f].path, writes + 1)} :
         /\ cache' = [cache EXCEPT ![n] = File(@.data \cup {chunk}, now)]
         /\ clock' = now /\ orig' = orig
         /\ handle' = [handle EXCEPT ![f].unsaved = @ \cup {chunk}]
  <2>1. desc[f].on = "cache" /\ desc[f].name = n
    BY <1>1 DEF On
  <2> QED
    BY <2>1 DEF Write
<1>3. /\ pc[w] = "idle" /\ pc'[w] = "flag"
      /\ \A v \in Workers : v # w => pc'[v] = pc[v] /\ call'[v] = call[v]
      /\ UNCHANGED <<desc, localFH2LocalFile, localCacheFileName2originalFullPathName>>
      /\ \A g \in Fds : g # f => handle'[g] = handle[g]
      /\ handle'[f].path = p /\ handle'[f].unsaved = handle[f].unsaved \cup {chunk}
      /\ cache'[n].data = cache[n].data \cup {chunk} /\ cache'[n].mtime = now
      /\ now \in Nat /\ clock <= now /\ 0 < now
      /\ \A m \in Names : m # n => cache'[m] = cache[m]
      /\ clock \in Nat /\ \A q \in Paths : orig[q].mtime \in Nat
      /\ \A m \in Names : cache[m].mtime \in Nat
  <2>1. pc[w] = "idle" /\ pc' = [pc EXCEPT ![w] = "flag"] /\ call' = [call EXCEPT ![w].fd = f] /\ UNCHANGED <<desc, tables>>
    BY DEF Write, Goto
  <2>2. /\ pc \in [Workers -> Labels] /\ call \in [Workers -> Locals]
        /\ handle \in [Fds -> Handles] /\ cache \in [Names -> Files] /\ orig \in [Paths -> Files]
        /\ clock \in Nat
    BY DEF CInv, HInv, TInv, TypeOK
  <2>3. pc'[w] = "flag" /\ \A v \in Workers : v # w => pc'[v] = pc[v] /\ call'[v] = call[v]
    BY <2>1, <2>2
  <2>4. /\ \A g \in Fds : g # f => handle'[g] = handle[g]
        /\ handle'[f].path = p /\ handle'[f].unsaved = handle[f].unsaved \cup {chunk}
    <3>1. handle[f] \in Handles
      BY <2>2
    <3>2. handle'[f] = [handle[f] EXCEPT !.unsaved = @ \cup {chunk}]
      BY <1>2, <2>2
    <3> QED
      BY <1>0, <1>2, <2>2, <3>1, <3>2 DEF Handles
  <2>5. /\ cache'[n].data = cache[n].data \cup {chunk} /\ cache'[n].mtime = now
        /\ \A m \in Names : m # n => cache'[m] = cache[m]
    BY <1>2, <2>2 DEF File
  <2>6. now \in Nat /\ clock <= now /\ 0 < now
    BY <1>2, NowNext
  <2>7. (\A q \in Paths : orig[q].mtime \in Nat) /\ \A m \in Names : cache[m].mtime \in Nat
    BY <2>2 DEF Files
  <2> QED
    BY <2>1, <2>2, <2>3, <2>4, <2>5, <2>6, <2>7 DEF tables
<1>4. /\ Current(p)'
      /\ \A q \in Paths : /\ Transit(q)' <=> Transit(q)
                          /\ q # p => (Current(q)' <=> Current(q))
                          /\ InUse(q)' => InUse(q)
                          /\ q # p /\ NothingOwed(q) => NothingOwed(q)'
                          /\ q # p => CacheName[q] # n
  <2>1. Current(p)'
    BY <1>0, <1>2, <1>3 DEF CInv, SInv, Clocked, Current
  <2>2. \A q \in Paths : q # p => CacheName[q] # n /\ CacheName[q] \in Names
    BY <1>0, CacheNameAssumption DEF DistinctNames
  <2>3. \A q \in Paths : /\ Transit(q)' <=> Transit(q)
                         /\ InUse(q)' => InUse(q)
                         /\ q # p /\ NothingOwed(q) => NothingOwed(q)'
    BY <1>0, <1>3 DEF Transit, InUse, NothingOwed, OpenLabels, ReleaseLabels, WriteBackLabels,
                      CopyBackLabels
  <2>4. \A q \in Paths : q # p => (Current(q)' <=> Current(q))
    BY <1>2, <1>3, <2>2 DEF Current
  <2> QED
    BY <2>1, <2>2, <2>3, <2>4
<1>5. Clocked'
  <2>1. \A q \in Paths : orig'[q].mtime <= clock' /\ (Exists(orig'[q]) => 0 < orig'[q].mtime)
    BY <1>2, <1>3 DEF CInv, SInv, Clocked
  <2>2. ASSUME NEW m \in Names PROVE cache'[m].mtime <= clock'
    <3>1. CASE m = n
      BY <1>2, <1>3, <3>1
    <3>2. CASE m # n
      <4>1. cache'[m] = cache[m] /\ cache[m].mtime <= clock /\ cache[m].mtime \in Nat
        BY <1>3, <3>2 DEF CInv, SInv, Clocked
      <4> QED
        BY <1>2, <1>3, <4>1
    <3> QED
      BY <3>1, <3>2
  <2> QED
    BY <1>2, <1>3, <2>1, <2>2 DEF Clocked
<1>6. OwnIndex'
  BY <1>3 DEF CInv, SInv, OwnIndex
<1>7. NoDirect'
  BY <1>3 DEF CInv, SInv, NoDirect
<1>8. Owned'
  <2>1. \A v \in Workers : pc[v] \in OpenedLabels => pc'[v] \in OpenedLabels /\ call'[v] = call[v]
    BY <1>3 DEF OpenedLabels
  <2> QED
    BY <1>0, <1>3, <2>1 DEF CInv, SInv, Owned
<1>9. Present'
  BY <1>2, <1>4 DEF CInv, SInv, Present
<1>10. HasCopy'
  <2>1. \A m \in Names : Exists(cache[m]) => Exists(cache'[m])
    BY <1>3, WrittenExists
  <2>2. \A v \in Workers : pc'[v] \in FilledLabels \cup ReleaseLabels =>
           /\ pc[v] \in FilledLabels \cup ReleaseLabels /\ call'[v] = call[v]
           /\ CacheName[call[v].path] \in Names
    BY <1>3, CacheNameAssumption DEF FilledLabels, ReleaseLabels, WriteBackLabels, CopyBackLabels,
           OpenLabels, CInv, HInv, TInv, Args
  <2>3. \A g \in Fds : desc[g].on = "cache" => desc[g].name \in Names
    BY DEF CInv, HInv, TInv, TypeOK, Descriptions
  <2> QED
    BY <1>3, <2>1, <2>2, <2>3 DEF CInv, SInv, HasCopy
<1>11. Kept'
  <2>1. \A q \in Paths : \A S, T : Safe(q, S) /\ (T = S \/ (q = p /\ T = S \cup {chunk})) => Safe(q, T)'
    BY <1>0, <1>3, <1>4, CacheNameAssumption DEF Safe
  <2>2. ASSUME NEW g \in Fds, handle'[g].path # None PROVE Safe(handle[g].path, handle[g].unsaved)'
    <3>1. PICK q \in Paths : q = handle[g].path /\ q = handle'[g].path
      BY <1>0, <1>3, <2>2 DEF CInv, HInv, TInv, TypeOK, Handles
    <3>2. PICK S, T : S = handle[g].unsaved /\ T = handle'[g].unsaved
      OBVIOUS
    <3>3. Safe(q, S)
      BY <2>2, <3>1, <3>2 DEF CInv, SInv, Kept
    <3>4. T = S \/ (q = p /\ T = S \cup {chunk})
      BY <1>0, <1>3, <3>1, <3>2
    <3>5. Safe(q, T)'
      BY <2>1, <3>3, <3>4
    <3> QED
      BY <3>1, <3>2, <3>5 DEF Safe, Current, Transit
  <2>3. ASSUME NEW v \in Workers, pc'[v] \in ReleaseLabels PROVE Safe(call[v].path, call[v].unsaved)'
    <3>1. pc[v] \in ReleaseLabels /\ call'[v] = call[v]
      BY <1>3, <2>3 DEF ReleaseLabels, WriteBackLabels, CopyBackLabels
    <3>2. PICK q \in Paths : q = call[v].path
      BY <3>1 DEF CInv, HInv, TInv, Args
    <3>3. PICK S : S = call[v].unsaved
      OBVIOUS
    <3>4. Safe(q, S)
      BY <3>1, <3>2, <3>3 DEF CInv, SInv, Kept
    <3>5. Safe(q, S)'
      BY <2>1, <3>4
    <3> QED
      BY <3>1, <3>2, <3>3, <3>5 DEF Safe, Current, Transit
  <2> QED
    BY <2>2, <2>3 DEF Kept
<1>12. CopyingIn'
  <2>1. SUFFICES ASSUME NEW v \in Workers, pc'[v] \in CopyLabels PROVE MayFill(v)'
    BY DEF CopyingIn
  <2>2. v # w /\ pc[v] \in CopyLabels /\ call'[v] = call[v] /\ MayFill(v)
    BY <1>3, <2>1 DEF CopyLabels, CInv, SInv, CopyingIn
  <2>3. PICK q \in Paths : q = call[v].path
    BY <2>2 DEF CInv, HInv, TInv, Args, OpenLabels, CopyLabels
  <2>4. q # p
    BY <1>0, <1>1, <2>2, <2>3 DEF MayFill, Ccfn, OneWorker
  <2>5. NothingOwed(q)'
    BY <1>4, <2>2, <2>3, <2>4 DEF MayFill
  <2> QED
    BY <1>3, <2>2, <2>3, <2>5 DEF MayFill, NothingOwed, Ccfn
<1>13. Newer'
  <2>1. CASE OneWorker
    BY <2>1 DEF Newer, OneWorker
  <2>2. CASE ~OneWorker
    <3>1. ASSUME NEW v \in Workers, pc'[v] = "open" PROVE Current(call[v].path)'
      <4>1. pc[v] = "open" /\ call'[v] = call[v]
        BY <1>3, <3>1
      <4>2. PICK q \in Paths : q = call[v].path
        BY <4>1 DEF CInv, HInv, TInv, Args, OpenLabels
      <4>3. Current(q)'
        BY <1>4, <2>2, <4>1, <4>2 DEF CInv, SInv, Newer
      <4> QED
        BY <4>1, <4>2, <4>3 DEF Current
    <3>2. \A q \in Paths, g \in Fds : desc'[g] = On("cache", CacheName[q]) => (Current(q) \/ Transit(q))'
      BY <1>3, <1>4, <2>2 DEF CInv, SInv, Newer
    <3> QED
      BY <3>1, <3>2 DEF Newer
  <2> QED
    BY <2>1, <2>2
<1>14. Finished'
  BY <1>3 DEF CInv, SInv, Finished, NeedsWriteBack
<1> QED
  BY <1>5, <1>6, <1>7, <1>8, <1>9, <1>10, <1>11, <1>12, <1>13, <1>14 DEF SInv

(* A release takes the handle from its user, with what is owed to the original. *)
LEMMA ReleaseCloseSaved ==
  ASSUME CInv, HInv', NEW w \in Workers, NEW f \in Fds, ReleaseClose(w, f) PROVE SInv'
<1>0. PICK p \in Paths, owed \in SUBSET Chunks : p = handle[f].path /\ owed = handle[f].unsaved
  BY DEF ReleaseClose, CInv, HInv, TInv, TypeOK, Handles
<1>1. /\ pc[w] = "idle" /\ pc'[w] = "rel_get"
      /\ call'[w].path = p /\ call'[w].fd = f /\ call'[w].unsaved = owed
      /\ \A v \in Workers : v # w => pc'[v] = pc[v] /\ call'[v] = call[v]
      /\ desc'[f] = Closed /\ \A g \in Fds : g # f => desc'[g] = desc[g]
      /\ handle'[f] = NoHandle /\ \A g \in Fds : g # f => handle'[g] = handle[g]
      /\ UNCHANGED <<orig, cache, clock, localFH2LocalFile, localCacheFileName2originalFullPathName>>
  BY <1>0 DEF ReleaseClose, Goto, CInv, HInv, TInv, TypeOK, Locals, store, tables
<1>2. EntryFor(f, p) /\ desc[f] = On("cache", CacheName[p])
  <2>1. EntryFor(f, p)
    BY <1>0 DEF ReleaseClose, CInv, HInv, Entries
  <2> QED
    BY <1>0, <2>1 DEF EntryFor, OnCopy, OnOriginal, On, CInv, SInv, NoDirect
<1>3. \A q \in Paths : /\ Transit(q)' <=> Transit(q)
                       /\ Current(q)' <=> Current(q)
                       /\ InUse(q)' => InUse(q)
                       /\ NothingOwed(q) => NothingOwed(q)'
  <2>1. \A q \in Paths : (Transit(q)' <=> Transit(q)) /\ (Current(q)' <=> Current(q))
    BY <1>1 DEF Transit, Current
  <2>2. \A q \in Paths : InUse(q)' => InUse(q)
    BY <1>0, <1>1, NoneAssumption DEF InUse, NoHandle
  <2>3. \A q \in Paths : NothingOwed(q) => NothingOwed(q)'
    BY <1>0, <1>1 DEF NothingOwed, NoHandle
  <2> QED
    BY <2>1, <2>2, <2>3
<1>4. Clocked' /\ OwnIndex'
  BY <1>1 DEF CInv, SInv, Clocked, OwnIndex
<1>5. NoDirect'
  BY <1>1 DEF CInv, SInv, NoDirect, Closed, On
<1>6. Owned'
  <2>1. \A v \in Workers : pc[v] \in OpenedLabels => pc'[v] \in OpenedLabels /\ call'[v] = call[v]
    BY <1>1 DEF OpenedLabels
  <2> QED
    BY <1>1, <2>1 DEF CInv, SInv, Owned
<1>7. Present'
  BY <1>1, <1>3 DEF CInv, SInv, Present
<1>8. HasCopy'
  <2>1. Exists(cache[CacheName[p]])
    BY <1>2 DEF CInv, SInv, HasCopy, On
  <2>2. \A g \in Fds : desc'[g].on = "cache" => Exists(cache'[desc'[g].name])
    BY <1>1 DEF CInv, SInv, HasCopy, Closed, On
  <2>3. \A v \in Workers : pc'[v] \in FilledLabels \cup ReleaseLabels => Exists(cache'[CacheName[call'[v].path]])
    BY <1>1, <2>1 DEF CInv, SInv, HasCopy
  <2> QED
    BY <2>2, <2>3 DEF HasCopy
<1>9. Kept'
  <2>1. \A q \in Paths : \A S : Safe(q, S) => Safe(q, S)'
    BY <1>1, <1>3 DEF Safe
  <2>2. ASSUME NEW g \in Fds, handle'[g].path # None PROVE Safe(handle[g].path, handle[g].unsaved)'
    <3>1. g # f
      BY <1>1, <2>2 DEF NoHandle
    <3>2. PICK q \in Paths : q = handle[g].path
      BY <1>1, <2>2, <3>1 DEF CInv, HInv, TInv, TypeOK, Handles
    <3>3. PICK S : S = handle[g].unsaved
      OBVIOUS
    <3>4. Safe(q, S)'
      BY <1>1, <2>1, <2>2, <3>1, <3>2, <3>3 DEF CInv, SInv, Kept
    <3> QED
      BY <1>1, <3>1, <3>2, <3>3, <3>4 DEF Safe, Current, Transit
  <2>3. ASSUME NEW v \in Workers, pc'[v] \in ReleaseLabels PROVE Safe(call[v].path, call[v].unsaved)'
    <3>1. PICK q \in Paths : q = call'[v].path
      BY <2>3 DEF HInv, TInv, Args
    <3>2. PICK S : S = call'[v].unsaved
      OBVIOUS
    <3>3. Safe(q, S)
      <4>1. CASE v = w
        BY <1>0, <1>1, <3>1, <3>2, <4>1, NoneAssumption DEF CInv, SInv, Kept
      <4>2. CASE v # w
        BY <1>1, <2>3, <3>1, <3>2, <4>2 DEF CInv, SInv, Kept
      <4> QED
        BY <4>1, <4>2
    <3>4. Safe(q, S)'
      BY <2>1, <3>3
    <3> QED
      BY <3>1, <3>2, <3>4 DEF Safe, Current, Transit
  <2> QED
    BY <2>2, <2>3 DEF Kept
<1>10. CopyingIn'
  <2>1. SUFFICES ASSUME NEW v \in Workers, pc'[v] \in CopyLabels PROVE MayFill(v)'
    BY DEF CopyingIn
  <2>2. pc[v] \in CopyLabels /\ call'[v] = call[v] /\ MayFill(v)
    BY <1>1, <2>1 DEF CopyLabels, CInv, SInv, CopyingIn
  <2>3. PICK q \in Paths : q = call[v].path
    BY <2>2 DEF CInv, HInv, TInv, Args, OpenLabels, CopyLabels
  <2>4. NothingOwed(q)'
    BY <1>3, <2>2, <2>3 DEF MayFill
  <2>5. \A g \in Fds : desc'[g] = On("cache", Ccfn(v)) => desc[g] = On("cache", Ccfn(v))
    BY <1>1 DEF Closed, On
  <2> QED
    BY <1>1, <2>2, <2>3, <2>4, <2>5 DEF MayFill, NothingOwed, Ccfn
<1>11. Newer'
  <2>1. CASE OneWorker
    BY <2>1 DEF Newer, OneWorker
  <2>2. CASE ~OneWorker
    <3>1. \A q \in Paths, g \in Fds : desc'[g] = On("cache", CacheName[q]) => (Current(q) \/ Transit(q))'
      BY <1>1, <1>3, <2>2 DEF CInv, SInv, Newer, Closed, On
    <3>2. \A v \in Workers : pc'[v] = "open" => Current(call[v].path)'
      BY <1>1, <2>2 DEF CInv, SInv, Newer, Current
    <3> QED
      BY <3>1, <3>2 DEF Newer
  <2> QED
    BY <2>1, <2>2
<1>12. Finished'
  <2>1. owed # {} => NeedsWriteBack(localFH2LocalFile[f])
    <3>1. localFH2LocalFile[f].isCached
      <4>1. ~OnOriginal(f, p)
        BY <1>2 DEF OnOriginal, On
      <4> QED
        BY <1>2, <4>1 DEF EntryFor, OnCopy, On, LocalFile
    <3>2. owed # {} => localFH2LocalFile[f].isDirty
      BY <1>0, NoneAssumption DEF CInv, HInv, Dirty, ReleaseClose
    <3> QED
      BY <3>1, <3>2 DEF NeedsWriteBack
  <2> QED
    BY <1>1, <2>1 DEF CInv, SInv, Finished, NeedsWriteBack
<1> QED
  BY <1>4, <1>5, <1>6, <1>7, <1>8, <1>9, <1>10, <1>11, <1>12 DEF SInv

(* Every step keeps what is owed. *)

LEMMA OpenStepSaved ==
  ASSUME CInv, LInv', HInv', DistinctNames, "nospace" \notin Calls,
         NEW w \in Workers, OpenStep(w)
  PROVE  SInv'
<1>0. /\ pc \in [Workers -> Labels] /\ call \in [Workers -> Locals]
      /\ cache \in [Names -> Files]
      /\ pc[w] \in OpenLabels => /\ call[w].path \in Paths /\ Ccfn(w) \in Names
                                 /\ Ccfn(w) = CacheName[call[w].path]
      /\ pc[w] \in OpenLabels \ {"check"} => Exists(orig[call[w].path])
  BY CacheNameAssumption DEF CInv, HInv, TInv, TypeOK, Args, SInv, Present, InUse, Ccfn
<1>1. CASE OpenCheck(w)
  <2>1. pc[w] = "check" /\ UNCHANGED <<store, desc, tables, users>>
    BY <1>1 DEF OpenCheck, CInv, SInv, NoDirect
  <2>2. CASE Exists(orig[call[w].path])
    <3>1. /\ pc'[w] = "lock" /\ call' = call
          /\ \A v \in Workers : v # w => pc'[v] = pc[v]
      BY <1>0, <1>1, <2>1, <2>2 DEF OpenCheck, Goto
    <3>2. GoesOn(w)
      BY <2>1, <2>2, <3>1 DEF GoesOn, OpenLabels, OpenedLabels, FilledLabels, CopyLabels, store
    <3> QED
      BY <2>1, <3>1, <3>2, MoveSaved DEF tables, users, CInv, SInv, OwnIndex, HandlesKept
  <2>3. CASE ~Exists(orig[call[w].path])
    <3>1. /\ pc'[w] = "idle"
          /\ \A v \in Workers : v # w => pc'[v] = pc[v] /\ call'[v] = call[v]
      BY <1>0, <1>1, <2>3 DEF OpenCheck, Return, Goto
    <3>2. GoesOn(w)
      BY <2>1, <3>1 DEF GoesOn, OpenedLabels
    <3> QED
      BY <2>1, <3>1, <3>2, MoveSaved DEF tables, users, CInv, SInv, OwnIndex, HandlesKept
  <2> QED
    BY <2>2, <2>3
<1>2. CASE OpenLock(w)
  <2>1. /\ pc[w] = "lock" /\ pc'[w] = "stat" /\ call' = call
        /\ \A v \in Workers : v # w => pc'[v] = pc[v]
        /\ UNCHANGED <<store, desc, tables, users>>
    BY <1>0, <1>2 DEF OpenLock, Goto
  <2>2. GoesOn(w)
    BY <1>0, <2>1 DEF GoesOn, OpenLabels, OpenedLabels, FilledLabels, CopyLabels, store
  <2> QED
    BY <2>1, <2>2, MoveSaved DEF tables, users, CInv, SInv, OwnIndex, HandlesKept
<1>3. CASE OpenStat(w)
  BY <1>3, OpenStatSaved
<1>4. CASE CopyInTruncate(w)
  <2>1. /\ pc[w] = "copy" /\ UNCHANGED <<orig, desc, tables, users>>
        /\ Goto(w, "data") /\ call' = [call EXCEPT ![w].dest = Ccfn(w)]
    BY <1>0, <1>4 DEF CopyInTruncate, OpenLabels
  <2>2. PICK now \in Now : cache' = [cache EXCEPT ![Ccfn(w)] = File({}, now)] /\ clock' = now
    BY <1>0, <1>4 DEF CopyInTruncate, OpenLabels
  <2>3. /\ pc'[w] = "data" /\ call'[w].path = call[w].path
        /\ \A v \in Workers : v # w => pc'[v] = pc[v] /\ call'[v] = call[v]
    BY <1>0, <2>1 DEF Goto, Locals
  <2> QED
    BY <2>1, <2>2, <2>3, FillSaved
<1>5. CASE CopyInData(w)
  <2>1. /\ pc[w] = "data" /\ UNCHANGED <<desc, tables, users>>
        /\ pc'[w] = "accessed" /\ call'[w].path = call[w].path
        /\ \A v \in Workers : v # w => pc'[v] = pc[v] /\ call'[v] = call[v]
    BY <1>0, <1>5 DEF CopyInData, Goto, Locals
  <2>2. CASE call[w].dest = None
    <3>1. UNCHANGED store
      BY <1>5, <2>2 DEF CopyInData
    <3>2. Exists(cache[CacheName[call[w].path]])
      BY <2>1 DEF CInv, SInv, HasCopy, FilledLabels
    <3>3. GoesOn(w)
      BY <1>0, <2>1, <3>1, <3>2 DEF GoesOn, OpenLabels, OpenedLabels, FilledLabels, CopyLabels, store
    <3> QED
      BY <2>1, <3>1, <3>3, MoveSaved DEF tables, users, CInv, SInv, OwnIndex, HandlesKept
  <2>3. CASE call[w].dest # None
    <3>1. PICK d \in {orig[call[w].path].data}, now \in Now :
             /\ cache' = [cache EXCEPT ![Ccfn(w)] = File(@.data \cup d, now)]
             /\ clock' = now /\ UNCHANGED orig
      BY <1>5, <2>3 DEF CopyInData
    <3>2. PICK data : data = cache[Ccfn(w)].data \cup d
      OBVIOUS
    <3>3. cache' = [cache EXCEPT ![Ccfn(w)] = File(data, now)]
      BY <3>1, <3>2
    <3>4. clock' = now /\ UNCHANGED <<orig, desc, tables, users>>
      BY <2>1, <3>1
    <3>5. now \in Now /\ pc'[w] = "accessed" /\ pc[w] = "data"
      BY <2>1
    <3> QED
      BY <2>1, <3>3, <3>4, <3>5, FillSaved
  <2> QED
    BY <2>2, <2>3
<1>6. CASE OpenTouch(w)
  <2>1. /\ pc[w] = "touch" /\ pc'[w] = "open" /\ call' = call
        /\ \A v \in Workers : v # w => pc'[v] = pc[v]
        /\ UNCHANGED <<orig, clock, desc, tables, users>>
        /\ cache' = Touched(CacheName[call[w].path], call[w].path) /\ call[w].path \in Paths
    BY <1>0, <1>6 DEF OpenTouch, Goto, OpenLabels
  <2> QED
    BY <2>1, TouchSaved
<1>7. CASE OpenCached(w)
  <2>1. CASE Leave(w) /\ UNCHANGED desc
    <3>1. /\ pc[w] = "open" /\ pc'[w] = "idle" /\ UNCHANGED <<store, desc, tables, users>>
          /\ \A v \in Workers : v # w => pc'[v] = pc[v] /\ call'[v] = call[v]
      BY <1>0, <1>7, <2>1 DEF OpenCached, Leave, Return, Goto
    <3>2. GoesOn(w)
      BY <3>1 DEF GoesOn, OpenedLabels
    <3> QED
      BY <3>1, <3>2, MoveSaved DEF tables, users, CInv, SInv, OwnIndex, HandlesKept
  <2>2. ASSUME NEW f \in FreeFds, Exists(cache[Ccfn(w)]), Goto(w, "create"),
               desc' = [desc EXCEPT ![f] = On("cache", Ccfn(w))],
               call' = [call EXCEPT ![w].fd = f]
        PROVE  SInv'
    BY <1>7, <2>2, OpenedSaved DEF OpenCached
  <2> QED
    BY <1>7, <2>1, <2>2 DEF OpenCached
<1>8. CASE OpenDirect(w) \/ OpenCreateDirectLF(w)
  BY <1>8 DEF OpenDirect, OpenCreateDirectLF, CInv, SInv, NoDirect
<1>9. CASE OpenCreateLF(w)
  <2>1. /\ pc[w] = "create" /\ pc'[w] = "append" /\ call' = call
        /\ \A v \in Workers : v # w => pc'[v] = pc[v]
        /\ UNCHANGED <<store, desc, localCacheFileName2originalFullPathName, users>>
    BY <1>0, <1>9 DEF OpenCreateLF, Goto
  <2>2. ASSUME NEW v \in Workers, pc[v] = "rel_get"
        PROVE  localFH2LocalFile'[call[v].fd] = localFH2LocalFile[call[v].fd]
    <3>1. call[v].fd \in Fds /\ call[w].fd \in Fds
      BY <2>1, <2>2 DEF CInv, HInv, TInv, Args, DescriptorLabels, ReleaseLabels
    <3>2. call[v].fd # call[w].fd
      BY <2>1, <2>2, <3>1 DEF CInv, HInv, OneOwner, Owns, OpenedLabels, ReleaseLabels
    <3> QED
      BY <1>9, <3>1, <3>2 DEF OpenCreateLF, CreateLF, CInv, HInv, TInv, TypeOK
  <2>3. GoesOn(w)
    BY <2>1 DEF GoesOn
  <2> QED
    BY <2>1, <2>2, <2>3, MoveSaved DEF users, CInv, SInv, OwnIndex, HandlesKept
<1>10. CASE OpenAppend(w)
  BY <1>10, OpenAppendSaved
<1> QED
  BY <1>1, <1>2, <1>3, <1>4, <1>5, <1>6, <1>7, <1>8, <1>9, <1>10 DEF OpenStep

LEMMA ReleaseStepSaved ==
  ASSUME CInv, LInv', HInv', DistinctNames, "nospace" \notin Calls,
         NEW w \in Workers, ReleaseStep(w)
  PROVE  SInv'
<1>0. /\ pc \in [Workers -> Labels] /\ call \in [Workers -> Locals]
      /\ localFH2LocalFile \in [Fds -> LocalFiles]
      /\ pc[w] \in ReleaseLabels => call[w].path \in Paths /\ call[w].fd \in Fds
      /\ pc[w] \in WriteBackLabels => Real(w) = CacheName[call[w].path]
      /\ pc[w] \in ReleaseLabels => /\ Exists(cache[CacheName[call[w].path]])
                                    /\ Safe(call[w].path, call[w].unsaved)
  BY DEF CInv, HInv, TInv, TypeOK, Args, OwnCopy, DescriptorLabels, SInv, HasCopy, Kept
<1>1. CASE ReleaseGetLF(w)
  <2>1. /\ pc[w] = "rel_get"
        /\ pc'[w] = IF NeedsWriteBack(localFH2LocalFile[call[w].fd]) THEN "rel_lock" ELSE "rel_remove"
        /\ call'[w].path = call[w].path /\ call'[w].unsaved = call[w].unsaved
        /\ \A v \in Workers : v # w => pc'[v] = pc[v] /\ call'[v] = call[v]
        /\ UNCHANGED <<store, desc, tables, users>>
    BY <1>0, <1>1 DEF ReleaseGetLF, Goto, Locals
  <2>2. pc'[w] = "rel_remove" => call'[w].unsaved = {}
    BY <2>1 DEF CInv, SInv, Finished
  <2>3. GoesOn(w)
    BY <2>1, <2>2 DEF GoesOn, ReleaseLabels, WriteBackLabels
  <2> QED
    BY <2>1, <2>3, MoveSaved DEF tables, users, CInv, SInv, OwnIndex, HandlesKept
<1>2. CASE ReleaseLock(w)
  <2>1. /\ pc[w] = "rel_lock" /\ pc'[w] = "rel_copy" /\ call' = call
        /\ \A v \in Workers : v # w => pc'[v] = pc[v]
        /\ UNCHANGED <<store, desc, tables, users>>
    BY <1>0, <1>2 DEF ReleaseLock, Goto
  <2>2. GoesOn(w)
    BY <2>1 DEF GoesOn, ReleaseLabels, WriteBackLabels, CopyBackLabels
  <2> QED
    BY <2>1, <2>2, MoveSaved DEF tables, users, CInv, SInv, OwnIndex, HandlesKept
<1>3. CASE CopyBackTruncate(w)
  <2>1. pc[w] = "rel_copy"
    BY <1>3 DEF CopyBackTruncate
  <2>2. CanCopyBack(w) /\ Real(w) # None
    BY <1>0, <2>1, CacheNameAssumption, NoneAssumption
       DEF CanCopyBack, ReleaseLabels, WriteBackLabels, CopyBackLabels
  <2>3. /\ pc'[w] = "rel_data" /\ call'[w].path = call[w].path
        /\ call'[w].unsaved = call[w].unsaved /\ call'[w].dest # None
        /\ \A v \in Workers : v # w => pc'[v] = pc[v] /\ call'[v] = call[v]
        /\ UNCHANGED <<cache, desc, tables, users>>
    BY <1>0, <1>3, <2>2 DEF CopyBackTruncate, Goto, Locals
  <2>4. PICK now \in Now : orig' = [orig EXCEPT ![call[w].path] = File({}, now)] /\ clock' = now
    BY <1>3, <2>2 DEF CopyBackTruncate
  <2>5. HandlesKept
    BY <2>3 DEF users, HandlesKept
  <2>6. call[w].path \in Paths
    BY <1>0, <2>1 DEF ReleaseLabels, WriteBackLabels, CopyBackLabels
  <2> QED
    BY <2>1, <2>3, <2>4, <2>5, <2>6, CopyBackSaved
<1>4. CASE CopyBackData(w)
  <2>1. pc[w] = "rel_data" /\ pc[w] \in ReleaseLabels /\ call[w].dest # None
    BY <1>4 DEF CopyBackData, CInv, SInv, Finished, ReleaseLabels, WriteBackLabels, CopyBackLabels
  <2>2. PICK d \in {cache[Real(w)].data}, now \in Now :
           /\ orig' = [orig EXCEPT ![call[w].path] = File(d, now)]
           /\ clock' = now
           /\ handle' = SavedHandles(d)
           /\ call' = [v \in Workers |->
                         IF v = w THEN [call[v] EXCEPT !.unsaved = @ \ d, !.dest = None, !.data = {}]
                         ELSE [call[v] EXCEPT !.unsaved = @ \ d]]
    BY <1>4, <2>1 DEF CopyBackData
  <2>3. /\ pc'[w] = "rel_touch" /\ UNCHANGED <<cache, desc, tables>>
        /\ \A v \in Workers : v # w => pc'[v] = pc[v]
    BY <1>0, <1>4 DEF CopyBackData, Goto
  <2>4. /\ call'[w].path = call[w].path /\ call'[w].unsaved = call[w].unsaved \ d
        /\ \A v \in Workers : v # w => /\ call'[v].path = call[v].path
                                       /\ call'[v].fd = call[v].fd
                                       /\ call'[v].dest = call[v].dest
                                       /\ call'[v].unsaved \subseteq call[v].unsaved
    BY <1>0, <2>2 DEF Locals
  <2>5. call'[w].unsaved = {}
    BY <1>0, <2>1, <2>2, <2>4 DEF Safe, ReleaseLabels, WriteBackLabels, CopyBackLabels
  <2>6. HandlesKept
    <3>1. ASSUME NEW f \in Fds
          PROVE  handle'[f].path = handle[f].path /\ handle'[f].unsaved \subseteq handle[f].unsaved
      <4>1. handle'[f] = [handle[f] EXCEPT !.unsaved = handle[f].unsaved \ d]
        BY <2>2 DEF SavedHandles
      <4>2. handle[f] \in Handles
        BY DEF CInv, HInv, TInv, TypeOK
      <4> QED
        BY <4>1, <4>2 DEF Handles
    <3> QED
      BY <3>1 DEF HandlesKept
  <2>7. call[w].path \in Paths
    BY <1>0, <2>1
  <2> QED
    <3>1. PICK p \in Paths : p = call[w].path
      BY <2>7
    <3>2. /\ pc[w] = "rel_data" /\ pc'[w] = "rel_touch" /\ call'[w].unsaved = {}
          /\ call'[w].path = call[w].path /\ call'[w].unsaved \subseteq call[w].unsaved
      BY <2>1, <2>3, <2>4, <2>5
    <3>3. \A v \in Workers : v # w => /\ pc'[v] = pc[v]
                                      /\ call'[v].path = call[v].path
                                      /\ call'[v].fd = call[v].fd
                                      /\ call'[v].dest = call[v].dest
                                      /\ call'[v].unsaved \subseteq call[v].unsaved
      BY <2>3, <2>4
    <3>4. orig' = [orig EXCEPT ![p] = File(d, now)] /\ clock' = now /\ UNCHANGED <<cache, desc, tables>>
      BY <2>2, <2>3, <3>1
    <3> QED
      BY <2>6, <3>1, <3>2, <3>3, <3>4, CopyBackSaved
<1>5. CASE ReleaseTouch(w)
  <2>1. pc[w] = "rel_touch" /\ pc[w] \in ReleaseLabels /\ pc[w] \in WriteBackLabels
    BY <1>5 DEF ReleaseTouch, ReleaseLabels, WriteBackLabels, CopyBackLabels
  <2>2. /\ pc'[w] = "rel_accessed" /\ call' = call
        /\ \A v \in Workers : v # w => pc'[v] = pc[v]
        /\ UNCHANGED <<orig, clock, desc, tables, users>>
        /\ cache' = Touched(CacheName[call[w].path], call[w].path) /\ call[w].path \in Paths
    BY <1>0, <1>5, <2>1 DEF ReleaseTouch, Goto
  <2> QED
    BY <2>1, <2>2, TouchSaved
<1>6. CASE ReleaseUnlock(w)
  <2>1. /\ pc[w] = "rel_unlock" /\ pc'[w] = "rel_remove" /\ call' = call
        /\ \A v \in Workers : v # w => pc'[v] = pc[v]
        /\ UNCHANGED <<store, desc, tables, users>>
    BY <1>0, <1>6 DEF ReleaseUnlock, Goto
  <2>2. GoesOn(w)
    BY <2>1 DEF GoesOn, ReleaseLabels, WriteBackLabels, CopyBackLabels, CInv, SInv, Finished
  <2> QED
    BY <2>1, <2>2, MoveSaved DEF tables, users, CInv, SInv, OwnIndex, HandlesKept
<1>7. CASE ReleaseRemoveLF(w)
  <2>1. /\ pc[w] = "rel_remove" /\ pc'[w] = "idle"
        /\ \A v \in Workers : v # w => pc'[v] = pc[v] /\ call'[v] = call[v]
        /\ UNCHANGED <<store, desc, localCacheFileName2originalFullPathName, handle>>
    BY <1>0, <1>7 DEF ReleaseRemoveLF, Return, Goto
  <2>2. ASSUME NEW v \in Workers, pc[v] = "rel_get"
        PROVE  localFH2LocalFile'[call[v].fd] = localFH2LocalFile[call[v].fd]
    <3>1. call[v].fd \in Fds /\ call[w].fd \in Fds
      BY <2>1, <2>2 DEF CInv, HInv, TInv, Args, DescriptorLabels, ReleaseLabels
    <3>2. call[v].fd # call[w].fd
      BY <2>1, <2>2, <3>1 DEF CInv, HInv, OneOwner, Owns, OpenedLabels, ReleaseLabels
    <3> QED
      BY <1>0, <1>7, <3>1, <3>2 DEF ReleaseRemoveLF, WithoutLF
  <2>3. GoesOn(w)
    BY <2>1 DEF GoesOn, OpenedLabels
  <2> QED
    BY <2>1, <2>2, <2>3, MoveSaved DEF CInv, SInv, OwnIndex, HandlesKept
<1> QED
  BY <1>1, <1>2, <1>3, <1>4, <1>5, <1>6, <1>7 DEF ReleaseStep

(* The collector does not run; an accessed file is noted and that is all. *)
LEMMA OtherStepSaved ==
  ASSUME CInv, LInv', HInv', DistinctNames, NEW w \in Workers,
         \/ SetDirtyFlag(w) \/ AccessedFile(w) \/ Forget(w) \/ CollectEnd(w)
         \/ \E n \in Names : Collect(w, n),
         ~Change("gc")
  PROVE  SInv'
<1>0. /\ pc \in [Workers -> Labels] /\ call \in [Workers -> Locals]
      /\ localFH2LocalFile \in [Fds -> LocalFiles]
  BY DEF CInv, HInv, TInv, TypeOK
<1>1. CASE SetDirtyFlag(w)
  <2>1. /\ pc[w] = "flag" /\ pc'[w] = "idle" /\ call[w].fd \in Fds
        /\ \A v \in Workers : v # w => pc'[v] = pc[v] /\ call'[v] = call[v]
        /\ UNCHANGED <<store, desc, localCacheFileName2originalFullPathName, users>>
    BY <1>0, <1>1 DEF SetDirtyFlag, Return, Goto, CInv, HInv, TInv, Args, DescriptorLabels
  <2>2. ASSUME NEW v \in Workers, pc[v] = "rel_get"
        PROVE  localFH2LocalFile'[call[v].fd] = localFH2LocalFile[call[v].fd]
    <3>1. call[v].fd \in Fds
      BY <2>1, <2>2 DEF CInv, HInv, TInv, Args, DescriptorLabels, ReleaseLabels
    <3>2. call[v].fd # call[w].fd
      BY <2>1, <2>2, <3>1 DEF CInv, HInv, OneOwner, Owns, ReleaseLabels
    <3> QED
      BY <1>0, <1>1, <3>1, <3>2 DEF SetDirtyFlag, Flagged
  <2>3. GoesOn(w)
    BY <2>1 DEF GoesOn, OpenedLabels
  <2> QED
    BY <2>1, <2>2, <2>3, MoveSaved DEF users, CInv, SInv, OwnIndex, HandlesKept
<1>2. CASE AccessedFile(w)
  <2>1. /\ pc[w] \in {"accessed", "rel_accessed"} /\ Goto(w, AfterAccess[pc[w]])
        /\ UNCHANGED <<store, desc, tables, call, users>>
    BY <1>2 DEF AccessedFile, AfterAccess, users
  <2>2. /\ pc'[w] = AfterAccess[pc[w]]
        /\ \A v \in Workers : v # w => pc'[v] = pc[v]
    BY <1>0, <2>1 DEF Goto
  <2>3. CASE pc[w] = "accessed"
    <3>1. pc'[w] = "touch"
      BY <2>2, <2>3 DEF AfterAccess
    <3>2. call[w].path \in Paths /\ Exists(orig[call[w].path]) /\ Exists(cache[CacheName[call[w].path]])
      BY <2>3 DEF CInv, HInv, TInv, Args, SInv, Present, InUse, HasCopy, OpenLabels, FilledLabels
    <3>3. GoesOn(w)
      BY <2>1, <2>3, <3>1, <3>2 DEF GoesOn, OpenLabels, OpenedLabels, CopyLabels, FilledLabels, store
    <3> QED
      BY <2>1, <2>2, <2>3, <3>3, MoveSaved DEF tables, users, CInv, SInv, OwnIndex, HandlesKept
  <2>4. CASE pc[w] = "rel_accessed"
    <3>1. pc'[w] = "rel_unlock"
      BY <2>2, <2>4 DEF AfterAccess
    <3>2. GoesOn(w)
      BY <2>1, <2>4, <3>1
         DEF GoesOn, ReleaseLabels, WriteBackLabels, CopyBackLabels, CInv, SInv, Finished
    <3> QED
      BY <2>1, <2>2, <2>4, <3>2, MoveSaved DEF tables, users, CInv, SInv, OwnIndex, HandlesKept
  <2> QED
    BY <2>1, <2>3, <2>4
<1>3. CASE Forget(w)
  <2>1. /\ pc' = pc /\ UNCHANGED <<store, desc, localFH2LocalFile, users>>
        /\ \A v \in Workers : /\ call'[v].path = call[v].path /\ call'[v].fd = call[v].fd
                              /\ call'[v].unsaved = call[v].unsaved /\ call'[v].dest = call[v].dest
        /\ \A n \in Names : \/ localCacheFileName2originalFullPathName'[n] = None
                            \/ localCacheFileName2originalFullPathName'[n] =
                                  localCacheFileName2originalFullPathName[n]
    BY <1>0, <1>3 DEF Forget, Locals, CInv, HInv, TInv, TypeOK
  <2>2. \A v \in Workers : GoesOn(v)
    BY <2>1 DEF GoesOn
  <2>3. \A p \in Paths : FilesGoOn(p)
    <3>1. \A p \in Paths : Transit(p) => Transit(p)'
      BY <2>1 DEF Transit
    <3> QED
      BY <2>1, <3>1 DEF FilesGoOn, Current, store
  <2>4. Clocked' /\ OwnIndex'
    <3>1. Clocked'
      BY <2>1 DEF store, CInv, SInv, Clocked
    <3>2. OwnIndex'
      BY <2>1 DEF CInv, SInv, OwnIndex
    <3> QED
      BY <3>1, <3>2
  <2>5. HandlesKept
    BY <2>1 DEF users, HandlesKept
  <2> QED
    BY <2>1, <2>2, <2>3, <2>4, <2>5, CalmFrame DEF store
<1>4. CASE CollectEnd(w) \/ \E n \in Names : Collect(w, n)
  BY <1>4 DEF CollectEnd, Collect, CInv, SInv, NoDirect
<1> QED
  BY <1>1, <1>2, <1>3, <1>4

LEMMA BeginSaved ==
  ASSUME CInv, LInv', HInv', DistinctNames, "nospace" \notin Calls,
         NEW w \in Workers, Begin(w)
  PROVE  SInv'
<1>1. ASSUME NEW p \in Paths, OpenBegin(w, p) PROVE SInv'
  <2>1. CanUse(p)
    <3>1. CacheName[p] \in Names
      BY CacheNameAssumption
    <3> QED
      BY <3>1 DEF CanUse, CInv, SInv, OwnIndex, DistinctNames, HInv, TInv, TypeOK
  <2>2. /\ pc[w] = "idle" /\ pc'[w] = "check"
        /\ \A v \in Workers : v # w => pc'[v] = pc[v] /\ call'[v] = call[v]
        /\ UNCHANGED <<store, desc, tables, handle>>
    BY <1>1, <2>1 DEF OpenBegin, Goto, CInv, HInv, TInv, TypeOK
  <2>3. GoesOn(w)
    BY <2>2 DEF GoesOn, OpenedLabels
  <2> QED
    BY <2>2, <2>3, MoveSaved DEF tables, CInv, SInv, OwnIndex, HandlesKept
<1>2. ASSUME NEW f \in Fds, Write(w, f) PROVE SInv'
  BY <1>2, WriteSaved
<1>3. ASSUME NEW f \in Fds, ReleaseClose(w, f) PROVE SInv'
  BY <1>3, ReleaseCloseSaved
<1> QED
  BY <1>1, <1>2, <1>3 DEF Begin

(* The calls on paths that the theorem allows. *)
LEMMA CalmChange ==
  ASSUME TInv, Calm', NEW what, Change(what)
  PROVE  what \in {"truncate", "unlink", "mknod"} /\ (what = "truncate" => OneWorker)
<1>1. changes' # 0 /\ what \in Calls
  BY DEF Change, TInv, TypeOK
<1> QED
  BY <1>1 DEF Calm, OneWorker

LEMMA OneCallSaved ==
  ASSUME CInv, LInv', HInv', DistinctNames, Calm', OneCall
  PROVE  SInv'
<1>0. /\ TInv /\ orig \in [Paths -> Files] /\ clock \in Nat
      /\ call \in [Workers -> Locals] /\ handle \in [Fds -> Handles]
      /\ \A p \in Paths : orig[p].mtime \in Nat
      /\ \A n \in Names : cache[n].mtime \in Nat
  BY DEF CInv, HInv, TInv, TypeOK, Files
<1>1. ASSUME NEW p \in Paths, Truncate(p) PROVE SInv'
  <2>1. Change("truncate") /\ OneWorker
    BY <1>0, <1>1, CalmChange DEF Truncate
  <2>2. PICK now \in Now : orig' = [orig EXCEPT ![p] = File({}, now)] /\ clock' = now
    BY <1>1 DEF Truncate, SetOrig
  <2>3. /\ pc' = pc /\ UNCHANGED <<cache, desc, tables>>
        /\ \A v \in Workers : /\ call'[v].path = call[v].path /\ call'[v].fd = call[v].fd
                              /\ call'[v].dest = call[v].dest
                              /\ call'[v].unsaved = IF call[v].path = p THEN {} ELSE call[v].unsaved
        /\ \A f \in Fds : /\ handle'[f].path = handle[f].path
                          /\ handle'[f].unsaved = IF handle[f].path = p THEN {} ELSE handle[f].unsaved
    BY <1>0, <1>1 DEF Truncate, SetOrig, Locals, Handles
  <2>4. orig'[p] = File({}, now) /\ \A q \in Paths : q # p => orig'[q] = orig[q]
    BY <1>0, <2>2
  <2>5. Clocked' /\ OwnIndex'
    BY <1>0, <2>2, <2>3, <2>4, NowNext DEF CInv, SInv, Clocked, OwnIndex, File, tables
  <2>6. \A v \in Workers : GoesOn(v)
    BY <2>3 DEF GoesOn
  <2>7. \A q \in Paths : Transit(q) => Transit(q)'
    BY <2>3 DEF Transit
  <2>8. FilesGoOn(p)
    <3>1. Exists(orig'[p])
      BY <2>2, <2>4, NowNext, WrittenExists DEF File
    <3>2. NothingOwed(p)'
      BY <2>3 DEF NothingOwed
    <3> QED
      BY <2>1, <3>1, <3>2 DEF FilesGoOn
  <2>9. \A q \in Paths : FilesGoOn(q)
    BY <2>3, <2>4, <2>7, <2>8, OtherFiles
  <2>10. HandlesKept
    BY <2>3 DEF HandlesKept
  <2> QED
    BY <2>3, <2>5, <2>6, <2>9, <2>10, CalmFrame DEF tables
<1>2. ASSUME NEW p \in Paths, UNCHANGED <<cache, desc, tables, pc, call, handle>>, ~InUse(p),
             \A q \in Paths : q # p => orig'[q] = orig[q],
             \/ orig'[p] = Absent /\ clock' = clock
             \/ \E now \in Now : orig'[p] = File({}, now) /\ clock' = now
      PROVE  SInv'
  <2>1. Clocked'
    <3>1. CASE orig'[p] = Absent /\ clock' = clock
      <4>1. orig'[p].mtime = 0 /\ ~Exists(orig'[p])
        BY <3>1 DEF Exists, Absent
      <4>2. \A q \in Paths : q # p => orig'[q].mtime <= clock /\ (Exists(orig'[q]) => 0 < orig'[q].mtime)
        BY <1>2 DEF CInv, SInv, Clocked
      <4>3. \A n \in Names : cache'[n].mtime <= clock
        BY <1>2 DEF CInv, SInv, Clocked
      <4> QED
        BY <1>0, <3>1, <4>1, <4>2, <4>3 DEF CInv, SInv, Clocked
    <3>2. CASE \E now \in Now : orig'[p] = File({}, now) /\ clock' = now
      BY <1>0, <1>2, <3>2, NowNext DEF CInv, SInv, Clocked, File
    <3> QED
      BY <1>2, <3>1, <3>2
  <2>2. OwnIndex'
    BY <1>2 DEF CInv, SInv, OwnIndex, tables
  <2>3. \A v \in Workers : GoesOn(v)
    BY <1>2 DEF GoesOn
  <2>4. \A q \in Paths : Transit(q) => Transit(q)'
    BY <1>2 DEF Transit
  <2>5. \A q \in Paths : InUse(q) => FilesGoOn(q)
    BY <1>2, <2>4, OtherFiles
  <2>6. HandlesKept
    BY <1>2 DEF HandlesKept
  <2> QED
    BY <1>2, <2>1, <2>2, <2>3, <2>5, <2>6, CalmFrame DEF tables
<1>3. ASSUME NEW p \in Paths, Unlink(p) PROVE SInv'
  <2>1. ~InUse(p)
    BY <1>3 DEF Unlink, Unused, InUse
  <2>2. /\ UNCHANGED <<cache, desc, tables, pc, call, handle>>
        /\ \A q \in Paths : q # p => orig'[q] = orig[q]
        /\ orig'[p] = Absent /\ clock' = clock
    BY <1>0, <1>3 DEF Unlink
  <2> QED
    BY <1>2, <2>1, <2>2
<1>4. ASSUME NEW p \in Paths, Mknod(p) PROVE SInv'
  <2>1. ~InUse(p)
    BY <1>4 DEF Mknod, CInv, SInv, Present
  <2>2. /\ UNCHANGED <<cache, desc, tables, pc, call, handle>>
        /\ \A q \in Paths : q # p => orig'[q] = orig[q]
        /\ \E now \in Now : orig'[p] = File({}, now) /\ clock' = now
    BY <1>0, <1>4 DEF Mknod, SetOrig
  <2> QED
    BY <1>2, <2>1, <2>2
<1>5. ASSUME NEW p \in Paths, Utimens(p) \/ Remote(p) PROVE FALSE
  BY <1>0, <1>5, CalmChange DEF Utimens, Remote
<1>6. ASSUME NEW p \in Paths, NEW q \in Paths, Rename(p, q) PROVE FALSE
  BY <1>0, <1>6, CalmChange DEF Rename
<1> QED
  BY <1>1, <1>3, <1>4, <1>5, <1>6 DEF OneCall

LEMMA StutterSaved ==
  ASSUME CInv, LInv', HInv', DistinctNames, UNCHANGED vars PROVE SInv'
<1>1. UNCHANGED <<store, desc, tables, pc, call, users>>
  BY DEF vars
<1>2. \A v \in Workers : GoesOn(v)
  BY <1>1 DEF GoesOn
<1>3. \A p \in Paths : FilesGoOn(p)
  <2>1. \A p \in Paths : Transit(p) => Transit(p)'
    BY <1>1 DEF Transit
  <2> QED
    BY <1>1, <2>1 DEF FilesGoOn, Current, store
<1>4. Clocked'
  BY <1>1 DEF store, CInv, SInv, Clocked
<1>5. OwnIndex' /\ HandlesKept
  BY <1>1 DEF tables, users, CInv, SInv, OwnIndex, HandlesKept
<1> QED
  BY <1>1, <1>2, <1>3, <1>4, <1>5, CalmFrame DEF store, tables

(* What has happened stays happened. *)
LEMMA CountsUp == TInv /\ [Next]_vars => changes' \in {changes, changes + 1}
<1> SUFFICES ASSUME TInv, [Next]_vars PROVE changes' \in {changes, changes + 1}
  OBVIOUS
<1>1. ASSUME NEW w \in Workers, OpenStep(w) \/ ReleaseStep(w) PROVE changes' = changes
  BY <1>1 DEF OpenStep, ReleaseStep, OpenCheck, OpenLock, OpenStat, CopyInTruncate, CopyInData,
     OpenTouch, OpenCached, OpenDirect, OpenCreateLF, OpenCreateDirectLF, OpenAppend,
     ReleaseGetLF, ReleaseLock, CopyBackTruncate, CopyBackData, ReleaseTouch, ReleaseUnlock,
     ReleaseRemoveLF, users
<1>2. ASSUME NEW w \in Workers, Begin(w) PROVE changes' = changes
  BY <1>2 DEF Begin, OpenBegin, Write, ReleaseClose
<1>3. ASSUME NEW w \in Workers, SetDirtyFlag(w) \/ AccessedFile(w) \/ Forget(w) \/ CollectEnd(w)
      PROVE  changes' \in {changes, changes + 1}
  BY <1>3 DEF SetDirtyFlag, AccessedFile, Forget, CollectEnd, Change, users
<1>4. ASSUME NEW w \in Workers, NEW n \in Names, Collect(w, n) PROVE changes' = changes
  BY <1>4 DEF Collect, users
<1>5. CASE OneCall
  BY <1>5 DEF OneCall, Truncate, Unlink, Mknod, Utimens, Remote, Rename, Change
<1>6. CASE Crash
  BY <1>6 DEF Crash, Change
<1>7. CASE UNCHANGED vars \/ Quiet
  BY <1>7 DEF Quiet, vars, users
<1> QED
  BY <1>1, <1>2, <1>3, <1>4, <1>5, <1>6, <1>7 DEF Next, Step

(* Only a crash and the end of a release lose what was written. *)
LEMMA LostBy ==
  ASSUME [Next]_vars, ~Crash, \A w \in Workers : ~ReleaseRemoveLF(w) PROVE lost' = lost
<1>1. ASSUME NEW w \in Workers, OpenStep(w) \/ ReleaseStep(w) PROVE lost' = lost
  BY <1>1 DEF OpenStep, ReleaseStep, OpenCheck, OpenLock, OpenStat, CopyInTruncate, CopyInData,
     OpenTouch, OpenCached, OpenDirect, OpenCreateLF, OpenCreateDirectLF, OpenAppend,
     ReleaseGetLF, ReleaseLock, CopyBackTruncate, CopyBackData, ReleaseTouch, ReleaseUnlock, users
<1>2. ASSUME NEW w \in Workers, Begin(w) PROVE lost' = lost
  BY <1>2 DEF Begin, OpenBegin, Write, ReleaseClose
<1>3. ASSUME NEW w \in Workers, SetDirtyFlag(w) \/ AccessedFile(w) \/ Forget(w) \/ CollectEnd(w)
      PROVE  lost' = lost
  BY <1>3 DEF SetDirtyFlag, AccessedFile, Forget, CollectEnd, users
<1>4. ASSUME NEW w \in Workers, NEW n \in Names, Collect(w, n) PROVE lost' = lost
  BY <1>4 DEF Collect, users
<1>5. CASE OneCall
  BY <1>5 DEF OneCall, Truncate, Unlink, Mknod, Utimens, Remote, Rename
<1>6. CASE UNCHANGED vars \/ Quiet
  BY <1>6 DEF Quiet, vars, users
<1> QED
  BY <1>1, <1>2, <1>3, <1>4, <1>5, <1>6 DEF Next, Step

LEMMA InitWInv == Init => WInv
<1> SUFFICES ASSUME Init PROVE WInv
  OBVIOUS
<1>1. LInv /\ HInv /\ WrittenBack
  BY InitLInv, InitHInv DEF Init, WrittenBack
<1>2. /\ \A w \in Workers : pc[w] = "idle"
      /\ \A f \in Fds : desc[f] = Closed /\ handle[f].path = None
      /\ \A p \in Paths : orig[p].mtime = 1 /\ Exists(orig[p])
      /\ \A n \in Names : cache[n].mtime = 0 /\ localCacheFileName2originalFullPathName[n] = None
      /\ clock = 1
  BY DEF Init, NoHandle, File, Absent, Exists
<1>3. Clocked /\ OwnIndex /\ Present
  BY <1>2 DEF Clocked, OwnIndex, Present
<1>4. NoDirect /\ Owned /\ HasCopy
  BY <1>2 DEF NoDirect, Owned, HasCopy, Closed, On, FilledLabels, ReleaseLabels, WriteBackLabels,
              CopyBackLabels
<1>5. Kept /\ CopyingIn /\ Finished
  BY <1>2 DEF Kept, CopyingIn, Finished, CopyLabels, ReleaseLabels, WriteBackLabels, CopyBackLabels
<1>6. Newer
  BY <1>2 DEF Newer, Closed, On
<1> QED
  BY <1>1, <1>3, <1>4, <1>5, <1>6 DEF WInv, SInv

LEMMA NextWInv ==
  ASSUME NoReuse, DistinctNames PROVE WInv /\ [Next]_vars => WInv'
<1> SUFFICES ASSUME WInv, [Next]_vars PROVE WInv'
  OBVIOUS
<1>1. LInv' /\ TInv
  BY NextLInv DEF WInv, LInv
<1>2. SUFFICES ASSUME Calm' PROVE (HInv /\ SInv /\ WrittenBack)'
  BY <1>1 DEF WInv
<1>3. CInv /\ WrittenBack /\ HInv
  <2>1. Calm
    BY <1>1, <1>2, CountsUp DEF Calm, OneWorker, TInv, TypeOK
  <2> QED
    BY <2>1 DEF WInv, CInv
<1>4. "nospace" \notin Calls /\ ~Change("gc") /\ ~Crash
  BY <1>1, <1>2, CalmChange DEF Calm, Crash
<1>5. HInv'
  <2>1. NoRename
    BY <1>1, <1>2, CalmChange DEF NoRename, Rename
  <2> QED
    BY <1>3, <2>1, NextHInv
<1>6. SInv'
  <2>1. ASSUME NEW w \in Workers, Begin(w) PROVE SInv'
    BY <1>1, <1>3, <1>4, <1>5, <2>1, BeginSaved
  <2>2. ASSUME NEW w \in Workers, OpenStep(w) PROVE SInv'
    BY <1>1, <1>3, <1>4, <1>5, <2>2, OpenStepSaved
  <2>3. ASSUME NEW w \in Workers, ReleaseStep(w) PROVE SInv'
    BY <1>1, <1>3, <1>4, <1>5, <2>3, ReleaseStepSaved
  <2>4. ASSUME NEW w \in Workers,
               \/ SetDirtyFlag(w) \/ AccessedFile(w) \/ Forget(w) \/ CollectEnd(w)
               \/ \E n \in Names : Collect(w, n)
        PROVE  SInv'
    BY <1>1, <1>3, <1>4, <1>5, <2>4, OtherStepSaved
  <2>5. CASE OneCall
    BY <1>1, <1>2, <1>3, <1>5, <2>5, OneCallSaved
  <2>6. CASE UNCHANGED vars
    BY <1>1, <1>3, <1>5, <2>6, StutterSaved
  <2> QED
    BY <1>4, <2>1, <2>2, <2>3, <2>4, <2>5, <2>6 DEF Next, Step, Quiet
<1>7. WrittenBack'
  <2>1. ASSUME NEW w \in Workers, ReleaseRemoveLF(w) PROVE lost' = lost
    <3>1. call[w].unsaved = {}
      BY <1>3, <2>1 DEF ReleaseRemoveLF, CInv, SInv, Finished
    <3> QED
      BY <2>1, <3>1 DEF ReleaseRemoveLF
  <2>2. lost' = lost
    BY <1>4, <2>1, LostBy
  <2> QED
    BY <1>3, <2>2 DEF WrittenBack
<1> QED
  BY <1>5, <1>6, <1>7

(* When a release returns, everything its user has written through the handle is in the
   original, whatever other opens, writes and releases of the same or other files ran
   between the steps of the handlers, as long as nothing else touches the files and the
   disk has space, and even when changes fall into one second.  A copy is filled anew only
   when nobody has data in it that is owed to the original. *)
THEOREM UndisturbedWritesSaved ==
  ASSUME NoReuse, DistinctNames, "nospace" \notin Calls
  PROVE  Spec => []WrittenBackUndisturbed
<1>1. WInv /\ [Next]_vars => WInv'
  BY NextWInv
<1>2. WInv => WrittenBackUndisturbed
  BY DEF WInv, Calm, WrittenBackUndisturbed
<1> QED
  BY <1>1, <1>2, InitWInv, PTL DEF Spec

(* The same while files are created and removed too, and truncated when the daemon has
   one worker: a truncation between the stat of an open and its copy-in, or a
   collection, a remote write, a rename, a set date or a crash can take it away. *)
THEOREM WritesSaved ==
  ASSUME NoReuse, DistinctNames, Calls \subseteq {"truncate", "unlink", "mknod"},
         "truncate" \in Calls => OneWorker
  PROVE  Spec => []WrittenBack
<1>1. WInv /\ [Next]_vars => WInv'
  BY NextWInv
<1>2. WInv => WrittenBack
  BY DEF WInv, Calm
<1> QED
  BY <1>1, <1>2, InitWInv, PTL DEF Spec

------------------------------------------------------------------------------
(* What an open serves.  The copy that a stat finds new enough holds what the original
   does, or what a handle has still to write back, however truncations, creations,
   removals and collections come in between. *)

LocalCalls == Calls \subseteq {"truncate", "unlink", "mknod", "gc"}

(* The copy of p is the original, or has in it what is owed to the original. *)
Fresh(p) == \/ cache[CacheName[p]].data = orig[p].data
            \/ cache[CacheName[p]].data \cap Unsaved # {}

(* A copy that is being filled has in it only what was written since it was emptied. *)
EmptiedCopy(p) == \/ cache[CacheName[p]].data = {}
                  \/ cache[CacheName[p]].data \cap Unsaved # {}

At(p, l) == \E w \in Workers : pc[w] = l /\ call[w].path = p

(* The copy has the contents of its original, but not yet its time. *)
Filled(p) == \E w \in Workers : /\ pc[w] \in {"accessed", "gc", "touch", "rel_touch"}
                                /\ call[w].path = p

SpentLabels == {"rel_touch", "rel_accessed", "rel_gc", "rel_unlock", "rel_remove"}

FreshCopies == \A p \in Paths :
  Exists(orig[p]) /\ Exists(cache[CacheName[p]]) /\ (Current(p) \/ Filled(p)) /\ ~At(p, "data") =>
     Fresh(p)

Emptied == \A p \in Paths : At(p, "data") => EmptiedCopy(p)

(* A copy collected under its handler does not come back before the handler is done. *)
CollectedUnder == \A w \in Workers : pc[w] \in {"data", "rel_data"} /\ call[w].dest = None =>
  ~Exists(cache[CacheName[call[w].path]])

(* What is open is a copy. *)
OpenCopies == \A f \in Fds : /\ desc[f].on \in {"closed", "cache", "unlinked"}
                             /\ desc[f].on = "cache" => Exists(cache[desc[f].name])

NoFallBack == \A w \in Workers : pc[w] \notin {"check_direct", "direct", "create_direct"}

Held(c) == \/ \E p \in Paths : c \in orig[p].data
           \/ \E n \in Names : c \in cache[n].data
           \/ \E w \in Workers : c \in call[w].data
           \/ c \in Unsaved

(* Chunks are numbered as they are written. *)
Numbered == \A c \in Chunks : Held(c) => c.n <= writes

(* What is owed is in no original, and is of the path of its handle or release. *)
OwedOnly == /\ \A p \in Paths : orig[p].data \cap Unsaved = {}
            /\ \A f \in Fds : \A c \in handle[f].unsaved : c.path = handle[f].path
            /\ \A w \in Workers : \A c \in call[w].unsaved : /\ pc[w] \in ReleaseLabels
                                                            /\ c.path = call[w].path

(* What a release has not written back is not in the copy any more. *)
Spent == \A w \in Workers :
  /\ pc[w] \in SpentLabels => call[w].unsaved \cap cache[CacheName[call[w].path]].data = {}
  /\ pc[w] = "rel_get" /\ call[w].unsaved # {} => NeedsWriteBack(localFH2LocalFile[call[w].fd])

FInv == /\ LInv /\ DInv
        /\ Clocked /\ OwnIndex /\ OpenCopies /\ Numbered /\ OwedOnly
        /\ NoFallBack /\ Present /\ Spent /\ CollectedUnder /\ Emptied /\ FreshCopies

(* Where a worker goes, with what it has to know there. *)
GoesFresh(w) ==
  \/ pc'[w] \in {"idle", "check", "flag"} /\ pc[w] # "data"
  \/ /\ pc'[w] = pc[w] /\ call'[w].path = call[w].path /\ call'[w].fd = call[w].fd
     /\ call'[w].unsaved \subseteq call[w].unsaved
     /\ call'[w].dest = call[w].dest \/ ~Exists(cache'[CacheName[call[w].path]])
  \/ /\ pc[w] \in OpenLabels /\ call'[w].path = call[w].path /\ Exists(orig'[call[w].path])
     /\ \/ pc[w] # "data" /\ pc'[w] \in {"lock", "stat", "copy", "open", "create", "append"}
        \/ pc[w] \in {"accessed", "gc"} /\ pc'[w] \in {"gc", "touch"}
        \/ /\ pc[w] = "data" /\ pc'[w] = "accessed"
           /\ Exists(cache'[CacheName[call[w].path]]) => Fresh(call[w].path)'
        \/ /\ pc[w] = "copy" /\ pc'[w] = "data" /\ call'[w].dest # None
           /\ cache'[CacheName[call[w].path]].data = {}
  \/ /\ pc[w] \in ReleaseLabels /\ pc'[w] \in ReleaseLabels \ {"rel_get"}
     /\ call'[w].path = call[w].path
     /\ pc'[w] \in SpentLabels => call'[w].unsaved \cap cache'[CacheName[call[w].path]].data = {}
     /\ pc'[w] = "rel_data" => call'[w].dest # None
     /\ pc'[w] = "rel_touch" /\ Exists(cache'[CacheName[call[w].path]]) => Fresh(call[w].path)'
  \/ /\ pc[w] = "idle" /\ pc'[w] = "rel_get" /\ InUse(call'[w].path)
     /\ call'[w].unsaved # {} => NeedsWriteBack(localFH2LocalFile'[call'[w].fd])

(* What happens to the files of a path. *)
StaysFresh(p) ==
  /\ InUse(p) /\ Exists(orig[p]) => Exists(orig'[p])
  /\ ~Exists(cache[CacheName[p]]) /\ Exists(cache'[CacheName[p]]) =>
        \A v \in Workers : pc[v] \in {"data", "rel_data"} /\ call[v].path = p => call[v].dest # None
  /\ Exists(orig'[p]) /\ Exists(cache'[CacheName[p]]) /\ (Current(p)' \/ Filled(p)) /\ ~At(p, "data")'
        => Fresh(p)'
  /\ At(p, "data") /\ At(p, "data")' => EmptiedCopy(p)'
  /\ \A v \in Workers : pc[v] \in SpentLabels /\ call[v].path = p =>
        call'[v].unsaved \cap cache'[CacheName[p]].data = {}

LEMMA FreshFrame ==
  ASSUME FInv, LInv', DInv', Clocked', OwnIndex', OpenCopies', Numbered', OwedOnly',
         \A f \in Fds : handle'[f].path # None => InUse(handle'[f].path),
         \A v \in Workers : pc[v] = "rel_get" => localFH2LocalFile'[call[v].fd] = localFH2LocalFile[call[v].fd],
         \A v \in Workers : GoesFresh(v),
         \A p \in Paths : StaysFresh(p)
  PROVE  FInv'
<1>0. \A v \in Workers : /\ pc[v] \in OpenLabels \cup ReleaseLabels => call[v].path \in Paths
                         /\ pc'[v] \in OpenLabels \cup ReleaseLabels => call'[v].path \in Paths
  BY DEF FInv, LInv, TInv, Args
<1>1. NoFallBack'
  BY DEF FInv, NoFallBack, GoesFresh, ReleaseLabels, WriteBackLabels, CopyBackLabels
<1>2. Present'
  <2>1. SUFFICES ASSUME NEW p \in Paths, InUse(p)' PROVE Exists(orig'[p])
    BY DEF Present
  <2>2. CASE InUse(p)
    BY <2>2 DEF FInv, Present, StaysFresh
  <2>3. ASSUME NEW v \in Workers, ~InUse(p), call'[v].path = p,
               pc'[v] \in (OpenLabels \ {"check"}) \cup ReleaseLabels
        PROVE  Exists(orig'[p])
    <3>1. GoesFresh(v)
      OBVIOUS
    <3>2. ~(pc[v] \in (OpenLabels \ {"check"}) \cup ReleaseLabels /\ call'[v].path = call[v].path)
      BY <2>3 DEF InUse
    <3> QED
      BY <2>3, <3>1, <3>2 DEF GoesFresh, OpenLabels, ReleaseLabels, WriteBackLabels, CopyBackLabels
  <2> QED
    BY <2>1, <2>2, <2>3, NoneAssumption DEF InUse
<1>3. Spent'
  <2>1. ASSUME NEW v \in Workers, pc'[v] \in SpentLabels
        PROVE  call'[v].unsaved \cap cache'[CacheName[call'[v].path]].data = {}
    <3>1. GoesFresh(v)
      OBVIOUS
    <3>2. pc'[v] \notin OpenLabels \cup {"idle", "flag", "rel_get"}
      BY <2>1 DEF SpentLabels, OpenLabels
    <3>3. CASE pc[v] \in SpentLabels /\ call'[v].path = call[v].path
      <4>1. PICK p \in Paths : p = call[v].path
        BY <1>0, <3>3 DEF SpentLabels, ReleaseLabels, WriteBackLabels, CopyBackLabels
      <4> QED
        BY <3>3, <4>1 DEF StaysFresh
    <3> QED
      BY <2>1, <3>1, <3>2, <3>3 DEF GoesFresh, OpenLabels
  <2>2. ASSUME NEW v \in Workers, pc'[v] = "rel_get", call'[v].unsaved # {}
        PROVE  NeedsWriteBack(localFH2LocalFile'[call'[v].fd])
    <3>1. GoesFresh(v)
      OBVIOUS
    <3> QED
      BY <2>2, <3>1 DEF GoesFresh, FInv, Spent, OpenLabels
  <2> QED
    BY <2>1, <2>2 DEF Spent, NeedsWriteBack
<1>4. CollectedUnder'
  <2>1. SUFFICES ASSUME NEW v \in Workers, pc'[v] \in {"data", "rel_data"}, call'[v].dest = None
                 PROVE  ~Exists(cache'[CacheName[call'[v].path]])
    BY DEF CollectedUnder
  <2>2. GoesFresh(v)
    OBVIOUS
  <2>3. CASE pc'[v] = pc[v] /\ call'[v].path = call[v].path /\ call'[v].dest = call[v].dest
    <3>1. PICK p \in Paths : p = call[v].path
      BY <1>0, <2>1, <2>3 DEF OpenLabels, ReleaseLabels, WriteBackLabels, CopyBackLabels
    <3>2. ~Exists(cache[CacheName[p]])
      BY <2>1, <2>3, <3>1 DEF FInv, CollectedUnder
    <3> QED
      BY <2>1, <2>3, <3>1, <3>2 DEF StaysFresh
  <2>4. pc'[v] # pc[v] => FALSE
    BY <2>1, <2>2 DEF GoesFresh, ReleaseLabels, WriteBackLabels, CopyBackLabels
  <2> QED
    BY <2>1, <2>2, <2>3, <2>4
       DEF GoesFresh, OpenLabels, ReleaseLabels, WriteBackLabels, CopyBackLabels
<1>5. Emptied'
  <2>1. SUFFICES ASSUME NEW p \in Paths, At(p, "data")' PROVE EmptiedCopy(p)'
    BY DEF Emptied
  <2>2. PICK v \in Workers : pc'[v] = "data" /\ call'[v].path = p
    BY <2>1 DEF At
  <2>3. GoesFresh(v)
    OBVIOUS
  <2>4. CASE pc[v] = "data" /\ call[v].path = p
    <3>1. At(p, "data")
      BY <2>4 DEF At
    <3> QED
      BY <2>1, <3>1 DEF StaysFresh
  <2>5. CASE cache'[CacheName[p]].data = {}
    BY <2>5 DEF EmptiedCopy
  <2> QED
    BY <2>2, <2>3, <2>4, <2>5 DEF GoesFresh, ReleaseLabels, WriteBackLabels, CopyBackLabels
<1>6. FreshCopies'
  <2>1. SUFFICES ASSUME NEW p \in Paths, Exists(orig'[p]), Exists(cache'[CacheName[p]]),
                        (Current(p) \/ Filled(p))', ~At(p, "data")'
                 PROVE  Fresh(p)'
    BY DEF FreshCopies
  <2>2. CASE Current(p)' \/ Filled(p)
    BY <2>1, <2>2 DEF StaysFresh
  <2>3. CASE ~Filled(p) /\ Filled(p)'
    <3>1. PICK v \in Workers : /\ pc'[v] \in {"accessed", "gc", "touch", "rel_touch"}
                               /\ call'[v].path = p
      BY <2>3 DEF Filled
    <3>2. ~(pc[v] \in {"accessed", "gc", "touch", "rel_touch"} /\ call[v].path = p)
      BY <2>3 DEF Filled
    <3>3. GoesFresh(v)
      OBVIOUS
    <3>4. \/ pc[v] = "data" /\ Fresh(call[v].path)'
          \/ pc'[v] = "rel_touch" /\ Fresh(call[v].path)'
      BY <2>1, <3>1, <3>2, <3>3
         DEF GoesFresh, OpenLabels, ReleaseLabels, WriteBackLabels, CopyBackLabels
    <3> QED
      BY <3>1, <3>4 DEF Fresh
  <2> QED
    BY <2>1, <2>2, <2>3
<1> QED
  BY <1>1, <1>2, <1>3, <1>4, <1>5, <1>6 DEF FInv

(* A step that leaves the files of p alone, and whoever fills its copy where he is. *)
QuietFile(p) ==
  /\ orig'[p] = orig[p] /\ cache'[CacheName[p]] = cache[CacheName[p]]
  /\ cache[CacheName[p]].data \cap Unsaved \subseteq Unsaved'
  /\ At(p, "data") => At(p, "data")' \/ ~Exists(cache[CacheName[p]])
  /\ \A v \in Workers : pc[v] \in SpentLabels /\ call[v].path = p =>
        call'[v].unsaved \subseteq call[v].unsaved

LEMMA QuietFresh == ASSUME FInv, NEW p \in Paths, QuietFile(p) PROVE StaysFresh(p)
<1>1. Fresh(p) => Fresh(p)'
  BY DEF QuietFile, Fresh
<1>2. EmptiedCopy(p) => EmptiedCopy(p)'
  BY DEF QuietFile, EmptiedCopy
<1>3. Current(p)' = Current(p)
  BY DEF QuietFile, Current
<1>4. At(p, "data") /\ At(p, "data")' => EmptiedCopy(p)'
  BY <1>2 DEF FInv, Emptied
<1>5. ASSUME Exists(orig'[p]), Exists(cache'[CacheName[p]]), Current(p)' \/ Filled(p), ~At(p, "data")'
      PROVE  Fresh(p)'
  BY <1>1, <1>3, <1>5 DEF QuietFile, FInv, FreshCopies
<1>6. \A v \in Workers : pc[v] \in SpentLabels /\ call[v].path = p =>
        call'[v].unsaved \cap cache'[CacheName[p]].data = {}
  <2>1. ASSUME NEW v \in Workers, pc[v] \in SpentLabels, call[v].path = p
        PROVE  call'[v].unsaved \cap cache'[CacheName[p]].data = {}
    <3>1. call[v].unsaved \cap cache[CacheName[p]].data = {}
      BY <2>1 DEF FInv, Spent
    <3> QED
      BY <2>1, <3>1 DEF QuietFile
  <2> QED
    BY <2>1
<1>7. cache'[CacheName[p]] = cache[CacheName[p]] /\ orig'[p] = orig[p]
  BY DEF QuietFile
<1> QED
  BY <1>4, <1>5, <1>6, <1>7 DEF StaysFresh

(* Only a release owes something of its own. *)
LEMMA OwesNothing ==
  ASSUME FInv, NEW w \in Workers, pc[w] \notin ReleaseLabels PROVE call[w].unsaved = {}
BY DEF FInv, OwedOnly

LEMMA SameUnsaved ==
  ASSUME \A f \in Fds : handle'[f].unsaved = handle[f].unsaved,
         \A v \in Workers : call'[v].unsaved = call[v].unsaved
  PROVE  Unsaved' = Unsaved
<1>1. {handle'[f].unsaved : f \in Fds} = {handle[f].unsaved : f \in Fds}
  OBVIOUS
<1>2. {call'[v].unsaved : v \in Workers} = {call[v].unsaved : v \in Workers}
  OBVIOUS
<1> QED
  BY <1>1, <1>2 DEF Unsaved

(* One worker goes on; no file changes, and nothing becomes owed or is saved. *)
LEMMA MoveFresh ==
  ASSUME FInv, LInv', DInv', NEW w \in Workers, GoesFresh(w),
         pc[w] = "data" => pc'[w] = "data" \/ ~Exists(cache[Ccfn(w)]),
         \A v \in Workers : v # w => pc'[v] = pc[v] /\ call'[v] = call[v],
         UNCHANGED store, writes' = writes, OwnIndex', OpenCopies',
         \A f \in Fds : /\ handle'[f].unsaved = handle[f].unsaved
                        /\ \/ handle'[f].path = handle[f].path
                           \/ handle[f].path = None /\ InUse(handle'[f].path),
         call'[w].unsaved = call[w].unsaved, call'[w].data \subseteq call[w].data,
         call'[w].path # call[w].path => pc[w] \notin ReleaseLabels \cup {"data"},
         pc[w] \in ReleaseLabels => pc'[w] \in ReleaseLabels,
         \A v \in Workers : pc[v] = "rel_get" => localFH2LocalFile'[call[v].fd] = localFH2LocalFile[call[v].fd]
  PROVE  FInv'
<1>1. orig' = orig /\ cache' = cache /\ clock' = clock
  BY DEF store
<1>2. \A v \in Workers : call'[v].unsaved = call[v].unsaved /\ call'[v].data \subseteq call[v].data
  OBVIOUS
<1>3. Unsaved' = Unsaved
  BY <1>2, SameUnsaved
<1>4. Clocked'
  BY <1>1 DEF FInv, Clocked
<1>5. Numbered'
  <2>1. SUFFICES ASSUME NEW c \in Chunks, Held(c)' PROVE Held(c)
    BY DEF FInv, Numbered
  <2> QED
    BY <1>1, <1>2, <1>3, <2>1 DEF Held
<1>6. OwedOnly'
  <2>1. \A p \in Paths : orig'[p].data \cap Unsaved' = {}
    BY <1>1, <1>3 DEF FInv, OwedOnly
  <2>2. \A f \in Fds : \A c \in handle'[f].unsaved : c.path = handle'[f].path
    <3>1. ASSUME NEW f \in Fds, NEW c \in handle[f].unsaved PROVE c.path = handle[f].path /\ c.path # None
      <4>1. c \in Chunks
        BY <3>1 DEF FInv, LInv, TInv, TypeOK, Handles
      <4> QED
        BY <3>1, <4>1, NoneAssumption DEF FInv, OwedOnly, Chunks
    <3> QED
      BY <3>1
  <2>3. ASSUME NEW v \in Workers, NEW c \in call'[v].unsaved
        PROVE  pc'[v] \in ReleaseLabels /\ c.path = call'[v].path
    <3>1. c \in call[v].unsaved
      BY <1>2, <2>3
    <3>2. pc[v] \in ReleaseLabels /\ c.path = call[v].path
      BY <3>1 DEF FInv, OwedOnly
    <3> QED
      BY <3>2
  <2> QED
    BY <2>1, <2>2, <2>3 DEF OwedOnly
<1>7. \A f \in Fds : handle'[f].path # None => InUse(handle'[f].path)
  BY DEF InUse
<1>8. \A v \in Workers : GoesFresh(v)
  BY DEF GoesFresh
<1>9. ASSUME NEW p \in Paths PROVE StaysFresh(p)
  <2>1. At(p, "data") => At(p, "data")' \/ ~Exists(cache[CacheName[p]])
    <3>1. ASSUME NEW v \in Workers, pc[v] = "data", call[v].path = p, Exists(cache[CacheName[p]])
          PROVE  pc'[v] = "data" /\ call'[v].path = p
      BY <3>1 DEF Ccfn
    <3> QED
      BY <3>1 DEF At
  <2>2. QuietFile(p)
    BY <1>1, <1>2, <1>3, <2>1 DEF QuietFile
  <2> QED
    BY <2>2, QuietFresh
<1> QED
  BY <1>4, <1>5, <1>6, <1>7, <1>8, <1>9, FreshFrame

LEMMA SameTables ==
  ASSUME FInv
  PROVE  /\ UNCHANGED localCacheFileName2originalFullPathName => OwnIndex'
         /\ UNCHANGED <<store, desc>> => OpenCopies'
<1>1. UNCHANGED localCacheFileName2originalFullPathName => OwnIndex'
  BY DEF FInv, OwnIndex
<1>2. UNCHANGED <<store, desc>> => OpenCopies'
  BY DEF FInv, OpenCopies, store
<1> QED
  BY <1>1, <1>2

LEMMA AllUsable == ASSUME FInv, DistinctNames, NEW p \in Paths PROVE CanUse(p)
<1>1. CacheName[p] \in Names
  BY CacheNameAssumption
<1>2. localCacheFileName2originalFullPathName[CacheName[p]] \in Paths \cup {None}
  BY <1>1 DEF FInv, LInv, TInv, TypeOK
<1> QED
  BY <1>1, <1>2 DEF FInv, OwnIndex, DistinctNames, CanUse

LEMMA OpenOriginal ==
  ASSUME FInv, NEW w \in Workers, pc[w] \in (OpenLabels \ {"check"}) \cup ReleaseLabels
  PROVE  call[w].path \in Paths /\ Exists(orig[call[w].path]) /\ InUse(call[w].path)
<1>1. call[w].path \in Paths
  BY DEF FInv, LInv, TInv, Args
<1>2. InUse(call[w].path)
  BY DEF InUse
<1> QED
  BY <1>1, <1>2 DEF FInv, Present

LEMMA OpenBeginFresh ==
  ASSUME FInv, LInv', DInv', DistinctNames, NEW w \in Workers, NEW p \in Paths, OpenBegin(w, p)
  PROVE  FInv'
<1>0. pc \in [Workers -> Labels] /\ call \in [Workers -> Locals]
  BY DEF FInv, LInv, TInv, TypeOK
<1>1. pc'[w] = "check" /\ pc[w] = "idle"
  BY <1>0, AllUsable DEF OpenBegin, Goto
<1>2. \A v \in Workers : v # w => pc'[v] = pc[v] /\ call'[v] = call[v]
  BY <1>0 DEF OpenBegin, Goto
<1>3. call'[w].unsaved = call[w].unsaved /\ call'[w].data = call[w].data
  BY <1>0 DEF OpenBegin, Locals
<1>4. UNCHANGED <<store, desc, tables, handle, writes>>
  BY DEF OpenBegin
<1>5. OwnIndex' /\ OpenCopies' /\ UNCHANGED localFH2LocalFile
  BY <1>4, SameTables DEF tables
<1>6. GoesFresh(w)
  BY <1>1 DEF GoesFresh
<1>7. pc[w] \notin ReleaseLabels \cup {"data"}
  BY <1>1 DEF ReleaseLabels, WriteBackLabels, CopyBackLabels
<1> QED
  BY <1>1, <1>2, <1>3, <1>4, <1>5, <1>6, <1>7, MoveFresh

(* A step of an open that changes neither files nor handles. *)
LEMMA OpenMoveFresh ==
  ASSUME FInv, LInv', DInv', DistinctNames, NEW w \in Workers,
         OpenCheck(w) \/ OpenLock(w) \/ OpenStat(w) \/ OpenCached(w) \/ OpenCreateLF(w)
  PROVE  FInv'
<1>0. pc \in [Workers -> Labels] /\ call \in [Workers -> Locals] /\ desc \in [Fds -> Descriptions]
  BY DEF FInv, LInv, TInv, TypeOK
<1>1. pc[w] \in {"check", "lock", "stat", "open", "create"}
  BY DEF OpenCheck, OpenLock, OpenStat, OpenCached, OpenCreateLF, FInv, NoFallBack
<1>2. pc[w] \notin ReleaseLabels \cup {"data", "idle", "flag"} /\ pc[w] \in OpenLabels
  BY <1>1 DEF ReleaseLabels, WriteBackLabels, CopyBackLabels, OpenLabels
<1>3. \A v \in Workers : v # w => pc'[v] = pc[v] /\ call'[v] = call[v]
  BY <1>0 DEF OpenCheck, OpenLock, OpenStat, OpenCached, OpenCreateLF, Goto, Return, Leave
<1>4. call[w].unsaved = {}
  BY <1>2, OwesNothing
<1>5. call'[w].unsaved = call[w].unsaved /\ call'[w].data \subseteq call[w].data
  <2>1. CASE call' = call
    BY <2>1
  <2>2. CASE call' = [call EXCEPT ![w] = NoCall]
    BY <1>0, <1>4, <2>2 DEF NoCall
  <2>3. CASE \E f \in FreeFds : call' = [call EXCEPT ![w].fd = f]
    BY <1>0, <2>3 DEF Locals
  <2> QED
    BY <2>1, <2>2, <2>3 DEF OpenCheck, OpenLock, OpenStat, OpenCached, OpenCreateLF, Return, Leave
<1>6. UNCHANGED <<store, handle, writes, localCacheFileName2originalFullPathName>>
  BY DEF OpenCheck, OpenLock, OpenStat, OpenCached, OpenCreateLF, tables, users
<1>7. OwnIndex'
  BY <1>6, SameTables
<1>8. OpenCopies'
  <2>1. CASE desc' = desc
    BY <1>6, <2>1, SameTables
  <2>2. ASSUME NEW f \in FreeFds, Exists(cache[Ccfn(w)]), desc' = [desc EXCEPT ![f] = On("cache", Ccfn(w))]
        PROVE  OpenCopies'
    <3>1. cache' = cache
      BY <1>6 DEF store
    <3>2. ASSUME NEW g \in Fds
          PROVE  desc'[g] = desc[g] \/ (desc'[g].on = "cache" /\ desc'[g].name = Ccfn(w))
      BY <1>0, <2>2 DEF On
    <3> QED
      BY <2>2, <3>1, <3>2 DEF FInv, OpenCopies
  <2> QED
    BY <2>1, <2>2 DEF OpenCheck, OpenLock, OpenStat, OpenCached, OpenCreateLF
<1>9. GoesFresh(w)
  <2>1. CASE pc'[w] = "idle"
    BY <1>2, <2>1 DEF GoesFresh
  <2>2. CASE pc'[w] # "idle"
    <3>1. call'[w].path = call[w].path
      <4>1. CASE call' = call
        BY <4>1
      <4>2. CASE \E f \in FreeFds : call' = [call EXCEPT ![w].fd = f]
        BY <1>0, <4>2 DEF Locals
      <4> QED
        BY <1>0, <2>2, <4>1, <4>2
           DEF OpenCheck, OpenLock, OpenStat, OpenCached, OpenCreateLF, Return, Leave, Goto
    <3>2. Exists(orig[call[w].path])
      <4>1. CASE pc[w] = "check"
        BY <1>0, <2>2, <4>1 DEF OpenCheck, OpenLock, OpenStat, OpenCached, OpenCreateLF, Return, Goto
      <4> QED
        BY <1>2, <4>1, OpenOriginal
    <3>3. Exists(orig'[call[w].path])
      BY <1>6, <3>2 DEF store
    <3>4. pc'[w] \in {"lock", "stat", "copy", "open", "create", "append"}
      BY <1>0, <1>1, <2>2, <3>2
         DEF OpenCheck, OpenLock, OpenStat, OpenCached, OpenCreateLF, Return, Leave, Goto
    <3> QED
      BY <1>2, <3>1, <3>3, <3>4 DEF GoesFresh
  <2> QED
    BY <2>1, <2>2
<1>10. \A v \in Workers : pc[v] = "rel_get" => localFH2LocalFile'[call[v].fd] = localFH2LocalFile[call[v].fd]
  <2>1. CASE UNCHANGED tables
    BY <2>1 DEF tables
  <2>2. CASE OpenCreateLF(w)
    <3>1. ASSUME NEW v \in Workers, pc[v] = "rel_get"
          PROVE  localFH2LocalFile'[call[v].fd] = localFH2LocalFile[call[v].fd]
      <4>1. call[v].fd \in Fds /\ v # w /\ pc[w] = "create"
        BY <2>2, <3>1 DEF FInv, LInv, TInv, Args, DescriptorLabels, ReleaseLabels, OpenCreateLF
      <4>2. Owns(v, call[v].fd)
        BY <3>1 DEF Owns, ReleaseLabels
      <4>3. call[v].fd # call[w].fd
        BY <4>1, <4>2 DEF FInv, DInv, HInv, OneOwner, Owns, OpenedLabels
      <4>4. localFH2LocalFile \in [Fds -> LocalFiles]
        BY DEF FInv, LInv, TInv, TypeOK
      <4> QED
        BY <2>2, <4>1, <4>3, <4>4 DEF OpenCreateLF, CreateLF
    <3> QED
      BY <3>1
  <2> QED
    BY <2>1, <2>2 DEF OpenCheck, OpenLock, OpenStat, OpenCached
<1> QED
  BY <1>2, <1>3, <1>5, <1>6, <1>7, <1>8, <1>9, <1>10, MoveFresh

LEMMA OpenAppendFresh ==
  ASSUME FInv, LInv', DInv', NEW w \in Workers, OpenAppend(w) PROVE FInv'
<1>0. /\ pc \in [Workers -> Labels] /\ call \in [Workers -> Locals]
      /\ handle \in [Fds -> Handles]
      /\ localCacheFileName2originalFullPathName \in [Names -> Paths \cup {None}]
  BY DEF FInv, LInv, TInv, TypeOK
<1>1. pc[w] = "append" /\ pc'[w] = "idle" /\ call'[w] = NoCall
  BY <1>0 DEF OpenAppend, Leave, Return, Goto
<1>2. pc[w] \notin ReleaseLabels \cup {"data", "idle", "flag"} /\ pc[w] \in OpenLabels \ {"check"}
  BY <1>1 DEF ReleaseLabels, WriteBackLabels, CopyBackLabels, OpenLabels
<1>3. \A v \in Workers : v # w => pc'[v] = pc[v] /\ call'[v] = call[v]
  BY <1>0 DEF OpenAppend, Goto, Return, Leave
<1>4. call'[w].unsaved = call[w].unsaved /\ call'[w].data \subseteq call[w].data
  BY <1>1, <1>2, OwesNothing DEF NoCall
<1>5. InUse(call[w].path) /\ call[w].path \in Paths
  BY <1>2, OpenOriginal
<1>6. OwnIndex'
  BY <1>0, <1>5 DEF FInv, OwnIndex, OpenAppend, Ccfn
<1>7. OpenCopies' /\ store' = store /\ writes' = writes
  BY SameTables DEF OpenAppend
<1>8. call[w].fd \in Fds /\ handle[call[w].fd].path = None
  BY <1>1 DEF FInv, DInv, HInv, OneOwner, Owns, OpenedLabels, LInv, TInv, Args, DescriptorLabels
<1>9. handle[call[w].fd].unsaved = {}
  <2>1. ASSUME NEW c \in handle[call[w].fd].unsaved PROVE FALSE
    <3>1. c \in Chunks
      BY <1>0, <1>8, <2>1 DEF Handles
    <3> QED
      BY <1>8, <2>1, <3>1, NoneAssumption DEF FInv, OwedOnly, Chunks
  <2> QED
    BY <2>1
<1>10. \A f \in Fds : /\ handle'[f].unsaved = handle[f].unsaved
                      /\ \/ handle'[f].path = handle[f].path
                         \/ handle[f].path = None /\ InUse(handle'[f].path)
  <2>1. ASSUME NEW f \in Fds
        PROVE  /\ handle'[f].unsaved = handle[f].unsaved
               /\ \/ handle'[f].path = handle[f].path
                  \/ handle[f].path = None /\ handle'[f].path = call[w].path
    <3>1. CASE f = call[w].fd
      BY <1>0, <1>8, <1>9, <3>1 DEF OpenAppend, GiveHandle
    <3>2. CASE f # call[w].fd
      BY <1>0, <3>2 DEF OpenAppend, GiveHandle
    <3> QED
      BY <3>1, <3>2
  <2> QED
    BY <1>5, <2>1
<1>11. GoesFresh(w)
  BY <1>1 DEF GoesFresh
<1>12. localFH2LocalFile' = localFH2LocalFile
  BY DEF OpenAppend
<1> QED
  BY <1>1, <1>2, <1>3, <1>4, <1>6, <1>7, <1>10, <1>11, <1>12, MoveFresh

(* The steps around a collection. *)
LEMMA CollectorMoveFresh ==
  ASSUME FInv, LInv', DInv', NEW w \in Workers, AccessedFile(w) \/ CollectEnd(w) \/ Forget(w)
  PROVE  FInv'
<1>0. /\ pc \in [Workers -> Labels] /\ call \in [Workers -> Locals]
      /\ localCacheFileName2originalFullPathName \in [Names -> Paths \cup {None}]
  BY DEF FInv, LInv, TInv, TypeOK
<1>1. \A v \in Workers : v # w => pc'[v] = pc[v] /\ call'[v] = call[v]
  BY <1>0 DEF AccessedFile, CollectEnd, Forget, Goto
<1>2. /\ call'[w].unsaved = call[w].unsaved /\ call'[w].data = call[w].data
      /\ call'[w].path = call[w].path /\ call'[w].fd = call[w].fd /\ call'[w].dest = call[w].dest
  BY <1>0 DEF AccessedFile, CollectEnd, Forget, Locals
<1>3. UNCHANGED <<store, desc, handle, writes, localFH2LocalFile>>
  BY DEF AccessedFile, CollectEnd, Forget, users, tables
<1>4. OpenCopies'
  BY <1>3, SameTables
<1>5. OwnIndex'
  <2>1. CASE Forget(w)
    BY <1>0, <2>1 DEF Forget, FInv, OwnIndex
  <2>2. CASE UNCHANGED tables
    BY <2>2, SameTables DEF tables
  <2> QED
    BY <2>1, <2>2 DEF AccessedFile, CollectEnd
<1>6. \/ pc'[w] = pc[w]
      \/ pc[w] \in {"accessed", "gc"} /\ pc'[w] \in {"gc", "touch"}
      \/ pc[w] \in {"rel_accessed", "rel_gc"} /\ pc'[w] \in {"rel_gc", "rel_unlock"}
  BY <1>0 DEF AccessedFile, CollectEnd, Forget, Goto, AfterAccess
<1>7. GoesFresh(w)
  <2>1. CASE pc'[w] = pc[w]
    BY <1>2, <2>1 DEF GoesFresh
  <2>2. CASE pc[w] \in {"accessed", "gc"} /\ pc'[w] \in {"gc", "touch"}
    <3>1. Exists(orig[call[w].path])
      BY <2>2, OpenOriginal DEF OpenLabels
    <3>2. Exists(orig'[call[w].path])
      BY <1>3, <3>1 DEF store
    <3> QED
      BY <1>2, <2>2, <3>2 DEF GoesFresh, OpenLabels
  <2>3. CASE pc[w] \in {"rel_accessed", "rel_gc"} /\ pc'[w] \in {"rel_gc", "rel_unlock"}
    <3>1. call[w].unsaved \cap cache[CacheName[call[w].path]].data = {}
      BY <2>3 DEF FInv, Spent, SpentLabels
    <3>2. call'[w].unsaved \cap cache'[CacheName[call[w].path]].data = {}
      BY <1>2, <1>3, <3>1 DEF store
    <3> QED
      BY <1>2, <2>3, <3>2 DEF GoesFresh, ReleaseLabels, WriteBackLabels, CopyBackLabels
  <2> QED
    BY <1>6, <2>1, <2>2, <2>3
<1>8. /\ pc[w] = "data" => pc'[w] = "data"
      /\ pc[w] \in ReleaseLabels => pc'[w] \in ReleaseLabels
  BY <1>6 DEF ReleaseLabels, WriteBackLabels, CopyBackLabels
<1> QED
  BY <1>1, <1>2, <1>3, <1>4, <1>5, <1>7, <1>8, MoveFresh

LEMMA SetDirtyFlagFresh ==
  ASSUME FInv, LInv', DInv', NEW w \in Workers, SetDirtyFlag(w) PROVE FInv'
<1>0. /\ pc \in [Workers -> Labels] /\ call \in [Workers -> Locals]
      /\ localFH2LocalFile \in [Fds -> LocalFiles]
  BY DEF FInv, LInv, TInv, TypeOK
<1>1. pc[w] = "flag" /\ pc'[w] = "idle" /\ call'[w] = NoCall
  BY <1>0 DEF SetDirtyFlag, Return, Goto
<1>2. pc[w] \notin ReleaseLabels \cup {"data"}
  BY <1>1 DEF ReleaseLabels, WriteBackLabels, CopyBackLabels
<1>3. \A v \in Workers : v # w => pc'[v] = pc[v] /\ call'[v] = call[v]
  BY <1>0 DEF SetDirtyFlag, Goto, Return
<1>4. call'[w].unsaved = call[w].unsaved /\ call'[w].data \subseteq call[w].data
  BY <1>1, <1>2, OwesNothing DEF NoCall
<1>5. UNCHANGED <<store, desc, handle, writes, localCacheFileName2originalFullPathName>>
  BY DEF SetDirtyFlag, users
<1>6. OwnIndex' /\ OpenCopies'
  BY <1>5, SameTables
<1>7. \A v \in Workers : pc[v] = "rel_get" => localFH2LocalFile'[call[v].fd] = localFH2LocalFile[call[v].fd]
  <2>1. ASSUME NEW v \in Workers, pc[v] = "rel_get"
        PROVE  localFH2LocalFile'[call[v].fd] = localFH2LocalFile[call[v].fd]
    <3>1. call[v].fd \in Fds /\ handle[call[w].fd].path # None
      BY <1>1, <2>1 DEF FInv, LInv, TInv, Args, DescriptorLabels, ReleaseLabels, DInv, HInv, OneOwner
    <3>2. Owns(v, call[v].fd)
      BY <2>1 DEF Owns, ReleaseLabels
    <3>3. call[v].fd # call[w].fd
      BY <3>1, <3>2 DEF FInv, DInv, HInv, OneOwner
    <3> QED
      BY <1>0, <3>1, <3>3 DEF SetDirtyFlag, Flagged
  <2> QED
    BY <2>1
<1>8. GoesFresh(w)
  BY <1>1 DEF GoesFresh
<1> QED
  BY <1>1, <1>2, <1>3, <1>4, <1>5, <1>6, <1>7, <1>8, MoveFresh

(* A step of a release that changes neither files nor handles. *)
LEMMA ReleaseMoveFresh ==
  ASSUME FInv, LInv', DInv', LocalCalls, NEW w \in Workers,
         \/ ReleaseGetLF(w) \/ ReleaseLock(w) \/ ReleaseUnlock(w)
         \/ CopyBackTruncate(w) /\ pc'[w] = "rel_unlock"
  PROVE  FInv'
<1>0. pc \in [Workers -> Labels] /\ call \in [Workers -> Locals]
  BY DEF FInv, LInv, TInv, TypeOK
<1>1. \A v \in Workers : v # w => pc'[v] = pc[v] /\ call'[v] = call[v]
  BY <1>0 DEF ReleaseGetLF, ReleaseLock, ReleaseUnlock, CopyBackTruncate, Goto
<1>2. /\ call'[w].unsaved = call[w].unsaved /\ call'[w].data = call[w].data
      /\ call'[w].path = call[w].path /\ call'[w].fd = call[w].fd
  BY <1>0 DEF ReleaseGetLF, ReleaseLock, ReleaseUnlock, CopyBackTruncate, Locals
<1>3. UNCHANGED <<store, desc, handle, writes, tables>>
  BY <1>0 DEF ReleaseGetLF, ReleaseLock, ReleaseUnlock, CopyBackTruncate, users, Goto
<1>4. OpenCopies' /\ OwnIndex' /\ localFH2LocalFile' = localFH2LocalFile
  BY <1>3, SameTables DEF tables
<1>5. /\ pc[w] \in {"rel_get", "rel_lock", "rel_copy", "rel_unlock"}
      /\ pc'[w] \in {"rel_lock", "rel_remove", "rel_copy", "rel_unlock"}
  BY <1>0 DEF ReleaseGetLF, ReleaseLock, ReleaseUnlock, CopyBackTruncate, Goto
<1>6. /\ pc[w] \in ReleaseLabels /\ pc'[w] \in ReleaseLabels \ {"rel_get"} /\ pc[w] # "data"
      /\ pc'[w] \notin {"rel_data", "rel_touch"}
  BY <1>5 DEF ReleaseLabels, WriteBackLabels, CopyBackLabels
<1>7. ASSUME pc'[w] \in SpentLabels
      PROVE  call[w].unsaved \cap cache[CacheName[call[w].path]].data = {}
  <2>1. CASE pc[w] = "rel_get"
    <3>1. ~NeedsWriteBack(localFH2LocalFile[call[w].fd])
      BY <1>0, <1>7, <2>1 DEF ReleaseGetLF, ReleaseLock, ReleaseUnlock, CopyBackTruncate, Goto, SpentLabels
    <3> QED
      BY <2>1, <3>1 DEF FInv, Spent
  <2>2. CASE pc[w] = "rel_lock"
    BY <1>0, <1>7, <2>2 DEF ReleaseGetLF, ReleaseLock, ReleaseUnlock, CopyBackTruncate, Goto, SpentLabels
  <2>3. CASE pc[w] = "rel_copy"
    <3>1. CopyBackTruncate(w) /\ pc'[w] = "rel_unlock"
      BY <2>3 DEF ReleaseGetLF, ReleaseLock, ReleaseUnlock
    <3>2. ~Exists(cache[Real(w)])
      BY <1>0, <3>1 DEF CopyBackTruncate, CanCopyBack, LocalCalls, Goto
    <3>3. Real(w) = CacheName[call[w].path]
      BY <2>3 DEF FInv, DInv, HInv, OwnCopy, WriteBackLabels, CopyBackLabels
    <3> QED
      BY <3>2, <3>3 DEF Exists, Absent
  <2>4. CASE pc[w] = "rel_unlock"
    BY <2>4 DEF FInv, Spent, SpentLabels
  <2> QED
    BY <1>5, <2>1, <2>2, <2>3, <2>4
<1>8. GoesFresh(w)
  BY <1>2, <1>3, <1>6, <1>7 DEF GoesFresh, store
<1> QED
  BY <1>1, <1>2, <1>3, <1>4, <1>6, <1>8, MoveFresh

LEMMA ReleaseRemoveLFFresh ==
  ASSUME FInv, LInv', DInv', DistinctNames, NEW w \in Workers, ReleaseRemoveLF(w)
  PROVE  FInv'
<1>0. /\ pc \in [Workers -> Labels] /\ call \in [Workers -> Locals]
      /\ localFH2LocalFile \in [Fds -> LocalFiles]
      /\ \A v \in Workers : call[v].unsaved \subseteq Chunks
  BY DEF FInv, LInv, TInv, TypeOK, Locals
<1>1. pc[w] = "rel_remove" /\ pc'[w] = "idle" /\ call'[w] = NoCall
  BY <1>0 DEF ReleaseRemoveLF, Return, Goto
<1>2. \A v \in Workers : v # w => pc'[v] = pc[v] /\ call'[v] = call[v]
  BY <1>0 DEF ReleaseRemoveLF, Goto, Return
<1>3. /\ orig' = orig /\ cache' = cache /\ clock' = clock
      /\ UNCHANGED <<store, desc, handle, writes, localCacheFileName2originalFullPathName>>
  BY DEF ReleaseRemoveLF, store
<1>4. OwnIndex' /\ OpenCopies'
  BY <1>3, SameTables
<1>5. Clocked'
  BY <1>3 DEF FInv, Clocked
<1>6. call'[w].unsaved = {} /\ call'[w].data = {}
  BY <1>1 DEF NoCall
<1>7. Unsaved' \subseteq Unsaved /\ Unsaved \ call[w].unsaved \subseteq Unsaved'
  BY <1>2, <1>3, <1>6 DEF Unsaved
<1>8. Numbered'
  <2>1. SUFFICES ASSUME NEW c \in Chunks, Held(c)' PROVE Held(c)
    BY <1>3 DEF FInv, Numbered
  <2> QED
    BY <1>2, <1>3, <1>6, <1>7, <2>1 DEF Held
<1>9. OwedOnly'
  BY <1>2, <1>3, <1>6, <1>7 DEF FInv, OwedOnly
<1>10. \A f \in Fds : handle'[f].path # None => InUse(handle'[f].path)
  BY <1>3 DEF InUse
<1>11. \A v \in Workers : GoesFresh(v)
  BY <1>1, <1>2 DEF GoesFresh
<1>12. ASSUME NEW p \in Paths PROVE StaysFresh(p)
  <2>1. cache[CacheName[p]].data \cap call[w].unsaved = {}
    <3>1. ASSUME NEW c \in call[w].unsaved, c \in cache[CacheName[p]].data PROVE FALSE
      <4>1. c.path = call[w].path /\ c.path \in Paths
        BY <1>0, <3>1 DEF FInv, OwedOnly, Chunks
      <4>2. CacheName[c.path] = CacheName[p]
        BY <3>1, CacheNameAssumption DEF FInv, DInv, NoForeignData
      <4>3. c.path = p
        BY <4>1, <4>2 DEF DistinctNames
      <4>4. call[w].unsaved \cap cache[CacheName[call[w].path]].data = {}
        BY <1>1 DEF FInv, Spent, SpentLabels
      <4> QED
        BY <3>1, <4>1, <4>3, <4>4
    <3> QED
      BY <3>1
  <2>2. At(p, "data") => At(p, "data")'
    <3>1. ASSUME NEW v \in Workers, pc[v] = "data", call[v].path = p
          PROVE  pc'[v] = "data" /\ call'[v].path = p
      BY <1>1, <1>2, <3>1
    <3> QED
      BY <3>1 DEF At
  <2>3. \A v \in Workers : call'[v].unsaved \subseteq call[v].unsaved
    BY <1>2, <1>6
  <2>4. QuietFile(p)
    BY <1>3, <1>7, <2>1, <2>2, <2>3 DEF QuietFile
  <2> QED
    BY <2>4, QuietFresh
<1>13. \A v \in Workers : pc[v] = "rel_get" => localFH2LocalFile'[call[v].fd] = localFH2LocalFile[call[v].fd]
  <2>1. ASSUME NEW v \in Workers, pc[v] = "rel_get"
        PROVE  localFH2LocalFile'[call[v].fd] = localFH2LocalFile[call[v].fd]
    <3>1. call[v].fd \in Fds /\ call[w].fd \in Fds /\ v # w
      BY <1>1, <2>1 DEF FInv, LInv, TInv, Args, DescriptorLabels, ReleaseLabels
    <3>2. Owns(v, call[v].fd) /\ Owns(w, call[w].fd)
      BY <1>1, <2>1 DEF Owns, ReleaseLabels
    <3>3. call[v].fd # call[w].fd
      BY <3>1, <3>2 DEF FInv, DInv, HInv, OneOwner
    <3> QED
      BY <1>0, <3>1, <3>3 DEF ReleaseRemoveLF, WithoutLF
  <2> QED
    BY <2>1
<1> QED
  BY <1>4, <1>5, <1>8, <1>9, <1>10, <1>11, <1>12, <1>13, FreshFrame

(* What the handle owed, its release owes. *)
LEMMA ReleaseCloseFresh ==
  ASSUME FInv, LInv', DInv', NEW w \in Workers, NEW f \in Fds, ReleaseClose(w, f) PROVE FInv'
<1>0. /\ pc \in [Workers -> Labels] /\ call \in [Workers -> Locals]
      /\ handle \in [Fds -> Handles] /\ desc \in [Fds -> Descriptions]
  BY DEF FInv, LInv, TInv, TypeOK
<1>1. /\ pc[w] = "idle" /\ pc'[w] = "rel_get"
      /\ call'[w].path = handle[f].path /\ call'[w].fd = f /\ call'[w].unsaved = handle[f].unsaved
      /\ call'[w].data = call[w].data
  BY <1>0 DEF ReleaseClose, Goto, Locals
<1>2. \A v \in Workers : v # w => pc'[v] = pc[v] /\ call'[v] = call[v]
  BY <1>0 DEF ReleaseClose, Goto
<1>3. /\ orig' = orig /\ cache' = cache /\ clock' = clock
      /\ UNCHANGED <<writes, localCacheFileName2originalFullPathName, localFH2LocalFile>>
  BY DEF ReleaseClose, store, tables
<1>4. handle'[f] = NoHandle /\ \A g \in Fds : g # f => handle'[g] = handle[g]
  BY <1>0 DEF ReleaseClose
<1>5. OwnIndex'
  BY <1>3, SameTables
<1>6. OpenCopies'
  <2>1. \A g \in Fds : desc'[g] = desc[g] \/ desc'[g] = Closed
    BY <1>0 DEF ReleaseClose
  <2> QED
    BY <1>3, <2>1 DEF FInv, OpenCopies, Closed, On
<1>7. Clocked'
  BY <1>3 DEF FInv, Clocked
<1>8. call[w].unsaved = {}
  BY <1>1, OwesNothing DEF ReleaseLabels, WriteBackLabels, CopyBackLabels
<1>9. Unsaved' = Unsaved
  <2>1. handle'[f].unsaved = {}
    BY <1>4 DEF NoHandle
  <2>2. ASSUME NEW c, c \in Unsaved PROVE c \in Unsaved'
    <3>1. CASE \E g \in Fds : c \in handle[g].unsaved
      BY <1>1, <1>4, <3>1 DEF Unsaved
    <3>2. CASE \E v \in Workers : c \in call[v].unsaved
      BY <1>2, <1>8, <3>2 DEF Unsaved
    <3> QED
      BY <2>2, <3>1, <3>2 DEF Unsaved
  <2>3. ASSUME NEW c, c \in Unsaved' PROVE c \in Unsaved
    <3>1. CASE \E g \in Fds : c \in handle'[g].unsaved
      BY <1>4, <2>1, <3>1 DEF Unsaved
    <3>2. CASE \E v \in Workers : c \in call'[v].unsaved
      BY <1>1, <1>2, <3>2 DEF Unsaved
    <3> QED
      BY <2>3, <3>1, <3>2 DEF Unsaved
  <2> QED
    BY <2>2, <2>3
<1>10. Numbered'
  <2>1. SUFFICES ASSUME NEW c \in Chunks, Held(c)' PROVE Held(c)
    BY <1>3 DEF FInv, Numbered
  <2>2. \A v \in Workers : call'[v].data = call[v].data
    BY <1>1, <1>2
  <2> QED
    BY <1>3, <1>9, <2>1, <2>2 DEF Held
<1>11. OwedOnly'
  <2>1. pc'[w] \in ReleaseLabels /\ \A c \in call'[w].unsaved : c.path = call'[w].path
    BY <1>1 DEF FInv, OwedOnly, ReleaseLabels
  <2>2. \A g \in Fds : \A c \in handle'[g].unsaved : c.path = handle'[g].path
    BY <1>4 DEF FInv, OwedOnly, NoHandle
  <2>3. \A p \in Paths : orig'[p].data \cap Unsaved' = {}
    BY <1>3, <1>9 DEF FInv, OwedOnly
  <2>4. \A v \in Workers : \A c \in call'[v].unsaved : pc'[v] \in ReleaseLabels /\ c.path = call'[v].path
    BY <1>2, <2>1 DEF FInv, OwedOnly
  <2> QED
    BY <2>2, <2>3, <2>4 DEF OwedOnly
<1>12. \A g \in Fds : handle'[g].path # None => InUse(handle'[g].path)
  BY <1>4 DEF InUse, NoHandle
<1>13. GoesFresh(w)
  <2>1. handle[f].path # None /\ InUse(call'[w].path)
    BY <1>1 DEF ReleaseClose, InUse
  <2>2. ASSUME handle[f].unsaved # {} PROVE NeedsWriteBack(localFH2LocalFile[f])
    <3>1. localFH2LocalFile[f].isDirty
      BY <2>1, <2>2 DEF FInv, DInv, HInv, Dirty, ReleaseClose
    <3>2. EntryFor(f, handle[f].path) /\ desc[f].on # "orig"
      BY <2>1 DEF FInv, DInv, HInv, Entries, OpenCopies
    <3>3. localFH2LocalFile[f].isCached
      BY <3>2 DEF EntryFor, OnOriginal, On
    <3> QED
      BY <3>1, <3>3 DEF NeedsWriteBack
  <2> QED
    BY <1>1, <1>3, <2>1, <2>2 DEF GoesFresh, NeedsWriteBack
<1>14. \A v \in Workers : GoesFresh(v)
  BY <1>2, <1>13 DEF GoesFresh
<1>15. ASSUME NEW p \in Paths PROVE StaysFresh(p)
  <2>1. At(p, "data") => At(p, "data")'
    <3>1. ASSUME NEW v \in Workers, pc[v] = "data", call[v].path = p
          PROVE  pc'[v] = "data" /\ call'[v].path = p
      BY <1>1, <1>2, <3>1
    <3> QED
      BY <3>1 DEF At
  <2>2. \A v \in Workers : pc[v] \in SpentLabels => call'[v].unsaved \subseteq call[v].unsaved
    BY <1>1, <1>2 DEF SpentLabels
  <2>3. QuietFile(p)
    BY <1>3, <1>9, <2>1, <2>2 DEF QuietFile
  <2> QED
    BY <2>3, QuietFresh
<1>16. \A v \in Workers : pc[v] = "rel_get" => localFH2LocalFile'[call[v].fd] = localFH2LocalFile[call[v].fd]
  BY <1>3
<1> QED
  BY <1>5, <1>6, <1>7, <1>10, <1>11, <1>12, <1>14, <1>15, <1>16, FreshFrame

(* A copy is worked on under its lock, by one handler. *)
LEMMA OneAtCopy ==
  ASSUME FInv, NEW v \in Workers, NEW w \in Workers, call[v].path = call[w].path,
         {pc[v], pc[w]} \subseteq CopyInLabels \cup CopyBackLabels
  PROVE  v = w
<1>1. ASSUME NEW u \in Workers, pc[u] \in CopyInLabels \cup CopyBackLabels
      PROVE  lcf[CacheName[call[u].path]] = u
  <2>1. CASE pc[u] \in CopyInLabels
    BY <2>1 DEF FInv, LInv, LockScope, Ccfn
  <2>2. CASE pc[u] \in CopyBackLabels
    BY <2>2 DEF FInv, LInv, LockScope, DInv, HInv, OwnCopy, WriteBackLabels
  <2> QED
    BY <1>1, <2>1, <2>2
<1> QED
  BY <1>1

LEMMA Unattended ==
  ASSUME FInv, DistinctNames, NEW p \in Paths, LCFPasses(p),
         NEW v \in Workers, call[v].path = p
  PROVE  pc[v] \notin CopyInLabels \cup CopyBackLabels
<1>1. lcf[CacheName[p]] = None
  BY AllUsable DEF LCFPasses
<1>2. v # None
  BY NoneAssumption
<1>3. CASE pc[v] \in CopyInLabels
  BY <1>1, <1>2, <1>3 DEF FInv, LInv, LockScope, Ccfn
<1>4. CASE pc[v] \in CopyBackLabels
  BY <1>1, <1>2, <1>4 DEF FInv, LInv, LockScope, DInv, HInv, OwnCopy, WriteBackLabels
<1> QED
  BY <1>3, <1>4

LEMMA ClockNext ==
  ASSUME FInv, NEW now \in Now
  PROVE  /\ now \in Nat /\ clock \in Nat /\ clock <= now /\ 0 < now
         /\ DistinctSeconds => clock < now
BY DEF FInv, LInv, TInv, TypeOK, Clocked, Now

(* The two steps of a copy-in. *)
LEMMA FillFresh ==
  ASSUME FInv, LInv', DInv', DistinctNames, NEW w \in Workers, NEW p \in Paths, p = call[w].path,
         NEW data, NEW now \in Now,
         \/ pc[w] = "copy" /\ pc'[w] = "data" /\ data = {} /\ call'[w].dest # None
         \/ /\ pc[w] = "data" /\ pc'[w] = "accessed" /\ call[w].dest # None
            /\ data = cache[CacheName[p]].data \cup orig[p].data,
         call'[w].path = p, call'[w].unsaved = call[w].unsaved, call'[w].data = call[w].data,
         \A v \in Workers : v # w => pc'[v] = pc[v] /\ call'[v] = call[v],
         cache' = [cache EXCEPT ![CacheName[p]] = File(data, now)], clock' = now,
         UNCHANGED <<orig, desc, tables, users>>
  PROVE  FInv'
<1>0. /\ cache \in [Names -> Files] /\ orig \in [Paths -> Files] /\ CacheName[p] \in Names
      /\ handle' = handle /\ writes' = writes /\ orig' = orig
      /\ localFH2LocalFile' = localFH2LocalFile
  BY CacheNameAssumption DEF FInv, LInv, TInv, TypeOK, users, tables
<1>1. /\ cache'[CacheName[p]] = File(data, now)
      /\ \A n \in Names : n # CacheName[p] => cache'[n] = cache[n]
  BY <1>0
<1>2. now \in Nat /\ clock \in Nat /\ clock <= now /\ 0 < now
  BY ClockNext
<1>3. Exists(cache'[CacheName[p]])
  BY <1>1, <1>2, WrittenExists DEF File
<1>4. OwnIndex'
  BY SameTables DEF tables
<1>5. OpenCopies'
  <2>1. \A f \in Fds : desc[f].on = "cache" => desc[f].name \in Names
    BY DEF FInv, LInv, TInv, TypeOK, Descriptions
  <2> QED
    BY <1>1, <1>3, <2>1 DEF FInv, OpenCopies
<1>6. Clocked'
  <2>1. \A n \in Names : cache'[n].mtime <= now
    <3>1. ASSUME NEW n \in Names PROVE cache'[n].mtime <= now
      <4>1. cache[n].mtime \in Nat /\ cache[n].mtime <= clock
        BY <1>0 DEF Files, FInv, Clocked
      <4> QED
        BY <1>1, <1>2, <4>1 DEF File
    <3> QED
      BY <3>1
  <2>2. ASSUME NEW q \in Paths PROVE orig[q].mtime <= now /\ (Exists(orig[q]) => 0 < orig[q].mtime)
    <3>1. orig[q].mtime \in Nat
      BY <1>0 DEF Files
    <3> QED
      BY <1>2, <3>1 DEF FInv, Clocked
  <2> QED
    BY <1>0, <1>2, <2>1, <2>2 DEF Clocked
<1>7. /\ \A v \in Workers : call'[v].unsaved = call[v].unsaved /\ call'[v].data = call[v].data
      /\ Unsaved' = Unsaved
  BY <1>0, SameUnsaved
<1>8. data \subseteq cache[CacheName[p]].data \cup orig[p].data
  OBVIOUS
<1>9. Numbered'
  <2>1. SUFFICES ASSUME NEW c \in Chunks, Held(c)' PROVE Held(c)
    BY <1>0 DEF FInv, Numbered
  <2>2. ASSUME NEW n \in Names, c \in cache'[n].data PROVE Held(c)
    <3>1. c \in cache[n].data \/ c \in data
      BY <1>1, <2>2 DEF File
    <3> QED
      BY <1>0, <1>8, <3>1 DEF Held
  <2> QED
    BY <1>0, <1>7, <2>1, <2>2 DEF Held
<1>10. pc[w] \notin ReleaseLabels /\ pc'[w] \notin {"rel_touch"} /\ pc[w] \in OpenLabels \ {"check"}
  BY DEF ReleaseLabels, WriteBackLabels, CopyBackLabels, OpenLabels
<1>11. OwedOnly'
  <2>1. call[w].unsaved = {}
    BY <1>10, OwesNothing
  <2> QED
    BY <1>0, <1>7, <2>1 DEF FInv, OwedOnly
<1>12. \A f \in Fds : handle'[f].path # None => InUse(handle'[f].path)
  BY <1>0 DEF InUse
<1>13. \A v \in Workers : v # w /\ call[v].path = p => pc[v] \notin CopyInLabels \cup CopyBackLabels
  BY OneAtCopy DEF CopyInLabels
<1>14. pc[w] = "data" => Fresh(p)'
  <2>1. SUFFICES ASSUME pc[w] = "data" PROVE Fresh(p)'
    OBVIOUS
  <2>2. cache'[CacheName[p]].data = cache[CacheName[p]].data \cup orig[p].data
    BY <1>1, <2>1 DEF File
  <2>3. EmptiedCopy(p)
    BY <2>1 DEF FInv, Emptied, At
  <2> QED
    BY <1>0, <1>7, <2>2, <2>3 DEF EmptiedCopy, Fresh
<1>15. StaysFresh(p)
  <2>1. \A v \in Workers : pc[v] \in {"data", "rel_data"} /\ call[v].path = p => call[v].dest # None
    BY <1>13 DEF CopyInLabels, CopyBackLabels
  <2>2. pc[w] = "data" => ~At(p, "data")'
    BY <1>13 DEF At, CopyInLabels
  <2>3. pc[w] = "copy" => At(p, "data")' /\ EmptiedCopy(p)'
    BY <1>1 DEF At, EmptiedCopy, File
  <2>4. ASSUME NEW v \in Workers, pc[v] \in SpentLabels, call[v].path = p
        PROVE  call'[v].unsaved \cap cache'[CacheName[p]].data = {}
    <3>1. call[v].unsaved \cap cache[CacheName[p]].data = {}
      BY <2>4 DEF FInv, Spent
    <3>2. call[v].unsaved \cap orig[p].data = {}
      BY DEF FInv, OwedOnly, Unsaved
    <3> QED
      BY <1>1, <1>7, <1>8, <3>1, <3>2 DEF File
  <2> QED
    BY <1>0, <1>3, <1>14, <2>1, <2>2, <2>3, <2>4 DEF StaysFresh
<1>16. ASSUME NEW q \in Paths, q # p PROVE StaysFresh(q)
  <2>1. CacheName[q] \in Names /\ CacheName[q] # CacheName[p]
    BY <1>16, CacheNameAssumption DEF DistinctNames
  <2>2. At(q, "data") => At(q, "data")'
    BY <1>16 DEF At
  <2>3. QuietFile(q)
    BY <1>0, <1>1, <1>7, <2>1, <2>2 DEF QuietFile
  <2> QED
    BY <2>3, QuietFresh
<1>17. Exists(orig'[p])
  BY <1>0, <1>10, OpenOriginal
<1>18. GoesFresh(w)
  <2>1. CASE pc[w] = "copy"
    BY <1>1, <1>10, <1>17, <2>1 DEF GoesFresh, File
  <2>2. CASE pc[w] = "data"
    <3>1. Fresh(call[w].path)'
      <4>1. call'[w].path = p /\ call[w].path = p
        OBVIOUS
      <4> QED
        BY <1>14, <2>2, <4>1 DEF Fresh
    <3> QED
      BY <1>10, <1>17, <2>2, <3>1 DEF GoesFresh
  <2> QED
    BY <2>1, <2>2
<1>19. ASSUME NEW v \in Workers PROVE GoesFresh(v)
  <2>1. CASE v = w
    BY <1>18, <2>1
  <2>2. CASE v # w
    <3>1. pc'[v] = pc[v] /\ call'[v] = call[v]
      BY <2>2
    <3> QED
      BY <3>1 DEF GoesFresh
  <2> QED
    BY <2>1, <2>2
<1>20. \A q \in Paths : StaysFresh(q)
  BY <1>15, <1>16
<1> QED
  BY <1>0, <1>4, <1>5, <1>6, <1>9, <1>11, <1>12, <1>19, <1>20, FreshFrame

LEMMA CopyInFresh ==
  ASSUME FInv, LInv', DInv', DistinctNames, LocalCalls, NEW w \in Workers,
         CopyInTruncate(w) \/ CopyInData(w)
  PROVE  FInv'
<1>0. /\ pc \in [Workers -> Labels] /\ call \in [Workers -> Locals]
      /\ cache \in [Names -> Files] /\ "nospace" \notin Calls
  BY DEF FInv, LInv, TInv, TypeOK, LocalCalls
<1>1. PICK p \in Paths : p = call[w].path
  BY DEF CopyInTruncate, CopyInData, OpenLabels, FInv, LInv, TInv, Args
<1>2. CacheName[p] \in Names /\ Ccfn(w) = CacheName[p]
  BY <1>1, CacheNameAssumption DEF Ccfn
<1>3. CASE CopyInTruncate(w)
  <2>1. pc[w] = "copy" /\ Exists(orig[call[w].path])
    BY <1>3, OpenOriginal DEF CopyInTruncate, OpenLabels
  <2>2. /\ pc'[w] = "data" /\ call'[w].dest # None /\ call'[w].path = p
        /\ call'[w].unsaved = call[w].unsaved /\ call'[w].data = call[w].data
        /\ \A v \in Workers : v # w => pc'[v] = pc[v] /\ call'[v] = call[v]
        /\ UNCHANGED <<orig, desc, tables, users>>
    BY <1>0, <1>1, <1>2, <1>3, <2>1, NoneAssumption DEF CopyInTruncate, Goto, Locals
  <2>3. PICK now \in Now : cache' = [cache EXCEPT ![CacheName[p]] = File({}, now)] /\ clock' = now
    BY <1>0, <1>2, <1>3, <2>1 DEF CopyInTruncate
  <2> QED
    BY <1>1, <2>1, <2>2, <2>3, FillFresh
<1>4. CASE CopyInData(w)
  <2>1. /\ pc[w] = "data" /\ pc'[w] = "accessed" /\ call'[w].path = p /\ call'[w].fd = call[w].fd
        /\ call'[w].unsaved = call[w].unsaved /\ call'[w].data = call[w].data
        /\ \A v \in Workers : v # w => pc'[v] = pc[v] /\ call'[v] = call[v]
        /\ UNCHANGED <<orig, desc, tables, users>>
    BY <1>0, <1>1, <1>4 DEF CopyInData, Goto, Locals, store
  <2>2. CASE call[w].dest = None
    <3>1. UNCHANGED store
      BY <1>4, <2>2 DEF CopyInData, store
    <3>2. ~Exists(cache[CacheName[p]])
      BY <1>1, <2>1, <2>2 DEF FInv, CollectedUnder
    <3>3. Exists(orig'[call[w].path])
      BY <2>1, OpenOriginal DEF OpenLabels
    <3>4. ~Exists(cache'[CacheName[call[w].path]])
      BY <1>1, <3>1, <3>2 DEF store
    <3>5. GoesFresh(w)
      BY <1>1, <2>1, <3>3, <3>4 DEF GoesFresh, OpenLabels
    <3>6. OwnIndex' /\ OpenCopies'
      BY <2>1, <3>1, SameTables DEF tables
    <3>7. pc[w] \notin ReleaseLabels
      BY <2>1 DEF ReleaseLabels, WriteBackLabels, CopyBackLabels
    <3> QED
      BY <1>1, <1>2, <2>1, <3>1, <3>2, <3>5, <3>6, <3>7, MoveFresh DEF users, tables
  <2>3. CASE call[w].dest # None
    <3>1. PICK data : data = cache[CacheName[p]].data \cup orig[p].data
      OBVIOUS
    <3>2. PICK now \in Now : /\ cache' = [cache EXCEPT ![CacheName[p]] = File(data, now)]
                             /\ clock' = now
      BY <1>0, <1>1, <1>2, <1>4, <2>3, <3>1 DEF CopyInData
    <3> QED
      BY <1>1, <2>1, <2>3, <3>1, <3>2, FillFresh
  <2> QED
    BY <2>2, <2>3
<1> QED
  BY <1>3, <1>4

(* The copy gets the time of its original. *)
LEMMA TouchFresh ==
  ASSUME FInv, LInv', DInv', DistinctNames, NEW w \in Workers, NEW p \in Paths, p = call[w].path,
         \/ pc[w] = "touch" /\ pc'[w] = "open"
         \/ pc[w] = "rel_touch" /\ pc'[w] = "rel_accessed",
         call' = call, \A v \in Workers : v # w => pc'[v] = pc[v],
         cache' = Touched(CacheName[p], p), UNCHANGED <<orig, clock, desc, tables, users>>
  PROVE  FInv'
<1>0. /\ cache \in [Names -> Files] /\ orig \in [Paths -> Files] /\ CacheName[p] \in Names
      /\ handle' = handle /\ writes' = writes /\ orig' = orig
      /\ localFH2LocalFile' = localFH2LocalFile
  BY CacheNameAssumption DEF FInv, LInv, TInv, TypeOK, users, tables
<1>1. \A n \in Names : /\ n # CacheName[p] => cache'[n] = cache[n]
                       /\ cache'[n].data = cache[n].data
                       /\ Exists(cache[n]) => Exists(cache'[n])
                       /\ Exists(cache'[n]) => Exists(cache[n])
                       /\ cache'[n].mtime \in {cache[n].mtime, orig[p].mtime}
  <2>1. CASE Exists(orig[p]) /\ Exists(cache[CacheName[p]])
    <3>1. 0 < orig[p].mtime /\ orig[p].mtime \in Nat
      BY <1>0, <2>1 DEF FInv, Clocked, Files
    <3>2. cache' = [cache EXCEPT ![CacheName[p]].mtime = orig[p].mtime]
      BY <2>1 DEF Touched
    <3>3. cache'[CacheName[p]].mtime = orig[p].mtime /\ cache'[CacheName[p]].data = cache[CacheName[p]].data
      BY <1>0, <3>2 DEF Files
    <3>4. Exists(cache'[CacheName[p]])
      BY <3>1, <3>3, WrittenExists
    <3>5. \A n \in Names : n # CacheName[p] => cache'[n] = cache[n]
      BY <1>0, <3>2
    <3> QED
      BY <2>1, <3>3, <3>4, <3>5
  <2>2. CASE cache' = cache
    BY <2>2
  <2> QED
    BY <2>1, <2>2 DEF Touched
<1>2. OwnIndex'
  BY SameTables DEF tables
<1>3. OpenCopies'
  <2>1. \A f \in Fds : desc[f].on = "cache" => desc[f].name \in Names
    BY DEF FInv, LInv, TInv, TypeOK, Descriptions
  <2> QED
    BY <1>1, <2>1 DEF FInv, OpenCopies
<1>4. Clocked'
  BY <1>0, <1>1 DEF FInv, Clocked
<1>5. Unsaved' = Unsaved
  BY <1>0, SameUnsaved
<1>6. Numbered'
  <2>1. SUFFICES ASSUME NEW c \in Chunks, Held(c)' PROVE Held(c)
    BY <1>0 DEF FInv, Numbered
  <2> QED
    BY <1>0, <1>1, <1>5, <2>1 DEF Held
<1>7. OwedOnly'
  <2>1. pc[w] \in ReleaseLabels => pc'[w] \in ReleaseLabels
    BY DEF ReleaseLabels, WriteBackLabels, CopyBackLabels
  <2> QED
    BY <1>0, <1>5, <2>1 DEF FInv, OwedOnly
<1>8. \A f \in Fds : handle'[f].path # None => InUse(handle'[f].path)
  BY <1>0 DEF InUse
<1>9. Exists(orig[p])
  BY OpenOriginal DEF OpenLabels, ReleaseLabels, WriteBackLabels, CopyBackLabels
<1>10. GoesFresh(w)
  <2>1. CASE pc[w] = "touch"
    BY <1>0, <1>9, <2>1 DEF GoesFresh, OpenLabels
  <2>2. CASE pc[w] = "rel_touch"
    <3>1. call'[w].unsaved \cap cache'[CacheName[call[w].path]].data = {}
      BY <1>0, <1>1, <2>2 DEF FInv, Spent, SpentLabels
    <3> QED
      BY <2>2, <3>1 DEF GoesFresh, ReleaseLabels, WriteBackLabels, CopyBackLabels
  <2> QED
    BY <2>1, <2>2
<1>11. \A v \in Workers : GoesFresh(v)
  BY <1>10 DEF GoesFresh
<1>12. ASSUME NEW q \in Paths PROVE At(q, "data")' = At(q, "data")
  BY DEF At
<1>13. StaysFresh(p)
  <2>1. Filled(p)
    BY DEF Filled
  <2>2. ~At(p, "data") /\ Exists(cache'[CacheName[p]]) => Fresh(p)
    BY <1>0, <1>1, <1>9, <2>1 DEF FInv, FreshCopies
  <2>3. Fresh(p) => Fresh(p)'
    BY <1>0, <1>1, <1>5 DEF Fresh
  <2>4. EmptiedCopy(p) => EmptiedCopy(p)'
    BY <1>0, <1>1, <1>5 DEF EmptiedCopy
  <2>5. At(p, "data") => EmptiedCopy(p)
    BY DEF FInv, Emptied
  <2>6. \A v \in Workers : pc[v] \in SpentLabels /\ call[v].path = p =>
          call'[v].unsaved \cap cache'[CacheName[p]].data = {}
    BY <1>0, <1>1 DEF FInv, Spent
  <2> QED
    BY <1>0, <1>1, <1>12, <2>2, <2>3, <2>4, <2>5, <2>6 DEF StaysFresh
<1>14. ASSUME NEW q \in Paths, q # p PROVE StaysFresh(q)
  <2>1. CacheName[q] \in Names /\ CacheName[q] # CacheName[p]
    BY <1>14, CacheNameAssumption DEF DistinctNames
  <2>2. QuietFile(q)
    BY <1>0, <1>1, <1>5, <1>12, <2>1 DEF QuietFile
  <2> QED
    BY <2>2, QuietFresh
<1>15. \A q \in Paths : StaysFresh(q)
  BY <1>13, <1>14
<1> QED
  BY <1>0, <1>2, <1>3, <1>4, <1>6, <1>7, <1>8, <1>11, <1>15, FreshFrame

(* A new chunk is in the copy and owed to the original. *)
LEMMA WriteFresh ==
  ASSUME FInv, LInv', DInv', DistinctNames, LocalCalls,
         NEW w \in Workers, NEW f \in Fds, Write(w, f)
  PROVE  FInv'
<1>0. /\ pc \in [Workers -> Labels] /\ call \in [Workers -> Locals]
      /\ handle \in [Fds -> Handles] /\ desc \in [Fds -> Descriptions]
      /\ cache \in [Names -> Files] /\ orig \in [Paths -> Files]
      /\ writes \in Nat /\ clock \in Nat /\ "nospace" \notin Calls
  BY DEF FInv, LInv, TInv, TypeOK, LocalCalls
<1>1. PICK p \in Paths : p = handle[f].path
  BY <1>0 DEF Write, Handles
<1>2. PICK chunk \in Chunks : chunk = Chunk(p, writes + 1)
  BY <1>0, ChunkType
<1>3. chunk.path = p /\ chunk.n = writes + 1 /\ ~Held(chunk)
  BY <1>0, <1>2 DEF Chunk, FInv, Numbered
<1>4. /\ pc[w] = "idle" /\ pc'[w] = "flag"
      /\ \A v \in Workers : /\ v # w => pc'[v] = pc[v] /\ call'[v] = call[v]
                            /\ call'[v].unsaved = call[v].unsaved /\ call'[v].data = call[v].data
                            /\ call'[v].path = call[v].path
      /\ UNCHANGED <<desc, tables>> /\ writes' = writes + 1
  BY <1>0 DEF Write, Goto, Locals
<1>5. EntryFor(f, p)
  BY <1>1 DEF Write, FInv, DInv, HInv, Entries
<1>6. OnCopy(f, p) /\ desc[f].on # "orig"
  BY <1>5 DEF EntryFor, OnOriginal, On, FInv, OpenCopies
<1>7. handle' = [handle EXCEPT ![f].unsaved = @ \cup {chunk}] /\ orig' = orig
  BY <1>0, <1>1, <1>2, <1>6 DEF Write, store
<1>8. PICK n \in Names : n = CacheName[p]
  BY CacheNameAssumption
<1>9. \/ UNCHANGED store
      \/ /\ desc[f] = On("cache", n)
         /\ \E now \in Now : /\ cache' = [cache EXCEPT ![n] = File(@.data \cup {chunk}, now)]
                             /\ clock' = now
  <2>1. CASE desc[f].on = "unlinked"
    BY <1>0, <2>1 DEF Write
  <2>2. CASE desc[f].on # "unlinked"
    <3>1. desc[f] = On("cache", n) /\ desc[f].name = n /\ desc[f].on = "cache"
      BY <1>6, <1>8, <2>2 DEF OnCopy, On
    <3> QED
      BY <1>0, <1>1, <1>2, <3>1 DEF Write
  <2> QED
    BY <2>1, <2>2
<1> DEFINE Grown ==
  /\ \A m \in Names : m # n => cache'[m] = cache[m]
  /\ cache'[n].data \in {cache[n].data, cache[n].data \cup {chunk}}
  /\ \A m \in Names : (Exists(cache[m]) <=> Exists(cache'[m]))
  /\ cache'[n] = cache[n] \/ chunk \in cache'[n].data
  /\ clock' \in Nat /\ clock <= clock'
  /\ \A m \in Names : cache'[m].mtime \in {cache[m].mtime, clock'}
<1>10. Grown
  <2>1. CASE UNCHANGED store
    BY <1>0, <2>1 DEF store
  <2>2. ASSUME desc[f] = On("cache", n), NEW now \in Now, clock' = now,
               cache' = [cache EXCEPT ![n] = File(@.data \cup {chunk}, now)]
        PROVE  Grown
    <3>1. cache'[n] = File(cache[n].data \cup {chunk}, now)
      BY <1>0, <2>2
    <3>2. \A m \in Names : m # n => cache'[m] = cache[m]
      BY <1>0, <2>2
    <3>3. Exists(cache[n]) /\ Exists(cache'[n])
      BY <2>2, <3>1, WrittenExists DEF FInv, OpenCopies, On, File
    <3>4. now \in Nat /\ clock <= now
      BY ClockNext
    <3> QED
      BY <2>2, <3>1, <3>2, <3>3, <3>4 DEF File
  <2> QED
    BY <1>9, <2>1, <2>2
<1>11. /\ \A g \in Fds : handle'[g].path = handle[g].path
       /\ handle'[f].unsaved = handle[f].unsaved \cup {chunk}
       /\ \A g \in Fds : g # f => handle'[g].unsaved = handle[g].unsaved
  BY <1>0, <1>7 DEF Handles
<1>12. Unsaved' = Unsaved \cup {chunk}
  <2>1. ASSUME NEW c, c \in Unsaved \cup {chunk} PROVE c \in Unsaved'
    <3>1. CASE \E g \in Fds : c \in handle[g].unsaved
      BY <1>11, <3>1 DEF Unsaved
    <3>2. CASE \E v \in Workers : c \in call[v].unsaved
      BY <1>4, <3>2 DEF Unsaved
    <3>3. CASE c = chunk
      BY <1>11, <3>3 DEF Unsaved
    <3> QED
      BY <2>1, <3>1, <3>2, <3>3 DEF Unsaved
  <2>2. ASSUME NEW c, c \in Unsaved' PROVE c \in Unsaved \cup {chunk}
    <3>1. CASE \E g \in Fds : c \in handle'[g].unsaved
      BY <1>11, <3>1 DEF Unsaved
    <3>2. CASE \E v \in Workers : c \in call'[v].unsaved
      BY <1>4, <3>2 DEF Unsaved
    <3> QED
      BY <2>2, <3>1, <3>2 DEF Unsaved
  <2> QED
    BY <2>1, <2>2
<1>13. OwnIndex'
  BY <1>4, SameTables DEF tables
<1>14. OpenCopies'
  <2>1. \A g \in Fds : desc[g].on = "cache" => desc[g].name \in Names
    BY DEF FInv, LInv, TInv, TypeOK, Descriptions
  <2> QED
    BY <1>4, <1>10, <2>1 DEF FInv, OpenCopies
<1>15. Clocked'
  <2>1. \A q \in Paths : orig[q].mtime \in Nat
    BY <1>0 DEF Files
  <2>2. \A m \in Names : cache[m].mtime \in Nat
    BY <1>0 DEF Files
  <2> QED
    BY <1>0, <1>7, <1>10, <2>1, <2>2 DEF FInv, Clocked
<1>16. Numbered'
  <2>1. ASSUME NEW c \in Chunks, Held(c)' PROVE Held(c) \/ c = chunk
    <3>1. \A m \in Names : c \in cache'[m].data => c \in cache[m].data \/ c = chunk
      BY <1>10
    <3> QED
      BY <1>4, <1>7, <1>12, <2>1, <3>1 DEF Held
  <2>2. \A c \in Chunks : c.n \in Nat
    BY DEF Chunks
  <2> QED
    BY <1>0, <1>3, <1>4, <2>1, <2>2 DEF FInv, Numbered
<1>17. OwedOnly'
  <2>1. \A q \in Paths : orig'[q].data \cap Unsaved' = {}
    BY <1>3, <1>7, <1>12 DEF FInv, OwedOnly, Held
  <2>2. \A g \in Fds : \A c \in handle'[g].unsaved : c.path = handle'[g].path
    BY <1>1, <1>3, <1>11 DEF FInv, OwedOnly
  <2>3. \A v \in Workers : \A c \in call'[v].unsaved : pc'[v] \in ReleaseLabels /\ c.path = call'[v].path
    <3>1. call[w].unsaved = {}
      BY <1>4, OwesNothing DEF ReleaseLabels, WriteBackLabels, CopyBackLabels
    <3> QED
      BY <1>4, <3>1 DEF FInv, OwedOnly
  <2> QED
    BY <2>1, <2>2, <2>3 DEF OwedOnly
<1>18. \A g \in Fds : handle'[g].path # None => InUse(handle'[g].path)
  BY <1>11 DEF InUse
<1>19. \A v \in Workers : GoesFresh(v)
  BY <1>4 DEF GoesFresh
<1>20. ASSUME NEW q \in Paths PROVE At(q, "data")' = At(q, "data")
  <2>1. \A v \in Workers : (pc'[v] = "data" /\ call'[v].path = q) = (pc[v] = "data" /\ call[v].path = q)
    BY <1>4
  <2> QED
    BY <2>1 DEF At
<1>21. ASSUME NEW q \in Paths, cache'[CacheName[q]] = cache[CacheName[q]] PROVE StaysFresh(q)
  <2>1. QuietFile(q)
    BY <1>4, <1>7, <1>12, <1>20, <1>21 DEF QuietFile
  <2> QED
    BY <2>1, QuietFresh
<1>22. ASSUME chunk \in cache'[CacheName[p]].data PROVE StaysFresh(p)
  <2>1. Fresh(p)' /\ EmptiedCopy(p)'
    BY <1>12, <1>22 DEF Fresh, EmptiedCopy
  <2>2. ASSUME NEW v \in Workers, pc[v] \in SpentLabels, call[v].path = p
        PROVE  call'[v].unsaved \cap cache'[CacheName[p]].data = {}
    <3>1. call[v].unsaved \cap cache[CacheName[p]].data = {}
      BY <2>2 DEF FInv, Spent
    <3>2. chunk \notin call[v].unsaved
      BY <1>3 DEF Held, Unsaved
    <3> QED
      BY <1>4, <1>8, <1>10, <3>1, <3>2
  <2> QED
    BY <1>7, <1>8, <1>10, <2>1, <2>2 DEF StaysFresh
<1>23. ASSUME NEW q \in Paths PROVE StaysFresh(q)
  <2>1. q # p => CacheName[q] # n /\ CacheName[q] \in Names
    BY <1>8, CacheNameAssumption DEF DistinctNames
  <2> QED
    BY <1>8, <1>10, <1>21, <1>22, <2>1
<1>24. \A v \in Workers : pc[v] = "rel_get" => localFH2LocalFile'[call[v].fd] = localFH2LocalFile[call[v].fd]
  BY <1>4 DEF tables
<1> QED
  BY <1>13, <1>14, <1>15, <1>16, <1>17, <1>18, <1>19, <1>23, <1>24, FreshFrame

(* An original is written or made while no open works on its copy. *)
LEMMA OriginalFresh ==
  ASSUME FInv, LInv', DInv', DistinctNames, NEW p \in Paths,
         UNCHANGED <<cache, desc, tables, writes>>, clock <= clock', clock' \in Nat,
         \A q \in Paths : q # p => orig'[q] = orig[q],
         orig'[p].mtime \in Nat, orig'[p].mtime <= clock',
         Exists(orig'[p]) => 0 < orig'[p].mtime,
         InUse(p) => Exists(orig'[p]),
         \A c \in orig'[p].data : Held(c) /\ c \notin Unsaved',
         HandlesKept,
         \A v \in Workers : /\ call'[v].path = call[v].path
                            /\ call'[v].unsaved \subseteq call[v].unsaved
                            /\ call'[v].data \subseteq call[v].data
                            /\ pc[v] \in ReleaseLabels => pc'[v] \in ReleaseLabels
                            /\ pc[v] = "data" => pc'[v] = "data",
         \A c \in Unsaved : c \in Unsaved' \/ CacheName[c.path] = CacheName[p],
         \A v \in Workers : GoesFresh(v),
         ~At(p, "data"),
         Exists(orig'[p]) /\ Exists(cache[CacheName[p]]) /\ (Current(p)' \/ Filled(p)) => Fresh(p)'
  PROVE  FInv'
<1>0. /\ cache \in [Names -> Files] /\ orig \in [Paths -> Files] /\ CacheName[p] \in Names
      /\ handle' \in [Fds -> Handles] /\ cache' = cache /\ localFH2LocalFile' = localFH2LocalFile
      /\ clock \in Nat
  BY CacheNameAssumption DEF FInv, LInv, TInv, TypeOK, tables
<1>1. OwnIndex' /\ OpenCopies'
  BY <1>0, SameTables DEF tables, FInv, OpenCopies
<1>2. Clocked'
  <2>1. \A n \in Names : cache[n].mtime \in Nat
    BY <1>0 DEF Files
  <2>2. \A q \in Paths : orig[q].mtime \in Nat
    BY <1>0 DEF Files
  <2> QED
    BY <1>0, <2>1, <2>2 DEF FInv, Clocked
<1>3. Unsaved' \subseteq Unsaved
  BY DEF HandlesKept, Unsaved
<1>4. Numbered'
  <2>1. SUFFICES ASSUME NEW c \in Chunks, Held(c)' PROVE Held(c)
    BY DEF FInv, Numbered
  <2>2. ASSUME NEW q \in Paths, c \in orig'[q].data PROVE Held(c)
    BY <2>2 DEF Held
  <2> QED
    BY <1>0, <1>3, <2>1, <2>2 DEF Held
<1>5. OwedOnly'
  <2>1. \A q \in Paths : orig'[q].data \cap Unsaved' = {}
    BY <1>3 DEF FInv, OwedOnly
  <2>2. \A f \in Fds : \A c \in handle'[f].unsaved : c.path = handle'[f].path
    BY DEF FInv, OwedOnly, HandlesKept
  <2>3. \A v \in Workers : \A c \in call'[v].unsaved : pc'[v] \in ReleaseLabels /\ c.path = call'[v].path
    BY DEF FInv, OwedOnly
  <2> QED
    BY <2>1, <2>2, <2>3 DEF OwedOnly
<1>6. \A f \in Fds : handle'[f].path # None => InUse(handle'[f].path)
  BY DEF HandlesKept, InUse
<1>7. StaysFresh(p)
  <2>1. \A v \in Workers : pc[v] \in SpentLabels /\ call[v].path = p =>
          call'[v].unsaved \cap cache'[CacheName[p]].data = {}
    BY <1>0 DEF FInv, Spent
  <2> QED
    BY <1>0, <2>1 DEF StaysFresh
<1>8. ASSUME NEW q \in Paths, q # p PROVE StaysFresh(q)
  <2>1. CacheName[q] \in Names /\ CacheName[q] # CacheName[p]
    BY <1>8, CacheNameAssumption DEF DistinctNames
  <2>2. At(q, "data") => At(q, "data")'
    BY DEF At
  <2>3. \A c \in cache[CacheName[q]].data : CacheName[c.path] = CacheName[q]
    BY <2>1 DEF FInv, DInv, NoForeignData
  <2>4. cache[CacheName[q]].data \cap Unsaved \subseteq Unsaved'
    BY <2>1, <2>3
  <2>5. QuietFile(q)
    BY <1>0, <1>8, <2>2, <2>4 DEF QuietFile
  <2> QED
    BY <2>5, QuietFresh
<1>9. \A q \in Paths : StaysFresh(q)
  BY <1>7, <1>8
<1> QED
  BY <1>0, <1>1, <1>2, <1>4, <1>5, <1>6, <1>9, FreshFrame

(* A new original is younger than every copy. *)
LEMMA NewOriginal ==
  ASSUME FInv, DistinctSeconds, NEW p \in Paths, NEW now \in Now,
         orig'[p].mtime = now, cache' = cache
  PROVE  ~Current(p)'
<1>1. cache[CacheName[p]].mtime \in Nat /\ cache[CacheName[p]].mtime <= clock
  BY CacheNameAssumption DEF FInv, LInv, TInv, TypeOK, Files, Clocked
<1> QED
  BY <1>1, ClockNext DEF Current

LEMMA CopyBackTruncateFresh ==
  ASSUME FInv, LInv', DInv', DistinctNames, DistinctSeconds, LocalCalls,
         NEW w \in Workers, CopyBackTruncate(w)
  PROVE  FInv'
<1>0. /\ pc \in [Workers -> Labels] /\ call \in [Workers -> Locals]
      /\ orig \in [Paths -> Files]
  BY DEF FInv, LInv, TInv, TypeOK
<1>1. pc[w] = "rel_copy" /\ pc[w] \in ReleaseLabels /\ pc[w] \in WriteBackLabels /\ pc[w] \in CopyBackLabels
  BY DEF CopyBackTruncate, ReleaseLabels, WriteBackLabels, CopyBackLabels
<1>2. PICK p \in Paths : p = call[w].path
  BY <1>1 DEF FInv, LInv, TInv, Args
<1>3. Real(w) = CacheName[p] /\ Real(w) # None
  BY <1>1, <1>2, CacheNameAssumption, NoneAssumption DEF FInv, DInv, HInv, OwnCopy
<1>4. CASE CanCopyBack(w) /\ pc'[w] = "rel_data"
  <2>1. PICK now \in Now : orig' = [orig EXCEPT ![p] = File({}, now)] /\ clock' = now
    BY <1>0, <1>2, <1>4 DEF CopyBackTruncate, Goto
  <2>2. /\ call' = [call EXCEPT ![w].dest = Real(w)]
        /\ \A v \in Workers : v # w => pc'[v] = pc[v]
        /\ UNCHANGED <<cache, desc, tables, users>>
    BY <1>0, <1>4 DEF CopyBackTruncate, Goto
  <2>3. orig'[p] = File({}, now) /\ \A q \in Paths : q # p => orig'[q] = orig[q]
    BY <1>0, <2>1
  <2>4. now \in Nat /\ clock <= now /\ 0 < now
    BY ClockNext
  <2>5. Exists(orig'[p]) /\ orig'[p].data = {} /\ orig'[p].mtime = now
    BY <2>3, <2>4, WrittenExists DEF File
  <2>6. /\ \A v \in Workers : /\ call'[v].path = call[v].path /\ call'[v].fd = call[v].fd
                              /\ call'[v].unsaved = call[v].unsaved /\ call'[v].data = call[v].data
                              /\ v # w => call'[v].dest = call[v].dest
        /\ call'[w].dest = Real(w)
    BY <1>0, <2>2 DEF Locals
  <2>7. handle' = handle /\ writes' = writes /\ HandlesKept
    BY <2>2 DEF users, HandlesKept
  <2>8. Unsaved' = Unsaved
    BY <2>6, <2>7, SameUnsaved
  <2>9. ~Current(p)'
    BY <2>2, <2>5, NewOriginal
  <2>10. ~At(p, "data") /\ ~Filled(p)
    <3>1. ASSUME NEW v \in Workers, call[v].path = p,
                 pc[v] \in {"data", "accessed", "gc", "touch", "rel_touch"}
          PROVE  FALSE
      <4>1. v = w
        BY <1>1, <1>2, <3>1, OneAtCopy DEF CopyInLabels, CopyBackLabels
      <4> QED
        BY <1>1, <3>1, <4>1
    <3> QED
      BY <3>1 DEF At, Filled
  <2>11. pc'[w] \in ReleaseLabels \ {"rel_get"} /\ pc'[w] \notin SpentLabels
    BY <1>4 DEF ReleaseLabels, WriteBackLabels, CopyBackLabels, SpentLabels
  <2>12. GoesFresh(w)
    BY <1>1, <1>3, <1>4, <2>6, <2>11 DEF GoesFresh
  <2>13. \A v \in Workers : GoesFresh(v)
    BY <2>2, <2>6, <2>12 DEF GoesFresh
  <2>14. \A v \in Workers : /\ pc[v] \in ReleaseLabels => pc'[v] \in ReleaseLabels
                            /\ pc[v] = "data" => pc'[v] = "data"
    BY <1>1, <2>2, <2>11
  <2>15. clock <= clock' /\ clock' \in Nat /\ orig'[p].mtime <= clock'
    BY <2>1, <2>4, <2>5
  <2> QED
    BY <2>2, <2>3, <2>4, <2>5, <2>6, <2>7, <2>8, <2>9, <2>10, <2>13, <2>14, <2>15, OriginalFresh
<1>5. CASE pc'[w] = "rel_unlock"
  BY <1>5, ReleaseMoveFresh
<1> QED
  BY <1>0, <1>4, <1>5 DEF CopyBackTruncate, LocalCalls, Goto

LEMMA CopyBackDataFresh ==
  ASSUME FInv, LInv', DInv', DistinctNames, LocalCalls, NEW w \in Workers, CopyBackData(w)
  PROVE  FInv'
<1>0. /\ pc \in [Workers -> Labels] /\ call \in [Workers -> Locals]
      /\ orig \in [Paths -> Files] /\ handle \in [Fds -> Handles]
  BY DEF FInv, LInv, TInv, TypeOK
<1>1. /\ pc[w] = "rel_data" /\ pc[w] \in ReleaseLabels /\ pc[w] \in WriteBackLabels
      /\ pc[w] \in CopyBackLabels
  BY DEF CopyBackData, ReleaseLabels, WriteBackLabels, CopyBackLabels
<1>2. PICK p \in Paths : p = call[w].path
  BY <1>1 DEF FInv, LInv, TInv, Args
<1>3. PICK n \in Names : n = Real(w) /\ n = CacheName[p]
  BY <1>1, <1>2, CacheNameAssumption DEF FInv, DInv, HInv, OwnCopy
<1>4. PICK d : d = IF call[w].dest = None THEN call[w].data ELSE cache[n].data
  OBVIOUS
<1>5. PICK now \in Now :
        /\ orig' = [orig EXCEPT ![p] = File(d, now)]
        /\ clock' = now
        /\ handle' = SavedHandles(d)
        /\ call' = [v \in Workers |->
                      IF v = w THEN [call[v] EXCEPT !.unsaved = @ \ d, !.dest = None, !.data = {}]
                      ELSE [call[v] EXCEPT !.unsaved = @ \ d]]
  BY <1>2, <1>3, <1>4 DEF CopyBackData, LocalCalls
<1>6. /\ pc'[w] = "rel_touch" /\ \A v \in Workers : v # w => pc'[v] = pc[v]
      /\ UNCHANGED <<cache, desc, tables, writes>>
  BY <1>0, <1>1 DEF CopyBackData, Goto
<1>7. orig'[p] = File(d, now) /\ \A q \in Paths : q # p => orig'[q] = orig[q]
  BY <1>0, <1>5
<1>8. now \in Nat /\ clock <= now /\ 0 < now
  BY ClockNext
<1>9. Exists(orig'[p]) /\ orig'[p].data = d /\ orig'[p].mtime = now
  BY <1>7, <1>8, WrittenExists DEF File
<1>10. /\ \A v \in Workers : /\ call'[v].path = call[v].path /\ call'[v].fd = call[v].fd
                             /\ call'[v].unsaved = call[v].unsaved \ d
                             /\ call'[v].data \subseteq call[v].data
                             /\ v # w => call'[v].dest = call[v].dest
  BY <1>0, <1>5 DEF Locals
<1>11. \A f \in Fds : handle'[f].path = handle[f].path /\ handle'[f].unsaved = handle[f].unsaved \ d
  BY <1>0, <1>5 DEF SavedHandles, Handles
<1>12. Unsaved' = Unsaved \ d
  <2>1. ASSUME NEW c, c \in Unsaved, c \notin d PROVE c \in Unsaved'
    <3>1. CASE \E f \in Fds : c \in handle[f].unsaved
      BY <1>11, <2>1, <3>1 DEF Unsaved
    <3>2. CASE \E v \in Workers : c \in call[v].unsaved
      BY <1>10, <2>1, <3>2 DEF Unsaved
    <3> QED
      BY <2>1, <3>1, <3>2 DEF Unsaved
  <2>2. ASSUME NEW c, c \in Unsaved' PROVE c \in Unsaved /\ c \notin d
    <3>1. CASE \E f \in Fds : c \in handle'[f].unsaved
      BY <1>11, <3>1 DEF Unsaved
    <3>2. CASE \E v \in Workers : c \in call'[v].unsaved
      BY <1>10, <3>2 DEF Unsaved
    <3> QED
      BY <2>2, <3>1, <3>2 DEF Unsaved
  <2> QED
    BY <2>1, <2>2
<1>13. \A c \in d : Held(c) /\ CacheName[c.path] = CacheName[p]
  <2>1. ASSUME NEW c \in d PROVE Held(c) /\ CacheName[c.path] = CacheName[p]
    <3>1. CASE c \in call[w].data
      BY <1>2, <3>1 DEF Held, FInv, DInv, Borrowed
    <3>2. CASE c \in cache[n].data
      BY <1>3, <3>2 DEF Held, FInv, DInv, NoForeignData
    <3> QED
      BY <1>4, <2>1, <3>1, <3>2
  <2> QED
    BY <2>1
<1>14. Exists(cache[n]) => d = cache[n].data
  BY <1>1, <1>2, <1>3, <1>4 DEF FInv, CollectedUnder
<1>15. Exists(cache[n]) => Fresh(p)'
  <2>1. Exists(cache[n]) => cache'[CacheName[p]].data = orig'[p].data
    BY <1>3, <1>6, <1>9, <1>14
  <2> QED
    BY <2>1 DEF Fresh
<1>16. ~At(p, "data")
  <2>1. ASSUME NEW v \in Workers, call[v].path = p, pc[v] = "data" PROVE FALSE
    <3>1. v = w
      BY <1>1, <1>2, <2>1, OneAtCopy DEF CopyInLabels
    <3> QED
      BY <1>1, <2>1, <3>1
  <2> QED
    BY <2>1 DEF At
<1>17. GoesFresh(w)
  <2>1. call'[w].unsaved \cap cache'[CacheName[call[w].path]].data = {}
    <3>1. ~Exists(cache[n]) => cache[n].data = {}
      BY DEF Exists, Absent
    <3>2. call'[w].unsaved \cap cache[n].data = {}
      BY <1>10, <1>14, <3>1
    <3> QED
      BY <1>2, <1>3, <1>6, <3>2
  <2>2. pc'[w] \in ReleaseLabels \ {"rel_get"}
    BY <1>6 DEF ReleaseLabels, WriteBackLabels, CopyBackLabels
  <2>3. Exists(cache'[CacheName[call[w].path]]) => Fresh(call[w].path)'
    <3>1. call'[w].path = p /\ call[w].path = p
      BY <1>2, <1>10
    <3> QED
      BY <1>3, <1>6, <1>15, <3>1 DEF Fresh
  <2> QED
    BY <1>1, <1>6, <1>10, <2>1, <2>2, <2>3 DEF GoesFresh
<1>18. \A v \in Workers : GoesFresh(v)
  BY <1>6, <1>10, <1>17 DEF GoesFresh
<1>19. \A v \in Workers : /\ pc[v] \in ReleaseLabels => pc'[v] \in ReleaseLabels
                          /\ pc[v] = "data" => pc'[v] = "data"
  BY <1>1, <1>6 DEF ReleaseLabels, WriteBackLabels, CopyBackLabels
<1>20. HandlesKept
  BY <1>11 DEF HandlesKept
<1>21. \A c \in orig'[p].data : Held(c) /\ c \notin Unsaved'
  BY <1>9, <1>12, <1>13
<1>22. \A c \in Unsaved : c \in Unsaved' \/ CacheName[c.path] = CacheName[p]
  BY <1>12, <1>13
<1>23. /\ clock <= clock' /\ clock' \in Nat
       /\ orig'[p].mtime <= clock' /\ orig'[p].mtime \in Nat /\ 0 < orig'[p].mtime
  <2>1. clock' = now /\ orig'[p].mtime = now
    BY <1>5, <1>9
  <2> QED
    BY <1>8, <2>1
<1>24. Exists(cache[CacheName[p]]) => Fresh(p)'
  BY <1>3, <1>15
<1>25. \A v \in Workers : /\ call'[v].path = call[v].path
                          /\ call'[v].unsaved \subseteq call[v].unsaved
                          /\ call'[v].data \subseteq call[v].data
  BY <1>10
<1> QED
  BY <1>6, <1>7, <1>9, <1>16, <1>18, <1>19, <1>20, <1>21, <1>22, <1>23, <1>24, <1>25, OriginalFresh

LEMMA CollectFresh ==
  ASSUME FInv, LInv', DInv', DistinctNames, NEW w \in Workers, NEW n \in Names, Collect(w, n)
  PROVE  FInv'
<1>0. /\ pc \in [Workers -> Labels] /\ call \in [Workers -> Locals]
      /\ cache \in [Names -> Files] /\ desc \in [Fds -> Descriptions]
      /\ pc' = pc /\ UNCHANGED <<orig, clock, tables, users>>
      /\ handle' = handle /\ writes' = writes /\ localFH2LocalFile' = localFH2LocalFile
  BY DEF FInv, LInv, TInv, TypeOK, Collect, users, tables
<1>1. OwnIndex'
  BY <1>0, SameTables DEF tables
<1>2. CASE IsLockedFile(n)
  <2>1. /\ call' = [call EXCEPT ![w].victims = call[w].victims \ {n}]
        /\ UNCHANGED <<store, desc>>
    BY <1>0, <1>2 DEF Collect, store
  <2>2. \A v \in Workers : v # w => call'[v] = call[v]
    BY <1>0, <2>1
  <2>3. /\ call'[w].unsaved = call[w].unsaved /\ call'[w].data = call[w].data
        /\ call'[w].path = call[w].path /\ call'[w].fd = call[w].fd /\ call'[w].dest = call[w].dest
    BY <1>0, <2>1 DEF Locals
  <2>4. GoesFresh(w)
    BY <1>0, <2>3 DEF GoesFresh
  <2>5. OpenCopies'
    BY <2>1, SameTables
  <2> QED
    BY <1>0, <1>1, <2>1, <2>2, <2>3, <2>4, <2>5, MoveFresh
<1>3. CASE ~IsLockedFile(n)
  <2>1. /\ cache' = [cache EXCEPT ![n] = Absent]
        /\ desc' = [f \in Fds |-> IF desc[f] = On("cache", n) THEN On("unlinked", None) ELSE desc[f]]
        /\ call' = [v \in Workers |->
                      IF v = w THEN [call[v] EXCEPT !.victims = @ \ {n}, !.forget = n]
                      ELSE IF call[v].dest = n
                           THEN [call[v] EXCEPT !.dest = None, !.data = cache[n].data]
                           ELSE call[v]]
    BY <1>3 DEF Collect
  <2>2. /\ cache'[n] = Absent /\ cache'[n].data = {} /\ ~Exists(cache'[n]) /\ cache'[n].mtime = 0
        /\ \A m \in Names : m # n => cache'[m] = cache[m]
    BY <1>0, <2>1 DEF Exists, Absent
  <2>3. \A v \in Workers : /\ call'[v].path = call[v].path /\ call'[v].fd = call[v].fd
                           /\ call'[v].unsaved = call[v].unsaved
                           /\ call'[v].data \in {call[v].data, cache[n].data}
                           /\ call'[v].dest = call[v].dest \/ call[v].dest = n
    BY <1>0, <2>1 DEF Locals
  <2>4. Unsaved' = Unsaved
    BY <1>0, <2>3, SameUnsaved
  <2>5. OpenCopies'
    <3>1. ASSUME NEW f \in Fds
          PROVE  /\ desc'[f].on \in {"closed", "cache", "unlinked"}
                 /\ desc'[f].on = "cache" => Exists(cache'[desc'[f].name])
      <4>1. CASE desc[f] = On("cache", n)
        BY <2>1, <4>1 DEF On
      <4>2. CASE desc[f] # On("cache", n)
        <5>1. desc'[f] = desc[f]
          BY <2>1, <4>2
        <5>2. desc[f].on = "cache" => desc[f].name \in Names /\ desc[f].name # n
          BY <1>0, <4>2 DEF Descriptions, On
        <5> QED
          BY <2>2, <5>1, <5>2 DEF FInv, OpenCopies
      <4> QED
        BY <4>1, <4>2
    <3> QED
      BY <3>1 DEF OpenCopies
  <2>6. Clocked'
    <3>1. clock \in Nat
      BY DEF FInv, LInv, TInv, TypeOK
    <3> QED
      BY <1>0, <2>2, <3>1 DEF FInv, Clocked
  <2>7. Numbered'
    <3>1. SUFFICES ASSUME NEW c \in Chunks, Held(c)' PROVE Held(c)
      BY <1>0 DEF FInv, Numbered
    <3>2. \A m \in Names : c \in cache'[m].data => Held(c)
      BY <2>2 DEF Held
    <3>3. \A v \in Workers : c \in call'[v].data => Held(c)
      BY <2>3 DEF Held
    <3> QED
      BY <1>0, <2>4, <3>1, <3>2, <3>3 DEF Held
  <2>8. OwedOnly'
    BY <1>0, <2>3, <2>4 DEF FInv, OwedOnly
  <2>9. \A f \in Fds : handle'[f].path # None => InUse(handle'[f].path)
    BY <1>0 DEF InUse
  <2>10. ASSUME NEW v \in Workers PROVE GoesFresh(v)
    <3>1. call[v].dest # None => call[v].dest = CacheName[call[v].path]
      BY DEF FInv, DInv, Borrowed
    <3>2. call'[v].dest = call[v].dest \/ ~Exists(cache'[CacheName[call[v].path]])
      BY <2>2, <2>3, <3>1, NoneAssumption
    <3> QED
      BY <1>0, <2>3, <3>2 DEF GoesFresh
  <2>11. ASSUME NEW p \in Paths PROVE StaysFresh(p)
    <3>1. CASE CacheName[p] = n
      BY <1>0, <2>2, <3>1 DEF StaysFresh, EmptiedCopy
    <3>2. CASE CacheName[p] # n
      <4>1. cache'[CacheName[p]] = cache[CacheName[p]]
        BY <2>2, <3>2, CacheNameAssumption
      <4>2. At(p, "data") => At(p, "data")'
        BY <1>0, <2>3 DEF At
      <4>3. QuietFile(p)
        BY <1>0, <2>3, <2>4, <4>1, <4>2 DEF QuietFile
      <4> QED
        BY <4>3, QuietFresh
    <3> QED
      BY <3>1, <3>2
  <2> QED
    BY <1>0, <1>1, <2>5, <2>6, <2>7, <2>8, <2>9, <2>10, <2>11, FreshFrame
<1> QED
  BY <1>2, <1>3

(* Nobody works on the copy of a file that is truncated or made. *)
LEMMA NobodyAt ==
  ASSUME FInv, DistinctNames, NEW p \in Paths, LCFPasses(p) PROVE ~At(p, "data") /\ ~Filled(p)
<1>1. \A v \in Workers : call[v].path = p => pc[v] \notin CopyInLabels \cup CopyBackLabels
  BY Unattended
<1>2. {"data", "accessed", "gc", "touch", "rel_touch"} \subseteq CopyInLabels \cup CopyBackLabels
  BY DEF CopyInLabels, CopyBackLabels
<1> QED
  BY <1>1, <1>2 DEF At, Filled

LEMMA TruncateFresh ==
  ASSUME FInv, LInv', DInv', DistinctNames, DistinctSeconds, NEW p \in Paths,
         Truncate(p) \/ Mknod(p)
  PROVE  FInv'
<1>0. /\ pc \in [Workers -> Labels] /\ call \in [Workers -> Locals]
      /\ orig \in [Paths -> Files] /\ handle \in [Fds -> Handles]
  BY DEF FInv, LInv, TInv, TypeOK
<1>1. PICK now \in Now : orig' = [orig EXCEPT ![p] = File({}, now)] /\ clock' = now
  BY DEF Truncate, Mknod, SetOrig
<1>2. pc' = pc /\ LCFPasses(p) /\ UNCHANGED <<cache, desc, tables, writes>>
  BY DEF Truncate, Mknod, SetOrig
<1>3. orig'[p] = File({}, now) /\ \A q \in Paths : q # p => orig'[q] = orig[q]
  BY <1>0, <1>1
<1>4. now \in Nat /\ clock <= now /\ 0 < now
  BY ClockNext
<1>5. Exists(orig'[p]) /\ orig'[p].data = {} /\ orig'[p].mtime = now
  BY <1>3, <1>4, WrittenExists DEF File
<1>6. ASSUME NEW v \in Workers
      PROVE  /\ call'[v].path = call[v].path /\ call'[v].fd = call[v].fd
             /\ call'[v].data = call[v].data /\ call'[v].dest = call[v].dest
             /\ \/ call'[v].unsaved = call[v].unsaved
                \/ call[v].path = p /\ call'[v].unsaved = {}
  <2>1. CASE call' = call
    BY <2>1
  <2>2. CASE call' = [u \in Workers |-> IF call[u].path = p THEN [call[u] EXCEPT !.unsaved = {}]
                                                            ELSE call[u]]
    BY <1>0, <2>2 DEF Locals
  <2> QED
    BY <2>1, <2>2 DEF Truncate, Mknod
<1>7. ASSUME NEW f \in Fds
      PROVE  /\ handle'[f].path = handle[f].path
             /\ \/ handle'[f].unsaved = handle[f].unsaved
                \/ handle[f].path = p /\ handle'[f].unsaved = {}
  <2>1. CASE handle' = handle
    BY <2>1
  <2>2. CASE handle' = [g \in Fds |-> IF handle[g].path = p THEN [handle[g] EXCEPT !.unsaved = {}]
                                                            ELSE handle[g]]
    BY <1>0, <2>2 DEF Handles
  <2> QED
    BY <2>1, <2>2 DEF Truncate, Mknod
<1>8. \A c \in Unsaved : c \in Unsaved' \/ CacheName[c.path] = CacheName[p]
  <2>1. ASSUME NEW c \in Unsaved PROVE c \in Unsaved' \/ c.path = p
    <3>1. CASE \E f \in Fds : c \in handle[f].unsaved
      BY <1>7, <3>1 DEF Unsaved, FInv, OwedOnly
    <3>2. CASE \E v \in Workers : c \in call[v].unsaved
      BY <1>6, <3>2 DEF Unsaved, FInv, OwedOnly
    <3> QED
      BY <2>1, <3>1, <3>2 DEF Unsaved
  <2> QED
    BY <2>1
<1>9. HandlesKept
  BY <1>7 DEF HandlesKept
<1>10. \A v \in Workers : GoesFresh(v)
  BY <1>2, <1>6 DEF GoesFresh
<1>11. ~Current(p)'
  BY <1>2, <1>5, NewOriginal
<1>12. ~At(p, "data") /\ ~Filled(p)
  BY <1>2, NobodyAt
<1>13. clock <= clock' /\ clock' \in Nat /\ orig'[p].mtime <= clock' /\ 0 < orig'[p].mtime /\ orig'[p].mtime \in Nat
  <2>1. clock' = now
    BY <1>1
  <2> QED
    BY <1>4, <1>5, <2>1
<1> QED
  BY <1>2, <1>3, <1>5, <1>6, <1>8, <1>9, <1>10, <1>11, <1>12, <1>13, OriginalFresh

LEMMA UnlinkFresh ==
  ASSUME FInv, LInv', DInv', DistinctNames, NEW p \in Paths, Unlink(p) PROVE FInv'
<1>0. orig \in [Paths -> Files] /\ clock \in Nat
  BY DEF FInv, LInv, TInv, TypeOK
<1>1. /\ pc' = pc /\ call' = call /\ handle' = handle /\ clock' = clock /\ LCFPasses(p) /\ Unused(p)
      /\ UNCHANGED <<cache, desc, tables, writes>>
  BY DEF Unlink
<1>2. /\ orig'[p] = Absent /\ ~Exists(orig'[p]) /\ orig'[p].data = {} /\ orig'[p].mtime = 0
      /\ \A q \in Paths : q # p => orig'[q] = orig[q]
  BY <1>0 DEF Unlink, Exists, Absent
<1>3. ~InUse(p)
  BY <1>1 DEF Unused, InUse
<1>4. Unsaved' = Unsaved
  BY <1>1, SameUnsaved
<1>5. \A v \in Workers : GoesFresh(v)
  BY <1>1 DEF GoesFresh
<1>6. ~At(p, "data")
  BY <1>1, NobodyAt
<1>7. HandlesKept
  BY <1>1 DEF HandlesKept
<1> QED
  BY <1>0, <1>1, <1>2, <1>3, <1>4, <1>5, <1>6, <1>7, OriginalFresh

LEMMA StutterFresh == ASSUME FInv, LInv', DInv', UNCHANGED vars PROVE FInv'
<1>1. UNCHANGED <<orig, cache, clock, store, desc, pc, call, handle, writes, tables>>
  BY DEF vars, store, users
<1>2. OwnIndex' /\ OpenCopies'
  BY <1>1, SameTables DEF tables
<1>3. Unsaved' = Unsaved
  BY <1>1, SameUnsaved
<1>4. Clocked' /\ OwedOnly'
  BY <1>1, <1>3 DEF FInv, Clocked, OwedOnly
<1>5. Numbered'
  <2>1. \A c \in Chunks : Held(c)' => Held(c)
    BY <1>1, <1>3 DEF Held
  <2> QED
    BY <1>1, <2>1 DEF FInv, Numbered
<1>6. \A v \in Workers : GoesFresh(v)
  BY <1>1 DEF GoesFresh
<1>7. ASSUME NEW p \in Paths PROVE StaysFresh(p)
  <2>1. At(p, "data") => At(p, "data")'
    BY <1>1 DEF At
  <2>2. QuietFile(p)
    BY <1>1, <1>3, <2>1 DEF QuietFile
  <2> QED
    BY <2>2, QuietFresh
<1>8. \A f \in Fds : handle'[f].path # None => InUse(handle'[f].path)
  BY <1>1 DEF InUse
<1>9. \A v \in Workers : pc[v] = "rel_get" => localFH2LocalFile'[call[v].fd] = localFH2LocalFile[call[v].fd]
  BY <1>1 DEF tables
<1> QED
  BY <1>2, <1>4, <1>5, <1>6, <1>7, <1>8, <1>9, FreshFrame

LEMMA TouchStepFresh ==
  ASSUME FInv, LInv', DInv', DistinctNames, NEW w \in Workers, OpenTouch(w) \/ ReleaseTouch(w)
  PROVE  FInv'
<1>0. pc \in [Workers -> Labels] /\ call \in [Workers -> Locals]
  BY DEF FInv, LInv, TInv, TypeOK
<1>1. PICK p \in Paths : p = call[w].path
  BY DEF OpenTouch, ReleaseTouch, OpenLabels, ReleaseLabels, WriteBackLabels, CopyBackLabels,
         FInv, LInv, TInv, Args
<1>2. /\ \/ pc[w] = "touch" /\ pc'[w] = "open"
         \/ pc[w] = "rel_touch" /\ pc'[w] = "rel_accessed"
      /\ call' = call /\ \A v \in Workers : v # w => pc'[v] = pc[v]
      /\ UNCHANGED <<orig, clock, desc, tables, users>>
  BY <1>0 DEF OpenTouch, ReleaseTouch, Goto
<1>3. cache' = Touched(CacheName[p], p)
  <2>1. CASE OpenTouch(w)
    BY <1>1, <2>1 DEF OpenTouch, Ccfn
  <2>2. CASE ReleaseTouch(w)
    <3>1. Real(w) = CacheName[p]
      BY <1>1, <2>2 DEF ReleaseTouch, FInv, DInv, HInv, OwnCopy, WriteBackLabels, CopyBackLabels
    <3> QED
      BY <1>1, <2>2, <3>1 DEF ReleaseTouch
  <2> QED
    BY <2>1, <2>2
<1> QED
  BY <1>1, <1>2, <1>3, TouchFresh

LEMMA InitFInv == Init => FInv
<1> SUFFICES ASSUME Init PROVE FInv
  OBVIOUS
<1>1. LInv /\ DInv
  BY InitLInv, InitDInv
<1>2. Unsaved = {}
  BY DEF Init, Unsaved, NoHandle, NoCall
<1>3. \A n \in Names : ~Exists(cache[n]) /\ cache[n].data = {} /\ cache[n].mtime = 0
  BY DEF Init, Exists, Absent
<1>4. \A w \in Workers : pc[w] = "idle" /\ call[w].unsaved = {} /\ call[w].data = {}
  BY DEF Init, NoCall
<1>5. \A p \in Paths : orig[p] = File({Chunk(p, 0)}, 1)
  BY DEF Init
<1>6. Clocked /\ OwnIndex /\ OpenCopies
  BY <1>3, <1>5 DEF Init, Clocked, OwnIndex, OpenCopies, File, Closed, On
<1>7. Numbered
  <2>1. \A p \in Paths : \A c \in orig[p].data : c.n = 0
    <3>1. ASSUME NEW p \in Paths, NEW c \in orig[p].data PROVE c.n = 0
      <4>1. PICK first : first = Chunk(p, 0)
        OBVIOUS
      <4>2. orig[p] = File({first}, 1)
        BY <1>5, <4>1
      <4>3. orig[p].data = {first}
        BY <4>2 DEF File
      <4> QED
        BY <3>1, <4>1, <4>3 DEF Chunk
    <3> QED
      BY <3>1
  <2>2. \A c \in Chunks : Held(c) => c.n = 0
    BY <1>2, <1>3, <1>4, <2>1 DEF Held
  <2>3. writes = 0
    BY DEF Init
  <2> QED
    BY <2>2, <2>3 DEF Numbered
<1>8. OwedOnly
  BY <1>2, <1>4 DEF Init, OwedOnly, NoHandle
<1>9. NoFallBack /\ Spent /\ CollectedUnder
  BY <1>4 DEF NoFallBack, Spent, SpentLabels, CollectedUnder
<1>10. Emptied /\ FreshCopies
  BY <1>3, <1>4, CacheNameAssumption DEF Emptied, At, FreshCopies
<1>11. Present
  <2>1. \A f \in Fds : handle[f].path = None
    BY DEF Init, NoHandle
  <2>2. \A p \in Paths : ~InUse(p)
    BY <1>4, <2>1, NoneAssumption
       DEF InUse, OpenLabels, ReleaseLabels, WriteBackLabels, CopyBackLabels
  <2> QED
    BY <2>2 DEF Present
<1> QED
  BY <1>1, <1>6, <1>7, <1>8, <1>9, <1>10, <1>11 DEF FInv

LEMMA NextFInv ==
  ASSUME NoReuse, DistinctNames, DistinctSeconds, LocalCalls PROVE FInv /\ [Next]_vars => FInv'
<1> SUFFICES ASSUME FInv, [Next]_vars PROVE FInv'
  OBVIOUS
<1>1. LInv'
  BY NextLInv DEF FInv
<1>2. "rename" \notin Calls
  BY DEF LocalCalls
<1>3. DInv'
  BY <1>2, NextDInv DEF FInv
<1>4. CASE UNCHANGED vars
  BY <1>1, <1>3, <1>4, StutterFresh
<1>5. ASSUME NEW w \in Workers, Begin(w) PROVE FInv'
  BY <1>1, <1>3, <1>5, OpenBeginFresh, WriteFresh, ReleaseCloseFresh DEF Begin
<1>6. ASSUME NEW w \in Workers, Step(w) PROVE FInv'
  <2>1. CASE OpenStep(w)
    <3>1. ~OpenDirect(w) /\ ~OpenCreateDirectLF(w)
      BY DEF FInv, NoFallBack, OpenDirect, OpenCreateDirectLF
    <3> QED
      BY <1>1, <1>3, <2>1, <3>1, OpenMoveFresh, CopyInFresh, TouchStepFresh, OpenAppendFresh
         DEF OpenStep
  <2>2. CASE ReleaseStep(w)
    BY <1>1, <1>3, <2>2, ReleaseMoveFresh, CopyBackTruncateFresh, CopyBackDataFresh, TouchStepFresh,
       ReleaseRemoveLFFresh DEF ReleaseStep
  <2> QED
    BY <1>1, <1>3, <1>6, <2>1, <2>2, SetDirtyFlagFresh, CollectorMoveFresh, CollectFresh DEF Step
<1>7. CASE OneCall
  <2>1. \A p, q \in Paths : ~Rename(p, q) /\ ~Utimens(p) /\ ~Remote(p)
    BY DEF Rename, Utimens, Remote, Change, LocalCalls
  <2> QED
    BY <1>1, <1>3, <1>7, <2>1, TruncateFresh, UnlinkFresh DEF OneCall
<1>8. ~Crash
  BY DEF Crash, Change, LocalCalls
<1> QED
  BY <1>4, <1>5, <1>6, <1>7, <1>8 DEF Next, Quiet

(* Only the stat of an open goes from stat to open. *)
LEMMA HitByStat ==
  ASSUME TInv, [Next]_vars, NEW w \in Workers, pc[w] = "stat", pc'[w] = "open" PROVE OpenStat(w)
<1>0. pc \in [Workers -> Labels]
  BY DEF TInv, TypeOK
<1>1. ~UNCHANGED pc
  OBVIOUS
<1>2. ~UNCHANGED vars /\ ~OneCall /\ ~Quiet
  BY <1>1 DEF vars, OneCall, Truncate, Unlink, Mknod, Rename, Utimens, Remote, Quiet
<1>3. ~Crash
  BY DEF Crash
<1>4. ASSUME NEW v \in Workers, Begin(v) PROVE FALSE
  <2>1. pc[v] = "idle" /\ \E l : Goto(v, l)
    BY <1>4 DEF Begin, OpenBegin, Write, ReleaseClose
  <2> QED
    BY <1>0, <2>1 DEF Goto
<1>5. ASSUME NEW v \in Workers, Step(v) PROVE OpenStat(w)
  <2>1. v # w => pc'[w] = pc[w]
    BY <1>0, <1>5
       DEF Step, OpenStep, OpenCheck, OpenLock, OpenStat, CopyInTruncate, CopyInData, OpenTouch,
           OpenCached, OpenDirect, OpenCreateLF, OpenCreateDirectLF, OpenAppend, SetDirtyFlag,
           ReleaseStep, ReleaseGetLF, ReleaseLock, CopyBackTruncate, CopyBackData, ReleaseTouch,
           ReleaseUnlock, ReleaseRemoveLF, AccessedFile, Forget, CollectEnd, Collect, Goto, Return, Leave
  <2>2. v = w
    BY <2>1
  <2> QED
    BY <1>1, <1>5, <2>2
       DEF Step, OpenStep, OpenCheck, OpenLock, CopyInTruncate, CopyInData, OpenTouch,
           OpenCached, OpenDirect, OpenCreateLF, OpenCreateDirectLF, OpenAppend, SetDirtyFlag,
           ReleaseStep, ReleaseGetLF, ReleaseLock, CopyBackTruncate, CopyBackData, ReleaseTouch,
           ReleaseUnlock, ReleaseRemoveLF, AccessedFile, AfterAccess, Forget, CollectEnd, Collect
<1> QED
  BY <1>2, <1>3, <1>4, <1>5 DEF Next

(* An open that does not copy serves what the original holds, or what a handle has still to
   write back to it, although copies are filled in place, emptied under their handles,
   unlinked while they are filled and dated after the fact: as long as changes of a file
   fall into different seconds, and only this daemon changes the originals, without
   renaming or dating them. *)
THEOREM HitsServeCurrent ==
  ASSUME NoReuse, DistinctNames, DistinctSeconds, LocalCalls PROVE Spec => ServesCurrent
<1>1. ASSUME FInv, [Next]_vars, NEW w \in Workers, pc[w] = "stat", pc'[w] = "open"
      PROVE  FreshHit(w)
  <2>1. OpenStat(w)
    BY <1>1, HitByStat DEF FInv, LInv
  <2>2. PICK p \in Paths : p = call[w].path
    BY <1>1 DEF OpenLabels, FInv, LInv, TInv, Args
  <2>3. Exists(orig[p]) /\ Exists(cache[CacheName[p]]) /\ Current(p)
    <3>1. pc \in [Workers -> Labels]
      BY <1>1 DEF FInv, LInv, TInv, TypeOK
    <3> QED
      BY <1>1, <2>1, <2>2, <3>1 DEF OpenStat, Goto, IsTheLocalCacheNewer, Current
  <2>4. ~At(p, "data")
    <3>1. ASSUME NEW v \in Workers, call[v].path = p, pc[v] = "data" PROVE FALSE
      <4>1. v = w
        BY <1>1, <2>2, <3>1, OneAtCopy DEF CopyInLabels
      <4> QED
        BY <1>1, <3>1, <4>1
    <3> QED
      BY <3>1 DEF At
  <2>5. Fresh(p)
    BY <1>1, <2>3, <2>4 DEF FInv, FreshCopies
  <2> QED
    BY <2>2, <2>5 DEF Fresh, FreshHit, Ccfn
<1>2. FInv /\ [Next]_vars => [\A w \in Workers : pc[w] = "stat" /\ pc'[w] = "open" => FreshHit(w)]_vars
  BY <1>1
<1> QED
  BY <1>2, InitFInv, NextFInv, PTL DEF Spec, ServesCurrent
================================================================================
