------------------------------ MODULE LockOrder ------------------------------
(***************************************************************************)
(* The order in which the handlers of tgefs.cc take the locks of the       *)
(* daemon: the SETFSID mutex (only when it runs as root), the lock of a    *)
(* cached file, the table of LocalFiles, the garbage collector, and the    *)
(* index of cached files.  A handler is the sequence of its takes and      *)
(* gives; what it does in between is left out.                             *)
(***************************************************************************)
EXTENDS Naturals, Sequences

CONSTANTS Workers,   (* FUSE worker threads                                    *)
          Names,     (* names of cached files                                  *)
          None,      (* no worker                                              *)
          Settings   (* how the daemon may be run: see Setting below           *)

Global == {"fsid", "lf", "gc", "idx"}  (* setFSID_mutex, localFH2LocalFile_mutex, *)
                                       (* garbageCollection_mutex,                *)
                                       (* localCacheCollectionFile_mutex          *)

Locks == Names \cup Global

Kind == {"one", "two", "open", "fallback", "collision", "write", "release"}

ASSUME NamesAssumption == Names \cap Global = {} /\ None \notin Workers

(* As root or not; the kinds of call its users make; whether calls of two paths come
   one at a time and with two names, as the kernel makes renames. *)
Setting == [root : BOOLEAN, kinds : SUBSET Kind, oneTwoPathCall : BOOLEAN]

ASSUME SettingsAssumption == Settings \subseteq Setting

VARIABLES setting,  (* how this daemon is run, once and for all   *)
          owner,    (* owner[l]: the worker that has lock l       *)
          todo,     (* todo[w]: what is left of the handler w runs *)
          kind      (* kind[w]: the kind of that call             *)

vars == <<setting, owner, todo, kind>>

------------------------------------------------------------------------------
(* What a handler does with the locks. *)

Take(l) == [op |-> "take", lock |-> l]

Give(l) == [op |-> "give", lock |-> l]

(* Variant: a scope that is left without its destructor. *)
OpenSection(l, inner) == <<Take(l)>> \o inner

(* A lock object lives for a scope, within which inner happens. *)
Section(l, inner) == <<Take(l)>> \o inner \o <<Give(l)>>

(* SETFSID takes its mutex as root only. *)
Fsid(inner) == IF setting.root THEN Section("fsid", inner) ELSE inner

(* createCachedFileName looks the name up in the index. *)
Index == Section("idx", <<>>)

(* Variant: the lock of the copy is taken before the identity is set. *)
OnePathInverted(n) == {Index \o Section(n, Fsid(<<>>))}

(* access, unlink, rmdir, chmod, chown, truncate, utimens, the xattr calls: one
   system call under the lock of the copy.  getattr sets the identity once more;
   mknod looks the name up first; a name that is taken means no lock. *)
OnePath(n) == {Fsid(Index \o Section(n, <<>>)),
               Fsid(Index \o Section(n, <<>>)) \o Fsid(<<>>),
               Index \o Fsid(Section(n, <<>>)),
               Fsid(Index)}

(* symlink, rename and link lock the copy of from, then that of to. *)
TwoPaths(m, n) == {Fsid(Index \o Index \o Section(m, Section(n, <<>>)))}

(* accessedFile under an LFLock: collect removes some names from the index, then
   saves it. *)
Accessed == {Section("lf", <<>>), Section("lf", Section("gc", Index \o Index))}

(* The check with the flags of open, which every open makes first. *)
OpenCheck(n) == Index \o Fsid(Index \o Section(n, <<>>))

(* The copy is used: as it is, or copied in first. *)
OpenCached(n) == {OpenCheck(n) \o Section(n, acc \o Section("lf", <<>>) \o Index) :
                     acc \in {<<>>} \cup Accessed}

(* The original is used, while the lock of the copy is held. *)
OpenFallback(n) == {OpenCheck(n) \o Section(n, Fsid(Section("lf", <<>>)))}

(* The name is taken by another path: the original is used. *)
OpenCollision == {Index \o Fsid(Index) \o Fsid(Section("lf", <<>>))}

Write == {Section("lf", <<>>)}

(* Variant: the table stays locked while a dirty copy is written back. *)
ReleaseNested(n) == {Section("lf", Section(n, <<>>))}

(* A clean handle, a dirty one whose copy cannot be read, and a write-back. *)
Release(n) == LET Lookup == Section("lf", <<>>)
              IN  {Lookup \o Lookup} \cup
                  {Lookup \o Section(n, acc) \o Lookup : acc \in {<<>>} \cup Accessed}

Scripts(k) ==
  CASE k = "one"       -> UNION {OnePath(n) : n \in Names}
    [] k = "two"       -> UNION {TwoPaths(m, n) : m, n \in Names}
    [] k = "open"      -> UNION {OpenCached(n) : n \in Names}
    [] k = "fallback"  -> UNION {OpenFallback(n) : n \in Names}
    [] k = "collision" -> OpenCollision
    [] k = "write"     -> Write
    [] k = "release"   -> UNION {Release(n) : n \in Names}

------------------------------------------------------------------------------
Init == /\ setting \in Settings
        /\ owner = [l \in Locks |-> None]
        /\ todo = [w \in Workers |-> <<>>]
        /\ kind = [w \in Workers |-> "none"]

(* A thread blocks on a lock it has itself: no mutex here is recursive. *)
Runs(w) == todo[w] # <<>>

Begin(w) ==
  /\ ~Runs(w)
  /\ \E k \in setting.kinds :
       /\ kind' = [kind EXCEPT ![w] = k]
       /\ \E s \in IF k = "two" /\ setting.oneTwoPathCall
                   THEN UNION {TwoPaths(p[1], p[2]) : p \in {q \in Names \X Names : q[1] # q[2]}}
                   ELSE Scripts(k) :
             todo' = [todo EXCEPT ![w] = s]
       /\ k = "two" /\ setting.oneTwoPathCall => \A v \in Workers : Runs(v) => kind[v] # "two"
  /\ UNCHANGED <<setting, owner>>

Wants(w, l) == Runs(w) /\ Head(todo[w]) = Take(l)

Lock(w) == \E l \in Locks :
  /\ Wants(w, l)
  /\ owner[l] = None
  /\ owner' = [owner EXCEPT ![l] = w]
  /\ todo' = [todo EXCEPT ![w] = Tail(@)]
  /\ UNCHANGED <<setting, kind>>

Unlock(w) == \E l \in Locks :
  /\ Runs(w) /\ Head(todo[w]) = Give(l)
  /\ owner' = [owner EXCEPT ![l] = None]
  /\ todo' = [todo EXCEPT ![w] = Tail(@)]
  /\ UNCHANGED <<setting, kind>>

Next == \E w \in Workers : Begin(w) \/ Lock(w) \/ Unlock(w)

(* Threads run, and a lock that comes free again and again is got at last. *)
Fairness == \A w \in Workers : SF_vars(Lock(w)) /\ WF_vars(Unlock(w))

Spec == Init /\ [][Next]_vars /\ Fairness

------------------------------------------------------------------------------
(* Every worker of D waits for a lock that a worker of D has. *)
Deadlocked(D) == /\ D # {}
                 /\ \A w \in D : \E l \in Locks : Wants(w, l) /\ owner[l] \in D

NoCycle == \A D \in SUBSET Workers : ~Deadlocked(D)

(* The calls of two paths come as the kernel makes renames, and no open of a daemon run
   by root falls back to direct access once it has locked the copy. *)
Orderly == setting.oneTwoPathCall /\ (setting.root => "fallback" \notin setting.kinds)

(* No group of handlers waits for itself, be it all of the workers or a few, when the
   users' calls are orderly. *)
NoDeadlock == Orderly => NoCycle

(* Then every call returns. *)
Responds == Orderly => \A w \in Workers : Runs(w) ~> ~Runs(w)

(* Holds the lock of a copy and waits for the identity: the fall back of open. *)
FallbackWaits(w) == Wants(w, "fsid") /\ \E n \in Names : owner[n] = w

(* Holds the lock of one copy and waits for that of another, or of the same. *)
SecondCopyWaits(w) == \E m, n \in Names : owner[m] = w /\ Wants(w, n)

(* Where handlers do deadlock, the two-path calls or, as root, the fall back of open
   to direct access are to blame: nothing else in the daemon can close a cycle. *)
CyclesKnown == \A D \in SUBSET Workers : Deadlocked(D) =>
                  \E w \in D : FallbackWaits(w) \/ SecondCopyWaits(w)
==============================================================================
