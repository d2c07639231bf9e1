---------------------------- MODULE CacheGCProofs ----------------------------
(* Proofs about CacheGC: for every directory, limit and period, a collection takes
   the files of its user only, the least recently used first, those that have to go and
   no others. *)
EXTENDS CacheGC, FiniteSetTheorems, WellFoundedInduction, TLAPS

(* collect starts with its locals empty. *)
NoLocals == /\ listed = [f \in Files |-> NoFile]
            /\ removed = {} /\ failed = {} /\ candidates = {}

(* In step 4 the times of what was taken and of what was kept for step 5 lie on the two
   sides of oldDate; in step 2 there is neither. *)
Sides == /\ pc = "idle" => NoLocals
         /\ pc = "stat" => removed \cup failed \cup candidates = {}
         /\ pc = "age" => /\ \A f \in removed \cup failed : listed[f].time < oldDate
                          /\ \A g \in candidates : oldDate <= listed[g].time

(* A file listed as the user's is the user's as long as the collection has not taken it. *)
StillMine == pc # "idle" =>
  \A f \in Files : Mine(f) /\ f \notin removed => dir[f].owner = Me

(* What step 4 and step 5 work on has not been taken yet. *)
NotTaken == /\ pc \in {"age", "need"} => (work \cup candidates) \cap removed = {}
            /\ pc = "age" => work \cap candidates = {}
            /\ pc = "need" => work = {}

IInv == TypeOK /\ Sides /\ OldestFirst /\ StillMine /\ NotTaken

LEMMA InitIInv == Init => IInv
BY FilesAssumption, UsersAssumption
   DEF Init, IInv, TypeOK, Sides, OldestFirst, StillMine, NotTaken, NoLocals, File, NoFile,
       Entries, Labels, Mine

(* unlink of a file of the user keeps the types. *)
LEMMA UnlinkTypes ==
  ASSUME TypeOK, NEW f \in Files, UnlinkCopy(f)
  PROVE  /\ dir' \in [Files -> Entries]
         /\ deleted' \in Nat
         /\ forget' \in Files \cup {None}
         /\ removed' \subseteq Files /\ failed' \subseteq Files
<1>1. listed[f].size \in Nat
  BY DEF TypeOK, Entries
<1>2. NoFile \in Entries
  BY DEF NoFile, Entries
<1> QED
  BY <1>1, <1>2 DEF TypeOK, UnlinkCopy

(* What happens beside a collection and lets the user's files be leaves IInv as it is. *)
LEMMA BesideIInv ==
  ASSUME IInv, UNCHANGED collector,
         dir' \in [Files -> Entries], index' \subseteq Files,
         {today', copies', GC_counter_in_KBytes', GC_counter_in_nFiles'} \subseteq Nat,
         stage' \in [Files -> {"none", "copied", "accessed", "touched"}],
         lastUse' \in [Files -> Nat],
         \A g \in Files : dir[g].owner = Me => dir'[g].owner = Me
  PROVE  IInv'
<1>1. TypeOK'
  BY DEF IInv, TypeOK, collector, locals, Mine
<1>2. Sides' /\ OldestFirst' /\ NotTaken'
  BY DEF IInv, Sides, NoLocals, OldestFirst, NotTaken, collector, locals
<1>3. StillMine'
  BY DEF IInv, StillMine, collector, locals, Mine
<1> QED
  BY <1>1, <1>2, <1>3 DEF IInv

LEMMA FileType ==
  ASSUME NEW size \in Nat, NEW time \in Nat, NEW owner \in {Me, Other}
  PROVE  File(size, time, owner) \in Entries /\ File(size, time, owner).owner = owner
BY DEF File, Entries

LEMMA NoFileType == NoFile \in Entries /\ NoFile.owner = None
BY DEF NoFile, Entries

(* The opens and the other user leave the collection alone, and what is the user's. *)
LEMMA AroundIInv == ASSUME IInv, Around PROVE IInv'
<1> USE NumbersAssumption, FilesAssumption, UsersAssumption
<1>0. TypeOK
  BY DEF IInv
<1>1. CASE Tick
  BY <1>0, <1>1, BesideIInv DEF Tick, TypeOK, opens, counters
<1>2. ASSUME NEW f \in Files, CopyIn(f) PROVE IInv'
  <2>1. PICK s \in Sizes : dir' = [dir EXCEPT ![f] = File(s, today, Me)]
    BY <1>2 DEF CopyIn
  <2>2. File(s, today, Me) \in Entries /\ File(s, today, Me).owner = Me
    BY <1>0, FileType DEF TypeOK
  <2>3. /\ dir' \in [Files -> Entries]
        /\ \A g \in Files : dir[g].owner = Me => dir'[g].owner = Me
    BY <1>0, <2>1, <2>2 DEF TypeOK
  <2> QED
    BY <1>0, <1>2, <2>3, BesideIInv DEF CopyIn, TypeOK, counters
<1>3. ASSUME NEW f \in Files, Touch(f) PROVE IInv'
  <2>1. /\ dir' \in [Files -> Entries]
        /\ \A g \in Files : dir[g].owner = Me => dir'[g].owner = Me
    <3>1. CASE UNCHANGED dir
      BY <1>0, <3>1 DEF TypeOK
    <3>2. ASSUME NEW t \in 0..today, dir' = [dir EXCEPT ![f].time = t] PROVE <2>1
      <4>1. t \in Nat
        BY <1>0 DEF TypeOK
      <4> QED
        BY <1>0, <3>2, <4>1 DEF TypeOK, Entries
    <3> QED
      BY <1>3, <3>1, <3>2 DEF Touch
  <2> QED
    BY <1>0, <1>3, <2>1, BesideIInv DEF Touch, TypeOK, counters
<1>4. ASSUME NEW f \in Files, OpenAgain(f) PROVE IInv'
  BY <1>0, <1>4, BesideIInv DEF OpenAgain, TypeOK, counters
<1>5. ASSUME NEW f \in Files, Append(f) PROVE IInv'
  <2>1. File(0, today, Me) \in Entries /\ File(0, today, Me).owner = Me
    BY <1>0, FileType DEF TypeOK
  <2>2. /\ dir' \in [Files -> Entries]
        /\ \A g \in Files : dir[g].owner = Me => dir'[g].owner = Me
    BY <1>0, <1>5, <2>1 DEF Append, TypeOK
  <2> QED
    BY <1>0, <1>5, <2>2, BesideIInv DEF Append, TypeOK, counters
<1>6. ASSUME NEW f \in Files, Read(f) PROVE IInv'
  <2>1. /\ dir' \in [Files -> Entries]
        /\ \A g \in Files : dir[g].owner = Me => dir'[g].owner = Me
    BY <1>0, <1>6 DEF Read, TypeOK, Entries
  <2> QED
    BY <1>0, <1>6, <2>1, BesideIInv DEF Read, TypeOK, counters
<1>7. ASSUME NEW f \in Files, OtherCreates(f) PROVE IInv'
  <2>1. PICK s \in Sizes : dir' = [dir EXCEPT ![f] = File(s, today, Other)]
    BY <1>7 DEF OtherCreates
  <2>2. File(s, today, Other) \in Entries
    BY <1>0, FileType DEF TypeOK
  <2>3. dir[f].owner # Me
    BY <1>7, NoFileType DEF OtherCreates, There
  <2>4. /\ dir' \in [Files -> Entries]
        /\ \A g \in Files : dir[g].owner = Me => dir'[g].owner = Me
    BY <1>0, <2>1, <2>2, <2>3 DEF TypeOK
  <2> QED
    BY <1>0, <1>7, <2>4, BesideIInv DEF OtherCreates, TypeOK, opens, counters
<1>8. ASSUME NEW f \in Files, OtherRemoves(f) PROVE IInv'
  <2>1. /\ dir' \in [Files -> Entries]
        /\ \A g \in Files : dir[g].owner = Me => dir'[g].owner = Me
    BY <1>0, <1>8, NoFileType DEF OtherRemoves, TypeOK
  <2> QED
    BY <1>0, <1>8, <2>1, BesideIInv DEF OtherRemoves, TypeOK, opens, counters
<1> QED
  BY <1>1, <1>2, <1>3, <1>4, <1>5, <1>6, <1>7, <1>8 DEF Around

------------------------------------------------------------------------------
(* The steps of a collection. *)

LEMMA AccessedIInv == ASSUME IInv, NEW f \in Files, Accessed(f) PROVE IInv'
<1> USE FilesAssumption, UsersAssumption
<1>0. TypeOK
  BY DEF IInv
<1>1. /\ {GC_counter_in_KBytes', GC_counter_in_nFiles'} \subseteq Nat
      /\ stage' \in [Files -> {"none", "copied", "accessed", "touched"}]
  <2>1. dir[f].size \in Nat
    BY <1>0 DEF TypeOK, Entries
  <2> QED
    BY <1>0, <2>1 DEF Accessed, TypeOK, CountedSize, counters
<1>2. CASE UNCHANGED collector
  BY <1>0, <1>1, <1>2, BesideIInv DEF Accessed, TypeOK
<1>3. CASE StartCollect(f)
  <2>1. \A g \in Files : ~Mine(g)'
    BY <1>3, NoFileType DEF Accessed, StartCollect, Mine, IInv, Sides, NoLocals
  <2>2. listed' \in [Files -> Entries]
    BY <1>0, <1>3 DEF StartCollect, TypeOK
  <2>3. TypeOK'
    BY <1>0, <1>1, <1>3, <2>2 DEF Accessed, StartCollect, TypeOK, Labels
  <2> QED
    BY <1>3, <2>1, <2>3
       DEF Accessed, StartCollect, IInv, Sides, NoLocals, OldestFirst, StillMine, NotTaken
<1> QED
  BY <1>2, <1>3 DEF Accessed

(* A collection that ends leaves nothing to show. *)
LEMMA EndIInv ==
  ASSUME IInv, EndCollect, UNCHANGED <<index, today, opens>>, dir' \in [Files -> Entries]
  PROVE  IInv'
<1>1. TypeOK'
  BY NoFileType DEF EndCollect, IInv, TypeOK, opens, Labels
<1> QED
  BY <1>1 DEF EndCollect, IInv, Sides, NoLocals, OldestFirst, StillMine, NotTaken

LEMMA ExamineIInv == ASSUME IInv, NEW f \in Files, Examine(f) PROVE IInv'
<1>0. TypeOK
  BY DEF IInv
<1>1. CASE EndCollect
  BY <1>0, <1>1, EndIInv DEF Examine, TypeOK
<1>2. CASE pc' = pc /\ listed' = [listed EXCEPT ![f] = dir[f]]
  <2>1. dir[f] \in Entries /\ dir[f].size \in Nat
    BY <1>0 DEF TypeOK, Entries
  <2>2. pc = "stat" /\ UNCHANGED <<dir, candidates, removed, failed>>
    BY <1>2 DEF Examine, EndCollect
  <2>3. TypeOK'
    BY <1>0, <1>2, <2>1, <2>2 DEF Examine, EndCollect, TypeOK, counters, opens
  <2>4. StillMine'
    BY <1>0, <1>2, <2>2 DEF IInv, StillMine, Mine, TypeOK
  <2> QED
    BY <1>2, <2>2, <2>3, <2>4 DEF IInv, Sides, OldestFirst, NotTaken
<1> QED
  BY <1>1, <1>2 DEF Examine

LEMMA GiveUpIInv == ASSUME IInv, GiveUp PROVE IInv'
BY EndIInv DEF GiveUp, IInv, TypeOK

LEMMA ThresholdIInv == ASSUME IInv, Threshold PROVE IInv'
<1>0. TypeOK
  BY DEF IInv
<1>1. limit' \in Nat /\ oldDate' \in Nat
  BY <1>0, NumbersAssumption DEF Threshold, LimitSize, TypeOK
<1>2. work' = {g \in Files : Mine(g)'} /\ candidates' = {} /\ removed' = {} /\ failed' = {}
  BY DEF IInv, Sides, Threshold, Collectable, Mine
<1>3. TypeOK'
  BY <1>0, <1>1, <1>2 DEF Threshold, TypeOK, Labels, counters, opens, Mine
<1>4. StillMine'
  BY DEF IInv, Threshold, StillMine, Mine
<1> QED
  BY <1>2, <1>3, <1>4 DEF Threshold, IInv, Sides, OldestFirst, NotTaken

(* unlink takes one file of the user, or fails. *)
LEMMA UnlinkStep ==
  ASSUME IInv, NEW f \in Files, UnlinkCopy(f), UNCHANGED listed
  PROVE  /\ {removed', failed'} \subseteq {removed, failed, removed \cup {f}, failed \cup {f}}
         /\ removed' \cup failed' = removed \cup failed \cup {f}
         /\ removed \subseteq removed' /\ removed' \subseteq removed \cup {f}
         /\ pc # "idle" => \A g \in Files : Mine(g)' /\ g \notin removed' => dir'[g].owner = Me
BY DEF UnlinkCopy, IInv, StillMine, Mine, TypeOK

LEMMA AgeIInv == ASSUME IInv, NEW f \in Files, Age(f) PROVE IInv'
<1>0. TypeOK
  BY DEF IInv
<1>1. CASE UnlinkCopy(f) /\ listed[f].time < oldDate /\ UNCHANGED candidates
  <2>1. TypeOK'
    BY <1>0, <1>1, UnlinkTypes DEF Age, TypeOK, opens, counters, Mine
  <2>2. Sides'
    BY <1>1, UnlinkStep DEF Age, IInv, Sides
  <2>3. StillMine'
    BY <1>1, UnlinkStep DEF Age, StillMine
  <2>4. NotTaken'
    BY <1>1, UnlinkStep DEF Age, IInv, NotTaken
  <2> QED
    BY <2>1, <2>2, <2>3, <2>4 DEF Age, IInv, OldestFirst
<1>2. CASE /\ oldDate <= listed[f].time
           /\ candidates' = candidates \cup {f}
           /\ UNCHANGED <<dir, deleted, forget, removed, failed>>
  <2>1. TypeOK'
    BY <1>0, <1>2 DEF Age, TypeOK, opens, counters, Mine
  <2>2. Sides' /\ NotTaken' /\ StillMine'
    BY <1>2 DEF Age, IInv, Sides, NotTaken, StillMine, Mine
  <2> QED
    BY <2>1, <2>2 DEF Age, IInv, OldestFirst
<1> QED
  BY <1>1, <1>2 DEF Age, IsLockedFile

LEMMA AgeEndIInv == ASSUME IInv, AgeEnd PROVE IInv'
<1>1. TypeOK'
  BY DEF AgeEnd, IInv, TypeOK, locals, counters, opens, Labels, Mine
<1>2. OldestFirst'
  <2>1. \A g \in Files : listed[g].time \in Nat
    BY DEF IInv, TypeOK, Entries
  <2> QED
    BY <2>1 DEF AgeEnd, IInv, TypeOK, Sides, OldestFirst, locals
<1> QED
  BY <1>1, <1>2 DEF AgeEnd, IInv, Sides, StillMine, NotTaken, locals, Mine

LEMMA NeedIInv == ASSUME IInv, NEW f \in Files, Need(f) PROVE IInv'
<1>0. TypeOK
  BY DEF IInv
<1>1. UnlinkCopy(f) /\ pc = "need" /\ candidates' = candidates \ {f} /\ UNCHANGED <<pc, listed, work>>
  BY DEF Need
<1>2. TypeOK'
  BY <1>0, UnlinkTypes DEF Need, TypeOK, opens, counters, Mine
<1>3. OldestFirst'
  BY <1>1, UnlinkStep DEF Need, NextCandidate, IInv, OldestFirst
<1>4. StillMine'
  BY <1>1, UnlinkStep DEF StillMine
<1>5. NotTaken'
  BY <1>1, UnlinkStep DEF IInv, NotTaken
<1> QED
  BY <1>1, <1>2, <1>3, <1>4, <1>5 DEF IInv, Sides

LEMMA ForgetIInv == ASSUME IInv, Forget PROVE IInv'
BY DEF Forget, IInv, TypeOK, Sides, NoLocals, OldestFirst, StillMine, NotTaken, opens, counters, Mine

LEMMA SaveIInv == ASSUME IInv, Save PROVE IInv'
<1>1. File(0, today, Me) \in Entries
  BY FileType DEF IInv, TypeOK
<1>2. dir' \in [Files -> Entries]
  BY <1>1 DEF Save, IInv, TypeOK
<1> QED
  BY <1>2, EndIInv DEF Save

LEMMA NextIInv == IInv /\ [Next]_vars => IInv'
<1> SUFFICES ASSUME IInv, [Next]_vars PROVE IInv'
  OBVIOUS
<1>1. CASE Collect
  BY <1>1, GiveUpIInv, ThresholdIInv, AgeEndIInv, ForgetIInv, SaveIInv, ExamineIInv, AgeIInv, NeedIInv DEF Collect
<1>2. CASE UNCHANGED vars
  BY <1>2 DEF IInv, TypeOK, Sides, NoLocals, OldestFirst, StillMine, NotTaken, vars, opens,
              counters, collector, locals, Mine
<1> QED
  BY <1>1, <1>2, AroundIInv, AccessedIInv DEF Next, Quiet

LEMMA Invariance == Spec => []IInv
BY InitIInv, NextIInv, PTL DEF Spec

------------------------------------------------------------------------------
(* The variables of the collector have their types, and its loops work on listed files
   of its user only. *)
THEOREM TypeCorrect == Spec => []TypeOK
BY Invariance, PTL DEF IInv

(* Whatever the limits, no file is taken while an older candidate is left. *)
THEOREM LeastRecentlyUsedFirst == Spec => []OldestFirst
BY Invariance, PTL DEF IInv

(* A collection takes files of its user only, although stat, which asks for the owner,
   and unlink are steps of their own and other daemons use the directory. *)
THEOREM TakesOwnOnly == Spec => OwnOnly
<1>1. IInv /\ [Next]_vars => [\A f \in removed' \ removed : dir[f].owner = Me]_vars
  <2> SUFFICES ASSUME IInv, Next, NEW f \in removed' \ removed PROVE dir[f].owner = Me
    OBVIOUS
  <2>1. CASE Around
    BY <2>1 DEF Around, Tick, CopyIn, Touch, OpenAgain, Append, Read, OtherCreates, OtherRemoves,
                collector, locals
  <2>2. ASSUME NEW g \in Files, Accessed(g) PROVE FALSE
    BY <2>2 DEF Accessed, StartCollect, collector, locals
  <2>3. ASSUME NEW g \in Files, Age(g) \/ Need(g) PROVE dir[f].owner = Me
    <3>1. g \in work \cup candidates /\ pc \in {"age", "need"}
      BY <2>3 DEF Age, Need, NextCandidate
    <3>2. dir[g].owner = Me
      BY <3>1 DEF IInv, TypeOK, StillMine, NotTaken
    <3>3. f = g
      BY <2>3 DEF Age, Need, UnlinkCopy
    <3> QED
      BY <3>2, <3>3
  <2>4. ASSUME NEW g \in Files, Examine(g) PROVE FALSE
    BY <2>4 DEF Examine, EndCollect
  <2>5. ~(GiveUp \/ Threshold \/ AgeEnd \/ Forget \/ Save \/ Quiet)
    BY DEF GiveUp, EndCollect, Threshold, AgeEnd, Forget, Save, Quiet, locals, vars, collector
  <2> QED
    BY <2>1, <2>2, <2>3, <2>4, <2>5 DEF Next, Collect
<1> QED
  BY <1>1, Invariance, PTL DEF Spec, OwnOnly

------------------------------------------------------------------------------
(* Sums over finite sets.  What MapThenSumSet computes is a function that picks one
   element after the other; that there is one, and that the order does not matter, is shown
   by way of a smallest counterexample. *)

LEMMA Least == ASSUME NEW T \in SUBSET Nat, T # {} PROVE \E n \in T : \A m \in T : n <= m
<1>1. IsWellFoundedOn(OpToRel(<, Nat), Nat)
  BY NatLessThanWellFounded
<1> DEFINE R == OpToRel(<, Nat)
<1>2. PICK n \in T : \A m \in T : ~(<<m, n>> \in R)
  <2> HIDE DEF R
  <2> QED
    BY <1>1, WFMin DEF R
<1>3. \A m \in T : ~(m < n)
  BY <1>2 DEF OpToRel
<1> QED
  BY <1>3

Weights == [Files -> Entries]

Some(S) == CHOOSE f \in S : TRUE

Term(l, sum, S) == IF S = {} THEN 0 ELSE l[Some(S)].size + sum[S \ {Some(S)}]

(* sum gives the subsets of D their sizes. *)
AddsUp(l, sum, D) == \A S \in SUBSET D : sum[S] = Term(l, sum, S)

Total(l, D) == (CHOOSE sum : sum = [S \in SUBSET D |-> Term(l, sum, S)])[D]

LEMMA SizeTotal == ASSUME NEW D PROVE Size(D) = Total(listed, D)
BY DEF Size, Total, Term, Some, MapThenSumSet, MapThenFoldSet

LEMMA SomeIn == ASSUME NEW S, S # {} PROVE Some(S) \in S
BY DEF Some

Smaller(D, n) == {S \in SUBSET D : Cardinality(S) <= n}

(* The sums of the subsets of D with at most n elements. *)
SumsUpTo(l, D, n) ==
  \E sum \in [Smaller(D, n) -> Nat] : \A S \in Smaller(D, n) : sum[S] = Term(l, sum, S)

LEMMA OneMore ==
  ASSUME NEW D \in SUBSET Files, NEW l \in Weights, NEW n \in Nat, SumsUpTo(l, D, n)
  PROVE  SumsUpTo(l, D, n + 1)
<1>1. PICK sum \in [Smaller(D, n) -> Nat] : \A S \in Smaller(D, n) : sum[S] = Term(l, sum, S)
  BY DEF SumsUpTo
<1> DEFINE more == [S \in Smaller(D, n + 1) |-> Term(l, sum, S)]
<1>2. \A S \in SUBSET D : IsFiniteSet(S) /\ Cardinality(S) \in Nat
  BY FilesAssumption, FS_Subset, FS_CardinalityType
<1>3. ASSUME NEW S \in Smaller(D, n + 1), S # {}
      PROVE  /\ S \ {Some(S)} \in Smaller(D, n)
             /\ l[Some(S)].size \in Nat
  <2>1. Some(S) \in S /\ Some(S) \in Files
    BY <1>3, SomeIn DEF Smaller
  <2>2. Cardinality(S \ {Some(S)}) = Cardinality(S) - 1
    BY <1>2, <2>1, FS_RemoveElement DEF Smaller
  <2> QED
    BY <1>2, <2>1, <2>2 DEF Smaller, Weights, Entries
<1>4. \A S \in Smaller(D, n + 1) : more[S] \in Nat
  BY <1>1, <1>3 DEF Term
<1>5. \A S \in Smaller(D, n) : S \in Smaller(D, n + 1) /\ more[S] = sum[S]
  BY <1>1, <1>2 DEF Smaller
<1>6. \A S \in Smaller(D, n + 1) : more[S] = Term(l, more, S)
  <2> SUFFICES ASSUME NEW S \in Smaller(D, n + 1) PROVE more[S] = Term(l, more, S)
    OBVIOUS
  <2>1. more[S] = Term(l, sum, S)
    OBVIOUS
  <2>2. S # {} => more[S \ {Some(S)}] = sum[S \ {Some(S)}]
    BY <1>3, <1>5
  <2> HIDE DEF more
  <2> QED
    BY <2>1, <2>2 DEF Term
<1> QED
  <2>1. more \in [Smaller(D, n + 1) -> Nat]
    BY <1>4
  <2> HIDE DEF more
  <2> QED
    BY <1>6, <2>1 DEF SumsUpTo

LEMMA AllSums ==
  ASSUME NEW D \in SUBSET Files, NEW l \in Weights, NEW n \in Nat PROVE SumsUpTo(l, D, n)
<1>1. SumsUpTo(l, D, 0)
  <2>1. Smaller(D, 0) = {{}}
    BY FilesAssumption, FS_Subset, FS_CardinalityType, FS_EmptySet DEF Smaller
  <2> DEFINE none == [S \in Smaller(D, 0) |-> 0]
  <2>2. none \in [Smaller(D, 0) -> Nat]
    OBVIOUS
  <2>3. \A S \in Smaller(D, 0) : none[S] = Term(l, none, S)
    BY <2>1 DEF Term
  <2> HIDE DEF none
  <2> QED
    BY <2>2, <2>3 DEF SumsUpTo
<1> DEFINE Bad == {m \in Nat : ~SumsUpTo(l, D, m)}
<1>2. CASE Bad = {}
  BY <1>2
<1>3. CASE Bad # {}
  <2>1. PICK m \in Bad : \A k \in Bad : m <= k
    <3>1. Bad \in SUBSET Nat
      OBVIOUS
    <3> HIDE DEF Bad
    <3> QED
      BY <1>3, <3>1, Least
  <2>2. m # 0 /\ m \in Nat
    BY <1>1
  <2>3. SumsUpTo(l, D, m - 1)
    BY <2>1, <2>2
  <2>4. SumsUpTo(l, D, (m - 1) + 1)
    BY <2>2, <2>3, OneMore
  <2> QED
    BY <2>2, <2>4
<1> QED
  BY <1>2, <1>3

(* Two functions that add up the same sizes are equal. *)
LEMMA SameSums ==
  ASSUME NEW D \in SUBSET Files, NEW l, NEW m, \A f \in D : l[f].size = m[f].size,
         NEW s, NEW t, AddsUp(l, s, D), AddsUp(m, t, D)
  PROVE  \A S \in SUBSET D : s[S] = t[S]
<1>1. \A S \in SUBSET D : IsFiniteSet(S) /\ Cardinality(S) \in Nat
  BY FilesAssumption, FS_Subset, FS_CardinalityType
<1> DEFINE Bad == {n \in Nat : \E S \in SUBSET D : Cardinality(S) = n /\ s[S] # t[S]}
<1>2. CASE Bad = {}
  BY <1>1, <1>2
<1>3. CASE Bad # {}
  <2>1. PICK n \in Bad : \A k \in Bad : n <= k
    <3>1. Bad \in SUBSET Nat
      OBVIOUS
    <3> HIDE DEF Bad
    <3> QED
      BY <1>3, <3>1, Least
  <2>2. PICK S \in SUBSET D : Cardinality(S) = n /\ s[S] # t[S]
    BY <2>1
  <2>3. S # {}
    BY <2>2 DEF Term, AddsUp
  <2>4. Some(S) \in S
    BY <2>3, SomeIn
  <2>5. PICK R \in SUBSET D : R = S \ {Some(S)}
    OBVIOUS
  <2>6. Cardinality(R) = n - 1 /\ n - 1 \in Nat /\ ~(n <= n - 1)
    <3>1. Cardinality(R) = Cardinality(S) - 1
      BY <1>1, <2>4, <2>5, FS_RemoveElement
    <3> QED
      BY <1>1, <2>2, <3>1
  <2>7. s[R] = t[R]
    BY <2>1, <2>6
  <2>8. s[S] = l[Some(S)].size + s[R] /\ t[S] = m[Some(S)].size + t[R]
    BY <2>3, <2>5 DEF Term, AddsUp
  <2> QED
    BY <2>2, <2>4, <2>7, <2>8
<1> QED
  BY <1>2, <1>3

(* There is a function that adds up, and its values are numbers. *)
LEMMA SumExists ==
  ASSUME NEW D \in SUBSET Files, NEW l \in Weights
  PROVE  \E sum \in [SUBSET D -> Nat] :
            /\ AddsUp(l, sum, D)
            /\ Total(l, D) = sum[D]
<1>1. IsFiniteSet(D) /\ Cardinality(D) \in Nat
  BY FilesAssumption, FS_Subset, FS_CardinalityType
<1>2. Smaller(D, Cardinality(D)) = SUBSET D
  BY <1>1, FS_Subset DEF Smaller
<1>3. PICK sum \in [SUBSET D -> Nat] : AddsUp(l, sum, D)
  <2>1. SumsUpTo(l, D, Cardinality(D))
    BY <1>1, AllSums
  <2> QED
    BY <1>2, <2>1, Zenon DEF SumsUpTo, AddsUp
<1>4. sum = [S \in SUBSET D |-> Term(l, sum, S)]
  BY <1>3 DEF AddsUp
<1> DEFINE it == CHOOSE s : s = [S \in SUBSET D |-> Term(l, s, S)]
<1>5. it = [S \in SUBSET D |-> Term(l, it, S)]
  BY <1>4, Zenon
<1>6. AddsUp(l, it, D)
  BY <1>5, Zenon DEF AddsUp
<1>7. Total(l, D) = it[D]
  BY Zenon DEF Total
<1> HIDE DEF it
<1>8. \A S \in SUBSET D : it[S] = sum[S]
  BY <1>3, <1>6, SameSums
<1>9. D \in SUBSET D
  OBVIOUS
<1> QED
  BY <1>3, <1>7, <1>8, <1>9

(* What is added last makes no difference. *)
LEMMA SumMinus ==
  ASSUME NEW D \in SUBSET Files, NEW l \in Weights, NEW sum \in [SUBSET D -> Nat], AddsUp(l, sum, D)
  PROVE  \A S \in SUBSET D : \A f \in S : sum[S] = l[f].size + sum[S \ {f}]
<1> DEFINE Good(S) == \A f \in S : sum[S] = l[f].size + sum[S \ {f}]
           Bad == {n \in Nat : \E S \in SUBSET D : Cardinality(S) = n /\ ~Good(S)}
<1>1. \A S \in SUBSET D : IsFiniteSet(S) /\ Cardinality(S) \in Nat
  BY FilesAssumption, FS_Subset, FS_CardinalityType
<1>2. CASE Bad = {}
  BY <1>1, <1>2
<1>3. CASE Bad # {}
  <2>1. PICK n \in Bad : \A k \in Bad : n <= k
    <3>1. Bad \in SUBSET Nat
      OBVIOUS
    <3> HIDE DEF Bad
    <3> QED
      BY <1>3, <3>1, Least
  <2>2. PICK S \in SUBSET D : Cardinality(S) = n /\ ~Good(S)
    BY <2>1
  <2>3. PICK f \in S : sum[S] # l[f].size + sum[S \ {f}]
    BY <2>2
  <2>4. PICK c : c = Some(S)
    OBVIOUS
  <2>5. c \in S /\ sum[S] = l[c].size + sum[S \ {c}]
    BY <2>3, <2>4, SomeIn DEF AddsUp, Term
  <2>6. c # f
    BY <2>3, <2>5
  <2>7. ASSUME NEW x \in S, NEW y \in S, x # y
        PROVE  sum[S \ {x}] = l[y].size + sum[(S \ {x}) \ {y}]
    <3>1. PICK R \in SUBSET D : R = S \ {x}
      OBVIOUS
    <3>2. Cardinality(R) = n - 1 /\ n - 1 \in Nat /\ ~(n <= n - 1)
      <4>1. Cardinality(R) = Cardinality(S) - 1
        BY <1>1, <3>1, FS_RemoveElement
      <4> QED
        BY <1>1, <2>2, <4>1
    <3>3. Good(R)
      BY <2>1, <3>2
    <3> QED
      BY <2>7, <3>1, <3>3
  <2>8. PICK R \in SUBSET D : R = (S \ {c}) \ {f} /\ R = (S \ {f}) \ {c}
    OBVIOUS
  <2>9. sum[S \ {c}] = l[f].size + sum[R] /\ sum[S \ {f}] = l[c].size + sum[R]
    BY <2>5, <2>6, <2>7, <2>8
  <2>10. l[f].size \in Nat /\ l[c].size \in Nat /\ sum[R] \in Nat
    BY <2>5 DEF Weights, Entries
  <2>11. sum[S] = l[f].size + sum[S \ {f}]
    BY <2>5, <2>9, <2>10
  <2> QED
    BY <2>3, <2>11
<1> QED
  BY <1>2, <1>3

LEMMA TotalNat == ASSUME NEW D \in SUBSET Files, NEW l \in Weights PROVE Total(l, D) \in Nat
<1>1. D \in SUBSET D
  OBVIOUS
<1>2. PICK sum \in [SUBSET D -> Nat] : Total(l, D) = sum[D]
  BY SumExists
<1> QED
  BY <1>1, <1>2

LEMMA TotalEmpty == ASSUME NEW l \in Weights PROVE Total(l, {}) = 0
BY SumExists DEF AddsUp, Term

(* Total of a set is that of the rest and the size of one. *)
LEMMA TotalMinus ==
  ASSUME NEW D \in SUBSET Files, NEW l \in Weights, NEW f \in D
  PROVE  Total(l, D) = l[f].size + Total(l, D \ {f})
<1>1. PICK sum \in [SUBSET D -> Nat] : AddsUp(l, sum, D) /\ Total(l, D) = sum[D]
  BY SumExists
<1>2. PICK R \in SUBSET Files : R = D \ {f}
  OBVIOUS
<1>3. PICK rest \in [SUBSET R -> Nat] : AddsUp(l, rest, R) /\ Total(l, R) = rest[R]
  BY SumExists
<1>4. AddsUp(l, sum, R)
  BY <1>1, <1>2 DEF AddsUp
<1>5. \A S \in SUBSET R : sum[S] = rest[S]
  BY <1>3, <1>4, SameSums
<1>6. sum[D] = l[f].size + sum[R]
  <2>1. D \in SUBSET D
    OBVIOUS
  <2>2. \A S \in SUBSET D : \A g \in S : sum[S] = l[g].size + sum[S \ {g}]
    BY <1>1, SumMinus
  <2> QED
    BY <1>2, <2>1, <2>2
<1> QED
  BY <1>1, <1>2, <1>3, <1>5, <1>6

(* Only the sizes of the files of the set count. *)
LEMMA TotalSame ==
  ASSUME NEW D \in SUBSET Files, NEW l \in Weights, NEW m \in Weights, \A f \in D : l[f] = m[f]
  PROVE  Total(l, D) = Total(m, D)
<1>1. PICK s \in [SUBSET D -> Nat] : AddsUp(l, s, D) /\ Total(l, D) = s[D]
  BY SumExists
<1>2. PICK t \in [SUBSET D -> Nat] : AddsUp(m, t, D) /\ Total(m, D) = t[D]
  BY SumExists
<1>3. \A S \in SUBSET D : s[S] = t[S]
  BY <1>1, <1>2, SameSums
<1> QED
  BY <1>1, <1>2, <1>3
------------------------------------------------------------------------------
(* What a collection adds up. *)

Own == {f \in Files : Mine(f)}

Left == Own \ removed

SizeLeft == Size(Left)

(* What is used and not deleted is what is left of the user's files, as listed. *)
Accounted == used = deleted + SizeLeft

(* A file is listed once, and one of the user's is never passed over. *)
Looked == /\ pc = "stat" => \A f \in work : listed[f] = NoFile
          /\ pc \in {"age", "need"} => Own = removed \cup failed \cup work \cup candidates

SumInv == IInv /\ Accounted /\ Looked

LEMMA LeftTotal == SizeLeft = Total(listed, Left) /\ SizeLeft' = Total(listed', Left')
<1>1. SizeLeft = Total(listed, Left)
  BY SizeTotal DEF SizeLeft
<1>2. SizeLeft' = Total(listed', Left')
  BY DEF SizeLeft, Size, Total, Term, Some, MapThenSumSet, MapThenFoldSet
<1> QED
  BY <1>1, <1>2

LEMMA InitSumInv == Init => SumInv
<1> SUFFICES ASSUME Init PROVE SumInv
  OBVIOUS
<1>1. IInv
  BY InitIInv
<1>2. Left = {}
  BY NoFileType, UsersAssumption DEF Init, Left, Own, Mine
<1>3. listed \in Weights
  BY <1>1 DEF IInv, TypeOK, Weights
<1>4. SizeLeft = 0
  BY <1>2, <1>3, LeftTotal, TotalEmpty
<1> QED
  BY <1>1, <1>4 DEF Init, SumInv, Accounted, Looked

(* The account stays right while nothing is listed or deleted. *)
LEMMA AccountKept ==
  ASSUME UNCHANGED <<listed, removed, used, deleted>>, Accounted PROVE Accounted'
<1>1. Left' = Left
  BY DEF Left, Own, Mine
<1> QED
  BY <1>1, LeftTotal DEF Accounted

LEMMA EndSumInv == ASSUME SumInv, IInv', EndCollect PROVE SumInv'
<1>1. listed' \in Weights
  BY DEF IInv, TypeOK, Weights
<1>2. Left' = {}
  BY NoFileType, UsersAssumption DEF EndCollect, Left, Own, Mine
<1>3. SizeLeft' = 0
  BY <1>1, <1>2, LeftTotal, TotalEmpty
<1> QED
  BY <1>3 DEF EndCollect, SumInv, Accounted, Looked

(* stat lists one more file, the user's or not. *)
LEMMA ExamineSumInv == ASSUME SumInv, IInv', NEW f \in Files, Examine(f) PROVE SumInv'
<1>1. CASE EndCollect
  BY <1>1, EndSumInv
<1>2. CASE /\ listed' = [listed EXCEPT ![f] = dir[f]]
           /\ used' = IF dir[f].owner = Me THEN used + dir[f].size ELSE used
           /\ work' = work \ {f}
           /\ UNCHANGED <<pc, deleted, removed>>
  <2>1. listed \in Weights /\ listed' \in Weights /\ Left \in SUBSET Files /\ Left' \in SUBSET Files
    BY DEF SumInv, IInv, TypeOK, Weights, Left, Own
  <2>2. f \notin Left /\ removed = {} /\ listed'[f] = dir[f]
    BY <1>2, <2>1, NoFileType, UsersAssumption
       DEF Examine, SumInv, Looked, IInv, Sides, Left, Own, Mine, Weights
  <2>3. \A g \in Left : listed'[g] = listed[g]
    BY <1>2, <2>1, <2>2 DEF Weights
  <2>4. Total(listed', Left) = SizeLeft /\ SizeLeft \in Nat
    BY <2>1, <2>3, TotalSame, TotalNat, LeftTotal
  <2>5. SizeLeft' = IF dir[f].owner = Me THEN dir[f].size + SizeLeft ELSE SizeLeft
    <3>1. CASE dir[f].owner = Me
      <4>1. Left' = Left \cup {f} /\ f \in Left' /\ Left' \ {f} = Left
        BY <1>2, <2>1, <2>2, <3>1 DEF Left, Own, Mine, Weights
      <4>2. Total(listed', Left') = listed'[f].size + Total(listed', Left' \ {f})
        BY <2>1, <4>1, TotalMinus
      <4> QED
        BY <2>2, <2>4, <3>1, <4>1, <4>2, LeftTotal
    <3>2. CASE dir[f].owner # Me
      <4>1. Left' = Left
        BY <1>2, <2>1, <2>2, <3>2 DEF Left, Own, Mine, Weights
      <4> QED
        BY <2>4, <3>2, <4>1, LeftTotal
    <3> QED
      BY <3>1, <3>2
  <2>6. used \in Nat /\ deleted \in Nat /\ dir[f].size \in Nat
    BY DEF SumInv, IInv, TypeOK, Entries
  <2>7. Accounted'
    BY <1>2, <2>4, <2>5, <2>6 DEF SumInv, Accounted
  <2>8. Looked'
    BY <1>2, <2>1 DEF Examine, SumInv, Looked, Weights
  <2> QED
    BY <2>7, <2>8 DEF SumInv
<1> QED
  BY <1>1, <1>2 DEF Examine

(* unlink takes the size of one file from what is left and gives it to what is deleted. *)
LEMMA UnlinkAccount ==
  ASSUME SumInv, NEW f \in work \cup candidates, pc \in {"age", "need"}, UnlinkCopy(f),
         UNCHANGED <<listed, used>>
  PROVE  Accounted'
<1>1. CASE UNCHANGED <<deleted, removed>>
  BY <1>1, AccountKept DEF SumInv
<1>2. CASE deleted' = deleted + listed[f].size /\ removed' = removed \cup {f}
  <2>1. f \in Left /\ Left' = Left \ {f} /\ Left \in SUBSET Files
    BY <1>2 DEF SumInv, IInv, TypeOK, NotTaken, Left, Own, Mine
  <2>2. listed \in Weights /\ listed[f].size \in Nat /\ used \in Nat /\ deleted \in Nat
    BY DEF SumInv, IInv, TypeOK, Weights, Entries
  <2>3. Total(listed, Left) = listed[f].size + Total(listed, Left \ {f})
    BY <2>1, <2>2, TotalMinus
  <2>4. Total(listed, Left \ {f}) \in Nat
    BY <2>1, <2>2, TotalNat
  <2> QED
    BY <1>2, <2>1, <2>2, <2>3, <2>4, LeftTotal DEF SumInv, Accounted
<1> QED
  BY <1>1, <1>2 DEF UnlinkCopy

LEMMA TakeSumInv == ASSUME SumInv, IInv', NEW f \in Files, Age(f) \/ Need(f) PROVE SumInv'
<1>1. CASE UnlinkCopy(f)
  <2>1. f \in work \cup candidates /\ pc \in {"age", "need"} /\ UNCHANGED <<pc, listed, used>>
    BY DEF Age, Need, NextCandidate
  <2>2. Accounted'
    BY <1>1, <2>1, UnlinkAccount
  <2>3. removed' \cup failed' = removed \cup failed \cup {f}
    BY <1>1 DEF UnlinkCopy
  <2>4. (work \cup candidates) \ {f} \subseteq work' \cup candidates'
        /\ work' \cup candidates' \subseteq work \cup candidates
    BY DEF Age, Need
  <2>5. Own' = Own
    BY <2>1 DEF Own, Mine
  <2> QED
    BY <2>1, <2>2, <2>3, <2>4, <2>5 DEF SumInv, Looked
<1>2. CASE /\ Age(f) /\ candidates' = candidates \cup {f}
           /\ UNCHANGED <<deleted, failed, removed>>
  <2>1. Accounted'
    BY <1>2, AccountKept DEF Age, SumInv
  <2>2. Own' = Own
    BY <1>2 DEF Age, Own, Mine
  <2> QED
    BY <1>2, <2>1, <2>2 DEF Age, SumInv, Looked
<1> QED
  BY <1>1, <1>2 DEF Age, Need, IsLockedFile

(* The other steps of a collection, and what is not of it. *)
LEMMA RestSumInv ==
  ASSUME SumInv, IInv',
         \/ Threshold \/ AgeEnd \/ Forget \/ Around \/ UNCHANGED vars
         \/ \E f \in Files : Accessed(f)
  PROVE  SumInv'
<1>1. UNCHANGED <<listed, removed, failed, used, deleted>> /\ Own' = Own
  BY DEF Threshold, AgeEnd, Forget, Around, Tick, CopyIn, Touch, OpenAgain, Append, Read,
         OtherCreates, OtherRemoves, Accessed, StartCollect, vars, collector, locals, Own, Mine
<1>2. Accounted'
  BY <1>1, AccountKept DEF SumInv
<1>3. Looked'
  <2>1. CASE Threshold
    BY <1>1, <2>1 DEF Threshold, Collectable, SumInv, IInv, Sides, Looked, Own
  <2>2. CASE UNCHANGED <<pc, work, candidates>> \/ AgeEnd
    BY <1>1, <2>2 DEF AgeEnd, SumInv, Looked, locals
  <2>3. ASSUME NEW f \in Files, StartCollect(f), pc = "idle" PROVE Looked'
    BY <1>1, <2>3 DEF StartCollect, SumInv, IInv, Sides, NoLocals, Looked
  <2> QED
    BY <2>1, <2>2, <2>3
       DEF Forget, Around, Tick, CopyIn, Touch, OpenAgain, Append, Read, OtherCreates,
           OtherRemoves, Accessed, vars, collector, locals
<1> QED
  BY <1>2, <1>3 DEF SumInv

LEMMA NextSumInv == SumInv /\ [Next]_vars => SumInv'
<1> SUFFICES ASSUME SumInv, [Next]_vars PROVE SumInv'
  OBVIOUS
<1>1. IInv'
  BY NextIInv DEF SumInv
<1>2. CASE GiveUp \/ Save
  BY <1>1, <1>2, EndSumInv DEF GiveUp, Save
<1>3. CASE Collect /\ ~(GiveUp \/ Save)
  BY <1>1, <1>3, ExamineSumInv, TakeSumInv, RestSumInv DEF Collect
<1> QED
  BY <1>1, <1>2, <1>3, RestSumInv DEF Next, Quiet

LEMMA SumsRight == Spec => []SumInv
BY InitSumInv, NextSumInv, PTL DEF Spec

(* A collection that comes to its end leaves no more of the user's files than the limit
   allows, by the sizes it has listed, or has tried to unlink all of them: whatever the
   sizes, in any order, with unlinks that fail in between (tge_cache.cc:459-489). *)
THEOREM LimitKept == Spec => []RoomMade
<1>1. SumInv => RoomMade
  <2> SUFFICES ASSUME SumInv, pc = "need", Garbage <= deleted \/ candidates = {}
               PROVE  Size(Own \ removed) <= limit \/ Own = removed \cup failed
    BY DEF RoomMade, Own
  <2>1. CASE candidates = {}
    BY <2>1 DEF SumInv, Looked, IInv, NotTaken
  <2>2. CASE Garbage <= deleted
    <3>1. listed \in Weights /\ Left \in SUBSET Files
      BY DEF SumInv, IInv, TypeOK, Weights, Left, Own
    <3>2. SizeLeft \in Nat
      BY <3>1, LeftTotal, TotalNat
    <3>3. SizeLeft <= limit
      BY <2>2, <3>2 DEF Garbage, SumInv, Accounted, IInv, TypeOK
    <3> QED
      BY <3>3 DEF SizeLeft, Left
  <2> QED
    BY <2>1, <2>2
<1> QED
  BY <1>1, SumsRight, PTL

(* No file that is not too old goes while the rest is within the limit (tge_cache.cc:
   443-489). *)
THEOREM TakesDueOnly == Spec => DueOnly
<1>1. SumInv /\ [Next]_vars =>
        [\A f \in removed' \ removed :
            \/ listed[f].time < oldDate
            \/ limit < Size({g \in Files : Mine(g)} \ removed)]_vars
  <2> SUFFICES ASSUME SumInv, Next, NEW f \in removed' \ removed
               PROVE  listed[f].time < oldDate \/ limit < SizeLeft
    BY DEF SizeLeft, Left, Own
  <2>1. \E g \in Files : Age(g) \/ Need(g)
    BY DEF Next, Quiet, Collect, GiveUp, Save, EndCollect, Threshold, AgeEnd, Forget, Examine,
           Around, Tick, CopyIn, Touch, OpenAgain, Append, Read, OtherCreates, OtherRemoves,
           Accessed, StartCollect, vars, collector, locals
  <2>2. ASSUME NEW g \in Files, Age(g) PROVE listed[f].time < oldDate
    BY <2>2 DEF Age, UnlinkCopy
  <2>3. ASSUME NEW g \in Files, Need(g) PROVE limit < SizeLeft
    <3>1. listed \in Weights /\ Left \in SUBSET Files
      BY DEF SumInv, IInv, TypeOK, Weights, Left, Own
    <3>2. SizeLeft \in Nat
      BY <3>1, LeftTotal, TotalNat
    <3> QED
      BY <2>3, <3>2 DEF Need, Garbage, SumInv, Accounted, IInv, TypeOK
  <2> QED
    BY <2>1, <2>2, <2>3
<1> QED
  BY <1>1, SumsRight, PTL DEF Spec, DueOnly
==============================================================================
