---------------------------- MODULE CacheIndexProofs ----------------------------
(***************************************************************************)
(* What CacheIndex guarantees for any number of threads, names and paths,  *)
(* any digest, and crashes between any two steps: the types; that no cut   *)
(* or lost line ever gives a copy to a path with another digest; that the  *)
(* text under /proc is current or known not to be; that no crash loses an  *)
(* entry while the disk takes what is written; and that the files          *)
(* implement DurableMap.                                                   *)
(***************************************************************************)
EXTENDS CacheIndex, FiniteSetTheorems, SequenceTheorems, WellFoundedInduction, TLAPS

Values == Paths \cup {None, Garbled}

(* p may be found under n: its digest is n, or it is what is read back for such a path. *)
Own(n, p) == \E q \in Paths : NameOf[q] = n /\ p \in {q, ReadBack[q]}

Sound(f) == \A i \in 1..Len(f) : f[i].path \in Paths => Own(f[i].name, f[i].path)

Whole(f) == \A i \in 1..Len(f) : f[i].cut = "no"

(* Line i of f is the last one of n. *)
LastLine(f, n, i) == /\ i \in 1..Len(f) /\ f[i].name = n
                     /\ \A j \in 1..Len(f) : f[j].name = n => j <= i

------------------------------------------------------------------------------
(* Sets of numbers, and sets as sequences. *)

LEMMA Greatest ==
  ASSUME NEW n \in Nat, NEW S \in SUBSET (1..n), S # {}
  PROVE  \E m \in S : \A k \in S : k <= m
<1> DEFINE T == {n - k : k \in S}
           R == {ss \in Nat \X Nat : ss[1] < ss[2]}
<1>1. T \subseteq Nat /\ T # {}
  <2>1. \A k \in S : k \in 1..n
    OBVIOUS
  <2>2. \A k \in S : n - k \in Nat
    BY <2>1
  <2>3. QED
    BY <2>2
<1>2. PICK x \in T : \A y \in T : ~(<<y, x>> \in R)
  <2>1. IsWellFoundedOn(R, Nat)
    BY NatLessThanWellFounded DEF OpToRel
  <2> HIDE DEF R, T
  <2>2. QED
    BY <1>1, <2>1, WFMin
<1>3. \A y \in T : ~(y < x)
  BY <1>1, <1>2
<1>4. PICK m \in S : x = n - m
  BY <1>2
<1>5. QED
  <2>1. \A k \in S : ~(n - k < n - m)
    BY <1>3, <1>4
  <2>2. QED
    BY <1>4, <2>1

LEMMA Enumerated ==
  ASSUME NEW S, IsFiniteSet(S)
  PROVE  /\ SetToSeq(S) \in [1..Cardinality(S) -> S] /\ Cardinality(S) \in Nat
         /\ \A i, j \in 1..Cardinality(S) : SetToSeq(S)[i] = SetToSeq(S)[j] => i = j
         /\ \A x \in S : \E i \in 1..Cardinality(S) : SetToSeq(S)[i] = x
<1>1. Cardinality(S) \in Nat /\ ExistsBijection(1..Cardinality(S), S)
  BY FS_CardinalityType
<1>2. PICK b : b \in Bijection(1..Cardinality(S), S)
  BY <1>1 DEF ExistsBijection
<1>3. b \in [1..Cardinality(S) -> S] /\ IsInjective(b)
  BY <1>2 DEF Bijection, Injection, IsInjective
<1>4. SetToSeq(S) \in [1..Cardinality(S) -> S] /\ IsInjective(SetToSeq(S))
  BY <1>3 DEF SetToSeq
<1>5. SetToSeq(S) \in Injection(1..Cardinality(S), S)
  BY <1>4 DEF Injection, IsInjective
<1>6. SetToSeq(S) \in Surjection(1..Cardinality(S), S)
  <2>1. IsFiniteSet(1..Cardinality(S)) /\ Cardinality(1..Cardinality(S)) = Cardinality(S)
    BY <1>1, FS_Interval
  <2>2. QED
    BY <1>5, <2>1, FS_Injection
<1>7. QED
  BY <1>1, <1>4, <1>6 DEF Surjection, IsInjective

------------------------------------------------------------------------------
(* The file as it is read back. *)

LEMMA RestoredValue == /\ \A v \in Values : Restored(v) \in Values /\ Restored(Restored(v)) = Restored(v)
                       /\ Restored(None) = None /\ Restored(Garbled) = Garbled
                       /\ \A v \in Values : Restored(v) = None <=> v = None
BY CacheIndexAssumption DEF Restored, Values

LEMMA FileValue == ASSUME NEW f \in Seq(Entry)
                   PROVE  /\ Len(f) \in Nat /\ DOMAIN f = 1..Len(f)
                          /\ \A i \in 1..Len(f) : /\ f[i] \in Entry /\ f[i].name \in Names
                                                  /\ f[i].path \in Values
<1>1. Len(f) \in Nat /\ DOMAIN f = 1..Len(f)
  BY LenProperties
<1>2. \A i \in 1..Len(f) : f[i] \in Entry
  BY ElementOfSeq
<1>3. \A e \in Entry : e.name \in Names /\ e.path \in Values
  BY DEF Entry, Values
<1>4. QED
  BY <1>1, <1>2, <1>3

(* A name of which there is a line has a last one. *)
LEMMA LastOf ==
  ASSUME NEW f \in Seq(Entry), NEW n, NEW P \in SUBSET (1..Len(f)), P # {}
  PROVE  LET i == CHOOSE i \in P : \A j \in P : j <= i
         IN  i \in P /\ \A j \in P : j <= i
<1>1. \E m \in P : \A k \in P : k <= m
  BY FileValue, Greatest
<1>2. QED
  BY <1>1

LEMMA ReplayType ==
  ASSUME NEW f \in Seq(Entry)
  PROVE  /\ Replay(f) \in [Names -> Values]
         /\ \A n \in Names : Restored(Replay(f)[n]) = Replay(f)[n]
<1> SUFFICES ASSUME NEW n \in Names PROVE Replay(f)[n] \in Values /\ Restored(Replay(f)[n]) = Replay(f)[n]
  BY DEF Replay
<1> DEFINE said == {i \in DOMAIN f : Says(f, i, n)}
           last == CHOOSE i \in said : \A j \in said : j <= i
<1>1. CASE said = {}
  <2>1. Replay(f)[n] = None
    BY <1>1 DEF Replay
  <2>2. QED
    BY <2>1, RestoredValue DEF Values
<1>2. CASE said # {}
  <2>1. said \in SUBSET (1..Len(f))
    BY FileValue
  <2>2. last \in said
    <3> HIDE DEF said
    <3>1. QED
      BY <1>2, <2>1, LastOf
  <2>3. f[last].path \in Values
    BY <2>1, <2>2, FileValue
  <2>4. Replay(f)[n] = ReadLine(f, last)
    BY <1>2 DEF Replay
  <2> HIDE DEF last
  <2>5. ReadLine(f, last) \in {Restored(f[last].path), Garbled}
    BY DEF ReadLine
  <2>6. QED
    BY <2>3, <2>4, <2>5, RestoredValue DEF Values
<1>3. QED
  BY <1>1, <1>2

(* What is read of a name is its own. *)
LEMMA ReplaySound ==
  ASSUME NEW f \in Seq(Entry), Sound(f), NEW n \in Names, Replay(f)[n] \in Paths
  PROVE  Own(n, Replay(f)[n])
<1> DEFINE said == {i \in DOMAIN f : Says(f, i, n)}
           last == CHOOSE i \in said : \A j \in said : j <= i
<1>1. said # {}
  BY CacheIndexAssumption DEF Replay
<1>2. said \in SUBSET (1..Len(f))
  BY FileValue
<1>3. last \in said
  <2> HIDE DEF said
  <2>1. QED
    BY <1>1, <1>2, LastOf
<1>4. Replay(f)[n] = ReadLine(f, last)
  BY <1>1 DEF Replay
<1>5. last \in 1..Len(f) /\ f[last].name = n /\ f[last].path \in Values
  BY <1>2, <1>3, FileValue DEF Says
<1> HIDE DEF last
<1>6. ReadLine(f, last) = Restored(f[last].path) /\ f[last].path \in Paths
  BY <1>4, <1>5, CacheIndexAssumption DEF ReadLine, Restored, Values
<1>7. PICK q \in Paths : NameOf[q] = n /\ f[last].path \in {q, ReadBack[q]}
  BY <1>5, <1>6 DEF Sound, Own
<1>8. Restored(f[last].path) = ReadBack[q]
  BY <1>6, <1>7, CacheIndexAssumption DEF Restored
<1>9. QED
  BY <1>4, <1>6, <1>7, <1>8 DEF Own

(* Without cut lines the last line of a name counts. *)
LEMMA ReplayLast ==
  ASSUME NEW f \in Seq(Entry), Whole(f), NEW n \in Names
  PROVE  /\ \A i : LastLine(f, n, i) => Replay(f)[n] = Restored(f[i].path)
         /\ (\A i \in 1..Len(f) : f[i].name # n) => Replay(f)[n] = None
<1> DEFINE said == {i \in DOMAIN f : Says(f, i, n)}
           last == CHOOSE i \in said : \A j \in said : j <= i
<1>1. said = {i \in 1..Len(f) : f[i].name = n}
  <2>1. \A i \in 1..Len(f) : i > 1 => i - 1 \in 1..Len(f)
    BY FileValue
  <2>2. \A i \in 1..Len(f) : Says(f, i, n) <=> f[i].name = n
    BY <2>1 DEF Says, Swallowed, Whole
  <2>3. QED
    BY <2>2, FileValue
<1>2. Replay(f)[n] = IF said = {} THEN None ELSE ReadLine(f, last)
  BY DEF Replay
<1> HIDE DEF said
<1>3. ASSUME NEW i, LastLine(f, n, i) PROVE Replay(f)[n] = Restored(f[i].path)
  <2>1. i \in said /\ said \in SUBSET (1..Len(f)) /\ \A j \in said : j <= i
    BY <1>1, <1>3 DEF LastLine
  <2>2. last \in said /\ \A j \in said : j <= last
    BY <2>1
  <2> HIDE DEF last
  <2>3. last = i
    <3>1. i \in Nat /\ last \in Nat /\ i <= last /\ last <= i
      BY <2>1, <2>2, FileValue
    <3>2. QED
      BY <3>1
  <2>4. f[i].cut = "no"
    BY <2>1 DEF Whole
  <2>5. QED
    BY <1>2, <2>1, <2>3, <2>4 DEF ReadLine
<1>4. QED
  BY <1>1, <1>2, <1>3

LEMMA ReplayEmpty == Replay(<<>>) = Empty
BY DEF Replay, Empty

(* An uncut line at the end changes the entry of its name. *)
LEMMA ReplayAppend ==
  ASSUME NEW f \in Seq(Entry), Whole(f), NEW l \in Entry, l.cut = "no"
  PROVE  Replay(Append(f, l)) = [Replay(f) EXCEPT ![l.name] = Restored(l.path)]
<1> DEFINE g == Append(f, l)
<1>1. /\ g \in Seq(Entry) /\ Len(g) = Len(f) + 1 /\ g[Len(f) + 1] = l
      /\ \A i \in 1..Len(f) : g[i] = f[i]
  BY AppendProperties
<1>2. l.name \in Names /\ Len(f) \in Nat
  BY FileValue DEF Entry
<1> HIDE DEF g
<1>3. Whole(g)
  BY <1>1, <1>2 DEF Whole
<1>4. Replay(g)[l.name] = Restored(l.path)
  <2>1. LastLine(g, l.name, Len(f) + 1)
    BY <1>1, <1>2 DEF LastLine
  <2>2. QED
    BY <1>1, <1>2, <1>3, <2>1, ReplayLast
<1>5. ASSUME NEW n \in Names, n # l.name PROVE Replay(g)[n] = Replay(f)[n]
  <2> DEFINE P == {i \in 1..Len(f) : f[i].name = n}
             last == CHOOSE i \in P : \A j \in P : j <= i
  <2>1. CASE P = {}
    <3>1. (\A i \in 1..Len(f) : f[i].name # n) /\ \A i \in 1..Len(g) : g[i].name # n
      BY <1>1, <1>2, <1>5, <2>1
    <3>2. QED
      BY <1>1, <1>3, <3>1, ReplayLast
  <2>2. CASE P # {}
    <3>1. last \in P /\ \A j \in P : j <= last
      <4>1. P \in SUBSET (1..Len(f))
        OBVIOUS
      <4> HIDE DEF P
      <4>2. QED
        BY <2>2, <4>1, LastOf
    <3>2. LastLine(f, n, last)
      BY <3>1 DEF LastLine
    <3>3. LastLine(g, n, last)
      <4>1. last \in 1..Len(f)
        BY <3>1
      <4> HIDE DEF last
      <4>2. QED
        BY <1>1, <1>2, <1>5, <3>2, <4>1 DEF LastLine
    <3>4. g[last] = f[last]
      BY <1>1, <3>1
    <3> HIDE DEF last
    <3>5. QED
      BY <1>1, <1>3, <3>2, <3>3, <3>4, ReplayLast
  <2>3. QED
    BY <2>1, <2>2
<1>6. Replay(g) \in [Names -> Values] /\ Replay(f) \in [Names -> Values]
  BY <1>1, ReplayType
<1>7. QED
  BY <1>2, <1>4, <1>5, <1>6 DEF g

(* The lines of a map, all or the first of them. *)
LEMMA WrittenLines ==
  ASSUME NEW idx \in [Names -> Values]
  PROVE  /\ Written(idx) \in Seq(Entry) /\ Len(Written(idx)) = Cardinality(Entered(idx))
         /\ Cardinality(Entered(idx)) \in Nat
         /\ \A i \in 1..Len(Written(idx)) :
              /\ Written(idx)[i].name \in Entered(idx) /\ Written(idx)[i].cut = "no"
              /\ Written(idx)[i].path = idx[Written(idx)[i].name]
         /\ \A i, j \in 1..Len(Written(idx)) : Written(idx)[i].name = Written(idx)[j].name => i = j
         /\ \A n \in Entered(idx) : \E i \in 1..Len(Written(idx)) : Written(idx)[i].name = n
<1> DEFINE E == Entered(idx)
           S == {Line(n, idx[n], "no") : n \in E}
           w == SetToSeq(S)
<1>1. IsFiniteSet(E)
  BY CacheIndexAssumption, FS_Subset DEF Entered
<1>2. IsFiniteSet(S) /\ Cardinality(S) = Cardinality(E)
  <2> DEFINE b == [n \in E |-> Line(n, idx[n], "no")]
  <2>1. b \in Bijection(E, S)
    BY DEF Bijection, Injection, Surjection, IsInjective, Line
  <2>2. QED
    BY <1>1, <2>1, FS_Bijection DEF ExistsBijection
<1>3. S \subseteq Entry
  BY DEF Line, Entry, Entered, Values
<1>4. /\ w \in [1..Cardinality(S) -> S] /\ Cardinality(S) \in Nat
      /\ \A i, j \in 1..Cardinality(S) : w[i] = w[j] => i = j
      /\ \A x \in S : \E i \in 1..Cardinality(S) : w[i] = x
  BY <1>2, Enumerated
<1>5. \A x \in S : x.name \in E /\ x.cut = "no" /\ x.path = idx[x.name]
  BY DEF Line
<1>6. \A x, y \in S : x.name = y.name => x = y
  BY DEF Line
<1>7. \A n \in E : \E x \in S : x.name = n
  <2> SUFFICES ASSUME NEW n \in E PROVE \E x \in S : x.name = n
    OBVIOUS
  <2>1. Line(n, idx[n], "no") \in S /\ Line(n, idx[n], "no").name = n
    BY DEF Line
  <2>2. QED
    BY <2>1
<1>8. w \in Seq(Entry) /\ Len(w) = Cardinality(S)
  <2> HIDE DEF w, S
  <2>1. w \in [1..Cardinality(S) -> Entry]
    BY <1>3, <1>4
  <2>2. QED
    BY <1>4, <2>1, SeqDef
<1>9. Written(idx) = w
  BY DEF Written
<1> HIDE DEF w, S
<1>10. QED
  BY <1>2, <1>4, <1>5, <1>6, <1>7, <1>8, <1>9

LEMMA ReplayWritten ==
  ASSUME NEW idx \in [Names -> Values]
  PROVE  /\ Whole(Written(idx))
         /\ Replay(Written(idx)) = [n \in Names |-> Restored(idx[n])]
<1> DEFINE w == Written(idx)
<1>1. /\ w \in Seq(Entry)
      /\ \A i \in 1..Len(w) : w[i].name \in Entered(idx) /\ w[i].cut = "no" /\ w[i].path = idx[w[i].name]
      /\ \A i, j \in 1..Len(w) : w[i].name = w[j].name => i = j
      /\ \A n \in Entered(idx) : \E i \in 1..Len(w) : w[i].name = n
  BY WrittenLines
<1> HIDE DEF w
<1>2. Whole(w)
  BY <1>1 DEF Whole
<1>3. ASSUME NEW n \in Names PROVE Replay(w)[n] = Restored(idx[n])
  <2>1. CASE n \in Entered(idx)
    <3>1. PICK i \in 1..Len(w) : w[i].name = n
      BY <1>1, <2>1
    <3>2. LastLine(w, n, i)
      <4>1. i \in Nat
        BY <1>1, FileValue
      <4>2. QED
        BY <1>1, <3>1, <4>1 DEF LastLine
    <3>3. w[i].path = idx[n]
      BY <1>1, <3>1
    <3>4. QED
      BY <1>1, <1>2, <3>2, <3>3, ReplayLast
  <2>2. CASE n \notin Entered(idx)
    <3>1. \A i \in 1..Len(w) : w[i].name # n
      BY <1>1, <2>2
    <3>2. Replay(w)[n] = None
      BY <1>1, <1>2, <3>1, ReplayLast
    <3>3. idx[n] = None
      BY <2>2 DEF Entered
    <3>4. QED
      BY <3>2, <3>3, RestoredValue
  <2>3. QED
    BY <2>1, <2>2
<1>4. Replay(w) \in [Names -> Values]
  BY <1>1, ReplayType
<1>5. QED
  BY <1>2, <1>3, <1>4 DEF w

(* The first lines of a file. *)
LEMMA Prefix ==
  ASSUME NEW f \in Seq(Entry), NEW k \in 0..Len(f)
  PROVE  /\ SubSeq(f, 1, k) \in Seq(Entry)
         /\ Whole(f) => Whole(SubSeq(f, 1, k))
         /\ Sound(f) => Sound(SubSeq(f, 1, k))
<1> DEFINE g == SubSeq(f, 1, k)
<1>1. k \in Int /\ Len(f) \in Nat /\ \A i \in 1..k : f[i] \in Entry
  BY FileValue
<1>2. g \in Seq(Entry) /\ Len(g) = (IF 1 <= k THEN k - 1 + 1 ELSE 0) /\ \A i \in 1..k - 1 + 1 : g[i] = f[1 + i - 1]
  BY <1>1, SubSeqProperties
<1> HIDE DEF g
<1>3. Len(g) = k /\ \A i \in 1..Len(g) : i \in 1..Len(f) /\ g[i] = f[i]
  <2>1. Len(g) = k
    BY <1>1, <1>2
  <2>2. ASSUME NEW i \in 1..k PROVE i \in 1..Len(f) /\ g[i] = f[i]
    <3>1. i \in 1..k - 1 + 1 /\ 1 + i - 1 = i /\ i \in 1..Len(f)
      BY <1>1
    <3>2. QED
      BY <1>2, <3>1
  <2>3. QED
    BY <2>1, <2>2
<1>4. QED
  BY <1>2, <1>3 DEF Whole, Sound, g

(* One more line. *)
LEMMA OneMoreLine ==
  ASSUME NEW f \in Seq(Entry), NEW l \in Entry
  PROVE  /\ Append(f, l) \in Seq(Entry)
         /\ Whole(f) /\ l.cut = "no" => Whole(Append(f, l))
         /\ Sound(f) /\ (l.path \in Paths => Own(l.name, l.path)) => Sound(Append(f, l))
<1> DEFINE g == Append(f, l)
<1>1. /\ g \in Seq(Entry) /\ Len(g) = Len(f) + 1 /\ g[Len(f) + 1] = l
      /\ \A i \in 1..Len(f) : g[i] = f[i]
  BY AppendProperties
<1>2. Len(f) \in Nat
  BY FileValue
<1> HIDE DEF g
<1>3. \A i \in 1..Len(g) : (i \in 1..Len(f) /\ g[i] = f[i]) \/ g[i] = l
  BY <1>1, <1>2
<1>4. Whole(f) /\ l.cut = "no" => Whole(g)
  BY <1>3 DEF Whole
<1>5. Sound(f) /\ (l.path \in Paths => Own(l.name, l.path)) => Sound(g)
  BY <1>3 DEF Sound
<1>6. QED
  BY <1>1, <1>4, <1>5 DEF g

------------------------------------------------------------------------------
(* The invariant. *)

Temporary == IF swp = None THEN <<>> ELSE swp

(* No handler runs and nothing is collected before the daemon is up. *)
Down == ~up => gc \in {"none", "save", "write", "rename"} /\ \A t \in Threads : pc[t] = "idle"

(* An open has its path, and once it has made the entry nobody changes it before the line. *)
Opens == \A t \in Threads : /\ pc[t] \in {"copied", "enter", "line"} => path[t] \in Paths
                            /\ pc[t] = "line" => index[NameOf[path[t]]] = path[t]

(* On a disk that takes what is written no line is cut, and a temporary file that is ready
   has the map. *)
Uncut == ~setting.full => /\ Whole(Lines) /\ Whole(Temporary)
                          /\ gc = "rename" => Replay(Temporary) = [n \in Names |-> Restored(index[n])]

(* Every line, cut or not, was written for a name and a path that is its own. *)
Owned == NamesOwn /\ Sound(Lines) /\ Sound(Temporary)

IndexKept == IndexFile \in batch => setting.takesIndex

IInv == TypeOK /\ Down /\ Opens /\ Uncut /\ Owned /\ IndexKept /\ EntriesOnDisk /\ SolidFresh

LEMMA Constants ==
  /\ IndexFile \notin Names /\ Collector \notin Threads /\ NameOf \in [Paths -> Names]
  /\ None \notin Paths /\ None \notin Threads /\ None \notin Names
  /\ None # IndexFile /\ None # Collector /\ None \notin Seq(Entry)
  /\ Garbled \notin Paths /\ Garbled # None
BY CacheIndexAssumption

LEMMA Size == ASSUME NEW idx PROVE Cardinality(Entered(idx)) \in Nat
<1>1. IsFiniteSet(Entered(idx))
  BY CacheIndexAssumption, FS_Subset DEF Entered
<1>2. QED
  BY <1>1, FS_CardinalityType

LEMMA LinesType == TypeOK => Lines \in Seq(Entry) /\ Temporary \in Seq(Entry)
BY DEF TypeOK, Lines, Temporary

LEMMA SetFields == TypeOK => /\ setting.full \in BOOLEAN /\ setting.takesIndex \in BOOLEAN
                             /\ setting.crashes \in Nat
BY CacheIndexAssumption DEF TypeOK, Setting

LEMMA InitIInv == Init => IInv
<1> SUFFICES ASSUME Init PROVE IInv
  OBVIOUS
<1> USE DEF Init
<1>1. TypeOK
  <2>1. setting.crashes \in Nat
    BY CacheIndexAssumption DEF Setting
  <2>2. /\ \A t \in Threads : mutex = t <=> pc[t] \in {"line", "rebuild"}
        /\ mutex = Collector <=> gc \in {"write", "rename"}
    BY Constants
  <2>3. index \in [Names -> Paths \cup {None, Garbled}] /\ solid = index /\ size \in [Threads -> Nat]
    BY DEF Empty
  <2>4. crashes \in 0..setting.crashes
    BY <2>1
  <2>5. QED
    BY <2>2, <2>3, <2>4 DEF TypeOK
<1>2. Lines = <<>> /\ Temporary = <<>>
  BY DEF Lines, Temporary
<1>3. Whole(Lines) /\ Whole(Temporary) /\ Sound(Lines) /\ Sound(Temporary)
  BY <1>2 DEF Whole, Sound
<1>4. NamesOwn /\ EntriesOnDisk /\ SolidFresh
  BY Constants DEF NamesOwn, EntriesOnDisk, SolidFresh, Entered, Empty
<1>5. QED
  BY <1>1, <1>3, <1>4 DEF IInv, Down, Opens, Uncut, Owned, IndexKept

------------------------------------------------------------------------------
(* Types. *)

(* The thread t goes from where it has no mutex, or gives it back, to l. *)
LEMMA MutexMoves ==
  ASSUME TypeOK, NEW t \in Threads, NEW l, pc' = [pc EXCEPT ![t] = l], gc' = gc,
         \/ mutex' = t /\ mutex = None /\ l \in {"line", "rebuild"}
         \/ mutex' = None /\ mutex = t /\ l \notin {"line", "rebuild"}
         \/ mutex' = mutex /\ mutex # t /\ l \notin {"line", "rebuild"}
  PROVE  /\ \A s \in Threads : mutex' = s <=> pc'[s] \in {"line", "rebuild"}
         /\ mutex' = Collector <=> gc' \in {"write", "rename"}
         /\ mutex' \in Threads \cup {None, Collector}
BY Constants DEF TypeOK

LEMMA NextTypeOK == TypeOK /\ Opens /\ [Next]_vars => TypeOK'
<1> SUFFICES ASSUME TypeOK, Opens, [Next]_vars PROVE TypeOK'
  OBVIOUS
<1> USE Constants DEF disk, readers, collection, daemon
<1>a. /\ Lines \in Seq(Entry) /\ setting.crashes \in Nat /\ NameOf \in [Paths -> Names]
      /\ \A idx : Cardinality(Entered(idx)) \in Nat
  BY LinesType, SetFields, Size, Constants
<1>1. ASSUME NEW t \in Threads, NEW p \in Paths, Open(t, p) PROVE TypeOK'
  <2>1. mutex # t /\ pc' = [pc EXCEPT ![t] = "copied"] /\ gc' = gc /\ mutex' = mutex
    BY <1>1 DEF Open, Goto
  <2>2. /\ \A s \in Threads : mutex' = s <=> pc'[s] \in {"line", "rebuild"}
        /\ mutex' = Collector <=> gc' \in {"write", "rename"}
    BY <2>1, MutexMoves
  <2>3. QED
    BY <1>a, <1>1, <2>2 DEF TypeOK, Open, Goto
<1>2. ASSUME NEW t \in Threads, OpenCopy(t) PROVE TypeOK'
  <2>1. \E l \in {"enter", "idle"} : mutex # t /\ pc' = [pc EXCEPT ![t] = l] /\ gc' = gc /\ mutex' = mutex
    BY <1>2 DEF OpenCopy, Goto, Return, TypeOK
  <2>2. /\ \A s \in Threads : mutex' = s <=> pc'[s] \in {"line", "rebuild"}
        /\ mutex' = Collector <=> gc' \in {"write", "rename"}
    BY <2>1, MutexMoves
  <2>3. QED
    BY <1>a, <1>2, <2>2 DEF TypeOK, OpenCopy, Goto, Return
<1>3. ASSUME NEW t \in Threads, Enter(t) PROVE TypeOK'
  <2>1. mutex' = t /\ mutex = None /\ pc' = [pc EXCEPT ![t] = "line"] /\ gc' = gc
    BY <1>3 DEF Enter, Goto
  <2>2. /\ \A s \in Threads : mutex' = s <=> pc'[s] \in {"line", "rebuild"}
        /\ mutex' = Collector <=> gc' \in {"write", "rename"}
    BY <2>1, MutexMoves
  <2>3. path[t] \in Paths
    BY <1>3 DEF Enter, Opens
  <2>4. index' \in [Names -> Paths \cup {None, Garbled}]
    BY <1>a, <1>3, <2>3 DEF Enter, TypeOK
  <2>5. QED
    BY <1>a, <1>3, <2>2, <2>4 DEF TypeOK, Enter, Goto
<1>4. ASSUME NEW t \in Threads, AppendLine(t) PROVE TypeOK'
  <2>1. mutex' = None /\ mutex = t /\ pc' = [pc EXCEPT ![t] = "idle"] /\ gc' = gc
    BY <1>4 DEF AppendLine, Return, Goto, TypeOK
  <2>2. /\ \A s \in Threads : mutex' = s <=> pc'[s] \in {"line", "rebuild"}
        /\ mutex' = Collector <=> gc' \in {"write", "rename"}
    BY <2>1, MutexMoves
  <2>3. file' \in Seq(Entry)
    <3>1. PICK cut \in {"no", "path", "name"} : file' = Lines \o <<Line(NameOf[path[t]], path[t], cut)>>
      BY <1>4 DEF AppendLine
    <3>2. Line(NameOf[path[t]], path[t], cut) \in Entry
      BY <1>a, <1>4 DEF AppendLine, Opens, Line, Entry
    <3>3. QED
      BY <1>a, <3>1, <3>2, AppendIsConcat, AppendProperties
  <2>4. QED
    BY <1>a, <1>4, <2>2, <2>3 DEF TypeOK, AppendLine, Goto, Return
<1>5. ASSUME NEW t \in Threads, AppendFails(t) PROVE TypeOK'
  <2>1. mutex' = None /\ mutex = t /\ pc' = [pc EXCEPT ![t] = "idle"] /\ gc' = gc
    BY <1>5 DEF AppendFails, Return, Goto, TypeOK
  <2>2. /\ \A s \in Threads : mutex' = s <=> pc'[s] \in {"line", "rebuild"}
        /\ mutex' = Collector <=> gc' \in {"write", "rename"}
    BY <2>1, MutexMoves
  <2>3. QED
    BY <1>a, <1>5, <2>2 DEF TypeOK, AppendFails, Goto, Return
<1>6. ASSUME NEW t \in Threads, Rebuild(t) PROVE TypeOK'
  <2>1. mutex' = t /\ mutex = None /\ pc' = [pc EXCEPT ![t] = "rebuild"] /\ gc' = gc
    BY <1>6 DEF Rebuild, Goto
  <2>2. /\ \A s \in Threads : mutex' = s <=> pc'[s] \in {"line", "rebuild"}
        /\ mutex' = Collector <=> gc' \in {"write", "rename"}
    BY <2>1, MutexMoves
  <2>3. QED
    BY <1>a, <1>6, <2>2 DEF TypeOK, Rebuild, Goto
<1>7. ASSUME NEW t \in Threads, Assign(t) PROVE TypeOK'
  <2>1. mutex' = None /\ mutex = t /\ pc' = [pc EXCEPT ![t] = "idle"] /\ gc' = gc
    BY <1>7 DEF Assign, Goto, TypeOK
  <2>2. /\ \A s \in Threads : mutex' = s <=> pc'[s] \in {"line", "rebuild"}
        /\ mutex' = Collector <=> gc' \in {"write", "rename"}
    BY <2>1, MutexMoves
  <2>3. QED
    BY <1>a, <1>7, <2>2 DEF TypeOK, Assign, Goto
<1>8. ASSUME NEW t \in Threads, GetSolidTextSize(t) PROVE TypeOK'
  <2>1. mutex' = mutex /\ mutex # t /\ pc' = [pc EXCEPT ![t] = "reader"] /\ gc' = gc
    BY <1>8 DEF GetSolidTextSize, Idle, Goto, TypeOK
  <2>2. /\ \A s \in Threads : mutex' = s <=> pc'[s] \in {"line", "rebuild"}
        /\ mutex' = Collector <=> gc' \in {"write", "rename"}
    BY <2>1, MutexMoves
  <2>3. size' \in [Threads -> Nat]
    BY <1>a, <1>8 DEF TypeOK, GetSolidTextSize
  <2>4. QED
    BY <1>a, <1>8, <2>2, <2>3 DEF TypeOK, GetSolidTextSize, Goto
<1>9. ASSUME NEW t \in Threads, GetSolidText(t) PROVE TypeOK'
  <2>1. mutex' = mutex /\ mutex # t /\ pc' = [pc EXCEPT ![t] = "idle"] /\ gc' = gc
    BY <1>9 DEF GetSolidText, Goto, TypeOK
  <2>2. /\ \A s \in Threads : mutex' = s <=> pc'[s] \in {"line", "rebuild"}
        /\ mutex' = Collector <=> gc' \in {"write", "rename"}
    BY <2>1, MutexMoves
  <2>3. QED
    BY <1>a, <1>9, <2>2 DEF TypeOK, GetSolidText, Goto
<1>10. ASSUME Collect PROVE TypeOK'
  <2>1. batch' \in SUBSET Files
    BY <1>10 DEF Collect, Files, TypeOK
  <2>2. QED
    BY <1>a, <1>10, <2>1 DEF TypeOK, Collect
<1>11. ASSUME NEW x \in Files, Unlink(x) PROVE TypeOK'
  <2>1. file' \in Seq(Entry) \cup {None} /\ swp' \in Seq(Entry) \cup {None} /\ copies' \in SUBSET Names
    BY <1>11 DEF Unlink, TypeOK
  <2>2. QED
    BY <1>a, <1>11, <2>1 DEF TypeOK, Unlink
<1>12. ASSUME Forget PROVE TypeOK'
  <2>1. index' \in [Names -> Paths \cup {None, Garbled}] /\ isDirty' \in BOOLEAN
    BY <1>12 DEF Forget, TypeOK
  <2>2. QED
    BY <1>a, <1>12, <2>1 DEF TypeOK, Forget
<1>13. ASSUME EndUnlink PROVE TypeOK'
  BY <1>a, <1>13 DEF TypeOK, EndUnlink
<1>14. ASSUME Save PROVE TypeOK'
  <2>1. <<>> \in Seq(Entry)
    OBVIOUS
  <2>2. QED
    BY <1>a, <1>14, <2>1 DEF TypeOK, Save
<1>15. ASSUME WriteSwp PROVE TypeOK'
  <2>1. index \in [Names -> Values]
    BY DEF TypeOK, Values
  <2>2. Written(index) \in Seq(Entry) /\ Len(Written(index)) = Cardinality(Entered(index))
    BY <2>1, WrittenLines
  <2>3. swp' \in Seq(Entry)
    <3>1. PICK k \in 0..Len(Written(index)) : swp' = SubSeq(Written(index), 1, k)
      BY <1>a, <1>15, <2>2 DEF WriteSwp
    <3>2. QED
      BY <2>2, <3>1, Prefix
  <2>4. QED
    BY <1>a, <1>15, <2>3 DEF TypeOK, WriteSwp
<1>16. ASSUME Rename \/ SaveFails PROVE TypeOK'
  <2>1. gc \in {"write", "rename"} /\ Saved /\ file' \in Seq(Entry) \cup {None} /\ swp' \in Seq(Entry) \cup {None}
    BY <1>16 DEF Rename, SaveFails, TypeOK
  <2>2. isDirty' \in BOOLEAN
    BY <2>1 DEF Saved, TypeOK
  <2>3. QED
    BY <1>a, <2>1, <2>2 DEF TypeOK, Saved
<1>17. ASSUME Crash PROVE TypeOK'
  <2>1. crashes' \in 0..setting'.crashes
    BY <1>a, <1>17 DEF Crash, TypeOK
  <2>2. index' \in [Names -> Paths \cup {None, Garbled}] /\ solid' \in [Names -> Paths \cup {None, Garbled}]
    BY <1>17 DEF Crash, Empty
  <2>3. /\ \A t \in Threads : mutex' = t <=> pc'[t] \in {"line", "rebuild"}
        /\ mutex' = Collector <=> gc' \in {"write", "rename"}
    BY <1>17 DEF Crash
  <2>4. QED
    BY <1>a, <1>17, <2>1, <2>2, <2>3 DEF TypeOK, Crash
<1>18. ASSUME InitLocalFileCollection PROVE TypeOK'
  <2>1. index' \in [Names -> Paths \cup {None, Garbled}]
    BY <1>a, <1>18, ReplayType DEF InitLocalFileCollection, Values
  <2>2. QED
    BY <1>a, <1>18, <2>1 DEF TypeOK, InitLocalFileCollection
<1>19. ASSUME InitUnreadable PROVE TypeOK'
  <2>1. index' \in [Names -> Paths \cup {None, Garbled}]
    BY <1>19 DEF InitUnreadable, Empty
  <2>2. QED
    BY <1>a, <1>19, <2>1 DEF TypeOK, InitUnreadable
<1>20. CASE UNCHANGED vars
  BY <1>20 DEF vars, TypeOK
<1>21. QED
  BY <1>1, <1>2, <1>3, <1>4, <1>5, <1>6, <1>7, <1>8, <1>9, <1>10, <1>11, <1>12, <1>13, <1>14, <1>15,
     <1>16, <1>17, <1>18, <1>19, <1>20 DEF Next, Step, Saving

------------------------------------------------------------------------------
(* Handlers and the collection. *)

LEMMA NextDown == TypeOK /\ Down /\ [Next]_vars => Down'
<1> SUFFICES ASSUME TypeOK, Down, [Next]_vars PROVE Down'
  OBVIOUS
<1> USE DEF TypeOK, Down, daemon, collection
<1>1. ASSUME NEW t \in Threads, Step(t) PROVE Down'
  BY <1>1 DEF Step, Open, Idle, OpenCopy, Return, Goto, Enter, AppendLine, AppendFails, Rebuild, Assign,
              GetSolidTextSize, GetSolidText
<1>2. CASE Collect \/ (\E x \in Files : Unlink(x)) \/ Forget \/ EndUnlink
  BY <1>2 DEF Collect, Unlink, Forget, EndUnlink
<1>3. CASE Saving \/ SaveFails
  BY <1>3 DEF Saving, Save, WriteSwp, Rename, SaveFails, Saved
<1>4. CASE Crash \/ InitLocalFileCollection \/ InitUnreadable
  BY <1>4 DEF Crash, InitLocalFileCollection, InitUnreadable
<1>5. CASE UNCHANGED vars
  BY <1>5 DEF vars
<1>6. QED
  BY <1>1, <1>2, <1>3, <1>4, <1>5 DEF Next

LEMMA NextOpens == TypeOK /\ Down /\ Opens /\ [Next]_vars => Opens'
<1> SUFFICES ASSUME TypeOK, Down, Opens, [Next]_vars PROVE Opens'
  OBVIOUS
<1> USE Constants DEF TypeOK, Opens, daemon, collection
<1>1. ASSUME NEW t \in Threads, Step(t) PROVE Opens'
  <2>1. ASSUME NEW p \in Paths, Open(t, p) PROVE Opens'
    BY <2>1 DEF Open, Goto
  <2>2. ASSUME Enter(t) PROVE Opens'
    <3>1. \A s \in Threads : pc[s] # "line"
      BY <2>2 DEF Enter
    <3>2. path[t] \in Paths /\ NameOf[path[t]] \in Names
      BY <2>2 DEF Enter
    <3>3. index'[NameOf[path[t]]] = path[t]
      BY <2>2, <3>2 DEF Enter
    <3>4. QED
      BY <2>2, <3>1, <3>3 DEF Enter, Goto
  <2>3. CASE OpenCopy(t) \/ AppendLine(t) \/ AppendFails(t)
    BY <2>3 DEF OpenCopy, AppendLine, AppendFails, Return, Goto
  <2>4. CASE Rebuild(t) \/ Assign(t) \/ GetSolidTextSize(t) \/ GetSolidText(t)
    BY <2>4 DEF Rebuild, Assign, GetSolidTextSize, GetSolidText, Goto
  <2>5. QED
    BY <1>1, <2>1, <2>2, <2>3, <2>4 DEF Step
<1>2. CASE Collect \/ (\E x \in Files : Unlink(x)) \/ EndUnlink
  BY <1>2 DEF Collect, Unlink, EndUnlink
<1>3. CASE Forget
  <2>1. \A s \in Threads : pc[s] # "line"
    BY <1>3 DEF Forget
  <2>2. QED
    BY <1>3, <2>1 DEF Forget
<1>4. CASE Saving \/ SaveFails
  BY <1>4 DEF Saving, Save, WriteSwp, Rename, SaveFails, Saved
<1>5. CASE Crash
  BY <1>5 DEF Crash
<1>6. CASE InitLocalFileCollection \/ InitUnreadable
  BY <1>6 DEF InitLocalFileCollection, InitUnreadable, Down
<1>7. CASE UNCHANGED vars
  BY <1>7 DEF vars
<1>8. QED
  BY <1>1, <1>2, <1>3, <1>4, <1>5, <1>6, <1>7 DEF Next

LEMMA NextIndexKept == TypeOK /\ IndexKept /\ [Next]_vars => IndexKept'
<1> SUFFICES ASSUME TypeOK, IndexKept, [Next]_vars PROVE IndexKept'
  OBVIOUS
<1> USE Constants DEF TypeOK, IndexKept, daemon, collection
<1>1. ASSUME NEW t \in Threads, Step(t) PROVE IndexKept'
  BY <1>1 DEF Step, Open, OpenCopy, Enter, AppendLine, AppendFails, Rebuild, Assign,
              GetSolidTextSize, GetSolidText
<1>2. CASE Collect \/ (\E x \in Files : Unlink(x)) \/ Forget \/ EndUnlink
  BY <1>2 DEF Collect, Unlink, Forget, EndUnlink
<1>3. CASE Saving \/ SaveFails
  BY <1>3 DEF Saving, Save, WriteSwp, Rename, SaveFails, Saved
<1>4. CASE Crash \/ InitLocalFileCollection \/ InitUnreadable
  BY <1>4 DEF Crash, InitLocalFileCollection, InitUnreadable
<1>5. CASE UNCHANGED vars
  BY <1>5 DEF vars
<1>6. QED
  BY <1>1, <1>2, <1>3, <1>4, <1>5 DEF Next

(* The text under /proc. *)
LEMMA NextSolidFresh == TypeOK /\ Opens /\ SolidFresh /\ [Next]_vars => SolidFresh'
<1> SUFFICES ASSUME TypeOK, Opens, SolidFresh, [Next]_vars PROVE SolidFresh'
  OBVIOUS
<1> USE Constants DEF TypeOK, SolidFresh, Pending, daemon, collection, readers
<1>1. ASSUME NEW t \in Threads, Step(t) PROVE SolidFresh'
  <2>1. ASSUME NEW p \in Paths, Open(t, p) PROVE SolidFresh'
    BY <2>1 DEF Open, Idle, Goto
  <2>2. ASSUME Enter(t) PROVE SolidFresh'
    <3>1. pc'[t] = "line" /\ NameOf[path'[t]] \in Names
      BY <2>2 DEF Enter, Goto, Opens
    <3>2. QED
      BY <3>1
  <2>3. CASE OpenCopy(t)
    BY <2>3 DEF OpenCopy, Return, Goto
  <2>4. CASE AppendLine(t) \/ AppendFails(t)
    BY <2>4 DEF AppendLine, AppendFails, Return, Goto
  <2>5. CASE Assign(t)
    BY <2>5 DEF Assign
  <2>6. CASE Rebuild(t) \/ GetSolidTextSize(t) \/ GetSolidText(t)
    BY <2>6 DEF Rebuild, Idle, GetSolidTextSize, GetSolidText, Goto
  <2>7. QED
    BY <1>1, <2>1, <2>2, <2>3, <2>4, <2>5, <2>6 DEF Step
<1>2. CASE Collect \/ (\E x \in Files : Unlink(x)) \/ EndUnlink
  BY <1>2 DEF Collect, Unlink, EndUnlink
<1>3. CASE Forget
  <2>1. CASE taken \in Entered(index)
    BY <1>3, <2>1 DEF Forget
  <2>2. CASE taken \notin Entered(index)
    <3>1. index' = index
      BY <1>3, <2>2 DEF Forget, Entered
    <3>2. QED
      BY <1>3, <3>1 DEF Forget
  <2>3. QED
    BY <2>1, <2>2
<1>4. CASE Saving \/ SaveFails
  BY <1>4 DEF Saving, Save, WriteSwp, Rename, SaveFails, Saved
<1>5. CASE Crash \/ InitLocalFileCollection \/ InitUnreadable
  BY <1>5 DEF Crash, InitLocalFileCollection, InitUnreadable
<1>6. CASE UNCHANGED vars
  BY <1>6 DEF vars
<1>7. QED
  BY <1>1, <1>2, <1>3, <1>4, <1>5, <1>6 DEF Next

------------------------------------------------------------------------------
(* The file, its temporary file and the map. *)

FileInv == Uncut /\ Owned /\ EntriesOnDisk

(* Steps that change neither, and that leave the opens that write their line alone. *)
LEMMA Still ==
  ASSUME FileInv, UNCHANGED <<setting, index, file, swp>>, gc' = "rename" => gc = "rename",
         setting.takesIndex => (gc' = "none" => gc = "none"),
         \A n \in Names : Pending(n) => Pending(n)'
  PROVE  FileInv'
<1>1. Lines' = Lines /\ Temporary' = Temporary
  BY DEF Lines, Temporary
<1>2. Uncut' /\ Owned'
  BY <1>1 DEF FileInv, Uncut, Owned, NamesOwn
<1>3. EntriesOnDisk'
  BY <1>1 DEF FileInv, EntriesOnDisk, Entered
<1>4. QED
  BY <1>2, <1>3 DEF FileInv

LEMMA StepStill ==
  ASSUME TypeOK, Opens, FileInv, NEW t \in Threads, Step(t), ~Enter(t), ~AppendLine(t)
  PROVE  FileInv'
<1> USE DEF TypeOK, daemon, collection, disk, readers
<1>1. CASE AppendFails(t)
  <2>1. Uncut' /\ Owned'
    <3>1. Lines' = Lines /\ Temporary' = Temporary
      BY <1>1 DEF AppendFails, Lines, Temporary
    <3>2. QED
      BY <1>1, <3>1 DEF AppendFails, FileInv, Uncut, Owned, NamesOwn
  <2>2. EntriesOnDisk'
    BY <1>1 DEF AppendFails, EntriesOnDisk
  <2>3. QED
    BY <2>1, <2>2 DEF FileInv
<1>2. CASE ~AppendFails(t)
  <2>1. UNCHANGED <<setting, index, file, swp, gc>>
    BY <1>2 DEF Step, Open, OpenCopy, Rebuild, Assign, GetSolidTextSize, GetSolidText
  <2>2. \A n \in Names : Pending(n) => Pending(n)'
    <3>1. \A s \in Threads : pc[s] = "line" => pc'[s] = "line" /\ path'[s] = path[s]
      BY <1>2 DEF Step, Open, Idle, OpenCopy, Return, Rebuild, Assign, GetSolidTextSize, GetSolidText, Goto
    <3>2. QED
      BY <3>1 DEF Pending
  <2>3. QED
    BY <2>1, <2>2, Still
<1>3. QED
  BY <1>1, <1>2

LEMMA EnterFile ==
  ASSUME TypeOK, Opens, FileInv, NEW t \in Threads, Enter(t)
  PROVE  FileInv'
<1> USE Constants DEF TypeOK, daemon, collection, disk
<1> DEFINE n == NameOf[path[t]]
<1>1. path[t] \in Paths /\ n \in Names /\ index' = [index EXCEPT ![n] = path[t]]
  BY DEF Enter, Opens
<1>2. /\ UNCHANGED <<setting, file, swp, gc, path>> /\ pc' = [pc EXCEPT ![t] = "line"] /\ mutex = None
  BY DEF Enter, Goto
<1>3. Lines' = Lines /\ Temporary' = Temporary
  BY <1>2 DEF Lines, Temporary
<1>4. gc # "rename"
  BY <1>2
<1>5. Uncut'
  BY <1>2, <1>3, <1>4 DEF FileInv, Uncut
<1>6. Owned'
  <2>1. NamesOwn'
    <3>1. \E q \in Paths : NameOf[q] = n /\ path[t] \in {q, ReadBack[q]}
      BY <1>1
    <3>2. ASSUME NEW m \in Names, index'[m] \in Paths
          PROVE  \E q \in Paths : NameOf[q] = m /\ index'[m] \in {q, ReadBack[q]}
      BY <1>1, <3>1, <3>2 DEF FileInv, Owned, NamesOwn
    <3>3. QED
      BY <3>2 DEF NamesOwn
  <2>2. QED
    BY <1>3, <2>1 DEF FileInv, Owned
<1>7. EntriesOnDisk'
  <2>1. \A m \in Names : m = n => Pending(m)'
    BY <1>1, <1>2 DEF Pending
  <2>2. \A m \in Names : Pending(m) => Pending(m)'
    BY <1>2 DEF Pending
  <2>3. \A m \in Names \ {n} : index'[m] = index[m]
    BY <1>1
  <2> SUFFICES ASSUME ~setting.full, setting.takesIndex => gc = "none",
                      NEW m \in Names, index'[m] # None, ~Pending(m)'
               PROVE  Replay(Lines)[m] = Restored(index'[m])
    BY <1>2, <1>3 DEF EntriesOnDisk, Entered
  <2>4. m # n /\ ~Pending(m)
    BY <2>1, <2>2
  <2>5. index'[m] = index[m]
    BY <2>3, <2>4
  <2>6. m \in Entered(index)
    BY <2>5 DEF Entered
  <2>7. QED
    BY <2>4, <2>5, <2>6 DEF FileInv, EntriesOnDisk
<1>8. QED
  BY <1>5, <1>6, <1>7 DEF FileInv

LEMMA AppendFile ==
  ASSUME TypeOK, Opens, FileInv, NEW t \in Threads, AppendLine(t)
  PROVE  /\ FileInv'
         /\ ~setting.full =>
              Replay(Lines') = [Replay(Lines) EXCEPT ![NameOf[path[t]]] = Restored(index[NameOf[path[t]]])]
<1> USE Constants DEF TypeOK, daemon, collection, disk
<1> DEFINE n == NameOf[path[t]]
<1>1. path[t] \in Paths /\ n \in Names /\ index[n] = path[t] /\ mutex = t
  BY DEF AppendLine, Opens
<1>2. UNCHANGED <<setting, index, swp, gc>> /\ pc' = [pc EXCEPT ![t] = "idle"]
      /\ path' = [path EXCEPT ![t] = None]
  BY DEF AppendLine, Return, Goto
<1>3. PICK cut \in {"no", "path", "name"} :
        file' = Lines \o <<Line(n, path[t], cut)>> /\ (~setting.full => cut = "no")
  BY DEF AppendLine
<1> DEFINE l == Line(n, path[t], cut)
<1>4. l \in Entry /\ l.name = n /\ l.path = path[t] /\ l.cut = cut
  BY <1>1 DEF Line, Entry
<1>5. Lines \in Seq(Entry)
  BY LinesType
<1>6. file' = Append(Lines, l) /\ file' \in Seq(Entry)
  BY <1>3, <1>4, <1>5, AppendIsConcat, AppendProperties
<1>7. Lines' = Append(Lines, l) /\ Temporary' = Temporary
  BY <1>2, <1>6 DEF Lines, Temporary
<1>8. Own(l.name, l.path)
  BY <1>1, <1>4 DEF Own
<1> HIDE DEF l
<1>9. Owned'
  <2>1. Sound(Lines')
    BY <1>4, <1>5, <1>7, <1>8, OneMoreLine DEF FileInv, Owned
  <2>2. QED
    BY <1>2, <1>7, <2>1 DEF FileInv, Owned, NamesOwn
<1>10. gc # "rename"
  BY <1>1
<1>11. Uncut'
  <2>1. ~setting.full => Whole(Lines')
    BY <1>3, <1>4, <1>5, <1>7, OneMoreLine DEF FileInv, Uncut
  <2>2. QED
    BY <1>2, <1>7, <1>10, <2>1 DEF FileInv, Uncut
<1>12. ASSUME ~setting.full
       PROVE  Replay(Lines') = [Replay(Lines) EXCEPT ![n] = Restored(index[n])]
  <2>1. Whole(Lines) /\ l.cut = "no"
    BY <1>3, <1>4, <1>12 DEF FileInv, Uncut
  <2>2. Replay(Append(Lines, l)) = [Replay(Lines) EXCEPT ![l.name] = Restored(l.path)]
    BY <1>4, <1>5, <2>1, ReplayAppend
  <2> HIDE DEF n
  <2>3. QED
    BY <1>1, <1>4, <1>7, <2>2
<1>13. EntriesOnDisk'
  <2> SUFFICES ASSUME ~setting.full, setting.takesIndex => gc = "none",
                      NEW m \in Entered(index), ~Pending(m)'
               PROVE  Replay(Lines')[m] = Restored(index[m])
    BY <1>2 DEF EntriesOnDisk, Entered
  <2>1. m \in Names /\ Replay(Lines) \in [Names -> Values]
    BY <1>5, ReplayType DEF Entered
  <2>2. CASE m = n
    BY <1>12, <2>1, <2>2
  <2>3. CASE m # n
    <3>1. ~Pending(m)
      BY <1>1, <1>2, <2>3 DEF Pending
    <3>2. Replay(Lines)[m] = Restored(index[m])
      BY <3>1 DEF FileInv, EntriesOnDisk
    <3> HIDE DEF n
    <3>3. QED
      BY <1>12, <2>1, <2>3, <3>2
  <2>4. QED
    BY <2>2, <2>3
<1>14. QED
  BY <1>9, <1>11, <1>12, <1>13 DEF FileInv

LEMMA CollectionFile ==
  ASSUME TypeOK, IndexKept, FileInv,
         Collect \/ (\E x \in Files : Unlink(x)) \/ Forget \/ EndUnlink
  PROVE  FileInv'
<1> USE Constants DEF TypeOK, daemon, readers
<1>1. ASSUME NEW x \in Files, Unlink(x), x = IndexFile, file' = None, UNCHANGED <<swp, copies>>
      PROVE  FileInv'
  <2>1. setting.takesIndex /\ gc' = "forget" /\ UNCHANGED <<setting, index>>
    BY <1>1 DEF Unlink, IndexKept
  <2>2. Lines' = <<>> /\ Temporary' = Temporary
    BY <1>1 DEF Lines, Temporary
  <2>3. Whole(Lines') /\ Sound(Lines')
    BY <2>2 DEF Whole, Sound
  <2>4. Uncut' /\ Owned'
    BY <2>1, <2>2, <2>3 DEF FileInv, Uncut, Owned, NamesOwn
  <2>5. EntriesOnDisk'
    BY <2>1 DEF EntriesOnDisk
  <2>6. QED
    BY <2>4, <2>5 DEF FileInv
<1>2. CASE Forget
  <2>1. /\ index' = [n \in Names |-> IF n = taken THEN None ELSE index[n]]
        /\ gc = "forget" /\ gc' = "unlink" /\ UNCHANGED <<setting, pc, path, file, swp>>
    BY <1>2 DEF Forget, disk
  <2>2. Lines' = Lines /\ Temporary' = Temporary
    BY <2>1 DEF Lines, Temporary
  <2>3. Uncut' /\ Owned'
    BY <2>1, <2>2 DEF FileInv, Uncut, Owned, NamesOwn
  <2>4. EntriesOnDisk'
    <3> SUFFICES ASSUME ~setting.full, ~setting.takesIndex,
                        NEW m \in Names, index'[m] # None, ~Pending(m)'
                 PROVE  Replay(Lines)[m] = Restored(index'[m])
      BY <2>1, <2>2 DEF EntriesOnDisk, Entered
    <3>1. index'[m] = index[m]
      BY <2>1
    <3>2. m \in Entered(index) /\ ~Pending(m)
      BY <2>1, <3>1 DEF Entered, Pending
    <3>3. QED
      BY <3>1, <3>2 DEF FileInv, EntriesOnDisk
  <2>5. QED
    BY <2>3, <2>4 DEF FileInv
<1>3. ASSUME Collect \/ EndUnlink \/ \E x \in Files : Unlink(x) /\ UNCHANGED file
      PROVE  FileInv'
  <2>1. /\ UNCHANGED <<setting, index, file, swp, pc, path>> /\ gc' \notin {"rename", "none"}
    BY <1>3 DEF Collect, EndUnlink, Unlink, disk
  <2>2. QED
    BY <2>1, Still DEF Pending
<1>4. ASSUME NEW x \in Files, Unlink(x)
      PROVE  UNCHANGED file \/ (x = IndexFile /\ file' = None /\ UNCHANGED <<swp, copies>>)
  BY <1>4 DEF Unlink, disk
<1>5. QED
  BY <1>1, <1>2, <1>3, <1>4

(* The lines of the map, in the temporary file. *)
LEMMA WriteSwpFile ==
  ASSUME TypeOK, FileInv, WriteSwp
  PROVE  FileInv'
<1> USE Constants DEF TypeOK, daemon, readers
<1>1. index \in [Names -> Values]
  BY DEF Values
<1> DEFINE w == Written(index)
<1>2. /\ w \in Seq(Entry) /\ Len(w) = Cardinality(Entered(index)) /\ Len(w) \in Nat
      /\ \A i \in 1..Len(w) : w[i].name \in Entered(index) /\ w[i].path = index[w[i].name]
      /\ Whole(w) /\ Replay(w) = [n \in Names |-> Restored(index[n])]
  BY <1>1, WrittenLines, ReplayWritten
<1>3. PICK k \in 0..Len(w) : swp' = SubSeq(w, 1, k) /\ (~setting.full => k = Len(w))
  BY <1>2 DEF WriteSwp
<1> HIDE DEF w
<1>4. UNCHANGED <<setting, index, pc, path, file>> /\ gc = "write" /\ gc' = "rename"
  BY DEF WriteSwp
<1>5. Sound(w)
  <2> SUFFICES ASSUME NEW i \in 1..Len(w), w[i].path \in Paths PROVE Own(w[i].name, w[i].path)
    BY DEF Sound
  <2> DEFINE n == w[i].name
  <2>1. n \in Names /\ w[i].path = index[n]
    BY <1>2 DEF Entered
  <2> HIDE DEF n
  <2>2. \E p \in Paths : NameOf[p] = n /\ index[n] \in {p, ReadBack[p]}
    BY <2>1 DEF FileInv, Owned, NamesOwn
  <2>3. Own(n, w[i].path)
    BY <2>1, <2>2 DEF Own
  <2>4. QED
    BY <2>3 DEF n
<1>6. SubSeq(w, 1, k) \in Seq(Entry) /\ Whole(SubSeq(w, 1, k)) /\ Sound(SubSeq(w, 1, k))
  BY <1>2, <1>5, Prefix
<1>7. Lines' = Lines /\ Temporary' = SubSeq(w, 1, k)
  BY <1>3, <1>4, <1>6 DEF Lines, Temporary
<1>8. ~setting.full => Temporary' = w
  BY <1>2, <1>3, <1>7
<1>9. Owned'
  BY <1>4, <1>6, <1>7 DEF FileInv, Owned, NamesOwn
<1>10. Uncut'
  BY <1>2, <1>4, <1>6, <1>7, <1>8 DEF FileInv, Uncut
<1>11. EntriesOnDisk'
  BY <1>4, <1>7 DEF FileInv, EntriesOnDisk, Pending, Entered
<1>12. QED
  BY <1>9, <1>10, <1>11 DEF FileInv

LEMMA SaveFile ==
  ASSUME TypeOK, FileInv, Save
  PROVE  FileInv'
<1> USE DEF TypeOK, daemon, readers
<1>1. /\ UNCHANGED <<setting, index, pc, path, file>> /\ gc = "save" /\ gc' = "write" /\ swp' = <<>>
  BY DEF Save
<1>2. Lines' = Lines /\ Temporary' = <<>>
  BY <1>1 DEF Lines, Temporary
<1>3. Whole(Temporary') /\ Sound(Temporary')
  BY <1>2 DEF Whole, Sound
<1>4. Owned' /\ Uncut'
  BY <1>1, <1>2, <1>3 DEF FileInv, Owned, NamesOwn, Uncut
<1>5. EntriesOnDisk'
  BY <1>1, <1>2 DEF FileInv, EntriesOnDisk, Pending, Entered
<1>6. QED
  BY <1>4, <1>5 DEF FileInv

(* The temporary file becomes the file: the map as it is, for nobody has changed it since. *)
LEMMA RenameFile ==
  ASSUME TypeOK, FileInv, Rename
  PROVE  FileInv' /\ Lines' = Temporary
<1> USE Constants DEF TypeOK, readers
<1>1. UNCHANGED <<setting, index>> /\ gc = "rename" /\ gc' = "none" /\ file' = swp /\ swp' = None
  BY DEF Rename, Saved
<1>2. Lines' = Temporary /\ Temporary' = <<>>
  BY <1>1 DEF Lines, Temporary
<1>3. Whole(Temporary') /\ Sound(Temporary')
  BY <1>2 DEF Whole, Sound
<1>4. Owned' /\ Uncut'
  BY <1>1, <1>2, <1>3 DEF FileInv, Owned, NamesOwn, Uncut
<1>5. EntriesOnDisk'
  <2>1. ~setting.full => \A n \in Names : Replay(Temporary)[n] = Restored(index[n])
    BY <1>1 DEF FileInv, Uncut
  <2>2. QED
    BY <1>1, <1>2, <2>1 DEF EntriesOnDisk, Entered
<1>6. QED
  BY <1>2, <1>4, <1>5 DEF FileInv

LEMMA SaveFailsFile ==
  ASSUME TypeOK, FileInv, SaveFails
  PROVE  FileInv'
<1>1. UNCHANGED <<setting, index, file, swp>> /\ setting.full
  BY DEF SaveFails, Saved
<1>2. Lines' = Lines /\ Temporary' = Temporary
  BY <1>1 DEF Lines, Temporary
<1>3. QED
  BY <1>1, <1>2 DEF FileInv, Owned, NamesOwn, Uncut, EntriesOnDisk

(* After a crash, and for a daemon that could not open the file, there is no entry. *)
LEMMA EmptyFile ==
  ASSUME TypeOK, FileInv, Crash \/ InitUnreadable
  PROVE  FileInv'
<1> USE Constants DEF TypeOK
<1>1. UNCHANGED <<setting, file, swp>> /\ index' = Empty /\ gc' = "none"
  BY DEF Crash, InitUnreadable, collection, disk
<1>2. Lines' = Lines /\ Temporary' = Temporary
  BY <1>1 DEF Lines, Temporary
<1>3. \A n \in Names : index'[n] = None
  BY <1>1 DEF Empty
<1>4. QED
  BY <1>1, <1>2, <1>3 DEF FileInv, Owned, NamesOwn, Uncut, EntriesOnDisk, Entered

(* A daemon that starts has what the file says of the copies there are. *)
LEMMA StartFile ==
  ASSUME TypeOK, FileInv, InitLocalFileCollection
  PROVE  FileInv'
<1> USE Constants DEF TypeOK
<1>1. /\ UNCHANGED <<setting, file, swp>> /\ gc = "none" /\ gc' # "rename"
      /\ index' = [n \in Names |-> IF n \in copies THEN Replay(Lines)[n] ELSE None]
  BY DEF InitLocalFileCollection, disk
<1>2. Lines' = Lines /\ Temporary' = Temporary
  BY <1>1 DEF Lines, Temporary
<1>3. /\ Lines \in Seq(Entry) /\ Replay(Lines) \in [Names -> Values]
      /\ \A n \in Names : Restored(Replay(Lines)[n]) = Replay(Lines)[n]
  BY LinesType, ReplayType
<1>4. NamesOwn'
  <2> SUFFICES ASSUME NEW n \in Names, index'[n] \in Paths PROVE Own(n, index'[n])
    BY DEF NamesOwn, Own
  <2>1. index'[n] = Replay(Lines)[n]
    BY <1>1
  <2>2. QED
    BY <1>3, <2>1, ReplaySound DEF FileInv, Owned
<1>5. Owned' /\ Uncut'
  BY <1>1, <1>2, <1>4 DEF FileInv, Owned, Uncut
<1>6. ASSUME NEW n \in Names, index'[n] # None PROVE Replay(Lines)[n] = Restored(index'[n])
  <2>1. index'[n] = Replay(Lines)[n]
    BY <1>1, <1>6
  <2>2. QED
    BY <1>3, <2>1
<1>7. EntriesOnDisk'
  BY <1>2, <1>6 DEF EntriesOnDisk, Entered
<1>8. QED
  BY <1>5, <1>7 DEF FileInv

------------------------------------------------------------------------------
LEMMA NextIInv == IInv /\ [Next]_vars => IInv'
<1> SUFFICES ASSUME IInv, [Next]_vars PROVE IInv'
  OBVIOUS
<1>0. TypeOK /\ Down /\ Opens /\ IndexKept /\ SolidFresh /\ FileInv
  BY DEF IInv, FileInv
<1>1. TypeOK' /\ Down' /\ Opens' /\ IndexKept' /\ SolidFresh'
  BY <1>0, NextTypeOK, NextDown, NextOpens, NextIndexKept, NextSolidFresh
<1>2. ASSUME NEW t \in Threads, Step(t) PROVE FileInv'
  BY <1>0, <1>2, StepStill, EnterFile, AppendFile
<1>3. ASSUME Collect \/ (\E x \in Files : Unlink(x)) \/ Forget \/ EndUnlink PROVE FileInv'
  BY <1>0, <1>3, CollectionFile
<1>4. ASSUME Saving \/ SaveFails PROVE FileInv'
  BY <1>0, <1>4, WriteSwpFile, SaveFile, RenameFile, SaveFailsFile DEF Saving
<1>5. ASSUME Crash \/ InitLocalFileCollection \/ InitUnreadable PROVE FileInv'
  BY <1>0, <1>5, EmptyFile, StartFile
<1>6. ASSUME UNCHANGED vars PROVE FileInv'
  <2>1. UNCHANGED <<setting, index, file, swp, gc, pc, path>>
    BY <1>6 DEF vars, disk, collection
  <2>2. QED
    BY <1>0, <2>1, Still DEF Pending
<1>7. FileInv'
  BY <1>2, <1>3, <1>4, <1>5, <1>6 DEF Next
<1>8. QED
  BY <1>1, <1>7 DEF IInv, FileInv

LEMMA SpecIInv == Spec => []IInv
BY InitIInv, NextIInv, PTL DEF Spec

(* The index, its file and the temporary file keep their types through crashes, cut lines
   and collections (tge_cache.cc:134-273). *)
THEOREM TypeCorrect == Spec => []TypeOK
BY SpecIInv, PTL DEF IInv

(* A line that a full disk has cut, or that swallowed the next, never gives a copy to a path
   with another digest (tge_cache.cc:29-77, 249-267): what is read back of it is nobody's path. *)
THEOREM CopiesOwn == Spec => []NamesOwn
<1>1. IInv => NamesOwn
  BY DEF IInv, Owned
<1>2. QED
  BY <1>1, SpecIInv, PTL

(* The text under /proc is marked by whatever changes the map (tge_cache.cc:134-187). *)
THEOREM TextFresh == Spec => []SolidFresh
BY SpecIInv, PTL DEF IInv

(* No crash between any two steps of append, collection, save and start loses an entry
   (tge_cache.cc:134-159, 205-273). *)
THEOREM NoEntryLost == Spec => []EntriesOnDisk
BY SpecIInv, PTL DEF IInv

------------------------------------------------------------------------------
(* Readers of the text under /proc. *)

(* Without collections the map and the text made of it only grow while the daemon runs, so
   that the text is never shorter than a reader was told. *)
Grows == ~setting.collects => /\ gc \notin {"unlink", "forget"}
                              /\ Entered(solid) \subseteq Entered(index)
                              /\ ~up => solid = Empty
                              /\ \A t \in Threads : pc[t] = "reader" =>
                                   size[t] <= Cardinality(Entered(solid))

LEMMA MoreEntries ==
  ASSUME NEW f, NEW g, Entered(f) \subseteq Entered(g)
  PROVE  Cardinality(Entered(f)) <= Cardinality(Entered(g))
<1>1. IsFiniteSet(Entered(g))
  BY CacheIndexAssumption, FS_Subset DEF Entered
<1>2. QED
  BY <1>1, FS_Subset

LEMMA InitGrows == Init => Grows
BY DEF Init, Grows

LEMMA NextGrows == TypeOK /\ Down /\ Opens /\ Grows /\ [Next]_vars => Grows'
<1> SUFFICES ASSUME TypeOK, Down, Opens, Grows, [Next]_vars, ~setting.collects' PROVE Grows'
  BY DEF Grows
<1>0. setting' = setting /\ ~setting.collects /\ Entered(Empty) = {}
  BY DEF Next, Step, Open, OpenCopy, Enter, AppendLine, AppendFails, Rebuild, Assign,
         GetSolidTextSize, GetSolidText, Collect, Unlink, Forget, EndUnlink, Saving, Save, WriteSwp,
         Rename, SaveFails, Saved, Crash, InitLocalFileCollection, InitUnreadable, vars, Entered, Empty
<1> USE <1>0 DEF TypeOK, Grows, daemon, collection, readers
<1>1. ASSUME NEW t \in Threads, Step(t) PROVE Grows'
  <2>1. ASSUME NEW p \in Paths, Open(t, p) PROVE Grows'
    BY <2>1 DEF Open, Goto
  <2>2. ASSUME Enter(t) PROVE Grows'
    <3>1. path[t] \in Paths /\ path[t] # None
      BY <2>2, Constants DEF Enter, Opens
    <3>2. index' = [index EXCEPT ![NameOf[path[t]]] = path[t]]
      BY <2>2 DEF Enter
    <3>3. Entered(index) \subseteq Entered(index')
      BY <3>1, <3>2 DEF Entered
    <3>4. QED
      BY <2>2, <3>3 DEF Enter, Goto
  <2>3. CASE OpenCopy(t) \/ AppendLine(t) \/ AppendFails(t)
    BY <2>3 DEF OpenCopy, AppendLine, AppendFails, Return, Goto
  <2>4. CASE Assign(t)
    <3>1. up /\ solid' = index /\ index' = index /\ size' = size /\ gc' = gc /\ up' = up
      BY <2>4 DEF Assign, Down
    <3>2. Cardinality(Entered(solid)) <= Cardinality(Entered(solid'))
      BY <3>1, MoreEntries
    <3>3. \A s \in Threads : pc'[s] = "reader" => pc[s] = "reader"
      BY <2>4 DEF Assign, Goto
    <3>4. \A s \in Threads : pc'[s] = "reader" => size'[s] <= Cardinality(Entered(solid'))
      <4> TAKE s \in Threads
      <4> HAVE pc'[s] = "reader"
      <4>1. size[s] <= Cardinality(Entered(solid)) /\ size[s] \in Nat
        BY <3>3
      <4>2. QED
        BY <3>1, <3>2, <4>1, Size
    <3>5. QED
      BY <3>1, <3>4
  <2>5. CASE GetSolidTextSize(t)
    <3>1. /\ \A s \in Threads : pc'[s] = "reader" => s = t \/ pc[s] = "reader"
          /\ \A s \in Threads \ {t} : size'[s] = size[s]
          /\ size'[t] = Cardinality(Entered(solid)) /\ solid' = solid /\ index' = index
          /\ gc' = gc /\ up' = up
      BY <2>5 DEF GetSolidTextSize, Goto
    <3>2. QED
      BY <3>1, Size, SMTT(30)
  <2>6. CASE Rebuild(t) \/ GetSolidText(t)
    BY <2>6 DEF Rebuild, GetSolidText, Goto
  <2>7. QED
    BY <1>1, <2>1, <2>2, <2>3, <2>4, <2>5, <2>6 DEF Step
<1>2. CASE Collect \/ (\E x \in Files : Unlink(x)) \/ Forget \/ EndUnlink
  BY <1>2 DEF Collect, Unlink, Forget, EndUnlink
<1>3. CASE Saving \/ SaveFails
  BY <1>3 DEF Saving, Save, WriteSwp, Rename, SaveFails, Saved
<1>4. CASE Crash
  BY <1>4 DEF Crash
<1>5. CASE InitLocalFileCollection \/ InitUnreadable
  BY <1>5 DEF InitLocalFileCollection, InitUnreadable
<1>6. CASE UNCHANGED vars
  BY <1>6 DEF vars
<1>7. QED
  BY <1>1, <1>2, <1>3, <1>4, <1>5, <1>6 DEF Next

(* Where nothing is collected, a reader of /proc/tgefscache finds the text as long as it was
   told, or longer, and kills the daemon at most while the text is made anew
   (tge_cache.cc:161-203). *)
THEOREM ReadersLive == Spec => []ReadersSafe
<1>1. IInv /\ Grows /\ [Next]_vars => Grows'
  BY NextGrows DEF IInv
<1>2. IInv /\ Grows => ReadersSafe
  <2> SUFFICES ASSUME TypeOK, Grows, ~setting.collects, NEW t \in Threads, ReadFails(t)
               PROVE  \E s \in Threads : pc[s] = "rebuild"
    BY DEF ReadersSafe, IInv
  <2>1. pc[t] = "reader" /\ size[t] \in Nat /\ size[t] <= Cardinality(Entered(solid))
    BY DEF ReadFails, Grows, TypeOK
  <2>2. QED
    BY <2>1, Size DEF ReadFails
<1>3. QED
  BY InitGrows, SpecIInv, <1>1, <1>2, PTL DEF Spec

------------------------------------------------------------------------------
(* The refinement. *)

Entering == {NameOf[path[t]] : t \in {s \in Threads : pc[s] = "line"}}

LEMMA InitSimulation == Init => Durable!Init
<1> SUFFICES ASSUME Init PROVE Durable!Init
  OBVIOUS
<1>1. Lines = <<>>
  BY DEF Init, Lines
<1>2. Replay(Lines) \in [Names -> {None}]
  BY <1>1, ReplayEmpty DEF Empty
<1>3. QED
  BY <1>2, CacheIndexAssumption DEF Init, Durable!Init, Durable!Empty, Empty, Setting

(* What each step of the abstract map is, in terms of the index. *)
Running == up \/ gc # "none"

LEMMA Stutters ==
  ASSUME UNCHANGED <<setting, index, Entering, Running>>, Lines' = Lines
  PROVE  UNCHANGED Durable!vars
BY DEF Durable!vars, Entering, Running

LEMMA Enters ==
  ASSUME Running, NEW n \in Names, NEW v \in Paths, index' = [index EXCEPT ![n] = v],
         Entering' = Entering \cup {n}, UNCHANGED <<setting, Running>>, Lines' = Lines
  PROVE  Durable!Next
BY DEF Durable!Next, Durable!Enter, Entering, Running

LEMMA Commits ==
  ASSUME NEW n \in Names, n \in Entering, Entering' = Entering \ {n},
         Replay(Lines') = [Replay(Lines) EXCEPT ![n] = Restored(index[n])],
         UNCHANGED <<setting, index, Running>>
  PROVE  Durable!Next
BY DEF Durable!Next, Durable!Commit, Entering, Running

LEMMA Forgets ==
  ASSUME Running, NEW n \in Names, index' = [index EXCEPT ![n] = None],
         UNCHANGED <<setting, Entering, Running>>, Lines' = Lines
  PROVE  Durable!Next
BY DEF Durable!Next, Durable!Forget, Entering, Running

LEMMA Compacts ==
  ASSUME Replay(Lines') = [n \in Names |-> Restored(index[n])],
         UNCHANGED <<setting, index, Entering, Running>>
  PROVE  Durable!Next
BY DEF Durable!Next, Durable!Compact, Entering, Running

LEMMA Crashes ==
  ASSUME index' = Empty, Entering' = {}, Running' = FALSE, UNCHANGED setting, Lines' = Lines
  PROVE  Durable!Next
BY DEF Durable!Next, Durable!Crash, Durable!Empty, Empty, Entering, Running

LEMMA Starts ==
  ASSUME ~Running, Running' = TRUE, NEW used \in SUBSET Names,
         index' = [n \in Names |-> IF n \in used THEN Replay(Lines)[n] ELSE None],
         UNCHANGED <<setting, Entering>>, Lines' = Lines
  PROVE  Durable!Next
BY DEF Durable!Next, Durable!Restart, Entering, Running

(* On a full disk, or when the file itself is collected, anything is allowed to the disk. *)
LEMMA Loses ==
  ASSUME TypeOK', setting.full \/ setting.takesIndex,
         UNCHANGED <<setting, index, Running>>, Entering' \subseteq Entering
  PROVE  Durable!Next
<1>1. Lines' \in Seq(Entry)
  BY DEF TypeOK, Lines
<1>2. Replay(Lines') \in [Names -> Values]
  BY <1>1, ReplayType
<1>3. QED
  BY <1>2 DEF Durable!Next, Durable!Lose, Entering, Running, Values

LEMMA StepSimulation == IInv /\ IInv' /\ [Next]_vars => [Durable!Next]_(Durable!vars)
<1> SUFFICES ASSUME IInv, IInv', [Next]_vars PROVE Durable!Next \/ UNCHANGED Durable!vars
  OBVIOUS
<1> USE Constants
<1>0. TypeOK /\ Down /\ Opens /\ IndexKept /\ FileInv /\ TypeOK'
  BY DEF IInv, FileInv
<1> HIDE DEF IInv
<1>1. ASSUME NEW t \in Threads, Enter(t) PROVE Durable!Next
  <2>1. path[t] \in Paths /\ NameOf[path[t]] \in Names /\ up
    BY <1>0, <1>1 DEF Enter, Opens, Down
  <2>2. Entering' = Entering \cup {NameOf[path[t]]}
    BY <1>0, <1>1 DEF Enter, Goto, TypeOK, Entering
  <2>3. /\ Lines' = Lines /\ UNCHANGED <<setting, Running>> /\ Running
        /\ index' = [index EXCEPT ![NameOf[path[t]]] = path[t]]
    BY <1>1, <2>1 DEF Enter, disk, daemon, collection, Lines, Running
  <2>4. QED
    BY <2>1, <2>2, <2>3, Enters
<1>2. ASSUME NEW t \in Threads, AppendLine(t) \/ AppendFails(t) PROVE Durable!Next
  <2> DEFINE n == NameOf[path[t]]
  <2>1. path[t] \in Paths /\ n \in Names
    BY <1>0, <1>2 DEF AppendLine, AppendFails, Opens
  <2>2. UNCHANGED <<setting, index, Running>>
    BY <1>2 DEF AppendLine, AppendFails, daemon, collection, disk, Running
  <2>3. \A s \in Threads : pc[s] = "line" <=> s = t
    BY <1>0, <1>2 DEF AppendLine, AppendFails, TypeOK
  <2>4. pc' = [pc EXCEPT ![t] = "idle"]
    BY <1>2 DEF AppendLine, AppendFails, Return, Goto
  <2>5. Entering = {n} /\ Entering' = {}
    BY <1>0, <2>3, <2>4 DEF Entering, TypeOK
  <2> HIDE DEF n
  <2>6. CASE setting.full
    BY <1>0, <2>2, <2>5, <2>6, Loses
  <2>7. CASE ~setting.full
    <3>1. AppendLine(t)
      BY <1>2, <2>7 DEF AppendFails
    <3>2. Replay(Lines') = [Replay(Lines) EXCEPT ![n] = Restored(index[n])]
      BY <1>0, <3>1, <2>7, AppendFile DEF n
    <3>3. n \in Entering /\ Entering' = Entering \ {n}
      BY <2>5
    <3>4. QED
      BY <2>1, <2>2, <3>2, <3>3, Commits
  <2>8. QED
    BY <2>6, <2>7
<1>3. ASSUME NEW t \in Threads, Step(t), ~Enter(t), ~AppendLine(t), ~AppendFails(t)
      PROVE  UNCHANGED Durable!vars
  <2>1. UNCHANGED <<setting, index, file, up, gc>>
    BY <1>3 DEF Step, Open, OpenCopy, Rebuild, Assign, GetSolidTextSize, GetSolidText, daemon, collection, disk
  <2>2. \A s \in Threads : /\ pc'[s] = "line" <=> pc[s] = "line"
                           /\ pc[s] = "line" => path'[s] = path[s]
    BY <1>0, <1>3 DEF Step, Open, Idle, OpenCopy, Return, Rebuild, Assign, GetSolidTextSize, GetSolidText, Goto, TypeOK
  <2>3. Entering' = Entering
    BY <2>2 DEF Entering
  <2>4. Lines' = Lines /\ UNCHANGED Running
    BY <2>1 DEF Lines, Running
  <2>5. QED
    BY <2>1, <2>3, <2>4, Stutters
<1>4. ASSUME Collect \/ (\E x \in Files : Unlink(x)) \/ Forget \/ EndUnlink
      PROVE  Durable!Next \/ UNCHANGED Durable!vars
  <2>1. UNCHANGED <<setting, pc, path>> /\ Running /\ UNCHANGED Running
    BY <1>4 DEF Collect, Unlink, Forget, EndUnlink, daemon, Running
  <2>2. Entering' = Entering
    BY <2>1 DEF Entering
  <2>3. ASSUME NEW x \in Files, Unlink(x), UNCHANGED file PROVE UNCHANGED Durable!vars
    <3>1. Lines' = Lines /\ UNCHANGED index
      BY <2>3 DEF Unlink, Lines
    <3>2. QED
      BY <2>1, <2>2, <3>1, Stutters
  <2>4. ASSUME NEW x \in Files, Unlink(x), x = IndexFile PROVE Durable!Next
    <3>1. setting.takesIndex /\ UNCHANGED index
      BY <1>0, <2>4 DEF Unlink, IndexKept
    <3>2. QED
      BY <1>0, <2>1, <2>2, <3>1, Loses
  <2>5. ASSUME NEW x \in Files, Unlink(x) PROVE UNCHANGED file \/ x = IndexFile
    BY <2>5 DEF Unlink, disk
  <2>6. ASSUME Forget, taken \in Names PROVE Durable!Next
    <3>1. index' = [index EXCEPT ![taken] = None] /\ Lines' = Lines
      BY <1>0, <2>6 DEF Forget, TypeOK, disk, Lines
    <3>2. QED
      BY <2>1, <2>2, <2>6, <3>1, Forgets
  <2>7. ASSUME Forget, taken \notin Names PROVE UNCHANGED Durable!vars
    <3>1. index' = index /\ Lines' = Lines
      BY <1>0, <2>7 DEF Forget, TypeOK, disk, Lines
    <3>2. QED
      BY <2>1, <2>2, <3>1, Stutters
  <2>8. ASSUME Collect \/ EndUnlink PROVE UNCHANGED Durable!vars
    <3>1. UNCHANGED index /\ Lines' = Lines
      BY <2>8 DEF Collect, EndUnlink, disk, Lines
    <3>2. QED
      BY <2>1, <2>2, <3>1, Stutters
  <2>9. QED
    BY <1>4, <2>3, <2>4, <2>5, <2>6, <2>7, <2>8
<1>5. ASSUME Save \/ WriteSwp PROVE UNCHANGED Durable!vars
  <2>1. UNCHANGED <<setting, index, pc, path, file, Running>>
    BY <1>5 DEF Save, WriteSwp, daemon, Running
  <2>2. Entering' = Entering /\ Lines' = Lines
    BY <2>1 DEF Entering, Lines
  <2>3. QED
    BY <2>1, <2>2, Stutters
<1>6. ASSUME Rename \/ SaveFails PROVE Durable!Next
  <2>1. UNCHANGED <<setting, index, pc, path, Running>>
    BY <1>6 DEF Rename, SaveFails, Saved, Running
  <2>2. Entering' = Entering
    BY <2>1 DEF Entering
  <2>3. CASE setting.full
    BY <1>0, <2>1, <2>2, <2>3, Loses
  <2>4. CASE ~setting.full
    <3>1. Rename
      BY <1>6, <2>4 DEF SaveFails
    <3>2. Lines' = Temporary
      BY <1>0, <3>1, RenameFile
    <3>3. Replay(Temporary) = [n \in Names |-> Restored(index[n])]
      BY <1>0, <2>4, <3>1 DEF FileInv, Uncut, Rename
    <3>4. QED
      BY <2>1, <2>2, <3>2, <3>3, Compacts
  <2>5. QED
    BY <2>3, <2>4
<1>7. ASSUME Crash PROVE Durable!Next
  <2>1. UNCHANGED <<setting, file>> /\ index' = Empty /\ Running' = FALSE
        /\ pc' = [t \in Threads |-> "idle"]
    BY <1>7 DEF Crash, disk, Running
  <2>2. Entering' = {} /\ Lines' = Lines
    BY <2>1 DEF Entering, Lines
  <2>3. QED
    BY <2>1, <2>2, Crashes
<1>8. ASSUME InitLocalFileCollection PROVE Durable!Next
  <2>1. /\ UNCHANGED <<setting, file, pc, path>> /\ ~Running /\ Running' = TRUE
        /\ index' = [n \in Names |-> IF n \in copies THEN Replay(Lines)[n] ELSE None]
    BY <1>8 DEF InitLocalFileCollection, disk, Running
  <2>2. Entering' = Entering /\ Lines' = Lines
    BY <2>1 DEF Entering, Lines
  <2>3. copies \in SUBSET Names
    BY <1>0 DEF TypeOK
  <2>4. QED
    BY <2>1, <2>2, <2>3, Starts
<1>9. ASSUME InitUnreadable PROVE Durable!Next
  <2>1. UNCHANGED <<setting, file, pc, path>> /\ ~Running /\ Running' = TRUE /\ index' = Empty
    BY <1>9 DEF InitUnreadable, disk, Running
  <2>2. Entering' = Entering /\ Lines' = Lines
    BY <2>1 DEF Entering, Lines
  <2>3. PICK used \in SUBSET Names : used = {}
    OBVIOUS
  <2>4. index' = [n \in Names |-> IF n \in used THEN Replay(Lines)[n] ELSE None]
    BY <2>1, <2>3 DEF Empty
  <2>5. QED
    BY <2>1, <2>2, <2>4, Starts
<1>10. ASSUME UNCHANGED vars PROVE UNCHANGED Durable!vars
  <2>1. UNCHANGED <<setting, index, Entering, Running>> /\ Lines' = Lines
    BY <1>10 DEF vars, daemon, collection, disk, Entering, Running, Lines
  <2>2. QED
    BY <2>1, Stutters
<1>11. QED
  BY <1>1, <1>2, <1>3, <1>4, <1>5, <1>6, <1>7, <1>8, <1>9, <1>10 DEF Next, Saving

(* Whatever a map that is never older than the last entry promises, the file, the temporary
   file and the replay at the start keep, crashes and a full disk included
   (tge_cache.cc:134-273). *)
THEOREM Refinement == Spec => ImplementsDurableMap
<1>1. IInv /\ [Next]_vars /\ IInv' => [Durable!Next]_(Durable!vars)
  BY StepSimulation
<1>2. QED
  BY <1>1, InitSimulation, SpecIInv, PTL DEF Spec, ImplementsDurableMap, Durable!Spec
================================================================================
