------------------------------- MODULE PartsProofs -------------------------------
(***************************************************************************)
(* What the parts that MCParts runs guarantee for every input:             *)
(*   LzoStream   whatever is lost on the way, what is read back begins     *)
(*               with the blocks before the loss (BlocksRecovered);        *)
(*   LineReader  the lines of a connection come whole and in their order,  *)
(*               however the network cuts them (LinesComeWhole);           *)
(*   TgeLzo      any number of tools leave one name with all of the data   *)
(*               (DataAlwaysSurvive);                                      *)
(*   Csv         the entries of a file of the index are read back from it  *)
(*               (EntriesReadBack);                                        *)
(*   CompressionControl                                                    *)
(*               the type of a file is the one the rules mean              *)
(*               (RulesAlwaysObeyed);                                      *)
(*   Sha2        the blocks hashed are those of the padded message,        *)
(*               however it comes in pieces (MessagesHashed);              *)
(*   SpecialFiles                                                          *)
(*               the calls agree on what there is below /proc, and the     *)
(*               level is read whole (HandlersAlwaysAgree);                *)
(*   AppConfig   the cache directory is the one that the file names for    *)
(*               this host (ConfigAlwaysHonoured).                         *)
(* The first part of the proofs is about texts put together of pieces,     *)
(* where what FlattenSeq computes is settled by the least counterexample.  *)
(***************************************************************************)
EXTENDS Parts, SequenceTheorems, WellFoundedInduction, TLAPS

------------------------------------------------------------------------------
(* Texts. *)

LEMMA LeastOne == ASSUME NEW T \in SUBSET Nat, T # {} PROVE \E n \in T : \A m \in T : n <= m
<1>1. IsWellFoundedOn(OpToRel(<, Nat), Nat)
  BY NatLessThanWellFounded
<1> DEFINE R == OpToRel(<, Nat)
<1>2. PICK n \in T : \A m \in T : ~(<<m, n>> \in R)
  <2> HIDE DEF R
  <2> QED
    BY <1>1, WFMin DEF R
<1>3. \A m \in T : ~(m < n)
  BY <1>2 DEF OpToRel
<1> QED
  BY <1>3

(* f puts the first n of the texts together, one after the other. *)
Joins(f, texts, n) == \A i \in 1..n : f[i] = IF i = 1 THEN texts[i] ELSE f[i - 1] \o texts[i]

LEMMA JoinExists ==
  ASSUME NEW B, NEW texts \in Seq(Seq(B)), NEW n \in 0..Len(texts)
  PROVE  \E f \in [1..n -> Seq(B)] : Joins(f, texts, n)
<1> DEFINE Joined(k) == \E f \in [1..k -> Seq(B)] : Joins(f, texts, k)
           Bad == {k \in 0..Len(texts) : ~Joined(k)}
<1>1. Joined(0)
  <2> DEFINE e == [i \in 1..0 |-> <<>>]
  <2>1. e \in [1..0 -> Seq(B)] /\ 1..0 = {}
    OBVIOUS
  <2>2. Joins(e, texts, 0)
    BY DEF Joins
  <2> QED
    BY <2>1, <2>2
<1>2. ASSUME NEW k \in 0..Len(texts), k # 0, Joined(k - 1) PROVE Joined(k)
  <2>1. k \in Nat /\ k - 1 \in Nat /\ k \in 1..Len(texts)
    BY <1>2
  <2>2. PICK f \in [1..(k - 1) -> Seq(B)] : Joins(f, texts, k - 1)
    BY <1>2
  <2>3. texts[k] \in Seq(B)
    BY <2>1
  <2> DEFINE g == [i \in 1..k |-> IF i < k THEN f[i]
                                  ELSE IF k = 1 THEN texts[k] ELSE f[k - 1] \o texts[k]]
  <2>4. k # 1 => f[k - 1] \in Seq(B) /\ f[k - 1] \o texts[k] \in Seq(B)
    <3>1. k # 1 => k - 1 \in 1..(k - 1)
      BY <2>1
    <3>2. k # 1 => f[k - 1] \in Seq(B)
      BY <2>2, <3>1
    <3> QED
      BY <2>3, <3>2, ConcatProperties
  <2>5. \A i \in 1..k : i < k => i \in 1..(k - 1)
    BY <2>1
  <2>6. g \in [1..k -> Seq(B)]
    BY <2>2, <2>3, <2>4, <2>5
  <2>7. Joins(g, texts, k)
    <3> SUFFICES ASSUME NEW i \in 1..k
                 PROVE  g[i] = IF i = 1 THEN texts[i] ELSE g[i - 1] \o texts[i]
      BY DEF Joins
    <3>1. CASE i < k
      <4>1. i \in 1..(k - 1) /\ (i # 1 => i - 1 \in 1..k /\ i - 1 < k)
        BY <2>1, <3>1
      <4>2. f[i] = IF i = 1 THEN texts[i] ELSE f[i - 1] \o texts[i]
        BY <2>2, <4>1 DEF Joins
      <4>3. g[i] = f[i] /\ (i # 1 => g[i - 1] = f[i - 1])
        BY <3>1, <4>1
      <4> HIDE DEF g
      <4> QED
        BY <4>2, <4>3
    <3>2. CASE i = k
      <4>1. k # 1 => k - 1 \in 1..k /\ k - 1 < k
        BY <2>1
      <4>2. k # 1 => g[k - 1] = f[k - 1]
        BY <4>1
      <4>3. g[k] = IF k = 1 THEN texts[k] ELSE f[k - 1] \o texts[k]
        BY <2>1
      <4> HIDE DEF g
      <4> QED
        BY <3>2, <4>2, <4>3
    <3> QED
      BY <2>1, <3>1, <3>2
  <2> HIDE DEF g
  <2> QED
    BY <2>6, <2>7
<1>3. CASE Bad = {}
  BY <1>3
<1>4. CASE Bad # {}
  <2>1. Bad \in SUBSET Nat
    OBVIOUS
  <2>2. PICK k \in Bad : \A j \in Bad : k <= j
    <3> HIDE DEF Bad
    <3> QED
      BY <1>4, <2>1, LeastOne
  <2>3. k \in 0..Len(texts) /\ ~Joined(k)
    OBVIOUS
  <2>4. k # 0
    BY <1>1, <2>3
  <2>5. k - 1 \in 0..Len(texts) /\ ~(k <= k - 1)
    BY <2>3, <2>4
  <2>6. Joined(k - 1)
    BY <2>2, <2>5
  <2> HIDE DEF Joined
  <2> QED
    BY <1>2, <2>3, <2>4, <2>6
<1> QED
  BY <1>3, <1>4

LEMMA JoinUnique ==
  ASSUME NEW texts, NEW n \in Nat, NEW f, NEW g, Joins(f, texts, n), Joins(g, texts, n)
  PROVE  \A i \in 1..n : f[i] = g[i]
<1> DEFINE Bad == {i \in 1..n : f[i] # g[i]}
<1>1. CASE Bad = {}
  BY <1>1
<1>2. CASE Bad # {}
  <2>1. Bad \in SUBSET Nat
    OBVIOUS
  <2>2. PICK i \in Bad : \A j \in Bad : i <= j
    <3> HIDE DEF Bad
    <3> QED
      BY <1>2, <2>1, LeastOne
  <2>3. i \in 1..n /\ f[i] # g[i]
    OBVIOUS
  <2>4. i # 1
    BY <2>3 DEF Joins
  <2>5. i - 1 \in 1..n /\ ~(i <= i - 1)
    BY <2>3, <2>4
  <2>6. f[i - 1] = g[i - 1]
    BY <2>2, <2>5
  <2> QED
    BY <2>3, <2>4, <2>6 DEF Joins
<1> QED
  BY <1>1, <1>2

LEMMA FlattenIs ==
  ASSUME NEW B, NEW texts \in Seq(Seq(B)), Len(texts) # 0, NEW f, Joins(f, texts, Len(texts))
  PROVE  FlattenSeq(texts) = f[Len(texts)]
<1>1. Len(texts) \in Nat /\ Len(texts) \in 1..Len(texts)
  OBVIOUS
<1> DEFINE it == CHOOSE h : h = [i \in 1..Len(texts) |-> IF i = 1 THEN texts[i] ELSE h[i - 1] \o texts[i]]
<1>2. PICK g : g = [i \in 1..Len(texts) |-> IF i = 1 THEN texts[i] ELSE g[i - 1] \o texts[i]]
  <2>1. PICK h \in [1..Len(texts) -> Seq(B)] : Joins(h, texts, Len(texts))
    <3>1. Len(texts) \in 0..Len(texts)
      BY <1>1
    <3> QED
      BY <3>1, JoinExists
  <2>2. h = [i \in 1..Len(texts) |-> IF i = 1 THEN texts[i] ELSE h[i - 1] \o texts[i]]
    BY <2>1 DEF Joins
  <2> QED
    BY <2>2
<1>3. it = [i \in 1..Len(texts) |-> IF i = 1 THEN texts[i] ELSE it[i - 1] \o texts[i]]
  BY <1>2, Zenon
<1>4. FlattenSeq(texts) = it[Len(texts)]
  BY Zenon DEF FlattenSeq
<1> HIDE DEF it
<1>5. Joins(it, texts, Len(texts))
  BY <1>3, Zenon DEF Joins
<1> QED
  BY <1>1, <1>4, <1>5, JoinUnique

LEMMA FlattenEmpty == FlattenSeq(<<>>) = <<>>
BY DEF FlattenSeq

LEMMA FlattenType ==
  ASSUME NEW B, NEW texts \in Seq(Seq(B)) PROVE FlattenSeq(texts) \in Seq(B)
<1>1. CASE Len(texts) = 0
  <2>1. texts = <<>>
    BY <1>1, EmptySeq
  <2>2. <<>> \in Seq(B)
    OBVIOUS
  <2> QED
    BY <2>1, <2>2, FlattenEmpty
<1>2. CASE Len(texts) # 0
  <2>1. Len(texts) \in 0..Len(texts) /\ Len(texts) \in 1..Len(texts)
    BY <1>2
  <2>2. PICK f \in [1..Len(texts) -> Seq(B)] : Joins(f, texts, Len(texts))
    BY <2>1, JoinExists
  <2> QED
    BY <1>2, <2>1, <2>2, FlattenIs
<1> QED
  BY <1>1, <1>2

LEMMA FlattenAppend ==
  ASSUME NEW B, NEW texts \in Seq(Seq(B)), NEW text \in Seq(B)
  PROVE  FlattenSeq(Append(texts, text)) = FlattenSeq(texts) \o text
<1> DEFINE n == Len(texts)
<1>1. PICK all \in Seq(Seq(B)) : all = Append(texts, text)
  BY AppendProperties
<1>2. n \in Nat /\ Len(all) = n + 1 /\ all[n + 1] = text /\ \A i \in 1..n : all[i] = texts[i]
  BY <1>1, AppendProperties
<1>3. n + 1 \in 0..Len(all) /\ Len(all) # 0
  BY <1>2
<1>4. PICK f \in [1..(n + 1) -> Seq(B)] : Joins(f, all, n + 1)
  BY <1>3, JoinExists
<1>5. FlattenSeq(all) = f[n + 1]
  BY <1>2, <1>3, <1>4, FlattenIs
<1>6. CASE n = 0
  <2>1. texts = <<>>
    BY <1>6, EmptySeq
  <2>2. f[1] = text
    BY <1>2, <1>4, <1>6 DEF Joins
  <2>3. <<>> \o text = text
    BY ConcatEmptySeq
  <2> QED
    BY <1>1, <1>5, <1>6, <2>1, <2>2, <2>3, FlattenEmpty
<1>7. CASE n # 0
  <2>1. f[n + 1] = f[n] \o text
    <3>1. n + 1 \in 1..(n + 1) /\ n + 1 # 1 /\ (n + 1) - 1 = n
      BY <1>2, <1>7
    <3>2. f[n + 1] = f[(n + 1) - 1] \o all[n + 1]
      BY <1>4, <3>1 DEF Joins
    <3> QED
      BY <1>2, <3>1, <3>2
  <2>2. Joins(f, texts, n)
    <3> SUFFICES ASSUME NEW i \in 1..n
                 PROVE  f[i] = IF i = 1 THEN texts[i] ELSE f[i - 1] \o texts[i]
      BY DEF Joins
    <3>1. i \in 1..(n + 1) /\ all[i] = texts[i]
      BY <1>2
    <3> QED
      BY <1>4, <3>1 DEF Joins
  <2>3. FlattenSeq(texts) = f[n]
    BY <1>7, <2>2, FlattenIs
  <2> QED
    BY <1>1, <1>5, <2>1, <2>3
<1> QED
  BY <1>6, <1>7

LEMMA PrefixIs ==
  ASSUME NEW B, NEW s \in Seq(B), NEW t \in Seq(B)
  PROVE  IsPrefix(s, t) <=> Len(s) <= Len(t) /\ \A i \in 1..Len(s) : s[i] = t[i]
<1>1. Len(s) \in Nat /\ Len(t) \in Nat
  OBVIOUS
<1>2. CASE Len(s) <= Len(t)
  <2>1. PICK x \in Seq(B) : x = SubSeq(t, 1, Len(s)) /\ Len(x) = Len(s) /\ \A i \in 1..Len(s) : x[i] = t[i]
    <3>1. \A i \in 1..Len(s) : t[i] \in B
      BY <1>1, <1>2
    <3>2. SubSeq(t, 1, Len(s)) \in Seq(B)
      BY <1>1, <3>1, SubSeqProperties
    <3>3. Len(SubSeq(t, 1, Len(s))) = Len(s) /\ \A i \in 1..Len(s) : SubSeq(t, 1, Len(s))[i] = t[i]
      BY <1>1, <3>1, SubSeqProperties
    <3> QED
      BY <3>2, <3>3
  <2>2. SubSeq(s, 1, Len(s)) = s
    BY SubSeqFull
  <2>3. s = x <=> \A i \in 1..Len(s) : s[i] = x[i]
    BY <2>1, SeqEqual
  <2> QED
    BY <1>2, <2>1, <2>2, <2>3 DEF IsPrefix
<1>3. CASE ~(Len(s) <= Len(t))
  BY <1>3 DEF IsPrefix
<1> QED
  BY <1>2, <1>3

LEMMA PrefixTrans ==
  ASSUME NEW B, NEW s \in Seq(B), NEW t \in Seq(B), NEW u \in Seq(B), IsPrefix(s, t), IsPrefix(t, u)
  PROVE  IsPrefix(s, u)
<1>1. Len(s) \in Nat /\ Len(t) \in Nat /\ Len(u) \in Nat
  OBVIOUS
<1>2. Len(s) <= Len(t) /\ \A i \in 1..Len(s) : s[i] = t[i]
  BY PrefixIs
<1>3. Len(t) <= Len(u) /\ \A i \in 1..Len(t) : t[i] = u[i]
  BY PrefixIs
<1>4. Len(s) <= Len(u) /\ \A i \in 1..Len(s) : s[i] = u[i]
  BY <1>1, <1>2, <1>3
<1> QED
  BY <1>4, PrefixIs

Assoc(a, b, c) == (a \o b) \o c = a \o (b \o c)

LEMMA Associates == ASSUME NEW B, NEW a \in Seq(B), NEW b \in Seq(B), NEW c \in Seq(B) PROVE Assoc(a, b, c)
BY DEF Assoc

(* u is s followed by t. *)
IsJoin(u, s, t) == u = s \o t

LEMMA ConcatIs ==
  ASSUME NEW B, NEW s \in Seq(B), NEW t \in Seq(B), NEW u, IsJoin(u, s, t)
  PROVE  /\ u \in Seq(B) /\ Len(u) = Len(s) + Len(t)
         /\ \A i \in 1..Len(s) : u[i] = s[i]
         /\ \A i \in 1..Len(t) : u[Len(s) + i] = t[i]
<1>0. u = s \o t
  BY DEF IsJoin
<1>1. u \in Seq(B) /\ Len(u) = Len(s) + Len(t)
  BY <1>0, ConcatProperties
<1>2. Len(s) \in Nat /\ Len(t) \in Nat
  OBVIOUS
<1>3. \A i \in 1..Len(s) : u[i] = s[i]
  BY <1>0, <1>2
<1>4. \A i \in 1..Len(t) : u[Len(s) + i] = t[i]
  BY <1>0, <1>2
<1> QED
  BY <1>1, <1>3, <1>4

LEMMA PrefixOfConcat ==
  ASSUME NEW B, NEW s \in Seq(B), NEW t \in Seq(B) PROVE IsPrefix(s, s \o t) /\ s \o t \in Seq(B)
<1>0. PICK u \in Seq(B) : u = s \o t
  BY ConcatProperties
<1>1. Len(s) \in Nat /\ Len(t) \in Nat /\ Len(u) = Len(s) + Len(t) /\ \A i \in 1..Len(s) : u[i] = s[i]
  BY <1>0
<1>2. Len(s) <= Len(u) /\ \A i \in 1..Len(s) : s[i] = u[i]
  BY <1>1
<1>3. IsPrefix(s, u)
  BY <1>2, PrefixIs
<1> QED
  BY <1>0, <1>3

LEMMA PrefixRefl == ASSUME NEW B, NEW s \in Seq(B) PROVE IsPrefix(s, s)
BY DEF IsPrefix

LEMMA PrefixFull ==
  ASSUME NEW B, NEW s \in Seq(B), NEW t \in Seq(B), IsPrefix(s, t), Len(t) <= Len(s) PROVE s = t
<1>1. Len(s) \in Nat /\ Len(t) \in Nat
  OBVIOUS
<1>2. Len(s) <= Len(t) /\ \A i \in 1..Len(s) : s[i] = t[i]
  BY PrefixIs
<1> QED
  BY <1>1, <1>2, SeqEqual

(* s, cut after n. *)
LEMMA CutAt ==
  ASSUME NEW B, NEW s \in Seq(B), NEW n \in 0..Len(s)
  PROVE  /\ SubSeq(s, 1, n) \in Seq(B) /\ SubSeq(s, n + 1, Len(s)) \in Seq(B)
         /\ SubSeq(s, 1, n) \o SubSeq(s, n + 1, Len(s)) = s
         /\ Len(SubSeq(s, 1, n)) = n /\ Len(SubSeq(s, n + 1, Len(s))) = Len(s) - n
         /\ \A i \in 1..n : SubSeq(s, 1, n)[i] = s[i]
<1>1. Len(s) \in Nat /\ n \in Nat /\ \A i \in 1..Len(s) : s[i] \in B
  OBVIOUS
<1>2. SubSeq(s, 1, n) \in Seq(B) /\ Len(SubSeq(s, 1, n)) = n /\ \A i \in 1..n : SubSeq(s, 1, n)[i] = s[i]
  <2>1. \A i \in 1..n : s[i] \in B
    BY <1>1
  <2> QED
    BY <1>1, <2>1, SubSeqProperties
<1>3. SubSeq(s, n + 1, Len(s)) \in Seq(B) /\ Len(SubSeq(s, n + 1, Len(s))) = Len(s) - n
  <2>1. \A i \in n + 1..Len(s) : s[i] \in B
    BY <1>1
  <2> QED
    BY <1>1, <2>1, SubSeqProperties
<1>4. SubSeq(s, 1, n) \o SubSeq(s, n + 1, Len(s)) = SubSeq(s, 1, Len(s))
  <2>1. 1 \in 1..Len(s) + 1 /\ n \in 1 - 1..Len(s) /\ Len(s) \in n..Len(s)
    BY <1>1
  <2> QED
    BY <2>1, ConcatAdjacentSubSeq
<1> QED
  BY <1>2, <1>3, <1>4, SubSeqFull

LEMMA CutAlong ==
  ASSUME NEW B, NEW s \in Seq(B), NEW n \in Nat
  PROVE  /\ First(n, s) \in Seq(B) /\ After(Least(n, Len(s)), s) \in Seq(B)
         /\ First(n, s) \o After(Least(n, Len(s)), s) = s
         /\ Len(First(n, s)) = Least(n, Len(s))
         /\ Len(After(Least(n, Len(s)), s)) = Len(s) - Least(n, Len(s))
         /\ \A i \in 1..Least(n, Len(s)) : First(n, s)[i] = s[i]
<1>1. Least(n, Len(s)) \in 0..Len(s)
  BY DEF Least
<1> QED
  BY <1>1, CutAt DEF First, After

(* Where two ways to cut a sequence meet. *)
LEMMA SameParts ==
  ASSUME NEW B, NEW s \in Seq(B), NEW t \in Seq(B), NEW u \in Seq(B), NEW v \in Seq(B),
         NEW w, IsJoin(w, s, t), IsJoin(w, u, v), Len(s) = Len(u)
  PROVE  s = u /\ t = v
<1>2. /\ Len(w) = Len(s) + Len(t) /\ \A i \in 1..Len(s) : w[i] = s[i]
      /\ \A i \in 1..Len(t) : w[Len(s) + i] = t[i]
  BY ConcatIs
<1>3. /\ Len(w) = Len(u) + Len(v) /\ \A i \in 1..Len(u) : w[i] = u[i]
      /\ \A i \in 1..Len(v) : w[Len(u) + i] = v[i]
  BY ConcatIs
<1>4. s = u
  BY <1>2, <1>3, SeqEqual
<1>5. t = v
  <2>1. Len(t) = Len(v) /\ Len(s) \in Nat /\ Len(t) \in Nat
    BY <1>2, <1>3
  <2>2. \A i \in 1..Len(t) : t[i] = v[i]
    BY <1>2, <1>3, <2>1
  <2> QED
    BY <2>1, <2>2, SeqEqual
<1> QED
  BY <1>4, <1>5

------------------------------------------------------------------------------
(* The format of the stream. *)

(* What a file may consist of. *)
Cell == Byte \cup ({"header"} \X Nat) \cup ({"int"} \X Int \X Nat) \cup ({"packed"} \X Block \X Nat)
          \cup {Damaged, Mark}

LEMMA ByteCell == Byte \subseteq Cell /\ Seq(Byte) \subseteq Seq(Cell)
<1>1. Byte \subseteq Cell
  BY DEF Cell
<1> QED
  BY <1>1, SeqMonotonic

LEMMA OfInt ==
  ASSUME DataAssumption, NEW c \in Cell, c[1] = "int" PROVE c[2] \in Int
<1>1. c \notin Byte
  BY DEF DataAssumption
<1>2. c # Damaged /\ c # Mark
  BY DEF Damaged, Mark
<1>3. c \notin {"header"} \X Nat /\ c \notin {"packed"} \X Block \X Nat
  OBVIOUS
<1>4. c \in {"int"} \X Int \X Nat
  BY <1>1, <1>2, <1>3 DEF Cell
<1> QED
  BY <1>4

LEMMA OfPacked ==
  ASSUME DataAssumption, NEW c \in Cell, c[1] = "packed" PROVE c[2] \in Block
<1>1. c \notin Byte
  BY DEF DataAssumption
<1>2. c # Damaged /\ c # Mark
  BY DEF Damaged, Mark
<1>3. c \notin {"header"} \X Nat /\ c \notin {"int"} \X Int \X Nat
  OBVIOUS
<1>4. c \in {"packed"} \X Block \X Nat
  BY <1>1, <1>2, <1>3 DEF Cell
<1> QED
  BY <1>4

LEMMA BlockIs == ASSUME LengthsAssumption, NEW b \in Block
                 PROVE b \in Seq(Byte) /\ Len(b) \in 1..InBlock /\ b \in Seq(Cell) /\ Len(b) \in Nat
<1>1. PICK n \in 1..InBlock : b \in [1..n -> Byte]
  BY DEF Block
<1>2. n \in Nat
  BY DEF LengthsAssumption
<1>3. b \in Seq(Byte) /\ Len(b) = n
  BY <1>1, <1>2
<1> QED
  BY <1>2, <1>3, ByteCell

LEMMA HeaderIs == ASSUME LengthsAssumption PROVE Header \in Seq(Cell) /\ Len(Header) = HeaderLength
<1>1. HeaderLength \in Nat
  BY DEF LengthsAssumption
<1>2. \A i \in 1..HeaderLength : <<"header", i>> \in Cell
  BY DEF Cell
<1>3. Header \in [1..HeaderLength -> Cell]
  BY <1>2 DEF Header
<1> QED
  BY <1>1, <1>3

LEMMA IntIs ==
  ASSUME LengthsAssumption, NEW n \in Int
  PROVE  IntBytes(n) \in Seq(Cell) /\ Len(IntBytes(n)) = IntLength
<1>1. IntLength \in Nat
  BY DEF LengthsAssumption
<1>2. \A i \in 1..IntLength : <<"int", n, i>> \in Cell
  BY DEF Cell
<1>3. IntBytes(n) \in [1..IntLength -> Cell]
  BY <1>2 DEF IntBytes
<1> QED
  BY <1>1, <1>3

LEMMA PackedIs ==
  ASSUME DataAssumption, NEW b \in Block
  PROVE  Packed(b) \in Seq(Cell) /\ Len(Packed(b)) = PackedLength(b)
<1>1. PackedLength(b) \in Nat
  BY DEF DataAssumption
<1>2. \A i \in 1..PackedLength(b) : <<"packed", b, i>> \in Cell
  BY DEF Cell
<1>3. Packed(b) \in [1..PackedLength(b) -> Cell]
  BY <1>2 DEF Packed
<1> QED
  BY <1>1, <1>3

(* How long the payload is, by the int before it. *)
Weight(n) == IF n <= 0 THEN 0 - n ELSE n

LEMMA PayloadIs ==
  ASSUME LengthsAssumption, DataAssumption, NEW b \in Block
  PROVE  /\ Payload(b) \in Seq(Cell) /\ Size(b) \in Int
         /\ Len(Payload(b)) = Weight(Size(b)) /\ Weight(Size(b)) \in 1..InBlock
<1>1. Len(b) \in 1..InBlock /\ b \in Seq(Cell) /\ InBlock \in Nat
  BY BlockIs DEF LengthsAssumption
<1>2. PackedLength(b) \in Nat \ {0} /\ Packed(b) \in Seq(Cell) /\ Len(Packed(b)) = PackedLength(b)
  BY PackedIs DEF DataAssumption
<1>3. CASE Packs(b)
  BY <1>1, <1>2, <1>3 DEF Payload, Size, Weight, Packs
<1>4. CASE ~Packs(b)
  BY <1>1, <1>2, <1>4 DEF Payload, Size, Weight
<1> QED
  BY <1>3, <1>4

------------------------------------------------------------------------------
(* How many blocks there are. *)
LEMMA RoundedUp ==
  ASSUME NEW n \in Nat \ {0}, NEW l \in Nat, NEW q, q = (l + n - 1) \div n
  PROVE  q \in Nat /\ l <= q * n /\ q * n < l + n
<1>1. l + n - 1 \in Nat /\ n \in Nat
  OBVIOUS
<1>2. q \in Int /\ q * n <= l + n - 1 /\ l + n - 1 < q * n + n
  BY <1>1
<1>3. q >= 0
  <2>1. CASE q <= -1
    <3>1. q * n <= (0 - 1) * n
      BY <1>1, <1>2, <2>1
    <3> QED
      BY <1>1, <1>2, <3>1
  <2> QED
    BY <1>2, <2>1
<1> QED
  BY <1>2, <1>3

LEMMA FirstMore ==
  ASSUME NEW B, NEW s \in Seq(B), NEW k \in Nat, k < Len(s)
  PROVE  First(k, s) \in Seq(B) /\ s[k + 1] \in B /\ First(k + 1, s) = Append(First(k, s), s[k + 1])
<1>1. Len(s) \in Nat /\ s[k + 1] \in B /\ k + 1 \in Nat
  OBVIOUS
<1>2. PICK a \in Seq(B) : a = First(k, s) /\ Len(a) = k /\ \A i \in 1..k : a[i] = s[i]
  <2>1. Least(k, Len(s)) = k
    BY <1>1 DEF Least
  <2> QED
    BY <2>1, CutAlong
<1>3. PICK b \in Seq(B) : b = First(k + 1, s) /\ Len(b) = k + 1 /\ \A i \in 1..(k + 1) : b[i] = s[i]
  <2>1. PICK n \in Nat : n = k + 1 /\ Least(n, Len(s)) = n
    BY <1>1 DEF Least
  <2>2. /\ First(n, s) \in Seq(B) /\ Len(First(n, s)) = Least(n, Len(s))
        /\ \A i \in 1..Least(n, Len(s)) : First(n, s)[i] = s[i]
    BY CutAlong, Zenon
  <2> QED
    BY <2>1, <2>2
<1>4. PICK c \in Seq(B) : c = Append(a, s[k + 1])
  BY <1>1, AppendProperties
<1>5. Len(c) = k + 1 /\ c[k + 1] = s[k + 1] /\ \A i \in 1..k : c[i] = s[i]
  <2>1. Len(c) = Len(a) + 1 /\ c[Len(a) + 1] = s[k + 1] /\ \A i \in 1..Len(a) : c[i] = a[i]
    BY <1>1, <1>4, AppendProperties
  <2> QED
    BY <1>2, <2>1
<1>6. \A i \in 1..(k + 1) : b[i] = c[i]
  BY <1>3, <1>5
<1>7. b = c
  BY <1>3, <1>5, <1>6, SeqEqual
<1> QED
  BY <1>1, <1>2, <1>3, <1>4, <1>7

LEMMA FirstEnds ==
  ASSUME NEW B, NEW s \in Seq(B) PROVE First(0, s) = <<>> /\ First(Len(s), s) = s
<1>1. Least(0, Len(s)) = 0 /\ Least(Len(s), Len(s)) = Len(s)
  BY DEF Least
<1> QED
  BY <1>1, SubSeqFull, SubSeqEmpty DEF First

LEMMA FlatMore ==
  ASSUME NEW B, NEW s \in Seq(Seq(B)), NEW k \in Nat, k < Len(s)
  PROVE  /\ FlattenSeq(First(k, s)) \in Seq(B) /\ FlattenSeq(First(k + 1, s)) \in Seq(B) /\ s[k + 1] \in Seq(B)
         /\ FlattenSeq(First(k + 1, s)) = FlattenSeq(First(k, s)) \o s[k + 1]
<1>1. /\ First(k, s) \in Seq(Seq(B)) /\ s[k + 1] \in Seq(B)
      /\ First(k + 1, s) = Append(First(k, s), s[k + 1])
  BY FirstMore
<1>2. First(k + 1, s) \in Seq(Seq(B))
  <2>1. PICK n \in Nat : n = k + 1
    OBVIOUS
  <2>2. First(n, s) \in Seq(Seq(B))
    BY CutAlong
  <2> QED
    BY <2>1, <2>2
<1>3. FlattenSeq(First(k, s)) \in Seq(B) /\ FlattenSeq(First(k + 1, s)) \in Seq(B)
  BY <1>1, <1>2, FlattenType
<1>4. FlattenSeq(Append(First(k, s), s[k + 1])) = FlattenSeq(First(k, s)) \o s[k + 1]
  BY <1>1, FlattenAppend
<1> QED
  BY <1>1, <1>3, <1>4

(* What is put together of more texts goes on from what is put together of fewer. *)
LEMMA FlatGrows ==
  ASSUME NEW B, NEW s \in Seq(Seq(B)), NEW k \in Nat, NEW j \in Nat, k <= j, j <= Len(s)
  PROVE  IsPrefix(FlattenSeq(First(k, s)), FlattenSeq(First(j, s)))
<1> DEFINE Bad == {n \in Nat : k <= n /\ n <= Len(s) /\ ~IsPrefix(FlattenSeq(First(k, s)), FlattenSeq(First(n, s)))}
<1>1. SUFFICES ASSUME Bad # {} PROVE FALSE
  OBVIOUS
<1>2. PICK n \in Bad : \A m \in Bad : n <= m
  <2>1. Bad \in SUBSET Nat
    OBVIOUS
  <2> HIDE DEF Bad
  <2> QED
    BY <1>1, <2>1, LeastOne
<1>3. \A m \in Nat : First(m, s) \in Seq(Seq(B))
  BY CutAlong
<1>4. \A m \in Nat : FlattenSeq(First(m, s)) \in Seq(B)
  BY <1>3, FlattenType
<1>5. n # k
  BY <1>2, <1>4, PrefixRefl
<1>6. n - 1 \in Nat /\ k <= n - 1 /\ n - 1 < Len(s) /\ n - 1 + 1 = n
  BY <1>2, <1>5
<1>7. IsPrefix(FlattenSeq(First(k, s)), FlattenSeq(First(n - 1, s)))
  <2>1. n - 1 \notin Bad
    BY <1>2, <1>6
  <2> QED
    BY <1>6, <2>1
<1>8. IsPrefix(FlattenSeq(First(n - 1, s)), FlattenSeq(First(n, s)))
  <2>1. /\ FlattenSeq(First(n - 1, s)) \in Seq(B) /\ s[n] \in Seq(B)
        /\ FlattenSeq(First(n, s)) = FlattenSeq(First(n - 1, s)) \o s[n]
    <3>1. PICK m \in Nat : m = n - 1 /\ m < Len(s) /\ m + 1 = n
      BY <1>6
    <3> QED
      BY <3>1, FlatMore
  <2> QED
    BY <2>1, PrefixOfConcat
<1>9. IsPrefix(FlattenSeq(First(k, s)), FlattenSeq(First(n, s)))
  <2>1. PICK a \in Seq(B), b \in Seq(B), c \in Seq(B) :
          a = FlattenSeq(First(k, s)) /\ b = FlattenSeq(First(n - 1, s)) /\ c = FlattenSeq(First(n, s))
    BY <1>4, <1>6
  <2> QED
    BY <1>7, <1>8, <2>1, PrefixTrans
<1> QED
  BY <1>2, <1>9

------------------------------------------------------------------------------
(* The stream of the first k blocks. *)
PiecesOf(bs) == [k \in DOMAIN bs |-> IntBytes(Size(bs[k])) \o Payload(bs[k])]

Upto(k, bs) == Stream(First(k, bs))

LEMMA PiecesAre ==
  ASSUME LengthsAssumption, DataAssumption, NEW bs \in Seq(Block)
  PROVE  /\ PiecesOf(bs) \in Seq(Seq(Cell)) /\ Len(PiecesOf(bs)) = Len(bs)
         /\ \A k \in 1..Len(bs) : PiecesOf(bs)[k] = IntBytes(Size(bs[k])) \o Payload(bs[k])
<1>1. Len(bs) \in Nat /\ DOMAIN bs = 1..Len(bs)
  OBVIOUS
<1>2. \A k \in 1..Len(bs) : IntBytes(Size(bs[k])) \o Payload(bs[k]) \in Seq(Cell)
  <2> SUFFICES ASSUME NEW k \in 1..Len(bs) PROVE IntBytes(Size(bs[k])) \o Payload(bs[k]) \in Seq(Cell)
    OBVIOUS
  <2>1. bs[k] \in Block
    OBVIOUS
  <2>2. Payload(bs[k]) \in Seq(Cell) /\ Size(bs[k]) \in Int
    BY <2>1, PayloadIs
  <2>3. IntBytes(Size(bs[k])) \in Seq(Cell)
    BY <2>2, IntIs
  <2> QED
    BY <2>2, <2>3, ConcatProperties
<1> QED
  BY <1>1, <1>2 DEF PiecesOf

LEMMA UptoIs ==
  ASSUME LengthsAssumption, DataAssumption, NEW bs \in Seq(Block), NEW k \in Nat, k <= Len(bs)
  PROVE  Upto(k, bs) = Header \o FlattenSeq(First(k, PiecesOf(bs)))
<1>1. PICK few \in Seq(Block) : few = First(k, bs) /\ Len(few) = k /\ \A i \in 1..k : few[i] = bs[i]
  <2>1. Least(k, Len(bs)) = k
    BY DEF Least
  <2> QED
    BY <2>1, CutAlong
<1>2. PICK ps \in Seq(Seq(Cell)) : /\ ps = First(k, PiecesOf(bs)) /\ Len(ps) = k
                                   /\ \A i \in 1..k : ps[i] = PiecesOf(bs)[i]
  <2>1. Least(k, Len(PiecesOf(bs))) = k
    BY PiecesAre DEF Least
  <2> QED
    BY <2>1, PiecesAre, CutAlong
<1>3. PICK qs \in Seq(Seq(Cell)) : /\ qs = PiecesOf(few) /\ Len(qs) = k
                                   /\ \A i \in 1..k : qs[i] = IntBytes(Size(few[i])) \o Payload(few[i])
  BY <1>1, PiecesAre
<1>4. \A i \in 1..k : qs[i] = ps[i]
  <2>1. \A i \in 1..Len(bs) : PiecesOf(bs)[i] = IntBytes(Size(bs[i])) \o Payload(bs[i])
    BY PiecesAre, Zenon
  <2>2. \A i \in 1..k : i \in 1..Len(bs)
    OBVIOUS
  <2> QED
    BY <1>1, <1>2, <1>3, <2>1, <2>2
<1>5. qs = ps
  BY <1>2, <1>3, <1>4, SeqEqual
<1> QED
  BY <1>1, <1>2, <1>3, <1>5 DEF Upto, Stream, PiecesOf

LEMMA UptoType ==
  ASSUME LengthsAssumption, DataAssumption, NEW bs \in Seq(Block), NEW k \in Nat, k <= Len(bs)
  PROVE  Upto(k, bs) \in Seq(Cell)
<1>1. First(k, PiecesOf(bs)) \in Seq(Seq(Cell))
  BY PiecesAre, CutAlong
<1>2. FlattenSeq(First(k, PiecesOf(bs))) \in Seq(Cell)
  BY <1>1, FlattenType
<1> QED
  BY <1>2, HeaderIs, UptoIs, ConcatProperties

LEMMA UptoEnds ==
  ASSUME LengthsAssumption, DataAssumption, NEW bs \in Seq(Block)
  PROVE  Upto(0, bs) = Header /\ Upto(Len(bs), bs) = Stream(bs)
<1>1. First(0, PiecesOf(bs)) = <<>> /\ First(Len(bs), bs) = bs
  BY PiecesAre, FirstEnds
<1>2. Upto(0, bs) = Header \o <<>>
  <2>1. 0 \in Nat /\ 0 <= Len(bs)
    OBVIOUS
  <2>2. Upto(0, bs) = Header \o FlattenSeq(First(0, PiecesOf(bs)))
    BY <2>1, UptoIs
  <2> QED
    BY <1>1, <2>2, FlattenEmpty
<1>3. Header \o <<>> = Header
  BY HeaderIs, ConcatEmptySeq
<1> QED
  BY <1>1, <1>2, <1>3 DEF Upto

LEMMA UptoMore ==
  ASSUME LengthsAssumption, DataAssumption, NEW bs \in Seq(Block), NEW k \in Nat, k < Len(bs)
  PROVE  Upto(k + 1, bs) = (Upto(k, bs) \o IntBytes(Size(bs[k + 1]))) \o Payload(bs[k + 1])
<1>1. PICK ps \in Seq(Seq(Cell)) : ps = PiecesOf(bs) /\ Len(ps) = Len(bs)
  BY PiecesAre
<1>2. ps[k + 1] = IntBytes(Size(bs[k + 1])) \o Payload(bs[k + 1])
  <2>1. PICK j \in 1..Len(bs) : j = k + 1
    OBVIOUS
  <2>2. ps[j] = IntBytes(Size(bs[j])) \o Payload(bs[j])
    BY <1>1, PiecesAre
  <2> QED
    BY <2>1, <2>2
<1>3. /\ FlattenSeq(First(k, ps)) \in Seq(Cell)
      /\ FlattenSeq(First(k + 1, ps)) = FlattenSeq(First(k, ps)) \o ps[k + 1]
  BY <1>1, FlatMore
<1>4. PICK h \in Seq(Cell), f \in Seq(Cell), a \in Seq(Cell), b \in Seq(Cell) :
        /\ h = Header /\ f = FlattenSeq(First(k, ps))
        /\ a = IntBytes(Size(bs[k + 1])) /\ b = Payload(bs[k + 1])
  <2>1. bs[k + 1] \in Block
    OBVIOUS
  <2>2. Size(bs[k + 1]) \in Int /\ Payload(bs[k + 1]) \in Seq(Cell)
    BY <2>1, PayloadIs
  <2> QED
    BY <1>3, <2>2, HeaderIs, IntIs
<1>5. h \o (f \o (a \o b)) = ((h \o f) \o a) \o b
  <2>1. PICK g \in Seq(Cell) : g = h \o f
    BY ConcatProperties
  <2>2. Assoc(g, a, b)
    BY Associates
  <2>3. PICK c \in Seq(Cell) : c = a \o b
    BY ConcatProperties
  <2>4. Assoc(h, f, c)
    BY Associates
  <2> QED
    BY <2>1, <2>2, <2>3, <2>4 DEF Assoc
<1>6. Upto(k, bs) = h \o f /\ Upto(k + 1, bs) = h \o (f \o (a \o b))
  <2>1. PICK n \in Nat : n = k + 1 /\ n <= Len(bs)
    OBVIOUS
  <2>2. Upto(k, bs) = Header \o FlattenSeq(First(k, ps)) /\ Upto(n, bs) = Header \o FlattenSeq(First(n, ps))
    <3>1. k <= Len(bs)
      OBVIOUS
    <3>2. Upto(k, bs) = Header \o FlattenSeq(First(k, PiecesOf(bs)))
      BY <3>1, UptoIs
    <3>3. Upto(n, bs) = Header \o FlattenSeq(First(n, PiecesOf(bs)))
      BY <2>1, UptoIs
    <3> QED
      BY <1>1, <3>2, <3>3
  <2>3. FlattenSeq(First(n, ps)) = f \o (a \o b)
    BY <1>2, <1>3, <1>4, <2>1
  <2> QED
    BY <1>4, <2>1, <2>2, <2>3
<1> QED
  BY <1>4, <1>5, <1>6

LEMMA UptoGrows ==
  ASSUME LengthsAssumption, DataAssumption, NEW bs \in Seq(Block),
         NEW k \in Nat, NEW j \in Nat, k <= j, j <= Len(bs)
  PROVE  IsPrefix(Upto(k, bs), Upto(j, bs))
<1>1. PICK h \in Seq(Cell) : h = Header
  BY HeaderIs
<1>2. PICK a \in Seq(Cell), b \in Seq(Cell) :
        a = FlattenSeq(First(k, PiecesOf(bs))) /\ b = FlattenSeq(First(j, PiecesOf(bs))) /\ IsPrefix(a, b)
  <2>1. First(k, PiecesOf(bs)) \in Seq(Seq(Cell)) /\ First(j, PiecesOf(bs)) \in Seq(Seq(Cell))
    BY PiecesAre, CutAlong
  <2>2. FlattenSeq(First(k, PiecesOf(bs))) \in Seq(Cell) /\ FlattenSeq(First(j, PiecesOf(bs))) \in Seq(Cell)
    BY <2>1, FlattenType
  <2> QED
    BY <2>2, PiecesAre, FlatGrows
<1>3. Len(a) <= Len(b) /\ \A i \in 1..Len(a) : a[i] = b[i]
  BY <1>2, PrefixIs
<1>4. PICK x \in Seq(Cell), y \in Seq(Cell) : IsJoin(x, h, a) /\ IsJoin(y, h, b)
  BY ConcatProperties DEF IsJoin
<1>5. /\ Len(x) = Len(h) + Len(a) /\ (\A i \in 1..Len(h) : x[i] = h[i])
      /\ \A i \in 1..Len(a) : x[Len(h) + i] = a[i]
  BY <1>4, ConcatIs
<1>6. /\ Len(y) = Len(h) + Len(b) /\ (\A i \in 1..Len(h) : y[i] = h[i])
      /\ \A i \in 1..Len(b) : y[Len(h) + i] = b[i]
  BY <1>4, ConcatIs
<1>7. Len(x) <= Len(y) /\ \A i \in 1..Len(x) : x[i] = y[i]
  <2>0. Len(h) \in Nat /\ Len(a) \in Nat /\ Len(b) \in Nat
    OBVIOUS
  <2>1. ASSUME NEW i \in 1..Len(x) PROVE x[i] = y[i]
    <3>1. CASE i <= Len(h)
      BY <1>5, <1>6, <3>1
    <3>2. CASE i > Len(h)
      <4>1. PICK j_1 \in 1..Len(a) : i = Len(h) + j_1
        <5>1. i - Len(h) \in 1..Len(a) /\ i = Len(h) + (i - Len(h))
          BY <1>5, <2>0, <3>2
        <5> QED
          BY <5>1
      <4>2. j_1 \in 1..Len(b)
        BY <1>3, <2>0
      <4> QED
        BY <1>3, <1>5, <1>6, <4>1, <4>2
    <3> QED
      BY <2>0, <3>1, <3>2
  <2> QED
    BY <1>3, <1>5, <1>6, <2>0, <2>1
<1>8. IsPrefix(x, y)
  BY <1>7, PrefixIs
<1>9. Upto(k, bs) = x /\ Upto(j, bs) = y
  <2>1. Upto(k, bs) = Header \o FlattenSeq(First(k, PiecesOf(bs)))
    BY UptoIs
  <2>2. Upto(j, bs) = Header \o FlattenSeq(First(j, PiecesOf(bs)))
    BY UptoIs
  <2>3. x = h \o a /\ y = h \o b
    BY <1>4 DEF IsJoin
  <2> HIDE DEF Upto
  <2> QED
    BY <1>1, <1>2, <2>1, <2>2, <2>3
<1> QED
  BY <1>8, <1>9

LEMMA JoinPrefix ==
  ASSUME NEW B, NEW p \in Seq(B), NEW q \in Seq(B), NEW u \in Seq(B), NEW x, NEW y,
         IsJoin(x, p, q), IsJoin(y, p, u), IsPrefix(x, y)
  PROVE  IsPrefix(q, u)
<1>0. Len(p) \in Nat /\ Len(q) \in Nat /\ Len(u) \in Nat
  OBVIOUS
<1>1. x \in Seq(B) /\ Len(x) = Len(p) + Len(q) /\ \A i \in 1..Len(q) : x[Len(p) + i] = q[i]
  BY ConcatIs
<1>2. y \in Seq(B) /\ Len(y) = Len(p) + Len(u) /\ \A i \in 1..Len(u) : y[Len(p) + i] = u[i]
  BY ConcatIs
<1>3. Len(x) <= Len(y) /\ \A i \in 1..Len(x) : x[i] = y[i]
  <2>1. x \in Seq(B) /\ y \in Seq(B)
    BY <1>1, <1>2
  <2> QED
    BY <2>1, PrefixIs
<1>4. ASSUME NEW i \in 1..Len(q) PROVE q[i] = u[i]
  <2>1. Len(p) + i \in 1..Len(x) /\ i \in 1..Len(u)
    BY <1>0, <1>1, <1>2, <1>3
  <2> QED
    BY <1>1, <1>2, <1>3, <2>1
<1>5. Len(q) <= Len(u)
  BY <1>0, <1>1, <1>2, <1>3
<1> QED
  BY <1>4, <1>5, PrefixIs

LEMMA JoinAgree ==
  ASSUME NEW B, NEW p \in Seq(B), NEW q \in Seq(B), NEW u \in Seq(B), NEW t \in Seq(B), NEW x, NEW y,
         IsJoin(x, p, q), IsJoin(y, p, u), IsPrefix(x, t), IsPrefix(y, t),
         NEW i \in 1..Len(q), i \in 1..Len(u)
  PROVE  q[i] = u[i]
<1>0. Len(p) \in Nat /\ Len(q) \in Nat /\ Len(u) \in Nat
  OBVIOUS
<1>1. x \in Seq(B) /\ Len(x) = Len(p) + Len(q) /\ x[Len(p) + i] = q[i]
  BY ConcatIs
<1>2. y \in Seq(B) /\ Len(y) = Len(p) + Len(u) /\ y[Len(p) + i] = u[i]
  BY ConcatIs
<1>3. \A j \in 1..Len(x) : x[j] = t[j]
  <2>1. x \in Seq(B)
    BY <1>1
  <2> QED
    BY <2>1, PrefixIs
<1>4. \A j \in 1..Len(y) : y[j] = t[j]
  <2>1. y \in Seq(B)
    BY <1>2
  <2> QED
    BY <2>1, PrefixIs
<1>5. Len(p) + i \in 1..Len(x) /\ Len(p) + i \in 1..Len(y)
  BY <1>0, <1>1, <1>2
<1> QED
  BY <1>1, <1>2, <1>3, <1>4, <1>5

------------------------------------------------------------------------------
(* The blocks of bs that lie whole in f, as WholeBlocks has it. *)
WholeOf(f, bs) == LET all == {k \in 0..Len(bs) : IsPrefix(Stream(First(k, bs)), f)}
                  IN  First(CHOOSE k \in all : \A j \in all : j <= k, bs)

LEMMA WholeIs ==
  ASSUME LengthsAssumption, DataAssumption, NEW bs \in Seq(Block), NEW f \in Seq(Cell),
         NEW k \in Nat, k <= Len(bs), IsPrefix(Upto(k, bs), f),
         k < Len(bs) => ~IsPrefix(Upto(k + 1, bs), f)
  PROVE  WholeOf(f, bs) = First(k, bs)
<1> DEFINE all == {j \in 0..Len(bs) : IsPrefix(Upto(j, bs), f)}
<1>1. k \in all /\ all \in SUBSET Nat
  OBVIOUS
<1>2. ASSUME NEW j \in all, ~(j <= k) PROVE FALSE
  <2>1. j \in Nat /\ j <= Len(bs) /\ IsPrefix(Upto(j, bs), f) /\ k < Len(bs)
    BY <1>2
  <2>2. PICK n \in Nat : n = k + 1 /\ n <= j /\ n <= Len(bs)
    BY <1>2, <2>1
  <2>3. IsPrefix(Upto(n, bs), Upto(j, bs))
    BY <2>1, <2>2, UptoGrows
  <2>4. Upto(n, bs) \in Seq(Cell) /\ Upto(j, bs) \in Seq(Cell)
    BY <2>1, <2>2, UptoType
  <2>5. IsPrefix(Upto(n, bs), f)
    BY <2>1, <2>3, <2>4, PrefixTrans
  <2> QED
    BY <2>1, <2>2, <2>5
<1>3. (CHOOSE i \in all : \A j \in all : j <= i) = k
  <2> HIDE DEF all
  <2>1. \A j \in all : j <= k
    BY <1>1, <1>2
  <2>2. (CHOOSE i \in all : \A j \in all : j <= i) \in all
        /\ \A j \in all : j <= (CHOOSE i \in all : \A j_1 \in all : j_1 <= i)
    BY <1>1, <2>1
  <2>3. PICK c : c = (CHOOSE i \in all : \A j \in all : j <= i)
    OBVIOUS
  <2>4. c \in all /\ k <= c /\ c <= k
    BY <1>1, <2>1, <2>2, <2>3
  <2>5. c = k
    BY <1>1, <2>4
  <2> QED
    BY <2>3, <2>5
<1> QED
  BY <1>3 DEF WholeOf, Upto

LEMMA UptoNext ==
  ASSUME LengthsAssumption, DataAssumption, NEW bs \in Seq(Block), NEW k \in Nat, k < Len(bs)
  PROVE  /\ Upto(k, bs) \in Seq(Cell) /\ PiecesOf(bs)[k + 1] \in Seq(Cell)
         /\ IsJoin(Upto(k + 1, bs), Upto(k, bs), PiecesOf(bs)[k + 1])
<1>1. PICK p \in Seq(Cell) : p = Upto(k, bs)
  BY UptoType
<1>2. PICK n \in 1..Len(bs) : n = k + 1
  OBVIOUS
<1>3. bs[n] \in Block
  OBVIOUS
<1>4. PICK a \in Seq(Cell), b \in Seq(Cell) : a = IntBytes(Size(bs[n])) /\ b = Payload(bs[n])
  BY <1>3, PayloadIs, IntIs
<1>5. (p \o a) \o b = p \o (a \o b)
  OBVIOUS
<1>6. Upto(n, bs) = (p \o a) \o b
  BY <1>1, <1>2, <1>4, UptoMore
<1>7. PiecesOf(bs)[n] = a \o b /\ a \o b \in Seq(Cell)
  BY <1>4, PiecesAre, ConcatProperties
<1> QED
  BY <1>1, <1>2, <1>5, <1>6, <1>7 DEF IsJoin

(* The next block is not whole in the file. *)
LEMMA NotWhole ==
  ASSUME LengthsAssumption, DataAssumption, NEW bs \in Seq(Block), NEW f \in Seq(Cell), NEW u \in Seq(Cell),
         NEW k \in Nat, k <= Len(bs), IsJoin(f, Upto(k, bs), u),
         k < Len(bs) => ~IsPrefix(PiecesOf(bs)[k + 1], u)
  PROVE  WholeOf(f, bs) = First(k, bs)
<1>1. Upto(k, bs) \in Seq(Cell)
  BY UptoType
<1>2. IsPrefix(Upto(k, bs), f)
  BY <1>1, PrefixOfConcat DEF IsJoin
<1>3. ASSUME k < Len(bs) PROVE ~IsPrefix(Upto(k + 1, bs), f)
  <2>1. PiecesOf(bs)[k + 1] \in Seq(Cell) /\ IsJoin(Upto(k + 1, bs), Upto(k, bs), PiecesOf(bs)[k + 1])
    BY <1>3, UptoNext
  <2> QED
    BY <1>1, <1>3, <2>1, JoinPrefix
<1> QED
  BY <1>2, <1>3, WholeIs

(* And what is there instead is no part of the stream. *)
LEMMA NotThere ==
  ASSUME LengthsAssumption, DataAssumption, NEW bs \in Seq(Block), NEW f \in Seq(Cell), NEW u \in Seq(Cell),
         NEW k \in Nat, k <= Len(bs), IsJoin(f, Upto(k, bs), u),
         k = Len(bs) => u # <<>>,
         k < Len(bs) => \E i \in 1..Len(u) : i <= Len(PiecesOf(bs)[k + 1]) /\ u[i] # PiecesOf(bs)[k + 1][i]
  PROVE  WholeOf(f, bs) = First(k, bs) /\ ~IsPrefix(f, Stream(bs))
<1>1. Upto(k, bs) \in Seq(Cell) /\ Len(bs) \in Nat
  BY UptoType
<1>2. Stream(bs) = Upto(Len(bs), bs) /\ Stream(bs) \in Seq(Cell)
  BY <1>1, UptoEnds, UptoType
<1>3. CASE k = Len(bs)
  <2>1. WholeOf(f, bs) = First(k, bs)
    BY <1>3, NotWhole
  <2>2. PICK p \in Seq(Cell) : p = Stream(bs) /\ IsJoin(f, p, u)
    BY <1>2, <1>3
  <2>3. Len(u) \in Nat /\ Len(u) # 0 /\ Len(p) \in Nat
    BY <1>3
  <2>4. Len(f) = Len(p) + Len(u)
    BY <2>2, ConcatIs
  <2>5. ~(Len(f) <= Len(p))
    BY <2>3, <2>4
  <2> QED
    BY <2>1, <2>2, <2>5 DEF IsPrefix
<1>4. CASE k < Len(bs)
  <2>1. PICK piece \in Seq(Cell) : /\ piece = PiecesOf(bs)[k + 1]
                                   /\ IsJoin(Upto(k + 1, bs), Upto(k, bs), piece)
    BY <1>4, UptoNext
  <2>2. PICK i \in 1..Len(u) : i <= Len(piece) /\ u[i] # piece[i]
    BY <1>4, <2>1
  <2>3. Len(piece) \in Nat /\ i \in 1..Len(piece)
    BY <2>1, <2>2
  <2>4. ~IsPrefix(piece, u)
    BY <2>2, <2>3, PrefixIs
  <2>5. WholeOf(f, bs) = First(k, bs)
    BY <2>1, <2>4, NotWhole
  <2>6. ASSUME IsPrefix(f, Stream(bs)) PROVE FALSE
    <3>1. PICK n \in Nat : n = k + 1 /\ n <= Len(bs)
      BY <1>4
    <3>2. IsPrefix(Upto(n, bs), Stream(bs))
      BY <1>1, <1>2, <3>1, UptoGrows
    <3> QED
      BY <1>1, <1>2, <2>1, <2>2, <2>3, <2>6, <3>1, <3>2, JoinAgree
  <2> QED
    BY <2>5, <2>6
<1> QED
  BY <1>1, <1>3, <1>4

------------------------------------------------------------------------------
(* One step of decompress, on a file of which k blocks have been read. *)

SameJoin(p, a, b, v) == p \o (a \o (b \o v)) = ((p \o a) \o b) \o v

LEMMA Rejoin ==
  ASSUME NEW B, NEW p \in Seq(B), NEW a \in Seq(B), NEW b \in Seq(B), NEW v \in Seq(B)
  PROVE  SameJoin(p, a, b, v)
<1>1. PICK bv \in Seq(B), pa \in Seq(B) : bv = b \o v /\ pa = p \o a
  BY ConcatProperties
<1>2. p \o (a \o bv) = (p \o a) \o bv
  OBVIOUS
<1>3. pa \o (b \o v) = (pa \o b) \o v
  OBVIOUS
<1> QED
  BY <1>1, <1>2, <1>3 DEF SameJoin

(* A block in the stream, its int and its payload. *)
LEMMA PieceIs ==
  ASSUME LengthsAssumption, DataAssumption, NEW bs \in Seq(Block), NEW n \in 1..Len(bs)
  PROVE  \E a \in Seq(Cell), b \in Seq(Cell) :
           /\ a = IntBytes(Size(bs[n])) /\ b = Payload(bs[n]) /\ Size(bs[n]) \in Int
           /\ Len(a) = IntLength /\ Len(b) = Weight(Size(bs[n])) /\ Len(b) \in Nat /\ IntLength \in Nat
           /\ IsJoin(PiecesOf(bs)[n], a, b) /\ PiecesOf(bs)[n] \in Seq(Cell)
           /\ Len(PiecesOf(bs)[n]) = Len(a) + Len(b)
           /\ \A j \in 1..Len(a) : PiecesOf(bs)[n][j] = a[j]
<1>1. bs[n] \in Block
  OBVIOUS
<1>2. PICK a \in Seq(Cell), b \in Seq(Cell) :
        /\ a = IntBytes(Size(bs[n])) /\ b = Payload(bs[n]) /\ Size(bs[n]) \in Int
        /\ Len(a) = IntLength /\ Len(b) = Weight(Size(bs[n]))
  BY <1>1, PayloadIs, IntIs
<1>3. PICK p : p = PiecesOf(bs)[n] /\ IsJoin(p, a, b)
  BY <1>2, PiecesAre DEF IsJoin
<1>4. p \in Seq(Cell) /\ Len(p) = Len(a) + Len(b) /\ \A j \in 1..Len(a) : p[j] = a[j]
  <2>1. p \in Seq(Cell) /\ Len(p) = Len(a) + Len(b)
    BY <1>3, ConcatIs
  <2>2. IsJoin(p, a, b)
    BY <1>3
  <2>3. ASSUME NEW j \in 1..Len(a) PROVE p[j] = a[j]
    BY <2>2, <2>3, ConcatIs
  <2> QED
    BY <2>1, <2>3
<1>5. Len(b) \in Nat /\ IntLength \in Nat
  BY DEF LengthsAssumption
<1> QED
  BY <1>2, <1>3, <1>4, <1>5

(* The first k blocks of bs have been read from f into c, and u has not. *)
Tracks(k, bs, f, u, c) == IsJoin(f, Upto(k, bs), u) /\ c = FlattenSeq(First(k, bs))

(* Reading has come to something that is no part of the stream. *)
Off(bs, f, c) == /\ \E k \in Nat : WholeOf(f, bs) = First(k, bs) /\ IsPrefix(FlattenSeq(First(k, bs)), c)
                 /\ ~IsPrefix(f, Stream(bs))

Over(bs, f, c) == /\ IsPrefix(FlattenSeq(WholeOf(f, bs)), c)
                  /\ IsPrefix(f, Stream(bs)) => c = FlattenSeq(WholeOf(f, bs))

LEMMA FlatType ==
  ASSUME LengthsAssumption, NEW bs \in Seq(Block), NEW k \in Nat
  PROVE  First(k, bs) \in Seq(Block) /\ FlattenSeq(First(k, bs)) \in Seq(Cell)
<1>1. First(k, bs) \in Seq(Block)
  BY CutAlong
<1>2. Seq(Block) \subseteq Seq(Seq(Cell))
  <2>1. Block \subseteq Seq(Cell)
    BY BlockIs
  <2> QED
    BY <2>1, SeqMonotonic
<1>3. First(k, bs) \in Seq(Seq(Cell))
  BY <1>1, <1>2
<1> QED
  BY <1>1, <1>3, FlattenType

LEMMA SizeEnd ==
  ASSUME LengthsAssumption, DataAssumption, NEW bs \in Seq(Block), NEW f \in Seq(Cell), NEW u \in Seq(Cell),
         NEW k \in Nat, k <= Len(bs), NEW c, Tracks(k, bs, f, u, c), Len(u) < IntLength
  PROVE  Over(bs, f, c)
<1>1. ASSUME k < Len(bs) PROVE ~IsPrefix(PiecesOf(bs)[k + 1], u)
  <2>1. PICK n \in 1..Len(bs) : n = k + 1
    BY <1>1
  <2>2. PICK a \in Seq(Cell), b \in Seq(Cell) :
          Len(a) = IntLength /\ Len(b) \in Nat /\ IntLength \in Nat /\ Len(PiecesOf(bs)[n]) = Len(a) + Len(b)
    BY PieceIs
  <2>3. ~(Len(PiecesOf(bs)[n]) <= Len(u))
    BY <2>2
  <2> QED
    BY <2>1, <2>3 DEF IsPrefix
<1>2. WholeOf(f, bs) = First(k, bs)
  BY <1>1, NotWhole DEF Tracks
<1> QED
  BY <1>2, FlatType, PrefixRefl DEF Over, Tracks

LEMMA SizeStep ==
  ASSUME LengthsAssumption, DataAssumption, NEW bs \in Seq(Block), NEW f \in Seq(Cell), NEW u \in Seq(Cell),
         NEW k \in Nat, k <= Len(bs), NEW c, Tracks(k, bs, f, u, c),
         NEW x \in Seq(Cell), NEW v \in Seq(Cell), IsJoin(u, x, v), Len(x) = IntLength,
         NEW m \in SizesRead(x)
  PROVE  \/ k < Len(bs) /\ m = Size(bs[k + 1]) /\ Tracks(k, bs, f, IntBytes(m) \o v, c)
         \/ Off(bs, f, c)
<1>0. IntLength \in Nat \ {0} /\ Len(bs) \in Nat
  BY DEF LengthsAssumption
<1>1. Len(u) = Len(x) + Len(v) /\ Len(v) \in Nat /\ \A i \in 1..Len(x) : u[i] = x[i]
  BY ConcatIs
<1>2. u # <<>>
  <2>1. Len(u) # 0
    BY <1>0, <1>1
  <2> QED
    BY <2>1
<1>3. CASE k = Len(bs)
  <2>1. WholeOf(f, bs) = First(k, bs) /\ ~IsPrefix(f, Stream(bs))
    BY <1>2, <1>3, NotThere DEF Tracks
  <2> QED
    BY <2>1, FlatType, PrefixRefl DEF Off, Tracks
<1>4. CASE k < Len(bs)
  <2>1. PICK n \in 1..Len(bs) : n = k + 1
    BY <1>4
  <2>3. PICK a \in Seq(Cell), b \in Seq(Cell) :
          /\ a = IntBytes(Size(bs[n])) /\ b = Payload(bs[n]) /\ Len(a) = IntLength /\ Size(bs[n]) \in Int
          /\ IsJoin(PiecesOf(bs)[n], a, b) /\ PiecesOf(bs)[n] \in Seq(Cell)
          /\ Len(PiecesOf(bs)[n]) = Len(a) + Len(b)
          /\ \A j \in 1..Len(a) : PiecesOf(bs)[n][j] = a[j]
    BY PieceIs
  <2>4. CASE x = a
    <3>1. x[1] = <<"int", Size(bs[n]), 1>>
      BY <1>0, <2>3, <2>4 DEF IntBytes
    <3>2. SizesRead(x) = {Size(bs[n])}
      BY <2>3, <2>4, <3>1 DEF SizesRead
    <3>3. m = Size(bs[n]) /\ IntBytes(m) \o v = u
      BY <2>3, <2>4, <3>2 DEF IsJoin
    <3> QED
      BY <1>4, <2>1, <3>3
  <2>5. CASE x # a
    <3>1. PICK i \in 1..IntLength : x[i] # a[i]
      BY <1>0, <2>3, <2>5, SeqEqual
    <3>2. PICK p \in Seq(Cell) : IsJoin(p, a, b) /\ p = PiecesOf(bs)[n]
      BY <2>3
    <3>3. Len(p) = Len(a) + Len(b) /\ \A j \in 1..Len(a) : p[j] = a[j]
      BY <2>3, <3>2
    <3>6. Len(b) \in Nat
      OBVIOUS
    <3>4. i \in 1..Len(u) /\ i <= Len(p) /\ u[i] # p[i]
      BY <1>0, <1>1, <2>3, <3>1, <3>3, <3>6
    <3>5. WholeOf(f, bs) = First(k, bs) /\ ~IsPrefix(f, Stream(bs))
      BY <1>4, <2>1, <3>2, <3>4, NotThere DEF Tracks
    <3> QED
      BY <3>5, FlatType, PrefixRefl DEF Off, Tracks
  <2> QED
    BY <2>4, <2>5
<1> QED
  BY <1>0, <1>3, <1>4

LEMMA BlockEnd ==
  ASSUME LengthsAssumption, DataAssumption, NEW bs \in Seq(Block), NEW f \in Seq(Cell), NEW u \in Seq(Cell),
         NEW k \in Nat, k < Len(bs), NEW c, NEW m, m = Size(bs[k + 1]),
         Tracks(k, bs, f, IntBytes(m) \o u, c), Len(u) < Weight(m)
  PROVE  Over(bs, f, c)
<1>1. PICK n \in 1..Len(bs) : n = k + 1
  OBVIOUS
<1>2. PICK a \in Seq(Cell), b \in Seq(Cell) :
        /\ a = IntBytes(m) /\ Len(a) = IntLength /\ Len(b) = Weight(m) /\ Len(b) \in Nat /\ IntLength \in Nat
        /\ Len(PiecesOf(bs)[n]) = Len(a) + Len(b)
  BY <1>1, PieceIs
<1>3. PICK au : IsJoin(au, a, u)
  BY DEF IsJoin
<1>4. au \in Seq(Cell) /\ Len(au) = Len(a) + Len(u)
  BY <1>3, ConcatIs
<1>5. ~(Len(PiecesOf(bs)[n]) <= Len(au))
  <2>1. Len(u) \in Nat
    OBVIOUS
  <2> QED
    BY <1>2, <1>4, <2>1
<1>6. ~IsPrefix(PiecesOf(bs)[k + 1], au)
  BY <1>1, <1>5 DEF IsPrefix
<1>7. IsJoin(f, Upto(k, bs), au)
  BY <1>2, <1>3 DEF Tracks, IsJoin
<1>8. WholeOf(f, bs) = First(k, bs)
  BY <1>4, <1>6, <1>7, NotWhole
<1> QED
  BY <1>8, FlatType, PrefixRefl DEF Over, Tracks

LEMMA BlockStep ==
  ASSUME LengthsAssumption, DataAssumption, NEW bs \in Seq(Block), NEW f \in Seq(Cell), NEW u \in Seq(Cell),
         NEW k \in Nat, k < Len(bs), NEW c, NEW m, m = Size(bs[k + 1]),
         Tracks(k, bs, f, IntBytes(m) \o u, c),
         NEW x \in Seq(Cell), NEW v \in Seq(Cell), IsJoin(u, x, v), Len(x) = Weight(m)
  PROVE  \/ x = Payload(bs[k + 1]) /\ Tracks(k + 1, bs, f, v, c \o bs[k + 1])
         \/ x # Payload(bs[k + 1]) /\ Off(bs, f, c)
<1>1. PICK n \in 1..Len(bs) : n = k + 1
  OBVIOUS
<1>2. bs[n] \in Block
  OBVIOUS
<1>3. PICK a \in Seq(Cell), b \in Seq(Cell) :
        a = IntBytes(m) /\ b = Payload(bs[n]) /\ Len(a) = IntLength /\ Len(b) = Weight(m)
  BY <1>1, <1>2, PayloadIs, IntIs
<1>4. PiecesOf(bs)[n] = a \o b
  BY <1>1, <1>3, PiecesAre
<1>5. PICK au \in Seq(Cell) : au = a \o u /\ IsJoin(au, a, u)
  BY ConcatProperties DEF IsJoin
<1>6. CASE x = b
  <2>1. PICK p \in Seq(Cell) : p = Upto(k, bs)
    BY UptoType
  <2>2. p \o (a \o (b \o v)) = ((p \o a) \o b) \o v
    <3>1. SameJoin(p, a, b, v)
      BY Rejoin
    <3> QED
      BY <3>1 DEF SameJoin
  <2>3. f = p \o (a \o (b \o v))
    BY <1>3, <1>6, <2>1 DEF Tracks, IsJoin
  <2>4. Upto(n, bs) = (p \o a) \o b
    BY <1>1, <1>3, <2>1, UptoMore
  <2>5. IsJoin(f, Upto(n, bs), v)
    BY <2>2, <2>3, <2>4 DEF IsJoin
  <2>6. FlattenSeq(First(k + 1, bs)) = FlattenSeq(First(k, bs)) \o bs[k + 1]
    <3>1. bs \in Seq(Seq(Cell))
      <4>1. Block \subseteq Seq(Cell)
        BY BlockIs
      <4> QED
        BY <4>1, SeqMonotonic
    <3> QED
      BY <3>1, FlatMore
  <2>7. Tracks(n, bs, f, v, c \o bs[n])
    BY <1>1, <2>5, <2>6 DEF Tracks
  <2> QED
    BY <1>1, <1>3, <1>6, <2>7
<1>7. CASE x # b
  <2>1. PICK i \in 1..Len(x) : x[i] # b[i]
    BY <1>3, <1>7, SeqEqual
  <2>2. PICK p \in Seq(Cell) : IsJoin(p, a, b) /\ p = PiecesOf(bs)[n]
    BY <1>4, ConcatProperties DEF IsJoin
  <2>3. Len(p) = Len(a) + Len(b) /\ \A j \in 1..Len(b) : p[Len(a) + j] = b[j]
    <3>1. IsJoin(p, a, b)
      BY <2>2
    <3> QED
      BY <3>1, ConcatIs
  <2>4. Len(u) = Len(x) + Len(v) /\ \A j \in 1..Len(x) : u[j] = x[j]
    BY ConcatIs, SMTT(30)
  <2>5. Len(au) = Len(a) + Len(u) /\ \A j \in 1..Len(u) : au[Len(a) + j] = u[j]
    BY <1>5, ConcatIs
  <2>6. PICK j \in Nat : j = Len(a) + i
    OBVIOUS
  <2>7. j \in 1..Len(au) /\ j <= Len(p) /\ au[j] # p[j]
    <3>1. Len(a) \in Nat /\ Len(b) \in Nat /\ Len(u) \in Nat /\ Len(x) \in Nat /\ Len(v) \in Nat
      OBVIOUS
    <3>2. i \in 1..Len(u) /\ i \in 1..Len(b)
      BY <1>3, <2>4, <3>1
    <3>3. au[j] = x[i] /\ p[j] = b[i]
      BY <2>3, <2>4, <2>5, <2>6, <3>2
    <3> QED
      BY <2>1, <2>3, <2>5, <2>6, <3>1, <3>2, <3>3
  <2>8. WholeOf(f, bs) = First(k, bs) /\ ~IsPrefix(f, Stream(bs))
    <3>1. IsJoin(f, Upto(k, bs), au) /\ k <= Len(bs) /\ k # Len(bs)
      BY <1>3, <1>5 DEF Tracks
    <3> QED
      BY <1>1, <2>2, <2>7, <3>1, NotThere
  <2> QED
    BY <1>1, <1>3, <1>7, <2>8, FlatType, PrefixRefl DEF Off, Tracks
<1> QED
  BY <1>6, <1>7

LEMMA OffMore ==
  ASSUME LengthsAssumption, NEW bs \in Seq(Block), NEW f, NEW c \in Seq(Cell), NEW d \in Seq(Cell), Off(bs, f, c)
  PROVE  Off(bs, f, c \o d) /\ Over(bs, f, c \o d) /\ Over(bs, f, c)
<1>1. PICK k \in Nat : WholeOf(f, bs) = First(k, bs) /\ IsPrefix(FlattenSeq(First(k, bs)), c)
  BY DEF Off
<1>2. PICK w \in Seq(Cell) : w = FlattenSeq(First(k, bs))
  BY FlatType
<1>3. IsPrefix(c, c \o d) /\ c \o d \in Seq(Cell)
  BY PrefixOfConcat
<1>4. IsPrefix(w, c \o d)
  BY <1>1, <1>2, <1>3, PrefixTrans
<1> QED
  BY <1>1, <1>2, <1>4 DEF Off, Over

------------------------------------------------------------------------------
(* The types, and what the steps of both loops do to them. *)

Storing == {"header", "read", "size", "payload", "flush", "store"}

StreamTypes ==
  /\ original \in Seq(Byte) /\ packing \in BOOLEAN
  /\ rest \in Seq(Cell) /\ buffer \in Seq(Cell) /\ file \in Seq(Cell) /\ copy \in Seq(Cell)
  /\ faults \in Seq({"store", "damage", "copy"})
  /\ head \in Nat /\ head <= Len(buffer) /\ Len(buffer) <= FileBuffer
  /\ phase \in Storing \cup {"stored", "plain", "unpack", "block", "copied"}
  /\ phase \in Storing => rest \in Seq(Byte)
  /\ phase \in Storing \cup {"stored"} => head = 0 /\ copy = <<>>
  /\ phase \in {"size", "payload"} => inblock \in Block
  /\ phase = "block" => inblock \in Int

Unread == After(head, buffer) \o rest

LEMMA GotIs ==
  ASSUME NEW b \in Seq(Cell), NEW r \in Seq(Cell), NEW h \in Nat, NEW n \in Nat, h + n <= Len(b)
  PROVE  /\ SubSeq(b, h + 1, h + n) \in Seq(Cell) /\ Len(SubSeq(b, h + 1, h + n)) = n
         /\ After(h + n, b) \o r \in Seq(Cell)
         /\ IsJoin(After(h, b) \o r, SubSeq(b, h + 1, h + n), After(h + n, b) \o r)
<1>1. Len(b) \in Nat /\ \A i \in 1..Len(b) : b[i] \in Cell
  OBVIOUS
<1>2. SubSeq(b, h + 1, h + n) \in Seq(Cell) /\ Len(SubSeq(b, h + 1, h + n)) = n
  <2>1. \A i \in h + 1..h + n : b[i] \in Cell
    BY <1>1
  <2> QED
    BY <1>1, <2>1, SubSeqProperties
<1>3. PICK k \in 0..Len(b) : k = h + n
  BY <1>1
<1>4. After(h + n, b) \in Seq(Cell)
  BY <1>3, CutAt DEF After
<1>5. SubSeq(b, h + 1, h + n) \o SubSeq(b, h + n + 1, Len(b)) = SubSeq(b, h + 1, Len(b))
  <2>1. h + 1 \in 1..Len(b) + 1 /\ h + n \in (h + 1) - 1..Len(b) /\ Len(b) \in h + n..Len(b)
    BY <1>1
  <2> QED
    BY <2>1, ConcatAdjacentSubSeq
<1>6. PICK x \in Seq(Cell), y \in Seq(Cell) :
        x = SubSeq(b, h + 1, h + n) /\ y = After(h + n, b) /\ After(h, b) = x \o y
  BY <1>2, <1>4, <1>5 DEF After
<1>7. (x \o y) \o r = x \o (y \o r) /\ y \o r \in Seq(Cell)
  <2>1. (x \o y) \o r = x \o (y \o r)
    OBVIOUS
  <2> QED
    BY <2>1, ConcatProperties
<1> QED
  BY <1>2, <1>6, <1>7 DEF IsJoin

LEMMA AfterIs ==
  ASSUME NEW b \in Seq(Cell), NEW h \in Nat, h <= Len(b)
  PROVE  After(h, b) \in Seq(Cell) /\ Len(After(h, b)) = Len(b) - h
<1>1. h \in 0..Len(b)
  OBVIOUS
<1> QED
  BY <1>1, CutAt DEF After

LEMMA UnreadType == ASSUME StreamTypes PROVE Unread \in Seq(Cell)
<1>1. After(head, buffer) \in Seq(Cell)
  BY AfterIs DEF StreamTypes
<1> QED
  BY <1>1, ConcatProperties DEF Unread, StreamTypes

(* What ensure_fbuffer leaves. *)
LEMMA EnsuredIs ==
  ASSUME LengthsAssumption, StreamTypes, NEW n \in Nat, NEW e \in Ensured(n)
  PROVE  /\ e.buffer \in Seq(Cell) /\ e.rest \in Seq(Cell)
         /\ e.head \in Nat /\ e.head <= Len(e.buffer) /\ Len(e.buffer) <= FileBuffer
         /\ e.faults = faults \/ e.faults = Append(faults, "copy")
         /\ After(e.head, e.buffer) \o e.rest = Unread
         /\ e.faults = faults /\ ~Got(e, n) /\ n <= FileBuffer => Len(Unread) < n
<1>0. /\ buffer \in Seq(Cell) /\ rest \in Seq(Cell) /\ head \in Nat /\ head <= Len(buffer)
      /\ Len(buffer) <= FileBuffer /\ FileBuffer \in Nat /\ Len(buffer) \in Nat /\ Len(rest) \in Nat
      /\ faults \in Seq({"store", "damage", "copy"})
  BY DEF StreamTypes, LengthsAssumption
<1>1. PICK kept \in Seq(Cell) : kept = After(head, buffer) /\ Len(kept) = Len(buffer) - head
  BY <1>0, AfterIs
<1>2. PICK room \in Nat : room = FileBuffer - Len(kept)
  <2>1. FileBuffer - Len(kept) \in Nat
    BY <1>0, <1>1
  <2> QED
    BY <2>1
<1>3. PICK more \in Seq(Cell), left \in Seq(Cell) :
        /\ more = First(room, rest) /\ left = After(Len(more), rest) /\ more \o left = rest
        /\ Len(more) = Least(room, Len(rest)) /\ Len(left) = Len(rest) - Len(more)
  <2>1. /\ First(room, rest) \in Seq(Cell) /\ After(Least(room, Len(rest)), rest) \in Seq(Cell)
        /\ First(room, rest) \o After(Least(room, Len(rest)), rest) = rest
        /\ Len(First(room, rest)) = Least(room, Len(rest))
        /\ Len(After(Least(room, Len(rest)), rest)) = Len(rest) - Least(room, Len(rest))
    BY <1>0, CutAlong
  <2> QED
    BY <2>1
<1>4. PICK filled \in Seq(Cell) : filled = kept \o more /\ Len(filled) = Len(kept) + Len(more)
  BY ConcatProperties
<1>5. CASE head + n <= Len(buffer)
  <2>1. e = [buffer |-> buffer, head |-> head, rest |-> rest, faults |-> faults]
    BY <1>5 DEF Ensured
  <2>2. e.buffer = buffer /\ e.head = head /\ e.rest = rest /\ e.faults = faults
    BY <2>1
  <2> QED
    BY <1>0, <1>5, <2>2 DEF Unread, Got
<1>6. CASE ~(head + n <= Len(buffer)) /\ e = [buffer |-> filled, head |-> 0, rest |-> left, faults |-> faults]
  <2>1. e.buffer = filled /\ e.head = 0 /\ e.rest = left /\ e.faults = faults
    BY <1>6
  <2>2. After(0, filled) = filled
    BY SubSeqFull DEF After
  <2>3. filled \o left = Unread
    <3>1. (kept \o more) \o left = kept \o (more \o left)
      OBVIOUS
    <3> QED
      BY <1>1, <1>3, <1>4, <3>1 DEF Unread
  <2>4. Len(filled) <= FileBuffer
    BY <1>0, <1>1, <1>2, <1>3, <1>4 DEF Least
  <2>5. ASSUME ~(Len(filled) >= n), n <= FileBuffer PROVE Len(Unread) < n
    <3>0. Len(kept) \in Nat /\ Len(more) \in Nat /\ Len(left) \in Nat
      OBVIOUS
    <3>1. Len(more) = Len(rest)
      BY <1>0, <1>2, <1>3, <1>4, <2>5, <3>0 DEF Least
    <3>2. Len(left) = 0
      BY <1>0, <1>3, <3>1
    <3>3. PICK all \in Seq(Cell) : all = filled \o left /\ Len(all) = Len(filled) + Len(left)
      BY ConcatProperties
    <3>4. Len(filled) \in Nat
      OBVIOUS
    <3> QED
      BY <2>3, <2>5, <3>2, <3>3, <3>4
  <2>6. Got(e, n) <=> Len(filled) >= n
    BY <2>1 DEF Got
  <2> QED
    BY <2>1, <2>2, <2>3, <2>4, <2>5, <2>6
<1>7. CASE ~(head + n <= Len(buffer)) /\ e = [buffer |-> kept, head |-> 0, rest |-> rest, faults |-> Append(faults, "copy")]
  <2>1. e.buffer = kept /\ e.head = 0 /\ e.rest = rest /\ e.faults = Append(faults, "copy")
    BY <1>7
  <2>2. After(0, kept) = kept
    BY SubSeqFull DEF After
  <2>3. Append(faults, "copy") # faults
    <3>1. Len(Append(faults, "copy")) = Len(faults) + 1 /\ Len(faults) \in Nat
      BY <1>0
    <3> QED
      BY <3>1
  <2>4. Len(kept) <= FileBuffer
    BY <1>0, <1>1
  <2>5. e.buffer \in Seq(Cell) /\ e.rest \in Seq(Cell) /\ e.head \in Nat /\ e.head <= Len(e.buffer)
    BY <1>0, <2>1
  <2>6. After(e.head, e.buffer) \o e.rest = Unread
    BY <1>1, <2>1, <2>2 DEF Unread
  <2>7. e.faults # faults
    BY <2>1, <2>3
  <2>8. Len(e.buffer) <= FileBuffer
    BY <2>1, <2>4
  <2> QED
    BY <2>1, <2>5, <2>6, <2>7, <2>8
<1> QED
  BY <1>0, <1>1, <1>2, <1>3, <1>4, <1>5, <1>6, <1>7 DEF Ensured

Unharmed == "copy" \notin Range(faults)

Faults == {"store", "damage", "copy"}

LEMMA RangeMore ==
  ASSUME NEW s \in Seq(Faults), NEW x \in Faults
  PROVE  Append(s, x) \in Seq(Faults) /\ Range(Append(s, x)) = Range(s) \cup {x} /\ Append(s, x) # <<>>
<1>1. PICK t \in Seq(Faults) : t = Append(s, x)
  BY AppendProperties
<1>2. Len(t) = Len(s) + 1 /\ t[Len(s) + 1] = x /\ \A i \in 1..Len(s) : t[i] = s[i]
  BY <1>1, AppendProperties
<1>3. Range(t) = Range(s) \cup {x}
  <2>1. Len(s) \in Nat /\ DOMAIN t = 1..Len(t) /\ DOMAIN s = 1..Len(s)
    OBVIOUS
  <2>2. ASSUME NEW y \in Range(t) PROVE y \in Range(s) \cup {x}
    <3>1. PICK i \in 1..Len(t) : y = t[i]
      BY <2>1 DEF Range
    <3>2. i \in 1..Len(s) \/ i = Len(s) + 1
      BY <1>2, <2>1
    <3> QED
      BY <1>2, <2>1, <3>1, <3>2 DEF Range
  <2>3. ASSUME NEW y \in Range(s) PROVE y \in Range(t)
    <3>1. PICK i \in 1..Len(s) : y = s[i]
      BY <2>1 DEF Range
    <3>2. i \in 1..Len(t) /\ t[i] = y
      BY <1>2, <2>1, <3>1
    <3> QED
      BY <2>1, <3>2 DEF Range
  <2>4. x \in Range(t)
    <3>1. Len(s) + 1 \in 1..Len(t)
      BY <1>2, <2>1
    <3> QED
      BY <1>2, <2>1, <3>1 DEF Range
  <2> QED
    BY <2>2, <2>3, <2>4
<1>4. t # <<>>
  <2>1. Len(t) # 0
    BY <1>2
  <2> QED
    BY <2>1
<1> QED
  BY <1>1, <1>3, <1>4

(* What write leaves. *)
LEMMA WrittenIs ==
  ASSUME LengthsAssumption, StreamTypes, NEW out \in Seq(Cell), NEW cells \in Seq(Cell), NEW result \in Results(cells)
  PROVE  /\ \E d \in Seq(Cell) : IsJoin(Written(out, cells, result), out, d)
         /\ result = Len(cells) => IsJoin(Written(out, cells, result), out, cells)
         /\ result = -1 => result # Len(cells)
<1>1. Len(cells) \in Nat /\ result \in -1..Len(cells)
  BY DEF Results
<1>2. PICK n \in 0..Len(cells) : n = IF result = -1 THEN 0 ELSE result
  BY <1>1
<1>3. First(n, cells) \in Seq(Cell)
  BY <1>2, CutAlong
<1>4. result = Len(cells) => First(n, cells) = cells
  BY <1>1, <1>2, FirstEnds
<1>5. Written(out, cells, result) = out \o First(n, cells)
  BY <1>2 DEF Written
<1>6. IsJoin(Written(out, cells, result), out, First(n, cells))
  BY <1>5 DEF IsJoin
<1>7. result = -1 => result # Len(cells)
  BY <1>1
<1> HIDE DEF First
<1> QED
  BY <1>3, <1>4, <1>6, <1>7

LEMMA NotedIs ==
  ASSUME StreamTypes, NEW cells, NEW result, NEW what \in Faults
  PROVE  /\ Noted(cells, result, what) \in Seq(Faults)
         /\ Range(faults) \subseteq Range(Noted(cells, result, what))
         /\ result = Len(cells) => Noted(cells, result, what) = faults
         /\ result # Len(cells) => what \in Range(Noted(cells, result, what)) /\ Noted(cells, result, what) # <<>>
BY RangeMore DEF Noted, StreamTypes, Faults

LEMMA DataType ==
  ASSUME LengthsAssumption, DataAssumption, NEW m \in Int, NEW x \in Seq(Cell), Len(x) = Weight(m),
         NEW d \in IF m <= 0 THEN {x} ELSE Unpacked(x)
  PROVE  d \in Seq(Cell)
<1>1. CASE m <= 0
  BY <1>1
<1>2. CASE m > 0
  <2>1. x[1] \in Cell
    BY <1>2 DEF Weight
  <2>2. CASE IsPacked(x)
    <3>1. x[1][2] \in Block
      BY <2>1, <2>2, OfPacked DEF IsPacked
    <3> QED
      BY <1>2, <2>2, <3>1, BlockIs DEF Unpacked
  <2>3. CASE ~IsPacked(x)
    <3>1. <<Mark>> \in Seq(Cell) /\ <<Damaged>> \in Seq(Cell)
      BY DEF Cell
    <3> QED
      BY <1>2, <2>3, <3>1 DEF Unpacked
  <2> QED
    BY <2>2, <2>3
<1> QED
  BY <1>1, <1>2

LEMMA SizesType ==
  ASSUME LengthsAssumption, DataAssumption, NEW x \in Seq(Cell), Len(x) = IntLength
  PROVE  SizesRead(x) \subseteq Int
<1>1. x[1] \in Cell
  BY DEF LengthsAssumption
<1>2. CASE x[1][1] = "int" /\ x = IntBytes(x[1][2])
  BY <1>1, <1>2, OfInt DEF SizesRead
<1>3. CASE ~(x[1][1] = "int" /\ x = IntBytes(x[1][2]))
  BY <1>3 DEF SizesRead, DataAssumption
<1> QED
  BY <1>2, <1>3

(* What the steps of decompress do. *)
LEMMA UnpackSizeIs ==
  ASSUME LengthsAssumption, DataAssumption, StreamTypes, UnpackSize
  PROVE  /\ StreamTypes'
         /\ UNCHANGED <<original, packing, file, copy>> /\ phase = "unpack"
         /\ Range(faults) \subseteq Range(faults')
         /\ Unharmed' =>
              /\ faults' = faults
              /\ \/ /\ phase' = "block"
                    /\ \E x \in Seq(Cell) : /\ Len(x) = IntLength /\ IsJoin(Unread, x, Unread')
                                            /\ inblock' \in SizesRead(x)
                 \/ phase' = "copied" /\ Len(Unread) < IntLength
<1>0. IntLength \in Nat /\ IntLength <= FileBuffer
  BY DEF LengthsAssumption
<1>1. PICK e \in Ensured(IntLength) :
        /\ buffer' = e.buffer /\ rest' = e.rest /\ faults' = e.faults
        /\ IF Got(e, IntLength)
           THEN /\ inblock' \in SizesRead(Cells(e, IntLength))
                /\ head' = e.head + IntLength
                /\ phase' = "block"
           ELSE /\ head' = e.head
                /\ phase' = "copied"
                /\ UNCHANGED inblock
  BY DEF UnpackSize
<1>2. UNCHANGED <<original, packing, file, copy>> /\ phase = "unpack"
  BY DEF UnpackSize
<1>3. /\ e.buffer \in Seq(Cell) /\ e.rest \in Seq(Cell)
      /\ e.head \in Nat /\ e.head <= Len(e.buffer) /\ Len(e.buffer) <= FileBuffer
      /\ e.faults = faults \/ e.faults = Append(faults, "copy")
      /\ After(e.head, e.buffer) \o e.rest = Unread
      /\ e.faults = faults /\ ~Got(e, IntLength) => Len(Unread) < IntLength
  BY <1>0, EnsuredIs
<1>4. PICK b \in Seq(Cell), r \in Seq(Cell), h \in Nat :
        b = e.buffer /\ r = e.rest /\ h = e.head /\ h <= Len(b) /\ Len(b) <= FileBuffer
  BY <1>3
<1>5. faults' \in Seq(Faults) /\ Range(faults) \subseteq Range(faults') /\ (Unharmed' => faults' = faults)
  BY <1>1, <1>3, RangeMore DEF Unharmed, StreamTypes, Faults
<1>6. CASE Got(e, IntLength)
  <2>1. h + IntLength <= Len(b)
    BY <1>4, <1>6 DEF Got
  <2>2. PICK x \in Seq(Cell) : x = Cells(e, IntLength) /\ Len(x) = IntLength
                               /\ IsJoin(After(h, b) \o r, x, After(h + IntLength, b) \o r)
    BY <1>0, <1>4, <2>1, GotIs DEF Cells
  <2>3. IsJoin(Unread, x, Unread')
    <3>1. buffer' = b /\ rest' = r /\ head' = h + IntLength
      BY <1>1, <1>4, <1>6
    <3> QED
      BY <1>3, <1>4, <2>2, <3>1 DEF Unread
  <2>4. inblock' \in SizesRead(x) /\ inblock' \in Int
    BY <1>1, <1>6, <2>2, SizesType
  <2>5. StreamTypes'
    <3>1. head' \in Nat /\ head' <= Len(buffer') /\ Len(buffer') <= FileBuffer
      BY <1>0, <1>1, <1>4, <1>6, <2>1
    <3> QED
      BY <1>1, <1>2, <1>3, <1>5, <1>6, <2>4, <3>1 DEF StreamTypes, Storing, Faults
  <2> QED
    BY <1>1, <1>2, <1>5, <1>6, <2>2, <2>3, <2>4, <2>5
<1>7. CASE ~Got(e, IntLength)
  <2>1. StreamTypes'
    BY <1>1, <1>2, <1>3, <1>5, <1>7 DEF StreamTypes, Storing, Faults
  <2> QED
    BY <1>1, <1>2, <1>3, <1>5, <1>7, <2>1
<1> QED
  BY <1>6, <1>7

LEMMA UnpackBlockIs ==
  ASSUME LengthsAssumption, DataAssumption, StreamTypes, UnpackBlock
  PROVE  /\ StreamTypes'
         /\ UNCHANGED <<original, packing, file, inblock>> /\ phase = "block"
         /\ Range(faults) \subseteq Range(faults')
         /\ \E d \in Seq(Cell) : copy' = copy \o d
         /\ phase' \in {"unpack", "copied"}
         /\ Unharmed' =>
              /\ faults' = faults
              /\ \/ \E x \in Seq(Cell), v \in Seq(Cell) :
                       /\ Len(x) = Weight(inblock) /\ IsJoin(Unread, x, v)
                       /\ \E data \in IF inblock <= 0 THEN {x} ELSE Unpacked(x) :
                            /\ copy' = copy \o data /\ data \in Seq(Cell)
                            /\ data # <<Mark>> => phase' = "unpack" /\ Unread' = v
                            /\ data = <<Mark>> => phase' = "copied"
                 \/ phase' = "copied" /\ copy' = copy /\ (Weight(inblock) <= FileBuffer => Len(Unread) < Weight(inblock))
<1>0. inblock \in Int /\ Weight(inblock) \in Nat /\ phase = "block" /\ UNCHANGED <<original, packing, file, inblock>>
      /\ copy \in Seq(Cell)
  BY DEF UnpackBlock, StreamTypes, Weight
<1> DEFINE n == Weight(inblock)
<1>1. PICK e \in Ensured(n) :
        /\ buffer' = e.buffer /\ rest' = e.rest
        /\ IF Got(e, n)
           THEN \E data \in IF inblock <= 0 THEN {Cells(e, n)} ELSE Unpacked(Cells(e, n)) :
                \E result \in Results(data) :
                  /\ copy' = Written(copy, data, result)
                  /\ faults' = Noted(data, result, "copy")
                  /\ head' = IF result = -1 \/ data = <<Mark>> THEN e.head ELSE e.head + n
                  /\ phase' = IF result = -1 \/ data = <<Mark>> THEN "copied" ELSE "unpack"
           ELSE /\ head' = e.head
                /\ faults' = e.faults
                /\ phase' = "copied"
                /\ UNCHANGED copy
  BY DEF UnpackBlock, Weight
<1>2. PICK k \in Nat : k = n
  BY <1>0
<1> HIDE DEF n
<1>3. /\ e.buffer \in Seq(Cell) /\ e.rest \in Seq(Cell)
      /\ e.head \in Nat /\ e.head <= Len(e.buffer) /\ Len(e.buffer) <= FileBuffer
      /\ e.faults = faults \/ e.faults = Append(faults, "copy")
      /\ After(e.head, e.buffer) \o e.rest = Unread
      /\ e.faults = faults /\ ~Got(e, k) /\ k <= FileBuffer => Len(Unread) < k
  BY <1>2, EnsuredIs
<1>4. PICK b \in Seq(Cell), r \in Seq(Cell), h \in Nat :
        b = e.buffer /\ r = e.rest /\ h = e.head /\ h <= Len(b) /\ Len(b) <= FileBuffer
  BY <1>3
<1>5. CASE ~Got(e, n)
  <2>1. faults' \in Seq(Faults) /\ Range(faults) \subseteq Range(faults') /\ (Unharmed' => faults' = faults)
    BY <1>1, <1>3, <1>5, RangeMore DEF Unharmed, StreamTypes, Faults
  <2>2. StreamTypes'
    BY <1>0, <1>1, <1>3, <1>5, <2>1 DEF StreamTypes, Storing, Faults
  <2>3. copy' = copy \o <<>> /\ <<>> \in Seq(Cell)
    BY <1>0, <1>1, <1>5, ConcatEmptySeq
  <2> QED
    BY <1>0, <1>1, <1>2, <1>3, <1>5, <2>1, <2>2, <2>3 DEF n
<1>6. CASE Got(e, n)
  <2>1. h + k <= Len(b)
    BY <1>2, <1>4, <1>6 DEF Got
  <2>2. PICK x \in Seq(Cell), v \in Seq(Cell) :
          x = Cells(e, n) /\ Len(x) = k /\ v = After(h + k, b) \o r /\ IsJoin(After(h, b) \o r, x, v)
    BY <1>2, <1>4, <2>1, GotIs DEF Cells
  <2>13. PICK data \in IF inblock <= 0 THEN {x} ELSE Unpacked(x) :
          \E result \in Results(data) :
          /\ copy' = Written(copy, data, result)
          /\ faults' = Noted(data, result, "copy")
          /\ head' = IF result = -1 \/ data = <<Mark>> THEN e.head ELSE e.head + n
          /\ phase' = IF result = -1 \/ data = <<Mark>> THEN "copied" ELSE "unpack"
    BY <1>1, <1>6, <2>2
  <2>3. PICK result \in Results(data) :
          /\ copy' = Written(copy, data, result)
          /\ faults' = Noted(data, result, "copy")
          /\ head' = IF result = -1 \/ data = <<Mark>> THEN e.head ELSE e.head + n
          /\ phase' = IF result = -1 \/ data = <<Mark>> THEN "copied" ELSE "unpack"
    BY <2>13
  <2>4. data \in Seq(Cell)
    BY <1>0, <1>2, <2>2, DataType DEF n
  <2>5. /\ \E d \in Seq(Cell) : copy' = copy \o d
        /\ result = Len(data) => copy' = copy \o data
        /\ result = -1 => result # Len(data)
    <3>1. PICK w : w = Written(copy, data, result)
      OBVIOUS
    <3>2. PICK d \in Seq(Cell) : IsJoin(w, copy, d)
      BY <1>0, <2>4, <3>1, WrittenIs
    <3>3. result = Len(data) => IsJoin(w, copy, data)
      BY <1>0, <2>4, <3>1, WrittenIs
    <3>4. result = -1 => result # Len(data)
      BY <2>4
    <3> QED
      BY <2>3, <3>1, <3>2, <3>3, <3>4 DEF IsJoin
  <2>6. /\ faults' \in Seq(Faults) /\ Range(faults) \subseteq Range(faults')
        /\ result = Len(data) => faults' = faults
        /\ result # Len(data) => ~Unharmed'
    <3>1. "copy" \in Faults
      BY DEF Faults
    <3> QED
      BY <2>3, <3>1, NotedIs DEF Unharmed
  <2>7. copy' \in Seq(Cell)
    BY <1>0, <2>5, ConcatProperties
  <2>8. head' \in Nat /\ head' <= Len(buffer') /\ Len(buffer') <= FileBuffer
    BY <1>1, <1>2, <1>4, <2>1, <2>3
  <2>9. StreamTypes'
    BY <1>0, <1>1, <1>3, <2>3, <2>6, <2>7, <2>8 DEF StreamTypes, Storing, Faults
  <2>10. ASSUME data # <<Mark>>, Unharmed' PROVE phase' = "unpack" /\ Unread' = v
    <3>1. result # -1
      BY <2>5, <2>6, <2>10
    <3>2. phase' = "unpack" /\ buffer' = b /\ rest' = r /\ head' = h + k
      BY <1>1, <1>2, <1>4, <2>3, <2>10, <3>1
    <3> QED
      BY <1>3, <1>4, <2>2, <3>2 DEF Unread
  <2>11. data = <<Mark>> => phase' = "copied"
    BY <2>3
  <2>12. Unharmed' => result = Len(data)
    BY <2>6
  <2>14. Len(x) = Weight(inblock) /\ IsJoin(Unread, x, v)
    BY <1>2, <1>3, <1>4, <2>2 DEF n
  <2> QED
    BY <1>0, <2>2, <2>3, <2>4, <2>5, <2>6, <2>9, <2>10, <2>11, <2>12, <2>14
<1> QED
  BY <1>5, <1>6

------------------------------------------------------------------------------
(* The blocks of the data. *)

(* The n cells that follow the first a. *)
Part(s, a, n) == SubSeq(s, a + 1, a + n)

(* Cutting what has been cut. *)
LEMMA CutTwice ==
  ASSUME NEW B, NEW s \in Seq(B), NEW a \in Nat, NEW n \in Nat, a + n <= Len(s)
  PROVE  /\ First(n, After(a, s)) = Part(s, a, n)
         /\ After(n, After(a, s)) = After(a + n, s)
         /\ Len(After(a, s)) = Len(s) - a /\ After(a, s) \in Seq(B)
         /\ Part(s, a, n) \in Seq(B) /\ Len(Part(s, a, n)) = n
<1>0. Len(s) \in Nat /\ \A i \in 1..Len(s) : s[i] \in B
  OBVIOUS
<1>1. PICK t \in Seq(B) : t = After(a, s) /\ Len(t) = Len(s) - a /\ \A i \in 1..Len(s) - a : t[i] = s[a + i]
  <2>1. \A i \in a + 1..Len(s) : s[i] \in B
    BY <1>0
  <2>2. SubSeq(s, a + 1, Len(s)) \in Seq(B) /\ Len(SubSeq(s, a + 1, Len(s))) = Len(s) - a
    BY <1>0, <2>1, SubSeqProperties
  <2>3. \A i \in 1..Len(s) - a : SubSeq(s, a + 1, Len(s))[i] = s[a + i]
    BY <1>0
  <2> QED
    BY <2>2, <2>3 DEF After
<1>2. PICK x \in Seq(B) : x = SubSeq(t, 1, n) /\ Len(x) = n /\ \A i \in 1..n : x[i] = t[i]
  <2>1. n \in 0..Len(t)
    BY <1>0, <1>1
  <2>2. SubSeq(t, 1, n) \in Seq(B) /\ Len(SubSeq(t, 1, n)) = n /\ \A i \in 1..n : SubSeq(t, 1, n)[i] = t[i]
    BY <2>1, CutAt, Zenon
  <2> QED
    BY <2>2
<1>3. PICK y \in Seq(B) : y = SubSeq(s, a + 1, a + n) /\ Len(y) = n /\ \A i \in 1..n : y[i] = s[a + i]
  <2>1. \A i \in a + 1..a + n : s[i] \in B
    BY <1>0
  <2>2. SubSeq(s, a + 1, a + n) \in Seq(B) /\ Len(SubSeq(s, a + 1, a + n)) = n
    BY <1>0, <2>1, SubSeqProperties
  <2>3. \A i \in 1..n : SubSeq(s, a + 1, a + n)[i] = s[a + i]
    BY <1>0
  <2> QED
    BY <2>2, <2>3
<1>4. x = y
  <2>1. ASSUME NEW i \in 1..n PROVE x[i] = y[i]
    <3>1. i \in 1..Len(s) - a
      BY <1>0
    <3> QED
      BY <1>1, <1>2, <1>3, <3>1
  <2> QED
    BY <1>2, <1>3, <2>1, SeqEqual
<1>5. PICK z \in Seq(B) : /\ z = After(n, t) /\ Len(z) = Len(s) - (a + n)
                          /\ \A i \in 1..Len(s) - (a + n) : z[i] = s[a + n + i]
  <2>0. Len(t) \in Nat /\ n <= Len(t)
    BY <1>0, <1>1
  <2>1. \A i \in n + 1..Len(t) : t[i] \in B
    BY <1>1, <2>0
  <2>2. SubSeq(t, n + 1, Len(t)) \in Seq(B) /\ Len(SubSeq(t, n + 1, Len(t))) = Len(t) - n
    BY <2>0, <2>1, SubSeqProperties
  <2>3. \A i \in 1..Len(t) - n : SubSeq(t, n + 1, Len(t))[i] = t[n + i]
    BY <2>0
  <2>4. \A i \in 1..Len(t) - n : t[n + i] = s[a + n + i]
    <3> SUFFICES ASSUME NEW i \in 1..Len(t) - n PROVE t[n + i] = s[a + n + i]
      OBVIOUS
    <3>1. n + i \in 1..Len(s) - a /\ a + (n + i) = a + n + i
      BY <1>0, <1>1, <2>0
    <3> QED
      BY <1>1, <3>1
  <2>5. Len(t) - n = Len(s) - (a + n)
    BY <1>0, <1>1
  <2> QED
    BY <2>2, <2>3, <2>4, <2>5 DEF After
<1>6. PICK w \in Seq(B) : /\ w = After(a + n, s) /\ Len(w) = Len(s) - (a + n)
                          /\ \A i \in 1..Len(s) - (a + n) : w[i] = s[a + n + i]
  <2>0. a + n \in Nat
    OBVIOUS
  <2>1. \A i \in a + n + 1..Len(s) : s[i] \in B
    BY <1>0
  <2>2. SubSeq(s, a + n + 1, Len(s)) \in Seq(B) /\ Len(SubSeq(s, a + n + 1, Len(s))) = Len(s) - (a + n)
    BY <1>0, <2>1, SubSeqProperties
  <2>3. \A i \in 1..Len(s) - (a + n) : SubSeq(s, a + n + 1, Len(s))[i] = s[a + n + i]
    BY <1>0
  <2> QED
    BY <2>2, <2>3 DEF After
<1>7. z = w
  <2>1. \A i \in 1..Len(z) : z[i] = w[i]
    BY <1>5, <1>6
  <2> QED
    BY <1>5, <1>6, <2>1, SeqEqual
<1>8. First(n, t) = x
  <2>1. Least(n, Len(t)) = n
    <3>1. n <= Len(t) /\ Len(t) \in Nat
      BY <1>0, <1>1
    <3> QED
      BY <3>1 DEF Least
  <2> QED
    BY <1>2, <2>1 DEF First
<1>9. Part(s, a, n) = y
  BY <1>3 DEF Part
<1> QED
  BY <1>1, <1>3, <1>4, <1>5, <1>6, <1>7, <1>8, <1>9

(* What is left of the data after k blocks. *)
RestAt(k, data) == After(Least(k * InBlock, Len(data)), data)

LEMMA BlocksAre ==
  ASSUME LengthsAssumption, NEW data \in Seq(Byte)
  PROVE  LET bs == Blocks(data)
         IN  /\ bs \in Seq(Block)
             /\ Len(data) <= Len(bs) * InBlock /\ Len(bs) * InBlock < Len(data) + InBlock
             /\ \A k \in 1..Len(bs) : bs[k] = SubSeq(data, (k - 1) * InBlock + 1, Least(k * InBlock, Len(data)))
<1>0. InBlock \in Nat \ {0} /\ Len(data) \in Nat
  BY DEF LengthsAssumption
<1>1. PICK q : q = (Len(data) + InBlock - 1) \div InBlock
  OBVIOUS
<1>2. q \in Nat /\ Len(data) <= q * InBlock /\ q * InBlock < Len(data) + InBlock
  BY <1>0, <1>1, RoundedUp
<1>3. ASSUME NEW k \in 1..q
      PROVE  SubSeq(data, (k - 1) * InBlock + 1, Least(k * InBlock, Len(data))) \in Block
  <2>1. PICK a \in Nat : a = (k - 1) * InBlock
    BY <1>0, <1>2
  <2>2. k * InBlock = a + InBlock
    BY <1>0, <1>2, <2>1
  <2>3. a < Len(data)
    <3>1. k * InBlock <= q * InBlock
      BY <1>0, <1>2
    <3>2. PICK kI \in Nat, qI \in Nat : kI = k * InBlock /\ qI = q * InBlock
      BY <1>0, <1>2
    <3> QED
      BY <1>0, <1>2, <2>2, <3>1, <3>2
  <2>4. PICK n \in 1..InBlock : Least(k * InBlock, Len(data)) = a + n /\ a + n <= Len(data)
    <3>1. CASE a + InBlock < Len(data)
      BY <1>0, <2>2, <3>1 DEF Least
    <3>2. CASE ~(a + InBlock < Len(data))
      <4>1. Len(data) - a \in 1..InBlock /\ a + (Len(data) - a) = Len(data)
        BY <1>0, <2>3, <3>2
      <4> QED
        BY <2>2, <3>2, <4>1 DEF Least
    <3> QED
      BY <3>1, <3>2
  <2>5. Part(data, a, n) \in Seq(Byte) /\ Len(Part(data, a, n)) = n
    BY <1>0, <2>4, CutTwice
  <2>6. PICK x \in Seq(Byte) : x = SubSeq(data, a + 1, a + n) /\ Len(x) = n
    BY <2>5 DEF Part
  <2>7. x \in [1..n -> Byte]
    <3>1. PICK m \in Nat : x \in [1..m -> Byte]
      BY SeqDef
    <3>2. m = n
      BY <2>6, <3>1
    <3> QED
      BY <3>1, <3>2
  <2>8. x \in Block
    BY <2>7 DEF Block
  <2> QED
    BY <2>1, <2>4, <2>6, <2>8
<1>4. PICK bs : bs = Blocks(data)
  OBVIOUS
<1>5. bs = [k \in 1..q |-> SubSeq(data, (k - 1) * InBlock + 1, Least(k * InBlock, Len(data)))]
  BY <1>1, <1>4 DEF Blocks
<1>6. bs \in Seq(Block) /\ Len(bs) = q
  <2>1. bs \in [1..q -> Block]
    BY <1>3, <1>5
  <2> QED
    BY <1>2, <2>1
<1> QED
  BY <1>2, <1>4, <1>5, <1>6

LEMMA NextBlock ==
  ASSUME LengthsAssumption, NEW data \in Seq(Byte), NEW bs, bs = Blocks(data), NEW k \in Nat, k <= Len(bs)
  PROVE  /\ RestAt(k, data) \in Seq(Byte)
         /\ k = Len(bs) => RestAt(k, data) = <<>>
         /\ k < Len(bs) => /\ RestAt(k, data) # <<>>
                           /\ First(InBlock, RestAt(k, data)) = bs[k + 1]
                           /\ After(Least(InBlock, Len(RestAt(k, data))), RestAt(k, data)) = RestAt(k + 1, data)
<1>0. InBlock \in Nat \ {0} /\ Len(data) \in Nat
  BY DEF LengthsAssumption
<1>1. /\ bs \in Seq(Block) /\ Len(data) <= Len(bs) * InBlock /\ Len(bs) * InBlock < Len(data) + InBlock
      /\ \A j \in 1..Len(bs) : bs[j] = SubSeq(data, (j - 1) * InBlock + 1, Least(j * InBlock, Len(data)))
  BY BlocksAre
<1>2. PICK q \in Nat : q = Len(bs)
  BY <1>1
<1>3. PICK a \in Nat, c \in Nat : a = k * InBlock /\ c = (k + 1) * InBlock /\ c = a + InBlock
  BY <1>0
<1>4. PICK p \in 0..Len(data) : p = Least(a, Len(data)) /\ RestAt(k, data) = After(p, data)
  BY <1>0, <1>3 DEF Least, RestAt
<1>5. After(p, data) \in Seq(Byte) /\ Len(After(p, data)) = Len(data) - p
  BY <1>4, CutAt DEF After
<1>6. CASE k = Len(bs)
  <2>1. p = Len(data)
    BY <1>0, <1>1, <1>3, <1>4, <1>6 DEF Least
  <2>2. Len(After(p, data)) = 0
    BY <1>0, <1>5, <2>1
  <2>3. After(p, data) = <<>>
    BY <1>5, <2>2
  <2> QED
    BY <1>4, <1>5, <1>6, <2>3
<1>7. CASE k < Len(bs)
  <2>1. a < Len(data)
    <3>1. c <= q * InBlock
      BY <1>0, <1>2, <1>3, <1>7
    <3> QED
      BY <1>0, <1>1, <1>2, <1>3, <3>1
  <2>2. p = a
    BY <1>0, <1>4, <2>1 DEF Least
  <2>3. PICK r \in Seq(Byte) : r = After(a, data) /\ Len(r) = Len(data) - a /\ r = RestAt(k, data)
    BY <1>4, <1>5, <2>2
  <2>4. PICK n \in Nat : n = Least(InBlock, Len(r))
    BY <1>0 DEF Least
  <2>13. a + n <= Len(data) /\ Least(c, Len(data)) = a + n /\ n <= Len(r)
    <3>1. CASE a + InBlock < Len(data)
      <4>1. InBlock < Len(r)
        BY <1>0, <2>3, <3>1
      <4>2. n = InBlock
        BY <1>0, <2>4, <4>1 DEF Least
      <4>3. Least(c, Len(data)) = c
        BY <1>0, <1>3, <3>1 DEF Least
      <4> QED
        BY <1>0, <1>3, <2>3, <3>1, <4>2, <4>3
    <3>2. CASE ~(a + InBlock < Len(data))
      <4>1. n = Len(data) - a
        BY <1>0, <2>1, <2>3, <2>4, <3>2 DEF Least
      <4>2. Least(c, Len(data)) = Len(data)
        BY <1>0, <1>3, <3>2 DEF Least
      <4> QED
        BY <1>0, <2>3, <4>1, <4>2
    <3> QED
      BY <3>1, <3>2
  <2>5. r # <<>>
    <3>1. Len(r) # 0
      BY <1>0, <2>1, <2>3
    <3> QED
      BY <3>1
  <2>6. bs[k + 1] = SubSeq(data, a + 1, a + n)
    <3>1. PICK j \in 1..Len(bs) : j = k + 1 /\ (j - 1) * InBlock = a /\ j * InBlock = c
      <4>1. k + 1 \in 1..Len(bs) /\ (k + 1) - 1 = k
        BY <1>2, <1>7
      <4> QED
        BY <1>3, <4>1
    <3> QED
      BY <1>1, <2>13, <3>1
  <2>7. First(n, r) = Part(data, a, n) /\ After(n, r) = After(a + n, data)
    <3>1. First(n, After(a, data)) = Part(data, a, n)
      BY <2>13, CutTwice
    <3>2. After(n, After(a, data)) = After(a + n, data)
      BY <2>13, CutTwice
    <3> QED
      BY <2>3, <3>1, <3>2
  <2>8. First(InBlock, r) = First(n, r)
    <3>1. Least(n, Len(r)) = n
      BY <2>13 DEF Least
    <3> QED
      BY <2>4, <3>1 DEF First
  <2>9. RestAt(k + 1, data) = After(a + n, data)
    BY <1>3, <2>13 DEF RestAt
  <2>10. First(InBlock, RestAt(k, data)) = bs[k + 1]
    BY <2>3, <2>6, <2>7, <2>8 DEF Part
  <2>11. After(Least(InBlock, Len(RestAt(k, data))), RestAt(k, data)) = RestAt(k + 1, data)
    BY <2>3, <2>4, <2>7, <2>9
  <2>12. k # Len(bs) /\ RestAt(k, data) # <<>> /\ RestAt(k, data) \in Seq(Byte)
    BY <1>2, <1>7, <2>3, <2>5
  <2> QED
    BY <2>10, <2>11, <2>12
<1> QED
  BY <1>1, <1>2, <1>4, <1>5, <1>6, <1>7

(* The blocks make up the data. *)
LEMMA BlocksJoin ==
  ASSUME LengthsAssumption, NEW data \in Seq(Byte) PROVE FlattenSeq(Blocks(data)) = data
<1>1. PICK bs \in Seq(Block) : bs = Blocks(data)
  BY BlocksAre
<1>2. bs \in Seq(Seq(Byte))
  <2>1. Block \subseteq Seq(Byte)
    BY BlockIs
  <2> QED
    BY <2>1, SeqMonotonic
<1> DEFINE Joint(k) == FlattenSeq(First(k, bs)) \o RestAt(k, data) = data
           Bad == {k \in Nat : k <= Len(bs) /\ ~Joint(k)}
<1>3. Joint(0)
  <2>1. 0 * InBlock = 0 /\ Len(data) \in Nat
    BY DEF LengthsAssumption
  <2>2. RestAt(0, data) = data
    BY <2>1, SubSeqFull DEF RestAt, Least, After
  <2>3. <<>> \o data = data
    BY ConcatEmptySeq
  <2> QED
    BY <1>1, <2>2, <2>3, FirstEnds, FlattenEmpty
<1>4. ASSUME NEW k \in Nat, k < Len(bs), Joint(k) PROVE Joint(k + 1)
  <2>1. PICK f \in Seq(Byte), b \in Seq(Byte), g \in Seq(Byte) :
          f = FlattenSeq(First(k, bs)) /\ b = bs[k + 1] /\ g = FlattenSeq(First(k + 1, bs)) /\ g = f \o b
    BY <1>2, <1>4, FlatMore
  <2>2. PICK r \in Seq(Byte) : /\ r = RestAt(k, data) /\ First(InBlock, r) = b
                               /\ After(Least(InBlock, Len(r)), r) = RestAt(k + 1, data)
    BY <1>1, <1>4, <2>1, NextBlock
  <2>3. PICK t \in Seq(Byte) : t = RestAt(k + 1, data) /\ b \o t = r
    <3>1. InBlock \in Nat
      BY DEF LengthsAssumption
    <3> QED
      BY <2>2, <3>1, CutAlong
  <2>4. Assoc(f, b, t)
    BY Associates
  <2>5. f \o r = data
    BY <1>4, <2>1, <2>2
  <2> QED
    BY <2>1, <2>3, <2>4, <2>5 DEF Assoc
<1>5. Bad = {}
  <2> SUFFICES ASSUME Bad # {} PROVE FALSE
    OBVIOUS
  <2>1. PICK n \in Bad : \A m \in Bad : n <= m
    <3>1. Bad \in SUBSET Nat
      OBVIOUS
    <3> HIDE DEF Bad
    <3> QED
      BY <3>1, LeastOne
  <2>2. n # 0
    BY <1>3, <2>1
  <2>3. PICK k \in Nat : n = k + 1
    BY <2>1, <2>2
  <2>4. k \notin Bad /\ k < Len(bs)
    BY <2>1, <2>3
  <2>5. Joint(k)
    BY <2>4
  <2>6. Joint(n)
    <3> HIDE DEF Joint
    <3> QED
      BY <1>4, <2>3, <2>4, <2>5
  <2> QED
    BY <2>1, <2>6
<1>6. Joint(Len(bs))
  <2>1. Len(bs) \in Nat /\ Len(bs) \notin Bad
    BY <1>5
  <2> QED
    BY <2>1
<1>7. RestAt(Len(bs), data) = <<>> /\ First(Len(bs), bs) = bs
  <2>1. Len(bs) \in Nat
    OBVIOUS
  <2> QED
    BY <1>1, <2>1, NextBlock, FirstEnds
<1>8. FlattenSeq(bs) \in Seq(Byte)
  BY <1>2, FlattenType
<1>9. FlattenSeq(bs) \o <<>> = FlattenSeq(bs)
  BY <1>8, ConcatEmptySeq
<1> QED
  BY <1>1, <1>6, <1>7, <1>9

LEMMA AfterAny ==
  ASSUME NEW B, NEW s \in Seq(B), NEW n \in Nat
  PROVE  /\ First(n, s) \in Seq(B) /\ After(n, s) \in Seq(B) /\ IsJoin(s, First(n, s), After(n, s))
         /\ Len(First(n, s)) <= n
<1>0. Len(s) \in Nat
  OBVIOUS
<1>1. CASE n <= Len(s)
  <2>1. Least(n, Len(s)) = n
    BY <1>0, <1>1 DEF Least
  <2>2. PICK x, y : x = First(n, s) /\ y = After(n, s)
    OBVIOUS
  <2>3. y = After(Least(n, Len(s)), s)
    BY <2>1, <2>2
  <2>4. x \in Seq(B) /\ y \in Seq(B) /\ x \o y = s /\ Len(x) = n
    BY <2>1, <2>2, <2>3, CutAlong
  <2> QED
    BY <2>2, <2>4 DEF IsJoin
<1>2. CASE n > Len(s)
  <2>1. First(n, s) = s
    <3>1. Least(n, Len(s)) = Len(s)
      BY <1>0, <1>2 DEF Least
    <3> QED
      BY <3>1, SubSeqFull DEF First
  <2>2. After(n, s) = <<>>
    <3>1. n + 1 > Len(s) /\ n + 1 \in Int /\ Len(s) \in Int
      BY <1>0, <1>2
    <3> QED
      BY <3>1, SubSeqEmpty DEF After
  <2>3. s \o <<>> = s
    BY ConcatEmptySeq
  <2> QED
    BY <1>0, <1>2, <2>1, <2>2, <2>3 DEF IsJoin
<1> QED
  BY <1>0, <1>1, <1>2

LEMMA WrittenType ==
  ASSUME LengthsAssumption, StreamTypes, NEW out \in Seq(Cell), NEW cells \in Seq(Cell), NEW result \in Results(cells)
  PROVE  Written(out, cells, result) \in Seq(Cell)
<1>1. PICK d \in Seq(Cell) : IsJoin(Written(out, cells, result), out, d)
  BY WrittenIs
<1> QED
  BY <1>1, ConcatIs

(* What put_fbuffer does. *)
LEMMA PutIs ==
  ASSUME LengthsAssumption, StreamTypes, NEW cells \in Seq(Cell), Len(cells) <= FileBuffer,
         NEW next, Put(cells, next)
  PROVE  /\ buffer' \in Seq(Cell) /\ Len(buffer') <= FileBuffer /\ file' \in Seq(Cell)
         /\ faults' \in Seq(Faults) /\ Range(faults) \subseteq Range(faults') /\ phase' \in {next, "stored"}
         /\ faults' = <<>> => faults = <<>> /\ phase' = next /\ file' \o buffer' = (file \o buffer) \o cells
<1>0. buffer \in Seq(Cell) /\ file \in Seq(Cell) /\ faults \in Seq(Faults) /\ FileBuffer \in Nat
      /\ Len(buffer) <= FileBuffer
  BY DEF StreamTypes, Faults, LengthsAssumption
<1>1. CASE Len(buffer) + Len(cells) >= FileBuffer
  <2>1. PICK result \in Results(buffer) :
          /\ file' = Written(file, buffer, result)
          /\ faults' = Noted(buffer, result, "store")
          /\ buffer' = IF result = -1 THEN buffer ELSE cells
          /\ phase' = IF result = -1 THEN "stored" ELSE next
    BY <1>1 DEF Put
  <2>2. file' \in Seq(Cell)
    BY <1>0, <2>1, WrittenType
  <2>3. /\ faults' \in Seq(Faults) /\ Range(faults) \subseteq Range(faults')
        /\ result = Len(buffer) => faults' = faults
        /\ result # Len(buffer) => faults' # <<>>
    <3>1. "store" \in Faults
      BY DEF Faults
    <3> QED
      BY <2>1, <3>1, NotedIs
  <2>4. ASSUME faults' = <<>>
        PROVE  faults = <<>> /\ phase' = next /\ file' \o buffer' = (file \o buffer) \o cells
    <3>1. result = Len(buffer) /\ result # -1
      BY <1>0, <2>3, <2>4
    <3>2. IsJoin(Written(file, buffer, result), file, buffer)
      BY <1>0, <3>1, WrittenIs
    <3> QED
      BY <2>1, <2>3, <2>4, <3>1, <3>2 DEF IsJoin
  <2> QED
    BY <1>0, <2>1, <2>2, <2>3, <2>4
<1>2. CASE ~(Len(buffer) + Len(cells) >= FileBuffer)
  <2>1. buffer' = buffer \o cells /\ phase' = next /\ UNCHANGED <<file, faults>>
    BY <1>2 DEF Put
  <2>2. buffer' \in Seq(Cell) /\ Len(buffer') = Len(buffer) + Len(cells)
    BY <1>0, <2>1, ConcatProperties
  <2>3. Assoc(file, buffer, cells)
    BY <1>0, Associates
  <2>4. file' \o buffer' = (file \o buffer) \o cells
    BY <2>1, <2>3 DEF Assoc
  <2>5. Len(buffer) \in Nat /\ Len(cells) \in Nat
    BY <1>0
  <2> QED
    BY <1>0, <1>2, <2>1, <2>2, <2>4, <2>5
<1> QED
  BY <1>1, <1>2

(* The block that is at hand. *)
LEMMA BlockAtHand ==
  ASSUME LengthsAssumption, DataAssumption, NEW b \in Block
  PROVE  /\ IntBytes(Size(b)) \in Seq(Cell) /\ Len(IntBytes(Size(b))) <= FileBuffer
         /\ Payload(b) \in Seq(Cell) /\ Len(Payload(b)) <= FileBuffer
<1>1. /\ Payload(b) \in Seq(Cell) /\ Size(b) \in Int
      /\ Len(Payload(b)) = Weight(Size(b)) /\ Weight(Size(b)) \in 1..InBlock
  BY PayloadIs
<1>2. IntBytes(Size(b)) \in Seq(Cell) /\ Len(IntBytes(Size(b))) = IntLength
  BY <1>1, IntIs
<1>3. InBlock \in Nat /\ IntLength \in Nat /\ InBlock + IntLength < FileBuffer /\ FileBuffer \in Nat
  BY DEF LengthsAssumption
<1> QED
  BY <1>1, <1>2, <1>3

(* What is read is a block, if anything is. *)
LEMMA FirstBlock ==
  ASSUME LengthsAssumption, NEW s \in Seq(Byte), s # <<>> PROVE First(InBlock, s) \in Block
<1>0. InBlock \in Nat \ {0} /\ Len(s) \in Nat \ {0}
  BY DEF LengthsAssumption
<1>1. PICK n \in 1..InBlock : n = Least(InBlock, Len(s))
  BY <1>0 DEF Least
<1>2. PICK x \in Seq(Byte) : x = First(InBlock, s) /\ Len(x) = n
  BY <1>0, <1>1, CutAlong
<1>3. x \in [1..n -> Byte]
  <2>1. PICK m \in Nat : x \in [1..m -> Byte]
    BY SeqDef
  <2>2. m = n
    BY <1>2, <2>1
  <2> QED
    BY <2>1, <2>2
<1> QED
  BY <1>2, <1>3 DEF Block

LEMMA TypesNext ==
  ASSUME LengthsAssumption, DataAssumption, StreamTypes, [Next]_vars
  PROVE  StreamTypes' /\ Range(faults) \subseteq Range(faults')
<1>0. /\ rest \in Seq(Cell) /\ buffer \in Seq(Cell) /\ file \in Seq(Cell) /\ copy \in Seq(Cell)
      /\ faults \in Seq(Faults) /\ head \in Nat /\ FileBuffer \in Nat /\ HeaderLength \in Nat /\ InBlock \in Nat
      /\ "store" \in Faults /\ "copy" \in Faults /\ "damage" \in Faults
  BY DEF StreamTypes, Faults, LengthsAssumption
<1>1. CASE WriteHeader
  <2>1. PICK result \in Results(Header) :
          file' = Written(file, Header, result) /\ faults' = Noted(Header, result, "store")
    BY <1>1 DEF WriteHeader
  <2>2. file' \in Seq(Cell) /\ faults' \in Seq(Faults) /\ Range(faults) \subseteq Range(faults')
    BY <1>0, <2>1, HeaderIs, WrittenType, NotedIs
  <2>3. phase = "header" /\ phase' = "read"
        /\ UNCHANGED <<original, packing, rest, inblock, buffer, head, copy>>
    BY <1>1 DEF WriteHeader
  <2> QED
    BY <2>2, <2>3 DEF StreamTypes, Storing, Faults
<1>2. CASE Read
  <2>1. /\ phase = "read" /\ inblock' = First(InBlock, rest)
        /\ rest' = After(Least(InBlock, Len(rest)), rest)
        /\ phase' = IF rest = <<>> THEN "flush" ELSE "size"
        /\ UNCHANGED <<original, packing, buffer, head, file, copy, faults>>
    BY <1>2 DEF Read
  <2>2. rest \in Seq(Byte)
    BY <2>1 DEF StreamTypes, Storing
  <2>3. rest' \in Seq(Byte)
    BY <1>0, <2>1, <2>2, CutAlong
  <2>4. phase' = "size" => inblock' \in Block
    BY <2>1, <2>2, FirstBlock
  <2>5. rest' \in Seq(Cell)
    BY <2>3, ByteCell
  <2> QED
    BY <2>1, <2>3, <2>4, <2>5 DEF StreamTypes, Storing
<1>3. CASE PutSize \/ PutPayload
  <2>1. inblock \in Block
    BY <1>3 DEF PutSize, PutPayload, StreamTypes
  <2>2. PICK cells \in Seq(Cell), next \in {"payload", "read"} : Put(cells, next) /\ Len(cells) <= FileBuffer
    BY <1>3, <2>1, BlockAtHand DEF PutSize, PutPayload
  <2>3. phase \in {"size", "payload"} /\ UNCHANGED <<original, packing, rest, inblock, head, copy>>
    BY <1>3 DEF PutSize, PutPayload
  <2>4. /\ buffer' \in Seq(Cell) /\ Len(buffer') <= FileBuffer /\ file' \in Seq(Cell)
        /\ faults' \in Seq(Faults) /\ Range(faults) \subseteq Range(faults') /\ phase' \in {next, "stored"}
    BY <2>2, PutIs
  <2>5. head' = 0 /\ copy' = <<>> /\ head' <= Len(buffer') /\ rest' \in Seq(Byte)
    BY <2>3, <2>4 DEF StreamTypes, Storing
  <2> QED
    BY <2>1, <2>2, <2>3, <2>4, <2>5 DEF StreamTypes, Storing, Faults
<1>4. CASE Flush
  <2>1. PICK result \in Results(buffer) :
          file' = Written(file, buffer, result) /\ faults' = Noted(buffer, result, "store")
    BY <1>4 DEF Flush
  <2>2. file' \in Seq(Cell) /\ faults' \in Seq(Faults) /\ Range(faults) \subseteq Range(faults')
    BY <1>0, <2>1, WrittenType, NotedIs
  <2>3. phase = "flush" /\ phase' = "stored"
        /\ UNCHANGED <<original, packing, rest, inblock, buffer, head, copy>>
    BY <1>4 DEF Flush
  <2> QED
    BY <2>2, <2>3 DEF StreamTypes, Storing, Faults
<1>5. CASE Store
  <2>1. PICK cells : cells = First(FileBuffer, rest)
    OBVIOUS
  <2>2. /\ phase = "store" /\ rest' = After(Len(cells), rest)
        /\ phase' = IF cells = <<>> THEN "stored" ELSE "store"
        /\ UNCHANGED <<original, packing, inblock, buffer, head, copy>>
    BY <1>5, <2>1 DEF Store
  <2>3. rest \in Seq(Byte)
    BY <2>2 DEF StreamTypes, Storing
  <2>4. cells \in Seq(Byte) /\ cells \in Seq(Cell) /\ Len(cells) \in Nat
    BY <1>0, <2>1, <2>3, AfterAny, ByteCell
  <2>5. PICK result \in Results(cells) :
          file' = Written(file, cells, result) /\ faults' = Noted(cells, result, "store")
    BY <1>5, <2>1 DEF Store
  <2>6. file' \in Seq(Cell) /\ faults' \in Seq(Faults) /\ Range(faults) \subseteq Range(faults')
    BY <1>0, <2>4, <2>5, WrittenType, NotedIs
  <2>7. rest' \in Seq(Byte) /\ rest' \in Seq(Cell)
    BY <2>2, <2>3, <2>4, AfterAny, ByteCell
  <2> QED
    BY <2>2, <2>6, <2>7 DEF StreamTypes, Storing, Faults
<1>6. CASE Crash
  <2>1. /\ phase' = "stored" /\ faults' = Append(faults, "store") /\ phase \in Storing
        /\ UNCHANGED <<original, packing, rest, inblock, buffer, head, file, copy>>
    BY <1>6 DEF Crash, Storing
  <2>2. faults' \in Seq(Faults) /\ Range(faults) \subseteq Range(faults')
    BY <1>0, <2>1, RangeMore
  <2> QED
    BY <2>1, <2>2 DEF StreamTypes, Storing, Faults
<1>7. CASE Damage
  <2>1. PICK i \in DOMAIN file : file' = [file EXCEPT ![i] = Damaged]
    BY <1>7 DEF Damage
  <2>2. phase = "stored" /\ faults' = Append(faults, "damage")
        /\ UNCHANGED <<original, packing, phase, rest, inblock, buffer, head, copy>>
    BY <1>7 DEF Damage
  <2>3. faults' \in Seq(Faults) /\ Range(faults) \subseteq Range(faults')
    BY <1>0, <2>2, RangeMore
  <2>4. file' \in Seq(Cell)
    <3>1. Damaged \in Cell
      BY DEF Cell
    <3> QED
      BY <1>0, <2>1, <3>1
  <2> QED
    BY <2>2, <2>3, <2>4 DEF StreamTypes, Storing, Faults
<1>8. CASE Sniff
  <2>1. /\ phase = "stored" /\ rest' = After(HeaderLength, file) /\ buffer' = <<>> /\ head' = 0
        /\ phase' \in {"unpack", "plain"} /\ UNCHANGED <<original, packing, inblock, file>>
    BY <1>8 DEF Sniff
  <2>2. copy' \in Seq(Cell) /\ faults' \in Seq(Faults) /\ Range(faults) \subseteq Range(faults')
    <3>1. CASE HasSignature(file)
      BY <1>0, <1>8, <3>1 DEF Sniff
    <3>2. CASE ~HasSignature(file)
      <4>1. PICK cells \in Seq(Cell) : cells = First(HeaderLength, file)
        BY <1>0, AfterAny
      <4>2. PICK result \in Results(cells) :
              copy' = Written(copy, cells, result) /\ faults' = Noted(cells, result, "copy")
        BY <1>8, <3>2, <4>1 DEF Sniff
      <4> QED
        BY <1>0, <4>2, WrittenType, NotedIs
    <3> QED
      BY <3>1, <3>2
  <2>3. rest' \in Seq(Cell)
    BY <1>0, <2>1, AfterAny
  <2>4. buffer' \in Seq(Cell) /\ Len(buffer') <= FileBuffer /\ head' <= Len(buffer')
    BY <1>0, <2>1
  <2> QED
    BY <2>1, <2>2, <2>3, <2>4 DEF StreamTypes, Storing, Faults
<1>9. CASE Plain
  <2>1. PICK cells \in Seq(Cell) : cells = First(FileBuffer, rest) /\ Len(cells) \in Nat
    BY <1>0, AfterAny
  <2>2. /\ phase = "plain" /\ rest' = After(Len(cells), rest)
        /\ phase' \in {"copied", "plain"}
        /\ UNCHANGED <<original, packing, inblock, buffer, head, file>>
    BY <1>9, <2>1 DEF Plain
  <2>3. PICK result \in Results(cells) :
          copy' = Written(copy, cells, result) /\ faults' = Noted(cells, result, "copy")
    BY <1>9, <2>1 DEF Plain
  <2>4. copy' \in Seq(Cell) /\ faults' \in Seq(Faults) /\ Range(faults) \subseteq Range(faults')
    BY <1>0, <2>3, WrittenType, NotedIs
  <2>5. rest' \in Seq(Cell)
    BY <1>0, <2>1, <2>2, AfterAny
  <2> QED
    BY <2>2, <2>4, <2>5 DEF StreamTypes, Storing, Faults
<1>10. CASE UnpackSize
  BY <1>10, UnpackSizeIs
<1>11. CASE UnpackBlock
  BY <1>11, UnpackBlockIs
<1>12. CASE UNCHANGED vars
  BY <1>12 DEF vars, StreamTypes
<1> QED
  BY <1>1, <1>2, <1>3, <1>4, <1>5, <1>6, <1>7, <1>8, <1>9, <1>10, <1>11, <1>12 DEF Next

------------------------------------------------------------------------------
(* Reading back. *)

(* Where reading back is, before an int and before the payload it stands for. *)
AtSize(bs, f, u, c) == (\E k \in Nat : k <= Len(bs) /\ Tracks(k, bs, f, u, c)) \/ Off(bs, f, c)

AtBlock(bs, f, m, u, c) ==
  \/ \E k \in Nat : k < Len(bs) /\ m = Size(bs[k + 1]) /\ Tracks(k, bs, f, IntBytes(m) \o u, c)
  \/ Off(bs, f, c)

LEMMA ToBlock ==
  ASSUME LengthsAssumption, DataAssumption, NEW bs \in Seq(Block), NEW f \in Seq(Cell), NEW u \in Seq(Cell),
         NEW c, AtSize(bs, f, u, c), NEW x \in Seq(Cell), NEW v \in Seq(Cell), IsJoin(u, x, v),
         Len(x) = IntLength, NEW m \in SizesRead(x)
  PROVE  AtBlock(bs, f, m, v, c)
<1>1. CASE Off(bs, f, c)
  BY <1>1 DEF AtBlock
<1>2. CASE \E k \in Nat : k <= Len(bs) /\ Tracks(k, bs, f, u, c)
  <2>1. PICK k \in Nat : k <= Len(bs) /\ Tracks(k, bs, f, u, c)
    BY <1>2
  <2>2. \/ k < Len(bs) /\ m = Size(bs[k + 1]) /\ Tracks(k, bs, f, IntBytes(m) \o v, c)
        \/ Off(bs, f, c)
    BY <2>1, SizeStep
  <2> QED
    BY <2>2 DEF AtBlock
<1> QED
  BY <1>1, <1>2 DEF AtSize

LEMMA AtEnd ==
  ASSUME LengthsAssumption, DataAssumption, NEW bs \in Seq(Block), NEW f \in Seq(Cell), NEW u \in Seq(Cell),
         NEW c \in Seq(Cell), AtSize(bs, f, u, c), Len(u) < IntLength
  PROVE  Over(bs, f, c)
<1>1. CASE Off(bs, f, c)
  <2>1. <<>> \in Seq(Cell)
    OBVIOUS
  <2> QED
    BY <1>1, <2>1, OffMore
<1>2. CASE \E k \in Nat : k <= Len(bs) /\ Tracks(k, bs, f, u, c)
  BY <1>2, SizeEnd
<1> QED
  BY <1>1, <1>2 DEF AtSize

(* What is made of a payload that is there. *)
LEMMA UnpackedRight ==
  ASSUME LengthsAssumption, DataAssumption, NEW b \in Block, NEW x, x = Payload(b),
         NEW data \in IF Size(b) <= 0 THEN {x} ELSE Unpacked(x)
  PROVE  data = b /\ data # <<Mark>>
<1>0. b \in Seq(Byte) /\ Len(b) \in Nat \ {0} /\ PackedLength(b) \in Nat \ {0}
  BY BlockIs DEF DataAssumption
<1>1. data = b
  <2>1. CASE Packs(b)
    <3>1. ~(Size(b) <= 0) /\ x = Packed(b)
      <4>1. Size(b) = PackedLength(b)
        BY <2>1 DEF Size
      <4> QED
        BY <1>0, <2>1, <4>1 DEF Payload
    <3>2. 1 \in 1..PackedLength(b)
      BY <1>0
    <3>3. x[1] = <<"packed", b, 1>>
      BY <3>1, <3>2 DEF Packed
    <3>4. x[1][1] = "packed" /\ x[1][2] = b
      BY <3>3
    <3>5. IsPacked(x)
      BY <3>1, <3>4 DEF IsPacked
    <3>6. Unpacked(x) = {b}
      BY <3>4, <3>5 DEF Unpacked
    <3> QED
      BY <3>1, <3>6
  <2>2. CASE ~Packs(b)
    BY <1>0, <2>2 DEF Size, Payload
  <2> QED
    BY <2>1, <2>2
<1>2. Mark \notin Byte
  BY DEF Mark, DataAssumption
<1>3. b[1] \in Byte
  BY <1>0
<1> QED
  BY <1>1, <1>2, <1>3

LEMMA ToSize ==
  ASSUME LengthsAssumption, DataAssumption, NEW bs \in Seq(Block), NEW f \in Seq(Cell), NEW u \in Seq(Cell),
         NEW c \in Seq(Cell), NEW m, AtBlock(bs, f, m, u, c), NEW x \in Seq(Cell), NEW v \in Seq(Cell),
         IsJoin(u, x, v), Len(x) = Weight(m), NEW data \in IF m <= 0 THEN {x} ELSE Unpacked(x), data \in Seq(Cell)
  PROVE  /\ data # <<Mark>> => AtSize(bs, f, v, c \o data)
         /\ data = <<Mark>> => Over(bs, f, c \o data)
<1>1. CASE Off(bs, f, c)
  BY <1>1, OffMore DEF AtSize
<1>2. CASE \E k \in Nat : k < Len(bs) /\ m = Size(bs[k + 1]) /\ Tracks(k, bs, f, IntBytes(m) \o u, c)
  <2>1. PICK k \in Nat : k < Len(bs) /\ m = Size(bs[k + 1]) /\ Tracks(k, bs, f, IntBytes(m) \o u, c)
    BY <1>2
  <2>2. \/ x = Payload(bs[k + 1]) /\ Tracks(k + 1, bs, f, v, c \o bs[k + 1])
        \/ x # Payload(bs[k + 1]) /\ Off(bs, f, c)
    BY <2>1, BlockStep
  <2>3. CASE x = Payload(bs[k + 1]) /\ Tracks(k + 1, bs, f, v, c \o bs[k + 1])
    <3>1. PICK b \in Block : b = bs[k + 1]
      BY <2>1
    <3>2. data = b /\ data # <<Mark>>
      BY <2>1, <2>3, <3>1, UnpackedRight
    <3>3. PICK j \in Nat : j = k + 1
      OBVIOUS
    <3>4. j <= Len(bs) /\ Tracks(j, bs, f, v, c \o data)
      BY <2>1, <2>3, <3>1, <3>2, <3>3
    <3> QED
      BY <3>2, <3>4 DEF AtSize
  <2>4. CASE x # Payload(bs[k + 1]) /\ Off(bs, f, c)
    BY <2>4, OffMore DEF AtSize
  <2> QED
    BY <2>2, <2>3, <2>4
<1> QED
  BY <1>1, <1>2 DEF AtBlock

LEMMA AtBlockEnd ==
  ASSUME LengthsAssumption, DataAssumption, NEW bs \in Seq(Block), NEW f \in Seq(Cell), NEW u \in Seq(Cell),
         NEW c \in Seq(Cell), NEW m, AtBlock(bs, f, m, u, c), Weight(m) <= FileBuffer => Len(u) < Weight(m)
  PROVE  Over(bs, f, c)
<1>1. CASE Off(bs, f, c)
  <2>1. <<>> \in Seq(Cell)
    OBVIOUS
  <2> QED
    BY <1>1, <2>1, OffMore
<1>2. CASE \E k \in Nat : k < Len(bs) /\ m = Size(bs[k + 1]) /\ Tracks(k, bs, f, IntBytes(m) \o u, c)
  <2>1. PICK k \in Nat : k < Len(bs) /\ m = Size(bs[k + 1]) /\ Tracks(k, bs, f, IntBytes(m) \o u, c)
    BY <1>2
  <2>2. PICK b \in Block : b = bs[k + 1]
    BY <2>1
  <2>3. Weight(m) \in 1..InBlock
    BY <2>1, <2>2, PayloadIs
  <2>4. Weight(m) <= FileBuffer
    BY <2>3 DEF LengthsAssumption
  <2> QED
    BY <2>1, <2>4, BlockEnd
<1> QED
  BY <1>1, <1>2 DEF AtBlock

(* Reading back what begins with the header. *)
ReadInv ==
  Unharmed /\ IsPrefix(Header, file) =>
    /\ phase # "plain"
    /\ phase = "unpack" => AtSize(Blocks(original), file, Unread, copy)
    /\ phase = "block" => AtBlock(Blocks(original), file, inblock, Unread, copy)
    /\ phase = "copied" => Over(Blocks(original), file, copy)

(* And what has no signature. *)
PlainInv ==
  Unharmed /\ ~HasSignature(file) =>
    /\ phase \notin {"unpack", "block"}
    /\ phase = "plain" => IsJoin(file, copy, rest)
    /\ phase = "copied" => copy = file

LEMMA SignatureIs ==
  ASSUME LengthsAssumption, NEW f \in Seq(Cell), IsPrefix(Header, f)
  PROVE  HasSignature(f) /\ IsJoin(f, Header, After(HeaderLength, f)) /\ After(HeaderLength, f) \in Seq(Cell)
<1>0. HeaderLength \in Nat \ {0} /\ SignatureLength \in 1..HeaderLength
  BY DEF LengthsAssumption
<1>1. PICK h \in Seq(Cell) : h = Header /\ Len(h) = HeaderLength
  BY HeaderIs
<1>2. Len(h) <= Len(f) /\ \A i \in 1..Len(h) : h[i] = f[i]
  BY <1>1, PrefixIs
<1>3. First(SignatureLength, f) = First(SignatureLength, h)
  <2>1. /\ Least(SignatureLength, Len(f)) = SignatureLength
        /\ Least(SignatureLength, Len(h)) = SignatureLength
    BY <1>0, <1>1, <1>2 DEF Least
  <2>2. PICK p \in Seq(Cell) : /\ p = First(SignatureLength, f) /\ Len(p) = SignatureLength
                               /\ \A i \in 1..SignatureLength : p[i] = f[i]
    BY <1>0, <2>1, CutAlong
  <2>3. PICK q \in Seq(Cell) : /\ q = First(SignatureLength, h) /\ Len(q) = SignatureLength
                               /\ \A i \in 1..SignatureLength : q[i] = h[i]
    BY <1>0, <2>1, CutAlong
  <2>4. \A i \in 1..SignatureLength : p[i] = q[i]
    BY <1>0, <1>1, <1>2, <2>2, <2>3
  <2> QED
    BY <2>2, <2>3, <2>4, SeqEqual
<1>4. PICK a, b \in Seq(Cell) : a = First(HeaderLength, f) /\ b = After(HeaderLength, f) /\ IsJoin(f, a, b)
                      /\ a \in Seq(Cell)
  BY <1>0, AfterAny
<1>5. a = h
  <2>1. Least(HeaderLength, Len(f)) = HeaderLength
    BY <1>0, <1>1, <1>2 DEF Least
  <2>2. Len(a) = HeaderLength /\ \A i \in 1..HeaderLength : a[i] = f[i]
    BY <1>0, <1>4, <2>1, CutAlong
  <2>3. \A i \in 1..HeaderLength : a[i] = h[i]
    BY <1>1, <1>2, <2>2
  <2> QED
    BY <1>1, <1>4, <2>2, <2>3, SeqEqual
<1> QED
  BY <1>1, <1>2, <1>3, <1>4, <1>5 DEF HasSignature

LEMMA BlocksType == ASSUME LengthsAssumption, StreamTypes PROVE Blocks(original) \in Seq(Block)
BY BlocksAre DEF StreamTypes

(* Nothing is read back while it is stored. *)
LEMMA StillStored ==
  ASSUME LengthsAssumption, StreamTypes,
         WriteHeader \/ Read \/ PutSize \/ PutPayload \/ Flush \/ Store \/ Crash \/ Damage
  PROVE  phase' \in Storing \cup {"stored"}
BY DEF WriteHeader, Read, PutSize, PutPayload, Put, Flush, Store, Crash, Damage, Storing

LEMMA ReadNext ==
  ASSUME LengthsAssumption, DataAssumption, StreamTypes, ReadInv, [Next]_vars, Range(faults) \subseteq Range(faults')
  PROVE  ReadInv'
<1>0. /\ rest \in Seq(Cell) /\ buffer \in Seq(Cell) /\ file \in Seq(Cell) /\ copy \in Seq(Cell)
      /\ Unread \in Seq(Cell) /\ Blocks(original) \in Seq(Block)
  BY UnreadType, BlocksType DEF StreamTypes
<1>1. SUFFICES ASSUME Unharmed', IsPrefix(Header, file)'
               PROVE  /\ phase' # "plain"
                      /\ phase' = "unpack" => AtSize(Blocks(original), file, Unread, copy)'
                      /\ phase' = "block" => AtBlock(Blocks(original), file, inblock, Unread, copy)'
                      /\ phase' = "copied" => Over(Blocks(original), file, copy)'
  BY DEF ReadInv
<1>2. Unharmed
  BY <1>1 DEF Unharmed
<1>3. CASE WriteHeader \/ Read \/ PutSize \/ PutPayload \/ Flush \/ Store \/ Crash \/ Damage
  BY <1>3, StillStored DEF Storing
<1>4. CASE UNCHANGED vars
  BY <1>1, <1>2, <1>4 DEF ReadInv, vars, AtSize, AtBlock, Over, Off, Unread, Tracks, Unharmed
<1>5. CASE Sniff
  <2>1. /\ phase = "stored" /\ rest' = After(HeaderLength, file) /\ buffer' = <<>> /\ head' = 0
        /\ UNCHANGED <<original, file>>
    BY <1>5 DEF Sniff
  <2>2. /\ HasSignature(file) /\ IsJoin(file, Header, rest') /\ rest' \in Seq(Cell)
    BY <1>0, <1>1, <2>1, SignatureIs
  <2>3. phase' = "unpack" /\ copy' = copy /\ copy = <<>>
    BY <1>5, <2>1, <2>2 DEF Sniff, StreamTypes
  <2>4. PICK u \in Seq(Cell), bs \in Seq(Block) : u = rest' /\ bs = Blocks(original)
    BY <1>0, <2>2
  <2>5. Unread' = u
    <3>1. After(0, <<>>) = <<>>
      BY DEF After
    <3>2. <<>> \o u = u
      BY ConcatEmptySeq
    <3> QED
      BY <2>1, <2>4, <3>1, <3>2 DEF Unread
  <2>6. Tracks(0, bs, file, u, <<>>)
    <3>1. Upto(0, bs) = Header /\ First(0, bs) = <<>>
      BY UptoEnds, FirstEnds
    <3> QED
      BY <2>2, <2>4, <3>1, FlattenEmpty DEF Tracks
  <2>7. AtSize(bs, file, u, <<>>)
    BY <2>6 DEF AtSize
  <2>8. bs = Blocks(original)' /\ file' = file /\ copy' = <<>>
    BY <2>1, <2>3, <2>4
  <2>9. AtSize(Blocks(original), file, Unread, copy)'
    BY <2>5, <2>7, <2>8
  <2> QED
    BY <2>3, <2>9
<1>6. CASE Plain
  BY <1>1, <1>2, <1>6 DEF Plain, ReadInv
<1>7. CASE UnpackSize
  <2>1. UNCHANGED <<original, packing, file, copy>> /\ phase = "unpack"
    BY <1>7, UnpackSizeIs
  <2>2. /\ \/ /\ phase' = "block"
              /\ \E x \in Seq(Cell) : /\ Len(x) = IntLength /\ IsJoin(Unread, x, Unread')
                                      /\ inblock' \in SizesRead(x)
           \/ phase' = "copied" /\ Len(Unread) < IntLength
    BY <1>1, <1>7, UnpackSizeIs
  <2>3. PICK bs \in Seq(Block), u \in Seq(Cell), c \in Seq(Cell), f \in Seq(Cell) :
          bs = Blocks(original) /\ u = Unread /\ c = copy /\ f = file
    BY <1>0
  <2>4. AtSize(bs, f, u, c)
    BY <1>1, <1>2, <2>1, <2>3 DEF ReadInv
  <2>5. bs = Blocks(original)' /\ c = copy' /\ f = file'
    BY <2>1, <2>3
  <2>6. StreamTypes'
    BY <1>7, UnpackSizeIs
  <2>7. PICK v \in Seq(Cell) : v = Unread'
    <3>1. After(head, buffer)' \in Seq(Cell) /\ rest' \in Seq(Cell)
      <4>1. buffer' \in Seq(Cell) /\ head' \in Nat /\ head' <= Len(buffer') /\ rest' \in Seq(Cell)
        BY <2>6 DEF StreamTypes
      <4> QED
        BY <4>1, AfterIs
    <3> QED
      BY <3>1, ConcatProperties DEF Unread
  <2>8. CASE phase' = "block"
    <3>1. PICK x \in Seq(Cell), m \in {inblock'} : Len(x) = IntLength /\ IsJoin(u, x, v) /\ m \in SizesRead(x)
      BY <2>2, <2>3, <2>7, <2>8
    <3>2. AtBlock(bs, f, m, v, c)
      BY <2>4, <3>1, ToBlock
    <3>3. AtBlock(Blocks(original), file, inblock, Unread, copy)'
      BY <2>5, <2>7, <3>1, <3>2
    <3> QED
      BY <2>8, <3>3
  <2>9. CASE phase' = "copied" /\ Len(Unread) < IntLength
    <3>1. Over(bs, f, c)
      BY <2>3, <2>4, <2>9, AtEnd
    <3>2. Over(Blocks(original), file, copy)'
      BY <2>5, <3>1
    <3> QED
      BY <2>9, <3>2
  <2> QED
    BY <2>2, <2>8, <2>9
<1>8. CASE UnpackBlock
  <2>1. UNCHANGED <<original, packing, file, inblock>> /\ phase = "block"
    BY <1>8, UnpackBlockIs
  <2>2. \/ \E x \in Seq(Cell), v \in Seq(Cell) :
             /\ Len(x) = Weight(inblock) /\ IsJoin(Unread, x, v)
             /\ \E data \in IF inblock <= 0 THEN {x} ELSE Unpacked(x) :
                  /\ copy' = copy \o data /\ data \in Seq(Cell)
                  /\ data # <<Mark>> => phase' = "unpack" /\ Unread' = v
                  /\ data = <<Mark>> => phase' = "copied"
        \/ phase' = "copied" /\ copy' = copy /\ (Weight(inblock) <= FileBuffer => Len(Unread) < Weight(inblock))
    BY <1>1, <1>8, UnpackBlockIs
  <2>3. PICK bs \in Seq(Block), u \in Seq(Cell), c \in Seq(Cell), f \in Seq(Cell), m \in {inblock} :
          bs = Blocks(original) /\ u = Unread /\ c = copy /\ f = file
    BY <1>0
  <2>4. AtBlock(bs, f, m, u, c)
    BY <1>1, <1>2, <2>1, <2>3 DEF ReadInv
  <2>5. bs = Blocks(original)' /\ f = file'
    BY <2>1, <2>3
  <2>6. ASSUME NEW x \in Seq(Cell), NEW v \in Seq(Cell), Len(x) = Weight(m), IsJoin(u, x, v),
               NEW data \in IF m <= 0 THEN {x} ELSE Unpacked(x), copy' = copy \o data, data \in Seq(Cell),
               data # <<Mark>> => phase' = "unpack" /\ Unread' = v, data = <<Mark>> => phase' = "copied"
        PROVE  /\ phase' # "plain"
               /\ phase' = "unpack" => AtSize(Blocks(original), file, Unread, copy)'
               /\ phase' = "block" => AtBlock(Blocks(original), file, inblock, Unread, copy)'
               /\ phase' = "copied" => Over(Blocks(original), file, copy)'
    <3>1. PICK w : w = c \o data /\ w = copy'
      BY <2>3, <2>6
    <3>6. /\ data # <<Mark>> => AtSize(bs, f, v, c \o data)
          /\ data = <<Mark>> => Over(bs, f, c \o data)
      <4>1. AtBlock(bs, f, m, u, c) /\ Len(x) = Weight(m) /\ IsJoin(u, x, v) /\ data \in Seq(Cell)
            /\ data \in IF m <= 0 THEN {x} ELSE Unpacked(x)
        BY <2>4, <2>6
      <4> QED
        BY <4>1, ToSize
    <3>2. data # <<Mark>> => AtSize(bs, f, v, w)
      BY <3>1, <3>6
    <3>3. data = <<Mark>> => Over(bs, f, w)
      BY <3>1, <3>6
    <3>4. CASE data # <<Mark>>
      <4>1. AtSize(Blocks(original), file, Unread, copy)'
        BY <2>5, <2>6, <3>1, <3>2, <3>4
      <4> QED
        BY <2>6, <3>4, <4>1
    <3>5. CASE data = <<Mark>>
      <4>1. Over(Blocks(original), file, copy)'
        BY <2>5, <3>1, <3>3, <3>5
      <4> QED
        BY <2>6, <3>5, <4>1
    <3> QED
      BY <3>4, <3>5
  <2>7. ASSUME phase' = "copied", copy' = copy, Weight(inblock) <= FileBuffer => Len(Unread) < Weight(inblock)
        PROVE  /\ phase' # "plain"
               /\ phase' = "unpack" => AtSize(Blocks(original), file, Unread, copy)'
               /\ phase' = "block" => AtBlock(Blocks(original), file, inblock, Unread, copy)'
               /\ phase' = "copied" => Over(Blocks(original), file, copy)'
    <3>1. Over(bs, f, c)
      BY <2>3, <2>4, <2>7, AtBlockEnd
    <3>2. Over(Blocks(original), file, copy)'
      BY <2>3, <2>5, <2>7, <3>1
    <3> QED
      BY <2>7, <3>2
  <2> QED
    BY <2>2, <2>3, <2>6, <2>7
<1> QED
  BY <1>3, <1>4, <1>5, <1>6, <1>7, <1>8 DEF Next

------------------------------------------------------------------------------
(* Plain copies. *)

(* One buffer full of s. *)
LEMMA ChunkIs ==
  ASSUME LengthsAssumption, NEW B, NEW s \in Seq(B), NEW cells, cells = First(FileBuffer, s)
  PROVE  /\ cells \in Seq(B) /\ After(Len(cells), s) \in Seq(B)
         /\ IsJoin(s, cells, After(Len(cells), s))
         /\ cells = <<>> => s = <<>>
<1>0. FileBuffer \in Nat /\ FileBuffer > 0 /\ Len(s) \in Nat
  BY DEF LengthsAssumption
<1>1. PICK n \in Nat : n = Least(FileBuffer, Len(s)) /\ (n = 0 => Len(s) = 0)
  BY <1>0 DEF Least
<1>2. PICK y : y = After(n, s)
  OBVIOUS
<1>3. cells \in Seq(B) /\ y \in Seq(B) /\ cells \o y = s /\ Len(cells) = n
  BY <1>0, <1>1, <1>2, CutAlong
<1> QED
  BY <1>1, <1>2, <1>3 DEF IsJoin

LEMMA JoinMore ==
  ASSUME NEW B, NEW c \in Seq(B), NEW x \in Seq(B), NEW y \in Seq(B), NEW f, NEW r,
         IsJoin(f, c, r), IsJoin(r, x, y)
  PROVE  IsJoin(f, c \o x, y)
BY Associates DEF IsJoin, Assoc

LEMMA PlainNext ==
  ASSUME LengthsAssumption, StreamTypes, PlainInv, [Next]_vars, Range(faults) \subseteq Range(faults')
  PROVE  PlainInv'
<1>0. /\ rest \in Seq(Cell) /\ file \in Seq(Cell) /\ copy \in Seq(Cell)
      /\ HeaderLength \in Nat /\ FileBuffer \in Nat
  BY DEF StreamTypes, LengthsAssumption
<1>1. SUFFICES ASSUME Unharmed', ~HasSignature(file')
               PROVE  /\ phase' \notin {"unpack", "block"}
                      /\ phase' = "plain" => IsJoin(file', copy', rest')
                      /\ phase' = "copied" => copy' = file'
  BY DEF PlainInv
<1>2. Unharmed
  BY <1>1 DEF Unharmed
<1>3. CASE WriteHeader \/ Read \/ PutSize \/ PutPayload \/ Flush \/ Store \/ Crash \/ Damage
  BY <1>3, StillStored DEF Storing
<1>4. CASE UNCHANGED vars
  BY <1>1, <1>2, <1>4 DEF PlainInv, vars
<1>5. CASE Sniff
  <2>1. PICK cells \in Seq(Cell), y \in Seq(Cell) :
          /\ cells = First(HeaderLength, file) /\ y = After(HeaderLength, file)
          /\ IsJoin(file, cells, y)
    BY <1>0, AfterAny
  <2>2. phase = "stored" /\ rest' = y /\ file' = file
    BY <1>5, <2>1 DEF Sniff
  <2>3. PICK result \in Results(cells) :
          copy' = Written(copy, cells, result) /\ faults' = Noted(cells, result, "copy") /\ phase' = "plain"
    BY <1>1, <1>5, <2>1, <2>2 DEF Sniff
  <2>4. result = Len(cells)
    <3>1. "copy" \in Faults
      BY DEF Faults
    <3> QED
      BY <1>1, <2>3, <3>1, NotedIs DEF Unharmed
  <2>5. IsJoin(copy', copy, cells)
    BY <1>0, <2>1, <2>3, <2>4, WrittenIs
  <2>6. copy' = cells
    <3>1. copy = <<>>
      BY <2>2 DEF StreamTypes
    <3>2. <<>> \o cells = cells
      BY <2>1, ConcatEmptySeq
    <3> QED
      BY <2>5, <3>1, <3>2 DEF IsJoin
  <2> QED
    BY <2>1, <2>2, <2>3, <2>6
<1>6. CASE Plain
  <2>1. PICK cells : cells = First(FileBuffer, rest)
    OBVIOUS
  <2>2. PICK y : y = After(Len(cells), rest)
    OBVIOUS
  <2>3. cells \in Seq(Cell) /\ y \in Seq(Cell) /\ IsJoin(rest, cells, y) /\ (cells = <<>> => rest = <<>>)
    BY <1>0, <2>1, <2>2, ChunkIs
  <2>4. phase = "plain" /\ rest' = y /\ file' = file /\ phase' = IF cells = <<>> THEN "copied" ELSE "plain"
    BY <1>6, <2>1, <2>2 DEF Plain
  <2>5. PICK result \in Results(cells) : copy' = Written(copy, cells, result) /\ faults' = Noted(cells, result, "copy")
    BY <1>6, <2>1 DEF Plain
  <2>6. result = Len(cells)
    <3>1. "copy" \in Faults
      BY DEF Faults
    <3> QED
      BY <1>1, <2>5, <3>1, NotedIs DEF Unharmed
  <2>7. IsJoin(copy', copy, cells)
    BY <1>0, <2>3, <2>5, <2>6, WrittenIs
  <2>8. IsJoin(file, copy, rest)
    BY <1>1, <1>2, <2>4 DEF PlainInv
  <2>9. IsJoin(file', copy', y)
    <3>1. IsJoin(file, copy \o cells, y)
      BY <1>0, <2>3, <2>8, JoinMore
    <3> QED
      BY <2>4, <2>7, <3>1 DEF IsJoin
  <2>10. cells = <<>> => copy' = file'
    <3>1. ASSUME cells = <<>> PROVE copy' = file'
      <4>1. copy \o <<>> = copy
        BY <1>0, ConcatEmptySeq
      <4> QED
        BY <2>3, <2>4, <2>7, <2>8, <3>1, <4>1 DEF IsJoin
    <3> QED
      BY <3>1
  <2> QED
    BY <2>4, <2>9, <2>10
<1>7. CASE UnpackSize
  BY <1>1, <1>2, <1>7 DEF UnpackSize, PlainInv
<1>8. CASE UnpackBlock
  BY <1>1, <1>2, <1>8 DEF UnpackBlock, PlainInv
<1> QED
  BY <1>3, <1>4, <1>5, <1>6, <1>7, <1>8 DEF Next

LEMMA NoFaults ==
  ASSUME StreamTypes, Range(faults) \subseteq Range(faults'), faults' = <<>> PROVE faults = <<>>
<1>1. Range(<<>>) = {}
  BY DEF Range
<1>2. faults \in Seq(Faults) /\ Range(faults) = {}
  BY <1>1 DEF StreamTypes, Faults
<1> QED
  <2>1. ASSUME faults # <<>> PROVE FALSE
    <3>1. Len(faults) \in Nat \ {0}
      BY <1>2, <2>1, EmptySeq
    <3>2. 1 \in DOMAIN faults
      BY <1>2, <3>1
    <3> QED
      BY <1>2, <3>2 DEF Range
  <2> QED
    BY <2>1

(* A write that leaves no trace in faults is whole. *)
LEMMA WholeWrite ==
  ASSUME LengthsAssumption, StreamTypes, NEW out \in Seq(Cell), NEW cells \in Seq(Cell), NEW result \in Results(cells),
         faults' = Noted(cells, result, "store"), faults' = <<>>
  PROVE  IsJoin(Written(out, cells, result), out, cells)
<1>1. "store" \in Faults
  BY DEF Faults
<1>2. result = Len(cells)
  BY <1>1, NotedIs
<1> QED
  BY <1>2, WrittenIs

------------------------------------------------------------------------------
(* Storing. *)

(* What put_fbuffer adds to the stream, when nothing goes wrong. *)
LEMMA PutAdds ==
  ASSUME LengthsAssumption, StreamTypes, NEW cells \in Seq(Cell), Len(cells) <= FileBuffer, NEW next,
         Put(cells, next), faults' = <<>>, NEW s, IsJoin(s, file, buffer)
  PROVE  phase' = next /\ IsJoin(s \o cells, file', buffer')
BY PutIs DEF IsJoin

StoredAs(bs) ==
  /\ phase = "header" => file = <<>> /\ buffer = <<>> /\ rest = original
  /\ phase = "read" => \E k \in Nat : k <= Len(bs) /\ IsJoin(Upto(k, bs), file, buffer) /\ rest = RestAt(k, original)
  /\ phase = "size" => \E k \in Nat : /\ k < Len(bs) /\ IsJoin(Upto(k, bs), file, buffer)
                                      /\ inblock = bs[k + 1] /\ rest = RestAt(k + 1, original)
  /\ phase = "payload" =>
       \E k \in Nat : /\ k < Len(bs) /\ inblock = bs[k + 1] /\ rest = RestAt(k + 1, original)
                      /\ IsJoin(Upto(k, bs) \o IntBytes(Size(inblock)), file, buffer)
  /\ phase = "flush" => IsJoin(Stream(bs), file, buffer)
  /\ phase \notin Storing => file = Stream(bs)
  /\ phase # "store"

StoredPlain == /\ phase = "store" => IsJoin(original, file, rest)
               /\ phase \notin Storing => file = original
               /\ phase \notin Storing \ {"store"}

StoreInv == faults = <<>> => (packing => StoredAs(Blocks(original))) /\ (~packing => StoredPlain)

LEMMA PackedNext ==
  ASSUME LengthsAssumption, DataAssumption, StreamTypes, NEW bs \in Seq(Block), bs = Blocks(original),
         StoredAs(bs), [Next]_vars, faults' = <<>>
  PROVE  StoredAs(bs)'
<1>0. /\ rest \in Seq(Cell) /\ buffer \in Seq(Cell) /\ file \in Seq(Cell) /\ original \in Seq(Byte)
      /\ faults \in Seq(Faults) /\ "store" \in Faults /\ "damage" \in Faults
  BY DEF StreamTypes, Faults
<1>1. CASE WriteHeader
  <2>1. PICK result \in Results(Header) :
          file' = Written(file, Header, result) /\ faults' = Noted(Header, result, "store")
    BY <1>1 DEF WriteHeader
  <2>2. phase = "header" /\ phase' = "read" /\ UNCHANGED <<original, rest, buffer>>
    BY <1>1 DEF WriteHeader
  <2>3. file = <<>> /\ buffer = <<>> /\ rest = original
    BY <2>2 DEF StoredAs
  <2>4. IsJoin(file', file, Header)
    BY <1>0, <2>1, HeaderIs, WholeWrite
  <2>5. IsJoin(Upto(0, bs), file', buffer')
    <3>1. <<>> \o Header = Header /\ Header \o <<>> = Header
      BY HeaderIs, ConcatEmptySeq
    <3> QED
      BY <2>2, <2>3, <2>4, <3>1, UptoEnds DEF IsJoin
  <2>6. rest' = RestAt(0, original)
    <3>1. Least(0 * InBlock, Len(original)) = 0
      BY <1>0 DEF Least, LengthsAssumption
    <3>2. After(0, original) = original
      BY <1>0, SubSeqFull DEF After
    <3> QED
      BY <2>2, <2>3, <3>1, <3>2 DEF RestAt
  <2>7. 0 <= Len(bs) /\ rest' = RestAt(0, original')
    BY <2>2, <2>6
  <2> QED
    BY <2>2, <2>5, <2>7 DEF StoredAs, Storing
<1>2. CASE Read
  <2>1. /\ phase = "read" /\ inblock' = First(InBlock, rest)
        /\ rest' = After(Least(InBlock, Len(rest)), rest)
        /\ phase' = IF rest = <<>> THEN "flush" ELSE "size"
        /\ UNCHANGED <<original, buffer, file>>
    BY <1>2 DEF Read
  <2>2. PICK k \in Nat : k <= Len(bs) /\ IsJoin(Upto(k, bs), file, buffer) /\ rest = RestAt(k, original)
    BY <2>1 DEF StoredAs
  <2>3. CASE k = Len(bs)
    <3>1. rest = <<>>
      BY <1>0, <2>2, <2>3, NextBlock
    <3>2. IsJoin(Stream(bs), file', buffer')
      BY <2>1, <2>2, <2>3, UptoEnds
    <3> QED
      BY <2>1, <3>1, <3>2 DEF StoredAs, Storing
  <2>4. CASE k < Len(bs)
    <3>1. /\ rest # <<>> /\ inblock' = bs[k + 1] /\ rest' = RestAt(k + 1, original)
      BY <1>0, <2>1, <2>2, <2>4, NextBlock
    <3>2. k < Len(bs) /\ IsJoin(Upto(k, bs), file', buffer') /\ rest' = RestAt(k + 1, original')
      BY <2>1, <2>2, <2>4, <3>1
    <3> QED
      BY <2>1, <3>1, <3>2 DEF StoredAs, Storing
  <2> QED
    BY <2>2, <2>3, <2>4
<1>3. CASE PutSize
  <2>1. phase = "size" /\ UNCHANGED <<original, rest, inblock>> /\ Put(IntBytes(Size(inblock)), "payload")
    BY <1>3 DEF PutSize
  <2>2. PICK k \in Nat : /\ k < Len(bs) /\ IsJoin(Upto(k, bs), file, buffer)
                         /\ inblock = bs[k + 1] /\ rest = RestAt(k + 1, original)
    BY <2>1 DEF StoredAs
  <2>3. inblock \in Block
    BY <2>1 DEF StreamTypes
  <2>4. PICK cells \in Seq(Cell) : cells = IntBytes(Size(inblock)) /\ Len(cells) <= FileBuffer
    BY <2>3, BlockAtHand
  <2>5. phase' = "payload" /\ IsJoin(Upto(k, bs) \o cells, file', buffer')
    BY <2>1, <2>2, <2>4, PutAdds
  <2>6. /\ k < Len(bs) /\ inblock' = bs[k + 1] /\ rest' = RestAt(k + 1, original')
        /\ IsJoin(Upto(k, bs) \o IntBytes(Size(inblock')), file', buffer')
    BY <2>1, <2>2, <2>4, <2>5
  <2> QED
    BY <2>5, <2>6 DEF StoredAs, Storing
<1>4. CASE PutPayload
  <2>1. phase = "payload" /\ UNCHANGED <<original, rest, inblock>> /\ Put(Payload(inblock), "read")
    BY <1>4 DEF PutPayload
  <2>2. PICK k \in Nat : /\ k < Len(bs) /\ inblock = bs[k + 1] /\ rest = RestAt(k + 1, original)
                         /\ IsJoin(Upto(k, bs) \o IntBytes(Size(inblock)), file, buffer)
    BY <2>1 DEF StoredAs
  <2>3. inblock \in Block
    BY <2>1 DEF StreamTypes
  <2>4. PICK cells \in Seq(Cell) : cells = Payload(inblock) /\ Len(cells) <= FileBuffer
    BY <2>3, BlockAtHand
  <2>5. PICK s : s = Upto(k, bs) \o IntBytes(Size(inblock)) /\ IsJoin(s, file, buffer)
    BY <2>2
  <2>6. phase' = "read" /\ IsJoin(s \o cells, file', buffer')
    BY <2>1, <2>4, <2>5, PutAdds
  <2>7. s \o cells = Upto(k + 1, bs)
    BY <2>2, <2>4, <2>5, UptoMore
  <2>8. PICK j \in Nat : j = k + 1
    OBVIOUS
  <2>9. j <= Len(bs) /\ IsJoin(Upto(j, bs), file', buffer') /\ rest' = RestAt(j, original')
    BY <2>1, <2>2, <2>6, <2>7, <2>8
  <2> QED
    BY <2>6, <2>9 DEF StoredAs, Storing
<1>5. CASE Flush
  <2>1. PICK result \in Results(buffer) :
          file' = Written(file, buffer, result) /\ faults' = Noted(buffer, result, "store")
    BY <1>5 DEF Flush
  <2>2. phase = "flush" /\ phase' = "stored"
    BY <1>5 DEF Flush
  <2>3. IsJoin(file', file, buffer)
    BY <1>0, <2>1, WholeWrite
  <2>4. IsJoin(Stream(bs), file, buffer)
    BY <2>2 DEF StoredAs
  <2>5. file' = Stream(bs)
    BY <2>3, <2>4 DEF IsJoin
  <2> QED
    BY <2>2, <2>5 DEF StoredAs, Storing
<1>6. CASE Store
  BY <1>6 DEF Store, StoredAs
<1>7. CASE Crash \/ Damage
  <2>1. faults' = Append(faults, "store") \/ faults' = Append(faults, "damage")
    BY <1>7 DEF Crash, Damage
  <2> QED
    BY <1>0, <2>1, RangeMore
<1>8. CASE Sniff \/ Plain \/ UnpackSize \/ UnpackBlock
  <2>1. phase \notin Storing /\ phase' \notin Storing /\ file' = file
    BY <1>8 DEF Sniff, Plain, UnpackSize, UnpackBlock, Storing
  <2> QED
    BY <2>1 DEF StoredAs, Storing
<1>9. CASE UNCHANGED vars
  BY <1>9 DEF vars, StoredAs
<1> QED
  BY <1>1, <1>2, <1>3, <1>4, <1>5, <1>6, <1>7, <1>8, <1>9 DEF Next

LEMMA UnpackedNext ==
  ASSUME LengthsAssumption, StreamTypes, StoredPlain, [Next]_vars, faults' = <<>>
  PROVE  StoredPlain'
<1>0. /\ rest \in Seq(Cell) /\ file \in Seq(Cell) /\ faults \in Seq(Faults)
      /\ "store" \in Faults /\ "damage" \in Faults
  BY DEF StreamTypes, Faults
<1>1. CASE WriteHeader \/ Read \/ PutSize \/ PutPayload \/ Flush
  BY <1>1 DEF WriteHeader, Read, PutSize, PutPayload, Flush, StoredPlain, Storing
<1>2. CASE Store
  <2>1. PICK cells : cells = First(FileBuffer, rest)
    OBVIOUS
  <2>2. PICK y : y = After(Len(cells), rest)
    OBVIOUS
  <2>3. cells \in Seq(Cell) /\ y \in Seq(Cell) /\ IsJoin(rest, cells, y) /\ (cells = <<>> => rest = <<>>)
    BY <1>0, <2>1, <2>2, ChunkIs
  <2>4. phase = "store" /\ rest' = y /\ original' = original /\ phase' = IF cells = <<>> THEN "stored" ELSE "store"
    BY <1>2, <2>1, <2>2 DEF Store
  <2>5. PICK result \in Results(cells) : file' = Written(file, cells, result) /\ faults' = Noted(cells, result, "store")
    BY <1>2, <2>1 DEF Store
  <2>6. IsJoin(file', file, cells)
    BY <1>0, <2>3, <2>5, WholeWrite
  <2>7. IsJoin(original, file, rest)
    BY <2>4 DEF StoredPlain
  <2>8. IsJoin(original', file', y)
    <3>1. IsJoin(original, file \o cells, y)
      BY <1>0, <2>3, <2>7, JoinMore
    <3> QED
      BY <2>4, <2>6, <3>1 DEF IsJoin
  <2>9. ASSUME cells = <<>> PROVE file' = original'
    <3>1. file \o <<>> = file
      BY <1>0, ConcatEmptySeq
    <3> QED
      BY <2>3, <2>4, <2>6, <2>7, <2>9, <3>1 DEF IsJoin
  <2> QED
    BY <2>4, <2>8, <2>9 DEF StoredPlain, Storing
<1>3. CASE Crash \/ Damage
  <2>1. faults' = Append(faults, "store") \/ faults' = Append(faults, "damage")
    BY <1>3 DEF Crash, Damage
  <2> QED
    BY <1>0, <2>1, RangeMore
<1>4. CASE Sniff \/ Plain \/ UnpackSize \/ UnpackBlock
  <2>1. phase \notin Storing /\ phase' \notin Storing /\ UNCHANGED <<original, file>>
    BY <1>4 DEF Sniff, Plain, UnpackSize, UnpackBlock, Storing
  <2> QED
    BY <2>1 DEF StoredPlain, Storing
<1>5. CASE UNCHANGED vars
  BY <1>5 DEF vars, StoredPlain
<1> QED
  BY <1>1, <1>2, <1>3, <1>4, <1>5 DEF Next

StreamInv == StreamTypes /\ ReadInv /\ PlainInv /\ StoreInv

LEMMA StreamInit == ASSUME LengthsAssumption, DataAssumption, Init PROVE StreamInv
<1>1. original \in Seq(Byte) /\ packing \in BOOLEAN
  BY DEF Init, DataAssumption
<1>2. phase = (IF packing THEN "header" ELSE "store") /\ rest = original /\ buffer = <<>> /\ head = 0
      /\ file = <<>> /\ copy = <<>> /\ faults = <<>>
  BY DEF Init
<1>3. StreamTypes
  BY <1>1, <1>2, ByteCell DEF StreamTypes, Storing, LengthsAssumption
<1>4. ReadInv /\ PlainInv
  BY <1>2 DEF ReadInv, PlainInv
<1>5. StoreInv
  <2>1. IsJoin(original, file, rest)
    BY <1>1, <1>2, ConcatEmptySeq DEF IsJoin
  <2> QED
    BY <1>2, <2>1 DEF StoreInv, StoredAs, StoredPlain, Storing
<1> QED
  BY <1>3, <1>4, <1>5 DEF StreamInv

LEMMA StreamNext ==
  ASSUME LengthsAssumption, DataAssumption, StreamInv, [Next]_vars PROVE StreamInv'
<1>1. StreamTypes /\ ReadInv /\ PlainInv /\ StoreInv
  BY DEF StreamInv
<1>2. StreamTypes' /\ Range(faults) \subseteq Range(faults')
  BY <1>1, TypesNext
<1>3. ReadInv'
  BY <1>1, <1>2, ReadNext
<1>4. PlainInv'
  BY <1>1, <1>2, PlainNext
<1>5. StoreInv'
  <2>1. SUFFICES ASSUME faults' = <<>>
                 PROVE  (packing => StoredAs(Blocks(original)))' /\ (~packing => StoredPlain)'
    BY DEF StoreInv
  <2>2. faults = <<>>
    BY <1>1, <1>2, <2>1, NoFaults
  <2>3. UNCHANGED <<original, packing>>
    BY DEF Next, WriteHeader, Read, PutSize, PutPayload, Flush, Store, Crash, Damage, Sniff, Plain, UnpackSize,
           UnpackBlock, vars
  <2>4. PICK bs \in Seq(Block) : bs = Blocks(original) /\ bs = Blocks(original')
    BY <1>1, <2>3, BlocksType
  <2>5. ASSUME packing PROVE StoredAs(bs)'
    BY <1>1, <2>1, <2>2, <2>4, <2>5, PackedNext DEF StoreInv
  <2>6. ASSUME ~packing PROVE StoredPlain'
    BY <1>1, <2>1, <2>2, <2>6, UnpackedNext DEF StoreInv
  <2>7. packing => StoredAs(Blocks(original))'
    BY <2>4, <2>5
  <2> QED
    BY <2>3, <2>6, <2>7
<1> QED
  BY <1>2, <1>3, <1>4, <1>5 DEF StreamInv

LEMMA WholeBlocksAre == WholeBlocks = WholeOf(file, Blocks(original))
BY DEF WholeBlocks, WholeOf

LEMMA StreamRecovers == ASSUME LengthsAssumption, DataAssumption, StreamInv PROVE Recovers
<1>0. StreamTypes /\ ReadInv /\ PlainInv /\ StoreInv
  BY DEF StreamInv
<1>1. SUFFICES ASSUME phase = "copied", Unharmed
               PROVE  /\ packing /\ IsPrefix(Header, file) =>
                           /\ IsPrefix(FlattenSeq(WholeBlocks), copy)
                           /\ IsPrefix(file, Stream(Blocks(original))) => copy = FlattenSeq(WholeBlocks)
                      /\ ~packing /\ ~HasSignature(file) => copy = file
                      /\ faults = <<>> /\ (packing \/ ~HasSignature(file)) => copy = original
  BY DEF Recovers, Unharmed
<1>2. IsPrefix(Header, file) =>
        /\ IsPrefix(FlattenSeq(WholeBlocks), copy)
        /\ IsPrefix(file, Stream(Blocks(original))) => copy = FlattenSeq(WholeBlocks)
  BY <1>0, <1>1, WholeBlocksAre DEF ReadInv, Over
<1>3. ~HasSignature(file) => copy = file
  BY <1>0, <1>1 DEF PlainInv
<1>4. ASSUME faults = <<>>, packing PROVE copy = original
  <2>1. PICK bs \in Seq(Block) : bs = Blocks(original)
    BY <1>0, BlocksType
  <2>2. file = Stream(bs)
    BY <1>0, <1>1, <1>4, <2>1 DEF StoreInv, StoredAs, Storing
  <2>3. PICK n \in Nat : n = Len(bs)
    OBVIOUS
  <2>4. Upto(n, bs) = file /\ Upto(0, bs) = Header /\ First(n, bs) = bs
    BY <2>2, <2>3, UptoEnds, FirstEnds
  <2>5. file \in Seq(Cell) /\ IsPrefix(file, file)
    BY <1>0, PrefixRefl DEF StreamTypes
  <2>6. IsPrefix(Header, file)
    BY <2>3, <2>4, UptoGrows
  <2>7. WholeOf(file, bs) = bs
    BY <2>3, <2>4, <2>5, WholeIs
  <2>8. copy = FlattenSeq(bs)
    BY <1>2, <2>1, <2>2, <2>5, <2>6, <2>7, WholeBlocksAre
  <2>9. FlattenSeq(bs) = original
    BY <1>0, <2>1, BlocksJoin DEF StreamTypes
  <2> QED
    BY <2>8, <2>9
<1>5. ASSUME faults = <<>>, ~packing, ~HasSignature(file) PROVE copy = original
  BY <1>0, <1>1, <1>3, <1>5 DEF StoreInv, StoredPlain, Storing
<1> QED
  BY <1>2, <1>3, <1>4, <1>5

(* copyFileWithCompression, compress, decompress and copyFileWithDecompression: for every
   data, block length, buffer and packer, what is read back of a file stored compressed
   begins with all blocks before the first short write, crash or damaged byte, is exactly
   those when only the end is missing, and is the data when nothing went wrong. *)
THEOREM BlocksRecovered == ASSUME LengthsAssumption, DataAssumption PROVE Spec => []Recovers
<1>1. Init => StreamInv
  BY StreamInit
<1>2. StreamInv /\ [Next]_vars => StreamInv'
  BY StreamNext
<1>3. StreamInv => Recovers
  BY StreamRecovers
<1> QED
  BY <1>1, <1>2, <1>3, PTL DEF Spec

(* put_fbuffer and ensure_fbuffer: as the buffer is longer than a block and an int, what is
   put fits behind what is in it, and nothing is read behind the tail, whatever a damaged
   file gives as the size of a block. *)
THEOREM NeverOverrun == ASSUME LengthsAssumption, DataAssumption PROVE Spec => []BufferBounded
<1>1. Init => StreamInv
  BY StreamInit
<1>2. StreamInv /\ [Next]_vars => StreamInv'
  BY StreamNext
<1>3. StreamInv => BufferBounded
  BY DEF StreamInv, StreamTypes, BufferBounded
<1> QED
  BY <1>1, <1>2, <1>3, PTL DEF Spec

------------------------------------------------------------------------------
(* The line reader of socket.h. *)

Bytes == Range(Sent) \cup {EndOfLine}

ReaderTypes == /\ {toSend, wire, received, buffer_} \subseteq Seq(Bytes)
               /\ lines \in Seq(Seq(Bytes))
               /\ step \in {"idle", "cut", "wait", "broken"}

(* Only an inner call has something that is not in the buffer yet. *)
ReaderInv == /\ ReaderTypes
             /\ step \in {"idle", "cut"} => received = <<>>
             /\ Reader!LinesInOrder

Texts(ls) == [k \in DOMAIN ls |-> Append(ls[k], EndOfLine)]

LEMMA EndsFlat == ASSUME NEW ls PROVE Reader!WithEnds(ls) = FlattenSeq(Texts(ls))
BY DEF Texts, Reader!WithEnds, Reader!FlattenSeq, FlattenSeq

LEMMA EndsType ==
  ASSUME NEW ls \in Seq(Seq(Bytes))
  PROVE  Texts(ls) \in Seq(Seq(Bytes)) /\ Reader!WithEnds(ls) \in Seq(Bytes)
<1>1. Len(ls) \in Nat /\ DOMAIN ls = 1..Len(ls)
  OBVIOUS
<1>2. \A k \in 1..Len(ls) : Append(ls[k], EndOfLine) \in Seq(Bytes)
  <2> SUFFICES ASSUME NEW k \in 1..Len(ls) PROVE Append(ls[k], EndOfLine) \in Seq(Bytes)
    OBVIOUS
  <2>1. ls[k] \in Seq(Bytes) /\ EndOfLine \in Bytes
    BY DEF Bytes
  <2> QED
    BY <2>1, AppendProperties
<1>3. Texts(ls) \in Seq(Seq(Bytes))
  BY <1>1, <1>2 DEF Texts
<1> QED
  BY <1>3, FlattenType, EndsFlat

LEMMA EndsAppend ==
  ASSUME NEW ls \in Seq(Seq(Bytes)), NEW line \in Seq(Bytes)
  PROVE  Reader!WithEnds(Append(ls, line)) = Reader!WithEnds(ls) \o Append(line, EndOfLine)
<1>1. EndOfLine \in Bytes /\ Append(line, EndOfLine) \in Seq(Bytes)
  BY AppendProperties DEF Bytes
<1>2. Texts(Append(ls, line)) = Append(Texts(ls), Append(line, EndOfLine))
  <2>1. PICK more \in Seq(Seq(Bytes)) : more = Append(ls, line)
    BY AppendProperties
  <2>2. /\ Len(more) = Len(ls) + 1 /\ more[Len(ls) + 1] = line
        /\ \A i \in 1..Len(ls) : more[i] = ls[i]
    BY <2>1, AppendProperties
  <2>3. Texts(ls) \in Seq(Seq(Bytes)) /\ Len(Texts(ls)) = Len(ls)
        /\ Texts(more) \in Seq(Seq(Bytes)) /\ Len(Texts(more)) = Len(more)
    BY EndsType DEF Texts
  <2>4. PICK long \in Seq(Seq(Bytes)) : long = Append(Texts(ls), Append(line, EndOfLine))
    BY <1>1, <2>3, AppendProperties
  <2>5. /\ Len(long) = Len(ls) + 1 /\ long[Len(ls) + 1] = Append(line, EndOfLine)
        /\ \A i \in 1..Len(ls) : long[i] = Texts(ls)[i]
    BY <1>1, <2>3, <2>4, AppendProperties
  <2>6. \A i \in 1..Len(more) : long[i] = Texts(more)[i]
    <3>1. \A i \in 1..Len(ls) : Texts(ls)[i] = Append(ls[i], EndOfLine)
      BY DEF Texts
    <3>2. \A i \in 1..Len(more) : Texts(more)[i] = Append(more[i], EndOfLine)
      BY DEF Texts
    <3>3. ASSUME NEW i \in 1..Len(more) PROVE i \in 1..Len(ls) \/ i = Len(ls) + 1
      BY <2>2
    <3> QED
      BY <2>2, <2>5, <3>1, <3>2, <3>3
  <2>7. long = Texts(more)
    BY <2>2, <2>3, <2>5, <2>6, SeqEqual
  <2> QED
    BY <2>1, <2>4, <2>7
<1>3. FlattenSeq(Append(Texts(ls), Append(line, EndOfLine))) = FlattenSeq(Texts(ls)) \o Append(line, EndOfLine)
  BY <1>1, EndsType, FlattenAppend
<1> QED
  BY <1>2, <1>3, EndsFlat

------------------------------------------------------------------------------
(* The bytes of the peer, as they lie in the lines, in the two buffers, on the wire, and
   unsent. *)
Lying(ls, b, r, w, t) == (((Reader!WithEnds(ls) \o b) \o r) \o w) \o t

LEMMA InOrderIs ==
  Reader!LinesInOrder <=> IF step # "broken"
                          THEN Sent = Lying(lines, buffer_, received, wire, toSend)
                          ELSE lines # <<>> => IsPrefix(Reader!WithEnds(Front(lines)) \o Last(lines), Sent)
BY DEF Reader!LinesInOrder, Lying, Reader!IsPrefix, IsPrefix, Reader!Front, Front, Reader!Last, Last

LEMMA InitReader ==
  ASSUME Sent \in Seq(Range(Sent)), Reader!Init PROVE ReaderInv
<1>1. Sent \in Seq(Bytes)
  BY SeqMonotonic DEF Bytes
<1>2. ReaderTypes
  BY <1>1 DEF ReaderTypes, Reader!Init
<1>3. Sent = Lying(lines, buffer_, received, wire, toSend)
  <2>1. Reader!WithEnds(<<>>) = <<>>
    <3>1. Texts(<<>>) = <<>>
      BY DEF Texts
    <3> QED
      BY <3>1, EndsFlat, FlattenEmpty
  <2>2. Lying(<<>>, <<>>, <<>>, <<>>, Sent) = Sent
    <3>1. <<>> \in Seq(Bytes) /\ <<>> \o <<>> = <<>> /\ <<>> \o Sent = Sent
      BY <1>1, ConcatEmptySeq
    <3> QED
      BY <2>1, <3>1 DEF Lying
  <2> QED
    BY <2>2 DEF Reader!Init
<1> QED
  BY <1>2, <1>3, InOrderIs DEF ReaderInv, Reader!Init

(* The bytes have moved on. *)
LEMMA StillInOrder ==
  ASSUME ReaderInv, step # "broken", step' # "broken", ReaderTypes',
         Lying(lines, buffer_, received, wire, toSend)
           = Lying(lines', buffer_', received', wire', toSend')
  PROVE  Reader!LinesInOrder'
<1>1. Sent = Lying(lines', buffer_', received', wire', toSend')
  BY InOrderIs DEF ReaderInv
<1> QED
  BY <1>1 DEF Reader!LinesInOrder, Lying

LEMMA DeliverReader == ASSUME ReaderInv, Reader!Deliver PROVE ReaderInv'
<1>1. PICK n \in 1..Len(toSend) : /\ wire' = wire \o SubSeq(toSend, 1, n)
                                  /\ toSend' = SubSeq(toSend, n + 1, Len(toSend))
  BY DEF Reader!Deliver
<1>2. PICK x : x = SubSeq(toSend, 1, n)
  OBVIOUS
<1>3. x \in Seq(Bytes) /\ toSend' \in Seq(Bytes) /\ x \o toSend' = toSend
  <2>1. toSend \in Seq(Bytes)
    BY DEF ReaderInv, ReaderTypes
  <2>2. n \in 0..Len(toSend)
    OBVIOUS
  <2> QED
    BY <1>1, <1>2, <2>1, <2>2, CutAt
<1>4. wire' \in Seq(Bytes)
  BY <1>1, <1>2, <1>3, ConcatProperties DEF ReaderInv, ReaderTypes
<1>5. UNCHANGED <<step, received, buffer_, lines>>
  BY DEF Reader!Deliver
<1>6. Lying(lines, buffer_, received, wire', toSend') = Lying(lines, buffer_, received, wire, toSend)
  <2>1. PICK q \in Seq(Bytes) : q = (Reader!WithEnds(lines) \o buffer_) \o received
    BY EndsType, ConcatProperties DEF ReaderInv, ReaderTypes
  <2>2. wire \in Seq(Bytes) /\ toSend' \in Seq(Bytes) /\ x \in Seq(Bytes)
    BY <1>3 DEF ReaderInv, ReaderTypes
  <2>3. (q \o (wire \o x)) \o toSend' = (q \o wire) \o (x \o toSend')
    <3>1. PICK v \in Seq(Bytes) : v = q \o wire
      BY <2>2, ConcatProperties
    <3>2. Assoc(q, wire, x) /\ Assoc(v, x, toSend')
      BY <2>2, Associates
    <3> QED
      BY <3>1, <3>2 DEF Assoc
  <2> QED
    BY <1>1, <1>2, <1>3, <2>1, <2>3 DEF Lying
<1>7. Reader!LinesInOrder'
  BY <1>5, <1>6 DEF ReaderInv, Reader!LinesInOrder, Lying
<1> QED
  BY <1>3, <1>4, <1>5, <1>7 DEF ReaderInv, ReaderTypes

LEMMA CutReader == ASSUME ReaderInv, Reader!Cut PROVE ReaderInv'
<1>0. buffer_ \in Seq(Bytes) /\ received \in Seq(Bytes) /\ lines \in Seq(Seq(Bytes))
  BY DEF ReaderInv, ReaderTypes
<1>1. PICK end \in 1..Len(buffer_) :
        /\ buffer_[end] = EndOfLine
        /\ lines' = Append(lines, SubSeq(buffer_, 1, end - 1))
        /\ buffer_' = SubSeq(buffer_, end + 1, Len(buffer_))
  <2> DEFINE E == Reader!Ends(buffer_)
  <2>1. E \in SUBSET Nat /\ \A i \in E : i \in 1..Len(buffer_) /\ buffer_[i] = EndOfLine
    BY <1>0 DEF Reader!Ends
  <2>2. E # {}
    BY DEF Reader!Cut
  <2>3. (CHOOSE i \in E : \A j \in E : i <= j) \in E
    <3> HIDE DEF E
    <3>1. \E i \in E : \A j \in E : i <= j
      BY <2>1, <2>2, LeastOne
    <3> QED
      BY <3>1
  <2> QED
    BY <2>1, <2>3 DEF Reader!Cut
<1>2. PICK line \in Seq(Bytes), after \in Seq(Bytes) :
        /\ line = SubSeq(buffer_, 1, end - 1) /\ after = SubSeq(buffer_, end + 1, Len(buffer_))
        /\ Append(line, EndOfLine) \o after = buffer_
  <2>1. SubSeq(buffer_, 1, end - 1) \in Seq(Bytes) /\ SubSeq(buffer_, end + 1, Len(buffer_)) \in Seq(Bytes)
    BY <1>0
  <2>2. PICK line \in Seq(Bytes), after \in Seq(Bytes) :
          line = SubSeq(buffer_, 1, end - 1) /\ after = SubSeq(buffer_, end + 1, Len(buffer_))
    BY <2>1
  <2>3. Append(line, EndOfLine) \o after = buffer_
    <3>0. EndOfLine \in Bytes
      BY DEF Bytes
    <3>1. PICK mid \in Seq(Bytes) : mid = Append(line, EndOfLine)
      BY <3>0, AppendProperties
    <3>5. PICK both \in Seq(Bytes) : both = mid \o after
      BY ConcatProperties
    <3>2. Len(line) = end - 1 /\ Len(after) = Len(buffer_) - end
      BY <1>0, <1>1, <2>2
    <3>6. /\ Len(mid) = end /\ mid[end] = EndOfLine
          /\ \A i \in 1..(end - 1) : mid[i] = line[i] /\ line[i] = buffer_[i]
      <4>1. Len(mid) = Len(line) + 1 /\ mid[Len(line) + 1] = EndOfLine
            /\ \A i \in 1..Len(line) : mid[i] = line[i]
        BY <3>0, <3>1, AppendProperties
      <4>2. \A i \in 1..(end - 1) : line[i] = buffer_[i]
        BY <1>0, <1>1, <2>2
      <4> QED
        BY <3>2, <4>1, <4>2
    <3>7. /\ Len(both) = Len(mid) + Len(after)
          /\ \A i \in 1..Len(mid) : both[i] = mid[i]
          /\ \A i \in 1..Len(after) : both[Len(mid) + i] = after[i]
      BY <3>5, ConcatProperties
    <3>3. Len(both) = Len(buffer_)
      BY <1>0, <3>2, <3>6, <3>7
    <3>8. \A i \in 1..Len(after) : after[i] = buffer_[end + i]
      BY <1>0, <1>1, <2>2
    <3>4. \A i \in 1..Len(buffer_) : both[i] = buffer_[i]
      <4> SUFFICES ASSUME NEW i \in 1..Len(buffer_) PROVE both[i] = buffer_[i]
        OBVIOUS
      <4>0. Len(buffer_) \in Nat /\ end \in Nat
        BY <1>0
      <4>1. CASE i < end
        BY <1>0, <3>6, <3>7, <4>1
      <4>2. CASE i = end
        BY <1>1, <3>6, <3>7, <4>2
      <4>3. CASE i > end
        <5>1. PICK j \in 1..Len(after) : i = end + j
          BY <3>2, <4>0, <4>3
        <5> QED
          BY <3>6, <3>7, <3>8, <5>1
      <4> QED
        BY <4>0, <4>1, <4>2, <4>3
    <3> QED
      BY <1>0, <3>1, <3>5, <3>3, <3>4, SeqEqual
  <2> QED
    BY <2>2, <2>3
<1>3. lines' \in Seq(Seq(Bytes)) /\ Reader!WithEnds(lines') = Reader!WithEnds(lines) \o Append(line, EndOfLine)
  BY <1>0, <1>1, <1>2, EndsAppend, AppendProperties
<1>4. (Reader!WithEnds(lines) \o Append(line, EndOfLine)) \o after
        = Reader!WithEnds(lines) \o (Append(line, EndOfLine) \o after)
  <2>1. PICK a \in Seq(Bytes), b \in Seq(Bytes) : a = Reader!WithEnds(lines) /\ b = Append(line, EndOfLine)
    BY <1>0, EndsType, AppendProperties DEF Bytes
  <2>2. (a \o b) \o after = a \o (b \o after)
    OBVIOUS
  <2> QED
    BY <2>1, <2>2
<1>5. UNCHANGED <<received, wire, toSend>> /\ step = "cut" /\ step' = "idle"
  BY DEF Reader!Cut
<1>6. ReaderTypes'
  BY <1>1, <1>2, <1>3, <1>5 DEF ReaderInv, ReaderTypes
<1>7. Lying(lines, buffer_, received, wire, toSend) = Lying(lines', buffer_', received', wire', toSend')
  BY <1>1, <1>2, <1>3, <1>4, <1>5 DEF Lying
<1> QED
  BY <1>5, <1>6, <1>7, StillInOrder DEF ReaderInv

(* The inner call receives, or gives what it has to the buffer. *)
LEMMA ReceiveReader == ASSUME ReaderInv, Reader!Receive PROVE ReaderInv'
<1>1. PICK n \in 1..Len(wire) :
        /\ wire' = SubSeq(wire, n + 1, Len(wire))
        /\ \/ /\ buffer_' = (buffer_ \o received) \o SubSeq(wire, 1, n)
              /\ received' = <<>> /\ step' = "cut"
           \/ /\ received' = received \o SubSeq(wire, 1, n)
              /\ UNCHANGED <<buffer_, step>>
  BY DEF Reader!Receive
<1>2. /\ buffer_ \in Seq(Bytes) /\ received \in Seq(Bytes) /\ wire \in Seq(Bytes)
      /\ step = "wait" /\ UNCHANGED <<lines, toSend>>
  BY DEF ReaderInv, ReaderTypes, Reader!Receive
<1>3. PICK x : x = SubSeq(wire, 1, n)
  OBVIOUS
<1>4. x \in Seq(Bytes) /\ wire' \in Seq(Bytes) /\ x \o wire' = wire
  <2>1. n \in 0..Len(wire)
    BY <1>2
  <2> QED
    BY <1>1, <1>2, <1>3, <2>1, CutAt
<1>5. ReaderTypes' /\ (step' = "cut" => received' = <<>>)
  <2>1. PICK br \in Seq(Bytes) : br = buffer_ \o received
    BY <1>2, ConcatProperties
  <2>2. br \o x \in Seq(Bytes) /\ received \o x \in Seq(Bytes)
    BY <1>2, <1>4, ConcatProperties
  <2>3. buffer_' \in Seq(Bytes) /\ received' \in Seq(Bytes)
    <3>1. CASE /\ buffer_' = (buffer_ \o received) \o SubSeq(wire, 1, n)
               /\ received' = <<>>
      BY <1>3, <2>1, <2>2, <3>1
    <3>2. CASE received' = received \o SubSeq(wire, 1, n) /\ UNCHANGED <<buffer_, step>>
      BY <1>2, <1>3, <2>2, <3>2
    <3> QED
      BY <1>1, <3>1, <3>2
  <2>4. step' \in {"cut", "wait"} /\ (step' = "cut" => received' = <<>>)
    BY <1>1, <1>2
  <2> QED
    BY <1>2, <1>4, <2>3, <2>4 DEF ReaderInv, ReaderTypes
<1>6. ((Reader!WithEnds(lines) \o buffer_) \o received) \o wire
        = ((Reader!WithEnds(lines) \o buffer_') \o received') \o wire'
  <2>1. PICK a \in Seq(Bytes), b \in Seq(Bytes), r \in Seq(Bytes), w \in Seq(Bytes) :
          a = Reader!WithEnds(lines) /\ b = buffer_ /\ r = received /\ w = wire'
    BY <1>2, <1>4, EndsType DEF ReaderInv, ReaderTypes
  <2>2. PICK p \in Seq(Bytes) : p = a \o b
    BY ConcatProperties
  <2>3. (p \o r) \o (x \o w) = (p \o (r \o x)) \o w
    <3>1. x \in Seq(Bytes)
      BY <1>4
    <3>2. PICK v \in Seq(Bytes) : v = p \o r
      BY ConcatProperties
    <3>3. Assoc(v, x, w) /\ Assoc(p, r, x)
      BY <3>1, Associates
    <3> QED
      BY <3>2, <3>3 DEF Assoc
  <2>4. a \o ((b \o r) \o x) = p \o (r \o x)
    <3>1. x \in Seq(Bytes)
      BY <1>4
    <3>2. PICK v \in Seq(Bytes) : v = b \o r
      BY ConcatProperties
    <3>3. PICK u \in Seq(Bytes) : u = r \o x
      BY <3>1, ConcatProperties
    <3>4. v \o x = b \o u
      BY <3>1, <3>2, <3>3
    <3>5. a \o (b \o u) = (a \o b) \o u
      OBVIOUS
    <3> QED
      BY <2>2, <3>2, <3>3, <3>4, <3>5
  <2>5. (p \o (r \o x)) \o <<>> = p \o (r \o x)
    BY <1>4, ConcatEmptySeq, ConcatProperties
  <2> QED
    BY <1>1, <1>3, <1>4, <2>1, <2>2, <2>3, <2>4, <2>5
<1>7. Lying(lines, buffer_, received, wire, toSend) = Lying(lines', buffer_', received', wire', toSend')
  BY <1>2, <1>6 DEF Lying
<1> QED
  BY <1>1, <1>2, <1>5, <1>7, StillInOrder DEF ReaderInv

LEMMA TimeoutReader == ASSUME ReaderInv, Reader!Timeout PROVE ReaderInv'
<1>1. /\ buffer_ \in Seq(Bytes) /\ received \in Seq(Bytes) /\ step = "wait"
      /\ buffer_' = buffer_ \o received /\ received' = <<>> /\ step' \in {"idle", "cut"}
      /\ UNCHANGED <<lines, wire, toSend>>
  BY DEF ReaderInv, ReaderTypes, Reader!Timeout
<1>2. (Reader!WithEnds(lines) \o buffer_) \o received = (Reader!WithEnds(lines) \o buffer_') \o received'
  <2>1. PICK a \in Seq(Bytes), b \in Seq(Bytes), r \in Seq(Bytes) :
          a = Reader!WithEnds(lines) /\ b = buffer_ /\ r = received
    BY <1>1, EndsType DEF ReaderInv, ReaderTypes
  <2>2. (a \o b) \o r = (a \o (b \o r)) \o <<>>
    OBVIOUS
  <2> QED
    BY <1>1, <2>1, <2>2
<1>3. ReaderTypes'
  BY <1>1 DEF ReaderInv, ReaderTypes
<1>4. Lying(lines, buffer_, received, wire, toSend) = Lying(lines', buffer_', received', wire', toSend')
  BY <1>1, <1>2 DEF Lying
<1> QED
  BY <1>1, <1>3, <1>4, StillInOrder DEF ReaderInv

(* At an error the buffer becomes the last line, the start of one of the peer's. *)
LEMMA ErrorReader == ASSUME ReaderInv, Reader!Error PROVE ReaderInv'
<1>1. /\ step' = "broken" /\ buffer_' = <<>> /\ received' = <<>> /\ UNCHANGED <<wire, toSend>>
      /\ lines' = IF buffer_ = <<>> THEN lines ELSE Append(lines, buffer_)
      /\ step = "wait"
  BY DEF Reader!Error
<1>2. buffer_ \in Seq(Bytes) /\ received \in Seq(Bytes) /\ wire \in Seq(Bytes) /\ toSend \in Seq(Bytes)
      /\ lines \in Seq(Seq(Bytes))
  BY DEF ReaderInv, ReaderTypes
<1>3. ReaderTypes'
  BY <1>1, <1>2, AppendProperties DEF ReaderInv, ReaderTypes
<1>4. ASSUME NEW first \in Seq(Seq(Bytes)), NEW last \in Seq(Bytes), NEW more \in Seq(Bytes),
             lines' = Append(first, last), Sent = (Reader!WithEnds(first) \o last) \o more
      PROVE  IsPrefix(Reader!WithEnds(Front(lines')) \o Last(lines'), Sent)
  <2>1. Front(lines') = first /\ Last(lines') = last
    BY <1>4 DEF Front, Last
  <2>2. PICK start \in Seq(Bytes) : start = Reader!WithEnds(first) \o last
    BY EndsType, ConcatProperties
  <2> QED
    BY <1>4, <2>1, <2>2, PrefixOfConcat
<1>5. lines' # <<>> => IsPrefix(Reader!WithEnds(Front(lines')) \o Last(lines'), Sent)
  <2>0. PICK a \in Seq(Bytes), rw \in Seq(Bytes) :
          /\ a = Reader!WithEnds(lines) /\ rw = received \o (wire \o toSend)
          /\ Sent = (a \o buffer_) \o rw
    <3>1. PICK a \in Seq(Bytes), b \in Seq(Bytes), r \in Seq(Bytes), w \in Seq(Bytes), t \in Seq(Bytes) :
            a = Reader!WithEnds(lines) /\ b = buffer_ /\ r = received /\ w = wire /\ t = toSend
      BY <1>2, EndsType
    <3>2. Sent = (((a \o b) \o r) \o w) \o t
      BY <1>1, <3>1, InOrderIs DEF ReaderInv, Lying
    <3>3. PICK p \in Seq(Bytes), wt \in Seq(Bytes) : p = a \o b /\ wt = w \o t
      BY ConcatProperties
    <3>4. ((p \o r) \o w) \o t = p \o (r \o wt)
      <4>1. PICK v \in Seq(Bytes) : v = p \o r
        BY ConcatProperties
      <4>2. (v \o w) \o t = v \o (w \o t)
        OBVIOUS
      <4>3. (p \o r) \o wt = p \o (r \o wt)
        OBVIOUS
      <4> QED
        BY <3>3, <4>1, <4>2, <4>3
    <3>5. r \o wt \in Seq(Bytes)
      BY ConcatProperties
    <3> QED
      BY <3>1, <3>2, <3>3, <3>4, <3>5
  <2>1. CASE buffer_ # <<>>
    BY <1>1, <1>2, <1>4, <2>0, <2>1
  <2>2. CASE buffer_ = <<>> /\ lines # <<>>
    <3>1. PICK first \in Seq(Seq(Bytes)), last \in Seq(Bytes) : lines = Append(first, last)
      BY <1>2, <2>2, SequenceEmptyOrAppend
    <3>2. PICK b \in Seq(Bytes), c \in Seq(Bytes) : b = Reader!WithEnds(first) /\ c = <<EndOfLine>>
      <4>1. EndOfLine \in Bytes
        BY DEF Bytes
      <4>2. <<EndOfLine>> \in Seq(Bytes)
        BY <4>1
      <4> QED
        BY <4>2, EndsType
    <3>3. a = b \o Append(last, EndOfLine)
      BY <2>0, <3>1, <3>2, EndsAppend
    <3>4. Append(last, EndOfLine) = last \o c
      BY <3>2
    <3>5. (a \o <<>>) \o rw = (b \o last) \o (c \o rw)
      <4>1. PICK v \in Seq(Bytes) : v = b \o last
        BY ConcatProperties
      <4>2. b \o (last \o c) = v \o c
        BY <4>1
      <4>3. (v \o c) \o rw = v \o (c \o rw)
        OBVIOUS
      <4>4. a \o <<>> = a
        BY ConcatEmptySeq
      <4> QED
        BY <3>3, <3>4, <4>1, <4>2, <4>3, <4>4
    <3>6. c \o rw \in Seq(Bytes)
      BY ConcatProperties
    <3> QED
      BY <1>1, <1>4, <2>0, <2>2, <3>1, <3>2, <3>5, <3>6
  <2> QED
    BY <1>1, <2>1, <2>2
<1>6. Reader!LinesInOrder'
  BY <1>1, <1>5 DEF Reader!LinesInOrder, Reader!IsPrefix, IsPrefix, Reader!Front, Front, Reader!Last, Last
<1> QED
  BY <1>1, <1>3, <1>6 DEF ReaderInv

LEMMA NextReader == ASSUME ReaderInv, [Reader!Next]_(Reader!vars) PROVE ReaderInv'
<1>1. CASE UNCHANGED Reader!vars \/ Reader!Spin
  BY <1>1 DEF Reader!vars, Reader!Spin, ReaderInv, ReaderTypes, Reader!LinesInOrder
<1>2. CASE Reader!Call \/ Reader!Want
  <2>1. step \in {"idle", "cut"} /\ step' \in {"cut", "wait"} /\ received' = received
        /\ UNCHANGED <<toSend, wire, buffer_, lines>>
    BY <1>2 DEF Reader!Call, Reader!Want, ReaderInv
  <2> QED
    BY <1>2, <2>1 DEF Reader!Call, Reader!Want, ReaderInv, ReaderTypes, Reader!LinesInOrder
<1> QED
  BY <1>1, <1>2, DeliverReader, CutReader, ReceiveReader, TimeoutReader, ErrorReader DEF Reader!Next

(* recv_line_with_timeout of socket.h: whatever the peer sends and however the network cuts
   it, the lines returned are what was sent, none lost, doubled, cut or mixed with another,
   also when a wait is given up in the middle of a line. *)
THEOREM LinesComeWhole ==
  ASSUME Sent \in Seq(Range(Sent)) PROVE Reader!Spec => []LinesInOrder
<1>1. ReaderInv => LinesInOrder
  BY DEF ReaderInv, LinesInOrder
<1> QED
  BY <1>1, InitReader, NextReader, PTL DEF Reader!Spec

------------------------------------------------------------------------------
(* The tools. *)

Working(p) == at[p] \in {"open", "convert", "unlink", "rename"}

(* The temporary file is that of the tool at work. *)
TempOfWorker == \A p \in Tools : Working(p) => dir["temp"] = p

(* A tool that converts has a file open. *)
HasInput == \A p \in Tools : at[p] = "convert" => infile[p] \in Tool!File

(* Before it has converted, the file is there; afterwards all of the data are in its own. *)
DataAtWork == ~spoilt => \A p \in Tools : /\ at[p] \in {"open", "convert"} => dir["file"] \in whole
                                          /\ at[p] \in {"unlink", "rename"} => p \in whole

(* The temporary file counts only when the file is gone. *)
DataByName == ~spoilt => \/ dir["file"] \in whole
                         \/ dir["file"] = None /\ dir["temp"] \in whole

ToolInv == Tool!TypeOK /\ TempOfWorker /\ HasInput /\ DataAtWork /\ DataByName

LEMMA InitTool == ASSUME Tool!ToolsAssumption PROVE Tool!Init => ToolInv
<1> SUFFICES ASSUME Tool!Init PROVE ToolInv
  OBVIOUS
<1>1. Tool!TypeOK
  <2>1. level \in [Tool!File -> Nat]
    BY DEF Tool!Init
  <2>2. QED
    BY <2>1 DEF Tool!Init, Tool!TypeOK, Tool!Name, Tool!File
<1>2. TempOfWorker /\ HasInput /\ DataAtWork /\ DataByName
  BY DEF Tool!Init, TempOfWorker, HasInput, DataAtWork, DataByName, Working, Tool!Name
<1>3. QED
  BY <1>1, <1>2 DEF ToolInv

(* The steps that leave the directory and the set of whole files alone. *)
LEMMA QuietStep ==
  ASSUME Tool!ToolsAssumption, ToolInv, NEW p \in Tools, NEW next, Tool!Goto(p, next),
         next \in {"signature", "create", "ended"}, Tool!TypeOK',
         UNCHANGED <<dir, whole, infile, spoilt>>
  PROVE  ToolInv'
<1> USE DEF ToolInv, Tool!TypeOK, Tool!Goto
<1>1. TempOfWorker'
  BY DEF TempOfWorker, Working
<1>2. HasInput'
  BY DEF HasInput
<1>3. DataAtWork' /\ DataByName'
  BY DEF DataAtWork, DataByName
<1>4. QED
  BY <1>1, <1>2, <1>3

LEMMA NextTool == ASSUME Tool!ToolsAssumption PROVE ToolInv /\ [Tool!Next]_(Tool!vars) => ToolInv'
<1> SUFFICES ASSUME ToolInv, [Tool!Next]_(Tool!vars) PROVE ToolInv'
  OBVIOUS
<1> USE DEF ToolInv
<1>1. ASSUME NEW p \in Tools, Tool!Access(p) PROVE ToolInv'
  <2>1. Tool!TypeOK'
    BY <1>1 DEF Tool!Access, Tool!Goto, Tool!TypeOK
  <2>2. QED
    BY <1>1, <2>1, QuietStep DEF Tool!Access
<1>2. ASSUME NEW p \in Tools, Tool!Signature(p) PROVE ToolInv'
  <2>1. Tool!TypeOK'
    BY <1>2 DEF Tool!Signature, Tool!Goto, Tool!TypeOK, Tool!Name
  <2>2. QED
    BY <1>2, <2>1, QuietStep DEF Tool!Signature
<1>3. ASSUME NEW p \in Tools, Tool!Create(p) PROVE ToolInv'
  <2>1. Tool!TypeOK'
    BY <1>3 DEF Tool!Create, Tool!Goto, Tool!TypeOK, Tool!Name, Tool!File
  <2>2. CASE dir["temp"] = None /\ dir' = [dir EXCEPT !["temp"] = p] /\ Tool!Goto(p, "open")
    <3> USE <1>3, <2>2 DEF Tool!Create, Tool!Goto, Tool!TypeOK, Tool!ToolsAssumption, Tool!Name
    <3>1. ~spoilt => dir["file"] \in whole
      BY DEF DataByName, Tool!File
    <3>2. TempOfWorker'
      BY DEF TempOfWorker, Working
    <3>3. HasInput'
      BY DEF HasInput
    <3>4. DataAtWork'
      BY <3>1 DEF DataAtWork
    <3>5. DataByName'
      BY <3>1 DEF DataByName
    <3>6. QED
      BY <2>1, <3>2, <3>3, <3>4, <3>5
  <2>3. CASE Tool!Goto(p, "ended") /\ UNCHANGED dir
    BY <1>3, <2>1, <2>3, QuietStep DEF Tool!Create
  <2>4. QED
    BY <1>3, <2>2, <2>3 DEF Tool!Create
<1>4. ASSUME NEW p \in Tools, Tool!Open(p) PROVE ToolInv'
  <2>1. Tool!TypeOK'
    BY <1>4 DEF Tool!Open, Tool!Goto, Tool!TypeOK, Tool!Name, Tool!File
  <2>2. CASE dir["file"] # None /\ Tool!Goto(p, "convert")
             /\ infile' = [infile EXCEPT ![p] = dir["file"]]
    <3> USE <1>4, <2>2 DEF Tool!Open, Tool!Goto, Tool!TypeOK, Tool!Name
    <3>1. TempOfWorker'
      BY DEF TempOfWorker, Working
    <3>2. HasInput'
      BY DEF HasInput
    <3>3. DataAtWork' /\ DataByName'
      BY DEF DataAtWork, DataByName
    <3>4. QED
      BY <2>1, <3>1, <3>2, <3>3
  <2>3. CASE Tool!Goto(p, "ended") /\ UNCHANGED <<infile, spoilt>>
    BY <1>4, <2>1, <2>3, QuietStep DEF Tool!Open
  <2>4. QED
    BY <1>4, <2>2, <2>3 DEF Tool!Open
<1>5. ASSUME NEW p \in Tools, Tool!Convert(p) PROVE ToolInv'
  <2> DEFINE plain == mode[p] = "decode" /\ level[infile[p]] = 0
             new == IF mode[p] = "encode" THEN level[infile[p]] + 1
                    ELSE IF plain THEN 0 ELSE level[infile[p]] - 1
  <2>1. Tool!TypeOK'
    <3>1. level[infile[p]] \in Nat
      BY <1>5 DEF Tool!Convert, HasInput, Tool!TypeOK
    <3>2. new \in Nat
      BY <1>5, <3>1 DEF Tool!TypeOK
    <3>3. level' \in [Tool!File -> Nat]
      <4>1. level' = [level EXCEPT ![p] = new]
        BY <1>5 DEF Tool!Convert
      <4> HIDE DEF new
      <4>2. QED
        BY <3>2, <4>1 DEF Tool!TypeOK
    <3>4. at' \in [Tools -> {"access", "signature", "create", "open", "convert", "unlink",
                             "rename", "ended"}]
      BY <1>5 DEF Tool!Convert, Tool!Goto, Tool!TypeOK
    <3>5. whole' \subseteq Tool!File /\ spoilt' \in BOOLEAN
      BY <1>5 DEF Tool!Convert, Tool!TypeOK, Tool!File
    <3>6. QED
      BY <1>5, <3>3, <3>4, <3>5 DEF Tool!Convert, Tool!TypeOK
  <2>2. /\ at[p] = "convert" /\ at' = [at EXCEPT ![p] = "unlink"]
        /\ UNCHANGED <<dir, infile>>
        /\ whole \subseteq whole' /\ (p \in whole' \/ spoilt') /\ (spoilt => spoilt')
    BY <1>5 DEF Tool!Convert, Tool!Goto
  <2>3. TempOfWorker'
    BY <2>2 DEF TempOfWorker, Working, Tool!TypeOK
  <2>4. HasInput'
    BY <2>2 DEF HasInput, Tool!TypeOK
  <2>5. DataAtWork' /\ DataByName'
    BY <2>2 DEF DataAtWork, DataByName, Tool!TypeOK
  <2>6. QED
    BY <2>1, <2>3, <2>4, <2>5
<1>6. ASSUME NEW p \in Tools, Tool!ConvertFails(p) PROVE ToolInv'
  <2> USE <1>6 DEF Tool!ConvertFails, Tool!Goto, Tool!TypeOK, Tool!Name
  <2>1. Tool!TypeOK'
    OBVIOUS
  <2>2. TempOfWorker'
    BY DEF TempOfWorker, Working
  <2>3. HasInput'
    BY DEF HasInput
  <2>4. DataAtWork' /\ DataByName'
    BY DEF DataAtWork, DataByName
  <2>5. QED
    BY <2>1, <2>2, <2>3, <2>4
<1>7. ASSUME NEW p \in Tools, Tool!ReadError(p) PROVE ToolInv'
  <2>1. Tool!TypeOK'
    BY <1>7 DEF Tool!ReadError, Tool!Goto, Tool!TypeOK
  <2>2. QED
    BY <1>7, <2>1, QuietStep DEF Tool!ReadError
<1>8. ASSUME NEW p \in Tools, Tool!Unlink(p) PROVE ToolInv'
  <2>1. Tool!TypeOK'
    BY <1>8 DEF Tool!Unlink, Tool!Goto, Tool!TypeOK, Tool!Name
  <2>2. CASE dir' = [dir EXCEPT !["file"] = None] /\ Tool!Goto(p, "rename")
    <3> USE <1>8, <2>2 DEF Tool!Unlink, Tool!Goto, Tool!TypeOK, Tool!Name
    <3>1. TempOfWorker'
      BY DEF TempOfWorker, Working
    <3>2. HasInput'
      BY DEF HasInput
    <3>3. \A q \in Tools : q # p => ~Working(q)
      BY DEF TempOfWorker, Working
    <3>4. DataAtWork'
      BY <3>3 DEF DataAtWork, Working
    <3>5. DataByName'
      BY DEF DataAtWork, DataByName, TempOfWorker, Working
    <3>6. QED
      BY <2>1, <3>1, <3>2, <3>4, <3>5
  <2>3. CASE Tool!Goto(p, "ended") /\ UNCHANGED dir
    BY <1>8, <2>1, <2>3, QuietStep DEF Tool!Unlink
  <2>4. QED
    BY <1>8, <2>2, <2>3 DEF Tool!Unlink
<1>9. ASSUME NEW p \in Tools, Tool!Rename(p) PROVE ToolInv'
  <2>1. Tool!TypeOK'
    BY <1>9 DEF Tool!Rename, Tool!Goto, Tool!TypeOK, Tool!Name
  <2>2. CASE dir' = [dir EXCEPT !["file"] = dir["temp"], !["temp"] = None]
    <3> USE <1>9, <2>2 DEF Tool!Rename, Tool!Goto, Tool!TypeOK, Tool!Name
    <3>1. \A q \in Tools : q # p => ~Working(q)
      BY DEF TempOfWorker, Working
    <3>2. TempOfWorker' /\ HasInput'
      BY <3>1 DEF TempOfWorker, HasInput, Working
    <3>3. ~spoilt => dir["temp"] \in whole
      BY DEF DataAtWork, TempOfWorker, Working
    <3>4. DataAtWork' /\ DataByName'
      BY <3>1, <3>3 DEF DataAtWork, DataByName, Working
    <3>5. QED
      BY <2>1, <3>2, <3>4
  <2>3. CASE UNCHANGED dir
    BY <1>9, <2>1, <2>3, QuietStep DEF Tool!Rename
  <2>4. QED
    BY <1>9, <2>2, <2>3 DEF Tool!Rename
<1>10. ASSUME NEW p \in Tools, Tool!Kill(p) PROVE ToolInv'
  <2>1. Tool!TypeOK'
    BY <1>10 DEF Tool!Kill, Tool!Goto, Tool!TypeOK
  <2>2. QED
    BY <1>10, <2>1, QuietStep DEF Tool!Kill
<1>11. CASE UNCHANGED Tool!vars
  BY <1>11 DEF Tool!vars, Tool!TypeOK, TempOfWorker, HasInput, DataAtWork, DataByName, Working
<1>12. QED
  BY <1>1, <1>2, <1>3, <1>4, <1>5, <1>6, <1>7, <1>8, <1>9, <1>10, <1>11 DEF Tool!Next

LEMMA SpecTool == ASSUME Tool!ToolsAssumption PROVE Tool!Spec => []ToolInv
<1>1. Tool!Init => ToolInv
  BY InitTool
<1>2. ToolInv /\ [Tool!Next]_(Tool!vars) => ToolInv'
  BY NextTool
<1>3. QED
  BY <1>1, <1>2, PTL DEF Tool!Spec

(* tgelzo.cc, lzo_encode and lzo_decode: O_EXCL on the temporary file keeps a second tool
   from converting, unlinking or renaming while one does. *)
THEOREM OneAtWorkAlways == ASSUME Tool!ToolsAssumption PROVE Tool!Spec => []Tool!OneAtWork
<1>1. ToolInv => Tool!OneAtWork
  BY DEF ToolInv, TempOfWorker, Working, Tool!OneAtWork
<1>2. QED
  BY <1>1, SpecTool, PTL

(* tgelzo.cc, the order of unlink and rename: whichever tools are killed, and wherever, one
   of the two names leads to all of the data, unless a write came short unnoticed or a
   decoder opened another file than the one whose header it had looked at. *)
THEOREM DataAlwaysSurvive == ASSUME Tool!ToolsAssumption PROVE Tool!Spec => []DataSurvives
<1>1. ToolInv => DataSurvives
  BY DEF ToolInv, DataByName, DataSurvives, Tool!DataSurvives, Tool!Name
<1>2. QED
  BY <1>1, SpecTool, PTL
------------------------------------------------------------------------------
(* Csv: what a fold over a sequence comes to is settled step by step, from the sequence
   without its last element to all of it; with that the text of the index is followed
   through writing, getline and CSVParse. *)

(* A set of sequences with the empty one, and with every longer one of a member, is all of
   them. *)
LEMMA SequencesGrow ==
  ASSUME NEW C, NEW G \in SUBSET Seq(C), <<>> \in G, \A g \in G : \A c \in C : Append(g, c) \in G
  PROVE  G = Seq(C)
<1> SUFFICES ASSUME NEW t \in Seq(C), t \notin G
             PROVE  FALSE
  OBVIOUS
<1> DEFINE Lengths == {n \in Nat : \E u \in Seq(C) : Len(u) = n /\ u \notin G}
<1>1. Len(t) \in Lengths
  BY LenProperties
<1>2. PICK n \in Lengths : \A m \in Lengths : n <= m
  BY <1>1, LeastOne
<1>3. PICK u \in Seq(C) : Len(u) = n /\ u \notin G
  BY <1>2
<1>4. u # <<>>
  BY <1>3
<1>5. PICK g \in Seq(C), c \in C : u = Append(g, c)
  BY <1>4, SequenceEmptyOrAppend
<1>6. Len(g) \in Nat /\ n = Len(g) + 1
  BY <1>3, <1>5, LenProperties, AppendProperties
<1>7. g \notin G => Len(g) \in Lengths
  BY <1>6
<1>8. n \in Nat /\ ~(n <= Len(g))
  BY <1>6
<1>9. g \in G
  BY <1>2, <1>7, <1>8
<1> QED
  BY <1>3, <1>5, <1>9

(* A step of a fold as a function: what the state and the next element lead to. *)
Table(F, S, C) == F \in [S -> [C -> S]]

(* FoldLeft goes through the sets of places, taking the last one of each: it does what F
   says from one place to the next. *)
Folds(h, F, r, s, n) ==
  \A T \in SUBSET (1..n) : h[T] = IF T = {} THEN r ELSE F[h[T \ {Max(T)}]][s[Max(T)]]

LEMMA LastPlace ==
  ASSUME NEW n \in Nat, NEW T \in SUBSET (1..n), T # {}
  PROVE  /\ Max(T) \in T
         /\ T \ {Max(T)} \in SUBSET (1..(n - 1))
         /\ n \in T => Max(T) = n
<1> DEFINE Bounds == {k \in Nat : \A y \in T : y <= k}
<1>1. n \in Bounds
  OBVIOUS
<1>2. PICK k \in Bounds : \A m \in Bounds : k <= m
  BY <1>1, LeastOne
<1>3. k \in T
  <2> SUFFICES ASSUME k \notin T
               PROVE  FALSE
    OBVIOUS
  <2>1. \A y \in T : y <= k - 1
    BY <1>2
  <2>2. k # 0
    <3>1. PICK y \in T : TRUE
      OBVIOUS
    <3>2. y \in 1..n /\ y <= k /\ k \in Nat
      BY <1>2, <3>1
    <3> QED
      BY <3>2
  <2>3. k - 1 \in Bounds
    BY <1>2, <2>1, <2>2
  <2> QED
    BY <1>2, <2>3
<1>4. \A y \in T : k >= y
  BY <1>2
<1>5. Max(T) \in T /\ \A y \in T : Max(T) >= y
  BY <1>3, <1>4, Zenon DEF Max
<1>6. Max(T) \in Nat /\ \A y \in T : y \in Nat
  <2>1. \A y \in T : y \in Nat
    OBVIOUS
  <2> QED
    BY <1>5, <2>1
<1>7. n \in T => Max(T) = n
  BY <1>5, <1>6
<1>8. ASSUME NEW y \in T \ {Max(T)} PROVE y \in 1..(n - 1)
  BY <1>5, <1>7, <1>8, n \in T \/ n \notin T
<1> QED
  BY <1>5, <1>7, <1>8

LEMMA FoldsExist ==
  ASSUME NEW S, NEW C, NEW F, Table(F, S, C), NEW r \in S, NEW s \in Seq(C)
  PROVE  \E h \in [SUBSET (1..Len(s)) -> S] : Folds(h, F, r, s, Len(s))
<1> DEFINE Folded(k) == \E h \in [SUBSET (1..k) -> S] : Folds(h, F, r, s, k)
           Bad == {k \in 0..Len(s) : ~Folded(k)}
<1>0. Len(s) \in Nat /\ s \in [1..Len(s) -> C]
  BY LenProperties
<1>1. Folded(0)
  <2> DEFINE e == [T \in SUBSET (1..0) |-> r]
  <2>1. e \in [SUBSET (1..0) -> S]
    OBVIOUS
  <2>2. \A T \in SUBSET (1..0) : T = {} /\ e[T] = r
    OBVIOUS
  <2>3. Folds(e, F, r, s, 0)
    BY <2>2 DEF Folds
  <2> QED
    BY <2>1, <2>3
<1>2. ASSUME NEW k \in 1..Len(s), Folded(k - 1) PROVE Folded(k)
  <2>1. PICK h \in [SUBSET (1..(k - 1)) -> S] : Folds(h, F, r, s, k - 1)
    BY <1>2
  <2>2. k \in Nat /\ s[k] \in C
    BY <1>0
  <2> DEFINE g == [T \in SUBSET (1..k) |-> IF k \in T THEN F[h[T \ {k}]][s[k]] ELSE h[T]]
  <2>3. ASSUME NEW T \in SUBSET (1..k)
        PROVE  /\ k \in T => T \ {k} \in SUBSET (1..(k - 1))
               /\ k \notin T => T \in SUBSET (1..(k - 1))
    <3>1. \A y \in T : y \in 1..k
      OBVIOUS
    <3>2. \A y \in T : y # k => y \in 1..(k - 1)
      BY <3>1, <2>2
    <3> QED
      BY <3>2
  <2>4. ASSUME NEW T \in SUBSET (1..k), k \in T
        PROVE  g[T] = F[h[T \ {k}]][s[k]] /\ g[T] \in S
    <3>1. h[T \ {k}] \in S
      BY <2>1, <2>3, <2>4
    <3>2. F[h[T \ {k}]] \in [C -> S]
      BY <3>1 DEF Table
    <3>3. F[h[T \ {k}]][s[k]] \in S
      BY <2>2, <3>2
    <3> QED
      BY <2>4, <3>3
  <2>5. ASSUME NEW T \in SUBSET (1..k), k \notin T
        PROVE  g[T] = h[T] /\ g[T] \in S
    BY <2>1, <2>3, <2>5
  <2>6. g \in [SUBSET (1..k) -> S]
    BY <2>4, <2>5
  <2>7. ASSUME NEW T \in SUBSET (1..k), T # {}
        PROVE  g[T] = F[g[T \ {Max(T)}]][s[Max(T)]]
    <3>1. CASE k \in T
      <4>1. Max(T) = k
        BY <2>2, <2>7, <3>1, LastPlace
      <4>2. T \ {k} \in SUBSET (1..k) /\ k \notin T \ {k}
        OBVIOUS
      <4>3. g[T \ {k}] = h[T \ {k}]
        BY <2>5, <4>2
      <4> QED
        BY <2>4, <3>1, <4>1, <4>3
    <3>2. CASE k \notin T
      <4>1. T \in SUBSET (1..(k - 1)) /\ k - 1 \in Nat
        BY <2>2, <2>3, <3>2
      <4>2. h[T] = F[h[T \ {Max(T)}]][s[Max(T)]]
        BY <2>1, <2>7, <4>1 DEF Folds
      <4>3. T \ {Max(T)} \in SUBSET (1..k) /\ k \notin T \ {Max(T)}
        BY <3>2
      <4>4. g[T \ {Max(T)}] = h[T \ {Max(T)}]
        BY <2>5, <4>3
      <4> QED
        BY <2>5, <3>2, <4>2, <4>4
    <3> QED
      BY <3>1, <3>2
  <2>8. g[{}] = r
    <3>1. {} \in SUBSET (1..k) /\ k \notin {} /\ {} \in SUBSET (1..(k - 1))
      OBVIOUS
    <3>2. h[{}] = r
      BY <2>1, <3>1 DEF Folds
    <3> QED
      BY <2>5, <3>1, <3>2
  <2>9. Folds(g, F, r, s, k)
    <3> HIDE DEF g
    <3> QED
      BY <2>7, <2>8 DEF Folds
  <2> QED
    BY <2>6, <2>9
<1>3. Bad = {}
  <2> SUFFICES ASSUME Bad # {}
               PROVE  FALSE
    OBVIOUS
  <2>1. Bad \in SUBSET Nat
    OBVIOUS
  <2>2. PICK k \in Bad : \A m \in Bad : k <= m
    BY <2>1, LeastOne
  <2>3. k # 0 /\ k \in 1..Len(s)
    <3> HIDE DEF Folded
    <3> QED
      BY <1>0, <1>1, <2>2
  <2>4. k - 1 \in 0..Len(s) /\ k - 1 \notin Bad
    <3> HIDE DEF Folded
    <3> QED
      BY <1>0, <2>2, <2>3
  <2>5. Folded(k)
    <3> HIDE DEF Folded
    <3> QED
      BY <1>2, <2>3, <2>4
  <2> QED
    BY <2>2, <2>5
<1>4. Folded(Len(s))
  <2> HIDE DEF Folded
  <2> QED
    BY <1>0, <1>3
<1> QED
  BY <1>4

(* The values of a fold, from place to place. *)
Runs(f, F, S, s) == \A n \in 1..Len(s) : f[n - 1] \in S => f[n] = F[f[n - 1]][s[n]]

LEMMA RunsTyped ==
  ASSUME NEW S, NEW C, NEW F, Table(F, S, C), NEW s \in Seq(C),
         NEW f, f[0] \in S, Runs(f, F, S, s)
  PROVE  \A n \in 0..Len(s) : f[n] \in S
<1> DEFINE Bad == {n \in 0..Len(s) : f[n] \notin S}
<1>0. Len(s) \in Nat /\ s \in [1..Len(s) -> C]
  BY LenProperties
<1> SUFFICES ASSUME Bad # {}
             PROVE  FALSE
  OBVIOUS
<1>1. Bad \in SUBSET Nat
  OBVIOUS
<1>2. PICK k \in Bad : \A m \in Bad : k <= m
  BY <1>1, LeastOne
<1>3. k \in 1..Len(s)
  BY <1>0, <1>2
<1>4. f[k - 1] \in S
  BY <1>0, <1>2, <1>3
<1>5. f[k] = F[f[k - 1]][s[k]] /\ s[k] \in C
  BY <1>0, <1>3, <1>4 DEF Runs
<1>6. F[f[k - 1]] \in [C -> S]
  BY <1>4 DEF Table
<1>7. F[f[k - 1]][s[k]] \in S
  BY <1>5, <1>6
<1> QED
  BY <1>2, <1>5, <1>7

Leads(F, x, c, y) == y = F[x][c]

Extends(t, s, c) == t = Append(s, c)

LEMMA RunsAgree ==
  ASSUME NEW S, NEW C, NEW F, Table(F, S, C), NEW s \in Seq(C), NEW c \in C,
         NEW t \in Seq(C), Extends(t, s, c),
         NEW f, NEW g, f[0] \in S, g[0] = f[0],
         Runs(f, F, S, s), Runs(g, F, S, t)
  PROVE  /\ f[Len(s)] \in S
         /\ Leads(F, f[Len(s)], c, g[Len(t)])
<1> DEFINE Bad == {n \in 0..Len(s) : f[n] # g[n]}
<1>0. Len(s) \in Nat /\ s \in [1..Len(s) -> C]
  BY LenProperties
<1>1. /\ Len(t) = Len(s) + 1
      /\ \A i \in 1..Len(s) : t[i] = s[i]
      /\ t[Len(s) + 1] = c
  BY <1>0, AppendProperties DEF Extends
<1>2. \A n \in 0..Len(s) : f[n] \in S
  BY RunsTyped
<1>3. Bad = {}
  <2> SUFFICES ASSUME Bad # {}
               PROVE  FALSE
    OBVIOUS
  <2>1. Bad \in SUBSET Nat
    OBVIOUS
  <2>2. PICK k \in Bad : \A m \in Bad : k <= m
    BY <2>1, LeastOne
  <2>3. k \in 1..Len(s) /\ k \in 1..(Len(s) + 1)
    BY <1>0, <2>2
  <2>4. f[k - 1] = g[k - 1] /\ f[k - 1] \in S
    BY <1>0, <1>2, <2>2, <2>3
  <2>5. f[k] = F[f[k - 1]][s[k]]
    BY <2>3, <2>4 DEF Runs
  <2>6. g[k] = F[g[k - 1]][t[k]]
    BY <1>1, <2>3, <2>4 DEF Runs
  <2> QED
    BY <1>1, <2>2, <2>3, <2>4, <2>5, <2>6
<1>4. Len(s) \in 0..Len(s) /\ Len(s) + 1 \in 1..(Len(s) + 1) /\ (Len(s) + 1) - 1 = Len(s)
  BY <1>0
<1>5. f[Len(s)] = g[Len(s)] /\ f[Len(s)] \in S
  BY <1>2, <1>3, <1>4
<1>6. g[Len(s) + 1] = F[g[Len(s)]][c]
  BY <1>1, <1>4, <1>5 DEF Runs
<1> QED
  BY <1>1, <1>5, <1>6 DEF Leads

(* The places up to one of them. *)
LEMMA InitialPlaces ==
  ASSUME NEW N \in Nat, NEW n \in 1..N
  PROVE  /\ 1..n \in SUBSET (1..N) /\ 1..n # {} /\ n \in 1..n
         /\ Max(1..n) = n
         /\ (1..n) \ {n} = 1..(n - 1)
<1>1. 1..n \in SUBSET (1..N) /\ n \in 1..n /\ n \in Nat /\ (1..n) \ {n} = 1..(n - 1)
  OBVIOUS
<1>2. Max(1..n) = n
  BY <1>1, LastPlace
<1> QED
  BY <1>1, <1>2

LEMMA FoldsTyped ==
  ASSUME NEW S, NEW C, NEW s \in Seq(C), NEW h \in [SUBSET (1..Len(s)) -> S],
         NEW T \in SUBSET (1..Len(s)), T # {}
  PROVE  h[T \ {Max(T)}] \in S /\ s[Max(T)] \in C /\ T \ {Max(T)} \in SUBSET (1..Len(s))
<1>1. Len(s) \in Nat /\ s \in [1..Len(s) -> C]
  BY LenProperties
<1>2. Max(T) \in T
  BY <1>1, LastPlace
<1>3. T \ {Max(T)} \in SUBSET (1..Len(s))
  OBVIOUS
<1> QED
  BY <1>1, <1>2, <1>3

(* What folds is a run, when every place after the first does what F says. *)
Climbs(it, F, S, r, s) ==
  /\ it[{}] = r
  /\ \A T \in SUBSET (1..Len(s)) :
       T # {} /\ it[T \ {Max(T)}] \in S => it[T] = F[it[T \ {Max(T)}]][s[Max(T)]]

LEMMA ClimbsRuns ==
  ASSUME NEW S, NEW C, NEW F, NEW r, NEW s \in Seq(C), NEW it, Climbs(it, F, S, r, s)
  PROVE  \E f : f[0] = r /\ Runs(f, F, S, s) /\ it[1..Len(s)] = f[Len(s)]
<1> DEFINE f == [n \in 0..Len(s) |-> it[1..n]]
<1>1. Len(s) \in Nat
  BY LenProperties
<1>2. f[0] = r
  <2>1. 1..0 = {} /\ f[0] = it[1..0]
    BY <1>1
  <2> QED
    BY <2>1 DEF Climbs
<1>3. Runs(f, F, S, s)
  <2> SUFFICES ASSUME NEW n \in 1..Len(s), f[n - 1] \in S
               PROVE  f[n] = F[f[n - 1]][s[n]]
    BY DEF Runs
  <2>1. /\ 1..n \in SUBSET (1..Len(s)) /\ 1..n # {}
        /\ Max(1..n) = n
        /\ (1..n) \ {n} = 1..(n - 1)
    BY <1>1, InitialPlaces
  <2>2. f[n] = it[1..n] /\ f[n - 1] = it[1..(n - 1)]
    BY <1>1
  <2>3. it[(1..n) \ {Max(1..n)}] \in S
    BY <2>1, <2>2
  <2>4. it[1..n] = F[it[(1..n) \ {Max(1..n)}]][s[Max(1..n)]]
    BY <2>1, <2>3 DEF Climbs
  <2> QED
    BY <2>1, <2>2, <2>4
<1>4. it[1..Len(s)] = f[Len(s)]
  BY <1>1
<1> HIDE DEF f
<1> QED
  BY <1>2, <1>3, <1>4

Doubling(r, s) == FoldLeft(DoubledChar, r, s)

LEMMA DoublingRuns ==
  ASSUME NEW S, NEW C, NEW F, Table(F, S, C), \A x \in S : \A c \in C : F[x][c] = DoubledChar(x, c),
         NEW r \in S, NEW s \in Seq(C)
  PROVE  \E f : f[0] = r /\ Runs(f, F, S, s) /\ Doubling(r, s) = f[Len(s)]
<1> DEFINE Step(g) == [T \in SUBSET (DOMAIN s) |->
                         IF T = {} THEN r ELSE DoubledChar(g[T \ {Max(T)}], s[Max(T)])]
           it == CHOOSE g : g = Step(g)
<1>0. Len(s) \in Nat /\ DOMAIN s = 1..Len(s)
  BY LenProperties
<1>1. PICK h \in [SUBSET (1..Len(s)) -> S] : Folds(h, F, r, s, Len(s))
  BY FoldsExist
<1>2. h = Step(h)
  <2>1. ASSUME NEW T \in SUBSET (1..Len(s))
        PROVE  h[T] = IF T = {} THEN r ELSE DoubledChar(h[T \ {Max(T)}], s[Max(T)])
    <3>1. T # {} => h[T] = F[h[T \ {Max(T)}]][s[Max(T)]]
      BY <1>1 DEF Folds
    <3>2. T # {} => h[T] = DoubledChar(h[T \ {Max(T)}], s[Max(T)])
      BY <1>1, <3>1, FoldsTyped
    <3>3. T = {} => h[T] = r
      BY <1>1 DEF Folds
    <3> QED
      BY <3>2, <3>3
  <2> QED
    BY <1>0, <2>1, Zenon
<1>3. it = Step(it)
  <2> HIDE DEF Step
  <2> QED
    BY <1>2, Zenon
<1>4. Doubling(r, s) = it[DOMAIN s]
  BY Zenon DEF Doubling, FoldLeft, MapThenFoldSet
<1>5. \A T \in SUBSET (1..Len(s)) :
        it[T] = IF T = {} THEN r ELSE DoubledChar(it[T \ {Max(T)}], s[Max(T)])
  <2> HIDE DEF it
  <2> QED
    BY <1>0, <1>3, Zenon
<1> HIDE DEF it, Step
<1>6. \A T \in SUBSET (1..Len(s)) : T # {} => s[Max(T)] \in C
  BY <1>1, FoldsTyped
<1>7. Climbs(it, F, S, r, s)
  BY <1>5, <1>6 DEF Climbs
<1> QED
  BY <1>0, <1>4, <1>7, ClimbsRuns

DoublingStays(S, C) == \A x \in S : \A c \in C : DoubledChar(x, c) \in S

LEMMA DoublingAppend ==
  ASSUME NEW S, NEW C, DoublingStays(S, C), NEW r \in S, NEW s \in Seq(C)
  PROVE  /\ Doubling(r, s) \in S
         /\ Doubling(r, <<>>) = r
         /\ \A c \in C : Doubling(r, Append(s, c)) = DoubledChar(Doubling(r, s), c)
<1>1. PICK F : Table(F, S, C) /\ \A x \in S : \A c \in C : F[x][c] = DoubledChar(x, c)
  <2> DEFINE G == [x \in S |-> [c \in C |-> DoubledChar(x, c)]]
  <2>1. Table(G, S, C) /\ \A x \in S : \A c \in C : G[x][c] = DoubledChar(x, c)
    BY DEF Table, DoublingStays
  <2> HIDE DEF G
  <2> QED
    BY <2>1
<1>2. PICK f : f[0] = r /\ Runs(f, F, S, s) /\ Doubling(r, s) = f[Len(s)]
  BY <1>1, DoublingRuns
<1>3. Len(s) \in Nat /\ Len(s) \in 0..Len(s)
  BY LenProperties
<1>4. f[Len(s)] \in S
  BY <1>1, <1>2, <1>3, RunsTyped
<1>5. Doubling(r, <<>>) = r
  <2>1. PICK t \in Seq(C) : t = <<>>
    BY EmptySeq
  <2>2. Len(t) = 0
    BY <2>1
  <2>3. PICK g : g[0] = r /\ Runs(g, F, S, t) /\ Doubling(r, t) = g[Len(t)]
    BY <1>1, DoublingRuns
  <2> QED
    BY <2>1, <2>2, <2>3
<1>6. ASSUME NEW c \in C
      PROVE  Doubling(r, Append(s, c)) = DoubledChar(Doubling(r, s), c)
  <2>1. PICK t \in Seq(C) : Extends(t, s, c)
    BY AppendProperties DEF Extends
  <2>2. PICK g : g[0] = r /\ Runs(g, F, S, t) /\ Doubling(r, t) = g[Len(t)]
    BY <1>1, DoublingRuns
  <2>3. Leads(F, f[Len(s)], c, g[Len(t)])
    BY <1>1, <1>2, <2>1, <2>2, RunsAgree
  <2> QED
    BY <1>1, <1>2, <1>4, <2>1, <2>2, <2>3 DEF Extends, Leads
<1> QED
  BY <1>2, <1>4, <1>5, <1>6

Parsing(r, s) == FoldLeft(CSVChar, r, s)

LEMMA ParsingRuns ==
  ASSUME NEW S, NEW C, NEW F, Table(F, S, C), \A x \in S : \A c \in C : F[x][c] = CSVChar(x, c),
         NEW r \in S, NEW s \in Seq(C)
  PROVE  \E f : f[0] = r /\ Runs(f, F, S, s) /\ Parsing(r, s) = f[Len(s)]
<1> DEFINE Step(g) == [T \in SUBSET (DOMAIN s) |->
                         IF T = {} THEN r ELSE CSVChar(g[T \ {Max(T)}], s[Max(T)])]
           it == CHOOSE g : g = Step(g)
<1>0. Len(s) \in Nat /\ DOMAIN s = 1..Len(s)
  BY LenProperties
<1>1. PICK h \in [SUBSET (1..Len(s)) -> S] : Folds(h, F, r, s, Len(s))
  BY FoldsExist
<1>2. h = Step(h)
  <2>1. ASSUME NEW T \in SUBSET (1..Len(s))
        PROVE  h[T] = IF T = {} THEN r ELSE CSVChar(h[T \ {Max(T)}], s[Max(T)])
    <3>1. T # {} => h[T] = F[h[T \ {Max(T)}]][s[Max(T)]]
      BY <1>1 DEF Folds
    <3>2. T # {} => h[T] = CSVChar(h[T \ {Max(T)}], s[Max(T)])
      BY <1>1, <3>1, FoldsTyped
    <3>3. T = {} => h[T] = r
      BY <1>1 DEF Folds
    <3> QED
      BY <3>2, <3>3
  <2> QED
    BY <1>0, <2>1, Zenon
<1>3. it = Step(it)
  <2> HIDE DEF Step
  <2> QED
    BY <1>2, Zenon
<1>4. Parsing(r, s) = it[DOMAIN s]
  BY Zenon DEF Parsing, FoldLeft, MapThenFoldSet
<1>5. \A T \in SUBSET (1..Len(s)) :
        it[T] = IF T = {} THEN r ELSE CSVChar(it[T \ {Max(T)}], s[Max(T)])
  <2> HIDE DEF it
  <2> QED
    BY <1>0, <1>3, Zenon
<1> HIDE DEF it, Step
<1>6. \A T \in SUBSET (1..Len(s)) : T # {} => s[Max(T)] \in C
  BY <1>1, FoldsTyped
<1>7. Climbs(it, F, S, r, s)
  BY <1>5, <1>6 DEF Climbs
<1> QED
  BY <1>0, <1>4, <1>7, ClimbsRuns

ParsingStays(S, C) == \A x \in S : \A c \in C : CSVChar(x, c) \in S

LEMMA ParsingAppend ==
  ASSUME NEW S, NEW C, ParsingStays(S, C), NEW r \in S, NEW s \in Seq(C)
  PROVE  /\ Parsing(r, s) \in S
         /\ Parsing(r, <<>>) = r
         /\ \A c \in C : Parsing(r, Append(s, c)) = CSVChar(Parsing(r, s), c)
<1>1. PICK F : Table(F, S, C) /\ \A x \in S : \A c \in C : F[x][c] = CSVChar(x, c)
  <2> DEFINE G == [x \in S |-> [c \in C |-> CSVChar(x, c)]]
  <2>1. Table(G, S, C) /\ \A x \in S : \A c \in C : G[x][c] = CSVChar(x, c)
    BY DEF Table, ParsingStays
  <2> HIDE DEF G
  <2> QED
    BY <2>1
<1>2. PICK f : f[0] = r /\ Runs(f, F, S, s) /\ Parsing(r, s) = f[Len(s)]
  BY <1>1, ParsingRuns
<1>3. Len(s) \in Nat /\ Len(s) \in 0..Len(s)
  BY LenProperties
<1>4. f[Len(s)] \in S
  BY <1>1, <1>2, <1>3, RunsTyped
<1>5. Parsing(r, <<>>) = r
  <2>1. PICK t \in Seq(C) : t = <<>>
    BY EmptySeq
  <2>2. Len(t) = 0
    BY <2>1
  <2>3. PICK g : g[0] = r /\ Runs(g, F, S, t) /\ Parsing(r, t) = g[Len(t)]
    BY <1>1, ParsingRuns
  <2> QED
    BY <2>1, <2>2, <2>3
<1>6. ASSUME NEW c \in C
      PROVE  Parsing(r, Append(s, c)) = CSVChar(Parsing(r, s), c)
  <2>1. PICK t \in Seq(C) : Extends(t, s, c)
    BY AppendProperties DEF Extends
  <2>2. PICK g : g[0] = r /\ Runs(g, F, S, t) /\ Parsing(r, t) = g[Len(t)]
    BY <1>1, ParsingRuns
  <2>3. Leads(F, f[Len(s)], c, g[Len(t)])
    BY <1>1, <1>2, <2>1, <2>2, RunsAgree
  <2> QED
    BY <1>1, <1>2, <1>4, <2>1, <2>2, <2>3 DEF Extends, Leads
<1> QED
  BY <1>2, <1>4, <1>5, <1>6

Getting(r, s) == FoldLeft(GetChar, r, s)

LEMMA GettingRuns ==
  ASSUME NEW S, NEW C, NEW F, Table(F, S, C), \A x \in S : \A c \in C : F[x][c] = GetChar(x, c),
         NEW r \in S, NEW s \in Seq(C)
  PROVE  \E f : f[0] = r /\ Runs(f, F, S, s) /\ Getting(r, s) = f[Len(s)]
<1> DEFINE Step(g) == [T \in SUBSET (DOMAIN s) |->
                         IF T = {} THEN r ELSE GetChar(g[T \ {Max(T)}], s[Max(T)])]
           it == CHOOSE g : g = Step(g)
<1>0. Len(s) \in Nat /\ DOMAIN s = 1..Len(s)
  BY LenProperties
<1>1. PICK h \in [SUBSET (1..Len(s)) -> S] : Folds(h, F, r, s, Len(s))
  BY FoldsExist
<1>2. h = Step(h)
  <2>1. ASSUME NEW T \in SUBSET (1..Len(s))
        PROVE  h[T] = IF T = {} THEN r ELSE GetChar(h[T \ {Max(T)}], s[Max(T)])
    <3>1. T # {} => h[T] = F[h[T \ {Max(T)}]][s[Max(T)]]
      BY <1>1 DEF Folds
    <3>2. T # {} => h[T] = GetChar(h[T \ {Max(T)}], s[Max(T)])
      BY <1>1, <3>1, FoldsTyped
    <3>3. T = {} => h[T] = r
      BY <1>1 DEF Folds
    <3> QED
      BY <3>2, <3>3
  <2> QED
    BY <1>0, <2>1, Zenon
<1>3. it = Step(it)
  <2> HIDE DEF Step
  <2> QED
    BY <1>2, Zenon
<1>4. Getting(r, s) = it[DOMAIN s]
  BY Zenon DEF Getting, FoldLeft, MapThenFoldSet
<1>5. \A T \in SUBSET (1..Len(s)) :
        it[T] = IF T = {} THEN r ELSE GetChar(it[T \ {Max(T)}], s[Max(T)])
  <2> HIDE DEF it
  <2> QED
    BY <1>0, <1>3, Zenon
<1> HIDE DEF it, Step
<1>6. \A T \in SUBSET (1..Len(s)) : T # {} => s[Max(T)] \in C
  BY <1>1, FoldsTyped
<1>7. Climbs(it, F, S, r, s)
  BY <1>5, <1>6 DEF Climbs
<1> QED
  BY <1>0, <1>4, <1>7, ClimbsRuns

GettingStays(S, C) == \A x \in S : \A c \in C : GetChar(x, c) \in S

LEMMA GettingAppend ==
  ASSUME NEW S, NEW C, GettingStays(S, C), NEW r \in S, NEW s \in Seq(C)
  PROVE  /\ Getting(r, s) \in S
         /\ Getting(r, <<>>) = r
         /\ \A c \in C : Getting(r, Append(s, c)) = GetChar(Getting(r, s), c)
<1>1. PICK F : Table(F, S, C) /\ \A x \in S : \A c \in C : F[x][c] = GetChar(x, c)
  <2> DEFINE G == [x \in S |-> [c \in C |-> GetChar(x, c)]]
  <2>1. Table(G, S, C) /\ \A x \in S : \A c \in C : G[x][c] = GetChar(x, c)
    BY DEF Table, GettingStays
  <2> HIDE DEF G
  <2> QED
    BY <2>1
<1>2. PICK f : f[0] = r /\ Runs(f, F, S, s) /\ Getting(r, s) = f[Len(s)]
  BY <1>1, GettingRuns
<1>3. Len(s) \in Nat /\ Len(s) \in 0..Len(s)
  BY LenProperties
<1>4. f[Len(s)] \in S
  BY <1>1, <1>2, <1>3, RunsTyped
<1>5. Getting(r, <<>>) = r
  <2>1. PICK t \in Seq(C) : t = <<>>
    BY EmptySeq
  <2>2. Len(t) = 0
    BY <2>1
  <2>3. PICK g : g[0] = r /\ Runs(g, F, S, t) /\ Getting(r, t) = g[Len(t)]
    BY <1>1, GettingRuns
  <2> QED
    BY <2>1, <2>2, <2>3
<1>6. ASSUME NEW c \in C
      PROVE  Getting(r, Append(s, c)) = GetChar(Getting(r, s), c)
  <2>1. PICK t \in Seq(C) : Extends(t, s, c)
    BY AppendProperties DEF Extends
  <2>2. PICK g : g[0] = r /\ Runs(g, F, S, t) /\ Getting(r, t) = g[Len(t)]
    BY <1>1, GettingRuns
  <2>3. Leads(F, f[Len(s)], c, g[Len(t)])
    BY <1>1, <1>2, <2>1, <2>2, RunsAgree
  <2> QED
    BY <1>1, <1>2, <1>4, <2>1, <2>2, <2>3 DEF Extends, Leads
<1> QED
  BY <1>2, <1>4, <1>5, <1>6

Entering(r, s) == FoldLeft(AddEntry, r, s)

LEMMA EnteringRuns ==
  ASSUME NEW S, NEW C, NEW F, Table(F, S, C), \A x \in S : \A c \in C : F[x][c] = AddEntry(x, c),
         NEW r \in S, NEW s \in Seq(C)
  PROVE  \E f : f[0] = r /\ Runs(f, F, S, s) /\ Entering(r, s) = f[Len(s)]
<1> DEFINE Step(g) == [T \in SUBSET (DOMAIN s) |->
                         IF T = {} THEN r ELSE AddEntry(g[T \ {Max(T)}], s[Max(T)])]
           it == CHOOSE g : g = Step(g)
<1>0. Len(s) \in Nat /\ DOMAIN s = 1..Len(s)
  BY LenProperties
<1>1. PICK h \in [SUBSET (1..Len(s)) -> S] : Folds(h, F, r, s, Len(s))
  BY FoldsExist
<1>2. h = Step(h)
  <2>1. ASSUME NEW T \in SUBSET (1..Len(s))
        PROVE  h[T] = IF T = {} THEN r ELSE AddEntry(h[T \ {Max(T)}], s[Max(T)])
    <3>1. T # {} => h[T] = F[h[T \ {Max(T)}]][s[Max(T)]]
      BY <1>1 DEF Folds
    <3>2. T # {} => h[T] = AddEntry(h[T \ {Max(T)}], s[Max(T)])
      BY <1>1, <3>1, FoldsTyped
    <3>3. T = {} => h[T] = r
      BY <1>1 DEF Folds
    <3> QED
      BY <3>2, <3>3
  <2> QED
    BY <1>0, <2>1, Zenon
<1>3. it = Step(it)
  <2> HIDE DEF Step
  <2> QED
    BY <1>2, Zenon
<1>4. Entering(r, s) = it[DOMAIN s]
  BY Zenon DEF Entering, FoldLeft, MapThenFoldSet
<1>5. \A T \in SUBSET (1..Len(s)) :
        it[T] = IF T = {} THEN r ELSE AddEntry(it[T \ {Max(T)}], s[Max(T)])
  <2> HIDE DEF it
  <2> QED
    BY <1>0, <1>3, Zenon
<1> HIDE DEF it, Step
<1>6. \A T \in SUBSET (1..Len(s)) : T # {} => s[Max(T)] \in C
  BY <1>1, FoldsTyped
<1>7. Climbs(it, F, S, r, s)
  BY <1>5, <1>6 DEF Climbs
<1> QED
  BY <1>0, <1>4, <1>7, ClimbsRuns

EnteringStays(S, C) == \A x \in S : \A c \in C : AddEntry(x, c) \in S

LEMMA EnteringAppend ==
  ASSUME NEW S, NEW C, EnteringStays(S, C), NEW r \in S, NEW s \in Seq(C)
  PROVE  /\ Entering(r, s) \in S
         /\ Entering(r, <<>>) = r
         /\ \A c \in C : Entering(r, Append(s, c)) = AddEntry(Entering(r, s), c)
<1>1. PICK F : Table(F, S, C) /\ \A x \in S : \A c \in C : F[x][c] = AddEntry(x, c)
  <2> DEFINE G == [x \in S |-> [c \in C |-> AddEntry(x, c)]]
  <2>1. Table(G, S, C) /\ \A x \in S : \A c \in C : G[x][c] = AddEntry(x, c)
    BY DEF Table, EnteringStays
  <2> HIDE DEF G
  <2> QED
    BY <2>1
<1>2. PICK f : f[0] = r /\ Runs(f, F, S, s) /\ Entering(r, s) = f[Len(s)]
  BY <1>1, EnteringRuns
<1>3. Len(s) \in Nat /\ Len(s) \in 0..Len(s)
  BY LenProperties
<1>4. f[Len(s)] \in S
  BY <1>1, <1>2, <1>3, RunsTyped
<1>5. Entering(r, <<>>) = r
  <2>1. PICK t \in Seq(C) : t = <<>>
    BY EmptySeq
  <2>2. Len(t) = 0
    BY <2>1
  <2>3. PICK g : g[0] = r /\ Runs(g, F, S, t) /\ Entering(r, t) = g[Len(t)]
    BY <1>1, EnteringRuns
  <2> QED
    BY <2>1, <2>2, <2>3
<1>6. ASSUME NEW c \in C
      PROVE  Entering(r, Append(s, c)) = AddEntry(Entering(r, s), c)
  <2>1. PICK t \in Seq(C) : Extends(t, s, c)
    BY AppendProperties DEF Extends
  <2>2. PICK g : g[0] = r /\ Runs(g, F, S, t) /\ Entering(r, t) = g[Len(t)]
    BY <1>1, EnteringRuns
  <2>3. Leads(F, f[Len(s)], c, g[Len(t)])
    BY <1>1, <1>2, <2>1, <2>2, RunsAgree
  <2> QED
    BY <1>1, <1>2, <1>4, <2>1, <2>2, <2>3 DEF Extends, Leads
<1> QED
  BY <1>2, <1>4, <1>5, <1>6

Writing(r, s) == FoldLeft(AddLine, r, s)

LEMMA WritingRuns ==
  ASSUME NEW S, NEW C, NEW F, Table(F, S, C), \A x \in S : \A c \in C : F[x][c] = AddLine(x, c),
         NEW r \in S, NEW s \in Seq(C)
  PROVE  \E f : f[0] = r /\ Runs(f, F, S, s) /\ Writing(r, s) = f[Len(s)]
<1> DEFINE Step(g) == [T \in SUBSET (DOMAIN s) |->
                         IF T = {} THEN r ELSE AddLine(g[T \ {Max(T)}], s[Max(T)])]
           it == CHOOSE g : g = Step(g)
<1>0. Len(s) \in Nat /\ DOMAIN s = 1..Len(s)
  BY LenProperties
<1>1. PICK h \in [SUBSET (1..Len(s)) -> S] : Folds(h, F, r, s, Len(s))
  BY FoldsExist
<1>2. h = Step(h)
  <2>1. ASSUME NEW T \in SUBSET (1..Len(s))
        PROVE  h[T] = IF T = {} THEN r ELSE AddLine(h[T \ {Max(T)}], s[Max(T)])
    <3>1. T # {} => h[T] = F[h[T \ {Max(T)}]][s[Max(T)]]
      BY <1>1 DEF Folds
    <3>2. T # {} => h[T] = AddLine(h[T \ {Max(T)}], s[Max(T)])
      BY <1>1, <3>1, FoldsTyped
    <3>3. T = {} => h[T] = r
      BY <1>1 DEF Folds
    <3> QED
      BY <3>2, <3>3
  <2> QED
    BY <1>0, <2>1, Zenon
<1>3. it = Step(it)
  <2> HIDE DEF Step
  <2> QED
    BY <1>2, Zenon
<1>4. Writing(r, s) = it[DOMAIN s]
  BY Zenon DEF Writing, FoldLeft, MapThenFoldSet
<1>5. \A T \in SUBSET (1..Len(s)) :
        it[T] = IF T = {} THEN r ELSE AddLine(it[T \ {Max(T)}], s[Max(T)])
  <2> HIDE DEF it
  <2> QED
    BY <1>0, <1>3, Zenon
<1> HIDE DEF it, Step
<1>6. \A T \in SUBSET (1..Len(s)) : T # {} => s[Max(T)] \in C
  BY <1>1, FoldsTyped
<1>7. Climbs(it, F, S, r, s)
  BY <1>5, <1>6 DEF Climbs
<1> QED
  BY <1>0, <1>4, <1>7, ClimbsRuns

WritingStays(S, C) == \A x \in S : \A c \in C : AddLine(x, c) \in S

LEMMA WritingAppend ==
  ASSUME NEW S, NEW C, WritingStays(S, C), NEW r \in S, NEW s \in Seq(C)
  PROVE  /\ Writing(r, s) \in S
         /\ Writing(r, <<>>) = r
         /\ \A c \in C : Writing(r, Append(s, c)) = AddLine(Writing(r, s), c)
<1>1. PICK F : Table(F, S, C) /\ \A x \in S : \A c \in C : F[x][c] = AddLine(x, c)
  <2> DEFINE G == [x \in S |-> [c \in C |-> AddLine(x, c)]]
  <2>1. Table(G, S, C) /\ \A x \in S : \A c \in C : G[x][c] = AddLine(x, c)
    BY DEF Table, WritingStays
  <2> HIDE DEF G
  <2> QED
    BY <2>1
<1>2. PICK f : f[0] = r /\ Runs(f, F, S, s) /\ Writing(r, s) = f[Len(s)]
  BY <1>1, WritingRuns
<1>3. Len(s) \in Nat /\ Len(s) \in 0..Len(s)
  BY LenProperties
<1>4. f[Len(s)] \in S
  BY <1>1, <1>2, <1>3, RunsTyped
<1>5. Writing(r, <<>>) = r
  <2>1. PICK t \in Seq(C) : t = <<>>
    BY EmptySeq
  <2>2. Len(t) = 0
    BY <2>1
  <2>3. PICK g : g[0] = r /\ Runs(g, F, S, t) /\ Writing(r, t) = g[Len(t)]
    BY <1>1, WritingRuns
  <2> QED
    BY <2>1, <2>2, <2>3
<1>6. ASSUME NEW c \in C
      PROVE  Writing(r, Append(s, c)) = AddLine(Writing(r, s), c)
  <2>1. PICK t \in Seq(C) : Extends(t, s, c)
    BY AppendProperties DEF Extends
  <2>2. PICK g : g[0] = r /\ Runs(g, F, S, t) /\ Writing(r, t) = g[Len(t)]
    BY <1>1, WritingRuns
  <2>3. Leads(F, f[Len(s)], c, g[Len(t)])
    BY <1>1, <1>2, <2>1, <2>2, RunsAgree
  <2> QED
    BY <1>1, <1>2, <1>4, <2>1, <2>2, <2>3 DEF Extends, Leads
<1> QED
  BY <1>2, <1>4, <1>5, <1>6


LEMMA Distinct == Comma # Quote /\ Comma # LineFeed /\ Quote # LineFeed
BY DEF Comma, Quote, LineFeed

(* The characters of the texts: the three the code knows are among them. *)
Signs(B) == Comma \in B /\ Quote \in B /\ LineFeed \in B

LEMMA DoubledAppend ==
  ASSUME NEW B, Signs(B), NEW p \in Seq(B)
  PROVE  /\ Doubled(p) \in Seq(B)
         /\ Doubled(<<>>) = <<>>
         /\ \A c \in B : Doubled(Append(p, c)) = DoubledChar(Doubled(p), c)
<1>1. DoublingStays(Seq(B), B)
  <2> SUFFICES ASSUME NEW x \in Seq(B), NEW c \in B
               PROVE  DoubledChar(x, c) \in Seq(B)
    BY DEF DoublingStays
  <2>1. <<Quote, Quote>> \in Seq(B) /\ <<c>> \in Seq(B)
    BY DEF Signs
  <2> QED
    BY <2>1, ConcatProperties DEF DoubledChar
<1>2. <<>> \in Seq(B)
  BY EmptySeq
<1>3. \A q : Doubled(q) = Doubling(<<>>, q)
  BY Zenon DEF Doubled, Doubling
<1>4. /\ Doubling(<<>>, p) \in Seq(B)
      /\ Doubling(<<>>, <<>>) = <<>>
      /\ \A c \in B : Doubling(<<>>, Append(p, c)) = DoubledChar(Doubling(<<>>, p), c)
  <2> DEFINE S == Seq(B)
  <2>1. DoublingStays(S, B) /\ <<>> \in S
    BY <1>1, <1>2
  <2> HIDE DEF S
  <2>2. /\ Doubling(<<>>, p) \in S
        /\ Doubling(<<>>, <<>>) = <<>>
        /\ \A c \in B : Doubling(<<>>, Append(p, c)) = DoubledChar(Doubling(<<>>, p), c)
    BY <2>1, DoublingAppend
  <2> QED
    BY <2>2 DEF S
<1> QED
  BY <1>3, <1>4

(* What CSVParse has read: the fields, the one it is in, and its state. *)
At(fs, f, n) == [fields |-> fs, field |-> f, state |-> n]

Readings(B) == [fields : Seq(Seq(B)), field : Seq(B), state : {0, 1, 2}]

Parsed(s) == Parsing(At(<<>>, <<>>, 0), s)

LEMMA StepsOfParse ==
  ASSUME NEW B, Signs(B), NEW fs \in Seq(Seq(B)), NEW f \in Seq(B), NEW c \in B
  PROVE  /\ CSVChar(At(fs, f, 0), Quote) = At(fs, f, 1)
         /\ CSVChar(At(fs, f, 1), Quote) = At(fs, f, 2)
         /\ CSVChar(At(fs, f, 2), Quote) = At(fs, Append(f, Quote), 1)
         /\ CSVChar(At(fs, f, 0), Comma) = At(Append(fs, f), <<>>, 0)
         /\ CSVChar(At(fs, f, 2), Comma) = At(Append(fs, f), <<>>, 2)
         /\ c # Quote => CSVChar(At(fs, f, 1), c) = At(fs, Append(f, c), 1)
         /\ c # Quote /\ c # Comma => CSVChar(At(fs, f, 0), c) = At(fs, Append(f, c), 0)
         /\ c # Quote /\ c # Comma => CSVChar(At(fs, f, 2), c) = At(fs, Append(f, c), 2)
<1>1. CSVChar(At(fs, f, 0), Quote) = At(fs, f, 1)
  BY Distinct DEF CSVChar, At
<1>2. CSVChar(At(fs, f, 1), Quote) = At(fs, f, 2)
  BY Distinct DEF CSVChar, At
<1>3. CSVChar(At(fs, f, 2), Quote) = At(fs, Append(f, Quote), 1)
  <2>1. Keep(At(fs, f, 2), Quote) = At(fs, Append(f, Quote), 2)
    <3>1. Keep(At(fs, f, 2), Quote) = [At(fs, f, 2) EXCEPT !.field = Append(f, Quote)]
      BY DEF Keep, At
    <3>2. \A g : [At(fs, f, 2) EXCEPT !.field = g] = At(fs, g, 2)
      BY DEF At
    <3> QED
      BY <3>1, <3>2
  <2>2. At(fs, f, 2).state = 2
    BY DEF At
  <2>3. CSVChar(At(fs, f, 2), Quote) = [At(fs, Append(f, Quote), 2) EXCEPT !.state = 1]
    BY <2>1, <2>2, Distinct DEF CSVChar
  <2> QED
    BY <2>3 DEF At
<1>0. \A n \in {0, 2} : EndField(At(fs, f, n)) = At(Append(fs, f), <<>>, n) /\ At(fs, f, n).state = n
  BY DEF EndField, At
<1>4. CSVChar(At(fs, f, 0), Comma) = At(Append(fs, f), <<>>, 0)
  BY <1>0, Distinct DEF CSVChar
<1>5. CSVChar(At(fs, f, 2), Comma) = At(Append(fs, f), <<>>, 2)
  BY <1>0, Distinct DEF CSVChar
<1>6. c # Quote => CSVChar(At(fs, f, 1), c) = At(fs, Append(f, c), 1)
  BY Distinct DEF CSVChar, At, Keep
<1>7. c # Quote /\ c # Comma => CSVChar(At(fs, f, 0), c) = At(fs, Append(f, c), 0)
  BY Distinct DEF CSVChar, At, Keep
<1>8. c # Quote /\ c # Comma => CSVChar(At(fs, f, 2), c) = At(fs, Append(f, c), 2)
  BY Distinct DEF CSVChar, At, Keep
<1> QED
  BY <1>1, <1>2, <1>3, <1>4, <1>5, <1>6, <1>7, <1>8

(* A sign that means nothing where it stands is taken as it is. *)
LEMMA SignKept ==
  ASSUME NEW B, Signs(B), NEW fs \in Seq(Seq(B)), NEW f \in Seq(B), NEW c \in B, NEW n \in {0, 1, 2},
         c # Quote, n # 1 => c # Comma
  PROVE  CSVChar(At(fs, f, n), c) = At(fs, Append(f, c), n)
<1>1. CASE n = 0
  BY <1>1, StepsOfParse
<1>2. CASE n = 1
  BY <1>2, StepsOfParse
<1>3. CASE n = 2
  BY <1>3, StepsOfParse
<1> QED
  BY <1>1, <1>2, <1>3

LEMMA ReadingIsAt ==
  ASSUME NEW B, NEW x \in Readings(B)
  PROVE  \E fs \in Seq(Seq(B)), f \in Seq(B), n \in {0, 1, 2} : x = At(fs, f, n)
<1>1. /\ x.fields \in Seq(Seq(B)) /\ x.field \in Seq(B) /\ x.state \in {0, 1, 2}
      /\ x = At(x.fields, x.field, x.state)
  BY DEF Readings, At
<1> QED
  BY <1>1

LEMMA AtIsReading ==
  ASSUME NEW B, NEW fs \in Seq(Seq(B)), NEW f \in Seq(B), NEW n \in {0, 1, 2}
  PROVE  At(fs, f, n) \in Readings(B)
BY DEF Readings, At

LEMMA ParsedAppend ==
  ASSUME NEW B, Signs(B), NEW s \in Seq(B)
  PROVE  /\ Parsed(s) \in Readings(B)
         /\ Parsed(<<>>) = At(<<>>, <<>>, 0)
         /\ \A c \in B : Parsed(Append(s, c)) = CSVChar(Parsed(s), c)
<1>1. ParsingStays(Readings(B), B)
  <2> SUFFICES ASSUME NEW x \in Readings(B), NEW c \in B
               PROVE  CSVChar(x, c) \in Readings(B)
    BY DEF ParsingStays
  <2>1. PICK fs \in Seq(Seq(B)), f \in Seq(B), n \in {0, 1, 2} : x = At(fs, f, n)
    BY ReadingIsAt
  <2>2. /\ Append(fs, f) \in Seq(Seq(B)) /\ Append(f, c) \in Seq(B) /\ Append(f, Quote) \in Seq(B)
        /\ <<>> \in Seq(B)
    BY AppendProperties, EmptySeq DEF Signs
  <2>3. \A m \in {0, 1, 2} :
          /\ At(fs, f, m) \in Readings(B)
          /\ At(fs, Append(f, c), m) \in Readings(B)
          /\ At(fs, Append(f, Quote), m) \in Readings(B)
          /\ At(Append(fs, f), <<>>, m) \in Readings(B)
    BY <2>2, AtIsReading
  <2>4. CASE c = Quote
    BY <2>1, <2>3, <2>4, StepsOfParse
  <2>5. CASE c = Comma
    BY <2>1, <2>3, <2>5, StepsOfParse, Distinct
  <2>6. CASE c # Quote /\ c # Comma
    BY <2>1, <2>3, <2>6, StepsOfParse
  <2> QED
    BY <2>4, <2>5, <2>6
<1>2. At(<<>>, <<>>, 0) \in Readings(B)
  BY AtIsReading, EmptySeq
<1>3. /\ Parsing(At(<<>>, <<>>, 0), s) \in Readings(B)
      /\ Parsing(At(<<>>, <<>>, 0), <<>>) = At(<<>>, <<>>, 0)
      /\ \A c \in B : Parsing(At(<<>>, <<>>, 0), Append(s, c)) = CSVChar(Parsing(At(<<>>, <<>>, 0), s), c)
  BY <1>1, <1>2, ParsingAppend
<1> QED
  BY <1>3 DEF Parsed

Bare(p) == ~NeedsQuotes(p)

LEMMA PlainAppend ==
  ASSUME NEW B, NEW p \in Seq(B), NEW c \in B, Bare(Append(p, c))
  PROVE  Bare(p) /\ c # Quote /\ c # Comma
<1>1. /\ Len(p) \in Nat /\ DOMAIN p = 1..Len(p)
      /\ Append(p, c) \in Seq(B)
      /\ Len(Append(p, c)) = Len(p) + 1
      /\ \A i \in 1..Len(p) : Append(p, c)[i] = p[i]
      /\ Append(p, c)[Len(p) + 1] = c
  BY LenProperties, AppendProperties
<1>2. DOMAIN Append(p, c) = 1..(Len(p) + 1)
  BY <1>1, LenProperties
<1>3. \A i \in 1..(Len(p) + 1) : Append(p, c)[i] \notin {Comma, Quote}
  BY <1>2 DEF Bare, NeedsQuotes
<1>4. c \notin {Comma, Quote}
  BY <1>1, <1>3
<1>5. \A i \in 1..Len(p) : p[i] \notin {Comma, Quote}
  BY <1>1, <1>3
<1> QED
  BY <1>1, <1>4, <1>5 DEF Bare, NeedsQuotes

LEMMA ConcatOfAppend ==
  ASSUME NEW B, NEW s \in Seq(B), NEW p \in Seq(B), NEW c \in B
  PROVE  s \o Append(p, c) = Append(s \o p, c)
<1>1. Append(p, c) \in Seq(B) /\ s \o p \in Seq(B)
  BY AppendProperties, ConcatProperties
<1>2. s \o Append(p, c) \in Seq(B) /\ Append(s \o p, c) \in Seq(B)
  BY <1>1, AppendProperties, ConcatProperties
<1>3. Len(s) \in Nat /\ Len(p) \in Nat
  BY LenProperties
<1>4. Len(Append(p, c)) = Len(p) + 1 /\ Len(s \o p) = Len(s) + Len(p)
  BY AppendProperties, ConcatProperties
<1>5. /\ Len(s \o Append(p, c)) = Len(s) + (Len(p) + 1)
      /\ Len(Append(s \o p, c)) = Len(s) + (Len(p) + 1)
  BY <1>1, <1>3, <1>4, AppendProperties, ConcatProperties
<1>6. ASSUME NEW i \in 1..(Len(s) + (Len(p) + 1))
      PROVE  (s \o Append(p, c))[i] = Append(s \o p, c)[i]
  <2>1. (s \o Append(p, c))[i] = IF i <= Len(s) THEN s[i] ELSE Append(p, c)[i - Len(s)]
    BY <1>1, <1>3, <1>4, ConcatProperties
  <2>2. Append(s \o p, c)[i] = IF i <= Len(s) + Len(p) THEN (s \o p)[i] ELSE c
    BY <1>1, <1>3, <1>4, AppendProperties
  <2>3. i <= Len(s) + Len(p) => (s \o p)[i] = IF i <= Len(s) THEN s[i] ELSE p[i - Len(s)]
    BY <1>3, ConcatProperties
  <2>4. i > Len(s) => Append(p, c)[i - Len(s)] = IF i <= Len(s) + Len(p) THEN p[i - Len(s)] ELSE c
    BY <1>3, <1>4, AppendProperties
  <2> QED
    BY <1>3, <2>1, <2>2, <2>3, <2>4
<1> QED
  BY <1>2, <1>5, <1>6, SeqEqual

(* Outside quotes a plain text is taken as it is. *)
LEMMA ParsedPlain ==
  ASSUME NEW B, Signs(B), NEW s \in Seq(B), NEW fs \in Seq(Seq(B)), NEW f \in Seq(B), NEW n \in {0, 2},
         Parsed(s) = At(fs, f, n)
  PROVE  \A p \in Seq(B) : Bare(p) => Parsed(s \o p) = At(fs, f \o p, n)
<1> DEFINE G == {p \in Seq(B) : Bare(p) => Parsed(s \o p) = At(fs, f \o p, n)}
<1>1. <<>> \in G
  BY EmptySeq, ConcatEmptySeq
<1>2. ASSUME NEW p \in G, NEW c \in B PROVE Append(p, c) \in G
  <2>0. p \in Seq(B) /\ Append(p, c) \in Seq(B)
    BY AppendProperties
  <2> SUFFICES ASSUME Bare(Append(p, c))
               PROVE  Parsed(s \o Append(p, c)) = At(fs, f \o Append(p, c), n)
    BY <2>0
  <2>1. Bare(p) /\ c # Quote /\ c # Comma
    BY <2>0, PlainAppend
  <2>2. Parsed(s \o p) = At(fs, f \o p, n)
    BY <2>1
  <2>3. s \o p \in Seq(B) /\ f \o p \in Seq(B)
    BY <2>0, ConcatProperties
  <2>4. Parsed(Append(s \o p, c)) = CSVChar(At(fs, f \o p, n), c)
    BY <2>2, <2>3, ParsedAppend
  <2>5. CSVChar(At(fs, f \o p, n), c) = At(fs, Append(f \o p, c), n)
    <3>1. \A g \in Seq(B) : CSVChar(At(fs, g, n), c) = At(fs, Append(g, c), n)
      BY <2>1, SignKept
    <3> QED
      BY <2>3, <3>1
  <2>6. s \o Append(p, c) = Append(s \o p, c) /\ f \o Append(p, c) = Append(f \o p, c)
    BY <2>0, ConcatOfAppend
  <2> QED
    BY <2>4, <2>5, <2>6
<1> HIDE DEF G
<1>3. G = Seq(B)
  <2>1. G \in SUBSET Seq(B)
    BY DEF G
  <2> QED
    BY <1>1, <1>2, <2>1, SequencesGrow
<1> QED
  BY <1>3 DEF G

(* Between quotes a text whose quotes are doubled is taken as it was. *)
LEMMA ParsedDoubled ==
  ASSUME NEW B, Signs(B), NEW s \in Seq(B), NEW fs \in Seq(Seq(B)), NEW f \in Seq(B),
         Parsed(s) = At(fs, f, 1)
  PROVE  \A p \in Seq(B) : Parsed(s \o Doubled(p)) = At(fs, f \o p, 1)
<1> DEFINE G == {p \in Seq(B) : Parsed(s \o Doubled(p)) = At(fs, f \o p, 1)}
<1>1. <<>> \in G
  BY EmptySeq, ConcatEmptySeq, DoubledAppend
<1>2. ASSUME NEW p \in G, NEW c \in B PROVE Append(p, c) \in G
  <2>0. /\ p \in Seq(B) /\ Append(p, c) \in Seq(B)
        /\ Parsed(s \o Doubled(p)) = At(fs, f \o p, 1)
    BY AppendProperties
  <2>1. Doubled(p) \in Seq(B) /\ Doubled(Append(p, c)) = DoubledChar(Doubled(p), c)
    BY <2>0, DoubledAppend
  <2>2. s \o Doubled(p) \in Seq(B) /\ f \o p \in Seq(B)
    BY <2>0, <2>1, ConcatProperties
  <2>3. f \o Append(p, c) = Append(f \o p, c) /\ Append(f \o p, c) \in Seq(B)
    BY <2>0, <2>2, ConcatOfAppend, AppendProperties
  <2>4. CASE c # Quote
    <3>1. Doubled(Append(p, c)) = Append(Doubled(p), c)
      BY <2>1, <2>4, AppendIsConcat DEF DoubledChar
    <3>2. s \o Doubled(Append(p, c)) = Append(s \o Doubled(p), c)
      BY <2>1, <3>1, ConcatOfAppend
    <3>3. Parsed(Append(s \o Doubled(p), c)) = CSVChar(At(fs, f \o p, 1), c)
      BY <2>0, <2>2, ParsedAppend
    <3>4. CSVChar(At(fs, f \o p, 1), c) = At(fs, Append(f \o p, c), 1)
      <4>1. \A g \in Seq(B) : CSVChar(At(fs, g, 1), c) = At(fs, Append(g, c), 1)
        BY <2>4, SignKept
      <4> QED
        BY <2>2, <4>1
    <3> QED
      BY <2>0, <2>3, <3>2, <3>3, <3>4
  <2>5. CASE c = Quote
    <3>1. Append(Doubled(p), Quote) \in Seq(B) /\ Append(s \o Doubled(p), Quote) \in Seq(B)
      BY <2>1, <2>2, AppendProperties DEF Signs
    <3>2. Doubled(Append(p, c)) = Append(Append(Doubled(p), Quote), Quote)
      <4>1. <<Quote, Quote>> = Append(<<Quote>>, Quote) /\ <<Quote>> \in Seq(B)
        BY DEF Signs
      <4>2. Doubled(p) \o <<Quote, Quote>> = Append(Doubled(p) \o <<Quote>>, Quote)
        BY <2>1, <4>1, ConcatOfAppend DEF Signs
      <4>3. Doubled(p) \o <<Quote>> = Append(Doubled(p), Quote)
        BY <2>1, AppendIsConcat DEF Signs
      <4> QED
        BY <2>1, <2>5, <4>2, <4>3 DEF DoubledChar
    <3>3. s \o Doubled(Append(p, c)) = Append(Append(s \o Doubled(p), Quote), Quote)
      <4>1. s \o Append(Append(Doubled(p), Quote), Quote) = Append(s \o Append(Doubled(p), Quote), Quote)
        BY <3>1, ConcatOfAppend DEF Signs
      <4>2. s \o Append(Doubled(p), Quote) = Append(s \o Doubled(p), Quote)
        BY <2>1, ConcatOfAppend DEF Signs
      <4> QED
        BY <3>2, <4>1, <4>2
    <3>4. Parsed(Append(s \o Doubled(p), Quote)) = At(fs, f \o p, 2)
      <4>1. Parsed(Append(s \o Doubled(p), Quote)) = CSVChar(At(fs, f \o p, 1), Quote)
        BY <2>0, <2>2, ParsedAppend DEF Signs
      <4>2. CSVChar(At(fs, f \o p, 1), Quote) = At(fs, f \o p, 2)
        BY <2>2, StepsOfParse
      <4> QED
        BY <4>1, <4>2
    <3>5. Parsed(Append(Append(s \o Doubled(p), Quote), Quote)) = CSVChar(At(fs, f \o p, 2), Quote)
      BY <3>1, <3>4, ParsedAppend DEF Signs
    <3>6. CSVChar(At(fs, f \o p, 2), Quote) = At(fs, Append(f \o p, Quote), 1)
      BY <2>2, StepsOfParse
    <3> QED
      BY <2>0, <2>3, <2>5, <3>3, <3>5, <3>6
  <2> QED
    BY <2>4, <2>5
<1> HIDE DEF G
<1>3. G = Seq(B)
  <2>1. G \in SUBSET Seq(B)
    BY DEF G
  <2> QED
    BY <1>1, <1>2, <2>1, SequencesGrow
<1> QED
  BY <1>3 DEF G

(* What a field read from the given state comes back as. *)
LEMMA ParsedField ==
  ASSUME NEW B, Signs(B), NEW s \in Seq(B), NEW fs \in Seq(Seq(B)), NEW n \in {0, 2},
         Parsed(s) = At(fs, <<>>, n), NEW p \in Seq(B)
  PROVE  /\ Field(p) \in Seq(B)
         /\ Bare(p) => Parsed(s \o Field(p)) = At(fs, p, n)
         /\ ~Bare(p) => Parsed(s \o Field(p)) = At(fs, IF n = 0 THEN p ELSE <<Quote>> \o p, 2)
<1>1. <<>> \in Seq(B) /\ <<Quote>> \in Seq(B) /\ Doubled(p) \in Seq(B) /\ Quote \in B
  BY DoubledAppend, EmptySeq DEF Signs
<1>2. CASE Bare(p)
  <2>1. Field(p) = p
    BY <1>2 DEF Bare, Field
  <2>2. \A f \in Seq(B) : Parsed(s) = At(fs, f, n) => Parsed(s \o p) = At(fs, f \o p, n)
    BY <1>2, ParsedPlain
  <2>3. <<>> \o p = p
    BY ConcatEmptySeq
  <2> QED
    BY <1>1, <1>2, <2>1, <2>2, <2>3
<1>3. CASE ~Bare(p)
  <2> DEFINE opening == IF n = 0 THEN <<>> ELSE <<Quote>>
             s1 == Append(s, Quote)
             s2 == s1 \o Doubled(p)
  <2>1. opening \in Seq(B)
    BY <1>1
  <2>2. Field(p) = (<<Quote>> \o Doubled(p)) \o <<Quote>>
    BY <1>3 DEF Bare, Field
  <2>3. s1 \in Seq(B) /\ s2 \in Seq(B)
    BY <1>1, AppendProperties, ConcatProperties
  <2>4. <<Quote>> \o Doubled(p) \in Seq(B) /\ Field(p) \in Seq(B)
    BY <1>1, <2>2, ConcatProperties
  <2>5. s \o Field(p) = Append(s2, Quote)
    <3>1. s \o ((<<Quote>> \o Doubled(p)) \o <<Quote>>) = (s \o (<<Quote>> \o Doubled(p))) \o <<Quote>>
      BY <1>1, <2>4, ConcatAssociative
    <3>2. s \o (<<Quote>> \o Doubled(p)) = (s \o <<Quote>>) \o Doubled(p)
      BY <1>1, ConcatAssociative
    <3>3. s \o <<Quote>> = s1
      BY <1>1, AppendIsConcat
    <3>4. s2 \o <<Quote>> = Append(s2, Quote)
      BY <1>1, <2>3, AppendIsConcat
    <3> QED
      BY <2>2, <3>1, <3>2, <3>3, <3>4
  <2>6. Parsed(s1) = At(fs, opening, 1)
    <3>1. Parsed(s1) = CSVChar(At(fs, <<>>, n), Quote)
      BY <1>1, ParsedAppend
    <3>2. CASE n = 0
      BY <1>1, <3>1, <3>2, StepsOfParse
    <3>3. CASE n = 2
      <4>1. CSVChar(At(fs, <<>>, 2), Quote) = At(fs, Append(<<>>, Quote), 1)
        BY <1>1, StepsOfParse
      <4>2. Append(<<>>, Quote) = <<Quote>>
        OBVIOUS
      <4> QED
        BY <3>1, <3>3, <4>1, <4>2
    <3> QED
      BY <3>2, <3>3
  <2> HIDE DEF s1
  <2>7. Parsed(s2) = At(fs, opening \o p, 1)
    <3> HIDE DEF opening
    <3> QED
      BY <2>1, <2>3, <2>6, ParsedDoubled
  <2>8. opening \o p \in Seq(B)
    BY <2>1, ConcatProperties
  <2> HIDE DEF s2
  <2>9. Parsed(Append(s2, Quote)) = CSVChar(At(fs, opening \o p, 1), Quote)
    BY <1>1, <2>3, <2>7, ParsedAppend
  <2>10. CSVChar(At(fs, opening \o p, 1), Quote) = At(fs, opening \o p, 2)
    BY <1>1, <2>8, StepsOfParse
  <2>11. opening \o p = IF n = 0 THEN p ELSE <<Quote>> \o p
    BY ConcatEmptySeq
  <2> QED
    BY <1>3, <2>4, <2>5, <2>9, <2>10, <2>11
<1> QED
  BY <1>2, <1>3

(* A line of two fields has them both, but for the quote in front of the path. *)
LEMMA LineParsed ==
  ASSUME NEW B, Signs(B), NEW a \in Seq(B), NEW b \in Seq(B)
  PROVE  /\ ConvertToCSV(<<a, b>>) \in Seq(B)
         /\ CSVParse(ConvertToCSV(<<a, b>>)) = AsRead(<<a, b>>)
<1> DEFINE n == IF Bare(a) THEN 0 ELSE 2
           s1 == Append(Field(a), Comma)
           back == IF Bare(b) \/ n = 0 THEN b ELSE <<Quote>> \o b
           m == IF Bare(b) THEN n ELSE 2
<1>1. <<>> \in Seq(B) /\ <<>> \in Seq(Seq(B)) /\ <<Comma>> \in Seq(B) /\ <<Quote>> \in Seq(B) /\ Comma \in B
  BY EmptySeq DEF Signs
<1>2. Parsed(<<>>) = At(<<>>, <<>>, 0)
  BY <1>1, ParsedAppend
<1>0. n \in {0, 2} /\ m \in {0, 2}
  OBVIOUS
<1>3. Field(a) \in Seq(B) /\ Parsed(<<>> \o Field(a)) = At(<<>>, a, n)
  <2>1. \A s \in Seq(B) : \A fs \in Seq(Seq(B)) :
          Parsed(s) = At(fs, <<>>, 0) => Field(a) \in Seq(B) /\ Parsed(s \o Field(a)) = At(fs, a, n)
    BY ParsedField
  <2> QED
    BY <1>1, <1>2, <2>1
<1>4. Parsed(Field(a)) = At(<<>>, a, n)
  BY <1>3, ConcatEmptySeq
<1>5. s1 \in Seq(B)
  BY <1>1, <1>3, AppendProperties
<1>6. Append(<<>>, a) = <<a>> /\ <<a>> \in Seq(Seq(B))
  OBVIOUS
<1>7. Parsed(s1) = At(<<a>>, <<>>, n)
  <2>1. Parsed(s1) = CSVChar(At(<<>>, a, n), Comma)
    BY <1>1, <1>3, <1>4, ParsedAppend
  <2>2. \A fs \in Seq(Seq(B)) : CSVChar(At(fs, a, n), Comma) = At(Append(fs, a), <<>>, n)
    <3> HIDE DEF n
    <3>1. CASE n = 0
      BY <1>1, <3>1, StepsOfParse
    <3>2. CASE n = 2
      BY <1>1, <3>2, StepsOfParse
    <3> QED
      BY <1>0, <3>1, <3>2
  <2> QED
    BY <1>1, <1>6, <2>1, <2>2
<1>8. Field(b) \in Seq(B) /\ Parsed(s1 \o Field(b)) = At(<<a>>, back, m)
  <2>1. \A s \in Seq(B) : \A fs \in Seq(Seq(B)) :
          Parsed(s) = At(fs, <<>>, n) => Field(b) \in Seq(B) /\ Parsed(s \o Field(b)) = At(fs, back, m)
    <3> HIDE DEF n
    <3>1. CASE Bare(b)
      BY <1>0, <3>1, ParsedField
    <3>2. CASE ~Bare(b)
      BY <1>0, <3>2, ParsedField
    <3> QED
      BY <3>1, <3>2
  <2> HIDE DEF s1, n, back, m
  <2> QED
    BY <1>5, <1>6, <1>7, <2>1
<1>9. ConvertToCSV(<<a, b>>) = s1 \o Field(b)
  <2>1. ConvertToCSV(<<a, b>>) = (Field(a) \o <<Comma>>) \o Field(b)
    BY DEF ConvertToCSV
  <2> QED
    BY <1>1, <1>3, <2>1, AppendIsConcat
<1>10. ConvertToCSV(<<a, b>>) \in Seq(B)
  BY <1>5, <1>8, <1>9, ConcatProperties
<1>11. back \in Seq(B)
  BY <1>1, ConcatProperties
<1>12. CSVParse(ConvertToCSV(<<a, b>>)) = EndField(Parsed(ConvertToCSV(<<a, b>>))).fields
  BY Zenon DEF CSVParse, Parsed, Parsing, At
<1>13. CSVParse(ConvertToCSV(<<a, b>>)) = Append(<<a>>, back)
  <2> HIDE DEF s1, back, m
  <2>1. EndField(At(<<a>>, back, m)).fields = Append(<<a>>, back)
    BY DEF EndField, At
  <2> QED
    BY <1>8, <1>9, <1>12, <2>1
<1>14. Append(<<a>>, back) = <<a, back>>
  <2> HIDE DEF back
  <2>1. <<a>> \in Seq(Seq(B)) /\ Len(<<a>>) = 1 /\ <<a>>[1] = a
    OBVIOUS
  <2>2. /\ Append(<<a>>, back) \in Seq(Seq(B)) /\ Len(Append(<<a>>, back)) = 2
        /\ Append(<<a>>, back)[1] = a /\ Append(<<a>>, back)[2] = back
    BY <1>11, <2>1, AppendProperties
  <2>3. /\ <<a, back>> \in Seq(Seq(B)) /\ Len(<<a, back>>) = 2
        /\ <<a, back>>[1] = a /\ <<a, back>>[2] = back
    BY <1>11
  <2>4. \A i \in 1..2 : i = 1 \/ i = 2
    OBVIOUS
  <2> QED
    BY <2>2, <2>3, <2>4, SeqEqual
<1>15. AsRead(<<a, b>>) = <<a, back>>
  <2>1. <<a, b>>[1] = a /\ <<a, b>>[2] = b
    OBVIOUS
  <2>2. AsRead(<<a, b>>) = IF ~Bare(a) /\ ~Bare(b) THEN <<a, <<Quote>> \o b>> ELSE <<a, b>>
    BY <2>1, Zenon DEF AsRead, Bare
  <2>3. n = 0 <=> Bare(a)
    OBVIOUS
  <2>4. back = IF ~Bare(a) /\ ~Bare(b) THEN <<Quote>> \o b ELSE b
    <3> HIDE DEF n
    <3> QED
      BY <2>3
  <2> HIDE DEF back
  <2> QED
    BY <2>2, <2>4
<1> QED
  BY <1>10, <1>13, <1>14, <1>15

Unfed(p) == ~Feeds(p)

LEMMA UnfedAppend ==
  ASSUME NEW B, NEW p \in Seq(B), NEW c \in B
  PROVE  Unfed(Append(p, c)) <=> Unfed(p) /\ c # LineFeed
<1>1. /\ Len(p) \in Nat /\ DOMAIN p = 1..Len(p)
      /\ Append(p, c) \in Seq(B)
      /\ Len(Append(p, c)) = Len(p) + 1
      /\ \A i \in 1..Len(p) : Append(p, c)[i] = p[i]
      /\ Append(p, c)[Len(p) + 1] = c
  BY LenProperties, AppendProperties
<1>2. DOMAIN Append(p, c) = 1..(Len(p) + 1)
  BY <1>1, LenProperties
<1>3. Unfed(Append(p, c)) <=> \A i \in 1..(Len(p) + 1) : Append(p, c)[i] # LineFeed
  BY <1>2 DEF Unfed, Feeds
<1>4. Unfed(p) <=> \A i \in 1..Len(p) : p[i] # LineFeed
  BY <1>1 DEF Unfed, Feeds
<1>5. \A i \in 1..(Len(p) + 1) : i \in 1..Len(p) \/ i = Len(p) + 1
  BY <1>1
<1>6. \A i \in 1..Len(p) : i \in 1..(Len(p) + 1)
  BY <1>1
<1>7. Len(p) + 1 \in 1..(Len(p) + 1)
  BY <1>1
<1> QED
  BY <1>1, <1>3, <1>4, <1>5, <1>6, <1>7

LEMMA UnfedConcat ==
  ASSUME NEW B, NEW p \in Seq(B), NEW q \in Seq(B), Unfed(p), Unfed(q)
  PROVE  Unfed(p \o q)
<1>1. Len(p) \in Nat /\ Len(q) \in Nat /\ DOMAIN p = 1..Len(p) /\ DOMAIN q = 1..Len(q)
  BY LenProperties
<1>2. p \o q \in Seq(B) /\ Len(p \o q) = Len(p) + Len(q)
  BY ConcatProperties
<1>3. DOMAIN (p \o q) = 1..(Len(p) + Len(q))
  BY <1>2, LenProperties
<1>4. ASSUME NEW i \in 1..(Len(p) + Len(q)) PROVE (p \o q)[i] # LineFeed
  <2>1. (p \o q)[i] = IF i <= Len(p) THEN p[i] ELSE q[i - Len(p)]
    BY ConcatProperties
  <2>2. i <= Len(p) => i \in DOMAIN p
    BY <1>1
  <2>3. ~(i <= Len(p)) => i - Len(p) \in DOMAIN q
    BY <1>1
  <2> QED
    BY <2>1, <2>2, <2>3 DEF Unfed, Feeds
<1> QED
  BY <1>3, <1>4 DEF Unfed, Feeds

LEMMA UnfedEmpty == Unfed(<<>>)
BY DEF Unfed, Feeds

LEMMA UnfedDoubled ==
  ASSUME NEW B, Signs(B)
  PROVE  \A p \in Seq(B) : Unfed(p) => Unfed(Doubled(p))
<1> DEFINE G == {p \in Seq(B) : Unfed(p) => Unfed(Doubled(p))}
<1>1. <<>> \in G
  BY EmptySeq, DoubledAppend, UnfedEmpty
<1>2. ASSUME NEW p \in G, NEW c \in B PROVE Append(p, c) \in G
  <2>0. /\ p \in Seq(B) /\ Append(p, c) \in Seq(B)
        /\ Unfed(p) => Unfed(Doubled(p))
    BY AppendProperties
  <2> SUFFICES ASSUME Unfed(Append(p, c))
               PROVE  Unfed(Doubled(Append(p, c)))
    BY <2>0
  <2>1. Unfed(p) /\ c # LineFeed
    BY <2>0, UnfedAppend
  <2>2. Doubled(p) \in Seq(B) /\ Doubled(Append(p, c)) = DoubledChar(Doubled(p), c)
    BY <2>0, DoubledAppend
  <2>3. Unfed(<<Quote, Quote>>) /\ Unfed(<<c>>)
    BY <2>1, Distinct DEF Unfed, Feeds
  <2>4. <<Quote, Quote>> \in Seq(B) /\ <<c>> \in Seq(B)
    BY DEF Signs
  <2> QED
    BY <2>0, <2>1, <2>2, <2>3, <2>4, UnfedConcat DEF DoubledChar
<1> HIDE DEF G
<1>3. G = Seq(B)
  <2>1. G \in SUBSET Seq(B)
    BY DEF G
  <2> QED
    BY <1>1, <1>2, <2>1, SequencesGrow
<1> QED
  BY <1>3 DEF G

LEMMA UnfedLine ==
  ASSUME NEW B, Signs(B), NEW a \in Seq(B), NEW b \in Seq(B), Unfed(a), Unfed(b)
  PROVE  Unfed(ConvertToCSV(<<a, b>>))
<1>1. <<Quote>> \in Seq(B) /\ <<Comma>> \in Seq(B) /\ Unfed(<<Quote>>) /\ Unfed(<<Comma>>)
  BY Distinct DEF Signs, Unfed, Feeds
<1>2. ASSUME NEW p \in Seq(B), Unfed(p) PROVE Field(p) \in Seq(B) /\ Unfed(Field(p))
  <2>1. Doubled(p) \in Seq(B) /\ Unfed(Doubled(p))
    BY <1>2, DoubledAppend, UnfedDoubled
  <2>2. <<Quote>> \o Doubled(p) \in Seq(B) /\ Unfed(<<Quote>> \o Doubled(p))
    BY <1>1, <2>1, ConcatProperties, UnfedConcat
  <2>3. /\ (<<Quote>> \o Doubled(p)) \o <<Quote>> \in Seq(B)
        /\ Unfed((<<Quote>> \o Doubled(p)) \o <<Quote>>)
    BY <1>1, <2>2, ConcatProperties, UnfedConcat
  <2> QED
    BY <1>2, <2>3 DEF Field
<1>3. Field(a) \o <<Comma>> \in Seq(B) /\ Unfed(Field(a) \o <<Comma>>)
  BY <1>1, <1>2, ConcatProperties, UnfedConcat
<1>4. Unfed((Field(a) \o <<Comma>>) \o Field(b))
  BY <1>2, <1>3, UnfedConcat
<1> QED
  BY <1>4 DEF ConvertToCSV

(* What getline has read: the lines, and the one it is in. *)
Cut(ls, l) == [lines |-> ls, line |-> l]

Cuts(B) == [lines : Seq(Seq(B)), line : Seq(B)]

Gotten(s) == Getting(Cut(<<>>, <<>>), s)

LEMMA StepsOfGet ==
  ASSUME NEW B, NEW ls \in Seq(Seq(B)), NEW l \in Seq(B), NEW c \in B
  PROVE  /\ Cut(ls, l) \in Cuts(B)
         /\ GetChar(Cut(ls, l), LineFeed) = Cut(Append(ls, l), <<>>)
         /\ c # LineFeed => GetChar(Cut(ls, l), c) = Cut(ls, Append(l, c))
<1>1. Cut(ls, l) \in Cuts(B)
  BY DEF Cut, Cuts
<1>2. GetChar(Cut(ls, l), LineFeed) = Cut(Append(ls, l), <<>>)
  BY DEF GetChar, Cut
<1>3. ASSUME c # LineFeed PROVE GetChar(Cut(ls, l), c) = Cut(ls, Append(l, c))
  <2>1. GetChar(Cut(ls, l), c) = [Cut(ls, l) EXCEPT !.line = Append(l, c)]
    BY <1>3 DEF GetChar, Cut
  <2>2. \A x : [Cut(ls, l) EXCEPT !.line = x] = Cut(ls, x)
    BY DEF Cut
  <2> QED
    BY <2>1, <2>2
<1> QED
  BY <1>1, <1>2, <1>3

LEMMA GotAppend ==
  ASSUME NEW B, Signs(B), NEW s \in Seq(B)
  PROVE  /\ Gotten(<<>>) = Cut(<<>>, <<>>)
         /\ \A c \in B : Gotten(Append(s, c)) = GetChar(Gotten(s), c)
<1>1. GettingStays(Cuts(B), B)
  <2> SUFFICES ASSUME NEW x \in Cuts(B), NEW c \in B
               PROVE  GetChar(x, c) \in Cuts(B)
    BY DEF GettingStays
  <2>1. PICK ls \in Seq(Seq(B)), l \in Seq(B) : x = Cut(ls, l)
    <3>1. x.lines \in Seq(Seq(B)) /\ x.line \in Seq(B) /\ x = Cut(x.lines, x.line)
      BY DEF Cuts, Cut
    <3> QED
      BY <3>1
  <2>2. Append(ls, l) \in Seq(Seq(B)) /\ Append(l, c) \in Seq(B) /\ <<>> \in Seq(B)
    BY AppendProperties, EmptySeq
  <2>3. Cut(Append(ls, l), <<>>) \in Cuts(B) /\ Cut(ls, Append(l, c)) \in Cuts(B)
    BY <2>2 DEF Cut, Cuts
  <2> QED
    BY <2>1, <2>3, StepsOfGet
<1>2. Cut(<<>>, <<>>) \in Cuts(B)
  BY EmptySeq DEF Cut, Cuts
<1>3. /\ Getting(Cut(<<>>, <<>>), <<>>) = Cut(<<>>, <<>>)
      /\ \A c \in B : Getting(Cut(<<>>, <<>>), Append(s, c)) = GetChar(Getting(Cut(<<>>, <<>>), s), c)
  BY <1>1, <1>2, GettingAppend
<1> QED
  BY <1>3 DEF Gotten

LEMMA GotUnfed ==
  ASSUME NEW B, Signs(B), NEW s \in Seq(B), NEW ls \in Seq(Seq(B)), NEW l \in Seq(B),
         Gotten(s) = Cut(ls, l)
  PROVE  \A p \in Seq(B) : Unfed(p) => Gotten(s \o p) = Cut(ls, l \o p)
<1> DEFINE G == {p \in Seq(B) : Unfed(p) => Gotten(s \o p) = Cut(ls, l \o p)}
<1>1. <<>> \in G
  BY EmptySeq, ConcatEmptySeq
<1>2. ASSUME NEW p \in G, NEW c \in B PROVE Append(p, c) \in G
  <2>0. p \in Seq(B) /\ Append(p, c) \in Seq(B)
    BY AppendProperties
  <2> SUFFICES ASSUME Unfed(Append(p, c))
               PROVE  Gotten(s \o Append(p, c)) = Cut(ls, l \o Append(p, c))
    BY <2>0
  <2>1. Unfed(p) /\ c # LineFeed
    BY <2>0, UnfedAppend
  <2>2. Gotten(s \o p) = Cut(ls, l \o p)
    BY <2>1
  <2>3. s \o p \in Seq(B) /\ l \o p \in Seq(B)
    BY <2>0, ConcatProperties
  <2>4. Gotten(Append(s \o p, c)) = GetChar(Cut(ls, l \o p), c)
    BY <2>2, <2>3, GotAppend
  <2>5. GetChar(Cut(ls, l \o p), c) = Cut(ls, Append(l \o p, c))
    BY <2>1, <2>3, StepsOfGet
  <2>6. s \o Append(p, c) = Append(s \o p, c) /\ l \o Append(p, c) = Append(l \o p, c)
    BY <2>0, ConcatOfAppend
  <2> QED
    BY <2>4, <2>5, <2>6
<1> HIDE DEF G
<1>3. G = Seq(B)
  <2>1. G \in SUBSET Seq(B)
    BY DEF G
  <2> QED
    BY <1>1, <1>2, <2>1, SequencesGrow
<1> QED
  BY <1>3 DEF G

(* A line that is ended is one more line. *)
LEMMA GotLine ==
  ASSUME NEW B, Signs(B), NEW s \in Seq(B), NEW ls \in Seq(Seq(B)), NEW p \in Seq(B), Unfed(p),
         Gotten(s) = Cut(ls, <<>>)
  PROVE  Gotten(s \o (p \o <<LineFeed>>)) = Cut(Append(ls, p), <<>>)
<1>1. LineFeed \in B /\ <<LineFeed>> \in Seq(B) /\ <<>> \in Seq(B) /\ s \o p \in Seq(B)
  BY EmptySeq, ConcatProperties DEF Signs
<1>2. Gotten(s \o p) = Cut(ls, p)
  <2>1. \A l \in Seq(B) : Gotten(s) = Cut(ls, l) => Gotten(s \o p) = Cut(ls, l \o p)
    BY GotUnfed
  <2>2. <<>> \o p = p
    BY ConcatEmptySeq
  <2> QED
    BY <1>1, <2>1, <2>2
<1>3. s \o (p \o <<LineFeed>>) = Append(s \o p, LineFeed)
  <2>1. p \o <<LineFeed>> = Append(p, LineFeed)
    BY <1>1, AppendIsConcat
  <2> QED
    BY <1>1, <2>1, ConcatOfAppend
<1>4. Gotten(Append(s \o p, LineFeed)) = GetChar(Cut(ls, p), LineFeed)
  BY <1>1, <1>2, GotAppend
<1>5. GetChar(Cut(ls, p), LineFeed) = Cut(Append(ls, p), <<>>)
  BY <1>1, StepsOfGet
<1> QED
  BY <1>3, <1>4, <1>5

(* Entries: the name of a copy and a path. *)
Pairs(B) == Seq(B) \X Seq(B)

LEMMA PairsAre ==
  ASSUME NEW B, NEW e \in Pairs(B)
  PROVE  \E a \in Seq(B), b \in Seq(B) : e = <<a, b>> /\ e[1] = a /\ e[2] = b
BY DEF Pairs

LEMMA WrittenAppend ==
  ASSUME NEW B, Signs(B), NEW es \in Seq(Pairs(B))
  PROVE  /\ Text(es) \in Seq(B)
         /\ Text(<<>>) = <<>>
         /\ \A e \in Pairs(B) : Text(Append(es, e)) = Text(es) \o (ConvertToCSV(e) \o <<LineFeed>>)
<1>1. WritingStays(Seq(B), Pairs(B))
  <2> SUFFICES ASSUME NEW x \in Seq(B), NEW e \in Pairs(B)
               PROVE  AddLine(x, e) \in Seq(B)
    BY DEF WritingStays
  <2>1. PICK a \in Seq(B), b \in Seq(B) : e = <<a, b>>
    BY PairsAre
  <2>2. ConvertToCSV(e) \in Seq(B) /\ <<LineFeed>> \in Seq(B)
    BY <2>1, LineParsed DEF Signs
  <2>3. ConvertToCSV(e) \o <<LineFeed>> \in Seq(B)
    BY <2>2, ConcatProperties
  <2> QED
    BY <2>3, ConcatProperties DEF AddLine
<1>2. \A q : Text(q) = Writing(<<>>, q)
  BY Zenon DEF Text, Writing
<1>3. /\ Writing(<<>>, es) \in Seq(B)
      /\ Writing(<<>>, <<>>) = <<>>
      /\ \A e \in Pairs(B) : Writing(<<>>, Append(es, e)) = AddLine(Writing(<<>>, es), e)
  <2> DEFINE S == Seq(B)
  <2>1. WritingStays(S, Pairs(B)) /\ <<>> \in S
    BY <1>1, EmptySeq
  <2> HIDE DEF S
  <2>2. /\ Writing(<<>>, es) \in S
        /\ Writing(<<>>, <<>>) = <<>>
        /\ \A e \in Pairs(B) : Writing(<<>>, Append(es, e)) = AddLine(Writing(<<>>, es), e)
    BY <2>1, WritingAppend
  <2> QED
    BY <2>2 DEF S
<1> QED
  BY <1>2, <1>3 DEF AddLine

(* The lines of entries, and what they are read back as: any line adds an entry or none. *)
LineOf(e) == ConvertToCSV(e)

LEMMA LineAdds ==
  ASSUME NEW B, Signs(B), NEW e \in Pairs(B), NEW es
  PROVE  /\ LineOf(e) \in Seq(B)
         /\ AsRead(e) \in Pairs(B)
         /\ AddEntry(es, LineOf(e)) = Append(es, AsRead(e))
<1>1. PICK a \in Seq(B), b \in Seq(B) : e = <<a, b>> /\ e[1] = a /\ e[2] = b
  BY PairsAre
<1>2. LineOf(e) \in Seq(B) /\ CSVParse(LineOf(e)) = AsRead(e)
  BY <1>1, LineParsed DEF LineOf
<1>3. <<Quote>> \o b \in Seq(B)
  BY ConcatProperties DEF Signs
<1>4. PICK x \in Seq(B), y \in Seq(B) : AsRead(e) = <<x, y>>
  BY <1>1, <1>3 DEF AsRead
<1>5. AddEntry(es, LineOf(e)) = Append(es, <<x, y>>)
  <2>1. Len(<<x, y>>) = 2 /\ <<x, y>>[1] = x /\ <<x, y>>[2] = y
    OBVIOUS
  <2>2. CSVParse(LineOf(e)) = <<x, y>>
    BY <1>2, <1>4
  <2>3. 2 >= 2
    OBVIOUS
  <2> QED
    BY <2>1, <2>2, <2>3 DEF AddEntry
<1> QED
  BY <1>2, <1>4, <1>5 DEF Pairs

UnfedAll(es) == \A k \in DOMAIN es : Unfed(es[k][1]) /\ Unfed(es[k][2])

AllAsRead(es) == [k \in DOMAIN es |-> AsRead(es[k])]

LEMMA UnfedAllAppend ==
  ASSUME NEW B, NEW es \in Seq(Pairs(B)), NEW e \in Pairs(B), UnfedAll(Append(es, e))
  PROVE  UnfedAll(es) /\ Unfed(e[1]) /\ Unfed(e[2])
<1>1. /\ Len(es) \in Nat /\ DOMAIN es = 1..Len(es)
      /\ Append(es, e) \in Seq(Pairs(B))
      /\ Len(Append(es, e)) = Len(es) + 1
      /\ \A i \in 1..Len(es) : Append(es, e)[i] = es[i]
      /\ Append(es, e)[Len(es) + 1] = e
  BY LenProperties, AppendProperties
<1>2. DOMAIN Append(es, e) = 1..(Len(es) + 1)
  BY <1>1, LenProperties
<1>3. Len(es) + 1 \in 1..(Len(es) + 1) /\ \A i \in 1..Len(es) : i \in 1..(Len(es) + 1)
  BY <1>1
<1> QED
  BY <1>1, <1>2, <1>3 DEF UnfedAll

LEMMA AllAsReadAppend ==
  ASSUME NEW B, Signs(B), NEW es \in Seq(Pairs(B)), NEW e \in Pairs(B)
  PROVE  /\ AllAsRead(es) \in Seq(Pairs(B))
         /\ AllAsRead(Append(es, e)) = Append(AllAsRead(es), AsRead(e))
<1>1. /\ Len(es) \in Nat /\ DOMAIN es = 1..Len(es)
      /\ Append(es, e) \in Seq(Pairs(B))
      /\ Len(Append(es, e)) = Len(es) + 1
      /\ \A i \in 1..Len(es) : Append(es, e)[i] = es[i] /\ es[i] \in Pairs(B)
      /\ Append(es, e)[Len(es) + 1] = e
  BY LenProperties, AppendProperties, ElementOfSeq
<1>2. DOMAIN Append(es, e) = 1..(Len(es) + 1)
  BY <1>1, LenProperties
<1>3. \A x \in Pairs(B) : AsRead(x) \in Pairs(B)
  BY LineAdds
<1>4. AllAsRead(es) \in Seq(Pairs(B)) /\ Len(AllAsRead(es)) = Len(es)
  <2> DEFINE all == [k \in 1..Len(es) |-> AsRead(es[k])]
  <2>1. AllAsRead(es) = all
    BY <1>1 DEF AllAsRead
  <2>2. all \in [1..Len(es) -> Pairs(B)]
    BY <1>1, <1>3
  <2>3. all \in Seq(Pairs(B))
    BY <1>1, <2>2
  <2>4. DOMAIN all = 1..Len(es)
    OBVIOUS
  <2> HIDE DEF all
  <2>5. Len(all) = Len(es)
    BY <1>1, <2>3, <2>4, LenProperties
  <2> QED
    BY <2>1, <2>3, <2>5
<1>5. AllAsRead(Append(es, e)) \in Seq(Pairs(B)) /\ Len(AllAsRead(Append(es, e))) = Len(es) + 1
  <2> DEFINE all == [k \in 1..(Len(es) + 1) |-> AsRead(Append(es, e)[k])]
  <2>1. AllAsRead(Append(es, e)) = all
    BY <1>2 DEF AllAsRead
  <2>2. \A k \in 1..(Len(es) + 1) : Append(es, e)[k] \in Pairs(B)
    BY <1>1, ElementOfSeq
  <2>3. all \in [1..(Len(es) + 1) -> Pairs(B)]
    BY <1>3, <2>2
  <2>4. all \in Seq(Pairs(B))
    BY <1>1, <2>3
  <2>5. DOMAIN all = 1..(Len(es) + 1)
    OBVIOUS
  <2> HIDE DEF all
  <2>6. Len(all) = Len(es) + 1
    BY <1>1, <2>4, <2>5, LenProperties
  <2> QED
    BY <2>1, <2>4, <2>6
<1>6. AsRead(e) \in Pairs(B)
  BY <1>3
<1>7. /\ Append(AllAsRead(es), AsRead(e)) \in Seq(Pairs(B))
      /\ Len(Append(AllAsRead(es), AsRead(e))) = Len(es) + 1
      /\ \A i \in 1..Len(es) : Append(AllAsRead(es), AsRead(e))[i] = AllAsRead(es)[i]
      /\ Append(AllAsRead(es), AsRead(e))[Len(es) + 1] = AsRead(e)
  BY <1>4, <1>6, AppendProperties
<1>8. ASSUME NEW i \in 1..(Len(es) + 1)
      PROVE  AllAsRead(Append(es, e))[i] = Append(AllAsRead(es), AsRead(e))[i]
  <2>1. AllAsRead(Append(es, e))[i] = AsRead(Append(es, e)[i])
    BY <1>2 DEF AllAsRead
  <2>2. i \in 1..Len(es) => AllAsRead(es)[i] = AsRead(es[i])
    BY <1>1 DEF AllAsRead
  <2>3. i \in 1..Len(es) \/ i = Len(es) + 1
    BY <1>1
  <2> QED
    BY <1>1, <1>7, <2>1, <2>2, <2>3
<1> QED
  BY <1>4, <1>5, <1>7, <1>8, SeqEqual

(* The lines of a file written by the code are the lines of its entries, and these are read
   back one by one. *)
LEMMA FileReadBack ==
  ASSUME NEW B, Signs(B)
  PROVE  \A es \in Seq(Pairs(B)) :
           UnfedAll(es) => \E ls \in Seq({LineOf(e) : e \in Pairs(B)}) :
                             Gotten(Text(es)) = Cut(ls, <<>>) /\ Entering(<<>>, ls) = AllAsRead(es)
<1> DEFINE Lines == {LineOf(e) : e \in Pairs(B)}
           Good(es) == \E ls \in Seq(Lines) :
                         Gotten(Text(es)) = Cut(ls, <<>>) /\ Entering(<<>>, ls) = AllAsRead(es)
           G == {es \in Seq(Pairs(B)) : UnfedAll(es) => Good(es)}
<1>0. Lines \subseteq Seq(B)
  BY LineAdds
<1>1. EnteringStays(Seq(Pairs(B)), Lines) /\ <<>> \in Seq(Pairs(B))
  <2> SUFFICES ASSUME NEW es \in Seq(Pairs(B)), NEW l \in Lines
               PROVE  AddEntry(es, l) \in Seq(Pairs(B))
    BY EmptySeq DEF EnteringStays
  <2>1. PICK e \in Pairs(B) : l = LineOf(e)
    OBVIOUS
  <2>2. AddEntry(es, l) = Append(es, AsRead(e)) /\ AsRead(e) \in Pairs(B)
    BY <2>1, LineAdds
  <2> QED
    BY <2>2, AppendProperties
<1>2. ASSUME NEW ls \in Seq(Lines)
      PROVE  /\ Entering(<<>>, <<>>) = <<>>
             /\ \A l \in Lines : Entering(<<>>, Append(ls, l)) = AddEntry(Entering(<<>>, ls), l)
  <2> DEFINE S == Seq(Pairs(B))
  <2>1. EnteringStays(S, Lines) /\ <<>> \in S
    BY <1>1
  <2> HIDE DEF S, Lines
  <2> QED
    BY <1>2, <2>1, EnteringAppend
<1>3. <<>> \in G
  <2>1. <<>> \in Seq(Lines) /\ <<>> \in Seq(Pairs(B)) /\ <<>> \in Seq(B)
    BY EmptySeq
  <2>2. Gotten(Text(<<>>)) = Cut(<<>>, <<>>)
    BY <2>1, WrittenAppend, GotAppend
  <2>3. AllAsRead(<<>>) = <<>>
    BY DEF AllAsRead
  <2>4. Entering(<<>>, <<>>) = <<>>
    <3> HIDE DEF Lines
    <3> QED
      BY <1>2, <2>1
  <2>5. Good(<<>>)
    <3> HIDE DEF Lines
    <3> QED
      BY <2>1, <2>2, <2>3, <2>4
  <2> HIDE DEF Good
  <2> QED
    BY <2>1, <2>5
<1>4. ASSUME NEW es \in G, NEW e \in Pairs(B) PROVE Append(es, e) \in G
  <2>0. es \in Seq(Pairs(B)) /\ Append(es, e) \in Seq(Pairs(B)) /\ (UnfedAll(es) => Good(es))
    <3> HIDE DEF Good
    <3> QED
      BY AppendProperties
  <2> HIDE DEF G
  <2> SUFFICES ASSUME UnfedAll(Append(es, e))
               PROVE  Good(Append(es, e))
    <3> HIDE DEF Good
    <3> QED
      BY <2>0 DEF G
  <2>1. UnfedAll(es) /\ Unfed(e[1]) /\ Unfed(e[2])
    BY <2>0, UnfedAllAppend
  <2>2. PICK ls \in Seq(Lines) : Gotten(Text(es)) = Cut(ls, <<>>) /\ Entering(<<>>, ls) = AllAsRead(es)
    <3> HIDE DEF Lines
    <3> QED
      BY <2>0, <2>1
  <2>3. LineOf(e) \in Lines /\ LineOf(e) \in Seq(B)
    BY LineAdds
  <2>4. Unfed(LineOf(e))
    <3>1. PICK a \in Seq(B), b \in Seq(B) : e = <<a, b>> /\ e[1] = a /\ e[2] = b
      BY PairsAre
    <3> QED
      BY <2>1, <3>1, UnfedLine DEF LineOf
  <2>5. ls \in Seq(Seq(B))
    <3> HIDE DEF Lines
    <3> QED
      BY <1>0, <2>2, SeqMonotonic
  <2>6. Gotten(Text(Append(es, e))) = Cut(Append(ls, LineOf(e)), <<>>)
    <3>1. Text(es) \in Seq(B) /\ Text(Append(es, e)) = Text(es) \o (LineOf(e) \o <<LineFeed>>)
      BY <2>0, WrittenAppend DEF LineOf
    <3> HIDE DEF Lines
    <3> QED
      BY <2>2, <2>3, <2>4, <2>5, <3>1, GotLine
  <2>7. Append(ls, LineOf(e)) \in Seq(Lines)
    <3> HIDE DEF Lines
    <3> QED
      BY <2>3, AppendProperties
  <2>8. Entering(<<>>, Append(ls, LineOf(e))) = AddEntry(AllAsRead(es), LineOf(e))
    <3> HIDE DEF Lines
    <3> QED
      BY <1>2, <2>2, <2>3
  <2>9. AddEntry(AllAsRead(es), LineOf(e)) = AllAsRead(Append(es, e))
    <3>1. AddEntry(AllAsRead(es), LineOf(e)) = Append(AllAsRead(es), AsRead(e))
      BY LineAdds
    <3>2. AllAsRead(Append(es, e)) = Append(AllAsRead(es), AsRead(e))
      BY <2>0, AllAsReadAppend
    <3> QED
      BY <3>1, <3>2
  <2> HIDE DEF Lines
  <2> QED
    BY <2>6, <2>7, <2>8, <2>9
<1> HIDE DEF G
<1>5. G = Seq(Pairs(B))
  <2>1. G \in SUBSET Seq(Pairs(B))
    BY DEF G
  <2> QED
    BY <1>3, <1>4, <2>1, SequencesGrow
<1> QED
  <2> HIDE DEF Good
  <2>1. \A es \in Seq(Pairs(B)) : UnfedAll(es) => Good(es)
    BY <1>5 DEF G
  <2> QED
    BY <2>1 DEF Good

(* What is written is read back. *)
LEMMA EntriesComeBack ==
  ASSUME NEW B, Signs(B), NEW es \in Seq(Pairs(B))
  PROVE  ReadsBack(es, Entries(Text(es)))
<1> SUFFICES ASSUME UnfedAll(es)
             PROVE  Entries(Text(es)) = AllAsRead(es)
  BY DEF ReadsBack, UnfedAll, Unfed, AllAsRead
<1>1. PICK ls \in Seq({LineOf(e) : e \in Pairs(B)}) :
        Gotten(Text(es)) = Cut(ls, <<>>) /\ Entering(<<>>, ls) = AllAsRead(es)
  BY FileReadBack
<1>2. \A t : GetLines(t) = IF Gotten(t).line = <<>> THEN Gotten(t).lines ELSE Append(Gotten(t).lines, Gotten(t).line)
  BY Zenon DEF GetLines, Gotten, Getting, Cut
<1>3. Cut(ls, <<>>).line = <<>> /\ Cut(ls, <<>>).lines = ls
  BY DEF Cut
<1>4. GetLines(Text(es)) = ls
  BY <1>1, <1>2, <1>3
<1>5. \A t : Entries(t) = Entering(<<>>, GetLines(t))
  BY Zenon DEF Entries, Entering
<1> QED
  BY <1>1, <1>4, <1>5

------------------------------------------------------------------------------
(* A file of entries in characters of Chars is written and read back. *)
EntryInit(Chars) ==
  /\ job = "entry" /\ answer = <<>>
  /\ question \in [entries : Seq(Pairs(Chars))]

EntryNext == (WriteEntry \/ ReadEntries) /\ UNCHANGED <<job, question>>

EntrySpec(Chars) == EntryInit(Chars) /\ [][EntryNext]_<<job, question, answer>>

(* What is in the answer is the text of the entries, or what is read from that. *)
EntryInv(Chars) ==
  /\ question \in [entries : Seq(Pairs(Chars))]
  /\ \/ answer = <<>>
     \/ answer = <<"written", Text(question.entries)>>
     \/ answer = <<"read", Entries(Text(question.entries))>>

LEMMA EntryStep ==
  ASSUME NEW Chars, EntryInv(Chars), [EntryNext]_<<job, question, answer>>
  PROVE  EntryInv(Chars)'
<1>1. CASE UNCHANGED <<job, question, answer>>
  BY <1>1 DEF EntryInv
<1>2. ASSUME WriteEntry, UNCHANGED <<job, question>> PROVE EntryInv(Chars)'
  BY <1>2 DEF EntryInv, WriteEntry, Answers
<1>3. ASSUME ReadEntries, UNCHANGED <<job, question>> PROVE EntryInv(Chars)'
  <2>1. answer # <<>> /\ answer[1] = "written" /\ answer' = <<"read", Entries(answer[2])>>
    BY <1>3 DEF ReadEntries, Answers
  <2>2. answer = <<"written", Text(question.entries)>>
    BY <2>1 DEF EntryInv
  <2> QED
    BY <1>3, <2>1, <2>2 DEF EntryInv
<1> QED
  BY <1>1, <1>2, <1>3 DEF EntryNext

(* EntryReadsBack, for files of any number of entries of any characters: they are read back
   as they were and in their order, but for the quote that an entry gets whose name and path
   both need quotes; as long as no name and no path has a line feed. *)
THEOREM EntriesReadBack ==
  ASSUME NEW Chars, Comma \in Chars, Quote \in Chars, LineFeed \in Chars
  PROVE  EntrySpec(Chars) => []EntryReadsBack
<1>1. EntryInit(Chars) => EntryInv(Chars)
  BY DEF EntryInit, EntryInv
<1>2. EntryInv(Chars) /\ [EntryNext]_<<job, question, answer>> => EntryInv(Chars)'
  BY EntryStep
<1>3. EntryInv(Chars) => EntryReadsBack
  <2> SUFFICES ASSUME EntryInv(Chars), answer # <<>>, answer[1] = "read"
               PROVE  ReadsBack(question.entries, answer[2])
    BY DEF EntryReadsBack
  <2>1. answer[2] = Entries(Text(question.entries))
    BY DEF EntryInv
  <2>2. question.entries \in Seq(Pairs(Chars)) /\ Signs(Chars)
    BY DEF EntryInv, Signs
  <2> QED
    BY <2>1, <2>2, EntriesComeBack
<1> QED
  BY <1>1, <1>2, <1>3, PTL DEF EntrySpec

------------------------------------------------------------------------------
(* CompressionControl: the lines are kept, and run on a path, one after the other. *)

Pushing(r, s) == FoldLeft(Push, r, s)

LEMMA PushingRuns ==
  ASSUME NEW S, NEW C, NEW F, Table(F, S, C), \A x \in S : \A c \in C : F[x][c] = Push(x, c),
         NEW r \in S, NEW s \in Seq(C)
  PROVE  \E f : f[0] = r /\ Runs(f, F, S, s) /\ Pushing(r, s) = f[Len(s)]
<1> DEFINE Step(g) == [T \in SUBSET (DOMAIN s) |->
                         IF T = {} THEN r ELSE Push(g[T \ {Max(T)}], s[Max(T)])]
           it == CHOOSE g : g = Step(g)
<1>0. Len(s) \in Nat /\ DOMAIN s = 1..Len(s)
  BY LenProperties
<1>1. PICK h \in [SUBSET (1..Len(s)) -> S] : Folds(h, F, r, s, Len(s))
  BY FoldsExist
<1>2. h = Step(h)
  <2>1. ASSUME NEW T \in SUBSET (1..Len(s))
        PROVE  h[T] = IF T = {} THEN r ELSE Push(h[T \ {Max(T)}], s[Max(T)])
    <3>1. T # {} => h[T] = F[h[T \ {Max(T)}]][s[Max(T)]]
      BY <1>1 DEF Folds
    <3>2. T # {} => h[T] = Push(h[T \ {Max(T)}], s[Max(T)])
      BY <1>1, <3>1, FoldsTyped
    <3>3. T = {} => h[T] = r
      BY <1>1 DEF Folds
    <3> QED
      BY <3>2, <3>3
  <2> QED
    BY <1>0, <2>1, Zenon
<1>3. it = Step(it)
  <2> HIDE DEF Step
  <2> QED
    BY <1>2, Zenon
<1>4. Pushing(r, s) = it[DOMAIN s]
  BY Zenon DEF Pushing, FoldLeft, MapThenFoldSet
<1>5. \A T \in SUBSET (1..Len(s)) :
        it[T] = IF T = {} THEN r ELSE Push(it[T \ {Max(T)}], s[Max(T)])
  <2> HIDE DEF it
  <2> QED
    BY <1>0, <1>3, Zenon
<1> HIDE DEF it, Step
<1>6. \A T \in SUBSET (1..Len(s)) : T # {} => s[Max(T)] \in C
  BY <1>1, FoldsTyped
<1>7. Climbs(it, F, S, r, s)
  BY <1>5, <1>6 DEF Climbs
<1> QED
  BY <1>0, <1>4, <1>7, ClimbsRuns

PushingStays(S, C) == \A x \in S : \A c \in C : Push(x, c) \in S

LEMMA PushingAppend ==
  ASSUME NEW S, NEW C, PushingStays(S, C), NEW r \in S, NEW s \in Seq(C)
  PROVE  /\ Pushing(r, s) \in S
         /\ Pushing(r, <<>>) = r
         /\ \A c \in C : Pushing(r, Append(s, c)) = Push(Pushing(r, s), c)
<1>1. PICK F : Table(F, S, C) /\ \A x \in S : \A c \in C : F[x][c] = Push(x, c)
  <2> DEFINE G == [x \in S |-> [c \in C |-> Push(x, c)]]
  <2>1. Table(G, S, C) /\ \A x \in S : \A c \in C : G[x][c] = Push(x, c)
    BY DEF Table, PushingStays
  <2> HIDE DEF G
  <2> QED
    BY <2>1
<1>2. PICK f : f[0] = r /\ Runs(f, F, S, s) /\ Pushing(r, s) = f[Len(s)]
  BY <1>1, PushingRuns
<1>3. Len(s) \in Nat /\ Len(s) \in 0..Len(s)
  BY LenProperties
<1>4. f[Len(s)] \in S
  BY <1>1, <1>2, <1>3, RunsTyped
<1>5. Pushing(r, <<>>) = r
  <2>1. PICK t \in Seq(C) : t = <<>>
    BY EmptySeq
  <2>2. Len(t) = 0
    BY <2>1
  <2>3. PICK g : g[0] = r /\ Runs(g, F, S, t) /\ Pushing(r, t) = g[Len(t)]
    BY <1>1, PushingRuns
  <2> QED
    BY <2>1, <2>2, <2>3
<1>6. ASSUME NEW c \in C
      PROVE  Pushing(r, Append(s, c)) = Push(Pushing(r, s), c)
  <2>1. PICK t \in Seq(C) : Extends(t, s, c)
    BY AppendProperties DEF Extends
  <2>2. PICK g : g[0] = r /\ Runs(g, F, S, t) /\ Pushing(r, t) = g[Len(t)]
    BY <1>1, PushingRuns
  <2>3. Leads(F, f[Len(s)], c, g[Len(t)])
    BY <1>1, <1>2, <2>1, <2>2, RunsAgree
  <2> QED
    BY <1>1, <1>2, <1>4, <2>1, <2>2, <2>3 DEF Extends, Leads
<1> QED
  BY <1>2, <1>4, <1>5, <1>6

Obeying(path, r, s) == FoldLeft(LAMBDA x, o : Obey(x, o, path), r, s)

TableObeys(F, S, C, path) == \A x \in S : \A c \in C : F[x][c] = Obey(x, c, path)

LEMMA ObeyingRuns ==
  ASSUME NEW path, NEW S, NEW C, NEW F, Table(F, S, C), TableObeys(F, S, C, path),
         NEW r \in S, NEW s \in Seq(C)
  PROVE  \E f : f[0] = r /\ Runs(f, F, S, s) /\ Obeying(path, r, s) = f[Len(s)]
<1> DEFINE Step(g) == [T \in SUBSET (DOMAIN s) |->
                         IF T = {} THEN r ELSE Obey(g[T \ {Max(T)}], s[Max(T)], path)]
           it == CHOOSE g : g = Step(g)
<1>0. Len(s) \in Nat /\ DOMAIN s = 1..Len(s)
  BY LenProperties
<1>1. PICK h \in [SUBSET (1..Len(s)) -> S] : Folds(h, F, r, s, Len(s))
  BY FoldsExist
<1>2. h = Step(h)
  <2>1. ASSUME NEW T \in SUBSET (1..Len(s))
        PROVE  h[T] = IF T = {} THEN r ELSE Obey(h[T \ {Max(T)}], s[Max(T)], path)
    <3>1. T # {} => h[T] = F[h[T \ {Max(T)}]][s[Max(T)]]
      BY <1>1 DEF Folds
    <3>2. T # {} => h[T] = Obey(h[T \ {Max(T)}], s[Max(T)], path)
      BY <1>1, <3>1, FoldsTyped DEF TableObeys
    <3>3. T = {} => h[T] = r
      BY <1>1 DEF Folds
    <3> QED
      BY <3>2, <3>3
  <2> QED
    BY <1>0, <2>1, Zenon
<1>3. it = Step(it)
  <2> HIDE DEF Step
  <2> QED
    BY <1>2, Zenon
<1>4. Obeying(path, r, s) = it[DOMAIN s]
  BY Zenon DEF Obeying, FoldLeft, MapThenFoldSet
<1>5. \A T \in SUBSET (1..Len(s)) :
        it[T] = IF T = {} THEN r ELSE Obey(it[T \ {Max(T)}], s[Max(T)], path)
  <2> HIDE DEF it
  <2> QED
    BY <1>0, <1>3, Zenon
<1> HIDE DEF it, Step
<1>6. \A T \in SUBSET (1..Len(s)) : T # {} => s[Max(T)] \in C
  BY <1>1, FoldsTyped
<1>7. Climbs(it, F, S, r, s)
  BY <1>5, <1>6 DEF Climbs, TableObeys
<1> QED
  BY <1>0, <1>4, <1>7, ClimbsRuns

ObeyingStays(S, C, path) == \A x \in S : \A c \in C : Obey(x, c, path) \in S

LEMMA ObeyingAppend ==
  ASSUME NEW path, NEW S, NEW C, ObeyingStays(S, C, path), NEW r \in S, NEW s \in Seq(C)
  PROVE  /\ Obeying(path, r, s) \in S
         /\ Obeying(path, r, <<>>) = r
         /\ \A c \in C : Obeying(path, r, Append(s, c)) = Obey(Obeying(path, r, s), c, path)
<1>1. PICK F : Table(F, S, C) /\ TableObeys(F, S, C, path)
  <2> DEFINE G == [x \in S |-> [c \in C |-> Obey(x, c, path)]]
  <2>1. Table(G, S, C) /\ TableObeys(G, S, C, path)
    BY DEF Table, ObeyingStays, TableObeys
  <2> HIDE DEF G
  <2> QED
    BY <2>1
<1>2. PICK f : f[0] = r /\ Runs(f, F, S, s) /\ Obeying(path, r, s) = f[Len(s)]
  BY <1>1, ObeyingRuns
<1>3. Len(s) \in Nat /\ Len(s) \in 0..Len(s)
  BY LenProperties
<1>4. f[Len(s)] \in S
  BY <1>1, <1>2, <1>3, RunsTyped
<1>5. Obeying(path, r, <<>>) = r
  <2>1. PICK t \in Seq(C) : t = <<>>
    BY EmptySeq
  <2>2. Len(t) = 0
    BY <2>1
  <2>3. PICK g : g[0] = r /\ Runs(g, F, S, t) /\ Obeying(path, r, t) = g[Len(t)]
    BY <1>1, ObeyingRuns
  <2> QED
    BY <2>1, <2>2, <2>3
<1>6. ASSUME NEW c \in C
      PROVE  Obeying(path, r, Append(s, c)) = Obey(Obeying(path, r, s), c, path)
  <2>1. PICK t \in Seq(C) : Extends(t, s, c)
    BY AppendProperties DEF Extends
  <2>2. PICK g : g[0] = r /\ Runs(g, F, S, t) /\ Obeying(path, r, t) = g[Len(t)]
    BY <1>1, ObeyingRuns
  <2>3. Leads(F, f[Len(s)], c, g[Len(t)])
    BY <1>1, <1>2, <2>1, <2>2, RunsAgree
  <2> QED
    BY <1>1, <1>2, <1>4, <2>1, <2>2, <2>3 DEF Extends, Leads, TableObeys
<1> QED
  BY <1>2, <1>4, <1>5, <1>6

------------------------------------------------------------------------------
(* What is known after orders: the flag, and the type if one is met. *)
Run(f, t) == [flag |-> f, type |-> t]

Outcomes(O) == [flag : BOOLEAN, type : {"none"} \cup {o.type : o \in O}]

Ran(path, os) == Obeying(path, Run(FALSE, "none"), os)

LEMMA RanAppend ==
  ASSUME NEW path, NEW O, NEW os \in Seq(O)
  PROVE  /\ Ran(path, os) \in Outcomes(O)
         /\ Ran(path, <<>>) = Run(FALSE, "none")
         /\ \A o \in O : Ran(path, Append(os, o)) = Obey(Ran(path, os), o, path)
<1>1. ObeyingStays(Outcomes(O), O, path)
  <2> SUFFICES ASSUME NEW x \in Outcomes(O), NEW o \in O
               PROVE  Obey(x, o, path) \in Outcomes(O)
    BY DEF ObeyingStays
  <2>1. FlagAfter(x.flag, o, path) \in BOOLEAN
    <3>1. x.flag \in BOOLEAN
      BY DEF Outcomes
    <3>2. CASE o.op = "0"
      BY <3>2 DEF FlagAfter
    <3>3. CASE o.op = "1"
      BY <3>3 DEF FlagAfter
    <3>4. CASE o.op = "*"
      BY <3>4 DEF FlagAfter
    <3>5. CASE o.op = "|"
      BY <3>5 DEF FlagAfter
    <3>6. CASE o.op \notin {"0", "1", "*", "|"}
      BY <3>1, <3>6 DEF FlagAfter
    <3> QED
      BY <3>2, <3>3, <3>4, <3>5, <3>6
  <2> QED
    BY <2>1 DEF Outcomes, Obey
<1> DEFINE S == Outcomes(O)
           r == Run(FALSE, "none")
<1>2. ObeyingStays(S, O, path) /\ r \in S
  BY <1>1 DEF Run, Outcomes
<1> HIDE DEF S, r
<1>3. /\ Obeying(path, r, os) \in S
      /\ Obeying(path, r, <<>>) = r
      /\ \A o \in O : Obeying(path, r, Append(os, o)) = Obey(Obeying(path, r, os), o, path)
  BY <1>2, ObeyingAppend
<1> QED
  BY <1>3 DEF Ran, S, r

(* The orders a daemon runs on the lines of a file, without those that end them. *)
Kept(s) == Pushing(<<SetTo("1")>>, s)

Orders(Lines) == Lines \cup {SetTo("1"), Do("U")}

LEMMA KeptAppend ==
  ASSUME NEW Lines, NEW s \in Seq(Lines)
  PROVE  /\ Kept(s) \in Seq(Orders(Lines))
         /\ Kept(<<>>) = <<SetTo("1")>>
         /\ \A c \in Lines : Kept(Append(s, c)) = Push(Kept(s), c)
<1> DEFINE S == Seq(Orders(Lines))
<1>1. PushingStays(S, Lines)
  <2> SUFFICES ASSUME NEW x \in S, NEW c \in Lines
               PROVE  Push(x, c) \in S
    BY DEF PushingStays
  <2>1. c \in Orders(Lines)
    BY DEF Orders
  <2> QED
    BY <2>1, AppendProperties DEF Push
<1>2. <<SetTo("1")>> \in S
  BY DEF Orders
<1> HIDE DEF S
<1>3. /\ Pushing(<<SetTo("1")>>, s) \in S
      /\ Pushing(<<SetTo("1")>>, <<>>) = <<SetTo("1")>>
      /\ \A c \in Lines : Pushing(<<SetTo("1")>>, Append(s, c)) = Push(Pushing(<<SetTo("1")>>, s), c)
  BY <1>1, <1>2, PushingAppend
<1> QED
  BY <1>3 DEF S, Kept

RanOn(path, s) == Ran(path, Kept(s))

LEMMA RanOnAppend ==
  ASSUME NEW path, NEW Lines, NEW s \in Seq(Lines)
  PROVE  /\ RanOn(path, s) \in Outcomes(Orders(Lines))
         /\ RanOn(path, <<>>) = Run(TRUE, "none")
         /\ \A c \in Lines :
              RanOn(path, Append(s, c)) = IF Sound(c) THEN Obey(RanOn(path, s), c, path) ELSE RanOn(path, s)
<1> DEFINE O == Orders(Lines)
<1>1. Kept(s) \in Seq(O) /\ \A c \in Lines : c \in O /\ Kept(Append(s, c)) = Push(Kept(s), c)
  BY KeptAppend DEF Orders
<1>2. RanOn(path, s) \in Outcomes(O) /\ \A o \in O : Ran(path, Append(Kept(s), o)) = Obey(RanOn(path, s), o, path)
  BY <1>1, RanAppend DEF RanOn
<1>3. RanOn(path, <<>>) = Run(TRUE, "none")
  <2>1. PICK e \in Seq(O) : e = <<>>
    BY EmptySeq
  <2>2. SetTo("1") \in O
    BY DEF Orders
  <2>3. Ran(path, Append(e, SetTo("1"))) = Obey(Ran(path, e), SetTo("1"), path)
    BY <2>2, RanAppend
  <2>4. Ran(path, e) = Run(FALSE, "none")
    BY <2>1, RanAppend
  <2>5. Append(e, SetTo("1")) = <<SetTo("1")>> /\ Kept(<<>>) = <<SetTo("1")>>
    <3>1. \A x : Append(<<>>, x) = <<x>>
      OBVIOUS
    <3>2. Kept(<<>>) = <<SetTo("1")>>
      BY KeptAppend
    <3> QED
      BY <2>1, <3>1, <3>2
  <2>6. Obey(Run(FALSE, "none"), SetTo("1"), path) = Run(TRUE, "none")
    BY DEF Obey, Run, SetTo, FlagAfter
  <2> QED
    BY <2>3, <2>4, <2>5, <2>6 DEF RanOn
<1>4. ASSUME NEW c \in Lines
      PROVE  RanOn(path, Append(s, c)) = IF Sound(c) THEN Obey(RanOn(path, s), c, path) ELSE RanOn(path, s)
  BY <1>1, <1>2 DEF RanOn, Push
<1> QED
  BY <1>2, <1>3, <1>4

(* The type is the one met, and none if no line has one: what comes after the lines says so. *)
LEMMA TypeAfter ==
  ASSUME NEW path, NEW Lines, NEW s \in Seq(Lines)
  PROVE  GetCompressionType(s, path) =
           IF RanOn(path, s).type # "none" THEN RanOn(path, s).type ELSE "U"
<1> DEFINE O == Orders(Lines)
           os == Append(Append(Kept(s), SetTo("1")), Do("U"))
<1>1. Kept(s) \in Seq(O) /\ SetTo("1") \in O /\ Do("U") \in O
  BY KeptAppend DEF Orders
<1>2. Append(Kept(s), SetTo("1")) \in Seq(O)
  BY <1>1, AppendProperties
<1>3. Ran(path, Append(Kept(s), SetTo("1"))) = Obey(RanOn(path, s), SetTo("1"), path)
  BY <1>1, RanAppend DEF RanOn
<1>4. Ran(path, os) = Obey(Obey(RanOn(path, s), SetTo("1"), path), Do("U"), path)
  <2>1. \A p \in Seq(O) : Ran(path, Append(p, Do("U"))) = Obey(Ran(path, p), Do("U"), path)
    BY <1>1, RanAppend
  <2> QED
    BY <1>2, <1>3, <2>1
<1>5. GetCompressionType(s, path) = Ran(path, os).type
  <2>1. CompressingOrders(s) = os
    BY Zenon DEF CompressingOrders, Kept, Pushing
  <2> QED
    BY <2>1, Zenon DEF GetCompressionType, Ran, Obeying, Run
<1>6. PICK r : r = RanOn(path, s) /\ r \in Outcomes(O)
  BY RanOnAppend
<1>7. CASE r.type # "none"
  BY <1>4, <1>5, <1>6, <1>7 DEF Obey
<1>8. CASE r.type = "none"
  <2>1. Obey(r, SetTo("1"), path) = Run(TRUE, "none")
    BY <1>8 DEF Obey, SetTo, FlagAfter, Run
  <2>2. Obey(Run(TRUE, "none"), Do("U"), path) = Run(TRUE, "U")
    BY DEF Obey, Do, Run
  <2>3. Run(TRUE, "U").type = "U"
    BY DEF Run
  <2> QED
    BY <1>4, <1>5, <1>6, <1>8, <2>1, <2>2, <2>3
<1> QED
  BY <1>6, <1>7, <1>8

(* A line changes the flag after it, and none before it. *)
LEMMA FlagAppend ==
  ASSUME NEW path, NEW Lines, NEW s \in Seq(Lines), NEW c \in Lines
  PROVE  /\ \A i \in 1..(Len(s) + 1) : FlagAt(Append(s, c), i, path) <=> FlagAt(s, i, path)
         /\ FlagAt(Append(s, c), Len(s) + 2, path) <=>
              Raises(c, path) \/ (FlagAt(s, Len(s) + 1, path) /\ ~Lowers(c, path))
<1> DEFINE t == Append(s, c)
           n == Len(s)
<1>1. n \in Nat /\ t[n + 1] = c /\ \A j \in 1..n : t[j] = s[j]
  BY AppendProperties
<1> HIDE DEF t, n
<1>2. \A i \in 1..(n + 1) : FlagAt(t, i, path) <=> FlagAt(s, i, path)
  <2> SUFFICES ASSUME NEW i \in 1..(n + 1)
               PROVE  FlagAt(t, i, path) <=> FlagAt(s, i, path)
    OBVIOUS
  <2>1. \A j \in 0..i - 1 : j # 0 => t[j] = s[j]
    BY <1>1
  <2>2. \A j \in 0..i - 1 : \A k \in j + 1..i - 1 : t[k] = s[k]
    BY <1>1
  <2> QED
    BY <2>1, <2>2 DEF FlagAt
<1>3. Raises(c, path) => FlagAt(t, n + 2, path)
  <2>1. n + 1 \in 0..(n + 2) - 1 /\ (n + 1) + 1..(n + 2) - 1 = {}
    BY <1>1
  <2> QED
    BY <1>1, <2>1 DEF FlagAt
<1>4. FlagAt(s, n + 1, path) /\ ~Lowers(c, path) => FlagAt(t, n + 2, path)
  <2> SUFFICES ASSUME FlagAt(s, n + 1, path), ~Lowers(c, path)
               PROVE  FlagAt(t, n + 2, path)
    OBVIOUS
  <2>1. PICK j \in 0..(n + 1) - 1 : /\ j = 0 \/ Raises(s[j], path)
                                   /\ \A k \in j + 1..(n + 1) - 1 : ~Lowers(s[k], path)
    BY DEF FlagAt
  <2>2. j \in 0..(n + 2) - 1 /\ (j = 0 \/ Raises(t[j], path))
    BY <1>1, <2>1
  <2>3. ASSUME NEW k \in j + 1..(n + 2) - 1 PROVE ~Lowers(t[k], path)
    <3>1. CASE k = n + 1
      BY <1>1, <3>1
    <3>2. CASE k # n + 1
      <4>1. k \in j + 1..(n + 1) - 1 /\ k \in 1..n
        BY <1>1, <2>1, <3>2
      <4> QED
        BY <1>1, <2>1, <4>1
    <3> QED
      BY <3>1, <3>2
  <2> QED
    BY <2>2, <2>3 DEF FlagAt
<1>5. FlagAt(t, n + 2, path) => Raises(c, path) \/ (FlagAt(s, n + 1, path) /\ ~Lowers(c, path))
  <2> SUFFICES ASSUME FlagAt(t, n + 2, path), ~Raises(c, path)
               PROVE  FlagAt(s, n + 1, path) /\ ~Lowers(c, path)
    OBVIOUS
  <2>1. PICK j \in 0..(n + 2) - 1 : /\ j = 0 \/ Raises(t[j], path)
                                   /\ \A k \in j + 1..(n + 2) - 1 : ~Lowers(t[k], path)
    BY DEF FlagAt
  <2>2. j # n + 1
    BY <1>1, <2>1
  <2>3. j \in 0..(n + 1) - 1 /\ n + 1 \in j + 1..(n + 2) - 1
    BY <1>1, <2>1, <2>2
  <2>4. ~Lowers(c, path)
    BY <1>1, <2>1, <2>3
  <2>5. j = 0 \/ Raises(s[j], path)
    BY <1>1, <2>1, <2>3
  <2>6. ASSUME NEW k \in j + 1..(n + 1) - 1 PROVE ~Lowers(s[k], path)
    <3>1. k \in j + 1..(n + 2) - 1 /\ k \in 1..n
      BY <1>1, <2>1
    <3> QED
      BY <1>1, <2>1, <3>1
  <2> QED
    BY <2>3, <2>4, <2>5, <2>6 DEF FlagAt
<1>6. FlagAt(t, n + 2, path) <=> Raises(c, path) \/ (FlagAt(s, n + 1, path) /\ ~Lowers(c, path))
  BY <1>3, <1>4, <1>5
<1> QED
  BY <1>2, <1>6 DEF t, n

(* The sound orders at which the flag is set, and what the run knows of them. *)
Met(path, s) == {i \in 1..Len(s) : s[i].op = "-" /\ Sound(s[i]) /\ FlagAt(s, i, path)}

FirstMet(path, s) ==
  /\ Met(path, s) = {} => RanOn(path, s) = Run(FlagAt(s, Len(s) + 1, path), "none")
  /\ Met(path, s) # {} => \E i \in Met(path, s) : /\ \A j \in Met(path, s) : i <= j
                                                  /\ RanOn(path, s).type = s[i].type

(* How one line changes the flag, as the code does it and as the rules mean it. *)
LEMMA LineObeyed ==
  ASSUME NEW path, NEW c, Sound(c), NEW f \in BOOLEAN, c.op # "-" \/ ~f
  PROVE  Obey(Run(f, "none"), c, path) = Run(Raises(c, path) \/ (f /\ ~Lowers(c, path)), "none")
<1>1. c.op \in {"0", "1", "*", "|", "-"} /\ (c.op \in {"0", "1"} => c.bare)
  BY DEF Sound
<1>2. Obey(Run(f, "none"), c, path) = Run(FlagAfter(f, c, path), "none")
  BY DEF Obey, Run
<1>3. FlagAfter(f, c, path) <=> Raises(c, path) \/ (f /\ ~Lowers(c, path))
  <2>1. CASE c.op = "0"
    BY <1>1, <2>1 DEF FlagAfter, Raises, Lowers
  <2>2. CASE c.op = "1"
    BY <1>1, <2>2 DEF FlagAfter, Raises, Lowers
  <2>3. CASE c.op = "*"
    BY <2>3 DEF FlagAfter, Raises, Lowers
  <2>4. CASE c.op = "|"
    BY <2>4 DEF FlagAfter, Raises, Lowers
  <2>5. CASE c.op = "-"
    BY <2>5 DEF FlagAfter, Raises, Lowers
  <2> QED
    BY <1>1, <2>1, <2>2, <2>3, <2>4, <2>5
<1>4. FlagAfter(f, c, path) \in BOOLEAN
  BY <1>1 DEF FlagAfter
<1> QED
  BY <1>2, <1>3, <1>4

LEMMA FirstMetAppend ==
  ASSUME NEW path, NEW Lines, NEW s \in Seq(Lines), NEW c \in Lines, FirstMet(path, s)
  PROVE  FirstMet(path, Append(s, c))
<1> DEFINE t == Append(s, c)
           n == Len(s)
           set == FlagAt(s, n + 1, path)
           here == c.op = "-" /\ Sound(c) /\ set
<1>1. /\ n \in Nat /\ t \in Seq(Lines) /\ Len(t) = n + 1
      /\ t[n + 1] = c /\ \A j \in 1..n : t[j] = s[j]
  BY AppendProperties
<1>2. /\ \A i \in 1..(n + 1) : FlagAt(t, i, path) <=> FlagAt(s, i, path)
      /\ FlagAt(t, n + 2, path) <=> Raises(c, path) \/ (set /\ ~Lowers(c, path))
  BY FlagAppend
<1>3. /\ RanOn(path, s) \in Outcomes(Orders(Lines))
      /\ RanOn(path, t) = IF Sound(c) THEN Obey(RanOn(path, s), c, path) ELSE RanOn(path, s)
  BY RanOnAppend
<1>4. set \in BOOLEAN /\ FlagAt(t, n + 2, path) \in BOOLEAN
  BY DEF FlagAt
<1>5. Met(path, s) # {} => \E i \in Met(path, s) : /\ \A j \in Met(path, s) : i <= j
                                                   /\ RanOn(path, s).type = s[i].type
  BY DEF FirstMet
<1>6. Met(path, s) = {} => RanOn(path, s) = Run(set, "none")
  BY DEF FirstMet
<1> HIDE DEF t, n, set
<1>7. Met(path, t) = Met(path, s) \cup (IF here THEN {n + 1} ELSE {})
  <2>1. ASSUME NEW i \in 1..n PROVE i \in Met(path, t) <=> i \in Met(path, s)
    <3>1. i \in 1..(n + 1) /\ t[i] = s[i] /\ (FlagAt(t, i, path) <=> FlagAt(s, i, path))
      BY <1>1, <1>2
    <3> QED
      BY <1>1, <3>1 DEF Met, n
  <2>2. n + 1 \in Met(path, t) <=> here
    <3>1. n + 1 \in 1..(n + 1) /\ (FlagAt(t, n + 1, path) <=> set)
      BY <1>1, <1>2 DEF set
    <3> QED
      BY <1>1, <3>1 DEF Met
  <2>3. Met(path, s) \in SUBSET (1..n) /\ Met(path, t) \in SUBSET (1..(n + 1))
    BY <1>1 DEF Met, n
  <2>4. n + 1 \notin Met(path, s) /\ \A i \in 1..(n + 1) : i \in 1..n \/ i = n + 1
    BY <1>1, <2>3
  <2> QED
    BY <2>1, <2>2, <2>3, <2>4
<1> HIDE DEF here
<1>8. CASE Met(path, s) # {}
  <2>1. PICK i \in Met(path, s) : (\A j \in Met(path, s) : i <= j) /\ RanOn(path, s).type = s[i].type
    BY <1>5, <1>8
  <2>2. i \in 1..n /\ t[i] = s[i] /\ s[i].type # "none"
    <3>1. i \in 1..n /\ s[i].op = "-" /\ Sound(s[i])
      BY <2>1 DEF Met, n
    <3>2. s[i].type # "none"
      BY <3>1 DEF Sound
    <3> QED
      BY <1>1, <3>1, <3>2
  <2>3. i \in Met(path, t) /\ \A j \in Met(path, t) : i <= j
    BY <1>1, <1>7, <2>1, <2>2
  <2>4. RanOn(path, t) = RanOn(path, s)
    BY <1>3, <2>1, <2>2 DEF Obey
  <2> QED
    BY <2>1, <2>2, <2>3, <2>4 DEF FirstMet, t
<1>9. CASE Met(path, s) = {} /\ here
  <2>1. Met(path, t) = {n + 1}
    BY <1>7, <1>9
  <2>2. RanOn(path, t) = Obey(Run(set, "none"), c, path)
    BY <1>3, <1>6, <1>9 DEF here
  <2>3. RanOn(path, t).type = c.type
    <3>1. c.op = "-" /\ set
      BY <1>9 DEF here
    <3> QED
      BY <2>2, <3>1 DEF Obey, Run
  <2> QED
    BY <1>1, <2>1, <2>3 DEF FirstMet, t
<1>10. CASE Met(path, s) = {} /\ ~here
  <2>1. Met(path, t) = {} /\ RanOn(path, s) = Run(set, "none")
    BY <1>6, <1>7, <1>10
  <2>2. RanOn(path, t) = Run(FlagAt(t, n + 2, path), "none")
    <3>1. CASE Sound(c)
      <4>1. c.op # "-" \/ ~set
        BY <1>10, <3>1 DEF here
      <4>2. Obey(Run(set, "none"), c, path) = Run(Raises(c, path) \/ (set /\ ~Lowers(c, path)), "none")
        BY <1>4, <3>1, <4>1, LineObeyed
      <4> QED
        BY <1>2, <1>3, <1>4, <2>1, <3>1, <4>2
    <3>2. CASE ~Sound(c)
      <4>1. ~Raises(c, path) /\ ~Lowers(c, path)
        BY <3>2 DEF Raises, Lowers, Sound
      <4> QED
        BY <1>2, <1>3, <1>4, <2>1, <3>2, <4>1
    <3> QED
      BY <3>1, <3>2
  <2>3. Len(t) + 1 = n + 2
    BY <1>1
  <2> QED
    BY <2>1, <2>2, <2>3 DEF FirstMet, t
<1> QED
  BY <1>8, <1>9, <1>10

LEMMA FirstMetAlways ==
  ASSUME NEW path, NEW Lines, NEW s \in Seq(Lines)
  PROVE  FirstMet(path, s)
<1> DEFINE G == {q \in Seq(Lines) : FirstMet(path, q)}
<1>1. <<>> \in G
  <2>1. PICK e \in Seq(Lines) : e = <<>>
    BY EmptySeq
  <2>2. Len(e) = 0 /\ 1..0 = {}
    BY <2>1
  <2>3. FlagAt(e, 1, path)
    <3>1. 0 \in 0..1 - 1 /\ 0 + 1..1 - 1 = {}
      OBVIOUS
    <3> QED
      BY <3>1 DEF FlagAt
  <2> DEFINE f == FlagAt(e, 1, path)
  <2>4. f \in BOOLEAN /\ f
    BY <2>3 DEF FlagAt
  <2>5. RanOn(path, e) = Run(TRUE, "none")
    BY <2>1, RanOnAppend
  <2>6. Met(path, e) = {}
    BY <2>2 DEF Met
  <2>7. FirstMet(path, e)
    <3> HIDE DEF f
    <3>1. Len(e) + 1 = 1
      BY <2>2
    <3>2. RanOn(path, e) = Run(f, "none")
      BY <2>4, <2>5
    <3> QED
      BY <2>6, <3>1, <3>2 DEF FirstMet, f
  <2> QED
    BY <2>1, <2>7
<1>2. ASSUME NEW q \in G, NEW c \in Lines PROVE Append(q, c) \in G
  BY FirstMetAppend, AppendProperties
<1> HIDE DEF G
<1>3. G = Seq(Lines)
  <2>1. G \in SUBSET Seq(Lines)
    BY DEF G
  <2> QED
    BY <1>1, <1>2, <2>1, SequencesGrow
<1> QED
  BY <1>3 DEF G

LEMMA TypeIsFirstOrder ==
  ASSUME NEW path, NEW Lines, NEW s \in Seq(Lines)
  PROVE  GetCompressionType(s, path) = FirstOrder(s, path)
<1> DEFINE orders == {i \in DOMAIN s : s[i].op = "-" /\ Sound(s[i]) /\ FlagAt(s, i, path)}
           first == CHOOSE i \in orders : \A j \in orders : i <= j
<1>0. FirstOrder(s, path) = IF orders = {} THEN "U" ELSE s[first].type
  BY Zenon DEF FirstOrder
<1>1. orders = Met(path, s)
  BY LenProperties DEF Met
<1> HIDE DEF orders
<1>2. GetCompressionType(s, path) = IF RanOn(path, s).type # "none" THEN RanOn(path, s).type ELSE "U"
  BY TypeAfter
<1>3. FirstMet(path, s)
  BY FirstMetAlways
<1>4. CASE orders = {}
  <2>1. RanOn(path, s).type = "none"
    BY <1>1, <1>3, <1>4 DEF FirstMet, Run
  <2> QED
    BY <1>0, <1>2, <1>4, <2>1
<1>5. CASE orders # {}
  <2>1. PICK i \in orders : (\A j \in orders : i <= j) /\ RanOn(path, s).type = s[i].type
    BY <1>1, <1>3, <1>5 DEF FirstMet
  <2>2. first \in orders /\ \A j \in orders : first <= j
    BY <2>1
  <2>3. first = i
    BY <1>1, <2>1, <2>2 DEF Met
  <2>4. s[i].type # "none"
    BY <1>1, <2>1 DEF Met, Sound
  <2> HIDE DEF first
  <2> QED
    BY <1>0, <1>2, <1>5, <2>1, <2>3, <2>4
<1> QED
  BY <1>4, <1>5

------------------------------------------------------------------------------
(* The type of a path is asked for under a file of lines. *)
RuleInit(Lines, Paths) ==
  /\ job = "rules" /\ answer = <<>>
  /\ question \in [lines : Seq(Lines), path : Paths]

RuleNext == ChooseType /\ UNCHANGED <<job, question>>

RuleSpec(Lines, Paths) == RuleInit(Lines, Paths) /\ [][RuleNext]_<<job, question, answer>>

RuleInv(Lines, Paths) ==
  /\ question \in [lines : Seq(Lines), path : Paths]
  /\ answer = <<>> \/ answer = <<"type", GetCompressionType(question.lines, question.path)>>

(* RulesObeyed, for files of any number of lines of any kinds, sound or not, and any paths:
   the run of the orders gives the type of the first sound order at which the flag is set,
   where a line sets the flag, keeps it or lowers it for the lines up to the next that does. *)
THEOREM RulesAlwaysObeyed ==
  ASSUME NEW Lines, NEW Paths
  PROVE  RuleSpec(Lines, Paths) => []RulesObeyed
<1>1. RuleInit(Lines, Paths) => RuleInv(Lines, Paths)
  BY DEF RuleInit, RuleInv
<1>2. RuleInv(Lines, Paths) /\ [RuleNext]_<<job, question, answer>> => RuleInv(Lines, Paths)'
  BY DEF RuleInv, RuleNext, ChooseType, Answers
<1>3. RuleInv(Lines, Paths) => RulesObeyed
  <2> SUFFICES ASSUME RuleInv(Lines, Paths), answer # <<>>
               PROVE  answer[2] = FirstOrder(question.lines, question.path)
    BY DEF RulesObeyed
  <2>1. answer[2] = GetCompressionType(question.lines, question.path)
    BY DEF RuleInv
  <2>2. question.lines \in Seq(Lines)
    BY DEF RuleInv
  <2> QED
    BY <2>1, <2>2, TypeIsFirstOrder
<1> QED
  BY <1>1, <1>2, <1>3, PTL DEF RuleSpec

------------------------------------------------------------------------------
(* Sha2: how a message is chopped into blocks. *)

LEMMA FlattenCons ==
  ASSUME NEW B, NEW texts \in Seq(Seq(B)), texts # <<>>
  PROVE  FlattenSeq(texts) = Head(texts) \o FlattenSeq(Tail(texts))
<1> DEFINE n == Len(texts)
<1>1. n \in Nat /\ n # 0 /\ Head(texts) = texts[1] /\ texts[1] \in Seq(B)
  BY EmptySeq
<1>2. PICK others \in Seq(Seq(B)) : others = Tail(texts)
  <2>1. Tail(texts) \in Seq(Seq(B))
    BY HeadTailProperties
  <2> QED
    BY <2>1
<1>3. Len(others) = n - 1 /\ \A i \in 1..n - 1 : others[i] = texts[i + 1]
  BY <1>1, <1>2
<1>4. CASE n = 1
  <2>1. others = <<>>
    BY <1>3, <1>4, EmptySeq
  <2>2. texts[1] \o <<>> = texts[1]
    BY <1>1, ConcatEmptySeq
  <2> DEFINE f == [i \in 1..n |-> texts[1]]
  <2>3. Joins(f, texts, n)
    BY <1>4 DEF Joins
  <2> HIDE DEF f
  <2>4. FlattenSeq(texts) = f[n]
    BY <1>1, <2>3, FlattenIs
  <2>5. f[n] = texts[1]
    BY <1>1 DEF f
  <2> QED
    BY <1>1, <1>2, <2>1, <2>2, <2>4, <2>5, FlattenEmpty
<1>5. CASE n # 1
  <2>1. n - 1 \in 0..Len(others) /\ n - 1 \in 1..n - 1 /\ Len(others) # 0
    BY <1>1, <1>3, <1>5
  <2>2. PICK f \in [1..n - 1 -> Seq(B)] : Joins(f, others, n - 1)
    BY <2>1, JoinExists
  <2>3. FlattenSeq(others) = f[n - 1]
    BY <1>3, <2>1, <2>2, FlattenIs
  <2> DEFINE g == [i \in 1..n |-> IF i = 1 THEN texts[1] ELSE texts[1] \o f[i - 1]]
  <2>4. ASSUME NEW i \in 1..n, i # 1 PROVE g[i] = g[i - 1] \o texts[i]
    <3>1. i - 1 \in 1..n - 1 /\ i - 1 \in 1..n /\ (i - 1) + 1 = i
      BY <1>1, <2>4
    <3>2. g[i] = texts[1] \o f[i - 1] /\ others[i - 1] = texts[i]
      BY <1>3, <2>4, <3>1
    <3>3. CASE i = 2
      <4>1. i - 1 = 1 /\ 1 \in 1..n - 1 /\ 1 \in 1..n
        BY <3>1, <3>3
      <4>2. f[1] = others[1] /\ g[1] = texts[1]
        BY <2>2, <4>1 DEF Joins
      <4> HIDE DEF g
      <4> QED
        BY <3>2, <4>1, <4>2
    <3>4. CASE i # 2
      <4>1. i - 2 \in 1..n - 1 /\ i - 1 # 1 /\ (i - 1) - 1 = i - 2
        BY <2>4, <3>1, <3>4
      <4>2. f[i - 1] = f[i - 2] \o texts[i]
        BY <2>2, <3>1, <3>2, <4>1 DEF Joins
      <4>3. g[i - 1] = texts[1] \o f[i - 2]
        BY <3>1, <4>1
      <4>4. f[i - 2] \in Seq(B) /\ texts[i] \in Seq(B)
        <5>1. texts[i] \in Seq(B)
          OBVIOUS
        <5> QED
          BY <2>2, <4>1, <5>1
      <4>5. Assoc(texts[1], f[i - 2], texts[i])
        BY <1>1, <4>4, Associates
      <4> HIDE DEF g
      <4> QED
        BY <3>2, <4>2, <4>3, <4>5 DEF Assoc
    <3> QED
      BY <3>3, <3>4
  <2>5. g[1] = texts[1] /\ g[n] = texts[1] \o f[n - 1]
    <3>1. 1 \in 1..n /\ n \in 1..n /\ n # 1
      BY <1>1, <1>5
    <3> QED
      BY <3>1
  <2> HIDE DEF g
  <2>6. Joins(g, texts, n)
    BY <2>4, <2>5 DEF Joins
  <2>7. FlattenSeq(texts) = g[n]
    BY <1>1, <2>6, FlattenIs
  <2> QED
    BY <1>1, <1>2, <2>3, <2>5, <2>7
<1> QED
  BY <1>4, <1>5

LEMMA DivModIs ==
  ASSUME NEW B \in Nat \ {0}, NEW n \in Nat
  PROVE  n \div B \in Nat /\ n % B \in 0..B - 1 /\ n = B * (n \div B) + (n % B)
OBVIOUS

LEMMA DivModOnly ==
  ASSUME NEW B \in Nat \ {0}, NEW q \in Nat, NEW r \in 0..B - 1
  PROVE  (B * q + r) \div B = q /\ (B * q + r) % B = r
OBVIOUS

LEMMA MulMono ==
  ASSUME NEW B \in Nat \ {0}, NEW q \in Nat, NEW k \in Nat
  PROVE  B * k \in Nat /\ (k <= q => B * k <= B * q) /\ (k < q => B * k + B <= B * q)
OBVIOUS

(* The l elements of s after m are those of t after n. *)
Agree(D, s, t, m, n, l) == \A i \in 1..l : s[m + i] \in D /\ s[m + i] = t[n + i]

LEMMA SameSub ==
  ASSUME NEW D, NEW s, NEW t, NEW m \in Int, NEW n \in Int, NEW l \in Nat, Agree(D, s, t, m, n, l)
  PROVE  Part(s, m, l) = Part(t, n, l)
<1>0. \A i \in 1..l : s[m + i] \in D /\ s[m + i] = t[n + i]
  BY DEF Agree
<1>1. \A i \in m + 1..m + l : s[i] \in D
  <2> SUFFICES ASSUME NEW i \in m + 1..m + l PROVE s[i] \in D
    OBVIOUS
  <2>1. i - m \in 1..l /\ m + (i - m) = i
    OBVIOUS
  <2> QED
    BY <1>0, <2>1
<1>2. \A i \in n + 1..n + l : t[i] \in D
  <2> SUFFICES ASSUME NEW i \in n + 1..n + l PROVE t[i] \in D
    OBVIOUS
  <2>1. i - n \in 1..l /\ n + (i - n) = i
    OBVIOUS
  <2> QED
    BY <1>0, <2>1
<1> DEFINE a == SubSeq(s, m + 1, m + l)
           b == SubSeq(t, n + 1, n + l)
<1>3. a \in Seq(D) /\ Len(a) = l /\ \A i \in 1..l : a[i] = s[m + i]
  <2>1. /\ a \in Seq(D) /\ Len(a) = IF m + 1 <= m + l THEN m + l - (m + 1) + 1 ELSE 0
        /\ \A i \in 1..m + l - (m + 1) + 1 : a[i] = s[m + 1 + i - 1]
    BY <1>1, SubSeqProperties
  <2>2. m + l - (m + 1) + 1 = l /\ \A i \in 1..l : m + 1 + i - 1 = m + i
    OBVIOUS
  <2> HIDE DEF a
  <2> QED
    BY <2>1, <2>2
<1>4. b \in Seq(D) /\ Len(b) = l /\ \A i \in 1..l : b[i] = t[n + i]
  <2>1. /\ b \in Seq(D) /\ Len(b) = IF n + 1 <= n + l THEN n + l - (n + 1) + 1 ELSE 0
        /\ \A i \in 1..n + l - (n + 1) + 1 : b[i] = t[n + 1 + i - 1]
    BY <1>2, SubSeqProperties
  <2>2. n + l - (n + 1) + 1 = l /\ \A i \in 1..l : n + 1 + i - 1 = n + i
    OBVIOUS
  <2> HIDE DEF b
  <2> QED
    BY <2>1, <2>2
<1> HIDE DEF a, b
<1>5. a = b
  BY <1>0, <1>3, <1>4, SeqEqual
<1> QED
  BY <1>5 DEF a, b, Part

(* A text is chopped into whole blocks of B, and what remains. *)
Piece(B, s, k) == Part(s, B * (k - 1), B)

Chops(B, s) == [k \in 1..Len(s) \div B |-> Piece(B, s, k)]

Remains(B, s) == SubSeq(s, Len(s) - (Len(s) % B) + 1, Len(s))

LEMMA PieceType ==
  ASSUME NEW B \in Nat \ {0}, NEW D, NEW s \in Seq(D), NEW k \in 1..Len(s) \div B
  PROVE  /\ B * (k - 1) \in Nat /\ B * (k - 1) + B <= Len(s)
         /\ Piece(B, s, k) \in Seq(D) /\ Len(Piece(B, s, k)) = B
<1>1. Len(s) \in Nat /\ \A i \in 1..Len(s) : s[i] \in D
  OBVIOUS
<1>2. /\ Len(s) \div B \in Nat /\ Len(s) % B \in 0..B - 1
      /\ Len(s) = B * (Len(s) \div B) + (Len(s) % B)
  BY <1>1, DivModIs
<1> DEFINE q == Len(s) \div B
           m == B * (k - 1)
<1>3. k - 1 \in Nat /\ k - 1 < q
  BY <1>2
<1> HIDE DEF q
<1>4. m \in Nat /\ m + B <= B * q
  BY <1>2, <1>3, MulMono DEF q
<1>5. B * q <= Len(s)
  BY <1>1, <1>2 DEF q
<1> HIDE DEF m
<1>6. B * q \in Nat
  BY <1>2, MulMono DEF q
<1>7. m + B <= Len(s)
  BY <1>1, <1>4, <1>5, <1>6
<1>8. \A i \in m + 1..m + B : s[i] \in D
  BY <1>1, <1>4, <1>7
<1>9. SubSeq(s, m + 1, m + B) \in Seq(D) /\ Len(SubSeq(s, m + 1, m + B)) = B
  <2>1. /\ SubSeq(s, m + 1, m + B) \in Seq(D)
        /\ Len(SubSeq(s, m + 1, m + B)) = IF m + 1 <= m + B THEN m + B - (m + 1) + 1 ELSE 0
    BY <1>4, <1>8, SubSeqProperties
  <2>2. m + 1 <= m + B /\ m + B - (m + 1) + 1 = B
    BY <1>4
  <2> QED
    BY <2>1, <2>2
<1> QED
  BY <1>4, <1>7, <1>9 DEF Piece, Part, m

LEMMA ChopsType ==
  ASSUME NEW B \in Nat \ {0}, NEW D, NEW s \in Seq(D)
  PROVE  /\ Chops(B, s) \in Seq(Seq(D)) /\ Len(Chops(B, s)) = Len(s) \div B
         /\ \A k \in 1..Len(s) \div B : Chops(B, s)[k] = Piece(B, s, k)
         /\ Remains(B, s) \in Seq(D) /\ Len(Remains(B, s)) = Len(s) % B
         /\ \A i \in 1..Len(s) % B : Remains(B, s)[i] = s[B * (Len(s) \div B) + i]
<1>1. Len(s) \in Nat /\ \A i \in 1..Len(s) : s[i] \in D
  OBVIOUS
<1> DEFINE q == Len(s) \div B
           r == Len(s) % B
<1>2. q \in Nat /\ r \in 0..B - 1 /\ Len(s) = B * q + r
  BY <1>1, DivModIs
<1>3. \A k \in 1..q : Piece(B, s, k) \in Seq(D)
  BY PieceType
<1>4. B * q \in Nat
  BY <1>2, MulMono
<1> HIDE DEF q, r
<1>5. Chops(B, s) \in Seq(Seq(D)) /\ Len(Chops(B, s)) = q /\ \A k \in 1..q : Chops(B, s)[k] = Piece(B, s, k)
  BY <1>2, <1>3 DEF Chops, q
<1> DEFINE m == B * q
           c == SubSeq(s, m + 1, m + r)
<1>6. Remains(B, s) = c
  <2>1. Len(s) - r = m /\ Len(s) = m + r
    BY <1>2, <1>4
  <2> QED
    BY <2>1 DEF Remains, r
<1> HIDE DEF m
<1>7. m \in Nat /\ r \in Nat /\ Len(s) = m + r
  BY <1>2, <1>4 DEF m
<1>8. /\ c \in Seq(D) /\ Len(c) = r
      /\ \A i \in 1..r : c[i] = s[m + i]
  <2>1. \A i \in m + 1..m + r : s[i] \in D
    BY <1>1, <1>7
  <2>2. /\ c \in Seq(D) /\ Len(c) = IF m + 1 <= m + r THEN m + r - (m + 1) + 1 ELSE 0
        /\ \A i \in 1..m + r - (m + 1) + 1 : c[i] = s[m + 1 + i - 1]
    BY <1>7, <2>1, SubSeqProperties
  <2>3. m + r - (m + 1) + 1 = r /\ (m + 1 <= m + r <=> r # 0) /\ \A i \in 1..r : m + 1 + i - 1 = m + i
    BY <1>7
  <2> HIDE DEF c
  <2> QED
    BY <1>7, <2>2, <2>3
<1> QED
  BY <1>5, <1>6, <1>8 DEF q, r, m

(* What remains of one text goes before the next. *)
LEMMA ChopsConcat ==
  ASSUME NEW B \in Nat \ {0}, NEW D, NEW a \in Seq(D), NEW b \in Seq(D), NEW u \in Seq(D), NEW c \in Seq(D),
         IsJoin(u, a, b), IsJoin(c, Remains(B, a), b)
  PROVE  IsJoin(Chops(B, u), Chops(B, a), Chops(B, c)) /\ Remains(B, u) = Remains(B, c)
<1> DEFINE q == Len(a) \div B
           r == Len(a) % B
<1>1. u = a \o b
  BY DEF IsJoin
<1>2. c = Remains(B, a) \o b
  BY DEF IsJoin
<1>3. /\ Len(a) \in Nat /\ Len(b) \in Nat /\ Len(u) = Len(a) + Len(b)
      /\ \A i \in 1..Len(a) : u[i] = a[i] /\ a[i] \in D
      /\ \A i \in 1..Len(b) : u[Len(a) + i] = b[i]
  BY <1>1, ConcatIs DEF IsJoin
<1>4. q \in Nat /\ r \in 0..B - 1 /\ Len(a) = B * q + r /\ B * q \in Nat
  BY <1>3, DivModIs, MulMono
<1>5. /\ Chops(B, a) \in Seq(Seq(D)) /\ Len(Chops(B, a)) = q /\ \A k \in 1..q : Chops(B, a)[k] = Piece(B, a, k)
      /\ Remains(B, a) \in Seq(D) /\ Len(Remains(B, a)) = r
      /\ \A i \in 1..r : Remains(B, a)[i] = a[B * q + i]
  BY ChopsType
<1>6. /\ Len(c) = r + Len(b)
      /\ \A i \in 1..r : c[i] = a[B * q + i]
      /\ \A i \in 1..Len(b) : c[r + i] = b[i]
  <2>1. PICK x \in Seq(D) : x = Remains(B, a)
    BY <1>5
  <2>2. IsJoin(c, x, b)
    BY <1>2, <2>1 DEF IsJoin
  <2>3. /\ Len(c) = Len(x) + Len(b)
        /\ \A i \in 1..Len(x) : c[i] = x[i]
        /\ \A i \in 1..Len(b) : c[Len(x) + i] = b[i]
    BY <2>2, ConcatIs
  <2>4. Len(x) = r /\ \A i \in 1..r : x[i] = a[B * q + i]
    BY <1>5, <2>1
  <2> QED
    BY <2>3, <2>4
<1> HIDE DEF q, r
<1> DEFINE m == B * q
<1>7. m \in Nat /\ Len(a) = m + r /\ Len(u) = m + Len(c)
  BY <1>3, <1>4, <1>6
<1> HIDE DEF m
<1>8. ASSUME NEW i \in 1..Len(c) PROVE u[m + i] = c[i] /\ c[i] \in D
  <2>1. CASE i <= r
    <3>1. i \in 1..r /\ m + i \in 1..Len(a)
      BY <1>4, <1>7, <2>1
    <3> QED
      BY <1>3, <1>6, <3>1 DEF m
  <2>2. CASE i > r
    <3>1. i - r \in 1..Len(b) /\ r + (i - r) = i /\ Len(a) + (i - r) = m + i
      BY <1>3, <1>4, <1>6, <1>7, <2>2
    <3>2. u[Len(a) + (i - r)] = b[i - r] /\ c[r + (i - r)] = b[i - r]
      BY <1>3, <1>6, <3>1
    <3> QED
      BY <3>1, <3>2
  <2> QED
    BY <1>4, <2>1, <2>2
<1> DEFINE p == Len(c) \div B
           e == Len(c) % B
<1>9. p \in Nat /\ e \in 0..B - 1 /\ Len(c) = B * p + e /\ B * p \in Nat
  <2>1. Len(c) \in Nat
    OBVIOUS
  <2>2. p \in Nat /\ e \in 0..B - 1 /\ Len(c) = B * p + e
    BY <2>1, DivModIs
  <2> HIDE DEF p
  <2> QED
    BY <2>2, MulMono
<1> HIDE DEF p, e
<1>10. Len(u) \div B = q + p /\ Len(u) % B = e
  <2>1. Len(u) = B * (q + p) + e /\ q + p \in Nat
    BY <1>4, <1>7, <1>9 DEF m
  <2> QED
    BY <1>9, <2>1, DivModOnly
<1>11. /\ Chops(B, u) \in Seq(Seq(D)) /\ Len(Chops(B, u)) = q + p
       /\ \A k \in 1..q + p : Chops(B, u)[k] = Piece(B, u, k)
       /\ Chops(B, c) \in Seq(Seq(D)) /\ Len(Chops(B, c)) = p
       /\ \A k \in 1..p : Chops(B, c)[k] = Piece(B, c, k)
  <2>1. /\ Chops(B, u) \in Seq(Seq(D)) /\ Len(Chops(B, u)) = Len(u) \div B
        /\ \A k \in 1..Len(u) \div B : Chops(B, u)[k] = Piece(B, u, k)
    BY ChopsType
  <2>2. /\ Chops(B, c) \in Seq(Seq(D)) /\ Len(Chops(B, c)) = p
        /\ \A k \in 1..p : Chops(B, c)[k] = Piece(B, c, k)
    BY ChopsType DEF p
  <2> QED
    BY <1>10, <2>1, <2>2
<1>12. ASSUME NEW k \in 1..q PROVE Piece(B, u, k) = Piece(B, a, k)
  <2> DEFINE n == B * (k - 1)
  <2>1. n \in Nat /\ n + B <= Len(a)
    BY PieceType DEF q
  <2> HIDE DEF n
  <2>2. \A i \in 1..B : n + i \in 1..Len(a)
    BY <1>3, <2>1
  <2>3. \A i \in 1..B : u[n + i] \in D /\ u[n + i] = a[n + i]
    BY <1>3, <2>2
  <2>4. Agree(D, u, a, n, n, B)
    BY <2>3 DEF Agree
  <2>5. Part(u, n, B) = Part(a, n, B)
    BY <2>1, <2>4, SameSub
  <2> QED
    BY <2>5 DEF Piece, n
<1>13. ASSUME NEW k \in 1..p PROVE Piece(B, u, q + k) = Piece(B, c, k)
  <2> DEFINE n == B * (k - 1)
  <2>1. n \in Nat /\ n + B <= Len(c)
    BY PieceType DEF p
  <2>2. B * (q + k - 1) = m + n
    BY <1>4, <1>9 DEF m
  <2> HIDE DEF n
  <2>3. \A i \in 1..B : n + i \in 1..Len(c)
    BY <2>1
  <2>4. \A i \in 1..B : u[(m + n) + i] \in D /\ u[(m + n) + i] = c[n + i]
    <3> SUFFICES ASSUME NEW i \in 1..B
                 PROVE  u[(m + n) + i] \in D /\ u[(m + n) + i] = c[n + i]
      OBVIOUS
    <3>1. (m + n) + i = m + (n + i)
      BY <1>7, <2>1
    <3> QED
      BY <1>8, <2>3, <3>1
  <2> DEFINE v == m + n
  <2>5. v \in Int /\ n \in Int /\ B \in Nat
    BY <1>7, <2>1
  <2>6. Agree(D, u, c, v, n, B)
    BY <2>4 DEF Agree
  <2>7. B * (q + k - 1) = v
    BY <2>2
  <2> HIDE DEF v
  <2>8. Part(u, v, B) = Part(c, n, B)
    BY <2>5, <2>6, SameSub
  <2>9. Piece(B, u, q + k) = Part(u, v, B)
    BY <1>4, <1>9, <2>7 DEF Piece
  <2> QED
    BY <2>8, <2>9 DEF Piece, n
<1>14. Chops(B, u) = Chops(B, a) \o Chops(B, c)
  <2>1. PICK x \in Seq(Seq(D)) : x = Chops(B, a) \o Chops(B, c)
    BY <1>5, <1>11, ConcatProperties DEF q
  <2>2. PICK y \in Seq(Seq(D)) : y = Chops(B, a)
    BY <1>5
  <2>3. PICK z \in Seq(Seq(D)) : z = Chops(B, c)
    BY <1>11
  <2>4. IsJoin(x, y, z)
    BY <2>1, <2>2, <2>3 DEF IsJoin
  <2>5. /\ Len(x) = Len(y) + Len(z)
        /\ \A i \in 1..Len(y) : x[i] = y[i]
        /\ \A i \in 1..Len(z) : x[Len(y) + i] = z[i]
    <3> DEFINE S == Seq(D)
    <3>1. y \in Seq(S) /\ z \in Seq(S)
      OBVIOUS
    <3> HIDE DEF S
    <3> QED
      BY <2>4, <3>1, ConcatIs
  <2>6. /\ Len(y) = q /\ Len(z) = p
        /\ \A i \in 1..q : y[i] = Piece(B, a, i)
        /\ \A i \in 1..p : z[i] = Piece(B, c, i)
    BY <1>5, <1>11, <2>2, <2>3
  <2>7. /\ Len(x) = q + p
        /\ \A i \in 1..q : x[i] = Piece(B, a, i)
        /\ \A i \in 1..p : x[q + i] = Piece(B, c, i)
    BY <2>5, <2>6
  <2>8. ASSUME NEW i \in 1..q + p PROVE x[i] = Chops(B, u)[i]
    <3>1. CASE i <= q
      <4>1. i \in 1..q
        BY <1>4, <1>9, <3>1
      <4> QED
        BY <1>11, <1>12, <2>7, <4>1
    <3>2. CASE i > q
      <4>1. i - q \in 1..p /\ q + (i - q) = i
        BY <1>4, <1>9, <3>2
      <4>2. x[q + (i - q)] = Piece(B, c, i - q) /\ Piece(B, u, q + (i - q)) = Piece(B, c, i - q)
        BY <1>13, <2>7, <4>1
      <4> QED
        BY <1>11, <4>1, <4>2
    <3> QED
      BY <1>4, <3>1, <3>2
  <2>9. x = Chops(B, u)
    BY <1>11, <2>7, <2>8, SeqEqual
  <2> QED
    BY <2>1, <2>9
<1>15. Remains(B, u) = Remains(B, c)
  <2> DEFINE n == Len(c) - e
  <2>1. n \in Nat /\ Len(u) - e = m + n /\ Len(u) = (m + n) + e /\ Len(c) = n + e
    BY <1>7, <1>9
  <2> HIDE DEF n
  <2>2. \A i \in 1..e : u[(m + n) + i] \in D /\ u[(m + n) + i] = c[n + i]
    <3> SUFFICES ASSUME NEW i \in 1..e
                 PROVE  u[(m + n) + i] \in D /\ u[(m + n) + i] = c[n + i]
      OBVIOUS
    <3>1. (m + n) + i = m + (n + i) /\ n + i \in 1..Len(c)
      BY <1>7, <1>9, <2>1
    <3> QED
      BY <1>8, <3>1
  <2> DEFINE v == m + n
  <2>3. v \in Int /\ n \in Int /\ e \in Nat
    BY <1>7, <1>9, <2>1
  <2>4. Agree(D, u, c, v, n, e)
    BY <2>2 DEF Agree
  <2>5. Len(u) - e = v /\ Len(u) = v + e
    BY <2>1
  <2> HIDE DEF v
  <2>6. Part(u, v, e) = Part(c, n, e)
    BY <2>3, <2>4, SameSub
  <2>7. Remains(B, u) = Part(u, v, e)
    BY <1>10, <2>5 DEF Remains, Part
  <2>8. Remains(B, c) = Part(c, n, e)
    BY <2>1 DEF Remains, Part, e, n
  <2> QED
    BY <2>6, <2>7, <2>8
<1> QED
  BY <1>14, <1>15 DEF IsJoin

------------------------------------------------------------------------------
(* update and final keep what was given hashed or due, up to less than a block. *)

Octet == 0..255

DigestTypes ==
  /\ sha \in Digests!Kinds /\ pieces \in Seq(Seq(Octet)) /\ message \in Seq(Octet)
  /\ begun \in Seq(Octet) /\ tot_len \in Nat /\ final \in BOOLEAN
  /\ due \in Seq(Seq(Octet)) /\ hashed \in Seq(Seq(Octet))

(* What update was called with, given, is hashed or due in whole blocks, and what remains
   of it is kept. *)
HashedOrKept(given) ==
  /\ message = given \o FlattenSeq(pieces)
  /\ IsJoin(Chops(Digests!BlockSize, given), hashed, due) /\ begun = Remains(Digests!BlockSize, given)
  /\ tot_len + Len(begun) = Len(given)

DigestInv ==
  /\ DigestTypes
  /\ working # <<>> => due # <<>>
  /\ final => pieces = <<>>
  /\ ~final => \E given \in Seq(Octet) : HashedOrKept(given)
  /\ final => IsJoin(Digests!Chop(Digests!Padded), hashed, due)

(* The two sizes of words and blocks. *)
LEMMA SizesAre ==
  ASSUME sha \in Digests!Kinds
  PROVE  \/ Digests!WordBytes = 4 /\ Digests!BlockSize = 64
         \/ Digests!WordBytes = 8 /\ Digests!BlockSize = 128
<1>1. Digests!Parameters.word.bits = 32 \/ Digests!Parameters.word.bits = 64
  BY DEF Digests!Kinds, Digests!Parameters, Digests!SHA224, Digests!SHA256, Digests!SHA384, Digests!SHA512,
         Digests!Short, Digests!Long
<1> QED
  BY <1>1 DEF Digests!WordBytes, Digests!BlockSize

LEMMA ChopIs ==
  ASSUME sha \in Digests!Kinds, NEW D, NEW s \in Seq(D)
  PROVE  Digests!Chop(s) = Chops(Digests!BlockSize, s)
<1> DEFINE B == Digests!BlockSize
<1>1. B \in Nat \ {0}
  BY SizesAre
<1>2. Len(s) \in Nat /\ Len(s) \div B \in Nat
  <2>1. Len(s) \in Nat
    OBVIOUS
  <2> QED
    BY <1>1, <2>1, DivModIs
<1> HIDE DEF B
<1>3. \A k \in 1..Len(s) \div B : SubSeq(s, (k - 1) * B + 1, k * B) = Piece(B, s, k)
  <2> SUFFICES ASSUME NEW k \in 1..Len(s) \div B
               PROVE  SubSeq(s, (k - 1) * B + 1, k * B) = Piece(B, s, k)
    OBVIOUS
  <2>1. (k - 1) * B = B * (k - 1) /\ k * B = B * (k - 1) + B
    BY <1>1, <1>2
  <2> QED
    BY <2>1 DEF Piece, Part
<1> QED
  BY <1>3 DEF Digests!Chop, Chops, B

LEMMA FlattenSame == ASSUME NEW s PROVE Digests!FlattenSeq(s) = FlattenSeq(s)
BY DEF Digests!FlattenSeq, FlattenSeq

LEMMA InitDigest == ASSUME Digests!MessagesAssumption, Digests!Init PROVE DigestInv
<1>1. PICK m \in Messages : sha = m[1] /\ pieces = m[2] /\ message = Digests!FlattenSeq(m[2])
  BY DEF Digests!Init
<1>2. m \in Digests!Kinds \X Seq(Seq(Octet))
  BY DEF Digests!MessagesAssumption, Octet
<1>3. sha \in Digests!Kinds /\ pieces \in Seq(Seq(Octet)) /\ message = FlattenSeq(pieces)
  BY <1>1, <1>2, FlattenSame
<1>4. begun = <<>> /\ tot_len = 0 /\ final = FALSE /\ due = <<>> /\ working = <<>> /\ hashed = <<>>
  BY DEF Digests!Init
<1>5. message \in Seq(Octet)
  BY <1>3, FlattenType
<1>6. <<>> \in Seq(Octet) /\ <<>> \in Seq(Seq(Octet)) /\ Len(<<>>) = 0
  OBVIOUS
<1>7. HashedOrKept(<<>>)
  <2> DEFINE B == Digests!BlockSize
  <2>1. B \in Nat \ {0} /\ 0 \div B = 0 /\ 0 % B = 0
    BY <1>3, SizesAre
  <2> HIDE DEF B
  <2>2. PICK e \in Seq(Octet) : e = <<>>
    BY <1>6
  <2>3. /\ Chops(B, e) \in Seq(Seq(Octet)) /\ Len(Chops(B, e)) = Len(e) \div B
        /\ Remains(B, e) \in Seq(Octet) /\ Len(Remains(B, e)) = Len(e) % B
    BY <2>1, ChopsType
  <2>4. Chops(B, e) = <<>> /\ Remains(B, e) = <<>>
    BY <1>6, <2>1, <2>2, <2>3, EmptySeq
  <2>5. <<>> \o <<>> = <<>> /\ <<>> \o message = message
    BY <1>5, <1>6, ConcatEmptySeq
  <2> QED
    BY <1>3, <1>4, <1>6, <2>2, <2>4, <2>5 DEF HashedOrKept, B, IsJoin
<1> QED
  BY <1>3, <1>4, <1>5, <1>6, <1>7 DEF DigestInv, DigestTypes

LEMMA UpdateDigest == ASSUME DigestInv, Digests!Update PROVE DigestInv'
<1> USE DEF Digests!Update
<1> DEFINE B == Digests!BlockSize
           all == begun \o Head(pieces)
<1>1. DigestTypes
  BY DEF DigestInv
<1>2. /\ sha' = sha /\ final' = final /\ working' = working /\ message' = message /\ hashed' = hashed
      /\ due = <<>> /\ pieces # <<>> /\ pieces' = Tail(pieces)
  OBVIOUS
<1>3. Head(pieces) \in Seq(Octet) /\ pieces' \in Seq(Seq(Octet))
  BY <1>1, <1>2, HeadTailProperties DEF DigestTypes
<1>4. all \in Seq(Octet)
  BY <1>1, <1>3, ConcatProperties DEF DigestTypes
<1>5. B \in Nat \ {0} /\ B' = B
  <2>1. B \in Nat \ {0}
    BY <1>1, SizesAre DEF DigestTypes
  <2> QED
    BY <1>2, <2>1 DEF Digests!BlockSize, Digests!WordBytes, Digests!Parameters
<1>6. due' = Chops(B, all)
  BY <1>1, <1>4, ChopIs DEF DigestTypes
<1>7. begun' = Remains(B, all) /\ tot_len' = tot_len + Len(all) - (Len(all) % B)
  BY DEF Remains
<1> HIDE DEF B, Digests!Update
<1>8. /\ Chops(B, all) \in Seq(Seq(Octet)) /\ Remains(B, all) \in Seq(Octet)
      /\ Len(Remains(B, all)) = Len(all) % B
  BY <1>4, <1>5, ChopsType
<1>9. /\ Len(all) \in Nat /\ Len(all) = Len(begun) + Len(Head(pieces)) /\ Len(all) % B \in 0..Len(all)
  <2>1. Len(all) \in Nat /\ Len(begun) \in Nat /\ Len(Head(pieces)) \in Nat
    BY <1>1, <1>3, <1>4 DEF DigestTypes
  <2>2. Len(all) = Len(begun) + Len(Head(pieces))
    BY <1>1, <1>3, ConcatProperties DEF DigestTypes
  <2> HIDE DEF all
  <2>3. Len(all) \div B \in Nat /\ Len(all) % B \in 0..B - 1 /\ Len(all) = B * (Len(all) \div B) + (Len(all) % B)
    BY <1>5, <2>1, DivModIs
  <2>4. PICK q \in Nat : q = Len(all) \div B
    BY <2>3
  <2>5. PICK p \in Nat : p = B * q
    BY <1>5, MulMono
  <2>6. PICK r \in 0..B - 1 : r = Len(all) % B
    BY <2>3
  <2>7. Len(all) = p + r
    BY <2>3, <2>4, <2>5, <2>6
  <2>8. r \in 0..Len(all)
    BY <1>5, <2>1, <2>7
  <2> QED
    BY <2>1, <2>2, <2>6, <2>8 DEF all
<1>10. DigestTypes'
  <2>1. tot_len' \in Nat
    BY <1>1, <1>7, <1>9 DEF DigestTypes
  <2> QED
    BY <1>1, <1>2, <1>3, <1>6, <1>7, <1>8, <2>1 DEF DigestTypes, Digests!Kinds
<1>11. working' = <<>>
  BY <1>2 DEF DigestInv
<1>12. CASE final
  <2>1. FALSE
    BY <1>2, <1>12 DEF DigestInv
  <2> QED
    BY <2>1
<1>13. CASE ~final
  <2>1. PICK given \in Seq(Octet) : HashedOrKept(given)
    BY <1>13 DEF DigestInv
  <2>2. PICK more \in Seq(Octet) : more = given \o Head(pieces)
    BY <1>3, ConcatProperties
  <2>3. FlattenSeq(pieces) = Head(pieces) \o FlattenSeq(Tail(pieces)) /\ FlattenSeq(Tail(pieces)) \in Seq(Octet)
    <3>1. pieces \in Seq(Seq(Octet)) /\ Tail(pieces) \in Seq(Seq(Octet))
      BY <1>1, <1>2, <1>3 DEF DigestTypes
    <3> QED
      BY <1>2, <3>1, FlattenCons, FlattenType
  <2>4. message' = more \o FlattenSeq(pieces')
    <3>1. Assoc(given, Head(pieces), FlattenSeq(Tail(pieces)))
      BY <1>3, <2>3, Associates
    <3> QED
      BY <1>2, <2>1, <2>2, <2>3, <3>1 DEF HashedOrKept, Assoc
  <2>5. hashed = Chops(B, given) /\ begun = Remains(B, given) /\ tot_len + Len(begun) = Len(given)
    <3>1. hashed \o <<>> = hashed
      BY <1>1, ConcatEmptySeq DEF DigestTypes
    <3> QED
      BY <1>2, <2>1, <3>1 DEF HashedOrKept, B, IsJoin
  <2>6. IsJoin(Chops(B, more), Chops(B, given), Chops(B, all)) /\ Remains(B, more) = Remains(B, all)
    <3>1. PICK piece \in Seq(Octet) : piece = Head(pieces)
      BY <1>3
    <3>2. IsJoin(more, given, piece) /\ IsJoin(all, Remains(B, given), piece)
      BY <2>2, <2>5, <3>1 DEF IsJoin
    <3> HIDE DEF all
    <3> QED
      BY <1>4, <1>5, <3>2, ChopsConcat
  <2>7. Len(more) = Len(given) + Len(Head(pieces)) /\ Len(given) \in Nat /\ Len(Head(pieces)) \in Nat
    BY <1>3, <2>2, ConcatProperties
  <2>8. tot_len' + Len(begun') = Len(more)
    <3>1. PICK l \in Nat : l = Len(all) /\ Len(all) = Len(begun) + Len(Head(pieces))
      BY <1>9
    <3>2. PICK r \in 0..l : r = Len(all) % B
      BY <1>9, <3>1
    <3>3. Len(begun) \in Nat /\ tot_len \in Nat
      BY <1>1 DEF DigestTypes
    <3>4. Len(begun') = r /\ tot_len' = tot_len + l - r
      BY <1>7, <1>8, <3>1, <3>2
    <3>5. l - r \in Nat /\ tot_len' + r = tot_len + l
      BY <3>2, <3>3, <3>4
    <3>6. tot_len + l = Len(more)
      BY <2>5, <2>7, <3>1, <3>3
    <3> QED
      BY <3>4, <3>5, <3>6
  <2>9. HashedOrKept(more)'
    BY <1>2, <1>5, <1>6, <1>7, <2>4, <2>5, <2>6, <2>8 DEF HashedOrKept, B, IsJoin
  <2> QED
    BY <1>2, <1>10, <1>11, <1>13, <2>9 DEF DigestInv
<1> QED
  BY <1>12, <1>13

LEMMA ZerosType == ASSUME NEW n \in Nat PROVE Digests!Zeros(n) \in Seq(Octet)
BY DEF Digests!Zeros, Octet

LEMMA LengthType == ASSUME NEW n \in Nat PROVE Digests!LengthField(n) \in Seq(Octet)
<1>1. 8 * n \in Nat
  OBVIOUS
<1> QED
  BY <1>1, SMT DEF Digests!LengthField, Octet

(* The zeros that final puts are as many as the padding asks for, and no other number of
   them is right. *)
Gap(B, word, left) == (IF B - 1 - 2 * word < left THEN 2 ELSE 1) * B - left - 1 - 2 * word

Fits(B, word, n, zeros) == (n + 1 + zeros + 2 * word) % B = 0

Sizes(B, word) == (B = 64 /\ word = 4) \/ (B = 128 /\ word = 8)

LEMMA ShortGap ==
  ASSUME NEW n \in Nat, NEW left \in 0..63, NEW q \in Nat, n = 64 * q + left
  PROVE  /\ Gap(64, 4, left) \in 0..63
         /\ \A y \in 0..63 : Fits(64, 4, n, y) <=> y = Gap(64, 4, left)
<1>1. Gap(64, 4, left) \in 0..63 /\ left + 1 + Gap(64, 4, left) + 8 = 64 * IF 55 < left THEN 2 ELSE 1
  BY DEF Gap
<1>2. PICK gap \in 0..63 : gap = Gap(64, 4, left)
  BY <1>1
<1>3. ASSUME NEW y \in 0..63 PROVE (n + 1 + y + 8) % 64 = 0 <=> y = gap
  BY <1>1, <1>2
<1> QED
  BY <1>1, <1>2, <1>3 DEF Fits

LEMMA LongGap ==
  ASSUME NEW n \in Nat, NEW left \in 0..127, NEW q \in Nat, n = 128 * q + left
  PROVE  /\ Gap(128, 8, left) \in 0..127
         /\ \A y \in 0..127 : Fits(128, 8, n, y) <=> y = Gap(128, 8, left)
<1>1. Gap(128, 8, left) \in 0..127 /\ left + 1 + Gap(128, 8, left) + 16 = 128 * IF 111 < left THEN 2 ELSE 1
  BY DEF Gap
<1>2. PICK gap \in 0..127 : gap = Gap(128, 8, left)
  BY <1>1
<1>3. ASSUME NEW y \in 0..127 PROVE (n + 1 + y + 16) % 128 = 0 <=> y = gap
  BY <1>1, <1>2
<1> QED
  BY <1>1, <1>2, <1>3 DEF Fits

LEMMA GapIs ==
  ASSUME NEW B, NEW word, Sizes(B, word), NEW n \in Nat, NEW left, left = n % B
  PROVE  Gap(B, word, left) \in 0..B - 1 /\ \A y \in 0..B - 1 : Fits(B, word, n, y) <=> y = Gap(B, word, left)
<1>1. B \in Nat \ {0}
  BY DEF Sizes
<1>2. PICK q \in Nat : left \in 0..B - 1 /\ n = B * q + left
  BY <1>1, DivModIs
<1>3. CASE B = 64 /\ word = 4
  <2>1. left \in 0..63 /\ n = 64 * q + left
    BY <1>2, <1>3
  <2>2. /\ Gap(64, 4, left) \in 0..63
        /\ \A y \in 0..63 : Fits(64, 4, n, y) <=> y = Gap(64, 4, left)
    BY <1>2, <2>1, ShortGap
  <2> QED
    BY <1>3, <2>2
<1>4. CASE B = 128 /\ word = 8
  <2>1. left \in 0..127 /\ n = 128 * q + left
    BY <1>2, <1>4
  <2>2. /\ Gap(128, 8, left) \in 0..127
        /\ \A y \in 0..127 : Fits(128, 8, n, y) <=> y = Gap(128, 8, left)
    BY <1>2, <2>1, LongGap
  <2> QED
    BY <1>4, <2>2
<1> QED
  BY <1>3, <1>4 DEF Sizes

Regrouped(a, b, c, d) == ((a \o b) \o c) \o d = a \o ((b \o c) \o d)

LEMMA Regroup ==
  ASSUME NEW D, NEW a \in Seq(D), NEW b \in Seq(D), NEW c \in Seq(D), NEW d \in Seq(D)
  PROVE  Regrouped(a, b, c, d)
<1>1. PICK u \in Seq(D) : u = b \o c
  BY ConcatProperties
<1>2. Assoc(a, b, c) /\ Assoc(a, u, d)
  BY Associates
<1> QED
  BY <1>1, <1>2 DEF Assoc, Regrouped

(* What final adds to n bytes: the bit after the end, the zeros and the length. *)
Ending(B, word, n) ==
  (<<128>> \o Digests!Zeros(Gap(B, word, n % B) + 2 * word - 4)) \o Digests!LengthField(n)

LEMMA PaddedIs ==
  ASSUME sha \in Digests!Kinds, message \in Seq(Octet)
  PROVE  LET tail == Ending(Digests!BlockSize, Digests!WordBytes, Len(message))
         IN  /\ tail \in Seq(Octet) /\ Digests!Padded = message \o tail
             /\ \A left \in Seq(Octet) :
                  left \o tail = left \o <<128>> \o Digests!Zeros(Gap(Digests!BlockSize, Digests!WordBytes, Len(message) % Digests!BlockSize) + 2 * Digests!WordBytes - 4)
                                      \o Digests!LengthField(Len(message))
<1> DEFINE B == Digests!BlockSize
           word == Digests!WordBytes
           gap == Gap(B, word, Len(message) % B)
           z == Digests!Zeros(gap + 2 * word - 4)
           l == Digests!LengthField(Len(message))
<1>1. Sizes(B, word)
  BY SizesAre DEF Sizes
<1>2. PICK n \in Nat : n = Len(message)
  OBVIOUS
<1> DEFINE zeros == CHOOSE y \in 0..B - 1 : (Len(message) + 1 + y + 2 * word) % B = 0
<1>3. Digests!Padded = ((message \o <<128>>) \o Digests!Zeros(zeros + 2 * word - 4)) \o l
  BY DEF Digests!Padded
<1> HIDE DEF B, word
<1>4. /\ gap \in 0..B - 1
      /\ \A y \in 0..B - 1 : Fits(B, word, Len(message), y) <=> y = gap
  <2>1. PICK left : left = n % B
    OBVIOUS
  <2>2. Gap(B, word, left) \in 0..B - 1 /\ \A y \in 0..B - 1 : Fits(B, word, n, y) <=> y = Gap(B, word, left)
    BY <1>1, <2>1, GapIs
  <2> QED
    BY <1>2, <2>1, <2>2
<1>5. zeros = gap
  <2> HIDE DEF gap
  <2> QED
    BY <1>4 DEF Fits
<1> HIDE DEF zeros
<1>6. gap + 2 * word - 4 \in Nat
  <2> HIDE DEF gap
  <2> QED
    BY <1>1, <1>4 DEF Sizes
<1>7. PICK x \in Seq(Octet) : x = <<128>>
  <2>1. 128 \in Octet
    BY DEF Octet
  <2>2. <<128>> \in Seq(Octet)
    BY <2>1
  <2> QED
    BY <2>2
<1>8. z \in Seq(Octet) /\ l \in Seq(Octet)
  <2>1. l \in Seq(Octet)
    BY <1>2, LengthType
  <2> HIDE DEF gap
  <2> QED
    BY <1>6, <2>1, ZerosType
<1>9. Ending(B, word, Len(message)) = (x \o z) \o l
  BY <1>7 DEF Ending
<1>10. Digests!Padded = ((message \o x) \o z) \o l
  BY <1>3, <1>5, <1>7
<1> HIDE DEF z, l
<1>11. (x \o z) \o l \in Seq(Octet)
  <2>1. PICK u \in Seq(Octet) : u = x \o z
    BY <1>8, ConcatProperties
  <2> QED
    BY <1>8, <2>1, ConcatProperties
<1>12. \A left \in Seq(Octet) : ((left \o x) \o z) \o l = left \o ((x \o z) \o l)
  <2> SUFFICES ASSUME NEW left \in Seq(Octet)
               PROVE  ((left \o x) \o z) \o l = left \o ((x \o z) \o l)
    OBVIOUS
  <2>1. Regrouped(left, x, z, l)
    BY <1>8, Regroup
  <2> QED
    BY <2>1 DEF Regrouped
<1> QED
  BY <1>7, <1>9, <1>10, <1>11, <1>12 DEF B, word, z, l

LEMMA FinalDigest == ASSUME DigestInv, Digests!Final PROVE DigestInv'
<1> DEFINE B == Digests!BlockSize
           word == Digests!WordBytes
           tail == Ending(B, word, Len(message))
           all == begun \o tail
<1>1. DigestTypes
  BY DEF DigestInv
<1>2. /\ sha' = sha /\ final' = TRUE /\ working' = working /\ message' = message /\ hashed' = hashed
      /\ due = <<>> /\ pieces = <<>> /\ ~final /\ pieces' = pieces /\ begun' = begun /\ tot_len' = tot_len
  BY DEF Digests!Final
<1>3. Sizes(B, word)
  BY <1>1, SizesAre DEF DigestTypes, Sizes
<1>4. PICK given \in Seq(Octet) : HashedOrKept(given)
  BY <1>2 DEF DigestInv
<1>5. /\ message = given /\ hashed = Chops(B, message) /\ begun = Remains(B, message)
      /\ tot_len + Len(begun) = Len(message)
  <2>1. given \o <<>> = given /\ hashed \o <<>> = hashed
    BY <1>1, ConcatEmptySeq DEF DigestTypes
  <2> QED
    BY <1>2, <1>4, <2>1, FlattenEmpty DEF HashedOrKept, IsJoin
<1>6. /\ tail \in Seq(Octet) /\ Digests!Padded = message \o tail
      /\ all = begun \o <<128>> \o Digests!Zeros(Gap(B, word, Len(message) % B) + 2 * word - 4)
                     \o Digests!LengthField(Len(message))
  BY <1>1, PaddedIs DEF DigestTypes
<1>7. Len(begun) = Len(message) % B /\ Len(begun) \in Nat
  <2> HIDE DEF B, word
  <2>1. B \in Nat \ {0}
    BY <1>3 DEF Sizes
  <2>2. Len(Remains(B, message)) = Len(message) % B
    BY <1>1, <2>1, ChopsType DEF DigestTypes
  <2>3. Len(begun) \in Nat
    BY <1>1 DEF DigestTypes
  <2> QED
    BY <1>5, <2>2, <2>3
<1> DEFINE block_nb == IF B - 1 - 2 * word < Len(begun) THEN 2 ELSE 1
<1>8. Gap(B, word, Len(message) % B) + 2 * word - 4 = block_nb * B - Len(begun) - 5
  <2> HIDE DEF B, word
  <2> QED
    BY <1>3, <1>7 DEF Gap, Sizes
<1>9. due' = Digests!Chop(all)
  <2>1. due' = Digests!Chop(begun \o <<128>> \o Digests!Zeros(block_nb * B - Len(begun) - 5)
                                  \o Digests!LengthField(tot_len + Len(begun)))
    BY DEF Digests!Final
  <2> HIDE DEF block_nb, all
  <2> QED
    BY <1>5, <1>6, <1>8, <2>1
<1> HIDE DEF B, word, tail, block_nb
<1>10. all \in Seq(Octet)
  BY <1>1, <1>6, ConcatProperties DEF DigestTypes
<1>11. PICK padded \in Seq(Octet) : padded = Digests!Padded
  BY <1>1, <1>6, ConcatProperties DEF DigestTypes
<1>12. IsJoin(padded, message, tail) /\ IsJoin(all, Remains(B, message), tail)
  BY <1>5, <1>6, <1>11 DEF IsJoin
<1> HIDE DEF all
<1>13. B \in Nat \ {0}
  BY <1>3 DEF Sizes
<1>14. IsJoin(Chops(B, padded), Chops(B, message), Chops(B, all))
  BY <1>1, <1>6, <1>10, <1>12, <1>13, ChopsConcat DEF DigestTypes
<1>15. due' = Chops(B, all) /\ Digests!Chop(padded) = Chops(B, padded)
  BY <1>1, <1>9, <1>10, ChopIs DEF DigestTypes, B
<1>16. Chops(B, all) \in Seq(Seq(Octet))
  BY <1>10, <1>13, ChopsType
<1>17. DigestTypes'
  BY <1>1, <1>2, <1>15, <1>16 DEF DigestTypes, Digests!Kinds
<1>18. Digests!Chop(Digests!Padded)' = Digests!Chop(padded)
  <2>1. Digests!Chop(Digests!Padded)' = Digests!Chop(Digests!Padded)
    BY <1>2 DEF Digests!Chop, Digests!Padded, Digests!BlockSize, Digests!WordBytes, Digests!Parameters
  <2> QED
    BY <1>11, <2>1
<1>19. IsJoin(Digests!Chop(Digests!Padded), hashed, due)'
  BY <1>2, <1>5, <1>14, <1>15, <1>18 DEF IsJoin
<1>20. working' = <<>>
  BY <1>2 DEF DigestInv
<1> QED
  BY <1>2, <1>17, <1>19, <1>20 DEF DigestInv

LEMMA AddUpDigest == ASSUME DigestInv, Digests!AddUp PROVE DigestInv'
<1>1. DigestTypes
  BY DEF DigestInv
<1>2. /\ sha' = sha /\ final' = final /\ working' = <<>> /\ message' = message
      /\ pieces' = pieces /\ begun' = begun /\ tot_len' = tot_len
      /\ due' = Tail(due) /\ hashed' = Append(hashed, Head(due)) /\ working # <<>>
  BY DEF Digests!AddUp
<1>3. due # <<>>
  BY <1>2 DEF DigestInv
<1>4. hashed' \in Seq(Seq(Octet)) /\ due' \in Seq(Seq(Octet))
  BY <1>1, <1>2, <1>3, HeadTailProperties, AppendProperties DEF DigestTypes
<1>5. hashed' \o due' = hashed \o due
  <2> DEFINE S == Seq(Octet)
  <2> HIDE DEF S
  <2>1. hashed \in Seq(S) /\ due \in Seq(S) /\ Head(due) \in S /\ Tail(due) \in Seq(S)
    BY <1>1, <1>3, HeadTailProperties DEF DigestTypes, S
  <2>2. \A s \in Seq(S) : \A t \in Seq(S) : t # <<>> => Append(s, Head(t)) \o Tail(t) = s \o t
    OBVIOUS
  <2> QED
    BY <1>2, <1>3, <2>1, <2>2
<1>6. DigestTypes'
  BY <1>1, <1>2, <1>4 DEF DigestTypes, Digests!Kinds
<1>7. Digests!BlockSize' = Digests!BlockSize
  BY <1>2 DEF Digests!BlockSize, Digests!WordBytes, Digests!Parameters
<1>8. ASSUME NEW given \in Seq(Octet), HashedOrKept(given) PROVE HashedOrKept(given)'
  BY <1>2, <1>5, <1>7, <1>8 DEF HashedOrKept, IsJoin
<1>9. Digests!Chop(Digests!Padded)' = Digests!Chop(Digests!Padded)
  BY <1>2 DEF Digests!Chop, Digests!Padded, Digests!BlockSize, Digests!WordBytes, Digests!Parameters
<1>10. final => IsJoin(Digests!Chop(Digests!Padded), hashed, due)'
  BY <1>5, <1>9 DEF DigestInv, IsJoin
<1> QED
  BY <1>2, <1>6, <1>8, <1>10 DEF DigestInv

(* A step that leaves what was given and what was hashed alone. *)
LEMMA QuietDigest ==
  ASSUME DigestInv,
         UNCHANGED <<sha, pieces, begun, tot_len, final, due, message, hashed>>, working' # <<>> => due # <<>>
  PROVE  DigestInv'
<1>1. Digests!BlockSize' = Digests!BlockSize
  BY DEF Digests!BlockSize, Digests!WordBytes, Digests!Parameters
<1>2. ASSUME NEW given \in Seq(Octet), HashedOrKept(given) PROVE HashedOrKept(given)'
  BY <1>1, <1>2 DEF HashedOrKept, IsJoin
<1>3. IsJoin(Digests!Chop(Digests!Padded), hashed, due)' <=> IsJoin(Digests!Chop(Digests!Padded), hashed, due)
  BY DEF Digests!Chop, Digests!Padded, Digests!BlockSize, Digests!WordBytes, Digests!Parameters, IsJoin
<1> QED
  BY <1>2, <1>3 DEF DigestInv, DigestTypes, Digests!Kinds

LEMMA NextDigest == ASSUME DigestInv, [Digests!Next]_(Digests!vars) PROVE DigestInv'
<1>1. CASE Digests!Begin
  BY <1>1, QuietDigest DEF Digests!Begin
<1>2. CASE Digests!Round
  <2>1. UNCHANGED <<sha, pieces, begun, tot_len, final, due, message, hashed>> /\ working # <<>>
    BY <1>2 DEF Digests!Round
  <2>2. due # <<>>
    BY <2>1 DEF DigestInv
  <2> QED
    BY <2>1, <2>2, QuietDigest
<1>3. CASE UNCHANGED Digests!vars
  <2>1. UNCHANGED <<sha, pieces, begun, tot_len, final, due, message, hashed>> /\ working' = working
    BY <1>3 DEF Digests!vars
  <2>2. working' # <<>> => due # <<>>
    BY <2>1 DEF DigestInv
  <2> QED
    BY <2>1, <2>2, QuietDigest
<1> QED
  BY <1>1, <1>2, <1>3, UpdateDigest, FinalDigest, AddUpDigest DEF Digests!Next

(* Whatever pieces a message is given to update in, and wherever their ends lie in the blocks,
   the blocks that transf is done to are those of the padding of the whole message, each once
   and in their order, for all four digests. *)
THEOREM MessagesHashed == ASSUME Digests!MessagesAssumption PROVE Digests!Spec => []HashesPadded
<1>1. DigestInv => HashesPadded
  <2> SUFFICES ASSUME DigestInv, final, due = <<>> PROVE hashed = Digests!Chop(Digests!Padded)
    BY DEF HashesPadded, Digests!HashesPadded, Digests!Done
  <2>1. hashed \o <<>> = hashed
    BY ConcatEmptySeq DEF DigestInv, DigestTypes
  <2> QED
    BY <2>1 DEF DigestInv, IsJoin
<1> QED
  BY <1>1, InitDigest, NextDigest, PTL DEF Digests!Spec

------------------------------------------------------------------------------
(* SpecialFiles: the answers. *)
LEMMA AnswersAgree ==
  ASSUME NEW path, NEW to, NEW beyond
  PROVE  Files!Agree(path, to, beyond, Files!Answers(path, to, beyond))
<1> DEFINE a == Files!Answers(path, to, beyond)
<1> USE DEF Files!Changes, Files!Asks, Files!Attributes, Files!OfTwo, Files!Calls
<1>1. \A call \in Files!Calls \ Files!OfTwo : a[call] = Files!Answer(call, path, beyond)
  BY DEF Files!Answers
<1>2. \A call \in Files!OfTwo : a[call] = Files!AnswerOfTwo(call, path, to, beyond)
  BY DEF Files!Answers
<1> HIDE DEF a
<1>3. CASE Files!IsRecursiveFilePath(path, beyond)
  <2>1. \A call : Files!Answer(call, path, beyond) = "ENOENT"
    BY <1>3 DEF Files!Answer
  <2>2. \A call \in Files!Calls : a[call] = "ENOENT"
    BY <1>1, <1>2, <1>3, <2>1 DEF Files!AnswerOfTwo
  <2> QED
    BY <2>2 DEF Files!Agree, a
<1>4. CASE ~Files!IsRecursiveFilePath(path, beyond) /\ ~Files!IsSpecialPath(path)
  <2>1. \A call : Files!Answer(call, path, beyond) = "system"
    BY <1>4 DEF Files!Answer
  <2>2. /\ \A call \in Files!Calls \ Files!OfTwo : a[call] = "system"
        /\ \A call \in Files!OfTwo : a[call] = IF Files!IsRecursiveFilePath(to, beyond) THEN "EPERM" ELSE "system"
    BY <1>1, <1>2, <1>4, <2>1 DEF Files!AnswerOfTwo
  <2>3. a["getattr"] = "system"
    BY <2>2
  <2> QED
    BY <1>4, <2>2, <2>3 DEF Files!Agree, a
<1>5. CASE ~Files!IsRecursiveFilePath(path, beyond) /\ Files!IsSpecialPath(path)
  <2>1. \A call : Files!Answer(call, path, beyond) = Files!Special(call, path)
    BY <1>5 DEF Files!Answer
  <2>2. \A call \in Files!Changes : a[call] = "EPERM"
    BY <1>1, <1>2, <1>5, <2>1 DEF Files!AnswerOfTwo, Files!Special
  <2>3. /\ \A call \in Files!Asks : a[call] = IF Files!IsFile(path) THEN "ok"
                                              ELSE IF path = Files!Proc THEN "system" ELSE "ENOENT"
        /\ \A call \in Files!Attributes : a[call] = IF Files!IsFile(path) THEN "ENOTSUP"
                                                    ELSE IF path = Files!Proc THEN "system" ELSE "ENOENT"
        /\ a["readdir"] = IF path = Files!Proc THEN "names" ELSE "ENOENT"
    BY <1>1, <2>1 DEF Files!Special
  <2>4. "getattr" \in Files!Asks
    OBVIOUS
  <2> QED
    BY <1>5, <2>2, <2>3, <2>4 DEF Files!Agree, a
<1> QED
  BY <1>3, <1>4, <1>5

(* A function that is given below m, and above from its value at a tenth. *)
Tenth(d, m, G, F, k) == d[k] = IF k < m THEN G[k] ELSE F[k][d[k \div 10]]

Descends(d, m, G, F, n) == \A k \in 0..n : Tenth(d, m, G, F, k)

Stays(S, m, G, F) == \A k \in Nat : /\ k < m => G[k] \in S
                                    /\ \A x \in S : F[k][x] \in S

LEMMA TenthIs == ASSUME NEW m \in Nat \ {0}, NEW k \in Nat, ~(k < m) PROVE k \div 10 \in 0..k - 1
OBVIOUS

LEMMA DescentTo ==
  ASSUME NEW S, NEW m \in Nat \ {0}, NEW G, NEW F, Stays(S, m, G, F), NEW n \in Nat
  PROVE  \E d \in [0..n -> S] : Descends(d, m, G, F, n)
<1> DEFINE There(k) == \E d \in [0..k -> S] : Descends(d, m, G, F, k)
           Bad == {k \in Nat : ~There(k)}
<1>1. There(0)
  <2> DEFINE d == [k \in 0..0 |-> G[k]]
  <2>1. G[0] \in S
    BY DEF Stays
  <2>2. d \in [0..0 -> S]
    BY <2>1
  <2>3. d[0] = G[0] /\ \A k \in 0..0 : k = 0 /\ k < m
    OBVIOUS
  <2> HIDE DEF d
  <2>4. Descends(d, m, G, F, 0)
    BY <2>3 DEF Descends, Tenth
  <2> QED
    BY <2>2, <2>4
<1>2. ASSUME NEW k \in Nat, k # 0, There(k - 1) PROVE There(k)
  <2>1. PICK d \in [0..k - 1 -> S] : Descends(d, m, G, F, k - 1)
    BY <1>2
  <2>2. k - 1 \in Nat /\ k \in 0..k /\ \A j \in 0..k - 1 : j \in 0..k /\ j # k
    BY <1>2
  <2> DEFINE last == IF k < m THEN G[k] ELSE F[k][d[k \div 10]]
             e == [j \in 0..k |-> IF j = k THEN last ELSE d[j]]
  <2>3. last \in S
    <3>1. CASE k < m
      BY <3>1 DEF Stays
    <3>2. CASE ~(k < m)
      <4>1. d[k \div 10] \in S
        BY <2>1, <3>2, TenthIs
      <4> QED
        BY <3>2, <4>1 DEF Stays
    <3> QED
      BY <3>1, <3>2
  <2>4. \A j \in 0..k : j = k \/ j \in 0..k - 1
    BY <1>2
  <2> HIDE DEF last
  <2>5. e \in [0..k -> S]
    BY <2>1, <2>3, <2>4
  <2>6. e[k] = last /\ \A j \in 0..k - 1 : e[j] = d[j]
    BY <2>2
  <2> HIDE DEF e
  <2>7. ASSUME NEW j \in 0..k PROVE Tenth(e, m, G, F, j)
    <3>1. CASE j = k
      <4>1. ~(k < m) => e[k \div 10] = d[k \div 10]
        BY <2>6, TenthIs
      <4> QED
        BY <2>6, <3>1, <4>1 DEF Tenth, last
    <3>2. CASE j \in 0..k - 1
      <4>1. d[j] = IF j < m THEN G[j] ELSE F[j][d[j \div 10]]
        BY <2>1, <3>2 DEF Descends, Tenth
      <4>2. ~(j < m) => j \div 10 \in 0..k - 1
        <5> SUFFICES ASSUME ~(j < m) PROVE j \div 10 \in 0..k - 1
          OBVIOUS
        <5>1. j \div 10 \in 0..j - 1
          BY TenthIs
        <5> QED
          BY <2>2, <3>2, <5>1
      <4> QED
        BY <2>6, <3>2, <4>1, <4>2 DEF Tenth
    <3> QED
      BY <2>4, <3>1, <3>2
  <2>8. Descends(e, m, G, F, k)
    BY <2>7 DEF Descends
  <2> QED
    BY <2>5, <2>8
<1>3. CASE Bad = {}
  BY <1>3
<1>4. CASE Bad # {}
  <2>1. Bad \in SUBSET Nat
    OBVIOUS
  <2>2. PICK k \in Bad : \A j \in Bad : k <= j
    <3> HIDE DEF Bad
    <3> QED
      BY <1>4, <2>1, LeastOne
  <2>3. k \in Nat /\ ~There(k)
    OBVIOUS
  <2>4. k # 0
    BY <1>1, <2>3
  <2>5. k - 1 \in Nat /\ ~(k <= k - 1)
    BY <2>3, <2>4
  <2>6. There(k - 1)
    BY <2>2, <2>5
  <2> HIDE DEF There
  <2> QED
    BY <1>2, <2>3, <2>4, <2>6
<1> QED
  BY <1>3, <1>4

LEMMA DescentUnique ==
  ASSUME NEW m \in Nat \ {0}, NEW G, NEW F, NEW n \in Nat, NEW d, NEW e,
         Descends(d, m, G, F, n), Descends(e, m, G, F, n)
  PROVE  \A k \in 0..n : d[k] = e[k]
<1> DEFINE Bad == {k \in 0..n : d[k] # e[k]}
<1>1. CASE Bad = {}
  BY <1>1
<1>2. CASE Bad # {}
  <2>1. Bad \in SUBSET Nat
    OBVIOUS
  <2>2. PICK k \in Bad : \A j \in Bad : k <= j
    <3> HIDE DEF Bad
    <3> QED
      BY <1>2, <2>1, LeastOne
  <2>3. k \in 0..n /\ d[k] # e[k]
    OBVIOUS
  <2>4. ~(k < m)
    BY <2>3 DEF Descends, Tenth
  <2>5. k \div 10 \in 0..k - 1
    BY <2>3, <2>4, TenthIs
  <2>6. k \div 10 \in 0..n /\ ~(k <= k \div 10)
    BY <2>3, <2>5
  <2>7. d[k \div 10] = e[k \div 10]
    BY <2>2, <2>6
  <2> QED
    BY <2>3, <2>4, <2>7 DEF Descends, Tenth
<1> QED
  BY <1>1, <1>2

LEMMA DescentExists ==
  ASSUME NEW S, NEW m \in Nat \ {0}, NEW G, NEW F, Stays(S, m, G, F)
  PROVE  \E d \in [Nat -> S] : \A k \in Nat : Tenth(d, m, G, F, k)
<1> DEFINE To(k) == CHOOSE d \in [0..k -> S] : Descends(d, m, G, F, k)
           d == [k \in Nat |-> To(k)[k]]
<1>1. \A k \in Nat : To(k) \in [0..k -> S] /\ Descends(To(k), m, G, F, k)
  BY DescentTo
<1> HIDE DEF To
<1>2. d \in [Nat -> S]
  <2>1. \A k \in Nat : k \in 0..k
    OBVIOUS
  <2> QED
    BY <1>1, <2>1
<1>3. ASSUME NEW k \in Nat, NEW j \in 0..k PROVE To(k)[j] = To(j)[j]
  <2>1. j \in Nat /\ j \in 0..j /\ \A i \in 0..j : i \in 0..k
    OBVIOUS
  <2>2. Descends(To(k), m, G, F, j) /\ Descends(To(j), m, G, F, j)
    BY <1>1, <2>1 DEF Descends
  <2> QED
    BY <2>1, <2>2, DescentUnique
<1>4. ASSUME NEW k \in Nat PROVE Tenth(d, m, G, F, k)
  <2>1. k \in 0..k /\ d[k] = To(k)[k]
    OBVIOUS
  <2>2. Tenth(To(k), m, G, F, k)
    BY <1>1, <2>1 DEF Descends
  <2>3. ~(k < m) => k \div 10 \in 0..k /\ k \div 10 \in Nat
    <3> SUFFICES ASSUME ~(k < m) PROVE k \div 10 \in 0..k /\ k \div 10 \in Nat
      OBVIOUS
    <3>1. k \div 10 \in 0..k - 1
      BY TenthIs
    <3> QED
      BY <3>1
  <2>4. ~(k < m) => d[k \div 10] = To(k)[k \div 10]
    BY <1>3, <2>3
  <2> HIDE DEF d
  <2> QED
    BY <2>1, <2>2, <2>4 DEF Tenth
<1> HIDE DEF d
<1> QED
  BY <1>2, <1>4

(* The numbers of digits and of steps of getattr. *)
Digit == 0..9

DigitsTo == CHOOSE D : D = [k \in Nat |-> IF k < 10 THEN <<k>> ELSE D[k \div 10] \o <<k % 10>>]

DividedTo == CHOOSE Sz : Sz = [t \in Nat |-> IF t = 0 THEN 0 ELSE 1 + Sz[t \div 10]]

LEMMA DigitsAre == ASSUME NEW n \in Nat PROVE Files!Digits(n) = DigitsTo[n]
BY Zenon DEF Files!Digits, DigitsTo

LEMMA SizeCounts ==
  ASSUME NEW n \in Nat PROVE Files!LogSize(n) = (IF DividedTo[n] = 0 THEN 1 ELSE DividedTo[n]) + 1
BY Zenon DEF Files!LogSize, DividedTo

LEMMA DigitsToAre ==
  \A k \in Nat : /\ DigitsTo[k] \in Seq(Digit)
                 /\ DigitsTo[k] = IF k < 10 THEN <<k>> ELSE DigitsTo[k \div 10] \o <<k % 10>>
<1> DEFINE S == Seq(Digit)
           G == [k \in Nat |-> <<k>>]
           F == [k \in Nat |-> [x \in S |-> x \o <<k % 10>>]]
<1>1. Stays(S, 10, G, F)
  <2> SUFFICES ASSUME NEW k \in Nat PROVE (k < 10 => G[k] \in S) /\ \A x \in S : F[k][x] \in S
    BY DEF Stays
  <2>1. k < 10 => G[k] \in S
    <3> SUFFICES ASSUME k < 10 PROVE <<k>> \in S
      OBVIOUS
    <3>1. k \in Digit
      BY DEF Digit
    <3> QED
      BY <3>1
  <2>2. ASSUME NEW x \in S PROVE F[k][x] \in S
    <3>1. k % 10 \in Digit
      BY DEF Digit
    <3>2. <<k % 10>> \in S
      BY <3>1
    <3>3. x \o <<k % 10>> \in S
      BY <3>2, ConcatProperties
    <3> QED
      BY <3>3
  <2> QED
    BY <2>1, <2>2
<1> HIDE DEF G, F, S
<1>2. PICK d \in [Nat -> S] : \A k \in Nat : Tenth(d, 10, G, F, k)
  <2>1. 10 \in Nat \ {0}
    OBVIOUS
  <2> QED
    BY <1>1, <2>1, DescentExists
<1>3. \A k \in Nat : d[k] = IF k < 10 THEN <<k>> ELSE d[k \div 10] \o <<k % 10>>
  <2> SUFFICES ASSUME NEW k \in Nat
               PROVE  d[k] = IF k < 10 THEN <<k>> ELSE d[k \div 10] \o <<k % 10>>
    OBVIOUS
  <2>1. d[k] = IF k < 10 THEN G[k] ELSE F[k][d[k \div 10]]
    BY <1>2 DEF Tenth
  <2>2. d[k \div 10] \in S
    BY <1>2
  <2> QED
    BY <2>1, <2>2 DEF G, F
<1>4. d = [k \in Nat |-> IF k < 10 THEN <<k>> ELSE d[k \div 10] \o <<k % 10>>]
  BY <1>2, <1>3
<1>5. DigitsTo = [k \in Nat |-> IF k < 10 THEN <<k>> ELSE DigitsTo[k \div 10] \o <<k % 10>>]
  BY <1>4, Zenon DEF DigitsTo
<1>6. \A k \in Nat : DigitsTo[k] = IF k < 10 THEN <<k>> ELSE DigitsTo[k \div 10] \o <<k % 10>>
  BY <1>5, Zenon
<1>7. \A k \in Nat : DigitsTo[k] = d[k]
  <2> DEFINE Bad == {k \in Nat : DigitsTo[k] # d[k]}
  <2>1. CASE Bad = {}
    BY <2>1
  <2>2. CASE Bad # {}
    <3>1. Bad \in SUBSET Nat
      OBVIOUS
    <3>2. PICK k \in Bad : \A j \in Bad : k <= j
      <4> HIDE DEF Bad
      <4> QED
        BY <2>2, <3>1, LeastOne
    <3>3. k \in Nat /\ DigitsTo[k] # d[k]
      OBVIOUS
    <3>4. ~(k < 10)
      <4>1. k < 10 => DigitsTo[k] = <<k>> /\ d[k] = <<k>>
        BY <1>3, <1>6, <3>3
      <4> QED
        BY <3>3, <4>1
    <3>5. k \div 10 \in Nat /\ ~(k <= k \div 10)
      BY <3>3, <3>4
    <3>6. DigitsTo[k \div 10] = d[k \div 10]
      BY <3>2, <3>5
    <3> QED
      BY <1>3, <1>6, <3>3, <3>4, <3>6
  <2> QED
    BY <2>1, <2>2
<1> QED
  BY <1>2, <1>6, <1>7 DEF S

LEMMA DividedToAre ==
  \A k \in Nat : /\ DividedTo[k] \in Nat
                 /\ DividedTo[k] = IF k = 0 THEN 0 ELSE 1 + DividedTo[k \div 10]
<1> DEFINE G == [k \in Nat |-> 0]
           F == [k \in Nat |-> [x \in Nat |-> 1 + x]]
<1>1. Stays(Nat, 1, G, F)
  <2>1. ASSUME NEW k \in Nat PROVE G[k] \in Nat /\ \A x \in Nat : F[k][x] \in Nat
    OBVIOUS
  <2> HIDE DEF G, F
  <2> QED
    BY <2>1 DEF Stays
<1> HIDE DEF G, F
<1>2. PICK d \in [Nat -> Nat] : \A k \in Nat : Tenth(d, 1, G, F, k)
  <2>1. 1 \in Nat \ {0}
    OBVIOUS
  <2> QED
    BY <1>1, <2>1, DescentExists
<1>3. \A k \in Nat : d[k] = IF k = 0 THEN 0 ELSE 1 + d[k \div 10]
  <2> SUFFICES ASSUME NEW k \in Nat PROVE d[k] = IF k = 0 THEN 0 ELSE 1 + d[k \div 10]
    OBVIOUS
  <2>1. d[k] = IF k < 1 THEN G[k] ELSE F[k][d[k \div 10]]
    BY <1>2 DEF Tenth
  <2>2. d[k \div 10] \in Nat /\ (k < 1 <=> k = 0)
    BY <1>2
  <2> QED
    BY <2>1, <2>2 DEF G, F
<1>4. d = [k \in Nat |-> IF k = 0 THEN 0 ELSE 1 + d[k \div 10]]
  BY <1>2, <1>3
<1>5. DividedTo = [k \in Nat |-> IF k = 0 THEN 0 ELSE 1 + DividedTo[k \div 10]]
  BY <1>4, Zenon DEF DividedTo
<1>6. \A k \in Nat : DividedTo[k] = IF k = 0 THEN 0 ELSE 1 + DividedTo[k \div 10]
  BY <1>5, Zenon
<1>7. \A k \in Nat : DividedTo[k] = d[k]
  <2> DEFINE Bad == {k \in Nat : DividedTo[k] # d[k]}
  <2>1. CASE Bad = {}
    BY <2>1
  <2>2. CASE Bad # {}
    <3>1. Bad \in SUBSET Nat
      OBVIOUS
    <3>2. PICK k \in Bad : \A j \in Bad : k <= j
      <4> HIDE DEF Bad
      <4> QED
        BY <2>2, <3>1, LeastOne
    <3>3. k \in Nat /\ DividedTo[k] # d[k]
      OBVIOUS
    <3>4. k # 0
      BY <1>3, <1>6, <3>3
    <3>5. k \div 10 \in Nat /\ ~(k <= k \div 10)
      BY <3>3, <3>4
    <3>6. DividedTo[k \div 10] = d[k \div 10]
      BY <3>2, <3>5
    <3> QED
      BY <1>3, <1>6, <3>3, <3>4, <3>6
  <2> QED
    BY <2>1, <2>2
<1> QED
  BY <1>2, <1>6, <1>7

(* getattr tells the length of the text that read returns. *)
LEMMA SizeIsLength ==
  ASSUME NEW n \in Nat
  PROVE  /\ Files!LogText(n) \in Seq(Digit \cup {"\n"}) /\ Files!LogSize(n) = Len(Files!LogText(n))
<1> DEFINE Right(k) == Len(DigitsTo[k]) = IF DividedTo[k] = 0 THEN 1 ELSE DividedTo[k]
           Bad == {k \in Nat : ~Right(k)}
<1>1. \A k \in Nat : Right(k)
  <2>1. CASE Bad = {}
    BY <2>1
  <2>2. CASE Bad # {}
    <3>1. Bad \in SUBSET Nat
      OBVIOUS
    <3>2. PICK k \in Bad : \A j \in Bad : k <= j
      <4> HIDE DEF Bad
      <4> QED
        BY <2>2, <3>1, LeastOne
    <3>3. k \in Nat /\ ~Right(k)
      OBVIOUS
    <3>4. CASE k < 10
      <4>1. Len(DigitsTo[k]) = 1
        <5>1. DigitsTo[k] = <<k>>
          BY <3>3, <3>4, DigitsToAre
        <5> QED
          BY <5>1
      <4>2. k = 0 => DividedTo[k] = 0
        BY DividedToAre
      <4>3. k # 0 => k \div 10 = 0 /\ DividedTo[k] = 1 + DividedTo[k \div 10] /\ DividedTo[0] = 0
        BY <3>3, <3>4, DividedToAre
      <4> QED
        BY <3>3, <4>1, <4>2, <4>3
    <3>5. CASE ~(k < 10)
      <4>1. k \div 10 \in Nat /\ k \div 10 # 0 /\ ~(k <= k \div 10) /\ k # 0
        BY <3>3, <3>5
      <4>2. Right(k \div 10)
        BY <3>2, <4>1
      <4>3. DividedTo[k \div 10] \in Nat /\ DividedTo[k \div 10] # 0
        <5>1. PICK t \in Nat \ {0} : t = k \div 10
          BY <4>1
        <5>2. DividedTo[t] = 1 + DividedTo[t \div 10] /\ t \div 10 \in Nat
          BY DividedToAre
        <5>3. DividedTo[t] \in Nat /\ DividedTo[t \div 10] \in Nat
          BY <5>2, DividedToAre
        <5> QED
          BY <5>1, <5>2, <5>3
      <4>4. DividedTo[k] = 1 + DividedTo[k \div 10]
        BY <3>3, <4>1, DividedToAre
      <4>5. DigitsTo[k] = DigitsTo[k \div 10] \o <<k % 10>> /\ DigitsTo[k \div 10] \in Seq(Digit)
        BY <3>3, <3>5, <4>1, DigitsToAre
      <4>6. Len(DigitsTo[k]) = Len(DigitsTo[k \div 10]) + 1
        <5>1. PICK s \in Seq(Digit) : s = DigitsTo[k \div 10]
          BY <4>5
        <5>2. PICK e : e = <<k % 10>>
          OBVIOUS
        <5>3. e \in Seq(Digit) /\ Len(e) = 1
          <6>1. k % 10 \in Digit
            BY <3>3 DEF Digit
          <6> QED
            BY <5>2, <6>1
        <5>4. Len(s \o e) = Len(s) + Len(e)
          BY <5>3, ConcatProperties
        <5> QED
          BY <4>5, <5>1, <5>2, <5>3, <5>4
      <4> QED
        BY <3>3, <4>2, <4>3, <4>4, <4>6
    <3> QED
      BY <3>4, <3>5
  <2> QED
    BY <2>1, <2>2
<1>2. PICK s \in Seq(Digit \cup {"\n"}) : s = DigitsTo[n]
  <2>1. Seq(Digit) \subseteq Seq(Digit \cup {"\n"})
    OBVIOUS
  <2> QED
    BY <2>1, DigitsToAre
<1>3. PICK e \in Seq(Digit \cup {"\n"}) : e = <<"\n">> /\ Len(e) = 1
  <2>1. "\n" \in Digit \cup {"\n"} /\ Len(<<"\n">>) = 1
    OBVIOUS
  <2>2. <<"\n">> \in Seq(Digit \cup {"\n"})
    BY <2>1
  <2> QED
    BY <2>1, <2>2
<1>4. Files!LogText(n) = s \o e
  BY <1>2, <1>3, DigitsAre DEF Files!LogText
<1>5. s \o e \in Seq(Digit \cup {"\n"}) /\ Len(s \o e) = Len(s) + 1
  BY <1>3, ConcatProperties
<1>6. Files!LogSize(n) = Len(s) + 1
  <2> HIDE DEF Bad
  <2> QED
    BY <1>1, <1>2, SizeCounts
<1> QED
  BY <1>4, <1>5, <1>6

LEMMA TwoParts ==
  ASSUME NEW D, NEW s \in Seq(D), NEW a \in Nat, NEW b \in Nat, a + b <= Len(s)
  PROVE  /\ Part(s, 0, a) \in Seq(D) /\ Part(s, a, b) \in Seq(D)
         /\ \A l \in Nat : l = a + b => IsJoin(Part(s, 0, l), Part(s, 0, a), Part(s, a, b))
<1>1. Len(s) \in Nat /\ 0 \in Nat /\ 0 + a <= Len(s) /\ a + b \in Nat /\ 0 + (a + b) <= Len(s)
  OBVIOUS
<1>2. \A m \in Nat : \A n \in Nat : m + n <= Len(s) =>
         /\ Part(s, m, n) \in Seq(D) /\ Len(Part(s, m, n)) = n
         /\ \A i \in 1..n : Part(s, m, n)[i] = s[m + i]
  <2> SUFFICES ASSUME NEW m \in Nat, NEW n \in Nat, m + n <= Len(s)
               PROVE  /\ Part(s, m, n) \in Seq(D) /\ Len(Part(s, m, n)) = n
                      /\ \A i \in 1..n : Part(s, m, n)[i] = s[m + i]
    OBVIOUS
  <2>1. \A i \in m + 1..m + n : s[i] \in D
    BY <1>1
  <2> DEFINE p == SubSeq(s, m + 1, m + n)
  <2>2. /\ p \in Seq(D) /\ Len(p) = IF m + 1 <= m + n THEN m + n - (m + 1) + 1 ELSE 0
        /\ \A i \in 1..m + n - (m + 1) + 1 : p[i] = s[m + 1 + i - 1]
    BY <2>1, SubSeqProperties
  <2>3. m + n - (m + 1) + 1 = n /\ (m + 1 <= m + n <=> n # 0) /\ \A i \in 1..n : m + 1 + i - 1 = m + i
    OBVIOUS
  <2> HIDE DEF p
  <2>4. p \in Seq(D) /\ Len(p) = n /\ \A i \in 1..n : p[i] = s[m + i]
    BY <2>2, <2>3
  <2> QED
    BY <2>4 DEF Part, p
<1>3. PICK x \in Seq(D) : x = Part(s, 0, a) /\ Len(x) = a /\ \A i \in 1..a : x[i] = s[i]
  <2>1. Part(s, 0, a) \in Seq(D) /\ Len(Part(s, 0, a)) = a /\ \A i \in 1..a : Part(s, 0, a)[i] = s[0 + i]
    BY <1>1, <1>2
  <2>2. \A i \in 1..a : 0 + i = i
    OBVIOUS
  <2> QED
    BY <2>1, <2>2
<1>4. PICK y \in Seq(D) : y = Part(s, a, b) /\ Len(y) = b /\ \A i \in 1..b : y[i] = s[a + i]
  BY <1>2
<1>5. PICK z \in Seq(D) : z = Part(s, 0, a + b) /\ Len(z) = a + b /\ \A i \in 1..a + b : z[i] = s[i]
  <2> DEFINE n == a + b
  <2>0. n \in Nat /\ 0 + n <= Len(s)
    BY <1>1
  <2> HIDE DEF n
  <2>1. Part(s, 0, n) \in Seq(D) /\ Len(Part(s, 0, n)) = n /\ \A i \in 1..n : Part(s, 0, n)[i] = s[0 + i]
    BY <1>1, <1>2, <2>0
  <2>2. \A i \in 1..n : 0 + i = i
    BY <2>0
  <2>3. \A i \in 1..n : Part(s, 0, n)[i] = s[i]
    BY <2>1, <2>2
  <2> QED
    BY <2>1, <2>3 DEF n
<1>6. PICK u \in Seq(D) : u = x \o y
  BY ConcatProperties
<1>7. IsJoin(u, x, y)
  BY <1>6 DEF IsJoin
<1>8. Len(u) = a + b /\ (\A i \in 1..a : u[i] = x[i]) /\ (\A i \in 1..b : u[a + i] = y[i])
  <2>1. Len(u) = Len(x) + Len(y) /\ (\A i \in 1..Len(x) : u[i] = x[i]) /\ (\A i \in 1..Len(y) : u[Len(x) + i] = y[i])
    <3>1. \A v : IsJoin(v, x, y) => /\ Len(v) = Len(x) + Len(y) /\ \A i \in 1..Len(x) : v[i] = x[i]
                                    /\ \A i \in 1..Len(y) : v[Len(x) + i] = y[i]
      BY ConcatIs
    <3> QED
      BY <1>7, <3>1
  <2> QED
    BY <1>3, <1>4, <2>1
<1>9. ASSUME NEW i \in 1..a + b PROVE u[i] = z[i]
  <2>1. CASE i <= a
    <3>1. i \in 1..a
      BY <2>1
    <3> QED
      BY <1>3, <1>5, <1>8, <3>1
  <2>2. CASE i > a
    <3>1. i - a \in 1..b /\ a + (i - a) = i
      BY <2>2
    <3>2. u[a + (i - a)] = s[a + (i - a)]
      BY <1>4, <1>8, <3>1
    <3> QED
      BY <1>5, <3>1, <3>2
  <2> QED
    BY <2>1, <2>2
<1>10. u = z
  BY <1>5, <1>8, <1>9, SeqEqual
<1>11. IsJoin(Part(s, 0, a + b), Part(s, 0, a), Part(s, a, b))
  BY <1>3, <1>4, <1>5, <1>6, <1>10 DEF IsJoin
<1> QED
  BY <1>3, <1>4, <1>11

LEMMA PiecesRead ==
  ASSUME NEW D, NEW text \in Seq(D), text # <<>>, NEW B \in Nat \ {0}
  PROVE  FlattenSeq([k \in 1..(Len(text) + B - 1) \div B |-> Files!ReadAt(text, (k - 1) * B, B)]) = text
<1> DEFINE n == Len(text)
           c == (n + B - 1) \div B
           r == (n + B - 1) % B
<1>1. n \in Nat \ {0}
  BY EmptySeq
<1>2. c \in Nat /\ r \in 0..B - 1 /\ n + B - 1 = B * c + r
  <2> DEFINE l == n + B - 1
  <2>1. l \in Nat
    BY <1>1
  <2> HIDE DEF l
  <2>2. l \div B \in Nat /\ l % B \in 0..B - 1 /\ l = B * (l \div B) + (l % B)
    BY <2>1, DivModIs
  <2> QED
    BY <2>2 DEF l
<1> HIDE DEF r, c
<1>3. PICK e \in Nat : e = B * c
  BY <1>2, MulMono
<1>4. n + B - 1 = e + r /\ c # 0
  <2>1. n + B - 1 = e + r
    BY <1>2, <1>3
  <2>2. c = 0 => e = 0
    BY <1>3
  <2>3. e # 0
    BY <1>1, <1>2, <2>1
  <2> QED
    BY <2>1, <2>2, <2>3
(* Where piece k begins, and what was read before it. *)
<1> DEFINE From(k) == B * (k - 1)
           Many(k) == IF n - From(k) <= B THEN n - From(k) ELSE B
           g == [k \in 1..c |-> Files!ReadAt(text, (k - 1) * B, B)]
           f == [k \in 1..c |-> Part(text, 0, From(k) + Many(k))]
<1>5. ASSUME NEW k \in 1..c
      PROVE  /\ From(k) \in Nat /\ From(k) < n /\ Many(k) \in Nat /\ From(k) + Many(k) <= n
             /\ k = c => From(k) + Many(k) = n
             /\ k # c => From(k) + Many(k) = From(k + 1)
  <2>1. k - 1 \in Nat /\ c - k \in Nat
    BY <1>2
  <2>2. From(k) \in Nat /\ From(k) + B <= e
    <3>1. k - 1 < c
      BY <1>2
    <3>2. B * (k - 1) \in Nat /\ B * (k - 1) + B <= B * c
      BY <1>2, <2>1, <3>1, MulMono
    <3> QED
      BY <1>3, <3>2
  <2>3. k = c => From(k) + B = e
    BY <1>2, <1>3, <2>1
  <2>4. k # c => From(k + 1) = From(k) + B /\ From(k) + B + B <= e
    <3> SUFFICES ASSUME k # c PROVE From(k + 1) = From(k) + B /\ From(k) + B + B <= e
      OBVIOUS
    <3>1. k \in Nat /\ k < c
      BY <1>2
    <3>2. B * k + B <= B * c
      BY <1>2, <3>1, MulMono
    <3>3. B * k = B * (k - 1) + B /\ k + 1 - 1 = k
      BY <3>1
    <3> QED
      BY <1>3, <3>2, <3>3
  <2> HIDE DEF From
  <2>5. From(k) < n
    BY <1>1, <1>2, <1>4, <2>2
  <2>6. Many(k) \in Nat /\ From(k) + Many(k) <= n
    BY <1>1, <2>2, <2>5
  <2>7. k = c => From(k) + Many(k) = n
    BY <1>1, <1>2, <1>4, <2>2, <2>3
  <2>8. k # c => From(k) + Many(k) = From(k + 1)
    BY <1>1, <1>2, <1>4, <2>2, <2>4
  <2> QED
    BY <2>2, <2>5, <2>6, <2>7, <2>8
<1>6. ASSUME NEW k \in 1..c PROVE g[k] = Part(text, From(k), Many(k))
  <2>1. (k - 1) * B = From(k)
    BY <1>2
  <2>2. Files!ReadAt(text, From(k), B) = Part(text, From(k), Many(k))
    <3>1. From(k) \in Nat /\ From(k) < n
      BY <1>5
    <3> HIDE DEF From
    <3>2. n - From(k) <= B => From(k) + Many(k) = n
      BY <1>1, <3>1
    <3> QED
      BY <1>1, <3>1, <3>2 DEF Files!ReadAt, Part
  <2> QED
    BY <2>1, <2>2
<1>7. Len(g) = c
  BY <1>2
<1> HIDE DEF From, Many, g, n
<1>8. ASSUME NEW k \in 1..c PROVE f[k] = IF k = 1 THEN g[k] ELSE f[k - 1] \o g[k]
  <2>1. f[k] = Part(text, 0, From(k) + Many(k))
    OBVIOUS
  <2>2. CASE k = 1
    <3>1. From(1) = 0 /\ Many(1) \in Nat /\ From(1) + Many(1) = Many(1)
      <4>1. From(1) = 0
        BY DEF From
      <4> QED
        BY <1>5, <2>2, <4>1
    <3> QED
      BY <1>6, <2>1, <2>2, <3>1
  <2>3. CASE k # 1
    <3>1. k - 1 \in 1..c /\ k - 1 # c /\ (k - 1) + 1 = k
      BY <1>2, <2>3
    <3>2. From(k - 1) + Many(k - 1) = From(k)
      BY <1>5, <3>1
    <3>3. f[k - 1] = Part(text, 0, From(k))
      BY <3>1, <3>2
    <3>4. PICK a \in Nat : a = From(k)
      BY <1>5
    <3>5. PICK b \in Nat : b = Many(k) /\ a + b <= Len(text)
      BY <1>5, <3>4 DEF n
    <3>6. \A l \in Nat : l = a + b => IsJoin(Part(text, 0, l), Part(text, 0, a), Part(text, a, b))
      BY <3>5, TwoParts
    <3>7. Part(text, 0, a + b) = Part(text, 0, a) \o Part(text, a, b)
      BY <3>6 DEF IsJoin
    <3> QED
      BY <1>6, <2>1, <2>3, <3>3, <3>4, <3>5, <3>7
  <2> QED
    BY <2>2, <2>3
<1>9. g \in Seq(Seq(D))
  <2>1. ASSUME NEW k \in 1..c PROVE g[k] \in Seq(D)
    <3>1. PICK a \in Nat : a = From(k)
      BY <1>5
    <3>2. PICK b \in Nat : b = Many(k) /\ a + b <= Len(text)
      BY <1>5, <3>1 DEF n
    <3>3. Part(text, a, b) \in Seq(D)
      BY <3>2, TwoParts
    <3> QED
      BY <1>6, <3>1, <3>2, <3>3
  <2>2. g = [k \in 1..c |-> g[k]]
    BY DEF g
  <2> QED
    BY <1>2, <2>1, <2>2
<1>10. c \in 1..c /\ f[c] = text
  <2>1. c \in 1..c
    BY <1>2, <1>4
  <2>2. f[c] = Part(text, 0, n)
    BY <1>5, <2>1
  <2>3. Part(text, 0, n) = text
    BY DEF Part, n
  <2> QED
    BY <2>1, <2>2, <2>3
<1> HIDE DEF f
<1>11. Joins(f, g, Len(g))
  BY <1>7, <1>8 DEF Joins
<1>12. FlattenSeq(g) = f[c]
  BY <1>4, <1>7, <1>9, <1>11, FlattenIs
<1> QED
  BY <1>10, <1>12 DEF g, c, n

(* A path is asked for, or a level is written and read back: 10 stands for what is no digit. *)
SpecialInit(Names) ==
  /\ answer = <<>>
  /\ \/ /\ job = "path"
        /\ question \in [path : Seq(Names), to : Seq(Names), beyond : {Files!Slash, "end", "other"}]
     \/ /\ job = "log"
        /\ question \in [level : Nat, byte : 0..10, size : Nat \ {0}]

SpecialNext == (AskPath \/ WriteLog \/ ReadLog) /\ UNCHANGED <<job, question>>

SpecialSpec(Names) == SpecialInit(Names) /\ [][SpecialNext]_<<job, question, answer>>

Level == IF question.byte = 10 THEN question.level ELSE question.byte

SpecialInv ==
  \/ job = "path" /\ answer \in {<<>>, <<"answers", Files!Answers(question.path, question.to, question.beyond)>>}
  \/ /\ job = "log" /\ question \in [level : Nat, byte : 0..10, size : Nat \ {0}]
     /\ answer \in {<<>>, <<"level", Level>>, <<"log", Files!ReadPieces(Level, question.size)>>}

LEMMA WholeLevelRead ==
  ASSUME NEW n \in Nat, NEW size_ \in Nat \ {0} PROVE Files!ReadPieces(n, size_) = Files!LogText(n)
<1>1. PICK text \in Seq(Digit \cup {"\n"}) : text = Files!LogText(n) /\ Len(text) = Files!LogSize(n)
  BY SizeIsLength
<1>2. text # <<>>
  <2>1. Files!LogSize(n) # 0
    <3>1. PICK d \in Nat : d = DividedTo[n]
      BY DividedToAre
    <3>2. Files!LogSize(n) = (IF d = 0 THEN 1 ELSE d) + 1
      BY <3>1, SizeCounts
    <3> QED
      BY <3>2
  <2> QED
    BY <1>1, <2>1
<1>3. FlattenSeq([k \in 1..(Len(text) + size_ - 1) \div size_ |-> Files!ReadAt(text, (k - 1) * size_, size_)]) = text
  BY <1>2, PiecesRead
<1>4. Files!FlattenSeq([k \in 1..(Files!LogSize(n) + size_ - 1) \div size_ |-> Files!ReadAt(Files!LogText(n), (k - 1) * size_, size_)])
        = FlattenSeq([k \in 1..(Files!LogSize(n) + size_ - 1) \div size_ |-> Files!ReadAt(Files!LogText(n), (k - 1) * size_, size_)])
  BY DEF Files!FlattenSeq, FlattenSeq
<1> QED
  BY <1>1, <1>3, <1>4 DEF Files!ReadPieces

(* HandlersAgree, for every mount point, all paths, levels and sizes of reads: getattr, open,
   access and the rest know the same files below /proc and refuse the same paths, and a level
   written by a digit, or kept when it is none, is read whole by one who reads as much as
   getattr says there is, in pieces of any size. *)
THEOREM HandlersAlwaysAgree == ASSUME NEW Names PROVE SpecialSpec(Names) => []HandlersAgree
<1>1. SpecialInit(Names) => SpecialInv
  BY DEF SpecialInit, SpecialInv
<1>2. SpecialInv /\ [SpecialNext]_<<job, question, answer>> => SpecialInv'
  <2> SUFFICES ASSUME SpecialInv, [SpecialNext]_<<job, question, answer>> PROVE SpecialInv'
    OBVIOUS
  <2>1. job' = job /\ question' = question /\ Level' = Level
    BY DEF SpecialNext, Level
  <2>2. CASE AskPath
    <3>1. job = "path" /\ answer' = <<"answers", Files!Answers(question.path, question.to, question.beyond)>>
      BY <2>2 DEF AskPath, Asked, Answers
    <3> QED
      BY <2>1, <3>1 DEF SpecialInv
  <2>3. CASE WriteLog
    <3>1. job = "log" /\ answer' = <<"level", Files!LevelWritten(question.level, question.byte)>>
      BY <2>3 DEF WriteLog, Asked, Answers
    <3>2. question \in [level : Nat, byte : 0..10, size : Nat \ {0}]
      BY <3>1 DEF SpecialInv
    <3>3. Files!LevelWritten(question.level, question.byte) = Level
      BY <3>2 DEF Files!LevelWritten, Level
    <3> QED
      BY <2>1, <3>1, <3>2, <3>3 DEF SpecialInv
  <2>4. CASE ReadLog
    <3>1. job = "log" /\ answer[1] = "level" /\ answer # <<>>
          /\ answer' = <<"log", Files!ReadPieces(answer[2], question.size)>>
      BY <2>4 DEF ReadLog, Answers
    <3>2. answer = <<"level", Level>> /\ question \in [level : Nat, byte : 0..10, size : Nat \ {0}]
      BY <3>1 DEF SpecialInv
    <3> QED
      BY <2>1, <3>1, <3>2 DEF SpecialInv
  <2>5. CASE UNCHANGED <<job, question, answer>>
    BY <2>1, <2>5 DEF SpecialInv
  <2> QED
    BY <2>2, <2>3, <2>4, <2>5 DEF SpecialNext
<1>3. SpecialInv => HandlersAgree
  <2>1. ASSUME SpecialInv, job = "path", answer # <<>>
        PROVE  Files!Agree(question.path, question.to, question.beyond, answer[2])
    <3>1. answer[2] = Files!Answers(question.path, question.to, question.beyond)
      BY <2>1 DEF SpecialInv
    <3> QED
      BY <3>1, AnswersAgree
  <2>2. ASSUME SpecialInv, job = "log", answer # <<>>, answer[1] = "log" PROVE answer[2] = Files!LogText(Level)
    <3>1. answer = <<"log", Files!ReadPieces(Level, question.size)>>
          /\ question \in [level : Nat, byte : 0..10, size : Nat \ {0}]
      BY <2>2 DEF SpecialInv
    <3>2. Level \in Nat /\ question.size \in Nat \ {0}
      BY <3>1 DEF Level
    <3>3. Files!ReadPieces(Level, question.size) = Files!LogText(Level)
      BY <3>2, WholeLevelRead
    <3> QED
      BY <3>1, <3>3
  <2> QED
    BY <2>1, <2>2 DEF HandlersAgree, Level
<1> QED
  BY <1>1, <1>2, <1>3, PTL DEF SpecialSpec

------------------------------------------------------------------------------
(* AppConfig.  A function that is given on from n + 1, and before from its value further on. *)
Joint(f, A, J, i) == f[i] = A[i] \o f[J[i]]

Goes(f, A, J, m, n) == f[n + 1] = <<>> /\ \A i \in m..n : Joint(f, A, J, i)

Onward(B, A, J, n) == \A i \in 1..n : A[i] \in Seq(B) /\ J[i] \in i + 1..n + 1

LEMMA GoingFrom ==
  ASSUME NEW B, NEW n \in Nat, NEW A, NEW J, Onward(B, A, J, n), NEW k \in 0..n
  PROVE  \E f \in [n + 1 - k..n + 1 -> Seq(B)] : Goes(f, A, J, n + 1 - k, n)
<1> DEFINE There(j) == \E f \in [n + 1 - j..n + 1 -> Seq(B)] : Goes(f, A, J, n + 1 - j, n)
           Bad == {j \in 0..n : ~There(j)}
<1>1. There(0)
  <2> DEFINE f == [i \in n + 1..n + 1 |-> <<>>]
  <2>1. f \in [n + 1..n + 1 -> Seq(B)] /\ f[n + 1] = <<>> /\ n + 1..n = {} /\ n + 1 - 0 = n + 1
    OBVIOUS
  <2> HIDE DEF f
  <2>2. Goes(f, A, J, n + 1, n)
    BY <2>1 DEF Goes
  <2> QED
    BY <2>1, <2>2
<1>2. ASSUME NEW j \in 0..n, j # 0, There(j - 1) PROVE There(j)
  <2> DEFINE m == n + 1 - j
  <2>1. m \in 1..n /\ n + 1 - (j - 1) = m + 1 /\ m \in m..n + 1
    BY <1>2
  <2> HIDE DEF m
  <2>2. PICK f \in [m + 1..n + 1 -> Seq(B)] : Goes(f, A, J, m + 1, n)
    BY <1>2, <2>1
  <2>3. A[m] \in Seq(B) /\ J[m] \in m + 1..n + 1
    BY <2>1 DEF Onward
  <2>4. PICK x \in Seq(B) : x = A[m] \o f[J[m]]
    <3>1. PICK y \in Seq(B) : y = f[J[m]]
      BY <2>2, <2>3
    <3>2. A[m] \o y \in Seq(B)
      BY <2>3, <3>1, ConcatProperties
    <3> QED
      BY <3>1, <3>2
  <2> DEFINE g == [i \in m..n + 1 |-> IF i = m THEN x ELSE f[i]]
  <2>5. \A i \in m..n + 1 : i = m \/ i \in m + 1..n + 1
    BY <2>1
  <2>6. g \in [m..n + 1 -> Seq(B)]
    BY <2>2, <2>4, <2>5
  <2>7. g[m] = x /\ \A i \in m + 1..n + 1 : g[i] = f[i]
    BY <2>1
  <2> HIDE DEF g
  <2>8. ASSUME NEW i \in m..n PROVE Joint(g, A, J, i)
    <3>1. CASE i = m
      BY <2>3, <2>4, <2>7, <3>1 DEF Joint
    <3>2. CASE i \in m + 1..n
      <4>1. f[i] = A[i] \o f[J[i]]
        BY <2>2, <3>2 DEF Goes, Joint
      <4>2. i \in 1..n /\ i \in m + 1..n + 1
        BY <2>1, <3>2
      <4>3. J[i] \in i + 1..n + 1
        BY <4>2 DEF Onward
      <4>4. J[i] \in m + 1..n + 1
        BY <2>1, <4>2, <4>3
      <4>5. g[i] = f[i] /\ g[J[i]] = f[J[i]]
        BY <2>7, <4>2, <4>4
      <4> QED
        BY <4>1, <4>5 DEF Joint
    <3> QED
      BY <2>1, <3>1, <3>2
  <2>9. g[n + 1] = <<>>
    <3>1. n + 1 \in m + 1..n + 1
      BY <2>1
    <3>2. f[n + 1] = <<>>
      BY <2>2 DEF Goes
    <3> QED
      BY <2>7, <3>1, <3>2
  <2>10. Goes(g, A, J, m, n)
    BY <2>8, <2>9 DEF Goes
  <2> QED
    BY <2>6, <2>10 DEF m
<1>3. CASE Bad = {}
  BY <1>3
<1>4. CASE Bad # {}
  <2>1. Bad \in SUBSET Nat
    OBVIOUS
  <2>2. PICK j \in Bad : \A i \in Bad : j <= i
    <3> HIDE DEF Bad
    <3> QED
      BY <1>4, <2>1, LeastOne
  <2>3. j \in 0..n /\ ~There(j)
    OBVIOUS
  <2>4. j # 0
    BY <1>1, <2>3
  <2>5. j - 1 \in 0..n /\ ~(j <= j - 1)
    BY <2>3, <2>4
  <2>6. There(j - 1)
    BY <2>2, <2>5
  <2> HIDE DEF There
  <2> QED
    BY <1>2, <2>3, <2>4, <2>6
<1> QED
  BY <1>3, <1>4

LEMMA GoingExists ==
  ASSUME NEW B, NEW n \in Nat, NEW A, NEW J, Onward(B, A, J, n)
  PROVE  \E f \in [1..n + 1 -> Seq(B)] : Goes(f, A, J, 1, n)
<1>1. n \in 0..n /\ n + 1 - n = 1
  OBVIOUS
<1>2. \E f \in [n + 1 - n..n + 1 -> Seq(B)] : Goes(f, A, J, n + 1 - n, n)
  BY <1>1, GoingFrom
<1> QED
  BY <1>1, <1>2

LEMMA GoingUnique ==
  ASSUME NEW B, NEW n \in Nat, NEW A, NEW J, Onward(B, A, J, n),
         NEW f, NEW g, Goes(f, A, J, 1, n), Goes(g, A, J, 1, n)
  PROVE  \A i \in 1..n + 1 : f[i] = g[i]
<1> DEFINE Bad == {k \in 0..n : f[n + 1 - k] # g[n + 1 - k]}
<1>1. CASE Bad = {}
  <2>1. \A i \in 1..n + 1 : n + 1 - i \in 0..n /\ n + 1 - (n + 1 - i) = i
    OBVIOUS
  <2>2. \A k \in 0..n : f[n + 1 - k] = g[n + 1 - k]
    BY <1>1
  <2> QED
    BY <2>1, <2>2
<1>2. CASE Bad # {}
  <2>1. Bad \in SUBSET Nat
    OBVIOUS
  <2>2. PICK k \in Bad : \A j \in Bad : k <= j
    <3> HIDE DEF Bad
    <3> QED
      BY <1>2, <2>1, LeastOne
  <2>3. k \in 0..n /\ f[n + 1 - k] # g[n + 1 - k]
    OBVIOUS
  <2> DEFINE i == n + 1 - k
  <2>4. k # 0 /\ i \in 1..n
    <3>1. k = 0 => n + 1 - k = n + 1
      BY <2>3
    <3>2. k # 0
      BY <2>3, <3>1 DEF Goes
    <3> QED
      BY <2>3, <3>2
  <2>5. f[i] # g[i] /\ k = n + 1 - i
    BY <2>3
  <2> HIDE DEF i
  <2>6. J[i] \in i + 1..n + 1
    BY <2>4 DEF Onward
  <2> DEFINE j == n + 1 - J[i]
  <2>7. j \in 0..n /\ ~(k <= j) /\ n + 1 - j = J[i]
    BY <2>3, <2>4, <2>5, <2>6
  <2> HIDE DEF j
  <2>8. f[J[i]] = g[J[i]]
    BY <2>2, <2>7
  <2>9. f[i] = A[i] \o f[J[i]] /\ g[i] = A[i] \o g[J[i]]
    BY <2>4 DEF Goes, Joint
  <2> QED
    BY <2>5, <2>8, <2>9
<1> QED
  BY <1>1, <1>2

(* Where the first of some characters is. *)
Lacks(T, chars, i, e) == \A j \in i..e - 1 : T[j] \notin chars

LEMMA FoundFirst ==
  ASSUME NEW B, NEW T \in Seq(B), NEW i \in 1..Len(T) + 1, NEW chars
  PROVE  \E e \in i..Len(T) + 1 : /\ e = Config!FindFirst(T, i, chars) /\ Lacks(T, chars, i, e)
                                  /\ e <= Len(T) => T[e] \in chars
<1> DEFINE found == {j \in i..Len(T) : T[j] \in chars}
           e == Config!FindFirst(T, i, chars)
<1>1. Len(T) \in Nat /\ found \in SUBSET Nat
  OBVIOUS
<1>2. CASE found = {}
  <2>1. e = Len(T) + 1
    BY <1>2 DEF Config!FindFirst
  <2>2. Lacks(T, chars, i, e)
    <3>1. \A j \in i..e - 1 : j \in i..Len(T)
      BY <1>1, <2>1
    <3> QED
      BY <1>2, <3>1 DEF Lacks
  <2> QED
    BY <1>1, <2>1, <2>2
<1>3. CASE found # {}
  <2>1. e = CHOOSE j \in found : \A k \in found : j <= k
    BY <1>3 DEF Config!FindFirst
  <2>2. \E j \in found : \A k \in found : j <= k
    <3> HIDE DEF found
    <3> QED
      BY <1>1, <1>3, LeastOne
  <2>3. e \in found /\ \A k \in found : e <= k
    <3> HIDE DEF found, e
    <3> QED
      BY <2>1, <2>2, Zenon
  <2> HIDE DEF e
  <2>4. e \in i..Len(T) /\ T[e] \in chars
    BY <2>3
  <2>5. Lacks(T, chars, i, e)
    <3> SUFFICES ASSUME NEW j \in i..e - 1, T[j] \in chars PROVE FALSE
      BY DEF Lacks
    <3>1. j \in i..Len(T) /\ ~(e <= j)
      BY <1>1, <2>4
    <3> QED
      BY <2>3, <3>1
  <2>6. e \in i..Len(T) + 1
    BY <1>1, <2>4
  <2> QED
    BY <2>4, <2>5, <2>6 DEF e
<1> QED
  BY <1>2, <1>3

LEMMA FoundAt ==
  ASSUME NEW B, NEW T \in Seq(B), NEW i \in 1..Len(T) + 1, NEW chars, NEW d \in i..Len(T) + 1,
         Lacks(T, chars, i, d), d <= Len(T) => T[d] \in chars
  PROVE  Config!FindFirst(T, i, chars) = d
<1>1. PICK e \in i..Len(T) + 1 : /\ e = Config!FindFirst(T, i, chars) /\ Lacks(T, chars, i, e)
                                 /\ e <= Len(T) => T[e] \in chars
  BY FoundFirst
<1>2. ASSUME e < d PROVE FALSE
  <2>1. e \in i..d - 1 /\ e <= Len(T)
    BY <1>1, <1>2
  <2> QED
    BY <1>1, <2>1 DEF Lacks
<1>3. ASSUME d < e PROVE FALSE
  <2>1. d \in i..e - 1 /\ d <= Len(T)
    BY <1>1, <1>3
  <2> QED
    BY <1>1, <2>1 DEF Lacks
<1>4. e = d
  BY <1>2, <1>3
<1> QED
  BY <1>1, <1>4

(* What the expansion of T makes of the character at i, and where it goes on. *)
Brace == {Config!Closing}

Value(name) == IF name \in DOMAIN Environment THEN Environment[name] ELSE <<>>

Values(B) == \A name : name \in DOMAIN Environment => Environment[name] \in Seq(B)

EndAt(T, i) == Config!FindFirst(T, i + 2, Brace)

Opens(T, i) == T[i] = Config!Dollar /\ i < Len(T) /\ T[i + 1] = Config!Opening

Closed(T, i) == Opens(T, i) /\ EndAt(T, i) <= Len(T)

Emits(T) == [i \in 1..Len(T) |-> IF Closed(T, i) THEN Value(SubSeq(T, i + 2, EndAt(T, i) - 1)) ELSE <<T[i]>>]

Follows(T) == [i \in 1..Len(T) |-> IF Closed(T, i) THEN EndAt(T, i) + 1 ELSE i + 1]

LEMMA EndIs ==
  ASSUME NEW B, NEW T \in Seq(B), NEW i \in 1..Len(T), Opens(T, i)
  PROVE  \E e \in i + 2..Len(T) + 1 : e = EndAt(T, i)
<1>0. i < Len(T)
  BY Zenon DEF Opens
<1>1. Len(T) \in Nat /\ i < Len(T)
  BY <1>0
<1> DEFINE j == i + 2
<1>2. j \in 1..Len(T) + 1
  BY <1>1
<1> HIDE DEF j
<1>3. \E e \in j..Len(T) + 1 : e = Config!FindFirst(T, j, Brace)
  BY <1>2, FoundFirst
<1> QED
  BY <1>3 DEF j, EndAt

LEMMA ExpandsOnward ==
  ASSUME NEW B, Values(B), NEW T \in Seq(B) PROVE Onward(B, Emits(T), Follows(T), Len(T))
<1>1. Len(T) \in Nat /\ \A i \in 1..Len(T) : T[i] \in B
  OBVIOUS
<1> SUFFICES ASSUME NEW i \in 1..Len(T) PROVE Emits(T)[i] \in Seq(B) /\ Follows(T)[i] \in i + 1..Len(T) + 1
  BY DEF Onward
<1>2. CASE Closed(T, i)
  <2>1. i < Len(T) /\ EndAt(T, i) <= Len(T)
    BY <1>2 DEF Closed, Opens
  <2>3. PICK e \in i + 2..Len(T) + 1 : e = EndAt(T, i)
    BY <1>2, EndIs DEF Closed
  <2>4. Follows(T)[i] = e + 1 /\ e + 1 \in i + 1..Len(T) + 1
    BY <1>1, <1>2, <2>1, <2>3 DEF Follows
  <2>5. \A v : Value(v) \in Seq(B)
    <3>1. <<>> \in Seq(B)
      OBVIOUS
    <3> QED
      BY <3>1 DEF Value, Values
  <2> QED
    BY <1>2, <2>4, <2>5 DEF Emits
<1>3. CASE ~Closed(T, i)
  <2>1. Emits(T)[i] = <<T[i]>> /\ Follows(T)[i] = i + 1
    BY <1>3 DEF Emits, Follows
  <2> QED
    BY <1>1, <2>1
<1> QED
  BY <1>2, <1>3

(* The expansion, with g for what it makes of the rest. *)
Expanding(T, g) ==
  [i \in 1..Len(T) + 1 |->
     IF i > Len(T) THEN <<>>
     ELSE IF T[i] = Config!Dollar /\ i < Len(T) /\ T[i + 1] = Config!Opening
          THEN LET end == Config!FindFirst(T, i + 2, {Config!Closing})
                   name == SubSeq(T, i + 2, end - 1)
               IN  IF end > Len(T) THEN <<Config!Dollar>> \o g[i + 1]
                   ELSE (IF name \in DOMAIN Environment THEN Environment[name] ELSE <<>>)
                        \o g[end + 1]
          ELSE <<T[i]>> \o g[i + 1]]

LEMMA ExpandingIs ==
  ASSUME NEW B, NEW T \in Seq(B), NEW g
  PROVE  /\ Expanding(T, g)[Len(T) + 1] = <<>>
         /\ \A i \in 1..Len(T) : Expanding(T, g)[i] = Emits(T)[i] \o g[Follows(T)[i]]
<1>1. Len(T) \in Nat /\ Len(T) + 1 \in 1..Len(T) + 1 /\ Len(T) + 1 > Len(T)
  OBVIOUS
<1>2. Expanding(T, g)[Len(T) + 1] = <<>>
  BY <1>1, Zenon DEF Expanding
<1>3. ASSUME NEW i \in 1..Len(T) PROVE Expanding(T, g)[i] = Emits(T)[i] \o g[Follows(T)[i]]
  <2>1. ~(i > Len(T)) /\ i \in 1..Len(T) + 1
    BY <1>1
  <2> DEFINE x == Expanding(T, g)[i]
  <2>2. x = IF Opens(T, i)
            THEN IF EndAt(T, i) > Len(T) THEN <<Config!Dollar>> \o g[i + 1]
                 ELSE Value(SubSeq(T, i + 2, EndAt(T, i) - 1)) \o g[EndAt(T, i) + 1]
            ELSE <<T[i]>> \o g[i + 1]
    BY <2>1, Zenon DEF Expanding, Opens, EndAt, Brace, Value
  <2> HIDE DEF x
  <2>3. CASE Closed(T, i)
    <3>1. PICK e \in i + 2..Len(T) + 1 : e = EndAt(T, i)
      BY <2>3, EndIs DEF Closed
    <3>2. e <= Len(T) /\ Opens(T, i)
      BY <2>3, <3>1 DEF Closed
    <3>3. ~(e > Len(T))
      BY <1>1, <3>1, <3>2
    <3>4. x = Value(SubSeq(T, i + 2, e - 1)) \o g[e + 1]
      BY <2>2, <3>1, <3>2, <3>3
    <3>5. Emits(T)[i] = Value(SubSeq(T, i + 2, e - 1)) /\ Follows(T)[i] = e + 1
      BY <2>3, <3>1 DEF Emits, Follows
    <3> QED
      BY <3>4, <3>5 DEF x
  <2>4. CASE ~Closed(T, i)
    <3>1. Emits(T)[i] = <<T[i]>> /\ Follows(T)[i] = i + 1
      BY <2>4 DEF Emits, Follows
    <3>2. CASE Opens(T, i)
      <4>1. PICK e \in i + 2..Len(T) + 1 : e = EndAt(T, i)
        BY <3>2, EndIs
      <4>2. ~(e <= Len(T)) /\ T[i] = Config!Dollar
        BY <2>4, <3>2, <4>1 DEF Closed, Opens
      <4>3. e > Len(T)
        BY <1>1, <4>1, <4>2
      <4>4. x = <<Config!Dollar>> \o g[i + 1]
        BY <2>2, <3>2, <4>1, <4>3
      <4> QED
        BY <3>1, <4>2, <4>4 DEF x
    <3>3. CASE ~Opens(T, i)
      BY <2>2, <3>1, <3>3 DEF x
    <3> QED
      BY <3>2, <3>3
  <2> QED
    BY <2>3, <2>4
<1> QED
  BY <1>2, <1>3

LEMMA ExpandsSo ==
  ASSUME NEW B, Values(B), NEW T \in Seq(B)
  PROVE  \E f \in [1..Len(T) + 1 -> Seq(B)] :
           Goes(f, Emits(T), Follows(T), 1, Len(T)) /\ Config!ExpandEnvironmentVariable(T) = f[1]
<1> DEFINE it == CHOOSE g : g = Expanding(T, g)
<1>1. Len(T) \in Nat /\ 1 \in 1..Len(T) + 1
  OBVIOUS
<1>2. PICK f \in [1..Len(T) + 1 -> Seq(B)] : Goes(f, Emits(T), Follows(T), 1, Len(T))
  BY <1>1, ExpandsOnward, GoingExists
<1>3. f = Expanding(T, f)
  <2> DEFINE s == Expanding(T, f)
  <2>1. s = [i \in 1..Len(T) + 1 |-> s[i]]
    BY Zenon DEF Expanding
  <2>2. s[Len(T) + 1] = <<>> /\ \A i \in 1..Len(T) : s[i] = Emits(T)[i] \o f[Follows(T)[i]]
    BY ExpandingIs
  <2> HIDE DEF s
  <2>3. f[Len(T) + 1] = <<>> /\ \A i \in 1..Len(T) : f[i] = Emits(T)[i] \o f[Follows(T)[i]]
    BY <1>2 DEF Goes, Joint
  <2>4. \A i \in 1..Len(T) + 1 : i \in 1..Len(T) \/ i = Len(T) + 1
    BY <1>1
  <2>5. \A i \in 1..Len(T) + 1 : s[i] = f[i]
    BY <2>2, <2>3, <2>4
  <2> QED
    BY <2>1, <2>5 DEF s
<1>4. it = Expanding(T, it)
  BY <1>3, Zenon
<1>5. Config!ExpandEnvironmentVariable(T) = it[1]
  BY Zenon DEF Config!ExpandEnvironmentVariable, Expanding
<1> HIDE DEF it
<1>6. Goes(it, Emits(T), Follows(T), 1, Len(T))
  <2>1. it[Len(T) + 1] = <<>> /\ \A i \in 1..Len(T) : it[i] = Emits(T)[i] \o it[Follows(T)[i]]
    BY <1>4, ExpandingIs
  <2> QED
    BY <2>1 DEF Goes, Joint
<1>7. \A i \in 1..Len(T) + 1 : it[i] = f[i]
  BY <1>1, <1>2, <1>6, ExpandsOnward, GoingUnique
<1> QED
  BY <1>1, <1>2, <1>5, <1>7

(* t is in T, after a. *)
LiesAt(T, a, t) == a + Len(t) <= Len(T) /\ \A i \in 1..Len(t) : T[a + i] = t[i]

(* f is what becomes of T, from each place on. *)
Expands(f, B, T) == /\ f \in [1..Len(T) + 1 -> Seq(B)]
                    /\ Goes(f, Emits(T), Follows(T), 1, Len(T))

Turns(f, a, v, b) == f[a + 1] = v \o f[b + 1]

LEMMA LiteralExpands ==
  ASSUME NEW B, NEW T \in Seq(B), NEW f, Expands(f, B, T), NEW a \in Nat, NEW t \in Seq(B),
         LiesAt(T, a, t), \A i \in 1..Len(t) : ~Opens(T, a + i)
  PROVE  Turns(f, a, t, a + Len(t))
<1> DEFINE Placed(u) == LiesAt(T, a, u) /\ \A i \in 1..Len(u) : ~Opens(T, a + i)
           G == {u \in Seq(B) : Placed(u) => Turns(f, a, u, a + Len(u))}
<1>1. Len(T) \in Nat
  OBVIOUS
<1>2. <<>> \in G
  <2>0. <<>> \in Seq(B) /\ Len(<<>>) = 0
    OBVIOUS
  <2>1. PICK e \in Seq(B) : e = <<>> /\ Len(e) = 0
    BY <2>0
  <2>2. ASSUME Placed(e) PROVE Turns(f, a, e, a + Len(e))
    <3>1. a + 1 \in 1..Len(T) + 1 /\ a + Len(e) = a
      BY <1>1, <2>1, <2>2 DEF LiesAt
    <3>2. PICK x \in Seq(B) : x = f[a + 1]
      BY <3>1 DEF Expands
    <3>3. <<>> \o x = x
      BY ConcatEmptySeq
    <3> QED
      BY <2>1, <3>1, <3>2, <3>3 DEF Turns
  <2> QED
    BY <2>1, <2>2
<1>3. ASSUME NEW u \in G, NEW c \in B PROVE Append(u, c) \in G
  <2>1. u \in Seq(B) /\ (Placed(u) => Turns(f, a, u, a + Len(u)))
    OBVIOUS
  <2>2. PICK w \in Seq(B) : w = Append(u, c)
    BY <2>1, AppendProperties
  <2>3. /\ Len(u) \in Nat /\ Len(w) = Len(u) + 1 /\ w[Len(u) + 1] = c
        /\ \A i \in 1..Len(u) : w[i] = u[i]
    BY <2>1, <2>2, AppendProperties
  <2>4. ASSUME Placed(w) PROVE Turns(f, a, w, a + Len(w))
    <3>1. a + Len(w) <= Len(T) /\ \A i \in 1..Len(w) : T[a + i] = w[i] /\ ~Opens(T, a + i)
      BY <2>4 DEF LiesAt
    <3>2. Placed(u)
      <4>1. a + Len(u) <= Len(T) /\ \A i \in 1..Len(u) : i \in 1..Len(w)
        BY <1>1, <2>3, <3>1
      <4> QED
        BY <2>3, <3>1, <4>1 DEF LiesAt
    <3>3. f[a + 1] = u \o f[a + Len(u) + 1]
      BY <2>1, <3>2 DEF Turns
    <3> DEFINE i == a + Len(u) + 1
    <3>4. i \in 1..Len(T) /\ Len(u) + 1 \in 1..Len(w) /\ i = a + (Len(u) + 1) /\ i + 1 = a + Len(w) + 1
      BY <1>1, <2>3, <3>1
    <3> HIDE DEF i
    <3>5. T[i] = c /\ ~Opens(T, i)
      BY <2>3, <3>1, <3>4
    <3>6. f[i] = <<c>> \o f[i + 1]
      <4>1. Emits(T)[i] = <<c>> /\ Follows(T)[i] = i + 1
        BY <3>4, <3>5 DEF Emits, Follows, Closed
      <4>2. f[i] = Emits(T)[i] \o f[Follows(T)[i]]
        BY <3>4 DEF Expands, Goes, Joint
      <4> QED
        BY <4>1, <4>2
    <3>7. PICK x \in Seq(B) : x = f[i + 1]
      <4>1. i + 1 \in 1..Len(T) + 1
        BY <1>1, <3>4
      <4> QED
        BY <4>1 DEF Expands
    <3>8. PICK s \in Seq(B) : s = <<c>>
      <4>1. <<c>> \in Seq(B)
        OBVIOUS
      <4> QED
        BY <4>1
    <3>9. (u \o s) \o x = u \o (s \o x)
      <4>1. Assoc(u, s, x)
        BY <2>1, Associates
      <4> QED
        BY <4>1 DEF Assoc
    <3>10. w = u \o s
      BY <2>1, <2>2, <3>8, AppendIsConcat
    <3>11. f[a + 1] = w \o x
      BY <3>3, <3>6, <3>7, <3>8, <3>9, <3>10 DEF i
    <3> QED
      BY <3>4, <3>7, <3>11 DEF Turns
  <2> QED
    BY <2>2, <2>4
<1>4. G = Seq(B)
  <2>1. G \in SUBSET Seq(B)
    OBVIOUS
  <2> HIDE DEF G
  <2> QED
    BY <1>2, <1>3, <2>1, SequencesGrow
<1>5. t \in G
  BY <1>4
<1> QED
  BY <1>5

LEMMA VariableExpands ==
  ASSUME NEW B, NEW T \in Seq(B), NEW f, Expands(f, B, T), NEW a \in Nat, NEW name \in Seq(B), NEW t \in Seq(B),
         LiesAt(T, a, t), Len(t) = Len(name) + 3, t[1] = Config!Dollar, t[2] = Config!Opening, t[Len(name) + 3] = Config!Closing,
         \A i \in 1..Len(name) : t[i + 2] = name[i] /\ name[i] # Config!Closing
  PROVE  Turns(f, a, Value(name), a + Len(t))
<1>0. PICK l \in Nat, n \in Nat : l = Len(name) /\ n = Len(T)
  OBVIOUS
<1>1. a + (l + 3) <= n /\ \A k \in 1..l + 3 : T[a + k] = t[k]
  BY <1>0 DEF LiesAt
<1>2. PICK i \in Nat, e \in Nat : i = a + 1 /\ e = a + (l + 3)
  <2>1. a + 1 \in Nat /\ a + (l + 3) \in Nat
    OBVIOUS
  <2> QED
    BY <2>1
<1>10. i \in 1..n /\ i < n /\ i + 2 \in 1..n + 1 /\ e \in i + 2..n + 1 /\ e <= n /\ e = a + Len(t) /\ i + 1 = a + 2
  BY <1>0, <1>1, <1>2
<1>3. T[i] = Config!Dollar /\ T[i + 1] = Config!Opening /\ T[e] = Config!Closing
  <2>1. 1 \in 1..l + 3 /\ 2 \in 1..l + 3 /\ l + 3 \in 1..l + 3
    OBVIOUS
  <2> QED
    BY <1>0, <1>1, <1>2, <1>10, <2>1
<1>4. \A k \in i + 2..e - 1 : k - a - 2 \in 1..l /\ T[k] = name[k - a - 2]
  <2> SUFFICES ASSUME NEW k \in i + 2..e - 1 PROVE k - a - 2 \in 1..l /\ T[k] = name[k - a - 2]
    OBVIOUS
  <2> DEFINE j == k - a - 2
  <2>1. j \in 1..l /\ j + 2 \in 1..l + 3 /\ k = a + (j + 2)
    BY <1>2
  <2> HIDE DEF j
  <2>2. T[k] = t[j + 2]
    BY <1>1, <2>1
  <2>3. t[j + 2] = name[j]
    BY <1>0, <2>1
  <2> QED
    BY <2>1, <2>2, <2>3 DEF j
<1>5. EndAt(T, i) = e
  <2> DEFINE d == i + 2
  <2>1. d \in 1..Len(T) + 1 /\ e \in d..Len(T) + 1
    BY <1>0, <1>10
  <2>2. Lacks(T, Brace, d, e)
    BY <1>0, <1>4 DEF Lacks, Brace
  <2>3. T[e] \in Brace
    BY <1>3 DEF Brace
  <2> HIDE DEF d
  <2>4. Config!FindFirst(T, d, Brace) = e
    BY <2>1, <2>2, <2>3, FoundAt
  <2> QED
    BY <2>4 DEF d, EndAt
<1>6. SubSeq(T, i + 2, e - 1) = name
  <2>1. PICK m \in Nat, o \in Nat : m = i + 2 /\ o = e - 1
    BY <1>2
  <2>2. o - m + 1 = l /\ (m <= o \/ l = 0) /\ m..o \subseteq 1..n
    <3>1. m = a + 3 /\ o = a + l + 2
      BY <1>2, <2>1
    <3>2. o <= n /\ m >= 1
      BY <1>2, <1>10, <2>1, <3>1
    <3>3. \A k \in m..o : k \in 1..n
      BY <3>2
    <3>4. o - m + 1 = l /\ (m <= o \/ l = 0)
      BY <3>1
    <3> QED
      BY <3>3, <3>4
  <2>3. \A k \in m..o : T[k] \in B
    <3>1. \A k \in 1..n : T[k] \in B
      BY <1>0
    <3> QED
      BY <2>2, <3>1
  <2>4. PICK s \in Seq(B) : s = SubSeq(T, m, o) /\ Len(s) = l /\ \A k \in 1..l : s[k] = T[m + k - 1]
    <3>1. /\ SubSeq(T, m, o) \in Seq(B) /\ Len(SubSeq(T, m, o)) = IF m <= o THEN o - m + 1 ELSE 0
          /\ \A k \in 1..o - m + 1 : SubSeq(T, m, o)[k] = T[m + k - 1]
      BY <2>3, SubSeqProperties
    <3>2. (IF m <= o THEN o - m + 1 ELSE 0) = l
      BY <2>2
    <3> QED
      BY <2>2, <3>1, <3>2
  <2>5. \A k \in 1..l : s[k] = name[k]
    <3> SUFFICES ASSUME NEW k \in 1..l PROVE s[k] = name[k]
      OBVIOUS
    <3> DEFINE j == m + k - 1
    <3>1. j \in i + 2..e - 1 /\ j - a - 2 = k
      BY <1>2, <2>1
    <3>2. s[k] = T[j]
      BY <2>4
    <3> HIDE DEF j
    <3> QED
      BY <1>4, <3>1, <3>2
  <2>6. s = name
    BY <1>0, <2>4, <2>5, SeqEqual
  <2> QED
    BY <2>1, <2>4, <2>6
<1>7. Closed(T, i)
  BY <1>0, <1>10, <1>3, <1>5 DEF Closed, Opens
<1>8. Emits(T)[i] = Value(name) /\ Follows(T)[i] = e + 1
  BY <1>0, <1>10, <1>5, <1>6, <1>7 DEF Emits, Follows
<1>9. f[i] = Emits(T)[i] \o f[Follows(T)[i]]
  BY <1>0, <1>10 DEF Expands, Goes, Joint
<1> QED
  BY <1>2, <1>10, <1>8, <1>9 DEF Turns

(* The parts of a path: texts without braces and names of variables. *)
PathParts(B) == [variable : {FALSE}, text : Seq(B \ {Config!Opening}) \ {<<>>}]
                \cup [variable : {TRUE}, text : Seq(B \ {Config!Closing})]

Marks(B) == {Config!Dollar, Config!Opening, Config!Closing} \subseteq B

LEMMA MarksDiffer == Config!Dollar # Config!Opening
BY Zenon DEF Config!Dollar, Config!Opening

LEMMA Unmarked ==
  ASSUME NEW B, NEW c, NEW s \in Seq(B \ {c})
  PROVE  s \in Seq(B) /\ \A i \in 1..Len(s) : s[i] # c
<1>1. \A i \in 1..Len(s) : s[i] \in B \ {c}
  OBVIOUS
<1>2. s \in Seq(B)
  OBVIOUS
<1> QED
  BY <1>1, <1>2

(* How a variable is spelt. *)
Dressed(t, name) ==
  /\ Len(t) = Len(name) + 3
  /\ t[1] = Config!Dollar /\ t[2] = Config!Opening /\ t[Len(name) + 3] = Config!Closing
  /\ \A i \in 1..Len(name) : t[i + 2] = name[i]

LEMMA DressedIs ==
  ASSUME NEW B, Marks(B), NEW name \in Seq(B)
  PROVE  \E t \in Seq(B) : /\ t = <<Config!Dollar, Config!Opening>> \o (name \o <<Config!Closing>>)
                           /\ Dressed(t, name)
<1>1. PICK o \in Seq(B) : /\ o = <<Config!Dollar, Config!Opening>> /\ Len(o) = 2
                          /\ o[1] = Config!Dollar /\ o[2] = Config!Opening
  <2>1. Config!Dollar \in B /\ Config!Opening \in B
    BY DEF Marks
  <2>2. <<Config!Dollar, Config!Opening>> \in Seq(B)
    BY <2>1
  <2> QED
    BY <2>2
<1>2. PICK c \in Seq(B) : c = <<Config!Closing>> /\ Len(c) = 1 /\ c[1] = Config!Closing
  <2>1. Config!Closing \in B
    BY DEF Marks
  <2>2. <<Config!Closing>> \in Seq(B)
    BY <2>1
  <2> QED
    BY <2>2
<1>3. PICK n \in Seq(B) : IsJoin(n, name, c)
  BY ConcatProperties DEF IsJoin
<1>4. PICK t \in Seq(B) : IsJoin(t, o, n)
  BY ConcatProperties DEF IsJoin
<1>5. PICK l \in Nat : l = Len(name)
  OBVIOUS
<1>6. Len(n) = l + 1 /\ n[l + 1] = Config!Closing /\ \A i \in 1..l : n[i] = name[i]
  <2>1. /\ Len(n) = Len(name) + Len(c) /\ \A i \in 1..Len(name) : n[i] = name[i]
        /\ \A i \in 1..Len(c) : n[Len(name) + i] = c[i]
    BY <1>3, ConcatIs
  <2>2. 1 \in 1..Len(c)
    BY <1>2
  <2> QED
    BY <1>2, <1>5, <2>1, <2>2
<1>7. Len(t) = l + 3 /\ t[1] = o[1] /\ t[2] = o[2] /\ \A i \in 1..l + 1 : t[2 + i] = n[i]
  <2>1. /\ Len(t) = Len(o) + Len(n) /\ \A i \in 1..Len(o) : t[i] = o[i]
        /\ \A i \in 1..Len(n) : t[Len(o) + i] = n[i]
    BY <1>4, ConcatIs
  <2>2. 1 \in 1..Len(o) /\ 2 \in 1..Len(o)
    BY <1>1
  <2> QED
    BY <1>1, <1>6, <2>1, <2>2
<1>8. t[l + 3] = Config!Closing
  <2>1. l + 1 \in 1..l + 1 /\ 2 + (l + 1) = l + 3
    OBVIOUS
  <2> QED
    BY <1>6, <1>7, <2>1
<1>9. \A i \in 1..l : t[i + 2] = name[i]
  <2>1. \A i \in 1..l : i \in 1..l + 1 /\ 2 + i = i + 2
    OBVIOUS
  <2> QED
    BY <1>6, <1>7, <2>1
<1>10. Dressed(t, name)
  BY <1>1, <1>5, <1>7, <1>8, <1>9 DEF Dressed
<1>11. t = <<Config!Dollar, Config!Opening>> \o (name \o <<Config!Closing>>)
  BY <1>1, <1>2, <1>3, <1>4 DEF IsJoin
<1> QED
  BY <1>10, <1>11

(* The text of a part, and what it stands for. *)
LEMMA PartIs ==
  ASSUME NEW B, Marks(B), Values(B), NEW part \in PathParts(B)
  PROVE  /\ Config!TextOf(part) \in Seq(B) /\ Len(Config!TextOf(part)) # 0
         /\ Config!TextOf(part)[1] # Config!Opening /\ Config!ValueOf(part) \in Seq(B)
<1>1. CASE part.variable
  <2>1. part.text \in Seq(B \ {Config!Closing})
    BY <1>1 DEF PathParts
  <2>2. part.text \in Seq(B)
    BY <2>1, Unmarked
  <2>3. PICK t \in Seq(B) : t = Config!TextOf(part) /\ Dressed(t, part.text)
    <3>1. Config!TextOf(part) = <<Config!Dollar, Config!Opening>> \o (part.text \o <<Config!Closing>>)
      BY <1>1, Zenon DEF Config!TextOf
    <3> QED
      BY <2>2, <3>1, DressedIs
  <2>4. Len(t) # 0 /\ t[1] = Config!Dollar
    BY <2>2, <2>3 DEF Dressed
  <2>5. Config!ValueOf(part) = Value(part.text)
    BY <1>1, Zenon DEF Config!ValueOf, Value
  <2>6. Value(part.text) \in Seq(B)
    <3>1. <<>> \in Seq(B)
      OBVIOUS
    <3> QED
      BY <3>1 DEF Value, Values
  <2> QED
    BY <2>3, <2>4, <2>5, <2>6, MarksDiffer
<1>2. CASE ~part.variable
  <2>1. part.text \in Seq(B \ {Config!Opening}) /\ part.text # <<>>
    BY <1>2 DEF PathParts
  <2>2. part.text \in Seq(B) /\ \A i \in 1..Len(part.text) : part.text[i] # Config!Opening
    BY <2>1, Unmarked
  <2>3. Len(part.text) # 0 /\ 1 \in 1..Len(part.text)
    BY <2>1, <2>2, EmptySeq
  <2>4. Config!TextOf(part) = part.text /\ Config!ValueOf(part) = part.text
    BY <1>2, Zenon DEF Config!TextOf, Config!ValueOf
  <2> QED
    BY <2>2, <2>3, <2>4
<1> QED
  BY <1>1, <1>2

(* What follows on a part does not begin with a brace. *)
Unbraced(T, b) == b = Len(T) \/ T[b + 1] # Config!Opening

LEMMA PartExpands ==
  ASSUME NEW B, Marks(B), Values(B), NEW T \in Seq(B), NEW f, Expands(f, B, T), NEW a \in Nat, NEW part \in PathParts(B),
         NEW t, t = Config!TextOf(part), LiesAt(T, a, t), Unbraced(T, a + Len(t))
  PROVE  Turns(f, a, Config!ValueOf(part), a + Len(t))
<1>0. t \in Seq(B)
  BY PartIs
<1>1. CASE part.variable
  <2>1. part.text \in Seq(B \ {Config!Closing})
    BY <1>1 DEF PathParts
  <2>2. part.text \in Seq(B) /\ \A i \in 1..Len(part.text) : part.text[i] # Config!Closing
    BY <2>1, Unmarked
  <2>3. Dressed(t, part.text)
    <3>1. Config!TextOf(part) = <<Config!Dollar, Config!Opening>> \o (part.text \o <<Config!Closing>>)
      BY <1>1, Zenon DEF Config!TextOf
    <3> QED
      BY <2>2, <3>1, DressedIs
  <2>4. Config!ValueOf(part) = Value(part.text)
    BY <1>1, Zenon DEF Config!ValueOf, Value
  <2>5. Turns(f, a, Value(part.text), a + Len(t))
    BY <1>0, <2>2, <2>3, VariableExpands DEF Dressed
  <2> QED
    BY <2>4, <2>5
<1>2. CASE ~part.variable
  <2>1. part.text \in Seq(B \ {Config!Opening})
    BY <1>2 DEF PathParts
  <2>2. t = part.text /\ Config!ValueOf(part) = part.text
    BY <1>2, Zenon DEF Config!TextOf, Config!ValueOf
  <2>3. \A i \in 1..Len(t) : t[i] # Config!Opening
    BY <2>1, <2>2, Unmarked
  <2>4. PICK l \in Nat, n \in Nat : l = Len(t) /\ n = Len(T)
    BY <1>0
  <2>5. a + l <= n /\ \A i \in 1..l : T[a + i] = t[i]
    BY <2>4 DEF LiesAt
  <2>6. ASSUME NEW i \in 1..l PROVE ~Opens(T, a + i)
    <3>1. CASE i = l
      <4>1. a + l = n \/ T[a + l + 1] # Config!Opening
        BY <2>4 DEF Unbraced
      <4> QED
        BY <2>4, <3>1, <4>1 DEF Opens
    <3>2. CASE i # l
      <4>1. i + 1 \in 1..l /\ a + (i + 1) = a + i + 1
        BY <3>2
      <4>2. T[a + i + 1] # Config!Opening
        BY <2>3, <2>4, <2>5, <4>1
      <4> QED
        BY <4>2 DEF Opens
    <3> QED
      BY <3>1, <3>2
  <2>7. Turns(f, a, t, a + Len(t))
    BY <1>0, <2>4, <2>6, LiteralExpands
  <2> QED
    BY <2>2, <2>7
<1> QED
  BY <1>1, <1>2

(* The texts of the parts, and their values, one after the other. *)
Spellings(parts) == [k \in DOMAIN parts |-> Config!TextOf(parts[k])]

Meanings(parts) == [k \in DOMAIN parts |-> Config!ValueOf(parts[k])]

LEMMA SpeltFlat == ASSUME NEW parts PROVE Config!Spelt(parts) = FlattenSeq(Spellings(parts))
BY DEF Spellings, Config!Spelt, Config!FlattenSeq, FlattenSeq

LEMMA MeantFlat == ASSUME NEW parts PROVE Config!Meant(parts) = FlattenSeq(Meanings(parts))
BY DEF Meanings, Config!Meant, Config!FlattenSeq, FlattenSeq

LEMMA PathTyped ==
  ASSUME NEW B, Marks(B), Values(B), NEW parts \in Seq(PathParts(B))
  PROVE  Spellings(parts) \in Seq(Seq(B)) /\ Meanings(parts) \in Seq(Seq(B))
<1>1. DOMAIN parts = 1..Len(parts) /\ Len(parts) \in Nat /\ \A k \in 1..Len(parts) : parts[k] \in PathParts(B)
  OBVIOUS
<1>2. \A k \in 1..Len(parts) : Config!TextOf(parts[k]) \in Seq(B) /\ Config!ValueOf(parts[k]) \in Seq(B)
  BY <1>1, PartIs
<1> DEFINE S == Seq(B)
<1> HIDE DEF S
<1>3. \A k \in 1..Len(parts) : Config!TextOf(parts[k]) \in S /\ Config!ValueOf(parts[k]) \in S
  BY <1>2 DEF S
<1>4. Spellings(parts) \in Seq(S) /\ Meanings(parts) \in Seq(S)
  BY <1>1, <1>3 DEF Spellings, Meanings
<1> QED
  BY <1>4 DEF S

LEMMA PathGrows ==
  ASSUME NEW B, Marks(B), Values(B), NEW parts \in Seq(PathParts(B)), NEW part \in PathParts(B)
  PROVE  /\ Spellings(Append(parts, part)) = Append(Spellings(parts), Config!TextOf(part))
         /\ Meanings(Append(parts, part)) = Append(Meanings(parts), Config!ValueOf(part))
<1>1. PICK more \in Seq(PathParts(B)) : more = Append(parts, part)
  BY AppendProperties
<1>2. PICK n \in Nat : n = Len(parts)
  OBVIOUS
<1>3. Len(more) = n + 1 /\ more[n + 1] = part /\ (\A i \in 1..n : more[i] = parts[i])
      /\ DOMAIN parts = 1..n /\ DOMAIN more = 1..n + 1
  BY <1>1, <1>2, AppendProperties
<1> DEFINE S == Seq(B)
<1>4. Config!TextOf(part) \in S /\ Config!ValueOf(part) \in S
  BY PartIs
<1>5. Spellings(parts) \in Seq(S) /\ Meanings(parts) \in Seq(S) /\ Spellings(more) \in Seq(S) /\ Meanings(more) \in Seq(S)
  BY PathTyped
<1> HIDE DEF S
<1>6. /\ Len(Spellings(parts)) = n /\ \A i \in 1..n : Spellings(parts)[i] = Config!TextOf(parts[i])
      /\ Len(Meanings(parts)) = n /\ \A i \in 1..n : Meanings(parts)[i] = Config!ValueOf(parts[i])
  BY <1>3, <1>5 DEF Spellings, Meanings
<1>7. /\ Len(Spellings(more)) = n + 1 /\ \A i \in 1..n + 1 : Spellings(more)[i] = Config!TextOf(more[i])
      /\ Len(Meanings(more)) = n + 1 /\ \A i \in 1..n + 1 : Meanings(more)[i] = Config!ValueOf(more[i])
  BY <1>3, <1>5 DEF Spellings, Meanings
<1>8. \A i \in 1..n + 1 : i \in 1..n \/ i = n + 1
  OBVIOUS
<1>9. Spellings(more) = Append(Spellings(parts), Config!TextOf(part))
  <2>1. PICK s \in Seq(S) : s = Append(Spellings(parts), Config!TextOf(part))
    BY <1>4, <1>5, AppendProperties
  <2>2. /\ Len(s) = n + 1 /\ s[n + 1] = Config!TextOf(part)
        /\ \A i \in 1..n : s[i] = Spellings(parts)[i]
    BY <1>4, <1>5, <1>6, <2>1, AppendProperties
  <2>3. \A i \in 1..n + 1 : s[i] = Spellings(more)[i]
    BY <1>3, <1>6, <1>7, <1>8, <2>2
  <2>4. s = Spellings(more)
    BY <1>5, <1>7, <2>2, <2>3, SeqEqual
  <2> QED
    BY <2>1, <2>4
<1>10. Meanings(more) = Append(Meanings(parts), Config!ValueOf(part))
  <2>1. PICK s \in Seq(S) : s = Append(Meanings(parts), Config!ValueOf(part))
    BY <1>4, <1>5, AppendProperties
  <2>2. /\ Len(s) = n + 1 /\ s[n + 1] = Config!ValueOf(part)
        /\ \A i \in 1..n : s[i] = Meanings(parts)[i]
    BY <1>4, <1>5, <1>6, <2>1, AppendProperties
  <2>3. \A i \in 1..n + 1 : s[i] = Meanings(more)[i]
    BY <1>3, <1>6, <1>7, <1>8, <2>2
  <2>4. s = Meanings(more)
    BY <1>5, <1>7, <2>2, <2>3, SeqEqual
  <2> QED
    BY <2>1, <2>4
<1> QED
  BY <1>1, <1>9, <1>10

LEMMA PathAppend ==
  ASSUME NEW B, Marks(B), Values(B), NEW parts \in Seq(PathParts(B)), NEW part \in PathParts(B)
  PROVE  /\ Config!Spelt(parts) \in Seq(B) /\ Config!Meant(parts) \in Seq(B)
         /\ Config!Spelt(<<>>) = <<>> /\ Config!Meant(<<>>) = <<>>
         /\ IsJoin(Config!Spelt(Append(parts, part)), Config!Spelt(parts), Config!TextOf(part))
         /\ IsJoin(Config!Meant(Append(parts, part)), Config!Meant(parts), Config!ValueOf(part))
<1>1. Spellings(parts) \in Seq(Seq(B)) /\ Meanings(parts) \in Seq(Seq(B))
  BY PathTyped
<1>2. Config!Spelt(parts) \in Seq(B) /\ Config!Meant(parts) \in Seq(B)
  BY <1>1, SpeltFlat, MeantFlat, FlattenType
<1>3. Config!Spelt(<<>>) = <<>> /\ Config!Meant(<<>>) = <<>>
  <2>1. Spellings(<<>>) = <<>> /\ Meanings(<<>>) = <<>>
    <3>1. DOMAIN (<<>>) = {}
      OBVIOUS
    <3> QED
      BY <3>1 DEF Spellings, Meanings
  <2> QED
    BY <2>1, SpeltFlat, MeantFlat, FlattenEmpty
<1>4. Config!TextOf(part) \in Seq(B) /\ Config!ValueOf(part) \in Seq(B)
  BY PartIs
<1>5. /\ FlattenSeq(Append(Spellings(parts), Config!TextOf(part))) = FlattenSeq(Spellings(parts)) \o Config!TextOf(part)
      /\ FlattenSeq(Append(Meanings(parts), Config!ValueOf(part))) = FlattenSeq(Meanings(parts)) \o Config!ValueOf(part)
  BY <1>1, <1>4, FlattenAppend
<1>6. IsJoin(Config!Spelt(Append(parts, part)), Config!Spelt(parts), Config!TextOf(part))
  BY <1>5, PathGrows, SpeltFlat DEF IsJoin
<1>7. IsJoin(Config!Meant(Append(parts, part)), Config!Meant(parts), Config!ValueOf(part))
  BY <1>5, PathGrows, MeantFlat DEF IsJoin
<1> QED
  BY <1>2, <1>3, <1>6, <1>7

(* A path at the beginning of T becomes what is meant by it. *)
LEMMA PathExpands ==
  ASSUME NEW B, Marks(B), Values(B), NEW T \in Seq(B), NEW f, Expands(f, B, T), NEW parts \in Seq(PathParts(B)),
         LiesAt(T, 0, Config!Spelt(parts)), Unbraced(T, Len(Config!Spelt(parts)))
  PROVE  Turns(f, 0, Config!Meant(parts), Len(Config!Spelt(parts)))
<1> DEFINE C == PathParts(B)
           Good(ps) == LiesAt(T, 0, Config!Spelt(ps)) /\ Unbraced(T, Len(Config!Spelt(ps)))
                         => Turns(f, 0, Config!Meant(ps), Len(Config!Spelt(ps)))
           G == {ps \in Seq(C) : Good(ps)}
<1>0. PICK n \in Nat : n = Len(T)
  OBVIOUS
<1>1. <<>> \in G
  <2>1. Config!Spelt(<<>>) = <<>> /\ Config!Meant(<<>>) = <<>> /\ Len(<<>>) = 0 /\ <<>> \in Seq(C)
    <3>1. PathParts(B) # {}
      <4>1. <<>> \in Seq(B \ {Config!Closing})
        OBVIOUS
      <4>2. [variable |-> TRUE, text |-> <<>>] \in PathParts(B)
        BY <4>1 DEF PathParts
      <4> QED
        BY <4>2
    <3>2. <<>> \in Seq(C)
      OBVIOUS
    <3>3. Config!Spelt(<<>>) = <<>> /\ Config!Meant(<<>>) = <<>>
      BY <3>1, <3>2, PathAppend
    <3> QED
      BY <3>2, <3>3
  <2>2. PICK x \in Seq(B) : x = f[0 + 1]
    <3>1. 0 + 1 \in 1..n + 1
      OBVIOUS
    <3> QED
      BY <1>0, <3>1 DEF Expands
  <2>3. <<>> \o x = x
    BY ConcatEmptySeq
  <2>4. Turns(f, 0, <<>>, 0)
    BY <2>2, <2>3 DEF Turns
  <2> QED
    BY <2>1, <2>4
<1>2. ASSUME NEW ps \in G, NEW part \in C PROVE Append(ps, part) \in G
  <2>1. ps \in Seq(C) /\ Good(ps)
    OBVIOUS
  <2>2. PICK qs \in Seq(C) : qs = Append(ps, part)
    BY <2>1, AppendProperties
  <2>3. PICK u \in Seq(B), v \in Seq(B), t \in Seq(B), y \in Seq(B) :
          /\ u = Config!Spelt(ps) /\ v = Config!Meant(ps) /\ t = Config!TextOf(part) /\ y = Config!ValueOf(part)
          /\ Len(t) # 0 /\ t[1] # Config!Opening
    <3>1. Config!Spelt(ps) \in Seq(B) /\ Config!Meant(ps) \in Seq(B)
      BY <2>1, PathAppend
    <3> QED
      BY <3>1, PartIs
  <2>4. PICK w, z : w = Config!Spelt(qs) /\ z = Config!Meant(qs) /\ IsJoin(w, u, t) /\ IsJoin(z, v, y)
    BY <2>1, <2>2, <2>3, PathAppend
  <2>5. w \in Seq(B) /\ z \in Seq(B) /\ Len(w) = Len(u) + Len(t)
        /\ (\A i \in 1..Len(u) : w[i] = u[i]) /\ (\A i \in 1..Len(t) : w[Len(u) + i] = t[i])
    <3>1. u \in Seq(B) /\ v \in Seq(B) /\ t \in Seq(B) /\ y \in Seq(B) /\ IsJoin(w, u, t) /\ IsJoin(z, v, y)
      BY <2>3, <2>4
    <3>2. w \in Seq(B) /\ Len(w) = Len(u) + Len(t)
          /\ (\A i \in 1..Len(u) : w[i] = u[i]) /\ (\A i \in 1..Len(t) : w[Len(u) + i] = t[i])
      BY <3>1, ConcatIs
    <3>3. z \in Seq(B)
      BY <3>1, ConcatIs
    <3> QED
      BY <3>2, <3>3
  <2>6. PICK k \in Nat, l \in Nat : k = Len(u) /\ l = Len(t) /\ l # 0 /\ Len(w) = k + l
    <3>1. Len(u) \in Nat /\ Len(t) \in Nat
      BY <2>3
    <3> QED
      BY <2>3, <2>5, <3>1
  <2>7. ASSUME LiesAt(T, 0, w), Unbraced(T, Len(w)) PROVE Turns(f, 0, z, Len(w))
    <3>1. k + l <= n /\ \A i \in 1..k + l : T[i] = w[i]
      <4>1. 0 + Len(w) <= n /\ \A i \in 1..Len(w) : T[0 + i] = w[i]
        BY <1>0, <2>7 DEF LiesAt
      <4>2. \A i \in 1..k + l : 0 + i = i
        OBVIOUS
      <4> QED
        BY <2>6, <4>1, <4>2
    <3>2. LiesAt(T, 0, u)
      <4>1. 0 + k <= n /\ \A i \in 1..k : i \in 1..k + l /\ 0 + i = i
        BY <3>1
      <4> QED
        BY <1>0, <2>5, <2>6, <3>1, <4>1 DEF LiesAt
    <3>3. \A i \in 1..l : T[k + i] = t[i]
      <4>1. \A i \in 1..l : k + i \in 1..k + l
        OBVIOUS
      <4> QED
        BY <2>5, <2>6, <3>1, <4>1
    <3>4. LiesAt(T, k, t)
      BY <1>0, <2>6, <3>1, <3>3 DEF LiesAt
    <3>5. Unbraced(T, k)
      <4>1. 1 \in 1..l
        BY <2>6
      <4> QED
        BY <2>3, <3>3, <4>1 DEF Unbraced
    <3>6. Turns(f, 0, v, k)
      BY <2>1, <2>3, <2>6, <3>2, <3>5
    <3>7. Turns(f, k, y, k + l)
      <4>1. Unbraced(T, k + Len(t))
        BY <2>6, <2>7
      <4> QED
        BY <2>3, <2>6, <3>4, <4>1, PartExpands
    <3>8. PICK x \in Seq(B) : x = f[k + l + 1]
      <4>1. k + l + 1 \in 1..n + 1
        BY <3>1
      <4> QED
        BY <1>0, <4>1 DEF Expands
    <3>9. (v \o y) \o x = v \o (y \o x)
      <4>1. Assoc(v, y, x)
        BY <2>3, Associates
      <4> QED
        BY <4>1 DEF Assoc
    <3>10. f[0 + 1] = z \o x
      BY <2>4, <3>6, <3>7, <3>8, <3>9 DEF Turns, IsJoin
    <3> QED
      BY <2>6, <3>8, <3>10 DEF Turns
  <2>8. Good(qs)
    BY <2>4, <2>7
  <2> QED
    BY <2>2, <2>8
<1>3. G = Seq(C)
  <2>1. G \in SUBSET Seq(C)
    OBVIOUS
  <2> HIDE DEF G, C
  <2> QED
    BY <1>1, <1>2, <2>1, SequencesGrow
<1>4. parts \in G
  BY <1>3
<1> QED
  BY <1>4

LEMMA PathMeans ==
  ASSUME NEW B, Marks(B), Values(B), NEW parts \in Seq(PathParts(B))
  PROVE  Config!ExpandEnvironmentVariable(Config!Spelt(parts)) = Config!Meant(parts)
<1>1. PICK T \in Seq(B), z \in Seq(B) : T = Config!Spelt(parts) /\ z = Config!Meant(parts)
  <2>1. [variable |-> TRUE, text |-> <<>>] \in PathParts(B)
    <3>1. <<>> \in Seq(B \ {Config!Closing})
      OBVIOUS
    <3> QED
      BY <3>1 DEF PathParts
  <2> QED
    BY <2>1, PathAppend
<1>2. PICK n \in Nat : n = Len(T)
  OBVIOUS
<1>3. PICK f : Expands(f, B, T) /\ Config!ExpandEnvironmentVariable(T) = f[1]
  BY ExpandsSo DEF Expands
<1>4. LiesAt(T, 0, T)
  <2>1. 0 + n <= n /\ \A i \in 1..n : 0 + i = i
    OBVIOUS
  <2> QED
    BY <1>2, <2>1 DEF LiesAt
<1>5. Unbraced(T, Len(T))
  BY DEF Unbraced
<1>6. Turns(f, 0, z, Len(T))
  BY <1>1, <1>3, <1>4, <1>5, PathExpands
<1>7. f[0 + 1] = z \o f[n + 1]
  BY <1>2, <1>6 DEF Turns
<1>8. f[n + 1] = <<>> /\ 0 + 1 = 1
  BY <1>2, <1>3 DEF Expands, Goes
<1>9. z \o <<>> = z
  BY ConcatEmptySeq
<1> QED
  BY <1>1, <1>3, <1>7, <1>8, <1>9

(* A line: blanks, a host or none, and a path, which if there is no host has no colon and
   does not begin with a blank. *)
Hosts(B) == {<<>>} \cup {<<h, Config!Colon>> : h \in B \ {Config!Colon, Config!Space}}

PlainPath(t) == t # <<>> /\ t[1] # Config!Space /\ \A i \in 1..Len(t) : t[i] # Config!Colon

HostPaths(Names, B) ==
  {p \in [name : Names, blanks : Seq({Config!Space}), host : Hosts(B), parts : Seq(PathParts(B))] :
     p.host = <<>> => PlainPath(Config!Spelt(p.parts))}

LEMMA SpeltType ==
  ASSUME NEW B, Marks(B), Values(B), NEW parts \in Seq(PathParts(B))
  PROVE  Config!Spelt(parts) \in Seq(B) /\ Config!Meant(parts) \in Seq(B)
<1>1. [variable |-> TRUE, text |-> <<>>] \in PathParts(B)
  <2>1. <<>> \in Seq(B \ {Config!Closing})
    OBVIOUS
  <2> QED
    BY <2>1 DEF PathParts
<1> QED
  BY <1>1, PathAppend

LEMMA TailOfJoin ==
  ASSUME NEW B, NEW s \in Seq(B), NEW t \in Seq(B), NEW w \in Seq(B), IsJoin(w, s, t)
  PROVE  SubSeq(w, Len(s) + 1, Len(w)) = t /\ SubSeq(w, 1, Len(s)) = s
<1>1. PICK k \in Nat, n \in Nat : k = Len(s) /\ n = Len(w)
  OBVIOUS
<1>2. n = k + Len(t) /\ k \in 0..n
  BY <1>1, ConcatIs
<1>3. PICK x \in Seq(B), y \in Seq(B) : x = SubSeq(w, 1, k) /\ y = SubSeq(w, k + 1, n) /\ x \o y = w /\ Len(x) = k
  BY <1>1, <1>2, CutAt
<1>4. IsJoin(w, x, y)
  BY <1>3 DEF IsJoin
<1>5. Len(x) = Len(s)
  BY <1>1, <1>3
<1>6. x = s /\ y = t
  <2>1. x \in Seq(B) /\ y \in Seq(B) /\ Len(s) = Len(x) /\ IsJoin(w, s, t)
    BY <1>3, <1>5
  <2> QED
    BY <1>4, <2>1, SameParts
<1> QED
  BY <1>1, <1>3, <1>6

LEMMA WordIs ==
  ASSUME NEW B, Config!Space \in B, NEW blanks \in Seq({Config!Space}), NEW spec \in Seq(B), spec # <<>>,
         spec[1] # Config!Space
  PROVE  Config!SplitBySpace(blanks \o spec) = <<spec>>
<1>1. PICK b \in Seq(B) : b = blanks /\ \A i \in 1..Len(b) : b[i] = Config!Space
  <2>1. blanks \in Seq(B) /\ \A i \in 1..Len(blanks) : blanks[i] = Config!Space
    OBVIOUS
  <2> QED
    BY <2>1
<1>2. PICK w \in Seq(B) : IsJoin(w, b, spec)
  BY ConcatProperties DEF IsJoin
<1>3. PICK k \in Nat, n \in Nat : k = Len(b) /\ n = Len(w)
  OBVIOUS
<1>4. n = k + Len(spec) /\ (\A i \in 1..k : w[i] = b[i]) /\ (\A i \in 1..Len(spec) : w[k + i] = spec[i])
  <2>1. b \in Seq(B) /\ IsJoin(w, b, spec)
    BY <1>1, <1>2
  <2>2. /\ Len(w) = Len(b) + Len(spec) /\ \A i \in 1..Len(b) : w[i] = b[i]
        /\ \A i \in 1..Len(spec) : w[Len(b) + i] = spec[i]
    BY <2>1, ConcatIs
  <2> QED
    BY <1>3, <2>2
<1>5. Len(spec) # 0 /\ Len(spec) \in Nat
  BY EmptySeq
<1>6. w[k + 1] # Config!Space /\ k + 1 \in 1..n
  <2>1. 1 \in 1..Len(spec)
    BY <1>5
  <2>2. w[k + 1] = spec[1]
    BY <1>4, <2>1
  <2>3. k + 1 \in 1..n
    BY <1>4, <1>5
  <2> QED
    BY <2>2, <2>3
<1> DEFINE words == {i \in DOMAIN w : w[i] # Config!Space}
<1>7. k + 1 \in words /\ \A j \in words : k + 1 <= j
  <2>1. DOMAIN w = 1..n
    BY <1>3
  <2>2. ASSUME NEW j \in 1..n, w[j] # Config!Space PROVE k + 1 <= j
    <3>1. j \notin 1..k
      BY <1>1, <1>3, <1>4, <2>2
    <3> QED
      BY <3>1
  <2> QED
    BY <1>6, <2>1, <2>2
<1>8. (CHOOSE i \in words : \A j \in words : i <= j) = k + 1
  <2> DEFINE first == CHOOSE i \in words : \A j \in words : i <= j
  <2>1. words \subseteq Nat
    <3>1. DOMAIN w = 1..n
      BY <1>3
    <3> QED
      BY <3>1
  <2> HIDE DEF words
  <2>2. first \in words /\ \A j \in words : first <= j
    BY <1>7, Zenon
  <2> HIDE DEF first
  <2>3. first <= k + 1 /\ k + 1 <= first /\ first \in Nat
    BY <1>7, <2>1, <2>2
  <2> QED
    BY <2>3 DEF first
<1>9. words # {}
  BY <1>7
<1>10. Config!SplitBySpace(w) = <<SubSeq(w, k + 1, Len(w))>>
  <2>1. Config!SplitBySpace(w) = IF words = {} THEN <<>>
                                 ELSE <<SubSeq(w, CHOOSE i \in words : \A j \in words : i <= j, Len(w))>>
    BY Zenon DEF Config!SplitBySpace
  <2> HIDE DEF words
  <2> QED
    BY <1>8, <1>9, <2>1
<1>11. SubSeq(w, k + 1, Len(w)) = spec
  <2>1. b \in Seq(B) /\ IsJoin(w, b, spec)
    BY <1>1, <1>2
  <2>2. SubSeq(w, Len(b) + 1, Len(w)) = spec
    BY <2>1, TailOfJoin
  <2> QED
    BY <1>3, <2>2
<1> QED
  BY <1>1, <1>2, <1>10, <1>11 DEF IsJoin

LEMMA DiskIs ==
  ASSUME NEW spec, NEW text, Config!SplitBySpace(text) = <<spec>>, NEW root
  PROVE  Config!LocalDisk(root, text) = IF Config!Counts(spec) THEN Config!Path(spec) ELSE root
<1> DEFINE specs == <<spec>>
           counting == {i \in DOMAIN specs : Config!Counts(specs[i])}
<1>1. DOMAIN specs = {1} /\ specs[1] = spec
  OBVIOUS
<1>2. Config!LocalDisk(root, text) = IF counting = {} THEN root
                                     ELSE Config!Path(specs[CHOOSE i \in counting : \A j \in counting : i <= j])
  <2> DEFINE s == Config!SplitBySpace(text)
  <2>1. Config!LocalDisk(root, text) =
          LET c == {i \in DOMAIN s : Config!Counts(s[i])}
          IN  IF c = {} THEN root ELSE Config!Path(s[CHOOSE i \in c : \A j \in c : i <= j])
    BY Zenon DEF Config!LocalDisk
  <2>2. s = specs
    OBVIOUS
  <2> HIDE DEF s, specs
  <2> QED
    BY <2>1, <2>2
<1> HIDE DEF specs
<1>3. CASE Config!Counts(spec)
  <2>1. counting = {1}
    BY <1>1, <1>3
  <2> HIDE DEF counting
  <2>2. (CHOOSE i \in counting : \A j \in counting : i <= j) = 1
    <3>1. 1 <= 1
      OBVIOUS
    <3>2. \E i \in {1} : \A j \in {1} : i <= j
      BY <3>1
    <3>3. (CHOOSE i \in {1} : \A j \in {1} : i <= j) \in {1}
      BY <3>2, Zenon
    <3> QED
      BY <2>1, <3>3
  <2> QED
    BY <1>1, <1>2, <1>3, <2>1, <2>2
<1>4. CASE ~Config!Counts(spec)
  <2>1. counting = {}
    BY <1>1, <1>4
  <2> HIDE DEF counting
  <2> QED
    BY <1>2, <1>4, <2>1
<1> QED
  BY <1>3, <1>4

ForHost(host) == host \in {<<>>, <<Config!AnyHost, Config!Colon>>, <<HostName, Config!Colon>>}

IsHost(host, c) == host = <<c, Config!Colon>>

(* A specifier of a path alone, and one of a host and a path. *)
LEMMA PathAlone ==
  ASSUME NEW B, NEW t \in Seq(B), PlainPath(t)
  PROVE  Config!Counts(t) /\ Config!Path(t) = Config!ExpandEnvironmentVariable(t)
<1>1. PICK n \in Nat : n = Len(t) /\ n # 0
  BY EmptySeq DEF PlainPath
<1>2. Config!FindFirst(t, 1, {Config!Colon}) = n + 1
  <2>1. 1 \in 1..Len(t) + 1 /\ n + 1 \in 1..Len(t) + 1 /\ ~(n + 1 <= Len(t))
    BY <1>1
  <2>2. Lacks(t, {Config!Colon}, 1, n + 1)
    <3>1. \A j \in 1..(n + 1) - 1 : j \in 1..Len(t)
      BY <1>1
    <3> QED
      BY <3>1 DEF Lacks, PlainPath
  <2> QED
    BY <2>1, <2>2, FoundAt
<1>3. Config!FindFirst(t, 1, {Config!Colon}) > Len(t)
  BY <1>1, <1>2
<1> QED
  BY <1>3 DEF Config!Counts, Config!Path

LEMMA HostAndPath ==
  ASSUME NEW B, Config!Colon \in B, NEW c \in B, c # Config!Colon, NEW t \in Seq(B),
         NEW spec \in Seq(B), NEW host \in Seq(B), IsHost(host, c), IsJoin(spec, host, t)
  PROVE  /\ Config!Counts(spec) <=> ForHost(host)
         /\ Config!Path(spec) = Config!ExpandEnvironmentVariable(t)
<1>1. Len(host) = 2 /\ host[1] = c /\ host[2] = Config!Colon /\ 1 \in 1..2 /\ 2 \in 1..2
  BY DEF IsHost
<1>2. /\ Len(spec) = Len(host) + Len(t) /\ \A i \in 1..Len(host) : spec[i] = host[i]
      /\ \A i \in 1..Len(t) : spec[Len(host) + i] = t[i]
  BY ConcatIs
<1>3. PICK n \in Nat : n = Len(spec) /\ n >= 2 /\ spec[1] = c /\ spec[2] = Config!Colon
  <2>1. spec[1] = c /\ spec[2] = Config!Colon
    BY <1>1, <1>2
  <2>2. Len(t) \in Nat /\ Len(spec) = 2 + Len(t)
    BY <1>1, <1>2
  <2> QED
    BY <2>1, <2>2
<1>4. Config!FindFirst(spec, 1, {Config!Colon}) = 2
  <2>1. 1 \in 1..Len(spec) + 1 /\ 2 \in 1..Len(spec) + 1
    BY <1>3
  <2>2. Lacks(spec, {Config!Colon}, 1, 2)
    <3>1. \A j \in 1..2 - 1 : j = 1
      OBVIOUS
    <3> QED
      BY <1>3, <3>1 DEF Lacks
  <2> QED
    BY <1>3, <2>1, <2>2, FoundAt
<1>5. ~(Config!FindFirst(spec, 1, {Config!Colon}) > Len(spec))
  BY <1>3, <1>4
<1>6. SubSeq(spec, 1, 1) = <<c>>
  <2>1. PICK o \in Nat : o = 1
    OBVIOUS
  <2>2. \A i \in o..o : spec[i] \in B
    BY <1>3, <2>1
  <2>3. /\ SubSeq(spec, o, o) \in Seq(B) /\ Len(SubSeq(spec, o, o)) = IF o <= o THEN o - o + 1 ELSE 0
        /\ \A i \in 1..o - o + 1 : SubSeq(spec, o, o)[i] = spec[o + i - 1]
    BY <2>2, SubSeqProperties
  <2>4. PICK x \in Seq(B) : x = SubSeq(spec, o, o) /\ Len(x) = 1 /\ x[1] = spec[1]
    <3>1. 1 \in 1..o - o + 1 /\ o + 1 - 1 = 1 /\ (IF o <= o THEN o - o + 1 ELSE 0) = 1
      BY <2>1
    <3>2. SubSeq(spec, o, o)[1] = spec[o + 1 - 1]
      BY <2>3, <3>1
    <3> QED
      BY <2>3, <3>1, <3>2
  <2>5. PICK y \in Seq(B) : y = <<c>> /\ Len(y) = 1 /\ y[1] = c
    <3>1. <<c>> \in Seq(B) /\ Len(<<c>>) = 1 /\ <<c>>[1] = c
      OBVIOUS
    <3> QED
      BY <3>1
  <2>6. \A i \in 1..1 : x[i] = y[i]
    BY <1>3, <2>4, <2>5
  <2>7. x = y
    BY <2>4, <2>5, <2>6, SeqEqual
  <2> QED
    BY <2>1, <2>4, <2>5, <2>7
<1>7. SubSeq(spec, 2 + 1, Len(spec)) = t
  <2>1. SubSeq(spec, Len(host) + 1, Len(spec)) = t
    BY TailOfJoin
  <2> QED
    BY <1>1, <2>1
<1>8. Config!Counts(spec) <=> c = Config!AnyHost \/ c = HostName
  <2>1. Config!Counts(spec) <=> SubSeq(spec, 1, 2 - 1) \in {<<Config!AnyHost>>, <<HostName>>}
    BY <1>4, <1>5, Zenon DEF Config!Counts
  <2>2. 2 - 1 = 1
    OBVIOUS
  <2>3. \A d : <<c>> = <<d>> <=> c = d
    OBVIOUS
  <2> QED
    BY <1>6, <2>1, <2>2, <2>3
<1>9. ForHost(host) <=> c = Config!AnyHost \/ c = HostName
  <2>1. <<c, Config!Colon>> # <<>>
    OBVIOUS
  <2>2. \A d : <<c, Config!Colon>> = <<d, Config!Colon>> <=> c = d
    OBVIOUS
  <2> QED
    BY <2>1, <2>2, Zenon DEF ForHost, IsHost
<1>10. Config!Path(spec) = Config!ExpandEnvironmentVariable(t)
  <2>1. Config!Path(spec) = Config!ExpandEnvironmentVariable(SubSeq(spec, 2 + 1, Len(spec)))
    BY <1>4, <1>5, Zenon DEF Config!Path
  <2> QED
    BY <1>7, <2>1
<1> QED
  BY <1>8, <1>9, <1>10

(* What a line makes of the cache directory. *)
LEMMA LineMeans ==
  ASSUME NEW B, Marks(B), {Config!Space, Config!Colon} \subseteq B, Values(B), NEW Names,
         NEW p \in HostPaths(Names, B), NEW root
  PROVE  Config!LocalDisk(root, Config!LineOf(p).text) = IF ForHost(p.host) THEN Config!Meant(p.parts) ELSE root
<1>1. PICK t \in Seq(B) : t = Config!Spelt(p.parts)
  BY SpeltType DEF HostPaths
<1>2. Config!ExpandEnvironmentVariable(t) = Config!Meant(p.parts)
  BY <1>1, PathMeans DEF HostPaths
<1>3. Config!LineOf(p).text = p.blanks \o (p.host \o t)
  BY <1>1 DEF Config!LineOf
<1>4. p.blanks \in Seq({Config!Space}) /\ p.host \in Hosts(B)
  BY DEF HostPaths
<1>5. \E spec \in Seq(B) : /\ spec = p.host \o t /\ spec # <<>> /\ spec[1] # Config!Space
                           /\ Config!Counts(spec) <=> ForHost(p.host)
                           /\ ForHost(p.host) => Config!Path(spec) = Config!Meant(p.parts)
  <2>1. CASE p.host = <<>>
    <3>1. PlainPath(t)
      BY <1>1, <2>1 DEF HostPaths
    <3>2. p.host \o t = t
      BY <2>1, ConcatEmptySeq
    <3>3. ForHost(p.host)
      BY <2>1, Zenon DEF ForHost
    <3>4. Config!Counts(t) /\ Config!Path(t) = Config!Meant(p.parts)
      BY <1>2, <3>1, PathAlone
    <3> QED
      BY <3>1, <3>2, <3>3, <3>4 DEF PlainPath
  <2>2. CASE p.host # <<>>
    <3>1. PICK c \in B : p.host = <<c, Config!Colon>> /\ c # Config!Colon /\ c # Config!Space
      BY <1>4, <2>2 DEF Hosts
    <3>2. PICK host \in Seq(B) : host = <<c, Config!Colon>> /\ Len(host) = 2 /\ host[1] = c
      <4>1. <<c, Config!Colon>> \in Seq(B)
        OBVIOUS
      <4> QED
        BY <4>1
    <3>3. PICK spec \in Seq(B) : IsJoin(spec, host, t)
      BY ConcatProperties DEF IsJoin
    <3>4. spec[1] = c /\ Len(spec) # 0
      <4>1. Len(spec) = Len(host) + Len(t) /\ \A i \in 1..Len(host) : spec[i] = host[i]
        BY <3>3, ConcatIs
      <4>2. 1 \in 1..2 /\ Len(t) \in Nat
        OBVIOUS
      <4> QED
        BY <3>2, <4>1, <4>2
    <3>5. spec # <<>>
      BY <3>4, EmptySeq
    <3>6. (Config!Counts(spec) <=> ForHost(host)) /\ Config!Path(spec) = Config!ExpandEnvironmentVariable(t)
      <4>1. Config!Colon \in B
        OBVIOUS
      <4>2. c # Config!Colon /\ IsHost(host, c) /\ host \in Seq(B)
        BY <3>1, <3>2 DEF IsHost
      <4> QED
        BY <3>3, <4>1, <4>2, HostAndPath
    <3> QED
      BY <1>2, <3>1, <3>2, <3>3, <3>4, <3>5, <3>6 DEF IsJoin
  <2> QED
    BY <2>1, <2>2
<1>6. PICK spec \in Seq(B) : /\ spec = p.host \o t /\ spec # <<>> /\ spec[1] # Config!Space
                             /\ Config!Counts(spec) <=> ForHost(p.host)
                             /\ ForHost(p.host) => Config!Path(spec) = Config!Meant(p.parts)
  BY <1>5
<1>7. Config!SplitBySpace(p.blanks \o spec) = <<spec>>
  <2>1. Config!Space \in B
    OBVIOUS
  <2>2. PICK bs \in Seq({Config!Space}) : bs = p.blanks
    BY <1>4
  <2>3. Config!SplitBySpace(bs \o spec) = <<spec>>
    BY <1>6, <2>1, WordIs
  <2> QED
    BY <2>2, <2>3
<1>8. PICK text : text = Config!LineOf(p).text /\ Config!SplitBySpace(text) = <<spec>>
  BY <1>3, <1>6, <1>7
<1>9. Config!LocalDisk(root, text) = IF Config!Counts(spec) THEN Config!Path(spec) ELSE root
  BY <1>8, DiskIs
<1> QED
  BY <1>6, <1>8, <1>9

(* The lines of the file, one after the other. *)
Setting(r, s) == FoldLeft(Config!SetLine, r, s)

LEMMA SettingRuns ==
  ASSUME NEW S, NEW C, NEW F, Table(F, S, C), \A x \in S : \A c \in C : F[x][c] = Config!SetLine(x, c),
         NEW r \in S, NEW s \in Seq(C)
  PROVE  \E f : f[0] = r /\ Runs(f, F, S, s) /\ Setting(r, s) = f[Len(s)]
<1> DEFINE Step(g) == [T \in SUBSET (DOMAIN s) |->
                         IF T = {} THEN r ELSE Config!SetLine(g[T \ {Max(T)}], s[Max(T)])]
           it == CHOOSE g : g = Step(g)
<1>0. Len(s) \in Nat /\ DOMAIN s = 1..Len(s)
  BY LenProperties
<1>1. PICK h \in [SUBSET (1..Len(s)) -> S] : Folds(h, F, r, s, Len(s))
  BY FoldsExist
<1>2. h = Step(h)
  <2>1. ASSUME NEW T \in SUBSET (1..Len(s))
        PROVE  h[T] = IF T = {} THEN r ELSE Config!SetLine(h[T \ {Max(T)}], s[Max(T)])
    <3>1. T # {} => h[T] = F[h[T \ {Max(T)}]][s[Max(T)]]
      BY <1>1 DEF Folds
    <3>2. T # {} => h[T] = Config!SetLine(h[T \ {Max(T)}], s[Max(T)])
      BY <1>1, <3>1, FoldsTyped
    <3>3. T = {} => h[T] = r
      BY <1>1 DEF Folds
    <3> QED
      BY <3>2, <3>3
  <2> QED
    BY <1>0, <2>1, Zenon
<1>3. it = Step(it)
  <2> HIDE DEF Step
  <2> QED
    BY <1>2, Zenon
<1>4. Setting(r, s) = it[DOMAIN s]
  BY Zenon DEF Setting, FoldLeft, MapThenFoldSet
<1>5. \A T \in SUBSET (1..Len(s)) :
        it[T] = IF T = {} THEN r ELSE Config!SetLine(it[T \ {Max(T)}], s[Max(T)])
  <2> HIDE DEF it
  <2> QED
    BY <1>0, <1>3, Zenon
<1> HIDE DEF it, Step
<1>6. \A T \in SUBSET (1..Len(s)) : T # {} => s[Max(T)] \in C
  BY <1>1, FoldsTyped
<1>7. Climbs(it, F, S, r, s)
  BY <1>5, <1>6 DEF Climbs
<1> QED
  BY <1>0, <1>4, <1>7, ClimbsRuns

SettingStays(S, C) == \A x \in S : \A c \in C : Config!SetLine(x, c) \in S

LEMMA SettingAppend ==
  ASSUME NEW S, NEW C, SettingStays(S, C), NEW r \in S, NEW s \in Seq(C)
  PROVE  /\ Setting(r, s) \in S
         /\ Setting(r, <<>>) = r
         /\ \A c \in C : Setting(r, Append(s, c)) = Config!SetLine(Setting(r, s), c)
<1>1. PICK F : Table(F, S, C) /\ \A x \in S : \A c \in C : F[x][c] = Config!SetLine(x, c)
  <2> DEFINE G == [x \in S |-> [c \in C |-> Config!SetLine(x, c)]]
  <2>1. Table(G, S, C) /\ \A x \in S : \A c \in C : G[x][c] = Config!SetLine(x, c)
    BY DEF Table, SettingStays
  <2> HIDE DEF G
  <2> QED
    BY <2>1
<1>2. PICK f : f[0] = r /\ Runs(f, F, S, s) /\ Setting(r, s) = f[Len(s)]
  BY <1>1, SettingRuns
<1>3. Len(s) \in Nat /\ Len(s) \in 0..Len(s)
  BY LenProperties
<1>4. f[Len(s)] \in S
  BY <1>1, <1>2, <1>3, RunsTyped
<1>5. Setting(r, <<>>) = r
  <2>1. PICK t \in Seq(C) : t = <<>>
    BY EmptySeq
  <2>2. Len(t) = 0
    BY <2>1
  <2>3. PICK g : g[0] = r /\ Runs(g, F, S, t) /\ Setting(r, t) = g[Len(t)]
    BY <1>1, SettingRuns
  <2> QED
    BY <2>1, <2>2, <2>3
<1>6. ASSUME NEW c \in C
      PROVE  Setting(r, Append(s, c)) = Config!SetLine(Setting(r, s), c)
  <2>1. PICK t \in Seq(C) : Extends(t, s, c)
    BY AppendProperties DEF Extends
  <2>2. PICK g : g[0] = r /\ Runs(g, F, S, t) /\ Setting(r, t) = g[Len(t)]
    BY <1>1, SettingRuns
  <2>3. Leads(F, f[Len(s)], c, g[Len(t)])
    BY <1>1, <1>2, <2>1, <2>2, RunsAgree
  <2> QED
    BY <1>1, <1>2, <1>4, <2>1, <2>2, <2>3 DEF Extends, Leads
<1> QED
  BY <1>2, <1>4, <1>5, <1>6

LinesOf(pairs) == [i \in DOMAIN pairs |-> Config!LineOf(pairs[i])]

LEMMA LoadIs == ASSUME NEW ls PROVE Config!LoadConfig(ls) = Setting(Config!Defaults, ls)
BY Zenon DEF Config!LoadConfig, Setting, Config!FoldLeft, FoldLeft, Config!MapThenFoldSet, MapThenFoldSet, Config!Max, Max

LEMMA LinesGrow ==
  ASSUME NEW P, NEW pairs \in Seq(P), NEW p \in P
  PROVE  /\ LinesOf(pairs) \in Seq({Config!LineOf(q) : q \in P}) /\ LinesOf(<<>>) = <<>>
         /\ LinesOf(Append(pairs, p)) = Append(LinesOf(pairs), Config!LineOf(p))
<1> DEFINE C == {Config!LineOf(q) : q \in P}
<1>1. PICK more \in Seq(P) : more = Append(pairs, p)
  BY AppendProperties
<1>2. PICK n \in Nat : n = Len(pairs)
  OBVIOUS
<1>3. Len(more) = n + 1 /\ more[n + 1] = p /\ (\A i \in 1..n : more[i] = pairs[i])
      /\ DOMAIN pairs = 1..n /\ DOMAIN more = 1..n + 1
  BY <1>1, <1>2, AppendProperties
<1>4. \A q \in P : Config!LineOf(q) \in C
  OBVIOUS
<1> HIDE DEF C
<1>5. LinesOf(pairs) \in Seq(C) /\ LinesOf(more) \in Seq(C) /\ Config!LineOf(p) \in C
  <2>1. \A i \in 1..n : pairs[i] \in P
    BY <1>2
  <2>2. \A i \in 1..n + 1 : more[i] \in P
    BY <1>3
  <2> QED
    BY <1>3, <1>4, <2>1, <2>2 DEF LinesOf
<1>6. /\ Len(LinesOf(pairs)) = n /\ \A i \in 1..n : LinesOf(pairs)[i] = Config!LineOf(pairs[i])
      /\ Len(LinesOf(more)) = n + 1 /\ \A i \in 1..n + 1 : LinesOf(more)[i] = Config!LineOf(more[i])
  BY <1>3, <1>5 DEF LinesOf
<1>7. PICK s \in Seq(C) : s = Append(LinesOf(pairs), Config!LineOf(p))
  BY <1>5, AppendProperties
<1>8. Len(s) = n + 1 /\ s[n + 1] = Config!LineOf(p) /\ \A i \in 1..n : s[i] = LinesOf(pairs)[i]
  BY <1>5, <1>6, <1>7, AppendProperties
<1>9. \A i \in 1..n + 1 : s[i] = LinesOf(more)[i]
  <2>1. \A i \in 1..n + 1 : i \in 1..n \/ i = n + 1
    OBVIOUS
  <2> QED
    BY <1>3, <1>6, <1>8, <2>1
<1>10. s = LinesOf(more)
  BY <1>5, <1>6, <1>8, <1>9, SeqEqual
<1>11. LinesOf(<<>>) = <<>>
  <2>1. DOMAIN (<<>>) = {}
    OBVIOUS
  <2> QED
    BY <2>1 DEF LinesOf
<1> QED
  BY <1>1, <1>5, <1>7, <1>10, <1>11 DEF C

(* What is meant by the lines, when one comes after the others. *)
LEMMA RootGrows ==
  ASSUME NEW P, NEW pairs \in Seq(P), NEW p \in P
  PROVE  /\ Config!RootMeant(<<>>) = Config!Defaults.root
         /\ Config!RootMeant(Append(pairs, p)) = IF Config!ForThisHost(p) THEN Config!Meant(p.parts)
                                                 ELSE Config!RootMeant(pairs)
<1> DEFINE Of(ps) == {i \in DOMAIN ps : Config!ForThisHost(ps[i])}
           LastOf(c) == CHOOSE i \in c : \A j \in c : i >= j
<1>1. \A ps : Config!RootMeant(ps) = IF Of(ps) = {} THEN Config!Defaults.root ELSE Config!Meant(ps[LastOf(Of(ps))].parts)
  BY Zenon DEF Config!RootMeant
<1>2. PICK more \in Seq(P) : more = Append(pairs, p)
  BY AppendProperties
<1>3. PICK n \in Nat : n = Len(pairs)
  OBVIOUS
<1>4. Len(more) = n + 1 /\ more[n + 1] = p /\ (\A i \in 1..n : more[i] = pairs[i])
      /\ DOMAIN pairs = 1..n /\ DOMAIN more = 1..n + 1
  BY <1>2, <1>3, AppendProperties
<1>5. Config!RootMeant(<<>>) = Config!Defaults.root
  <2>1. DOMAIN (<<>>) = {}
    OBVIOUS
  <2>2. Of(<<>>) = {}
    BY <2>1
  <2> HIDE DEF Of, LastOf
  <2> QED
    BY <1>1, <2>2
<1>6. \A i \in 1..n + 1 : i \in 1..n \/ i = n + 1
  OBVIOUS
<1>7. CASE Config!ForThisHost(p)
  <2>1. n + 1 \in Of(more) /\ \A j \in Of(more) : n + 1 >= j /\ j \in Nat
    BY <1>4, <1>7
  <2>2. LastOf(Of(more)) = n + 1
    <3> DEFINE c == Of(more)
    <3> HIDE DEF Of
    <3>1. \E i \in c : \A j \in c : i >= j
      BY <2>1
    <3> HIDE DEF c
    <3>2. LastOf(c) \in c /\ \A j \in c : LastOf(c) >= j
      BY <3>1, Zenon
    <3> HIDE DEF LastOf
    <3>3. LastOf(c) \in Nat /\ n + 1 >= LastOf(c) /\ LastOf(c) >= n + 1
      BY <2>1, <3>2 DEF c
    <3>4. LastOf(c) = n + 1
      BY <3>3
    <3> QED
      BY <3>4 DEF c
  <2> HIDE DEF Of, LastOf
  <2>3. Config!RootMeant(more) = Config!Meant(p.parts)
    BY <1>1, <1>4, <2>1, <2>2
  <2> QED
    BY <1>2, <1>5, <1>7, <2>3
<1>8. CASE ~Config!ForThisHost(p)
  <2>1. Of(more) = Of(pairs)
    BY <1>4, <1>6, <1>8
  <2>2. CASE Of(pairs) = {}
    <3> HIDE DEF Of, LastOf
    <3> QED
      BY <1>1, <1>2, <1>5, <1>8, <2>1, <2>2
  <2>3. CASE Of(pairs) # {}
    <3>1. LastOf(Of(pairs)) \in Of(pairs)
      <4> DEFINE c == Of(pairs)
                 Far == {k \in Nat : \A j \in c : j <= k}
      <4>1. c \in SUBSET (1..n)
        BY <1>4
      <4> HIDE DEF Of
      <4>2. Max(c) \in c /\ \A j \in c : Max(c) >= j
        <5>1. Max(c) = LastOf(c)
          BY Zenon DEF Max
        <5>2. n \in Far
          BY <4>1
        <5>3. PICK k \in Far : \A m \in Far : k <= m
          <6>1. Far \in SUBSET Nat
            OBVIOUS
          <6> HIDE DEF Far
          <6> QED
            BY <5>2, <6>1, LeastOne
        <5>4. k \in c
          <6> SUFFICES ASSUME k \notin c PROVE FALSE
            OBVIOUS
          <6>1. PICK j \in c : TRUE
            BY <2>3
          <6>2. j \in Nat /\ j # 0 /\ j <= k /\ k \in Nat
            BY <4>1, <5>3
          <6>3. \A i \in c : i <= k - 1
            BY <4>1, <5>3
          <6>4. k - 1 \in Far
            BY <6>2, <6>3
          <6> QED
            BY <5>3, <6>2, <6>4
        <5>5. \A j \in c : k >= j
          BY <4>1, <5>3
        <5>6. LastOf(c) \in c /\ \A j \in c : LastOf(c) >= j
          <6> HIDE DEF c
          <6> QED
            BY <5>4, <5>5, Zenon
        <5> QED
          BY <5>1, <5>6
      <4>3. Max(c) = LastOf(c)
        BY Zenon DEF Max
      <4> QED
        BY <4>2, <4>3
    <3>2. more[LastOf(Of(pairs))] = pairs[LastOf(Of(pairs))]
      <4> HIDE DEF LastOf
      <4> QED
        BY <1>4, <3>1
    <3> HIDE DEF Of, LastOf
    <3> QED
      BY <1>1, <1>2, <1>5, <1>8, <2>1, <2>3, <3>2
  <2> QED
    BY <2>2, <2>3
<1> QED
  BY <1>7, <1>8

(* The characters that the configuration gives a meaning. *)
ConfigSigns == {Config!Dollar, Config!Opening, Config!Closing, Config!Space, Config!Colon, "/", "0", "50000000"}

Configs(B) == [root : Seq(B), server : Seq(B), port : Seq(B), locksize : Seq(B)]

LinesIn(Names, B) == {Config!LineOf(p) : p \in HostPaths(Names, B)}

LEMMA SignsGiven ==
  ASSUME NEW B, ConfigSigns \subseteq B
  PROVE  /\ Marks(B) /\ {Config!Space, Config!Colon} \subseteq B
         /\ Config!Defaults \in Configs(B) /\ Config!Defaults.root = <<"/">>
<1>1. Marks(B) /\ {Config!Space, Config!Colon} \subseteq B /\ "/" \in B /\ "0" \in B /\ "50000000" \in B
  BY DEF ConfigSigns, Marks
<1>2. <<"/">> \in Seq(B) /\ <<"0">> \in Seq(B) /\ <<"50000000">> \in Seq(B) /\ <<>> \in Seq(B)
  BY <1>1
<1> QED
  BY <1>1, <1>2 DEF Config!Defaults, Configs

LEMMA LineIs ==
  ASSUME NEW B, ConfigSigns \subseteq B, Values(B), NEW Names, NEW p \in HostPaths(Names, B)
  PROVE  Config!LineOf(p).name = p.name /\ Config!LineOf(p).text \in Seq(B)
<1>1. PICK t \in Seq(B) : t = Config!Spelt(p.parts)
  BY SignsGiven, SpeltType DEF HostPaths
<1>2. p.blanks \in Seq({Config!Space}) /\ p.host \in Hosts(B)
  BY DEF HostPaths
<1>3. Config!Space \in B /\ Config!Colon \in B
  BY SignsGiven
<1>4. PICK b \in Seq(B) : b = p.blanks
  BY <1>2, <1>3
<1>5. PICK h \in Seq(B) : h = p.host
  <2>1. CASE p.host = <<>>
    <3>1. <<>> \in Seq(B)
      OBVIOUS
    <3> QED
      BY <2>1, <3>1
  <2>2. CASE p.host # <<>>
    <3>1. PICK c \in B : p.host = <<c, Config!Colon>>
      BY <1>2, <2>2 DEF Hosts
    <3>2. <<c, Config!Colon>> \in Seq(B)
      BY <1>3
    <3> QED
      BY <3>1, <3>2
  <2> QED
    BY <2>1, <2>2
<1>6. PICK u \in Seq(B) : u = h \o t
  BY ConcatProperties
<1>7. b \o u \in Seq(B)
  BY ConcatProperties
<1> QED
  BY <1>1, <1>4, <1>5, <1>6, <1>7 DEF Config!LineOf

(* A line for this host sets the directory, any other leaves it. *)
LEMMA LineSets ==
  ASSUME NEW B, ConfigSigns \subseteq B, Values(B), NEW Names, NEW p \in HostPaths(Names, B), NEW c \in Configs(B)
  PROVE  /\ Config!SetLine(c, Config!LineOf(p)) \in Configs(B)
         /\ Config!SetLine(c, Config!LineOf(p)).root = IF Config!ForThisHost(p) THEN Config!Meant(p.parts) ELSE c.root
<1>1. PICK line : line = Config!LineOf(p) /\ line.name = p.name /\ line.text \in Seq(B)
  BY LineIs
<1>2. Config!ForThisHost(p) <=> p.name = "tgelocaldisk" /\ ForHost(p.host)
  BY Zenon DEF Config!ForThisHost, ForHost
<1>3. Config!LocalDisk(c.root, line.text) = IF ForHost(p.host) THEN Config!Meant(p.parts) ELSE c.root
  BY <1>1, SignsGiven, LineMeans
<1>4. Config!Meant(p.parts) \in Seq(B)
  BY SignsGiven, SpeltType DEF HostPaths
<1>5. c = [root |-> c.root, server |-> c.server, port |-> c.port, locksize |-> c.locksize]
      /\ c.root \in Seq(B) /\ c.server \in Seq(B) /\ c.port \in Seq(B) /\ c.locksize \in Seq(B)
  BY DEF Configs
<1>6. CASE line.name = "tgelocaldisk"
  <2>1. PICK d \in Seq(B) : d = Config!LocalDisk(c.root, line.text)
    BY <1>3, <1>4, <1>5
  <2>2. Config!SetLine(c, line) = [c EXCEPT !.root = d]
    BY <1>6, <2>1 DEF Config!SetLine
  <2>3. [c EXCEPT !.root = d] \in Configs(B) /\ [c EXCEPT !.root = d].root = d
    BY DEF Configs
  <2> QED
    BY <1>1, <1>2, <1>3, <1>6, <2>1, <2>2, <2>3
<1>7. CASE line.name # "tgelocaldisk"
  <2>1. CASE line.name \in {"server", "port", "locksize"}
    <3>1. Config!SetLine(c, line) = [c EXCEPT ![line.name] = line.text]
      BY <1>7, <2>1 DEF Config!SetLine
    <3>2. [c EXCEPT ![line.name] = line.text] \in Configs(B) /\ [c EXCEPT ![line.name] = line.text].root = c.root
      BY <1>1, <2>1 DEF Configs
    <3> QED
      BY <1>1, <1>2, <1>7, <3>1, <3>2
  <2>2. CASE line.name \notin {"server", "port", "locksize"}
    <3>1. Config!SetLine(c, line) = c
      BY <1>7, <2>2 DEF Config!SetLine
    <3> QED
      BY <1>1, <1>2, <1>7, <3>1
  <2> QED
    BY <2>1, <2>2
<1> QED
  BY <1>6, <1>7

LEMMA RootLoaded ==
  ASSUME NEW B, ConfigSigns \subseteq B, Values(B), NEW Names, NEW pairs \in Seq(HostPaths(Names, B))
  PROVE  /\ Config!LoadConfig(LinesOf(pairs)) \in Configs(B)
         /\ Config!LoadConfig(LinesOf(pairs)).root = Config!RootMeant(pairs)
<1> DEFINE P == HostPaths(Names, B)
           C == {Config!LineOf(q) : q \in P}
           S == Configs(B)
           r == Config!Defaults
           Good(ps) == Setting(r, LinesOf(ps)) \in S /\ Setting(r, LinesOf(ps)).root = Config!RootMeant(ps)
           G == {ps \in Seq(P) : Good(ps)}
<1>1. SettingStays(S, C) /\ r \in S
  <2>1. r \in S
    BY SignsGiven
  <2>2. ASSUME NEW c \in S, NEW q \in P PROVE Config!SetLine(c, Config!LineOf(q)) \in S
    BY LineSets
  <2> QED
    BY <2>1, <2>2 DEF SettingStays
<1>2. <<>> \in G
  <2>1. Setting(r, <<>>) = r
    <3>1. <<>> \in Seq(C)
      OBVIOUS
    <3> HIDE DEF C, S, r
    <3> QED
      BY <1>1, <3>1, SettingAppend
  <2>2. LinesOf(<<>>) = <<>>
    <3>1. DOMAIN (<<>>) = {}
      OBVIOUS
    <3> QED
      BY <3>1 DEF LinesOf
  <2>3. Config!RootMeant(<<>>) = r.root
    <3>1. <<>> \in Seq({0}) /\ 0 \in {0}
      OBVIOUS
    <3> QED
      BY <3>1, RootGrows
  <2>4. <<>> \in Seq(P)
    OBVIOUS
  <2> HIDE DEF P, S, r
  <2> QED
    BY <1>1, <2>1, <2>2, <2>3, <2>4
<1>3. ASSUME NEW ps \in G, NEW p \in P PROVE Append(ps, p) \in G
  <2>1. ps \in Seq(P) /\ Good(ps)
    OBVIOUS
  <2>2. LinesOf(ps) \in Seq(C) /\ LinesOf(Append(ps, p)) = Append(LinesOf(ps), Config!LineOf(p)) /\ Append(ps, p) \in Seq(P)
    BY <2>1, LinesGrow, AppendProperties
  <2>3. Config!LineOf(p) \in C
    OBVIOUS
  <2>4. Setting(r, Append(LinesOf(ps), Config!LineOf(p))) = Config!SetLine(Setting(r, LinesOf(ps)), Config!LineOf(p))
    <3> HIDE DEF C, S, r
    <3> QED
      BY <1>1, <2>2, <2>3, SettingAppend
  <2>5. PICK c \in S : c = Setting(r, LinesOf(ps)) /\ c.root = Config!RootMeant(ps)
    BY <2>1
  <2>6. /\ Config!SetLine(c, Config!LineOf(p)) \in S
        /\ Config!SetLine(c, Config!LineOf(p)).root = IF Config!ForThisHost(p) THEN Config!Meant(p.parts) ELSE c.root
    BY <2>5, LineSets
  <2>7. Config!RootMeant(Append(ps, p)) = IF Config!ForThisHost(p) THEN Config!Meant(p.parts) ELSE Config!RootMeant(ps)
    <3> HIDE DEF P
    <3> QED
      BY <2>1, RootGrows
  <2> HIDE DEF S, r, P
  <2>8. Good(Append(ps, p))
    BY <2>2, <2>4, <2>5, <2>6, <2>7
  <2> QED
    BY <2>2, <2>8
<1>4. G = Seq(P)
  <2>1. G \in SUBSET Seq(P)
    OBVIOUS
  <2> HIDE DEF G, P
  <2> QED
    BY <1>2, <1>3, <2>1, SequencesGrow
<1>5. Good(pairs)
  <2>1. pairs \in G
    BY <1>4
  <2> QED
    BY <2>1
<1> QED
  BY <1>5, LoadIs

(* A daemon that is started with a file of such lines, or with none. *)
ConfigInit(Names, B) ==
  /\ job = "config" /\ answer = <<>>
  /\ question \in [exists : BOOLEAN, pairs : Seq(HostPaths(Names, B))]

ConfigNext == Configure /\ UNCHANGED <<job, question>>

ConfigSpec(Names, B) == ConfigInit(Names, B) /\ [][ConfigNext]_<<job, question, answer>>

ConfigInv(Names, B) ==
  /\ question \in [exists : BOOLEAN, pairs : Seq(HostPaths(Names, B))]
  /\ answer \in {<<>>, <<"config", Config!LoadConfig(LinesOf(question.pairs)),
                                   Config!Starts(question.exists, LinesOf(question.pairs))>>}

LEMMA ConfigStep ==
  ASSUME NEW Names, NEW B, ConfigInv(Names, B), [ConfigNext]_<<job, question, answer>>
  PROVE  ConfigInv(Names, B)'
<1>1. CASE UNCHANGED <<job, question, answer>>
  BY <1>1 DEF ConfigInv
<1>2. ASSUME Configure, UNCHANGED <<job, question>> PROVE ConfigInv(Names, B)'
  <2>1. answer' = <<"config", Config!LoadConfig(LinesOf(question.pairs)),
                              Config!Starts(question.exists, LinesOf(question.pairs))>>
    BY <1>2 DEF Configure, Answers, LinesOf
  <2> QED
    BY <1>2, <2>1 DEF ConfigInv
<1> QED
  BY <1>1, <1>2 DEF ConfigNext

LEMMA StartsIf ==
  ASSUME NEW B, NEW root \in Seq(B)
  PROVE  root # <<"/">> /\ root # <<>> /\ root[1] = "/" <=> Len(root) > 1 /\ root[1] = "/"
<1>1. Len(root) \in Nat /\ (root = <<>> <=> Len(root) = 0)
  BY EmptySeq
<1>2. CASE Len(root) = 1
  <2>1. root[1] = "/" => root = <<"/">>
    BY <1>2
  <2> QED
    BY <1>2, <2>1
<1>3. CASE Len(root) # 1
  <2>1. root # <<"/">>
    BY <1>3
  <2>2. root # <<>> <=> Len(root) > 1
    <3>1. Len(root) # 0 <=> Len(root) > 1
      BY <1>1, <1>3
    <3> QED
      BY <1>1, <3>1
  <2> QED
    BY <2>1, <2>2
<1> QED
  BY <1>2, <1>3

(* ConfigHonoured, for all environments and files of any number of lines: the cache directory
   is that of the last line for this host, with the values of the variables in its path, and
   the daemon starts if there is a file and that directory is absolute and not the root; as
   long as the texts of the paths have no opening brace, no name of a variable has a closing
   one, and a path without a host has no colon. *)
THEOREM ConfigAlwaysHonoured ==
  ASSUME NEW Names, NEW B, ConfigSigns \subseteq B, Values(B)
  PROVE  ConfigSpec(Names, B) => []ConfigHonoured
<1>1. ConfigInit(Names, B) => ConfigInv(Names, B)
  BY DEF ConfigInit, ConfigInv
<1>2. ConfigInv(Names, B) /\ [ConfigNext]_<<job, question, answer>> => ConfigInv(Names, B)'
  BY ConfigStep
<1>3. ConfigInv(Names, B) => ConfigHonoured
  <2> SUFFICES ASSUME ConfigInv(Names, B), job = "config", answer # <<>>
               PROVE  /\ answer[2].root = Config!RootMeant(question.pairs)
                      /\ answer[3] = (/\ question.exists /\ Len(Config!RootMeant(question.pairs)) > 1
                                      /\ Config!RootMeant(question.pairs)[1] = "/")
    BY Zenon DEF ConfigHonoured
  <2>1. question.exists \in BOOLEAN /\ question.pairs \in Seq(HostPaths(Names, B))
    BY DEF ConfigInv
  <2>2. PICK c \in Configs(B) : c = Config!LoadConfig(LinesOf(question.pairs)) /\ c.root = Config!RootMeant(question.pairs)
    BY <2>1, RootLoaded
  <2>3. PICK root \in Seq(B) : root = c.root
    BY <2>2 DEF Configs
  <2>4. answer = <<"config", c, Config!Starts(question.exists, LinesOf(question.pairs))>>
    BY <2>2 DEF ConfigInv
  <2>5. Config!Starts(question.exists, LinesOf(question.pairs))
          = (question.exists /\ root # <<"/">> /\ root # <<>> /\ root[1] = "/")
    BY <2>2, <2>3, Zenon DEF Config!Starts, Config!Absolute
  <2>6. (question.exists /\ root # <<"/">> /\ root # <<>> /\ root[1] = "/")
          = (question.exists /\ Len(root) > 1 /\ root[1] = "/")
    BY StartsIf
  <2> QED
    BY <2>2, <2>3, <2>4, <2>5, <2>6
<1> QED
  BY <1>1, <1>2, <1>3, PTL DEF ConfigSpec
================================================================================
