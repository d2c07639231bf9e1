--------------------------- MODULE LockOrderProofs ---------------------------
(* Proofs about LockOrder: for any number of workers and names, however the daemon is
   run, its locks are taken in one order, from the identity down to the index, but for
   the two-path calls and the fall back of open, and only those can close a cycle. *)
EXTENDS LockOrder, TLAPS

(* What the handlers are made of. *)
Ops == [op : {"take", "give"}, lock : Locks]

(* A handler that has s before it has m when it comes to step i of s: the next step
   on m is to give it. *)
HeldAt(s, i, m) == \E j \in i..Len(s) : s[j] = Give(m) /\ \A k \in i..j : s[k] # Take(m)

(* The order: identity, copy, table of LocalFiles, collector, index. *)
Rank(l) == IF l \in Names THEN 2 ELSE
           IF l = "fsid" THEN 1 ELSE
           IF l = "lf" THEN 3 ELSE
           IF l = "gc" THEN 4 ELSE 5

(* Locks are taken from left to right, but for the pairs of X: <<m, l>> in X says that
   l may be taken with m held, <<m, m>> that m may be waited for with m held. *)
Ordered(s, X) == \A i \in 1..Len(s), l \in Locks : s[i] = Take(l) =>
  /\ \A m \in Locks : HeldAt(s, i, m) => Rank(m) < Rank(l) \/ <<m, l>> \in X
  /\ \/ HeldAt(s, i + 1, l)
     \/ <<l, l>> \in X /\ i < Len(s) /\ s[i + 1] = Take(l)

(* A whole handler, or a part of one, on locks of L: it gives what it takes only. *)
Proper(s, L, X) == /\ s \in Seq(Ops)
                   /\ \A i \in 1..Len(s) : s[i].lock \in L
                   /\ Ordered(s, X)
                   /\ \A m \in Locks : ~HeldAt(s, 1, m)

(* The pairs of locks a call of kind k takes against the order. *)
Exempt(k) ==
  IF k = "two" THEN {p \in Names \X Names : setting.oneTwoPathCall => p[1] # p[2]} ELSE
  IF k = "fallback" /\ setting.root THEN Names \X {"fsid"} ELSE {}

Typing == /\ setting \in Settings
          /\ owner \in [Locks -> Workers \cup {None}]
          /\ todo \in [Workers -> Seq(Ops)]
          /\ kind \in [Workers -> Kind \cup {"none"}]

(* What is left of a handler is in order. *)
InOrder == \A w \in Workers : Ordered(todo[w], Exempt(kind[w]))

(* A handler has only locks it will give back, or waits for itself. *)
GivesBack == \A w \in Workers, m \in Locks : owner[m] = w =>
  HeldAt(todo[w], 1, m) \/ (<<m, m>> \in Exempt(kind[w]) /\ Wants(w, m))

(* Calls are of the kinds the users make, of two paths one at a time if so set. *)
AsSet == /\ \A w \in Workers : Runs(w) => kind[w] \in setting.kinds
         /\ setting.oneTwoPathCall => \A v, w \in Workers :
              Runs(v) /\ Runs(w) /\ kind[v] = "two" /\ kind[w] = "two" => v = w

IInv == Typing /\ InOrder /\ GivesBack /\ AsSet

------------------------------------------------------------------------------
(* Handlers in order: the empty one, two in a row, and one within a scope. *)

LEMMA OpsOf ==
  ASSUME NEW l \in Locks
  PROVE  /\ Take(l) \in Ops /\ Give(l) \in Ops
         /\ Take(l).lock = l /\ Give(l).lock = l
         /\ \A m : Take(l) # Give(m)
         /\ \A m : Take(l) = Take(m) => l = m
         /\ \A m : Give(l) = Give(m) => l = m
BY DEF Take, Give, Ops

LEMMA EmptyProper ==
  ASSUME NEW L, NEW X
  PROVE  Proper(<<>>, L, X)
BY DEF Proper, Ordered, HeldAt

LEMMA WeakenProper ==
  ASSUME NEW s, NEW L, NEW M, NEW X, NEW Y, Proper(s, L, X), L \subseteq M, X \subseteq Y
  PROVE  Proper(s, M, Y)
BY DEF Proper, Ordered

(* What is held in the first of two handlers is held as if it were alone. *)
LEMMA HeldInFirst ==
  ASSUME NEW s \in Seq(Ops), NEW t \in Seq(Ops), NEW i \in 1..(Len(s) + 1), NEW m \in Locks,
         HeldAt(s \o t, i, m), ~HeldAt(t, 1, m)
  PROVE  HeldAt(s, i, m)
<1>1. PICK j \in i..Len(s \o t) : (s \o t)[j] = Give(m) /\ \A k \in i..j : (s \o t)[k] # Take(m)
  BY DEF HeldAt
<1>2. CASE j \in i..Len(s)
  <2>1. \A k \in i..j : (s \o t)[k] = s[k]
    BY <1>2
  <2> QED BY <1>1, <1>2, <2>1 DEF HeldAt
<1>3. CASE j \notin i..Len(s)
  <2>1. j - Len(s) \in 1..Len(t) /\ t[j - Len(s)] = Give(m)
    BY <1>1, <1>3
  <2>2. \A k \in 1..(j - Len(s)) : t[k] # Take(m)
    <3> TAKE k \in 1..(j - Len(s))
    <3>1. k + Len(s) \in i..j /\ k \in 1..Len(t)
      BY <1>1, <2>1
    <3> QED BY <1>1, <3>1
  <2> QED BY <2>1, <2>2 DEF HeldAt
<1> QED BY <1>2, <1>3

LEMMA HeldStaysFirst ==
  ASSUME NEW s \in Seq(Ops), NEW t \in Seq(Ops), NEW i \in 1..(Len(s) + 1), NEW m \in Locks,
         HeldAt(s, i, m)
  PROVE  HeldAt(s \o t, i, m)
<1>1. PICK j \in i..Len(s) : s[j] = Give(m) /\ \A k \in i..j : s[k] # Take(m)
  BY DEF HeldAt
<1>2. \A k \in i..j : (s \o t)[k] = s[k]
  OBVIOUS
<1> QED BY <1>1, <1>2 DEF HeldAt

LEMMA HeldInSecond ==
  ASSUME NEW s \in Seq(Ops), NEW t \in Seq(Ops), NEW i \in 1..(Len(t) + 1), NEW m \in Locks
  PROVE  HeldAt(s \o t, Len(s) + i, m) <=> HeldAt(t, i, m)
<1>1. ASSUME HeldAt(t, i, m) PROVE HeldAt(s \o t, Len(s) + i, m)
  <2>1. PICK j \in i..Len(t) : t[j] = Give(m) /\ \A k \in i..j : t[k] # Take(m)
    BY <1>1 DEF HeldAt
  <2>2. Len(s) + j \in (Len(s) + i)..Len(s \o t) /\ (s \o t)[Len(s) + j] = Give(m)
    BY <2>1
  <2>3. \A k \in (Len(s) + i)..(Len(s) + j) : (s \o t)[k] # Take(m)
    <3> TAKE k \in (Len(s) + i)..(Len(s) + j)
    <3>1. k - Len(s) \in i..j /\ (s \o t)[k] = t[k - Len(s)]
      OBVIOUS
    <3> QED BY <2>1, <3>1
  <2> QED BY <2>2, <2>3 DEF HeldAt
<1>2. ASSUME HeldAt(s \o t, Len(s) + i, m) PROVE HeldAt(t, i, m)
  <2>1. PICK j \in (Len(s) + i)..Len(s \o t) :
          (s \o t)[j] = Give(m) /\ \A k \in (Len(s) + i)..j : (s \o t)[k] # Take(m)
    BY <1>2 DEF HeldAt
  <2>2. j - Len(s) \in i..Len(t) /\ t[j - Len(s)] = Give(m)
    BY <2>1
  <2>3. \A k \in i..(j - Len(s)) : t[k] # Take(m)
    <3> TAKE k \in i..(j - Len(s))
    <3>1. k + Len(s) \in (Len(s) + i)..j /\ (s \o t)[k + Len(s)] = t[k]
      BY <2>1
    <3> QED BY <2>1, <3>1
  <2> QED BY <2>2, <2>3 DEF HeldAt
<1> QED BY <1>1, <1>2

LEMMA ConcatProper ==
  ASSUME NEW s, NEW t, NEW L, NEW X, Proper(s, L, X), Proper(t, L, X)
  PROVE  Proper(s \o t, L, X)
<1> DEFINE c == s \o t
<1>1. s \in Seq(Ops) /\ t \in Seq(Ops) /\ c \in Seq(Ops) /\ Len(c) = Len(s) + Len(t)
  BY DEF Proper
<1>2. \A m \in Locks : ~HeldAt(c, 1, m)
  BY <1>1, HeldInFirst DEF Proper
<1>3. \A i \in 1..Len(c) : c[i].lock \in L
  BY <1>1 DEF Proper
<1>4. ASSUME NEW i \in 1..Len(c), NEW l \in Locks, c[i] = Take(l)
      PROVE  /\ \A m \in Locks : HeldAt(c, i, m) => Rank(m) < Rank(l) \/ <<m, l>> \in X
             /\ HeldAt(c, i + 1, l) \/ (<<l, l>> \in X /\ i < Len(c) /\ c[i + 1] = Take(l))
  <2>1. CASE i \in 1..Len(s)
    <3>1. s[i] = Take(l)
      BY <1>1, <1>4, <2>1
    <3>2. \A m \in Locks : HeldAt(c, i, m) => HeldAt(s, i, m)
      BY <1>1, <2>1, HeldInFirst DEF Proper
    <3>3. HeldAt(s, i + 1, l) => HeldAt(c, i + 1, l)
      BY <1>1, <2>1, HeldStaysFirst
    <3>4. i < Len(s) => i < Len(c) /\ c[i + 1] = s[i + 1]
      BY <1>1, <2>1
    <3> QED BY <2>1, <3>1, <3>2, <3>3, <3>4 DEF Proper, Ordered
  <2>2. CASE i \notin 1..Len(s)
    <3> DEFINE h == i - Len(s)
    <3>1. h \in 1..Len(t) /\ i = Len(s) + h /\ t[h] = Take(l)
      BY <1>1, <1>4, <2>2
    <3>2. \A m \in Locks : HeldAt(c, i, m) <=> HeldAt(t, h, m)
      BY <1>1, <3>1, HeldInSecond
    <3>3. HeldAt(c, i + 1, l) <=> HeldAt(t, h + 1, l)
      <4>1. h + 1 \in 1..(Len(t) + 1) /\ i + 1 = Len(s) + (h + 1)
        BY <1>1, <3>1
      <4> QED BY <1>1, <4>1, HeldInSecond
    <3>4. h < Len(t) => i < Len(c) /\ c[i + 1] = t[h + 1]
      BY <1>1, <3>1
    <3> HIDE DEF c, h
    <3> QED BY <3>1, <3>2, <3>3, <3>4 DEF Proper, Ordered
  <2> QED BY <2>1, <2>2
<1> HIDE DEF c
<1>5. Ordered(c, X)
  BY <1>4 DEF Ordered
<1> QED BY <1>1, <1>2, <1>3, <1>5 DEF Proper, c

(* A scope of l, around what takes only locks that may be taken with l held, and l
   itself, if at all, at once. *)
LEMMA SectionProper ==
  ASSUME NEW s, NEW L \in SUBSET Locks, NEW X, Proper(s, L, X), NEW l \in Locks,
         \A m \in L : Rank(l) < Rank(m) \/ <<l, m>> \in X,
         l \in L => <<l, l>> \in X /\ Len(s) > 0 /\ s[1] = Take(l)
  PROVE  Proper(Section(l, s), L \cup {l}, X)
<1> DEFINE c == Section(l, s)
           n == Len(s)
<1>1. s \in Seq(Ops) /\ n \in Nat
  BY DEF Proper
<1>2. /\ c \in Seq(Ops) /\ Len(c) = n + 2
      /\ c[1] = Take(l) /\ c[n + 2] = Give(l)
      /\ \A i \in 2..(n + 1) : c[i] = s[i - 1]
      /\ \A i \in 1..n : c[i + 1] = s[i]
  BY <1>1, OpsOf DEF Section
<1> HIDE DEF c
<1>3. \A i \in 1..Len(c) : c[i].lock \in L \cup {l}
  <2> TAKE i \in 1..Len(c)
  <2>1. i = 1 \/ i = n + 2 \/ (i - 1 \in 1..n /\ c[i] = s[i - 1])
    BY <1>1, <1>2
  <2> QED BY <1>2, <2>1, OpsOf DEF Proper
<1>4. ASSUME NEW i \in 2..(n + 2), NEW m \in Locks, HeldAt(c, i, m)
      PROVE  HeldAt(s, i - 1, m) \/ (m = l /\ \A k \in i..(n + 2) : c[k] # Take(l))
  <2>1. PICK j \in i..(n + 2) : c[j] = Give(m) /\ \A k \in i..j : c[k] # Take(m)
    BY <1>2, <1>4 DEF HeldAt
  <2>2. CASE j = n + 2
    BY <1>2, <2>1, <2>2, OpsOf
  <2>3. CASE j # n + 2
    <3>1. j - 1 \in (i - 1)..n /\ s[j - 1] = Give(m)
      BY <1>1, <1>2, <2>1, <2>3
    <3>2. \A k \in (i - 1)..(j - 1) : s[k] # Take(m)
      <4> TAKE k \in (i - 1)..(j - 1)
      <4>1. k + 1 \in i..j /\ k \in 1..n
        BY <1>1, <2>1, <2>3
      <4> QED BY <1>2, <2>1, <4>1
    <3> HIDE DEF n
    <3> QED BY <3>1, <3>2 DEF HeldAt, n
  <2> QED BY <2>2, <2>3
<1>5. ASSUME NEW i \in 1..(n + 1), NEW m \in Locks, HeldAt(s, i, m)
      PROVE  HeldAt(c, i + 1, m)
  <2>1. PICK j \in i..n : s[j] = Give(m) /\ \A k \in i..j : s[k] # Take(m)
    BY <1>5 DEF HeldAt
  <2>2. j + 1 \in (i + 1)..Len(c) /\ c[j + 1] = Give(m)
    BY <1>1, <1>2, <2>1
  <2>3. \A k \in (i + 1)..(j + 1) : c[k] # Take(m)
    <3> TAKE k \in (i + 1)..(j + 1)
    <3>1. k - 1 \in i..j /\ k \in 2..(n + 1)
      BY <1>1, <2>1
    <3> QED BY <1>2, <2>1, <3>1
  <2> QED BY <2>2, <2>3 DEF HeldAt
<1>6. ASSUME NEW m \in Locks, HeldAt(c, 1, m) PROVE FALSE
  <2>1. PICK j \in 1..(n + 2) : c[j] = Give(m) /\ \A k \in 1..j : c[k] # Take(m)
    BY <1>2, <1>6 DEF HeldAt
  <2>2. m # l
    BY <1>2, <2>1
  <2>3. j # 1 /\ j # n + 2
    BY <1>2, <2>1, <2>2, OpsOf
  <2>4. HeldAt(c, 2, m)
    BY <1>1, <1>2, <2>1, <2>3 DEF HeldAt
  <2> QED BY <1>1, <1>4, <2>2, <2>4 DEF Proper
<1>7. ASSUME NEW i \in 1..Len(c), NEW x \in Locks, c[i] = Take(x)
      PROVE  /\ \A m \in Locks : HeldAt(c, i, m) => Rank(m) < Rank(x) \/ <<m, x>> \in X
             /\ HeldAt(c, i + 1, x) \/ (<<x, x>> \in X /\ i < Len(c) /\ c[i + 1] = Take(x))
  <2>1. CASE i = 1
    <3>1. x = l
      BY <1>2, <1>7, <2>1, OpsOf
    <3>2. CASE l \in L
      BY <1>1, <1>2, <1>6, <2>1, <3>1, <3>2
    <3>3. CASE l \notin L
      <4>1. \A k \in 2..(n + 2) : c[k] # Take(l)
        <5> TAKE k \in 2..(n + 2)
        <5>1. CASE k = n + 2
          BY <1>2, <5>1, OpsOf
        <5>2. CASE k # n + 2
          <6>1. k - 1 \in 1..n /\ c[k] = s[k - 1]
            BY <1>1, <1>2, <5>2
          <6>2. s[k - 1].lock # l
            BY <3>3, <6>1 DEF Proper
          <6> QED BY <6>1, <6>2, OpsOf
        <5> QED BY <5>1, <5>2
      <4>2. HeldAt(c, 2, l)
        BY <1>1, <1>2, <4>1 DEF HeldAt
      <4> QED BY <1>6, <2>1, <3>1, <4>2
    <3> QED BY <3>2, <3>3
  <2>2. CASE i \in 2..(n + 1)
    <3> DEFINE h == i - 1
    <3>1. h \in 1..n /\ i = h + 1 /\ s[h] = Take(x)
      BY <1>1, <1>2, <1>7, <2>2
    <3>2. x \in L
      BY <3>1, OpsOf DEF Proper
    <3>3. \A m \in Locks : HeldAt(c, i, m) => HeldAt(s, h, m) \/ m = l
      BY <1>1, <1>4, <2>2
    <3>4. HeldAt(s, h + 1, x) => HeldAt(c, i + 1, x)
      BY <1>1, <1>5, <3>1
    <3>5. h < Len(s) => i < Len(c) /\ c[i + 1] = s[h + 1]
      BY <1>1, <1>2, <3>1
    <3> HIDE DEF h, n
    <3>6. h \in 1..Len(s)
      BY <3>1 DEF n
    <3> QED BY <3>1, <3>2, <3>3, <3>4, <3>5, <3>6 DEF Proper, Ordered
  <2>3. CASE i = n + 2
    BY <1>2, <1>7, <2>3, OpsOf
  <2> QED BY <1>1, <1>2, <2>1, <2>2, <2>3
<1>8. Ordered(c, X)
  BY <1>7 DEF Ordered
<1> QED BY <1>2, <1>3, <1>6, <1>8 DEF Proper, c

(* What is left after a step. *)
LEMMA TailOrdered ==
  ASSUME NEW s \in Seq(Ops), s # <<>>, NEW X, Ordered(s, X)
  PROVE  /\ Tail(s) \in Seq(Ops)
         /\ Ordered(Tail(s), X)
         /\ \A i \in 1..Len(s), m \in Locks : HeldAt(Tail(s), i, m) <=> HeldAt(s, i + 1, m)
<1> DEFINE t == Tail(s)
<1>1. /\ t \in Seq(Ops) /\ Len(t) = Len(s) - 1 /\ Len(t) \in Nat /\ Len(s) \in Nat
      /\ \A i \in 1..Len(t) : t[i] = s[i + 1]
      /\ \A i \in 2..Len(s) : s[i] = t[i - 1]
  OBVIOUS
<1> HIDE DEF t
<1>2. ASSUME NEW i \in 1..Len(s), NEW m \in Locks
      PROVE  HeldAt(t, i, m) <=> HeldAt(s, i + 1, m)
  <2>1. ASSUME HeldAt(t, i, m) PROVE HeldAt(s, i + 1, m)
    <3>1. PICK j \in i..Len(t) : t[j] = Give(m) /\ \A k \in i..j : t[k] # Take(m)
      BY <2>1 DEF HeldAt
    <3>2. j + 1 \in (i + 1)..Len(s) /\ s[j + 1] = Give(m)
      BY <1>1, <3>1
    <3>3. \A k \in (i + 1)..(j + 1) : s[k] # Take(m)
      <4> TAKE k \in (i + 1)..(j + 1)
      <4>1. k - 1 \in i..j /\ k \in 2..Len(s)
        BY <1>1, <3>1
      <4> QED BY <1>1, <3>1, <4>1
    <3> QED BY <3>2, <3>3 DEF HeldAt
  <2>2. ASSUME HeldAt(s, i + 1, m) PROVE HeldAt(t, i, m)
    <3>1. PICK j \in (i + 1)..Len(s) : s[j] = Give(m) /\ \A k \in (i + 1)..j : s[k] # Take(m)
      BY <2>2 DEF HeldAt
    <3>2. j - 1 \in i..Len(t) /\ t[j - 1] = Give(m)
      BY <1>1, <3>1
    <3>3. \A k \in i..(j - 1) : t[k] # Take(m)
      <4> TAKE k \in i..(j - 1)
      <4>1. k + 1 \in (i + 1)..j /\ k \in 1..Len(t)
        BY <1>1, <3>1
      <4> QED BY <1>1, <3>1, <4>1
    <3> QED BY <3>2, <3>3 DEF HeldAt
  <2> QED BY <2>1, <2>2
<1>3. ASSUME NEW i \in 1..Len(t), NEW l \in Locks, t[i] = Take(l)
      PROVE  /\ \A m \in Locks : HeldAt(t, i, m) => Rank(m) < Rank(l) \/ <<m, l>> \in X
             /\ HeldAt(t, i + 1, l) \/ (<<l, l>> \in X /\ i < Len(t) /\ t[i + 1] = Take(l))
  <2> DEFINE h == i + 1
  <2>1. h \in 1..Len(s) /\ s[h] = Take(l)
    BY <1>1, <1>3
  <2>2. \A m \in Locks : HeldAt(t, i, m) <=> HeldAt(s, h, m)
    BY <1>1, <1>2
  <2>3. HeldAt(t, i + 1, l) <=> HeldAt(s, h + 1, l)
    BY <1>1, <1>2
  <2>4. h < Len(s) => i < Len(t) /\ t[i + 1] = s[h + 1]
    BY <1>1
  <2> HIDE DEF h
  <2> QED BY <2>1, <2>2, <2>3, <2>4 DEF Ordered
<1>4. Ordered(t, X)
  BY <1>3 DEF Ordered
<1> QED BY <1>1, <1>2, <1>4 DEF t

------------------------------------------------------------------------------
(* Every handler of every kind is in order, but for the pairs of Exempt. *)

LEMMA LocksOf ==
  /\ Names \subseteq Locks /\ Global \subseteq Locks
  /\ "fsid" \in Locks /\ "lf" \in Locks /\ "gc" \in Locks /\ "idx" \in Locks
  /\ \A n \in Names : Rank(n) = 2 /\ n \notin Global
  /\ Rank("fsid") = 1 /\ Rank("lf") = 3 /\ Rank("gc") = 4 /\ Rank("idx") = 5
  /\ \A l \in Locks : Rank(l) \in 1..5
BY NamesAssumption DEF Locks, Global, Rank

LEMMA IndexProper ==
  ASSUME NEW X
  PROVE  Proper(Index, {"idx"}, X)
<1>1. Proper(<<>>, {}, X)
  BY EmptyProper
<1>2. Proper(Section("idx", <<>>), {} \cup {"idx"}, X)
  BY <1>1, LocksOf, SectionProper
<1> QED BY <1>2 DEF Index

LEMMA TableProper ==
  ASSUME NEW X
  PROVE  Proper(Section("lf", <<>>), {"lf", "gc", "idx"}, X)
<1>1. Proper(<<>>, {}, X)
  BY EmptyProper
<1>2. Proper(Section("lf", <<>>), {} \cup {"lf"}, X)
  BY <1>1, LocksOf, SectionProper
<1> QED BY <1>2, WeakenProper

LEMMA AccessedProper ==
  ASSUME NEW X, NEW s \in {<<>>} \cup Accessed
  PROVE  Proper(s, {"lf", "gc", "idx"}, X)
<1>1. Proper(<<>>, {"lf", "gc", "idx"}, X)
  BY EmptyProper
<1>2. Proper(Index \o Index, {"idx"}, X)
  BY IndexProper, ConcatProper
<1> DEFINE c == Index \o Index
           g == Section("gc", c)
<1>3. Proper(g, {"idx"} \cup {"gc"}, X)
  <2> HIDE DEF c
  <2>1. /\ {"idx"} \in SUBSET Locks /\ "gc" \in Locks /\ "gc" \notin {"idx"}
        /\ \A m \in {"idx"} : Rank("gc") < Rank(m)
    BY LocksOf
  <2> QED BY <1>2, <2>1, SectionProper DEF c
<1>4. Proper(Section("lf", g), ({"idx"} \cup {"gc"}) \cup {"lf"}, X)
  <2> DEFINE L == {"idx"} \cup {"gc"}
  <2>1. /\ L \in SUBSET Locks /\ "lf" \in Locks /\ "lf" \notin L
        /\ \A m \in L : Rank("lf") < Rank(m)
    BY LocksOf
  <2> HIDE DEF g, L
  <2>2. Proper(g, L, X)
    BY <1>3 DEF L
  <2>3. Proper(Section("lf", g), L \cup {"lf"}, X)
    BY <2>1, <2>2, SectionProper
  <2> QED BY <2>3 DEF L
<1>5. Proper(Section("lf", Section("gc", Index \o Index)), {"lf", "gc", "idx"}, X)
  BY <1>4, WeakenProper
<1> QED BY <1>1, <1>5, TableProper DEF Accessed

(* A scope of a copy, around what takes neither a copy nor the identity. *)
LEMMA CopyProper ==
  ASSUME NEW X, NEW n \in Names, NEW s, Proper(s, {"lf", "gc", "idx"}, X)
  PROVE  Proper(Section(n, s), Locks \ {"fsid"}, X)
<1> DEFINE L == {"lf", "gc", "idx"}
<1>1. /\ L \in SUBSET Locks /\ n \in Locks /\ n \notin L
      /\ \A m \in L : Rank(n) < Rank(m)
  BY LocksOf DEF Global
<1>2. L \cup {n} \subseteq Locks \ {"fsid"}
  BY LocksOf DEF Global
<1> HIDE DEF L
<1>3. Proper(s, L, X)
  BY DEF L
<1>4. Proper(Section(n, s), L \cup {n}, X)
  BY <1>1, <1>3, SectionProper
<1> QED BY <1>2, <1>4, WeakenProper

(* The identity, around what does not set it. *)
LEMMA FsidProper ==
  ASSUME NEW X, NEW s, Proper(s, Locks \ {"fsid"}, X)
  PROVE  Proper(Fsid(s), Locks, X)
<1>1. \A m \in Locks \ {"fsid"} : Rank("fsid") < Rank(m)
  BY LocksOf DEF Rank
<1>2. Proper(Section("fsid", s), (Locks \ {"fsid"}) \cup {"fsid"}, X)
  BY <1>1, LocksOf, SectionProper
<1>3. Proper(Section("fsid", s), Locks, X)
  BY <1>2, LocksOf, WeakenProper
<1>4. Proper(s, Locks, X)
  BY WeakenProper
<1> QED BY <1>3, <1>4 DEF Fsid

(* What the handlers share. *)
LEMMA PartsProper ==
  ASSUME NEW X
  PROVE  /\ Proper(<<>>, Locks, X) /\ Proper(<<>>, Locks \ {"fsid"}, X)
         /\ Proper(Index, Locks, X) /\ Proper(Index, Locks \ {"fsid"}, X)
         /\ Proper(Section("lf", <<>>), Locks, X)
         /\ Proper(Section("lf", <<>>), Locks \ {"fsid"}, X)
         /\ \A n \in Names : Proper(Section(n, <<>>), Locks \ {"fsid"}, X)
         /\ \A n \in Names : Proper(Section(n, <<>>), Locks, X)
<1>1. {"idx"} \subseteq Locks \ {"fsid"} /\ {"lf", "gc", "idx"} \subseteq Locks \ {"fsid"}
  BY LocksOf
<1>2. \A n \in Names : Proper(Section(n, <<>>), Locks \ {"fsid"}, X)
  BY EmptyProper, CopyProper
<1>3. \A s : Proper(s, Locks \ {"fsid"}, X) => Proper(s, Locks, X)
  BY WeakenProper
<1>4. Proper(Index, Locks \ {"fsid"}, X)
  BY <1>1, IndexProper, WeakenProper
<1>5. Proper(Section("lf", <<>>), Locks \ {"fsid"}, X)
  BY <1>1, TableProper, WeakenProper
<1>6. Proper(<<>>, Locks \ {"fsid"}, X)
  BY EmptyProper
<1> QED BY <1>2, <1>3, <1>4, <1>5, <1>6

LEMMA OneProper ==
  ASSUME NEW X, NEW n \in Names, NEW s \in OnePath(n)
  PROVE  Proper(s, Locks, X)
<1> DEFINE c == Section(n, <<>>)
<1>1. Proper(Index \o c, Locks \ {"fsid"}, X)
  BY PartsProper, ConcatProper
<1> HIDE DEF c
<1>2. Proper(Fsid(Index \o c), Locks, X) /\ Proper(Fsid(<<>>), Locks, X) /\ Proper(Fsid(Index), Locks, X)
  BY <1>1, PartsProper, FsidProper
<1>3. Proper(Fsid(Index \o c) \o Fsid(<<>>), Locks, X)
  BY <1>2, ConcatProper
<1>4. Proper(Fsid(c), Locks, X)
  BY PartsProper, FsidProper DEF c
<1>5. Proper(Index \o Fsid(c), Locks, X)
  BY <1>4, PartsProper, ConcatProper
<1> QED BY <1>2, <1>3, <1>5 DEF OnePath, c

(* Two copies, of which the second may be the first. *)
LEMMA TwoProper ==
  ASSUME NEW X, NEW m \in Names, NEW n \in Names, <<m, n>> \in X, NEW s \in TwoPaths(m, n)
  PROVE  Proper(s, Locks, X)
<1> DEFINE c == Section(n, <<>>)
           d == Section(m, c)
<1>1. Proper(c, {} \cup {n}, X)
  BY EmptyProper, LocksOf, SectionProper
<1>2. Len(c) > 0 /\ c[1] = Take(n)
  BY DEF Section
<1>3. m \in {n} => m = n /\ <<m, m>> \in X
  OBVIOUS
<1>4. Proper(c, {n}, X)
  BY <1>1
<1>5. {n} \in SUBSET Locks /\ m \in Locks
  BY LocksOf
<1> HIDE DEF c
<1>6. Proper(d, {n} \cup {m}, X)
  BY <1>2, <1>3, <1>4, <1>5, SectionProper
<1> HIDE DEF d
<1>7. {n} \cup {m} \subseteq Locks \ {"fsid"}
  BY LocksOf DEF Global
<1>8. Proper(d, Locks \ {"fsid"}, X)
  BY <1>6, <1>7, WeakenProper
<1>9. Proper(Index \o Index \o d, Locks \ {"fsid"}, X)
  BY <1>8, PartsProper, ConcatProper
<1>10. Proper(Fsid(Index \o Index \o d), Locks, X)
  BY <1>9, FsidProper
<1> QED BY <1>10 DEF TwoPaths, c, d

LEMMA OpenCheckProper ==
  ASSUME NEW X, NEW n \in Names
  PROVE  Proper(OpenCheck(n), Locks, X)
<1> DEFINE c == Section(n, <<>>)
<1>1. Proper(Index \o c, Locks \ {"fsid"}, X)
  BY PartsProper, ConcatProper
<1> HIDE DEF c
<1>2. Proper(Index \o Fsid(Index \o c), Locks, X)
  BY <1>1, PartsProper, FsidProper, ConcatProper
<1> QED BY <1>2 DEF OpenCheck, c

LEMMA OpenCachedProper ==
  ASSUME NEW X, NEW n \in Names, NEW s \in OpenCached(n)
  PROVE  Proper(s, Locks, X)
<1> DEFINE S == {"lf", "gc", "idx"}
<1>1. PICK acc \in {<<>>} \cup Accessed :
        s = OpenCheck(n) \o Section(n, acc \o Section("lf", <<>>) \o Index)
  BY DEF OpenCached
<1>2. Proper(Index, S, X)
  BY IndexProper, WeakenProper
<1>3. Proper(acc \o Section("lf", <<>>) \o Index, S, X)
  BY <1>2, AccessedProper, TableProper, ConcatProper
<1>4. Proper(Section(n, acc \o Section("lf", <<>>) \o Index), Locks, X)
  BY <1>3, CopyProper, WeakenProper
<1> QED BY <1>1, <1>4, OpenCheckProper, ConcatProper

LEMMA OpenFallbackProper ==
  ASSUME NEW X, NEW n \in Names, setting.root => <<n, "fsid">> \in X, NEW s \in OpenFallback(n)
  PROVE  Proper(s, Locks, X)
<1> DEFINE t == Section("lf", <<>>)
<1>1. Proper(t, {"lf"}, X)
  <2>1. Proper(<<>>, {}, X)
    BY EmptyProper
  <2>2. Proper(t, {} \cup {"lf"}, X)
    BY <2>1, LocksOf, SectionProper
  <2> QED BY <2>2
<1> HIDE DEF t
<1>2. Proper(Section(n, Fsid(t)), Locks, X)
  <2>1. CASE setting.root
    <3> DEFINE f == Section("fsid", t)
               L == {"lf"} \cup {"fsid"}
    <3>1. /\ {"lf"} \in SUBSET Locks /\ "fsid" \in Locks /\ "fsid" \notin {"lf"}
          /\ \A m \in {"lf"} : Rank("fsid") < Rank(m)
      BY LocksOf
    <3>2. /\ L \in SUBSET Locks /\ n \in Locks /\ n \notin L
          /\ \A m \in L : Rank(n) < Rank(m) \/ <<n, m>> \in X
      BY <2>1, LocksOf DEF Global
    <3>3. L \cup {n} \subseteq Locks
      BY LocksOf
    <3>4. Proper(f, L, X)
      BY <1>1, <3>1, SectionProper
    <3> HIDE DEF f, L
    <3>5. Proper(Section(n, f), L \cup {n}, X)
      BY <3>2, <3>4, SectionProper
    <3> QED BY <2>1, <3>3, <3>5, WeakenProper DEF Fsid, f
  <2>2. CASE ~setting.root
    <3>1. Proper(t, {"lf", "gc", "idx"}, X)
      BY TableProper DEF t
    <3> QED BY <2>2, <3>1, CopyProper, WeakenProper DEF Fsid
  <2> QED BY <2>1, <2>2
<1>3. Proper(OpenCheck(n) \o Section(n, Fsid(t)), Locks, X)
  BY <1>2, OpenCheckProper, ConcatProper
<1> QED BY <1>3 DEF OpenFallback, t

LEMMA OpenCollisionProper ==
  ASSUME NEW X, NEW s \in OpenCollision
  PROVE  Proper(s, Locks, X)
<1>1. Proper(Fsid(Index), Locks, X) /\ Proper(Fsid(Section("lf", <<>>)), Locks, X)
  BY PartsProper, FsidProper
<1>2. Proper(Index \o Fsid(Index) \o Fsid(Section("lf", <<>>)), Locks, X)
  BY <1>1, PartsProper, ConcatProper
<1> QED BY <1>2 DEF OpenCollision

LEMMA ReleaseProper ==
  ASSUME NEW X, NEW n \in Names, NEW s \in Release(n)
  PROVE  Proper(s, Locks, X)
<1> DEFINE t == Section("lf", <<>>)
<1>1. Proper(t \o t, Locks, X)
  BY PartsProper, ConcatProper
<1>2. ASSUME NEW acc \in {<<>>} \cup Accessed PROVE Proper(t \o Section(n, acc) \o t, Locks, X)
  <2>1. Proper(Section(n, acc), Locks, X)
    BY AccessedProper, CopyProper, WeakenProper
  <2> QED BY <2>1, PartsProper, ConcatProper
<1> HIDE DEF t
<1> QED BY <1>1, <1>2 DEF Release, t

LEMMA ScriptsProper ==
  ASSUME NEW k \in Kind, NEW s \in Scripts(k), k = "two" => ~setting.oneTwoPathCall
  PROVE  Proper(s, Locks, Exempt(k))
<1>1. CASE k = "one"
  <2>1. PICK n \in Names : s \in OnePath(n)
    BY <1>1 DEF Scripts
  <2> QED BY <2>1, OneProper
<1>2. CASE k = "two"
  <2>1. PICK m \in Names, n \in Names : s \in TwoPaths(m, n)
    BY <1>2 DEF Scripts
  <2>2. <<m, n>> \in Exempt(k)
    BY <1>2 DEF Exempt
  <2> QED BY <2>1, <2>2, TwoProper
<1>3. CASE k = "open"
  <2>1. PICK n \in Names : s \in OpenCached(n)
    BY <1>3 DEF Scripts
  <2> QED BY <2>1, OpenCachedProper
<1>4. CASE k = "fallback"
  <2>1. PICK n \in Names : s \in OpenFallback(n)
    BY <1>4 DEF Scripts
  <2>2. setting.root => <<n, "fsid">> \in Exempt(k)
    BY <1>4 DEF Exempt
  <2> QED BY <2>1, <2>2, OpenFallbackProper
<1>5. CASE k = "collision"
  BY <1>5, OpenCollisionProper DEF Scripts
<1>6. CASE k = "write"
  BY <1>6, PartsProper DEF Scripts, Write
<1>7. CASE k = "release"
  <2>1. PICK n \in Names : s \in Release(n)
    BY <1>7 DEF Scripts
  <2> QED BY <2>1, ReleaseProper
<1> QED BY <1>1, <1>2, <1>3, <1>4, <1>5, <1>6, <1>7 DEF Kind

------------------------------------------------------------------------------
(* The invariant. *)

LEMMA InitIInv == Init => IInv
<1> SUFFICES ASSUME Init PROVE IInv
  OBVIOUS
<1>1. Typing
  BY DEF Init, Typing
<1>2. InOrder
  BY DEF Init, InOrder, Ordered
<1>3. GivesBack
  BY NamesAssumption DEF Init, GivesBack
<1>4. AsSet
  BY DEF Init, AsSet, Runs
<1> QED BY <1>1, <1>2, <1>3, <1>4 DEF IInv

(* A call starts with a whole handler of its kind. *)
LEMMA BeginProper ==
  ASSUME IInv, NEW w \in Workers, Begin(w)
  PROVE  /\ kind'[w] \in Kind /\ kind'[w] \in setting.kinds
         /\ Proper(todo'[w], Locks, Exempt(kind'[w]))
         /\ kind'[w] = "two" /\ setting.oneTwoPathCall =>
              \A v \in Workers : Runs(v) => kind[v] # "two"
<1>1. PICK k \in setting.kinds :
        /\ kind' = [kind EXCEPT ![w] = k]
        /\ \E s \in IF k = "two" /\ setting.oneTwoPathCall
                    THEN UNION {TwoPaths(p[1], p[2]) : p \in {q \in Names \X Names : q[1] # q[2]}}
                    ELSE Scripts(k) :
              todo' = [todo EXCEPT ![w] = s]
        /\ k = "two" /\ setting.oneTwoPathCall => \A v \in Workers : Runs(v) => kind[v] # "two"
  BY DEF Begin
<1>2. k \in Kind /\ kind'[w] = k
  BY <1>1, SettingsAssumption DEF IInv, Typing, Setting
<1>3. Proper(todo'[w], Locks, Exempt(k))
  <2>1. CASE k = "two" /\ setting.oneTwoPathCall
    <3>1. PICK s \in UNION {TwoPaths(p[1], p[2]) : p \in {q \in Names \X Names : q[1] # q[2]}} :
            todo' = [todo EXCEPT ![w] = s]
      BY <1>1, <2>1
    <3>2. PICK m \in Names, n \in Names : m # n /\ s \in TwoPaths(m, n)
      BY <3>1
    <3>3. <<m, n>> \in Exempt(k)
      BY <2>1, <3>2 DEF Exempt
    <3>4. todo'[w] = s
      BY <3>1 DEF IInv, Typing
    <3> QED BY <3>2, <3>3, <3>4, TwoProper
  <2>2. CASE ~(k = "two" /\ setting.oneTwoPathCall)
    <3>1. PICK s \in Scripts(k) : todo' = [todo EXCEPT ![w] = s]
      BY <1>1, <2>2
    <3>2. todo'[w] = s
      BY <3>1 DEF IInv, Typing
    <3> QED BY <1>2, <2>2, <3>1, <3>2, ScriptsProper
  <2> QED BY <2>1, <2>2
<1> QED BY <1>1, <1>2, <1>3

LEMMA BeginIInv == ASSUME IInv, NEW w \in Workers, Begin(w) PROVE IInv'
<1>1. /\ setting' = setting /\ owner' = owner /\ todo[w] = <<>>
      /\ todo'[w] \in Seq(Ops) /\ Ordered(todo'[w], Exempt(kind'[w]))
      /\ kind'[w] \in Kind /\ kind'[w] \in setting.kinds
      /\ \E x : todo' = [todo EXCEPT ![w] = x]
      /\ \E x : kind' = [kind EXCEPT ![w] = x]
  BY BeginProper DEF Begin, Runs, Proper
<1>2. /\ todo' = [todo EXCEPT ![w] = todo'[w]]
      /\ kind' = [kind EXCEPT ![w] = kind'[w]]
      /\ \A v \in Workers \ {w} : todo'[v] = todo[v] /\ kind'[v] = kind[v]
  BY <1>1 DEF IInv, Typing
<1>3. \A k : Exempt(k)' = Exempt(k)
  BY <1>1 DEF Exempt
<1>4. Typing'
  BY <1>1, <1>2 DEF IInv, Typing
<1>5. InOrder'
  <2> SUFFICES ASSUME NEW v \in Workers PROVE Ordered(todo'[v], Exempt(kind'[v]))
    BY <1>3 DEF InOrder
  <2> QED BY <1>1, <1>2 DEF IInv, InOrder
<1>6. GivesBack'
  <2> SUFFICES ASSUME NEW v \in Workers, NEW m \in Locks, owner[m] = v
               PROVE  /\ v # w
                      /\ HeldAt(todo[v], 1, m) \/ (<<m, m>> \in Exempt(kind[v]) /\ Wants(v, m))
    BY <1>1, <1>2, <1>3 DEF GivesBack, Wants, Runs
  <2>1. ~HeldAt(<<>>, 1, m)
    BY DEF HeldAt
  <2> QED BY <1>1, <2>1 DEF IInv, GivesBack, Wants, Runs
<1>7. AsSet'
  BY <1>1, <1>2, BeginProper DEF IInv, AsSet, Runs
<1> QED BY <1>4, <1>5, <1>6, <1>7 DEF IInv

(* A step on a lock: what the worker holds besides is as before. *)
LEMMA StepIInv ==
  ASSUME IInv, NEW w \in Workers, NEW l \in Locks, todo[w] # <<>>,
         NEW o \in Workers \cup {None},
         \/ Head(todo[w]) = Take(l) /\ owner[l] = None /\ o = w
         \/ Head(todo[w]) = Give(l) /\ o = None,
         owner' = [owner EXCEPT ![l] = o],
         todo' = [todo EXCEPT ![w] = Tail(@)],
         UNCHANGED <<setting, kind>>
  PROVE  IInv'
<1> DEFINE s == todo[w]
           t == Tail(todo[w])
           X == Exempt(kind[w])
<1>1. /\ s \in Seq(Ops) /\ s # <<>> /\ Ordered(s, X) /\ s[1] = Head(s)
      /\ todo'[w] = t /\ \A v \in Workers \ {w} : todo'[v] = todo[v]
      /\ Len(s) \in Nat /\ 1 \in 1..Len(s)
  BY DEF IInv, Typing, InOrder
<1>2. /\ t \in Seq(Ops) /\ Ordered(t, X)
      /\ \A m \in Locks : HeldAt(t, 1, m) <=> HeldAt(s, 2, m)
  <2> HIDE DEF s, X
  <2>1. t = Tail(s)
    BY DEF s
  <2>2. \A m \in Locks : HeldAt(t, 1, m) <=> HeldAt(s, 1 + 1, m)
    BY <1>1, <2>1, TailOrdered
  <2>3. t \in Seq(Ops) /\ Ordered(t, X)
    BY <1>1, <2>1, TailOrdered
  <2> QED BY <2>2, <2>3
<1>3. \A k : Exempt(k)' = Exempt(k)
  BY DEF Exempt
<1>4. Typing'
  BY <1>2 DEF IInv, Typing
<1>5. InOrder'
  <2> SUFFICES ASSUME NEW v \in Workers PROVE Ordered(todo'[v], Exempt(kind[v]))
    BY <1>3 DEF InOrder
  <2> QED BY <1>1, <1>2 DEF IInv, InOrder
<1>6. GivesBack'
  <2> SUFFICES ASSUME NEW v \in Workers, NEW m \in Locks, owner'[m] = v
               PROVE  HeldAt(todo'[v], 1, m) \/ (<<m, m>> \in Exempt(kind[v]) /\ Wants(v, m)')
    BY <1>3 DEF GivesBack
  <2>1. CASE v # w
    <3>1. owner[m] = v
      BY <2>1, NamesAssumption DEF IInv, Typing
    <3> QED BY <1>1, <2>1, <3>1 DEF IInv, GivesBack, Wants, Runs
  <2>2. CASE v = w /\ m = l
    <3>1. s[1] = Take(l)
      BY <1>1, <2>2, NamesAssumption DEF IInv, Typing
    <3>2. HeldAt(s, 2, l) \/ (<<l, l>> \in X /\ 1 < Len(s) /\ s[2] = Take(l))
      <4> HIDE DEF s, X
      <4>1. HeldAt(s, 1 + 1, l) \/ (<<l, l>> \in X /\ 1 < Len(s) /\ s[1 + 1] = Take(l))
        BY <1>1, <3>1 DEF Ordered
      <4> QED BY <4>1
    <3>3. 1 < Len(s) => t # <<>> /\ Head(t) = s[2]
      <4> SUFFICES \A x \in Seq(Ops) : 1 < Len(x) => Tail(x) # <<>> /\ Head(Tail(x)) = x[2]
        BY <1>1
      <4> TAKE x \in Seq(Ops)
      <4> HAVE 1 < Len(x)
      <4> DEFINE y == Tail(x)
      <4>1. y \in Seq(Ops) /\ Len(y) = Len(x) - 1 /\ y[1] = x[2]
        OBVIOUS
      <4> HIDE DEF y
      <4>2. y # <<>> /\ Head(y) = y[1]
        BY <4>1
      <4> QED BY <4>1, <4>2 DEF y
    <3> QED BY <1>1, <1>2, <2>2, <3>2, <3>3 DEF Wants, Runs
  <2>3. CASE v = w /\ m # l
    <3>1. owner[m] = w
      BY <2>3 DEF IInv, Typing
    <3>2. s[1] # Give(m) /\ s[1] # Take(m)
      BY <1>1, <2>3, OpsOf
    <3>3. HeldAt(s, 1, m)
      BY <1>1, <3>1, <3>2 DEF IInv, GivesBack, Wants
    <3>4. HeldAt(s, 2, m)
      <4> HIDE DEF s
      <4>1. PICK j \in 1..Len(s) : s[j] = Give(m) /\ \A k \in 1..j : s[k] # Take(m)
        BY <3>3 DEF HeldAt
      <4>2. j \in 2..Len(s)
        BY <1>1, <3>2, <4>1
      <4> QED BY <4>1, <4>2 DEF HeldAt
    <3> QED BY <1>1, <1>2, <2>3, <3>4
  <2> QED BY <2>1, <2>2, <2>3
<1>7. AsSet'
  BY <1>1 DEF IInv, AsSet, Runs
<1> QED BY <1>4, <1>5, <1>6, <1>7 DEF IInv

LEMMA NextIInv == IInv /\ [Next]_vars => IInv'
<1> SUFFICES ASSUME IInv, [Next]_vars PROVE IInv'
  OBVIOUS
<1>1. CASE UNCHANGED vars
  <2>1. \A k : Exempt(k)' = Exempt(k)
    BY <1>1 DEF vars, Exempt
  <2> QED BY <1>1, <2>1 DEF vars, IInv, Typing, InOrder, GivesBack, AsSet, Wants, Runs
<1>2. ASSUME NEW w \in Workers, Begin(w) PROVE IInv'
  BY <1>2, BeginIInv
<1>3. ASSUME NEW w \in Workers, Lock(w) PROVE IInv'
  BY <1>3, StepIInv DEF Lock, Wants, Runs
<1>4. ASSUME NEW w \in Workers, Unlock(w) PROVE IInv'
  BY <1>4, StepIInv DEF Unlock, Runs
<1> QED BY <1>1, <1>2, <1>3, <1>4 DEF Next

(* However the daemon is run and whatever its users call, its handlers take the locks in
   the order of Rank, but for the pairs of Exempt, and give back what they take. *)
THEOREM LocksInOrder == Spec => []IInv
BY InitIInv, NextIInv, PTL DEF Spec

------------------------------------------------------------------------------
(* Waiting in order makes no cycle. *)

(* Who has a lock and waits for another waits for one after it in the order, or for one
   that calls of its kind take against the order. *)
LEMMA WaitsInOrder ==
  ASSUME IInv, NEW w \in Workers, NEW m \in Locks, NEW l \in Locks, owner[m] = w, Wants(w, l)
  PROVE  \/ Rank(m) < Rank(l)
         \/ <<m, l>> \in Exempt(kind[w])
<1>1. todo[w] \in Seq(Ops) /\ todo[w] # <<>> /\ todo[w][1] = Take(l) /\ 1 \in 1..Len(todo[w])
  BY DEF IInv, Typing, Wants, Runs
<1>2. CASE HeldAt(todo[w], 1, m)
  BY <1>1, <1>2 DEF IInv, InOrder, Ordered
<1>3. CASE <<m, m>> \in Exempt(kind[w]) /\ Wants(w, m)
  <2>1. m = l
    BY <1>3, OpsOf DEF Wants
  <2> QED BY <1>3, <2>1
<1> QED BY <1>2, <1>3 DEF IInv, GivesBack

(* What w waits for comes after what it has, unless w is t and waits for a second copy. *)
Climbs(w, t) == \A m, l \in Locks : owner[m] = w /\ Wants(w, l) =>
  \/ Rank(m) < Rank(l)
  \/ w = t /\ m \in Names /\ l \in Names /\ m # l

(* If that is so of all but one worker, which may wait for a second copy, then no
   group of workers waits for itself: the highest lock waited for has no owner in it. *)
LEMMA NoGroupWaits ==
  ASSUME NEW D \in SUBSET Workers, NEW t,
         \A w \in D : Climbs(w, t)
  PROVE  ~Deadlocked(D)
<1> SUFFICES ASSUME Deadlocked(D) PROVE FALSE
  OBVIOUS
<1>1. \A w \in D : \E l \in Locks : Wants(w, l) /\ owner[l] \in D
  BY DEF Deadlocked
<1>2. ASSUME NEW r \in 1..5, r # 2,
             \A w \in D, l \in Locks : Wants(w, l) => Rank(l) <= r
      PROVE  \A w \in D, l \in Locks : Wants(w, l) => Rank(l) < r
  <2> SUFFICES ASSUME NEW w \in D, NEW l \in Locks, Wants(w, l), Rank(l) >= r PROVE FALSE
    BY LocksOf
  <2>1. Rank(l) = r /\ l \notin Names
    BY <1>2, LocksOf
  <2>2. owner[l] \in D
    BY <1>1, OpsOf DEF Wants
  <2>3. PICK k \in Locks : Wants(owner[l], k)
    BY <1>1, <2>2
  <2>4. Rank(l) < Rank(k)
    BY <2>1, <2>2, <2>3 DEF Climbs
  <2> QED BY <1>2, <2>1, <2>2, <2>3, <2>4, LocksOf
<1>3. ASSUME \A w \in D, l \in Locks : Wants(w, l) => Rank(l) <= 2
      PROVE  \A w \in D, l \in Locks : Wants(w, l) => Rank(l) < 2
  <2> SUFFICES ASSUME NEW w \in D, NEW l \in Locks, Wants(w, l), Rank(l) >= 2 PROVE FALSE
    BY LocksOf
  <2>1. Rank(l) = 2
    BY <1>3, LocksOf
  <2>2. owner[l] \in D
    BY <1>1, OpsOf DEF Wants
  <2>3. PICK k \in Locks : Wants(owner[l], k) /\ owner[k] \in D
    BY <1>1, <2>2
  <2>4. owner[l] = t /\ k \in Names
    BY <1>3, <2>1, <2>2, <2>3, LocksOf DEF Climbs
  <2>5. PICK j \in Locks : Wants(owner[k], j)
    BY <1>1, <2>3
  <2>6. owner[k] = t /\ j # k
    BY <1>3, <2>3, <2>4, <2>5, LocksOf DEF Climbs
  <2>7. j = k
    BY <2>3, <2>4, <2>5, <2>6, OpsOf DEF Wants
  <2> QED BY <2>6, <2>7
<1>4. \A w \in D, l \in Locks : Wants(w, l) => Rank(l) <= 5
  BY LocksOf
<1>5. \A w \in D, l \in Locks : Wants(w, l) => Rank(l) <= 4
  BY <1>2, <1>4, LocksOf
<1>6. \A w \in D, l \in Locks : Wants(w, l) => Rank(l) <= 3
  BY <1>2, <1>5, LocksOf
<1>7. \A w \in D, l \in Locks : Wants(w, l) => Rank(l) <= 2
  BY <1>2, <1>6, LocksOf
<1>8. \A w \in D, l \in Locks : Wants(w, l) => Rank(l) <= 1
  BY <1>3, <1>7, LocksOf
<1>9. \A w \in D, l \in Locks : Wants(w, l) => Rank(l) < 1
  BY <1>2, <1>8
<1> QED BY <1>1, <1>9, LocksOf DEF Deadlocked

LEMMA OrderlyNoCycle == IInv => NoDeadlock
<1> SUFFICES ASSUME IInv, Orderly, NEW D \in SUBSET Workers PROVE ~Deadlocked(D)
  BY DEF NoDeadlock, NoCycle
<1> DEFINE t == CHOOSE w \in Workers : Runs(w) /\ kind[w] = "two"
<1>1. ASSUME NEW w \in D, NEW m \in Locks, NEW l \in Locks, owner[m] = w, Wants(w, l)
      PROVE  \/ Rank(m) < Rank(l)
             \/ w = t /\ m \in Names /\ l \in Names /\ m # l
  <2>1. CASE Rank(m) < Rank(l)
    BY <2>1
  <2>2. CASE <<m, l>> \in Exempt(kind[w])
    <3>1. Runs(w) /\ kind[w] \in setting.kinds
      BY <1>1 DEF IInv, AsSet, Wants
    <3>2. kind[w] = "two" /\ m \in Names /\ l \in Names /\ m # l
      BY <2>2, <3>1 DEF Exempt, Orderly
    <3>3. t \in Workers /\ Runs(t) /\ kind[t] = "two"
      BY <3>1, <3>2
    <3> HIDE DEF t
    <3>4. w = t
      BY <3>1, <3>2, <3>3 DEF IInv, AsSet, Orderly
    <3> QED BY <3>2, <3>4
  <2> QED BY <1>1, <2>1, <2>2, WaitsInOrder
<1> HIDE DEF t
<1>2. \A w \in D : Climbs(w, t)
  BY <1>1 DEF Climbs
<1> QED BY <1>2, NoGroupWaits

LEMMA CyclesFromExempt == IInv => CyclesKnown
<1> SUFFICES ASSUME IInv, NEW D \in SUBSET Workers,
                    \A w \in D : ~FallbackWaits(w) /\ ~SecondCopyWaits(w)
             PROVE  ~Deadlocked(D)
  BY DEF CyclesKnown
<1>1. ASSUME NEW w \in D, NEW m \in Locks, NEW l \in Locks, owner[m] = w, Wants(w, l)
      PROVE  Rank(m) < Rank(l)
  <2>1. ASSUME <<m, l>> \in Exempt(kind[w]) PROVE FALSE
    <3>1. m \in Names /\ (l = "fsid" \/ l \in Names)
      BY <2>1 DEF Exempt
    <3> QED BY <1>1, <3>1 DEF FallbackWaits, SecondCopyWaits
  <2> QED BY <1>1, <2>1, WaitsInOrder
<1>2. \A w \in D : Climbs(w, None)
  BY <1>1 DEF Climbs
<1> QED BY <1>2, NoGroupWaits

(* Orderly calls never deadlock: neither all of the workers nor a few of them, for any
   number of workers and of copies. *)
THEOREM OrderlyCallsProceed == Spec => []NoDeadlock
BY LocksInOrder, OrderlyNoCycle, PTL

(* Where calls do deadlock, a call of two paths or, as root, the fall back of an open is
   part of it. *)
THEOREM OnlyKnownCycles == Spec => []CyclesKnown
BY LocksInOrder, CyclesFromExempt, PTL
==============================================================================
