--------------------------- MODULE FreeBlockProofs ---------------------------
(***************************************************************************)
(* Proofs about FreeBlockQueue, for every number of blocks: the links stay *)
(* a list of the free blocks, and the list implements the sequence that    *)
(* BlockOrder promises.  Where the code walks along the list, the proof    *)
(* takes the first place at which two walks would differ.                  *)
(***************************************************************************)
EXTENDS FreeBlockQueue, FiniteSetTheorems, SequenceTheorems, WellFoundedInduction, TLAPS

USE NumBlocksAssumption

LessThan == {p \in Nat \X Nat : p[1] < p[2]}

LEMMA Least ==
  ASSUME NEW S \in SUBSET Nat, S # {}
  PROVE  \E n \in S : \A m \in S : n <= m
<1>1. IsWellFoundedOn(LessThan, Nat)
  BY NatLessThanWellFounded DEF OpToRel, LessThan
<1>2. PICK n \in S : \A m \in S : <<m, n>> \notin LessThan
  BY <1>1, WFMin
<1>3. \A m \in S : ~(m < n)
  BY <1>2 DEF LessThan
<1> QED
  BY <1>3

-----------------------------------------------------------------------------
(* Lists of blocks, and chains of links *)

\* The links nx and pv make the list l.
Chain(nx, pv, l) ==
  \A i \in 0..Len(l) :
    /\ nx[At(l, i)] = At(l, i + 1)
    /\ pv[At(l, i + 1)] = At(l, i)

LinkMaps == [Nodes -> Nodes \cup {None}]

LEMMA ListFacts ==
  ASSUME NEW l \in FreeLists
  PROVE  /\ l \in Seq(Blocks) /\ DOMAIN l = 1..Len(l) /\ Len(l) \in 0..NumBlocks
         /\ IsInjective(l) /\ Range(l) = {l[i] : i \in 1..Len(l)}
<1>1. CASE l = << >>
  BY <1>1 DEF IsInjective, Range
<1>2. CASE l \in BlockLists
  <2>1. PICK k \in 1..NumBlocks : l \in [1..k -> Blocks] /\ IsInjective(l)
    BY <1>2 DEF BlockLists
  <2>2. k \in Nat /\ l \in Seq(Blocks)
    BY <2>1, SeqDef
  <2>3. Len(l) = k
    BY <2>1, <2>2
  <2> QED
    BY <2>1, <2>2, <2>3 DEF Range
<1> QED
  BY <1>1, <1>2 DEF FreeLists

LEMMA IsFreeList ==
  ASSUME NEW l \in Seq(Blocks), \A i, j \in 1..Len(l) : l[i] = l[j] => i = j
  PROVE  /\ l \in FreeLists /\ Len(l) <= NumBlocks
         /\ Len(l) > 0 => l \in BlockLists
<1>1. DOMAIN l = 1..Len(l) /\ Len(l) \in Nat /\ l \in [1..Len(l) -> Blocks]
  BY LenProperties
<1>2. l \in Injection(1..Len(l), Blocks)
  BY <1>1 DEF Injection, IsInjective
<1>3. /\ IsFiniteSet(Blocks) /\ Cardinality(Blocks) = NumBlocks
      /\ Cardinality(1..Len(l)) = Len(l)
  <2>1. ASSUME NEW n \in Nat PROVE IsFiniteSet(1..n) /\ Cardinality(1..n) = n
    <3>1. Cardinality(1..n) = IF 1 > n THEN 0 ELSE n - 1 + 1
      BY FS_Interval
    <3>2. IsFiniteSet(1..n)
      BY FS_Interval
    <3> QED
      BY <3>1, <3>2
  <2> QED
    BY <1>1, <2>1 DEF Blocks
<1>4. Len(l) <= NumBlocks
  BY <1>2, <1>3, FS_Injection
<1>5. IsInjective(l)
  BY <1>1 DEF IsInjective
<1>6. CASE Len(l) = 0
  <2>1. l = << >>
    BY <1>6, EmptySeq
  <2> QED
    BY <1>4, <1>6, <2>1 DEF FreeLists
<1>7. CASE Len(l) > 0
  <2>1. Len(l) \in 1..NumBlocks
    BY <1>1, <1>4, <1>7
  <2>2. l \in BlockLists
    <3>1. l \in {m \in [1..Len(l) -> Blocks] : IsInjective(m)}
      BY <1>1, <1>5
    <3>2. \E k \in 1..NumBlocks : l \in {m \in [1..k -> Blocks] : IsInjective(m)}
      BY <2>1, <3>1
    <3> QED
      BY <3>2, Zenon DEF BlockLists
  <2> QED
    BY <1>4, <2>2 DEF FreeLists
<1> QED
  BY <1>1, <1>6, <1>7

LEMMA NodeFacts ==
  /\ FakeHead \in Nodes /\ FakeTail \in Nodes /\ Blocks \subseteq Nodes
  /\ FakeHead # FakeTail /\ FakeHead \notin Blocks /\ FakeTail \notin Blocks
  /\ None \notin Nodes
BY DEF FakeHead, FakeTail, Nodes, Blocks, None

LEMMA AtFacts ==
  ASSUME NEW l \in FreeLists
  PROVE  /\ At(l, 0) = FakeHead /\ At(l, Len(l) + 1) = FakeTail
         /\ \A i \in 1..Len(l) : At(l, i) = l[i] /\ At(l, i) \in Blocks
         /\ \A i \in 0..(Len(l) + 1) : At(l, i) \in Nodes
         /\ \A i, j \in 0..(Len(l) + 1) : At(l, i) = At(l, j) => i = j
<1>1. /\ l \in Seq(Blocks) /\ Len(l) \in Nat
      /\ \A i, j \in 1..Len(l) : l[i] = l[j] => i = j
  BY ListFacts DEF IsInjective
<1>2. At(l, 0) = FakeHead /\ At(l, Len(l) + 1) = FakeTail
  BY <1>1 DEF At
<1>3. \A i \in 1..Len(l) : At(l, i) = l[i] /\ At(l, i) \in Blocks
  BY <1>1 DEF At
<1>4. \A i \in 0..(Len(l) + 1) : i = 0 \/ i \in 1..Len(l) \/ i = Len(l) + 1
  BY <1>1
<1>5. \A i \in 0..(Len(l) + 1) : At(l, i) \in Nodes
  BY <1>2, <1>3, <1>4, NodeFacts
<1>6. \A i, j \in 0..(Len(l) + 1) : At(l, i) = At(l, j) => i = j
  BY <1>1, <1>2, <1>3, <1>4, NodeFacts
<1> QED
  BY <1>2, <1>3, <1>5, <1>6

\* Links make one list only.
LEMMA OneList ==
  ASSUME NEW nx, NEW pv, NEW k \in FreeLists, NEW l \in FreeLists,
         Chain(nx, pv, k), Chain(nx, pv, l)
  PROVE  k = l
<1> SUFFICES ASSUME NEW a \in FreeLists, NEW b \in FreeLists,
                    Chain(nx, pv, a), Chain(nx, pv, b), Len(a) <= Len(b)
             PROVE  a = b
  <2>1. Len(k) \in Nat /\ Len(l) \in Nat
    BY ListFacts
  <2>2. Len(k) <= Len(l) \/ Len(l) <= Len(k)
    BY <2>1
  <2> QED
    BY <2>2
<1>1. Len(a) \in Nat /\ Len(b) \in Nat /\ a \in Seq(Blocks) /\ b \in Seq(Blocks)
  BY ListFacts
<1> DEFINE D == {i \in 0..(Len(a) + 1) : At(a, i) # At(b, i)}
<1>2. D = {}
  <2> SUFFICES ASSUME D # {} PROVE FALSE
    OBVIOUS
  <2>1. D \in SUBSET Nat
    BY <1>1
  <2>2. PICK n \in D : \A m \in D : n <= m
    <3> HIDE DEF D
    <3> QED
      BY <2>1, Least
  <2>3. n \in 0..(Len(a) + 1) /\ At(a, n) # At(b, n)
    OBVIOUS
  <2>4. n # 0
    BY <2>3, AtFacts
  <2>5. n - 1 \in 0..Len(a) /\ n - 1 \in 0..Len(b) /\ n - 1 \in 0..(Len(a) + 1)
        /\ ~(n <= n - 1) /\ (n - 1) + 1 = n
    BY <1>1, <2>3, <2>4
  <2>6. At(a, n - 1) = At(b, n - 1)
    BY <2>2, <2>5
  <2>7. nx[At(a, n - 1)] = At(a, n) /\ nx[At(b, n - 1)] = At(b, n)
    BY <2>5 DEF Chain
  <2> QED
    BY <2>3, <2>6, <2>7
<1>3. \A i \in 0..(Len(a) + 1) : At(a, i) = At(b, i)
  BY <1>2
<1>4. Len(a) = Len(b)
  <2> SUFFICES ASSUME Len(a) < Len(b) PROVE FALSE
    BY <1>1
  <2>1. Len(a) + 1 \in 0..(Len(a) + 1) /\ Len(a) + 1 \in 1..Len(b)
    BY <1>1
  <2>2. At(b, Len(a) + 1) = FakeTail /\ At(b, Len(a) + 1) \in Blocks
    BY <1>3, <2>1, AtFacts
  <2> QED
    BY <2>2, NodeFacts
<1>5. \A i \in 1..Len(a) : a[i] = b[i]
  <2> TAKE i \in 1..Len(a)
  <2>1. i \in 0..(Len(a) + 1) /\ i \in 1..Len(b)
    BY <1>1, <1>4
  <2> QED
    BY <1>3, <2>1, AtFacts
<1> QED
  BY <1>1, <1>4, <1>5, SeqEqual

-----------------------------------------------------------------------------
(* What the operations do to a chain *)

LEMMA SegmentPlaces ==
  ASSUME NEW n \in Nat, NEW m \in Nat, NEW a \in 0..n, NEW b \in 0..n, a <= b,
         m = n - (b - a), NEW i \in 0..(m + 1)
  PROVE  /\ i = m + 1 => i > a /\ i + (b - a) = n + 1
         /\ i \in 1..m /\ i <= a => i \in 1..a /\ i \in 1..n
         /\ i \in 1..m /\ i > a => i \in (a + 1)..m /\ i + (b - a) \in 1..n
         /\ i = 0 \/ i = m + 1 \/ i \in 1..m
OBVIOUS

\* k is l without places a + 1 to b, and the links nx and pv become mx and qv,
\* which join the neighbours.
CutFrom(l, k, a, b) ==
  /\ Len(k) = Len(l) - (b - a)
  /\ \A i \in 1..a : k[i] = l[i]
  /\ \A i \in (a + 1)..Len(k) : k[i] = l[i + (b - a)]
Unlinked(nx, pv, mx, qv, l, a, b) ==
  /\ mx[At(l, a)] = At(l, b + 1) /\ qv[At(l, b + 1)] = At(l, a)
  /\ \A i \in 0..Len(l) : i < a \/ i > b =>
       mx[At(l, i)] = nx[At(l, i)] /\ qv[At(l, i + 1)] = pv[At(l, i + 1)]

LEMMA SegmentGoes ==
  ASSUME NEW nx, NEW pv, NEW mx, NEW qv, NEW l \in FreeLists, NEW k \in FreeLists,
         Chain(nx, pv, l), NEW a \in 0..Len(l), NEW b \in 0..Len(l), a <= b,
         CutFrom(l, k, a, b), Unlinked(nx, pv, mx, qv, l, a, b)
  PROVE  Chain(mx, qv, k)
<1> USE DEF CutFrom, Unlinked
<1>1. Len(l) \in Nat /\ Len(k) \in Nat
  BY ListFacts
<1>2. \A i \in 0..(Len(k) + 1) :
        /\ i <= a => At(k, i) = At(l, i)
        /\ i > a => At(k, i) = At(l, i + (b - a))
  <2> TAKE i \in 0..(Len(k) + 1)
  <2>0. /\ i = Len(k) + 1 => i > a /\ i + (b - a) = Len(l) + 1
        /\ i \in 1..Len(k) /\ i <= a => i \in 1..a /\ i \in 1..Len(l)
        /\ i \in 1..Len(k) /\ i > a => i \in (a + 1)..Len(k) /\ i + (b - a) \in 1..Len(l)
        /\ i = 0 \/ i = Len(k) + 1 \/ i \in 1..Len(k)
    BY <1>1, SegmentPlaces
  <2>1. CASE i = 0
    BY <2>1, AtFacts
  <2>2. CASE i = Len(k) + 1
    <3>1. i > a /\ i + (b - a) = Len(l) + 1
      BY <2>0, <2>2
    <3>2. At(k, i) = FakeTail
      BY <2>2, AtFacts
    <3>3. At(l, i + (b - a)) = FakeTail
      BY <3>1, AtFacts
    <3> QED
      BY <3>1, <3>2, <3>3
  <2>3. CASE i \in 1..Len(k) /\ i <= a
    <3>1. i \in 1..a /\ i \in 1..Len(l)
      BY <2>0, <2>3
    <3>2. At(k, i) = k[i] /\ At(l, i) = l[i]
      BY <2>3, <3>1, AtFacts
    <3> QED
      BY <2>3, <3>1, <3>2
  <2>4. CASE i \in 1..Len(k) /\ i > a
    <3>1. i \in (a + 1)..Len(k) /\ i + (b - a) \in 1..Len(l)
      BY <2>0, <2>4
    <3>2. At(k, i) = k[i]
      BY <2>4, AtFacts
    <3>3. At(l, i + (b - a)) = l[i + (b - a)]
      BY <3>1, AtFacts
    <3> QED
      BY <2>4, <3>1, <3>2, <3>3
  <2> QED
    BY <2>0, <2>1, <2>2, <2>3, <2>4
<1>3. ASSUME NEW i \in 0..Len(k)
      PROVE  mx[At(k, i)] = At(k, i + 1) /\ qv[At(k, i + 1)] = At(k, i)
  <2>0. i \in 0..(Len(k) + 1) /\ i + 1 \in 0..(Len(k) + 1)
    BY <1>1
  <2>1. CASE i < a
    <3>1. i <= a /\ i + 1 <= a /\ i \in 0..Len(l)
      BY <1>1, <2>1
    <3>2. At(k, i) = At(l, i) /\ At(k, i + 1) = At(l, i + 1)
      BY <1>2, <2>0, <3>1
    <3> QED
      BY <2>1, <3>1, <3>2 DEF Chain
  <2>2. CASE i = a
    <3>1. i <= a /\ i + 1 > a /\ (i + 1) + (b - a) = b + 1
      BY <1>1, <2>2
    <3>2. At(k, i) = At(l, a) /\ At(k, i + 1) = At(l, b + 1)
      BY <1>2, <2>0, <2>2, <3>1
    <3> QED
      BY <3>2
  <2>3. CASE i > a
    <3> DEFINE j == i + (b - a)
    <3>1. j \in 0..Len(l) /\ j > b /\ i + 1 > a /\ (i + 1) + (b - a) = j + 1
      BY <1>1, <2>3
    <3>2. At(k, i) = At(l, j) /\ At(k, i + 1) = At(l, j + 1)
      BY <1>2, <2>0, <2>3, <3>1
    <3> HIDE DEF j
    <3> QED
      BY <3>1, <3>2 DEF Chain
  <2> QED
    BY <1>1, <2>1, <2>2, <2>3
<1> QED
  BY <1>3 DEF Chain
\* k is l with n more blocks after place a, and c are they and their neighbours.
Inserted(l, k, a, n, c) ==
  /\ Len(k) = Len(l) + n
  /\ \A i \in 0..a : At(k, i) = At(l, i)
  /\ \A i \in (a + 1)..(Len(l) + 1) : At(k, i + n) = At(l, i)
  /\ \A j \in 1..(n + 2) : c[j] = At(k, a + (j - 1))

Relinked(nx, pv, mx, qv, l, a, n, c) ==
  /\ \A j \in 1..(n + 1) : mx[c[j]] = c[j + 1] /\ qv[c[j + 1]] = c[j]
  /\ \A i \in 0..Len(l) : i # a =>
       mx[At(l, i)] = nx[At(l, i)] /\ qv[At(l, i + 1)] = pv[At(l, i + 1)]

LEMMA SegmentComes ==
  ASSUME NEW nx, NEW pv, NEW mx, NEW qv, NEW l \in FreeLists, NEW k \in FreeLists,
         Chain(nx, pv, l), NEW a \in 0..Len(l), NEW n \in Nat, NEW c,
         Inserted(l, k, a, n, c),
         Relinked(nx, pv, mx, qv, l, a, n, c)
  PROVE  Chain(mx, qv, k)
<1> USE DEF Inserted, Relinked
<1>1. Len(l) \in Nat /\ Len(k) \in Nat
  BY ListFacts
<1>2. ASSUME NEW i \in 0..Len(k)
      PROVE  mx[At(k, i)] = At(k, i + 1) /\ qv[At(k, i + 1)] = At(k, i)
  <2>1. CASE i < a
    <3>1. i \in 0..a /\ i + 1 \in 0..a /\ i \in 0..Len(l) /\ i # a
      BY <1>1, <2>1
    <3>2. At(k, i) = At(l, i) /\ At(k, i + 1) = At(l, i + 1)
      BY <3>1
    <3>3. nx[At(l, i)] = At(l, i + 1) /\ pv[At(l, i + 1)] = At(l, i)
      BY <3>1 DEF Chain
    <3> QED
      BY <3>1, <3>2, <3>3
  <2>2. CASE a <= i /\ i <= a + n
    <3> DEFINE j == i - a + 1
    <3>1. j \in 1..(n + 1) /\ j \in 1..(n + 2) /\ j + 1 \in 1..(n + 2)
          /\ a + (j - 1) = i /\ a + ((j + 1) - 1) = i + 1
      BY <2>2
    <3> HIDE DEF j
    <3>2. c[j] = At(k, i)
      BY <3>1
    <3>3. c[j + 1] = At(k, i + 1)
      BY <3>1
    <3>4. mx[c[j]] = c[j + 1] /\ qv[c[j + 1]] = c[j]
      BY <3>1
    <3> QED
      BY <3>2, <3>3, <3>4
  <2>3. CASE i > a + n
    <3> DEFINE j == i - n
    <3>1. /\ j \in (a + 1)..(Len(l) + 1) /\ j + 1 \in (a + 1)..(Len(l) + 1)
          /\ j \in 0..Len(l) /\ j # a /\ j + n = i /\ (j + 1) + n = i + 1
      BY SMTT(30), <1>1, <2>3
    <3> HIDE DEF j
    <3>2. At(k, i) = At(l, j)
      BY <3>1
    <3>3. At(k, i + 1) = At(l, j + 1)
      BY <3>1
    <3>4. nx[At(l, j)] = At(l, j + 1) /\ pv[At(l, j + 1)] = At(l, j)
      BY <3>1 DEF Chain
    <3> QED
      BY <3>1, <3>2, <3>3, <3>4
  <2> QED
    BY <1>1, <2>1, <2>2, <2>3
<1> QED
  BY <1>2 DEF Chain

LEMMA SpliceLinks ==
  ASSUME next \in LinkMaps, prev \in LinkMaps, NEW c \in Seq(Nodes), Len(c) > 1,
         \A i, j \in 1..Len(c) : c[i] = c[j] => i = j, Splice(c)
  PROVE  /\ next' \in LinkMaps /\ prev' \in LinkMaps
         /\ \A i \in 1..(Len(c) - 1) : next'[c[i]] = c[i + 1] /\ prev'[c[i + 1]] = c[i]
         /\ \A x \in Nodes : /\ (\A i \in 1..(Len(c) - 1) : c[i] # x) => next'[x] = next[x]
                             /\ (\A i \in 2..Len(c) : c[i] # x) => prev'[x] = prev[x]
<1> DEFINE at(x) == CHOOSE i \in 1..Len(c) : c[i] = x
           F == {c[i] : i \in 1..(Len(c) - 1)}
           T == {c[i] : i \in 2..Len(c)}
<1>1. /\ next' = [x \in Nodes |-> IF x \in F THEN c[at(x) + 1] ELSE next[x]]
      /\ prev' = [x \in Nodes |-> IF x \in T THEN c[at(x) - 1] ELSE prev[x]]
  BY DEF Splice
<1>2. Len(c) \in Nat /\ \A i \in 1..Len(c) : c[i] \in Nodes
  OBVIOUS
<1>3. \A i \in 1..Len(c) : at(c[i]) = i
  OBVIOUS
<1>4. \A i \in 1..(Len(c) - 1) : /\ i \in 1..Len(c) /\ i + 1 \in 1..Len(c)
                                 /\ i + 1 \in 2..Len(c) /\ (i + 1) - 1 = i
  BY <1>2
<1>5. \A i \in 2..Len(c) : i \in 1..Len(c) /\ i - 1 \in 1..Len(c)
  BY <1>2
<1> HIDE DEF at
<1>6. ASSUME NEW i \in 1..(Len(c) - 1)
      PROVE  next'[c[i]] = c[i + 1] /\ prev'[c[i + 1]] = c[i]
  <2>1. c[i] \in Nodes /\ c[i] \in F /\ c[i + 1] \in Nodes /\ c[i + 1] \in T
    BY <1>2, <1>4
  <2>2. at(c[i]) = i /\ at(c[i + 1]) = i + 1 /\ (i + 1) - 1 = i
    BY <1>3, <1>4
  <2>3. next'[c[i]] = c[at(c[i]) + 1] /\ prev'[c[i + 1]] = c[at(c[i + 1]) - 1]
    BY <1>1, <2>1
  <2> QED
    BY <2>2, <2>3
<1>7. ASSUME NEW x \in Nodes
      PROVE  /\ (\A i \in 1..(Len(c) - 1) : c[i] # x) => next'[x] = next[x]
             /\ (\A i \in 2..Len(c) : c[i] # x) => prev'[x] = prev[x]
  BY <1>1
<1>8. \A x \in Nodes : /\ x \in F => c[at(x) + 1] \in Nodes
                       /\ x \in T => c[at(x) - 1] \in Nodes
  <2> TAKE x \in Nodes
  <2>1. ASSUME x \in F PROVE c[at(x) + 1] \in Nodes
    <3>1. PICK i \in 1..(Len(c) - 1) : x = c[i]
      BY <2>1
    <3> QED
      BY <1>2, <1>3, <1>4, <3>1
  <2>2. ASSUME x \in T PROVE c[at(x) - 1] \in Nodes
    <3>1. PICK i \in 2..Len(c) : x = c[i]
      BY <2>2
    <3> QED
      BY <1>2, <1>3, <1>5, <3>1
  <2> QED
    BY <2>1, <2>2
<1> HIDE DEF F, T
<1>9. next' \in LinkMaps /\ prev' \in LinkMaps
  BY <1>1, <1>8 DEF LinkMaps
<1> QED
  BY <1>6, <1>7, <1>9
\* Splicing n blocks in after place a of l makes k.
LEMMA SpliceComes ==
  ASSUME next \in LinkMaps, prev \in LinkMaps,
         NEW l \in FreeLists, NEW k \in FreeLists, Chain(next, prev, l),
         NEW a \in 0..Len(l), NEW n \in Nat, NEW c \in Seq(Nodes), Len(c) = n + 2,
         Inserted(l, k, a, n, c),
         Splice(c)
  PROVE  next' \in LinkMaps /\ prev' \in LinkMaps /\ Chain(next', prev', k)
<1>1. Len(l) \in Nat /\ Len(k) \in Nat /\ Len(k) = Len(l) + n
  BY ListFacts DEF Inserted
<1>2. \A j \in 1..(n + 2) : a + (j - 1) \in 0..(Len(k) + 1)
  BY <1>1
<1>3. \A i, j \in 0..(Len(k) + 1) : At(k, i) = At(k, j) => i = j
  BY AtFacts
<1>4. \A i, j \in 1..Len(c) : c[i] = c[j] => i = j
  <2> TAKE i, j \in 1..Len(c)
  <2>1. /\ i \in 1..(n + 2) /\ j \in 1..(n + 2)
        /\ a + (i - 1) \in 0..(Len(k) + 1) /\ a + (j - 1) \in 0..(Len(k) + 1)
    BY <1>2
  <2>2. c[i] = At(k, a + (i - 1)) /\ c[j] = At(k, a + (j - 1))
    BY <2>1 DEF Inserted
  <2>3. c[i] = c[j] => a + (i - 1) = a + (j - 1)
    BY <1>3, <2>1, <2>2
  <2> QED
    BY <2>1, <2>3
<1>5. /\ next' \in LinkMaps /\ prev' \in LinkMaps
      /\ \A i \in 1..(Len(c) - 1) : next'[c[i]] = c[i + 1] /\ prev'[c[i + 1]] = c[i]
      /\ \A x \in Nodes : /\ (\A i \in 1..(Len(c) - 1) : c[i] # x) => next'[x] = next[x]
                          /\ (\A i \in 2..Len(c) : c[i] # x) => prev'[x] = prev[x]
  <2>1. Len(c) > 1
    OBVIOUS
  <2> QED
    BY <1>4, <2>1, SpliceLinks
\* A place of l that is not next to the new blocks.
<1>6. ASSUME NEW i \in 0..Len(l), i # a
      PROVE  /\ next'[At(l, i)] = next[At(l, i)]
             /\ prev'[At(l, i + 1)] = prev[At(l, i + 1)]
  <2> DEFINE u == IF i < a THEN i ELSE i + n
  <2>1. At(l, i) = At(k, u) /\ At(l, i + 1) = At(k, u + 1)
    <3>1. CASE i < a
      <4>1. i \in 0..a /\ i + 1 \in 0..a /\ u = i
        BY <1>1, <3>1
      <4> QED
        BY <4>1 DEF Inserted
    <3>2. CASE i > a
      <4>1. i \in (a + 1)..(Len(l) + 1) /\ i + 1 \in (a + 1)..(Len(l) + 1)
            /\ u = i + n /\ u + 1 = (i + 1) + n
        BY <1>1, <3>2
      <4> QED
        BY <4>1 DEF Inserted
    <3> QED
      BY <1>1, <1>6, <3>1, <3>2
  <2>2. /\ u \in 0..(Len(k) + 1) /\ u + 1 \in 0..(Len(k) + 1)
        /\ \A j \in 1..(n + 1) : j \in 1..(n + 2) /\ u # a + (j - 1)
        /\ \A j \in 2..(n + 2) : j \in 1..(n + 2) /\ u + 1 # a + (j - 1)
    BY <1>1, <1>6
  <2> HIDE DEF u
  <2>a. \A j \in 1..(n + 2) : c[j] = At(k, a + (j - 1))
    BY DEF Inserted
  <2>b. \A j \in 1..(n + 1) : c[j] # At(k, u)
    <3> TAKE j \in 1..(n + 1)
    <3>1. c[j] = At(k, a + (j - 1)) /\ a + (j - 1) \in 0..(Len(k) + 1) /\ u # a + (j - 1)
      BY <1>2, <2>2, <2>a
    <3> QED
      BY <1>3, <2>2, <3>1
  <2>3. \A j \in 2..(n + 2) : c[j] # At(k, u + 1)
    <3> TAKE j \in 2..(n + 2)
    <3>1. /\ c[j] = At(k, a + (j - 1)) /\ a + (j - 1) \in 0..(Len(k) + 1)
          /\ u + 1 # a + (j - 1)
      BY <1>2, <2>2, <2>a
    <3> QED
      BY <1>3, <2>2, <3>1
  <2>4. At(k, u) \in Nodes /\ At(k, u + 1) \in Nodes
    BY <2>2, AtFacts
  <2>5. Len(c) - 1 = n + 1
    OBVIOUS
  <2> QED
    BY <1>5, <2>1, <2>b, <2>3, <2>4, <2>5
<1>7. \A j \in 1..(n + 1) : next'[c[j]] = c[j + 1] /\ prev'[c[j + 1]] = c[j]
  <2>1. Len(c) - 1 = n + 1
    OBVIOUS
  <2> QED
    BY <1>5, <2>1
<1>8. Relinked(next, prev, next', prev', l, a, n, c)
  BY <1>6, <1>7 DEF Relinked
<1>9. Chain(next', prev', k)
  BY <1>8, SegmentComes
<1> QED
  BY <1>5, <1>9

-----------------------------------------------------------------------------
(* Lists that are cut and joined *)

\* Places a + 1 to b are taken out of l.
Cut(l, a, b) == SubSeq(l, 1, a) \o SubSeq(l, b + 1, Len(l))

\* The place in l of what is at place i of Cut(l, a, b).
Was(a, b, i) == IF i <= a THEN i ELSE i + (b - a)

Places(n, m, a, b) ==
  /\ m \in Nat /\ m = a + (n - b)
  /\ \A i \in 1..a : i \in 1..n /\ i \in 1..m /\ Was(a, b, i) = i
  /\ \A i \in (a + 1)..m : /\ i \in 1..m /\ ~(i <= a) /\ i - a \in 1..(n - b)
                           /\ (i - a) + b = Was(a, b, i)
                           /\ Was(a, b, i) = i + (b - a)
  /\ \A i \in 1..m : /\ Was(a, b, i) \in 1..n /\ Was(a, b, i) \notin (a + 1)..b
                     /\ i \in 1..a \/ i \in (a + 1)..m
  /\ \A i, j \in 1..m : Was(a, b, i) = Was(a, b, j) => i = j
  /\ \A p \in 1..n : p \notin (a + 1)..b => \E i \in 1..m : Was(a, b, i) = p

LEMMA CutPlaces ==
  ASSUME NEW n \in Nat, NEW a \in 0..n, NEW b \in 0..n, a <= b, NEW m, m = n - (b - a)
  PROVE  Places(n, m, a, b)
<1>1. m \in Nat /\ m = a + (n - b)
  OBVIOUS
<1>2. \A i \in 1..a : i \in 1..n /\ i \in 1..m /\ Was(a, b, i) = i
  BY DEF Was
<1>3. \A i \in (a + 1)..m : /\ i \in 1..m /\ ~(i <= a) /\ i - a \in 1..(n - b)
                            /\ (i - a) + b = Was(a, b, i)
                            /\ Was(a, b, i) = i + (b - a)
  BY DEF Was
<1>4. \A i \in 1..m : /\ Was(a, b, i) \in 1..n /\ Was(a, b, i) \notin (a + 1)..b
                      /\ i \in 1..a \/ i \in (a + 1)..m
  BY DEF Was
<1>5. \A i, j \in 1..m : Was(a, b, i) = Was(a, b, j) => i = j
  BY DEF Was
<1>6. \A p \in 1..n : p \notin (a + 1)..b => \E i \in 1..m : Was(a, b, i) = p
  <2> SUFFICES ASSUME NEW p \in 1..n, p \notin (a + 1)..b
               PROVE  \E i \in 1..m : Was(a, b, i) = p
    OBVIOUS
  <2>1. CASE p <= a
    <3>1. p \in 1..m /\ Was(a, b, p) = p
      BY <2>1 DEF Was
    <3> QED
      BY <3>1
  <2>2. CASE p > b
    <3>1. p - (b - a) \in 1..m /\ Was(a, b, p - (b - a)) = p
      BY <2>2 DEF Was
    <3> QED
      BY <3>1
  <2> QED
    BY <2>1, <2>2
<1> QED
  BY <1>1, <1>2, <1>3, <1>4, <1>5, <1>6 DEF Places

LEMMA CutSeq ==
  ASSUME NEW l \in Seq(Blocks), NEW a \in 0..Len(l), NEW b \in 0..Len(l), a <= b
  PROVE  /\ Cut(l, a, b) \in Seq(Blocks) /\ Len(Cut(l, a, b)) = a + (Len(l) - b)
         /\ \A i \in 1..(a + (Len(l) - b)) :
              Cut(l, a, b)[i] = IF i <= a THEN l[i] ELSE l[(i - a) + b]
<1> DEFINE s == SubSeq(l, 1, a)
           t == SubSeq(l, b + 1, Len(l))
           n == Len(l)
<1>1. n \in Nat /\ \A i \in 1..n : l[i] \in Blocks
  OBVIOUS
<1>2. s \in Seq(Blocks) /\ Len(s) = a /\ \A i \in 1..a : s[i] = l[i]
  <2>1. /\ \A i \in 1..a : l[i] \in Blocks
        /\ \A i \in 1..a : 1 + i - 1 = i
        /\ (IF 1 <= a THEN a - 1 + 1 ELSE 0) = a /\ a - 1 + 1 = a /\ 1 \in Int /\ a \in Int
    BY <1>1
  <2>2. /\ s \in Seq(Blocks) /\ Len(s) = IF 1 <= a THEN a - 1 + 1 ELSE 0
        /\ \A i \in 1..(a - 1 + 1) : s[i] = l[1 + i - 1]
    BY <2>1, SubSeqProperties
  <2> HIDE DEF s
  <2> QED
    BY <2>1, <2>2
<1>3. t \in Seq(Blocks) /\ Len(t) = n - b /\ \A i \in 1..(n - b) : t[i] = l[i + b]
  <2>1. /\ \A i \in (b + 1)..n : l[i] \in Blocks
        /\ b + 1 \in Int /\ n \in Int
    BY <1>1
  <2>2. /\ t \in Seq(Blocks)
        /\ Len(t) = IF b + 1 <= n THEN n - (b + 1) + 1 ELSE 0
        /\ \A i \in 1..(n - (b + 1) + 1) : t[i] = l[(b + 1) + i - 1]
    BY <2>1, SubSeqProperties
  <2> HIDE DEF t, n
  <2>3. /\ (IF b + 1 <= n THEN n - (b + 1) + 1 ELSE 0) = n - b
        /\ n - (b + 1) + 1 = n - b
        /\ \A i \in 1..(n - b) : (b + 1) + i - 1 = i + b
    BY <1>1 DEF n
  <2> QED
    BY <2>2, <2>3
<1> HIDE DEF s, t
<1>4. /\ s \o t \in Seq(Blocks) /\ Len(s \o t) = Len(s) + Len(t)
      /\ \A i \in 1..(Len(s) + Len(t)) :
           (s \o t)[i] = IF i <= Len(s) THEN s[i] ELSE t[i - Len(s)]
  BY <1>2, <1>3, ConcatProperties
<1> DEFINE k == s \o t
<1>5. k = Cut(l, a, b)
  BY DEF Cut, s, t
<1>6. k \in Seq(Blocks) /\ Len(k) = a + (n - b)
      /\ \A i \in 1..(a + (n - b)) : k[i] = IF i <= a THEN s[i] ELSE t[i - a]
  BY <1>2, <1>3, <1>4
<1> HIDE DEF k, n
<1>7. ASSUME NEW i \in 1..(a + (n - b))
      PROVE  k[i] = IF i <= a THEN l[i] ELSE l[(i - a) + b]
  <2>1. CASE i <= a
    <3>1. i \in 1..a
      BY <1>1, <2>1 DEF n
    <3> QED
      BY <1>2, <1>6, <2>1, <3>1
  <2>2. CASE ~(i <= a)
    <3>1. i - a \in 1..(n - b)
      BY <1>1, <2>2 DEF n
    <3>2. t[i - a] = l[(i - a) + b]
      BY <1>3, <3>1
    <3> QED
      BY <1>6, <2>2, <3>2
  <2> QED
    BY <2>1, <2>2
<1> QED
  BY <1>5, <1>6, <1>7 DEF n

LEMMA CutList ==
  ASSUME NEW l \in FreeLists, NEW a \in 0..Len(l), NEW b \in 0..Len(l), a <= b,
         NEW k, k = Cut(l, a, b)
  PROVE  /\ k \in FreeLists /\ CutFrom(l, k, a, b)
         /\ Range(k) = Range(l) \ {l[i] : i \in (a + 1)..b}
<1> DEFINE n == Len(l)
           m == n - (b - a)
           w(i) == Was(a, b, i)
<1>1. /\ n \in Nat /\ l \in Seq(Blocks) /\ Range(l) = {l[i] : i \in 1..n}
      /\ \A i, j \in 1..n : l[i] = l[j] => i = j
      /\ \A i \in 1..n : l[i] \in Blocks
  BY ListFacts DEF IsInjective
<1>a. a \in 0..n /\ b \in 0..n /\ m = n - (b - a)
  OBVIOUS
<1>b. /\ Cut(l, a, b) \in Seq(Blocks) /\ Len(Cut(l, a, b)) = a + (Len(l) - b)
      /\ \A i \in 1..(a + (Len(l) - b)) :
           Cut(l, a, b)[i] = IF i <= a THEN l[i] ELSE l[(i - a) + b]
  BY ZenonT(60), <1>1, CutSeq
<1>3. /\ k \in Seq(Blocks) /\ Len(k) = a + (n - b)
      /\ \A i \in 1..(a + (n - b)) : k[i] = IF i <= a THEN l[i] ELSE l[(i - a) + b]
  BY <1>b
<1> HIDE DEF m, n
<1>2. /\ m \in Nat /\ m = a + (n - b)
      /\ \A i \in 1..a : i \in 1..m /\ w(i) = i
      /\ \A i \in (a + 1)..m : i \in 1..m /\ ~(i <= a) /\ (i - a) + b = w(i) /\ w(i) = i + (b - a)
      /\ \A i \in 1..m : w(i) \in 1..n /\ w(i) \notin (a + 1)..b
                         /\ (i \in 1..a \/ i \in (a + 1)..m)
      /\ \A i, j \in 1..m : w(i) = w(j) => i = j
      /\ \A p \in 1..n : p \notin (a + 1)..b => \E i \in 1..m : w(i) = p
  <2>1. Places(n, m, a, b)
    BY <1>1, <1>a, CutPlaces
  <2> QED
    BY <2>1 DEF Places
<1>4. Len(k) = m
  BY <1>2, <1>3
<1> HIDE DEF w
<1>5. \A i \in 1..m : k[i] = l[w(i)]
  <2> TAKE i \in 1..m
  <2>1. i \in 1..(a + (n - b))
    BY <1>2
  <2>2. CASE i \in 1..a
    <3>1. w(i) = i /\ i <= a
      BY <1>2, <2>2
    <3> QED
      BY <1>3, <2>1, <3>1
  <2>3. CASE i \in (a + 1)..m
    <3>1. ~(i <= a) /\ (i - a) + b = w(i)
      BY <1>2, <2>3
    <3> QED
      BY <1>3, <2>1, <3>1
  <2> QED
    BY <1>2, <2>2, <2>3
<1>6. \A i, j \in 1..m : k[i] = k[j] => i = j
  <2> TAKE i \in 1..m, j \in 1..m
  <2> SUFFICES ASSUME k[i] = k[j] PROVE w(i) = w(j)
    BY <1>2
  <2>1. w(i) \in 1..n /\ w(j) \in 1..n
    BY <1>2
  <2>2. l[w(i)] = l[w(j)]
    BY <1>5
  <2>3. \A p, q \in 1..n : l[p] = l[q] => p = q
    BY <1>1
  <2> QED
    BY <2>1, <2>2, <2>3
<1>7. k \in FreeLists
  BY <1>3, <1>4, <1>6, IsFreeList
<1>8. Range(k) = {k[i] : i \in 1..m}
  BY <1>4, <1>7, ListFacts
<1>9. Range(k) = Range(l) \ {l[i] : i \in (a + 1)..b}
  <2>1. ASSUME NEW i \in 1..m PROVE k[i] \in Range(l) \ {l[p] : p \in (a + 1)..b}
    <3>1. \A p \in (a + 1)..b : p \in 1..n
      BY <1>1 DEF n
    <3>2. w(i) \in 1..n /\ w(i) \notin (a + 1)..b /\ k[i] = l[w(i)]
      BY <1>2, <1>5
    <3>3. \A p \in (a + 1)..b : l[p] # l[w(i)]
      BY <1>1, <3>1, <3>2
    <3> QED
      BY <1>1, <3>2, <3>3
  <2>2. ASSUME NEW x \in Range(l) \ {l[i] : i \in (a + 1)..b} PROVE x \in Range(k)
    <3>1. PICK p \in 1..n : x = l[p]
      BY <1>1
    <3>2. p \notin (a + 1)..b
      BY <3>1
    <3>3. PICK i \in 1..m : w(i) = p
      BY <1>2, <3>2
    <3> QED
      BY <1>5, <1>8, <3>1, <3>3
  <2> QED
    BY <1>8, <2>1, <2>2
<1>10. \A i \in 1..a : k[i] = l[i]
  BY <1>2, <1>5
<1>11. \A i \in (a + 1)..m : k[i] = l[i + (b - a)]
  BY <1>2, <1>5
<1> QED
  BY <1>4, <1>7, <1>9, <1>10, <1>11 DEF m, n, CutFrom

Joined(l, m, k) ==
  /\ k \in FreeLists /\ Len(k) = Len(l) + Len(m)
  /\ \A i \in 1..Len(l) : k[i] = l[i]
  /\ \A i \in 1..Len(m) : k[Len(l) + i] = m[i]
  /\ Range(k) = Range(l) \cup Range(m)

LEMMA JoinLists ==
  ASSUME NEW l \in FreeLists, NEW m \in FreeLists, Range(l) \cap Range(m) = {},
         NEW k, k = l \o m
  PROVE  Joined(l, m, k)
<1>1. /\ Len(l) \in Nat /\ l \in Seq(Blocks) /\ Range(l) = {l[i] : i \in 1..Len(l)}
      /\ \A i, j \in 1..Len(l) : l[i] = l[j] => i = j
  BY ListFacts DEF IsInjective
<1>2. /\ Len(m) \in Nat /\ m \in Seq(Blocks) /\ Range(m) = {m[i] : i \in 1..Len(m)}
      /\ \A i, j \in 1..Len(m) : m[i] = m[j] => i = j
  BY ListFacts DEF IsInjective
<1>3. /\ k \in Seq(Blocks) /\ Len(k) = Len(l) + Len(m)
      /\ \A i \in 1..(Len(l) + Len(m)) : k[i] = IF i <= Len(l) THEN l[i] ELSE m[i - Len(l)]
  BY <1>1, <1>2, ConcatProperties
<1>4. \A i \in 1..Len(l) : i \in 1..(Len(l) + Len(m)) /\ i <= Len(l)
  BY <1>1, <1>2
<1>5. \A i \in 1..Len(m) : /\ Len(l) + i \in 1..(Len(l) + Len(m)) /\ ~(Len(l) + i <= Len(l))
                           /\ (Len(l) + i) - Len(l) = i
  BY <1>1, <1>2
<1>6. \A i \in 1..Len(l) : k[i] = l[i]
  BY <1>3, <1>4
<1>7. \A i \in 1..Len(m) : k[Len(l) + i] = m[i]
  BY <1>3, <1>5
<1>8. \A i \in 1..Len(k) : \/ i \in 1..Len(l)
                           \/ i - Len(l) \in 1..Len(m) /\ i = Len(l) + (i - Len(l))
  BY <1>1, <1>2, <1>3
<1>9. \A i \in 1..Len(k) : \/ i \in 1..Len(l) /\ k[i] = l[i] /\ k[i] \in Range(l)
                           \/ /\ i - Len(l) \in 1..Len(m) /\ k[i] = m[i - Len(l)]
                              /\ k[i] \in Range(m)
  BY <1>1, <1>2, <1>6, <1>7, <1>8
<1>10. \A i, j \in 1..Len(k) : k[i] = k[j] => i = j
  <2> SUFFICES ASSUME NEW i \in 1..Len(k), NEW j \in 1..Len(k), k[i] = k[j]
               PROVE  i = j
    OBVIOUS
  <2>1. CASE k[i] \in Range(l)
    <3>1. i \in 1..Len(l) /\ k[i] = l[i] /\ j \in 1..Len(l) /\ k[j] = l[j]
      BY <1>9, <2>1
    <3> QED
      BY <1>1, <3>1
  <2>2. CASE k[i] \in Range(m)
    <3>1. /\ i - Len(l) \in 1..Len(m) /\ k[i] = m[i - Len(l)]
          /\ j - Len(l) \in 1..Len(m) /\ k[j] = m[j - Len(l)]
      BY <1>9, <2>2
    <3>2. i - Len(l) = j - Len(l)
      BY <1>2, <3>1
    <3>3. \A x, y, z \in Int : x - z = y - z => x = y
      OBVIOUS
    <3>4. i \in Int /\ j \in Int /\ Len(l) \in Int
      BY <1>1, <1>3
    <3> QED
      BY <3>2, <3>3, <3>4
  <2> QED
    BY <1>9, <2>1, <2>2
<1>11. k \in FreeLists
  BY <1>3, <1>10, IsFreeList
<1>12. Range(k) = {k[i] : i \in 1..Len(k)}
  BY <1>11, ListFacts
<1>13. \A i \in 1..Len(l) : i \in 1..Len(k)
  BY <1>3, <1>4
<1>14. \A i \in 1..Len(m) : Len(l) + i \in 1..Len(k)
  BY <1>3, <1>5
<1>15. Range(k) = Range(l) \cup Range(m)
  <2>1. Range(k) \subseteq Range(l) \cup Range(m)
    BY <1>9, <1>12
  <2>2. Range(l) \subseteq Range(k)
    BY <1>1, <1>6, <1>12, <1>13
  <2>3. Range(m) \subseteq Range(k)
    BY <1>2, <1>7, <1>12, <1>14
  <2> QED
    BY <2>1, <2>2, <2>3
<1> QED
  BY <1>3, <1>6, <1>7, <1>11, <1>15 DEF Joined
-----------------------------------------------------------------------------
(* The operations *)

\* l is what the state says of the free blocks.
IsList(nx, pv, h, n, l) ==
  l \in FreeLists /\ Chain(nx, pv, l) /\ Range(l) = Blocks \ h /\ Len(l) = n

Calls == {"init", "popleft", "remove", "append", "prepend"}
Types ==
  /\ next \in LinkMaps /\ prev \in LinkMaps /\ held \subseteq Blocks
  /\ call \in Calls \X FreeLists

\* The step of BlockOrder that the call stands for, from l to k.
Allocates(l, k) ==
  \E n \in 1..Len(l) : call' = <<"popleft", SubSeq(l, 1, n)>> /\ k = SubSeq(l, n + 1, Len(l))
Reclaims(l, k) ==
  \E i \in 1..Len(l) : /\ call' = <<"remove", <<l[i]>>>>
                       /\ k = SubSeq(l, 1, i - 1) \o SubSeq(l, i + 1, Len(l))
Retires(l, k)  == \E bs \in Lists(Blocks \ Range(l)) : call' = <<"append", bs>> /\ k = l \o bs
Discards(l, k) == \E bs \in Lists(Blocks \ Range(l)) : call' = <<"prepend", bs>> /\ k = bs \o l
OrderStep(l, k) == Allocates(l, k) \/ Reclaims(l, k) \/ Retires(l, k) \/ Discards(l, k)

Moves(l) == /\ Types'
            /\ \E k : IsList(next', prev', held', num', k) /\ OrderStep(l, k)

LEMMA BlockListFacts ==
  ASSUME NEW l \in BlockLists
  PROVE  l \in FreeLists /\ Len(l) \in 1..NumBlocks
<1>1. l \in FreeLists
  BY DEF FreeLists
<1>2. PICK k \in 1..NumBlocks : l \in [1..k -> Blocks]
  BY DEF BlockLists
<1>3. l \in Seq(Blocks) /\ k \in Nat
  BY <1>1, <1>2, ListFacts
<1>4. Len(l) = k
  BY <1>2, <1>3
<1> QED
  BY <1>1, <1>2, <1>4

LEMMA OneBlock ==
  ASSUME NEW b \in Blocks
  PROVE  /\ <<b>> \in BlockLists /\ <<b>> \in FreeLists /\ Len(<<b>>) = 1
         /\ Range(<<b>>) = {b} /\ <<b>> \in Seq(Blocks) /\ <<b>>[1] = b
<1> DEFINE s == <<b>>
<1>1. s \in Seq(Blocks) /\ Len(s) = 1 /\ s[1] = b
  OBVIOUS
<1> HIDE DEF s
<1>2. \A i, j \in 1..Len(s) : s[i] = s[j] => i = j
  BY <1>1
<1>3. s \in FreeLists /\ s \in BlockLists
  BY <1>1, <1>2, IsFreeList
<1>4. Range(s) = {s[i] : i \in 1..Len(s)}
  BY <1>3, ListFacts
<1>5. Range(s) = {b}
  BY <1>1, <1>4
<1> QED
  BY <1>1, <1>3, <1>5 DEF s

\* Blocks taken out of the list.
LEMMA CutMoves ==
  ASSUME Types, NEW l, IsList(next, prev, held, num, l),
         NEW a \in 0..Len(l), NEW b \in 0..Len(l), a <= b,
         Unlinked(next, prev, next', prev', l, a, b),
         num' = num - (b - a), held' = held \cup {l[i] : i \in (a + 1)..b}
  PROVE  /\ IsList(next', prev', held', num', Cut(l, a, b))
         /\ held' \subseteq Blocks
<1> DEFINE k == Cut(l, a, b)
<1>1. l \in FreeLists /\ Chain(next, prev, l) /\ Range(l) = Blocks \ held /\ Len(l) = num
  BY DEF IsList
<1>2. k \in FreeLists /\ CutFrom(l, k, a, b) /\ Range(k) = Range(l) \ {l[i] : i \in (a + 1)..b}
  BY <1>1, CutList
<1> HIDE DEF k
<1>3. Chain(next', prev', k)
  BY <1>1, <1>2, SegmentGoes
<1>4. Len(k) = num'
  BY <1>1, <1>2 DEF CutFrom
<1>5. \A i \in (a + 1)..b : l[i] \in Blocks
  <2>1. \A i \in (a + 1)..b : i \in 1..Len(l)
    BY <1>1, ListFacts
  <2> QED
    BY <1>1, <2>1, ListFacts
<1>6. Range(k) = Blocks \ held' /\ held' \subseteq Blocks
  BY <1>1, <1>2, <1>5 DEF Types
<1> QED
  BY <1>2, <1>3, <1>4, <1>6 DEF IsList, k

LEMMA CutFront ==
  ASSUME NEW l \in Seq(Blocks), NEW n \in 1..Len(l)
  PROVE  Cut(l, 0, n) = SubSeq(l, n + 1, Len(l))
<1>1. SubSeq(l, 1, 0) = << >>
  BY SubSeqEmpty
<1>2. SubSeq(l, n + 1, Len(l)) \in Seq(Blocks)
  OBVIOUS
<1> QED
  BY <1>1, <1>2, ConcatEmptySeq DEF Cut

LEMMA FirstBlock ==
  ASSUME NEW l \in Seq(Blocks), 1 \in 1..Len(l)
  PROVE  SubSeq(l, 1, 1) = <<l[1]>>
<1>1. l[1] \in Blocks /\ \A i \in 1..1 : l[i] \in Blocks
  OBVIOUS
<1>2. /\ SubSeq(l, 1, 1) \in Seq(Blocks)
      /\ Len(SubSeq(l, 1, 1)) = IF 1 <= 1 THEN 1 - 1 + 1 ELSE 0
      /\ \A i \in 1..(1 - 1 + 1) : SubSeq(l, 1, 1)[i] = l[1 + i - 1]
  BY <1>1, SubSeqProperties
<1>3. Len(SubSeq(l, 1, 1)) = 1 /\ SubSeq(l, 1, 1)[1] = l[1]
  BY <1>2
<1>4. <<l[1]>> \in Seq(Blocks) /\ Len(<<l[1]>>) = 1 /\ <<l[1]>>[1] = l[1]
  BY <1>1, OneBlock
<1>5. ASSUME NEW s \in Seq(Blocks), NEW t \in Seq(Blocks), Len(s) = 1, Len(t) = 1, s[1] = t[1]
      PROVE  s = t
  BY <1>5, SeqEqual
<1> QED
  BY <1>2, <1>3, <1>4, <1>5

LEMMA PopleftMoves ==
  ASSUME Types, NEW l, IsList(next, prev, held, num, l), Popleft
  PROVE  Moves(l)
<1> DEFINE first == next[FakeHead]
<1>1. /\ l \in FreeLists /\ Chain(next, prev, l) /\ Len(l) = num /\ Len(l) \in Nat
      /\ l \in Seq(Blocks)
  BY ListFacts DEF IsList
<1>2. first = At(l, 1) /\ Len(l) > 0
  <2>1. next[At(l, 0)] = At(l, 0 + 1)
    BY <1>1 DEF Chain
  <2>2. first = At(l, 1)
    BY <1>1, <2>1, AtFacts
  <2>3. first # FakeTail
    BY DEF Popleft
  <2>4. Len(l) = 0 => At(l, 1) = FakeTail
    BY <1>1, AtFacts
  <2> QED
    BY <1>1, <2>2, <2>3, <2>4
<1>3. 1 \in 0..Len(l) /\ 1 \in 1..Len(l) /\ 2 \in 0..(Len(l) + 1) /\ 0 \in 0..Len(l)
  BY <1>1, <1>2
<1>4. first = l[1] /\ first \in Blocks /\ At(l, 0) = FakeHead
  BY <1>1, <1>2, <1>3, AtFacts
<1>5. next[first] = At(l, 2)
  <2>1. next[At(l, 1)] = At(l, 1 + 1)
    BY <1>1, <1>3 DEF Chain
  <2> QED
    BY <1>2, <2>1
<1>6. At(l, 2) \in Nodes /\ At(l, 2) # first /\ At(l, 2) # FakeHead /\ first # FakeHead
  <2>1. /\ \A i \in 0..(Len(l) + 1) : At(l, i) \in Nodes
        /\ \A i, j \in 0..(Len(l) + 1) : At(l, i) = At(l, j) => i = j
    BY <1>1, AtFacts
  <2>2. 0 \in 0..(Len(l) + 1) /\ 1 \in 0..(Len(l) + 1)
    BY <1>1
  <2> QED
    BY <1>2, <1>3, <1>4, <2>1, <2>2
<1> HIDE DEF first
<1>7. /\ next' = [next EXCEPT ![FakeHead] = At(l, 2), ![first] = None]
      /\ prev' = [prev EXCEPT ![At(l, 2)] = FakeHead, ![first] = None]
      /\ num' = num - 1 /\ held' = held \cup {first} /\ call' = <<"popleft", <<first>>>>
  BY <1>5 DEF Popleft, first
<1>8. next' \in LinkMaps /\ prev' \in LinkMaps
  BY <1>4, <1>6, <1>7, NodeFacts DEF Types, LinkMaps
<1>9. Unlinked(next, prev, next', prev', l, 0, 1)
  <2>1. next'[At(l, 0)] = At(l, 1 + 1) /\ prev'[At(l, 1 + 1)] = At(l, 0)
    BY <1>4, <1>6, <1>7, NodeFacts DEF Types, LinkMaps
  <2>2. ASSUME NEW i \in 0..Len(l), i < 0 \/ i > 1
        PROVE  next'[At(l, i)] = next[At(l, i)] /\ prev'[At(l, i + 1)] = prev[At(l, i + 1)]
    <3>1. i \in 0..(Len(l) + 1) /\ i + 1 \in 0..(Len(l) + 1) /\ i > 1 /\ i + 1 > 2
          /\ 1 \in 0..(Len(l) + 1) /\ 0 \in 0..(Len(l) + 1)
      BY <1>1, <2>2
    <3>2. /\ At(l, i) # At(l, 0) /\ At(l, i) # At(l, 1)
          /\ At(l, i + 1) # At(l, 1) /\ At(l, i + 1) # At(l, 2)
      BY <1>1, <1>3, <3>1, AtFacts
    <3>3. At(l, i) \in Nodes /\ At(l, i + 1) \in Nodes
      BY <1>1, <3>1, AtFacts
    <3> QED
      BY <1>2, <1>4, <1>7, <3>2, <3>3 DEF Types, LinkMaps
  <2> QED
    BY <2>1, <2>2 DEF Unlinked
<1>10. IsList(next', prev', held', num', Cut(l, 0, 1)) /\ held' \subseteq Blocks
  <2>1. {l[i] : i \in (0 + 1)..1} = {first}
    BY <1>4
  <2>2. held' = held \cup {l[i] : i \in (0 + 1)..1}
    BY <1>7, <2>1, Zenon
  <2>3. num' = num - (1 - 0) /\ 0 <= 1
    <3>1. \A n \in Int : n - 1 = n - (1 - 0)
      OBVIOUS
    <3> QED
      BY <1>1, <1>7, <3>1
  <2> QED
    BY <1>3, <1>9, <2>2, <2>3, CutMoves
<1>11. Allocates(l, Cut(l, 0, 1))
  <2>1. SubSeq(l, 1, 1) = <<first>>
    BY <1>1, <1>3, <1>4, FirstBlock
  <2>2. Cut(l, 0, 1) = SubSeq(l, 1 + 1, Len(l))
    BY <1>1, <1>3, CutFront
  <2> QED
    BY <1>3, <1>7, <2>1, <2>2 DEF Allocates
<1>12. call' \in Calls \X FreeLists
  BY <1>4, <1>7, OneBlock DEF Calls
<1> QED
  BY <1>8, <1>10, <1>11, <1>12 DEF Moves, Types, OrderStep
\* The blocks that popleft_n collects are the first of the list.
LEMMA LeadingBlocks ==
  ASSUME NEW l \in FreeLists, Chain(next, prev, l), NEW m \in BlockLists,
         Len(m) <= Len(l), Leading(m)
  PROVE  /\ \A i \in 1..Len(m) : m[i] = l[i]
         /\ m = SubSeq(l, 1, Len(m))
<1>1. /\ Len(l) \in Nat /\ Len(m) \in Nat /\ l \in Seq(Blocks) /\ m \in Seq(Blocks)
      /\ \A i \in 1..Len(l) : At(l, i) = l[i]
      /\ m[1] = next[FakeHead] /\ \A i \in 1..(Len(m) - 1) : m[i + 1] = next[m[i]]
  BY ListFacts, AtFacts, BlockListFacts DEF Leading
<1> DEFINE D == {i \in 1..Len(m) : m[i] # l[i]}
<1>2. D = {}
  <2> SUFFICES ASSUME D # {} PROVE FALSE
    OBVIOUS
  <2>1. D \in SUBSET Nat
    BY <1>1
  <2>2. PICK n \in D : \A i \in D : n <= i
    <3> HIDE DEF D
    <3> QED
      BY <2>1, Least
  <2>3. n \in 1..Len(m) /\ m[n] # l[n] /\ n \in 1..Len(l)
    BY <1>1
  <2>4. CASE n = 1
    <3>1. next[At(l, 0)] = At(l, 0 + 1)
      BY <1>1 DEF Chain
    <3>2. At(l, 0) = FakeHead /\ At(l, 1) = l[1]
      BY <1>1, <2>3, <2>4, AtFacts
    <3> QED
      BY <1>1, <2>3, <2>4, <3>1, <3>2
  <2>5. CASE n # 1
    <3>1. /\ n - 1 \in 1..(Len(m) - 1) /\ n - 1 \in 1..Len(m) /\ n - 1 \in 1..Len(l)
          /\ n - 1 \in 0..Len(l) /\ (n - 1) + 1 = n /\ ~(n <= n - 1)
      BY <1>1, <2>3, <2>5
    <3>2. m[n - 1] = l[n - 1]
      BY <2>2, <3>1
    <3>3. m[n] = next[m[n - 1]]
      BY <1>1, <3>1
    <3>4. next[At(l, n - 1)] = At(l, n)
      BY <3>1 DEF Chain
    <3> QED
      BY <1>1, <2>3, <3>1, <3>2, <3>3, <3>4
  <2> QED
    BY <2>4, <2>5
<1>3. \A i \in 1..Len(m) : m[i] = l[i]
  BY <1>2
<1>4. m = SubSeq(l, 1, Len(m))
  <2> DEFINE n == Len(m)
  <2>1. /\ \A i \in 1..n : l[i] \in Blocks
        /\ n \in Nat
    BY <1>1
  <2> HIDE DEF n
  <2>2. /\ SubSeq(l, 1, n) \in Seq(Blocks)
        /\ Len(SubSeq(l, 1, n)) = IF 1 <= n THEN n - 1 + 1 ELSE 0
        /\ \A i \in 1..(n - 1 + 1) : SubSeq(l, 1, n)[i] = l[1 + i - 1]
    BY <2>1, SubSeqProperties
  <2>3. Len(SubSeq(l, 1, n)) = n /\ \A i \in 1..n : SubSeq(l, 1, n)[i] = l[i]
    <3>1. /\ (IF 1 <= n THEN n - 1 + 1 ELSE 0) = n /\ n - 1 + 1 = n
          /\ \A i \in 1..n : 1 + i - 1 = i
      BY <2>1
    <3> QED
      BY <2>2, <3>1
  <2> QED
    BY <1>1, <1>3, <2>2, <2>3, SeqEqual DEF n
<1> QED
  BY <1>3, <1>4

LEMMA PopleftNMoves ==
  ASSUME Types, NEW l, IsList(next, prev, held, num, l), PopleftN
  PROVE  Moves(l)
<1>1. /\ l \in FreeLists /\ Chain(next, prev, l) /\ Len(l) = num /\ Len(l) \in Nat
      /\ l \in Seq(Blocks)
  BY ListFacts DEF IsList
<1>2. PICK m \in BlockLists :
        /\ Len(m) <= num /\ Leading(m)
        /\ next' = [x \in Nodes |->
                      IF x \in Range(m) THEN None
                      ELSE IF x = FakeHead /\ next[m[Len(m)]] # None THEN next[m[Len(m)]]
                      ELSE next[x]]
        /\ prev' = [x \in Nodes |->
                      IF x \in Range(m) THEN None
                      ELSE IF x = next[m[Len(m)]] THEN FakeHead ELSE prev[x]]
        /\ num' = num - Len(m)
        /\ held' = held \cup Range(m)
        /\ call' = <<"popleft", m>>
  BY DEF PopleftN
<1> DEFINE n == Len(m)
<1>3. /\ n \in 1..Len(l) /\ n \in 0..Len(l) /\ 0 \in 0..Len(l) /\ n \in 1..Len(m) /\ n \in Nat
      /\ n + 1 \in 0..(Len(l) + 1) /\ 0 \in 0..(Len(l) + 1) /\ 0 <= n
  BY <1>1, <1>2, BlockListFacts
<1>4. (\A i \in 1..Len(m) : m[i] = l[i]) /\ m = SubSeq(l, 1, Len(m))
  BY <1>1, <1>2, LeadingBlocks
<1>5. Range(m) = {m[i] : i \in 1..Len(m)}
  BY BlockListFacts, ListFacts
<1>6. \A i \in 1..n : m[i] = l[i] /\ m[i] = At(l, i) /\ i \in 0..(Len(l) + 1) /\ i \in 1..Len(l)
  <2>1. \A i \in 1..n : i \in 1..Len(l) /\ i \in 0..(Len(l) + 1)
    BY <1>1, <1>3
  <2> QED
    BY <1>1, <1>4, <2>1, AtFacts
<1>7. next[m[n]] = At(l, n + 1)
  <2>1. n \in 1..n
    BY <1>3
  <2>2. m[n] = At(l, n) /\ next[At(l, n)] = At(l, n + 1)
    BY <1>1, <1>3, <1>6, <2>1 DEF Chain
  <2> QED
    BY <2>2
<1>8. Range(m) = {l[i] : i \in (0 + 1)..n}
  BY <1>4, <1>5
<1> HIDE DEF n
<1>9. At(l, 0) = FakeHead /\ At(l, n + 1) \in Nodes /\ At(l, n + 1) # None
  BY <1>1, <1>3, AtFacts, NodeFacts
<1>10. /\ next' = [x \in Nodes |-> IF x \in Range(m) THEN None
                                  ELSE IF x = FakeHead THEN At(l, n + 1) ELSE next[x]]
       /\ prev' = [x \in Nodes |-> IF x \in Range(m) THEN None
                                  ELSE IF x = At(l, n + 1) THEN FakeHead ELSE prev[x]]
  BY <1>2, <1>7, <1>9 DEF n
<1>11. next' \in LinkMaps /\ prev' \in LinkMaps
  BY <1>9, <1>10, NodeFacts DEF Types, LinkMaps
<1>12. \A i \in 0..(Len(l) + 1) : i = 0 \/ i > n => At(l, i) \notin Range(m)
  <2> SUFFICES ASSUME NEW i \in 0..(Len(l) + 1), i = 0 \/ i > n, At(l, i) \in Range(m)
               PROVE  FALSE
    OBVIOUS
  <2>1. PICK j \in 1..n : At(l, i) = At(l, j)
    BY <1>5, <1>6 DEF n
  <2>2. i = j
    BY <1>1, <1>6, <2>1, AtFacts
  <2> QED
    BY <1>3, <2>2
<1>13. Unlinked(next, prev, next', prev', l, 0, n)
  <2>1. next'[At(l, 0)] = At(l, n + 1) /\ prev'[At(l, n + 1)] = At(l, 0)
    <3>1. n + 1 > n
      BY <1>3
    <3>2. At(l, 0) \notin Range(m) /\ At(l, n + 1) \notin Range(m)
      BY <1>3, <1>12, <3>1
    <3> QED
      BY <1>9, <1>10, <3>2, NodeFacts
  <2>2. ASSUME NEW i \in 0..Len(l), i < 0 \/ i > n
        PROVE  next'[At(l, i)] = next[At(l, i)] /\ prev'[At(l, i + 1)] = prev[At(l, i + 1)]
    <3>1. /\ i \in 0..(Len(l) + 1) /\ i + 1 \in 0..(Len(l) + 1) /\ i > n /\ i + 1 > n
          /\ i + 1 # n + 1 /\ i # 0
      BY <1>1, <1>3, <2>2
    <3>2. /\ At(l, i) # At(l, 0) /\ At(l, i + 1) # At(l, n + 1)
          /\ At(l, i) \in Nodes /\ At(l, i + 1) \in Nodes
      BY <1>1, <1>3, <3>1, AtFacts
    <3>3. At(l, i) \notin Range(m) /\ At(l, i + 1) \notin Range(m)
      BY <1>12, <3>1
    <3> QED
      BY <1>9, <1>10, <3>2, <3>3
  <2> QED
    BY <2>1, <2>2 DEF Unlinked
<1>14. IsList(next', prev', held', num', Cut(l, 0, n)) /\ held' \subseteq Blocks
  <2>1. num' = num - (n - 0) /\ held' = held \cup {l[i] : i \in (0 + 1)..n}
    BY <1>1, <1>2, <1>3, <1>8 DEF n
  <2> QED
    BY <1>3, <1>13, <2>1, CutMoves
<1>15. Allocates(l, Cut(l, 0, n))
  <2>1. Cut(l, 0, n) = SubSeq(l, n + 1, Len(l))
    BY <1>1, <1>3, CutFront
  <2>2. call' = <<"popleft", SubSeq(l, 1, n)>>
    BY <1>2, <1>4 DEF n
  <2> QED
    BY <1>3, <2>1, <2>2 DEF Allocates
<1>16. call' \in Calls \X FreeLists
  BY <1>2, BlockListFacts DEF Calls
<1> QED
  BY <1>11, <1>14, <1>15, <1>16 DEF Moves, Types, OrderStep

LEMMA RemoveMoves ==
  ASSUME Types, NEW l, IsList(next, prev, held, num, l), Remove
  PROVE  Moves(l)
<1>1. /\ l \in FreeLists /\ Chain(next, prev, l) /\ Len(l) = num /\ Len(l) \in Nat
      /\ l \in Seq(Blocks) /\ Range(l) = Blocks \ held /\ Range(l) = {l[i] : i \in 1..Len(l)}
  BY ListFacts DEF IsList
<1>2. PICK b \in Blocks \ held :
        /\ next' = [next EXCEPT ![prev[b]] = next[b], ![b] = None]
        /\ prev' = [prev EXCEPT ![next[b]] = prev[b], ![b] = None]
        /\ num' = num - 1
        /\ held' = held \cup {b}
        /\ call' = <<"remove", <<b>>>>
  BY DEF Remove
<1>3. PICK p \in 1..Len(l) : b = l[p]
  BY <1>1
<1> DEFINE a == p - 1
<1>4. /\ a \in 0..Len(l) /\ p \in 0..Len(l) /\ a <= p /\ a + 1 = p /\ p - a = 1
      /\ a \in 0..(Len(l) + 1) /\ p \in 0..(Len(l) + 1) /\ p + 1 \in 0..(Len(l) + 1)
      /\ a # p /\ p # p + 1 /\ a # p + 1
  BY <1>1
<1> HIDE DEF a
<1>5. b = At(l, p) /\ prev[b] = At(l, a) /\ next[b] = At(l, p + 1)
  <2>1. At(l, p) = l[p]
    BY <1>1, AtFacts
  <2>2. next[At(l, p)] = At(l, p + 1) /\ prev[At(l, a + 1)] = At(l, a)
    BY <1>1, <1>4 DEF Chain
  <2> QED
    BY <1>3, <1>4, <2>1, <2>2
<1>6. /\ \A i \in 0..(Len(l) + 1) : At(l, i) \in Nodes
      /\ \A i, j \in 0..(Len(l) + 1) : At(l, i) = At(l, j) => i = j
  BY <1>1, AtFacts
<1>7. /\ next' = [next EXCEPT ![At(l, a)] = At(l, p + 1), ![b] = None]
      /\ prev' = [prev EXCEPT ![At(l, p + 1)] = At(l, a), ![b] = None]
  BY <1>2, <1>5
<1>8. At(l, a) \in Nodes /\ At(l, p + 1) \in Nodes /\ b \in Nodes
      /\ At(l, a) # b /\ At(l, p + 1) # b
  BY <1>4, <1>5, <1>6
<1>9. next' \in LinkMaps /\ prev' \in LinkMaps
  BY <1>7, <1>8 DEF Types, LinkMaps
<1>10. Unlinked(next, prev, next', prev', l, a, p)
  <2>1. next'[At(l, a)] = At(l, p + 1) /\ prev'[At(l, p + 1)] = At(l, a)
    BY <1>7, <1>8 DEF Types, LinkMaps
  <2>2. ASSUME NEW i \in 0..Len(l), i < a \/ i > p
        PROVE  next'[At(l, i)] = next[At(l, i)] /\ prev'[At(l, i + 1)] = prev[At(l, i + 1)]
    <3>1. /\ i \in 0..(Len(l) + 1) /\ i + 1 \in 0..(Len(l) + 1)
          /\ i # a /\ i # p /\ i + 1 # p + 1 /\ i + 1 # p
      BY <1>1, <1>4, <2>2
    <3>2. /\ At(l, i) # At(l, a) /\ At(l, i) # b
          /\ At(l, i + 1) # At(l, p + 1) /\ At(l, i + 1) # b
          /\ At(l, i) \in Nodes /\ At(l, i + 1) \in Nodes
      BY <1>4, <1>5, <1>6, <3>1
    <3> QED
      BY <1>7, <1>8, <3>2 DEF Types, LinkMaps
  <2> QED
    BY <2>1, <2>2 DEF Unlinked
<1>11. IsList(next', prev', held', num', Cut(l, a, p)) /\ held' \subseteq Blocks
  <2>1. {l[i] : i \in (a + 1)..p} = {b}
    BY <1>3, <1>4
  <2>2. num' = num - (p - a) /\ held' = held \cup {l[i] : i \in (a + 1)..p}
    BY <1>2, <1>4, <2>1
  <2> QED
    BY <1>4, <1>10, <2>2, CutMoves
<1>12. Reclaims(l, Cut(l, a, p))
  BY <1>2, <1>3 DEF Reclaims, Cut, a
<1>13. call' \in Calls \X FreeLists
  BY <1>2, OneBlock DEF Calls
<1> QED
  BY <1>9, <1>11, <1>12, <1>13 DEF Moves, Types, OrderStep
\* A list between its two neighbours, as the code splices it in.
Around(x, m, y) == <<x>> \o m \o <<y>>

LEMMA AroundFacts ==
  ASSUME NEW m \in FreeLists, NEW x \in Nodes, NEW y \in Nodes
  PROVE  /\ Around(x, m, y) \in Seq(Nodes) /\ Len(Around(x, m, y)) = Len(m) + 2
         /\ Around(x, m, y)[1] = x /\ Around(x, m, y)[Len(m) + 2] = y
         /\ \A i \in 2..(Len(m) + 1) : Around(x, m, y)[i] = m[i - 1]
<1> DEFINE n == Len(m)
           s == <<x>> \o m
           c == s \o <<y>>
<1>1. n \in Nat /\ m \in Seq(Nodes)
  <2>1. m \in Seq(Blocks)
    BY ListFacts
  <2> QED
    BY <2>1, NodeFacts, SeqMonotonic, ListFacts
<1>2. /\ <<x>> \in Seq(Nodes) /\ Len(<<x>>) = 1 /\ <<x>>[1] = x
      /\ <<y>> \in Seq(Nodes) /\ Len(<<y>>) = 1 /\ <<y>>[1] = y
  OBVIOUS
<1>3. /\ s \in Seq(Nodes) /\ Len(s) = Len(<<x>>) + Len(m)
      /\ \A i \in 1..(Len(<<x>>) + Len(m)) :
           s[i] = IF i <= Len(<<x>>) THEN <<x>>[i] ELSE m[i - Len(<<x>>)]
  BY <1>1, <1>2, ConcatProperties
<1> HIDE DEF s
<1>4. /\ c \in Seq(Nodes) /\ Len(c) = Len(s) + Len(<<y>>)
      /\ \A i \in 1..(Len(s) + Len(<<y>>)) :
           c[i] = IF i <= Len(s) THEN s[i] ELSE <<y>>[i - Len(s)]
  BY <1>2, <1>3, ConcatProperties
<1> HIDE DEF c, n
<1>5. Len(s) = 1 + n /\ \A i \in 1..(1 + n) : s[i] = IF i <= 1 THEN x ELSE m[i - 1]
  <2>1. \A i \in 1..(1 + n) : i <= 1 => i = 1
    BY <1>1
  <2> QED
    BY <1>2, <1>3, <2>1 DEF n
<1>6. Len(c) = n + 2 /\ \A i \in 1..(n + 2) : c[i] = IF i <= 1 + n THEN s[i] ELSE y
  <2>1. \A i \in 1..(n + 2) : ~(i <= 1 + n) => i - (1 + n) = 1
    BY <1>1
  <2>2. (1 + n) + 1 = n + 2
    BY <1>1
  <2> QED
    BY <1>2, <1>4, <1>5, <2>1, <2>2
<1>7. c[1] = x /\ c[n + 2] = y /\ \A i \in 2..(n + 1) : c[i] = m[i - 1]
  <2>1. /\ 1 \in 1..(n + 2) /\ 1 <= 1 + n /\ 1 \in 1..(1 + n)
        /\ n + 2 \in 1..(n + 2) /\ ~(n + 2 <= 1 + n)
        /\ \A i \in 2..(n + 1) : i \in 1..(n + 2) /\ i <= 1 + n /\ i \in 1..(1 + n) /\ ~(i <= 1)
    BY <1>1
  <2> QED
    BY <1>5, <1>6, <2>1
<1>8. c = Around(x, m, y)
  BY DEF Around, c, s
<1> QED
  BY <1>4, <1>6, <1>7, <1>8 DEF n

LEMMA AppendInserts ==
  ASSUME NEW l \in FreeLists, NEW m \in FreeLists, Range(l) \cap Range(m) = {}
  PROVE  Inserted(l, l \o m, Len(l), Len(m), Around(At(l, Len(l)), m, FakeTail))
<1> DEFINE k == l \o m
           a == Len(l)
           n == Len(m)
           c == Around(At(l, a), m, FakeTail)
<1>1. /\ a \in Nat /\ n \in Nat /\ k \in FreeLists /\ Len(k) = a + n
      /\ \A i \in 1..a : k[i] = l[i]
      /\ \A i \in 1..n : k[a + i] = m[i]
  <2>1. Joined(l, m, k)
    BY JoinLists
  <2> QED
    BY <2>1, ListFacts DEF Joined
<1>2. At(l, a) \in Nodes /\ FakeTail \in Nodes
  <2>1. a \in 0..(Len(l) + 1)
    BY <1>1
  <2> QED
    BY <2>1, AtFacts, NodeFacts
<1>3. c[1] = At(l, a) /\ c[n + 2] = FakeTail /\ \A i \in 2..(n + 1) : c[i] = m[i - 1]
  BY <1>2, AroundFacts
<1>4. /\ At(k, 0) = FakeHead /\ At(k, a + n + 1) = FakeTail
      /\ \A i \in 1..(a + n) : At(k, i) = k[i]
      /\ At(l, 0) = FakeHead /\ At(l, a + 1) = FakeTail /\ \A i \in 1..a : At(l, i) = l[i]
  BY <1>1, AtFacts
<1> HIDE DEF c, k
<1>5. \A i \in 0..a : At(k, i) = At(l, i)
  <2> TAKE i \in 0..a
  <2>1. i = 0 \/ (i \in 1..a /\ i \in 1..(a + n))
    BY <1>1
  <2> QED
    BY <1>1, <1>4, <2>1
<1>6. \A i \in (a + 1)..(a + 1) : At(k, i + n) = At(l, i)
  <2>1. \A i \in (a + 1)..(a + 1) : i = a + 1 /\ i + n = a + n + 1
    BY <1>1
  <2> QED
    BY <1>4, <2>1
<1>7. \A j \in 1..(n + 2) : c[j] = At(k, a + (j - 1))
  <2> TAKE j \in 1..(n + 2)
  <2>1. CASE j = 1
    <3>1. a + (j - 1) = a /\ a \in 0..a
      BY <1>1, <2>1
    <3> QED
      BY <1>3, <1>5, <2>1, <3>1
  <2>2. CASE j = n + 2
    <3>1. a + (j - 1) = a + n + 1
      BY <1>1, <2>2
    <3> QED
      BY <1>3, <1>4, <2>2, <3>1
  <2>3. CASE j # 1 /\ j # n + 2
    <3>1. j \in 2..(n + 1) /\ j - 1 \in 1..n /\ a + (j - 1) \in 1..(a + n)
      BY <1>1, <2>3
    <3> QED
      BY <1>1, <1>3, <1>4, <3>1
  <2> QED
    BY <2>1, <2>2, <2>3
<1> QED
  BY <1>1, <1>5, <1>6, <1>7 DEF Inserted, c, k

LEMMA PrependInserts ==
  ASSUME NEW l \in FreeLists, NEW m \in FreeLists, Range(l) \cap Range(m) = {}
  PROVE  Inserted(l, m \o l, 0, Len(m), Around(FakeHead, m, At(l, 1)))
<1> DEFINE k == m \o l
           a == Len(l)
           n == Len(m)
           c == Around(FakeHead, m, At(l, 1))
<1>1. /\ a \in Nat /\ n \in Nat /\ k \in FreeLists /\ Len(k) = n + a
      /\ \A i \in 1..n : k[i] = m[i]
      /\ \A i \in 1..a : k[n + i] = l[i]
  <2>1. Range(m) \cap Range(l) = {}
    OBVIOUS
  <2>2. Joined(m, l, k)
    BY <2>1, JoinLists
  <2> QED
    BY <2>2, ListFacts DEF Joined
<1>2. At(l, 1) \in Nodes /\ FakeHead \in Nodes
  <2>1. 1 \in 0..(Len(l) + 1)
    BY <1>1
  <2> QED
    BY <2>1, AtFacts, NodeFacts
<1>3. c[1] = FakeHead /\ c[n + 2] = At(l, 1) /\ \A i \in 2..(n + 1) : c[i] = m[i - 1]
  BY <1>2, AroundFacts
<1>4. /\ At(k, 0) = FakeHead /\ At(k, n + a + 1) = FakeTail
      /\ \A i \in 1..(n + a) : At(k, i) = k[i]
      /\ At(l, 0) = FakeHead /\ At(l, a + 1) = FakeTail /\ \A i \in 1..a : At(l, i) = l[i]
  BY <1>1, AtFacts
<1> HIDE DEF c, k
<1>5. \A i \in 0..0 : At(k, i) = At(l, i)
  <2>1. \A i \in 0..0 : i = 0
    OBVIOUS
  <2> QED
    BY <1>4, <2>1
<1>6. \A i \in (0 + 1)..(a + 1) : At(k, i + n) = At(l, i)
  <2> TAKE i \in (0 + 1)..(a + 1)
  <2>1. CASE i = a + 1
    <3>1. i + n = n + a + 1
      BY <1>1, <2>1
    <3> QED
      BY <1>4, <2>1, <3>1
  <2>2. CASE i # a + 1
    <3>1. i \in 1..a /\ i + n = n + i /\ n + i \in 1..(n + a)
      BY <1>1, <2>2
    <3>2. At(k, n + i) = l[i]
      BY <1>1, <1>4, <3>1
    <3> QED
      BY <1>4, <3>1, <3>2
  <2> QED
    BY <2>1, <2>2
<1>7. \A j \in 1..(n + 2) : c[j] = At(k, 0 + (j - 1))
  <2> TAKE j \in 1..(n + 2)
  <2>1. CASE j = 1
    <3>1. 0 + (j - 1) = 0
      BY <2>1
    <3> QED
      BY <1>3, <1>4, <2>1, <3>1
  <2>2. CASE j = n + 2
    <3>1. 0 + (j - 1) = 1 + n /\ 1 \in (0 + 1)..(a + 1)
      BY <1>1, <2>2
    <3> QED
      BY <1>3, <1>6, <2>2, <3>1
  <2>3. CASE j # 1 /\ j # n + 2
    <3>1. /\ j \in 2..(n + 1) /\ j - 1 \in 1..n /\ j - 1 \in 1..(n + a)
          /\ 0 + (j - 1) = j - 1
      BY <1>1, <2>3
    <3> QED
      BY <1>1, <1>3, <1>4, <3>1
  <2> QED
    BY <2>1, <2>2, <2>3
<1>8. Len(k) = Len(l) + n
  BY <1>1
<1> QED
  BY <1>5, <1>6, <1>7, <1>8 DEF Inserted, c, k

\* Blocks put into the list.
LEMMA JoinMoves ==
  ASSUME Types, NEW l, IsList(next, prev, held, num, l), NEW m \in Lists(held),
         NEW k, k = l \o m \/ k = m \o l, Chain(next', prev', k),
         num' = num + Len(m), held' = held \ Range(m)
  PROVE  IsList(next', prev', held', num', k) /\ held' \subseteq Blocks
<1>1. /\ l \in FreeLists /\ Range(l) = Blocks \ held /\ Len(l) = num /\ Len(l) \in Nat
      /\ m \in FreeLists /\ Len(m) \in Nat /\ Range(m) \subseteq held /\ held \subseteq Blocks
  BY BlockListFacts, ListFacts DEF IsList, Lists, Types
<1>2. Range(l) \cap Range(m) = {}
  BY <1>1
<1>3. k \in FreeLists /\ Len(k) = Len(l) + Len(m) /\ Range(k) = Range(l) \cup Range(m)
  <2>1. CASE k = l \o m
    BY <1>1, <1>2, <2>1, JoinLists DEF Joined
  <2>2. CASE k = m \o l
    <3>1. Range(m) \cap Range(l) = {}
      BY <1>2
    <3>2. /\ k \in FreeLists /\ Len(k) = Len(m) + Len(l) /\ Range(k) = Range(m) \cup Range(l)
      BY <1>1, <2>2, <3>1, JoinLists DEF Joined
    <3> QED
      BY <1>1, <3>2
  <2> QED
    BY <2>1, <2>2
<1>4. Range(k) = Blocks \ held' /\ held' \subseteq Blocks
  BY <1>1, <1>3
<1>5. Len(k) = num'
  BY <1>1, <1>3
<1> QED
  BY <1>3, <1>4, <1>5 DEF IsList
LEMMA TailLink ==
  ASSUME NEW l \in FreeLists, Chain(next, prev, l)
  PROVE  prev[FakeTail] = At(l, Len(l)) /\ At(l, Len(l)) \in Nodes
<1>1. Len(l) \in 0..Len(l) /\ Len(l) \in 0..(Len(l) + 1)
  BY ListFacts
<1>2. prev[At(l, Len(l) + 1)] = At(l, Len(l))
  BY <1>1 DEF Chain
<1> QED
  BY <1>1, <1>2, AtFacts

LEMMA PrependNMoves ==
  ASSUME Types, NEW l, IsList(next, prev, held, num, l), PrependN
  PROVE  Moves(l)
<1>1. /\ l \in FreeLists /\ Chain(next, prev, l) /\ Len(l) = num /\ Len(l) \in Nat
      /\ Range(l) = Blocks \ held /\ held \subseteq Blocks
  BY ListFacts DEF IsList, Types
<1>2. PICK m \in Lists(held) :
        /\ Splice(<<FakeHead>> \o m \o <<next[FakeHead]>>)
        /\ num' = num + Len(m) /\ held' = held \ Range(m) /\ call' = <<"prepend", m>>
  BY DEF PrependN
<1>3. m \in FreeLists /\ Len(m) \in Nat /\ Range(l) \cap Range(m) = {}
      /\ held = Blocks \ Range(l)
  BY <1>1, BlockListFacts, ListFacts DEF Lists
<1>4. next[FakeHead] = At(l, 1) /\ At(l, 1) \in Nodes
  <2>1. 0 \in 0..Len(l) /\ 0 + 1 = 1 /\ 1 \in 0..(Len(l) + 1)
    BY <1>1
  <2>2. next[At(l, 0)] = At(l, 0 + 1)
    BY <1>1, <2>1 DEF Chain
  <2> QED
    BY <1>1, <2>1, <2>2, AtFacts
<1> DEFINE c == Around(FakeHead, m, At(l, 1))
           k == m \o l
<1>5. Splice(c) /\ c \in Seq(Nodes) /\ Len(c) = Len(m) + 2
  BY <1>2, <1>3, <1>4, AroundFacts, NodeFacts DEF Around
<1>6. Inserted(l, k, 0, Len(m), c)
  BY <1>1, <1>3, PrependInserts
<1>7. k \in FreeLists
  <2>1. Range(m) \cap Range(l) = {}
    BY <1>3
  <2>2. Joined(m, l, k)
    BY <1>1, <1>3, <2>1, JoinLists
  <2> QED
    BY <2>2 DEF Joined
<1> HIDE DEF c
<1>8. next' \in LinkMaps /\ prev' \in LinkMaps /\ Chain(next', prev', k)
  <2>1. 0 \in 0..Len(l)
    BY <1>1
  <2> HIDE DEF k
  <2> QED
    BY <1>1, <1>3, <1>5, <1>6, <1>7, <2>1, SpliceComes DEF Types
<1>9. IsList(next', prev', held', num', k) /\ held' \subseteq Blocks
  BY <1>2, <1>8, JoinMoves
<1>10. Discards(l, k)
  BY <1>2, <1>3 DEF Discards
<1>11. call' \in Calls \X FreeLists
  BY <1>2, <1>3 DEF Calls
<1> QED
  BY <1>8, <1>9, <1>10, <1>11 DEF Moves, Types, OrderStep

LEMMA AppendNMoves ==
  ASSUME Types, NEW l, IsList(next, prev, held, num, l), AppendN
  PROVE  Moves(l)
<1>1. /\ l \in FreeLists /\ Chain(next, prev, l) /\ Len(l) = num /\ Len(l) \in Nat
      /\ Range(l) = Blocks \ held /\ held \subseteq Blocks
  BY ListFacts DEF IsList, Types
<1>2. PICK m \in Lists(held) :
        /\ Splice(<<prev[FakeTail]>> \o m \o <<FakeTail>>)
        /\ num' = num + Len(m) /\ held' = held \ Range(m) /\ call' = <<"append", m>>
  BY DEF AppendN
<1>3. m \in FreeLists /\ Len(m) \in Nat /\ Range(l) \cap Range(m) = {}
      /\ held = Blocks \ Range(l)
  BY <1>1, BlockListFacts, ListFacts DEF Lists
<1>4. prev[FakeTail] = At(l, Len(l)) /\ At(l, Len(l)) \in Nodes
  BY <1>1, TailLink
<1> DEFINE c == Around(At(l, Len(l)), m, FakeTail)
           k == l \o m
<1>5. Splice(c) /\ c \in Seq(Nodes) /\ Len(c) = Len(m) + 2
  BY <1>2, <1>3, <1>4, AroundFacts, NodeFacts DEF Around
<1>6. Inserted(l, k, Len(l), Len(m), c)
  BY <1>1, <1>3, AppendInserts
<1>7. k \in FreeLists
  <2>1. Joined(l, m, k)
    BY <1>1, <1>3, JoinLists
  <2> QED
    BY <2>1 DEF Joined
<1> HIDE DEF c
<1>8. next' \in LinkMaps /\ prev' \in LinkMaps /\ Chain(next', prev', k)
  <2>1. Len(l) \in 0..Len(l)
    BY <1>1
  <2> HIDE DEF k
  <2> QED
    BY <1>1, <1>3, <1>5, <1>6, <1>7, <2>1, SpliceComes DEF Types
<1>9. IsList(next', prev', held', num', k) /\ held' \subseteq Blocks
  BY <1>2, <1>8, JoinMoves
<1>10. Retires(l, k)
  BY <1>2, <1>3 DEF Retires
<1>11. call' \in Calls \X FreeLists
  BY <1>2, <1>3 DEF Calls
<1> QED
  BY <1>8, <1>9, <1>10, <1>11 DEF Moves, Types, OrderStep

LEMMA Append1Moves ==
  ASSUME Types, NEW l, IsList(next, prev, held, num, l), Append1
  PROVE  Moves(l)
<1>1. /\ l \in FreeLists /\ Chain(next, prev, l) /\ Len(l) = num /\ Len(l) \in Nat
      /\ Range(l) = Blocks \ held /\ held \subseteq Blocks
      /\ next \in LinkMaps /\ prev \in LinkMaps
  BY ListFacts DEF IsList, Types
<1>2. PICK b \in held :
        /\ next' = [next EXCEPT ![prev[FakeTail]] = b, ![b] = FakeTail]
        /\ prev' = [prev EXCEPT ![b] = prev[FakeTail], ![FakeTail] = b]
        /\ num' = num + 1 /\ held' = held \ {b} /\ call' = <<"append", <<b>>>>
  BY DEF Append1
<1> DEFINE m == <<b>>
           last == At(l, Len(l))
           c == Around(last, m, FakeTail)
           k == l \o m
<1>3. /\ b \in Blocks /\ m \in FreeLists /\ m \in BlockLists /\ Len(m) = 1 /\ Range(m) = {b}
      /\ m[1] = b /\ Range(l) \cap Range(m) = {} /\ held = Blocks \ Range(l) /\ m \in Lists(held)
  BY <1>1, <1>2, OneBlock DEF Lists
<1> HIDE DEF m
<1>4. prev[FakeTail] = last /\ last \in Nodes
  BY <1>1, TailLink
<1>5. c[1] = last /\ c[2] = b /\ c[3] = FakeTail
  <2>1. /\ c[1] = last /\ c[Len(m) + 2] = FakeTail
        /\ \A i \in 2..(Len(m) + 1) : c[i] = m[i - 1]
    <3>1. m \in FreeLists /\ last \in Nodes /\ FakeTail \in Nodes
      BY <1>3, <1>4, NodeFacts
    <3> HIDE DEF last
    <3> QED
      BY <3>1, AroundFacts
  <2> HIDE DEF c, last
  <2> QED
    BY <1>3, <2>1
<1>6. Inserted(l, k, Len(l), 1, c)
  <2>1. l \in FreeLists /\ m \in FreeLists /\ Range(l) \cap Range(m) = {}
    BY <1>1, <1>3
  <2>2. Inserted(l, k, Len(l), Len(m), c)
    BY <2>1, AppendInserts
  <2> HIDE DEF c, k
  <2> QED
    BY <1>3, <2>2
<1>7. k \in FreeLists
  <2>1. Joined(l, m, k)
    BY <1>1, <1>3, JoinLists
  <2> QED
    BY <2>1 DEF Joined
<1> HIDE DEF c, k
\* b and FakeTail are not among the places before the last.
<1>8. /\ \A i \in 0..Len(l) : At(l, i) # b /\ At(l, i) # FakeTail /\ At(l, i) \in Nodes
      /\ \A i, j \in 0..Len(l) : At(l, i) = At(l, j) => i = j
      /\ Len(l) \in 0..Len(l)
  <2>1. \A i \in 0..Len(l) : /\ i \in 0..(Len(l) + 1) /\ i # Len(l) + 1
                             /\ Len(l) + 1 \in 0..(Len(l) + 1) /\ (i = 0 \/ i \in 1..Len(l))
    BY <1>1
  <2>2. \A i \in 1..Len(l) : At(l, i) \in Range(l)
    BY <1>1, AtFacts, ListFacts
  <2>3. b \notin Range(l)
    BY <1>1, <1>2
  <2> QED
    BY <1>1, <1>3, <2>1, <2>2, <2>3, AtFacts, NodeFacts
<1>9. /\ next' = [next EXCEPT ![last] = b, ![b] = FakeTail]
      /\ prev' = [prev EXCEPT ![b] = last, ![FakeTail] = b]
      /\ last # b /\ last # FakeTail /\ b # FakeTail /\ b \in Nodes /\ FakeTail \in Nodes
  BY <1>2, <1>3, <1>4, <1>8, NodeFacts
<1>10. next' \in LinkMaps /\ prev' \in LinkMaps
  BY <1>1, <1>4, <1>9 DEF LinkMaps
<1>11. Relinked(next, prev, next', prev', l, Len(l), 1, c)
  <2>1. next'[last] = b /\ next'[b] = FakeTail /\ prev'[b] = last /\ prev'[FakeTail] = b
    BY <1>1, <1>4, <1>9 DEF LinkMaps
  <2>2. ASSUME NEW j \in 1..(1 + 1) PROVE next'[c[j]] = c[j + 1] /\ prev'[c[j + 1]] = c[j]
    <3>1. j = 1 \/ j = 2
      OBVIOUS
    <3> QED
      BY <1>5, <2>1, <3>1
  <2>3. ASSUME NEW i \in 0..Len(l), i # Len(l)
        PROVE  /\ next'[At(l, i)] = next[At(l, i)]
               /\ prev'[At(l, i + 1)] = prev[At(l, i + 1)]
    <3>1. i + 1 \in 0..Len(l)
      BY <1>1, <2>3
    <3>2. At(l, i) # last
      BY <1>8, <2>3
    <3>3. /\ At(l, i) \in Nodes /\ At(l, i) # b
          /\ At(l, i + 1) \in Nodes /\ At(l, i + 1) # b /\ At(l, i + 1) # FakeTail
      BY <1>8, <3>1
    <3> HIDE DEF last
    <3> QED
      BY <1>1, <1>9, <3>2, <3>3 DEF LinkMaps
  <2> QED
    BY <2>2, <2>3 DEF Relinked
<1>12. Chain(next', prev', k)
  BY <1>1, <1>6, <1>7, <1>8, <1>11, SegmentComes
<1>13. IsList(next', prev', held', num', k) /\ held' \subseteq Blocks
  <2>1. num' = num + Len(m) /\ held' = held \ Range(m)
    BY <1>2, <1>3
  <2> QED
    BY <1>3, <1>12, <2>1, JoinMoves DEF k
<1>14. Retires(l, k)
  BY <1>2, <1>3 DEF Retires, k, m
<1>15. call' \in Calls \X FreeLists
  BY <1>2, <1>3 DEF Calls, m
<1> QED
  BY <1>10, <1>13, <1>14, <1>15 DEF Moves, Types, OrderStep

-----------------------------------------------------------------------------
(* The invariant, and the properties *)

ListInv == Types /\ \E l : IsList(next, prev, held, num, l)

LEMMA InitList ==
  ASSUME Init
  PROVE  /\ Types
         /\ IsList(next, prev, held, num, [i \in Blocks |-> i])
         /\ [i \in Blocks |-> i] \in FreeLists
<1> DEFINE l == [i \in Blocks |-> i]
<1>1. l \in [1..NumBlocks -> Blocks] /\ NumBlocks \in Nat
  BY DEF Blocks
<1>2. l \in Seq(Blocks)
  BY <1>1, SeqDef
<1>3. Len(l) = NumBlocks /\ \A i \in 1..NumBlocks : l[i] = i
  BY <1>1, <1>2, LenProperties DEF Blocks
<1> HIDE DEF l
<1>4. l \in FreeLists
  BY <1>2, <1>3, IsFreeList
<1>5. Range(l) = Blocks
  <2>1. Range(l) = {l[i] : i \in 1..Len(l)}
    BY <1>4, ListFacts
  <2> QED
    BY <1>3, <2>1 DEF Blocks
<1>6. \A i \in 0..(NumBlocks + 1) : At(l, i) = i
  <2> TAKE i \in 0..(NumBlocks + 1)
  <2>1. i = 0 \/ i \in 1..NumBlocks \/ i = NumBlocks + 1
    BY <1>1
  <2> QED
    BY <1>3, <1>4, <2>1, AtFacts DEF FakeHead, FakeTail
<1>7. Chain(next, prev, l)
  <2> SUFFICES ASSUME NEW i \in 0..NumBlocks
               PROVE  next[At(l, i)] = At(l, i + 1) /\ prev[At(l, i + 1)] = At(l, i)
    BY <1>3 DEF Chain
  <2>1. /\ i \in 0..(NumBlocks + 1) /\ i + 1 \in 0..(NumBlocks + 1)
        /\ i # NumBlocks + 1 /\ (i + 1) - 1 = i
    BY <1>1
  <2>2. At(l, i) = i /\ At(l, i + 1) = i + 1
    BY <1>6, <2>1
  <2>3. next[i] = i + 1 /\ prev[i + 1] = (i + 1) - 1
    BY <2>1 DEF Init, Nodes, FakeTail
  <2> QED
    BY <2>1, <2>2, <2>3
<1>8. held = {} /\ num = NumBlocks /\ call = <<"init", << >>>> /\ << >> \in FreeLists
  BY DEF Init, FreeLists
<1>9. next \in LinkMaps /\ prev \in LinkMaps
  <2>1. \A x \in Nodes : x # NumBlocks + 1 => x + 1 \in Nodes
    BY DEF Nodes
  <2>2. \A x \in Nodes : x - 1 \in Nodes \cup {None}
    BY DEF Nodes, None
  <2> QED
    BY <2>1, <2>2 DEF Init, LinkMaps, FakeTail
<1>10. Types
  BY <1>8, <1>9 DEF Types, Calls
<1> QED
  BY <1>3, <1>4, <1>5, <1>7, <1>8, <1>10 DEF IsList, l

LEMMA ListStep ==
  ASSUME Types, NEW l, IsList(next, prev, held, num, l), Next
  PROVE  Moves(l)
BY PopleftMoves, PopleftNMoves, RemoveMoves, Append1Moves, PrependNMoves, AppendNMoves DEF Next

LEMMA ListInvariant == Spec => []ListInv
<1>1. Init => ListInv
  BY InitList DEF ListInv
<1>2. ListInv /\ [Next]_vars => ListInv'
  <2> SUFFICES ASSUME ListInv, [Next]_vars PROVE ListInv'
    OBVIOUS
  <2>1. PICK l : IsList(next, prev, held, num, l)
    BY DEF ListInv
  <2>2. CASE Next
    <3>1. Moves(l)
      BY <2>1, <2>2, ListStep DEF ListInv
    <3> QED
      BY <3>1 DEF Moves, ListInv
  <2>3. CASE UNCHANGED vars
    BY <2>1, <2>3 DEF ListInv, Types, IsList, vars
  <2> QED
    BY <2>2, <2>3
<1> QED
  BY <1>1, <1>2, PTL DEF Spec

LEMMA ListInvTypes == ListInv => TypeOK /\ ListSound
<1> SUFFICES ASSUME ListInv PROVE TypeOK /\ ListSound
  OBVIOUS
<1>1. PICK l : IsList(next, prev, held, num, l)
  BY DEF ListInv
<1>2. /\ l \in FreeLists /\ Chain(next, prev, l) /\ Range(l) = Blocks \ held /\ Len(l) = num
      /\ Len(l) \in 0..NumBlocks
  BY <1>1, ListFacts DEF IsList
<1>3. ListSound
  BY <1>2 DEF ListSound, Represents, Chain
<1>4. TypeOK
  BY <1>2 DEF ListInv, Types, TypeOK, LinkMaps, Calls, FreeLists
<1> QED
  BY <1>3, <1>4

\* Every variable keeps its type under every sequence of calls.
THEOREM TypeCorrect == Spec => []TypeOK
BY ListInvariant, ListInvTypes, PTL

\* Whatever the block pool calls and in whatever order, the forward and the
\* backward links are one list of exactly the blocks nobody holds, and the
\* counter is its length.
THEOREM LinksAreOneList == Spec => []ListSound
BY ListInvariant, ListInvTypes, PTL

LEMMA ListInvNeverRaises == ListInv => NeverRaises
<1> SUFFICES ASSUME ListInv PROVE NeverRaises
  OBVIOUS
<1>1. PICK l : IsList(next, prev, held, num, l)
  BY DEF ListInv
<1>2. /\ l \in FreeLists /\ Chain(next, prev, l) /\ Range(l) = Blocks \ held /\ Len(l) = num
      /\ Len(l) \in Nat
  BY <1>1, ListFacts DEF IsList
<1> DEFINE n == Len(l)
<1>3. \A i \in 0..n : next[At(l, i)] = At(l, i + 1) /\ prev[At(l, i + 1)] = At(l, i)
  BY <1>2 DEF Chain
<1>4. \A i \in 0..(n + 1) : At(l, i) \in Nodes /\ At(l, i) # None
  BY <1>2, AtFacts, NodeFacts
<1>5. 0 \in 0..n /\ n \in 0..n /\ 0 + 1 \in 0..(n + 1) /\ n + 1 \in 0..(n + 1)
  BY <1>2
<1>6. next[FakeHead] = At(l, 1) /\ prev[FakeTail] = At(l, n) /\ At(l, 1) # None /\ At(l, n) # None
  <2>1. At(l, 0) = FakeHead /\ At(l, n + 1) = FakeTail /\ 0 + 1 = 1 /\ n \in 0..(n + 1)
    BY <1>2, AtFacts
  <2> HIDE DEF n
  <2> QED
    BY <1>3, <1>4, <1>5, <2>1
<1>7. At(l, 1) = FakeTail <=> n = 0
  <2>1. At(l, n + 1) = FakeTail /\ \A i, j \in 0..(n + 1) : At(l, i) = At(l, j) => i = j
    BY <1>2, AtFacts
  <2>2. 1 \in 0..(n + 1) /\ (1 = n + 1 <=> n = 0)
    BY <1>2
  <2> HIDE DEF n
  <2> QED
    BY <1>5, <2>1, <2>2
<1>8. ASSUME NEW b \in Blocks \ held PROVE prev[b] # None /\ next[b] # None
  <2>1. PICK i \in 1..n : l[i] = b
    BY <1>2, ListFacts
  <2>2. At(l, i) = b
    BY <1>2, <2>1, AtFacts
  <2>3. i \in 0..n /\ i - 1 \in 0..n /\ (i - 1) + 1 = i /\ i + 1 \in 0..(n + 1)
        /\ i - 1 \in 0..(n + 1)
    BY <1>2
  <2> HIDE DEF n
  <2> QED
    BY <1>3, <1>4, <2>2, <2>3
<1> QED
  BY <1>2, <1>6, <1>7, <1>8 DEF NeverRaises

\* However the calls follow one another, none of the errors the code raises
\* on a free list that disagrees with its counter can be raised.
THEOREM RaisesNothing == Spec => []NeverRaises
BY ListInvariant, ListInvNeverRaises, PTL
-----------------------------------------------------------------------------
(* The refinement *)

\* The list that the links make, and the abstract list it stands for.
Threaded(nx, pv) == CHOOSE l \in FreeLists : Chain(nx, pv, l)

LEMMA ThreadedList ==
  ASSUME NEW nx, NEW pv, NEW h, NEW n, NEW l, IsList(nx, pv, h, n, l)
  PROVE  Threaded(nx, pv) = l
<1>1. l \in FreeLists /\ Chain(nx, pv, l)
  BY DEF IsList
<1>2. Threaded(nx, pv) \in FreeLists /\ Chain(nx, pv, Threaded(nx, pv))
  BY <1>1 DEF Threaded
<1> QED
  BY <1>1, <1>2, OneList

LEMMA FreeListThreaded ==
  FreeList = Threaded(next, prev) /\ FreeList' = Threaded(next', prev')
BY DEF FreeList, Threaded, Represents, Chain

LEMMA SameLists ==
  ASSUME NEW S
  PROVE  Order!Lists(S) = Lists(S)
<1>1. Order!BlockLists = BlockLists
  BY Zenon DEF Order!BlockLists, BlockLists, Order!Blocks, Blocks, Order!IsInjective, IsInjective
<1>2. \A l : Order!ToSet(l) = Range(l)
  BY DEF Order!ToSet, Range
<1> QED
  BY <1>1, <1>2 DEF Order!Lists, Lists

LEMMA OrderSteps ==
  ASSUME NEW l \in FreeLists, FreeList = l, OrderStep(l, FreeList')
  PROVE  Order!Next
<1>1. Order!ToSet(l) = Range(l) /\ Order!Blocks = Blocks
  BY DEF Order!ToSet, Range, Order!Blocks, Blocks
<1>2. CASE Allocates(l, FreeList')
  BY <1>2 DEF Allocates, Order!Allocate, Order!Next
<1>3. CASE Reclaims(l, FreeList')
  BY <1>3 DEF Reclaims, Order!Reclaim, Order!RemoveAt, Order!Next
<1>4. CASE Retires(l, FreeList')
  BY <1>1, <1>4, SameLists DEF Retires, Order!Retire, Order!Next
<1>5. CASE Discards(l, FreeList')
  BY <1>1, <1>5, SameLists DEF Discards, Order!Discard, Order!Next
<1> QED
  BY <1>2, <1>3, <1>4, <1>5 DEF OrderStep

\* Every sequence of calls on the linked list is a sequence of calls on the
\* abstract list of free blocks: blocks are handed out from the front in
\* order, whole lists are put back at either end in the order given, and a
\* hit takes out one block and leaves the order of the others.
THEOREM ImplementsOrder == Spec => OrderSpec
<1>1. Init => Order!Init
  <2> SUFFICES ASSUME Init PROVE Order!Init
    OBVIOUS
  <2>1. FreeList = [i \in Blocks |-> i]
    BY InitList, ThreadedList, FreeListThreaded
  <2> QED
    BY <2>1 DEF Init, Order!Init, Order!Blocks, Blocks
<1>2. ListInv /\ [Next]_vars => [Order!Next]_<<FreeList, call>>
  <2> SUFFICES ASSUME ListInv, [Next]_vars
               PROVE  Order!Next \/ (FreeList' = FreeList /\ call' = call)
    OBVIOUS
  <2>1. PICK l : IsList(next, prev, held, num, l)
    BY DEF ListInv
  <2>2. FreeList = l /\ l \in FreeLists
    BY <2>1, ThreadedList, FreeListThreaded DEF IsList
  <2>3. CASE Next
    <3>1. PICK k : IsList(next', prev', held', num', k) /\ OrderStep(l, k)
      BY <2>1, <2>3, ListStep DEF ListInv, Moves
    <3>2. FreeList' = k
      BY <3>1, ThreadedList, FreeListThreaded
    <3> QED
      BY <2>2, <3>1, <3>2, OrderSteps
  <2>4. CASE UNCHANGED vars
    BY <2>4, FreeListThreaded DEF vars
  <2> QED
    BY <2>3, <2>4
<1> QED
  BY <1>1, <1>2, ListInvariant, PTL DEF Spec, OrderSpec, Order!Spec
=============================================================================
