-------------------------- MODULE PrefixHitProofs ----------------------------
(***************************************************************************)
(* Proofs about PrefixHit, for every layout of attention groups, every     *)
(* block size, prompt length and lookahead the coordinator accepts, and    *)
(* any evictions.                                                          *)
(***************************************************************************)
EXTENDS PrefixHit, WellFoundedInduction, TLAPS

-----------------------------------------------------------------------------
(* Numbers *)

LessThan == {p \in Nat \X Nat : p[1] < p[2]}

LEMMA Greatest ==
  ASSUME NEW n \in Nat, NEW S \in SUBSET (0..n), S # {}
  PROVE  Max(S) \in S /\ \A x \in S : x <= Max(S)
<1> DEFINE D == {n - x : x \in S}
<1>1. D \in SUBSET Nat /\ D # {}
  <2>1. \A x \in S : x \in 0..n
    OBVIOUS
  <2>2. \A x \in 0..n : n - x \in Nat
    OBVIOUS
  <2> QED
    BY <2>1, <2>2
<1>2. IsWellFoundedOn(LessThan, Nat)
  BY NatLessThanWellFounded DEF OpToRel, LessThan
<1>3. PICK d \in D : \A e \in D : <<e, d>> \notin LessThan
  BY <1>1, <1>2, WFMin
<1>4. PICK x \in S : d = n - x
  OBVIOUS
<1>5. \A y \in S : x >= y
  <2> SUFFICES ASSUME NEW y \in S PROVE x >= y
    OBVIOUS
  <2>1. ~((n - y) < d)
    BY <1>1, <1>3 DEF LessThan
  <2> QED
    BY <1>4, <2>1
<1>6. Max(S) \in S /\ \A y \in S : Max(S) >= y
  BY <1>5 DEF Max
<1> QED
  BY <1>6

LEMMA Times ==
  ASSUME NEW b \in Nat \ {0}, NEW x \in Int, NEW y \in Int
  PROVE  /\ b * x \in Int
         /\ x < y => b * x + b <= b * y
         /\ x <= y => b * x <= b * y
<1>1. \A d \in Nat : b * d >= 0
  OBVIOUS
<1>2. \A d \in Nat : d > 0 => b * d >= b
  <2> SUFFICES ASSUME NEW d \in Nat, d > 0 PROVE b * d >= b
    OBVIOUS
  <2>1. d - 1 \in Nat /\ b * d = b * (d - 1) + b
    OBVIOUS
  <2> QED
    BY <1>1, <2>1
<1>3. b * y = b * x + b * (y - x) /\ b * x \in Int /\ b * y \in Int
  OBVIOUS
<1>4. CASE x < y
  <2>1. y - x \in Nat /\ y - x > 0
    BY <1>4
  <2> QED
    BY <1>2, <1>3, <2>1
<1>5. CASE x = y
  BY <1>5
<1> QED
  BY <1>3, <1>4, <1>5

LEMMA Quotient ==
  ASSUME NEW b \in Nat \ {0}, NEW a \in Nat
  PROVE  /\ a \div b \in Nat /\ b * (a \div b) <= a /\ a < b * (a \div b) + b
         /\ a % b = 0 => a = b * (a \div b)
<1>1. a \div b \in Int /\ (a \div b) * b <= a /\ a < (a \div b) * b + b
  OBVIOUS
<1>2. a % b = a - (a \div b) * b
  OBVIOUS
<1> DEFINE d == a \div b
<1>3. d * b = b * d
  BY <1>1
<1>4. d >= 0
  <2> SUFFICES ASSUME d < 0 PROVE FALSE
    BY <1>1
  <2>1. b * d + b <= b * 0
    BY <1>1, Times
  <2> QED
    BY <1>1, <1>3, <2>1
<1> QED
  BY <1>1, <1>2, <1>3, <1>4

LEMMA Below ==
  ASSUME NEW b \in Nat \ {0}, NEW a \in Nat, NEW q \in Nat
  PROVE  q <= a \div b <=> b * q <= a
<1> DEFINE d == a \div b
           m == b * d
           k == b * q
<1>1. d \in Nat /\ m <= a /\ a < m + b /\ m \in Int /\ k \in Int
  BY Quotient, Times
<1>2. (q <= d => k <= m) /\ (d < q => m + b <= k)
  BY <1>1, Times
<1> HIDE DEF d, m, k
<1>3. q <= d <=> k <= a
  BY <1>1, <1>2
<1> QED
  BY <1>3 DEF d, k

LEMMA Divides ==
  ASSUME NEW s \in Nat \ {0}, NEW b \in Nat \ {0}, s % b = 0
  PROVE  b <= s
<1> DEFINE d == s \div b
<1>1. d \in Nat /\ s = b * d
  BY Quotient
<1> HIDE DEF d
<1>2. d # 0
  BY <1>1
<1>3. b * 0 + b <= b * d
  BY <1>1, <1>2, Times
<1> QED
  BY <1>1, <1>3

LEMMA Coarser ==
  ASSUME NEW s \in Nat \ {0}, NEW b \in Nat \ {0}, s % b = 0, NEW p \in Nat, p % s = 0
  PROVE  p % b = 0
<1> DEFINE x == s \div b
           y == p \div s
<1>1. x \in Nat /\ y \in Nat /\ s = b * x /\ p = s * y
  BY Quotient
<1> HIDE DEF x, y
<1>2. p = (b * x) * y /\ (b * x) * y = b * (x * y)
  BY <1>1
<1>3. x * y \in Nat
  BY <1>1
<1>4. \A z \in Nat : p = b * z => p % b = 0
  OBVIOUS
<1> QED
  BY <1>2, <1>3, <1>4

\* Two lengths at multiples of s are at least b apart.
LEMMA Apart ==
  ASSUME NEW s \in Nat \ {0}, NEW b \in Nat \ {0}, s % b = 0,
         NEW p \in Nat, NEW q \in Nat, p % s = 0, q % s = 0, p < q
  PROVE  p + b <= q /\ p \div b + 1 <= q \div b
<1> DEFINE x == p \div b
           y == q \div b
<1>1. x \in Nat /\ y \in Nat /\ p = b * x /\ q = b * y
  <2>1. p % b = 0 /\ q % b = 0
    BY Coarser
  <2> QED
    BY <2>1, Quotient
<1> HIDE DEF x, y
<1>2. ~(y <= x)
  <2> SUFFICES ASSUME y <= x PROVE FALSE
    OBVIOUS
  <2>1. b * y <= b * x
    BY <1>1, Times
  <2> QED
    BY <1>1, <2>1
<1>3. x < y
  BY <1>1, <1>2
<1>4. b * x + b <= b * y
  BY <1>1, <1>3, Times
<1> QED
  BY <1>1, <1>3, <1>4 DEF x, y

\* The block above length p is one of the first t.
LEMMA NextFits ==
  ASSUME NEW b \in Nat \ {0}, NEW p \in Nat, NEW t \in Nat, p % b = 0
  PROVE  p \div b + 1 <= t \div b <=> p + b <= t
<1> DEFINE x == p \div b
<1>1. x \in Nat /\ p = b * x
  BY Quotient
<1> HIDE DEF x
<1>2. x + 1 \in Nat /\ b * (x + 1) = b * x + b
  BY <1>1
<1>3. x + 1 <= t \div b <=> b * (x + 1) <= t
  BY <1>2, Below
<1> QED
  BY <1>1, <1>2, <1>3 DEF x

LEMMA Monotone ==
  ASSUME NEW b \in Nat \ {0}, NEW p \in Nat, NEW t \in Nat, p <= t
  PROVE  p \div b <= t \div b
<1> DEFINE x == p \div b
<1>1. x \in Nat /\ b * x <= p /\ b * x \in Int
  BY Quotient, Times
<1> HIDE DEF x
<1>2. b * x <= t
  BY <1>1
<1>3. x <= t \div b
  BY <1>1, <1>2, Below
<1> QED
  BY <1>3 DEF x

LEMMA Rounded ==
  ASSUME NEW m \in Nat \ {0}, NEW n \in Nat
  PROVE  /\ RoundDown(n, m) \in Nat /\ RoundDown(n, m) <= n /\ RoundDown(n, m) % m = 0
         /\ n < RoundDown(n, m) + m
         /\ \A p \in Nat : p % m = 0 /\ p <= n => p <= RoundDown(n, m)
<1> DEFINE d == n \div m
           k == m * d
<1>1. d \in Nat /\ k <= n /\ n < k + m
  BY Quotient
<1>2. RoundDown(n, m) = d * m /\ d * m = k /\ k \in Nat
  BY <1>1 DEF RoundDown
<1>3. k % m = 0
  <2> HIDE DEF d
  <2>1. \A z \in Nat : z = m * d => z % m = 0
    BY <1>1
  <2> QED
    BY <1>2, <2>1
<1>4. ASSUME NEW p \in Nat, p % m = 0, p <= n PROVE p <= k
  <2>1. p \div m <= d
    BY <1>4, Monotone
  <2>2. p \div m \in Nat /\ p = m * (p \div m)
    BY <1>4, Quotient
  <2>3. m * (p \div m) <= m * d
    BY <1>1, <2>1, <2>2, Times
  <2> QED
    BY <2>2, <2>3
<1> HIDE DEF k
<1> QED
  BY <1>1, <1>2, <1>3, <1>4

-----------------------------------------------------------------------------
(* What one group accepts *)

USE LayoutAssumption

LEMMA GroupType ==
  ASSUME groups \in Layouts, NEW i \in Indices
  PROVE  /\ groups[i].block \in Nat \ {0} /\ groups[i].window \in Nat \ {0}
         /\ groups[i].kind \in {"full", "window", "mamba"} /\ groups[i].eagle \in BOOLEAN
         /\ SchedBlock % groups[i].block = 0 /\ groups[i].block <= SchedBlock
<1>1. groups \in Seq(Group) /\ SchedBlock % groups[i].block = 0
  BY DEF Indices
<1>2. groups[i] \in Group
  BY <1>1 DEF Indices
<1>3. /\ groups[i].block \in Nat \ {0} /\ groups[i].window \in Nat \ {0}
      /\ groups[i].kind \in {"full", "window", "mamba"} /\ groups[i].eagle \in BOOLEAN
  BY <1>2 DEF Group
<1>4. SchedBlock \in Nat \ {0}
  OBVIOUS
<1>5. groups[i].block <= SchedBlock
  BY <1>1, <1>3, <1>4, Divides
<1> QED
  BY <1>1, <1>3, <1>5

LEMMA FullFirst ==
  ASSUME groups \in Layouts, NEW i \in Indices, NEW j \in Indices,
         groups[i].kind = "full", groups[j].kind # "full"
  PROVE  i < j
<1>1. ~(j < i)
  BY DEF Indices
<1>2. i # j /\ i \in Int /\ j \in Int
  BY DEF Indices
<1> QED
  BY <1>1, <1>2

LEMMA AcceptsZero ==
  ASSUME groups \in Layouts, NEW i \in Indices, NEW max \in Nat, NEW drop
  PROVE  Accepts(i, 0, max, drop)
<1>1. groups[i].block \in Nat \ {0} /\ groups[i].kind \in {"full", "window", "mamba"}
  BY GroupType
<1>2. 0 \div groups[i].block = 0 /\ 0 % SchedBlock = 0
  BY <1>1
<1>3. Needs(groups[i], 0) = {}
  BY <1>1, <1>2 DEF Needs
<1> QED
  BY <1>2, <1>3 DEF Accepts

LEMMA AcceptsMore ==
  ASSUME groups \in Layouts, NEW i \in Indices, NEW p \in Nat, NEW max \in Nat, NEW more \in Nat,
         NEW drop, Accepts(i, p, max, drop), max <= more
  PROVE  Accepts(i, p, more, drop)
<1>1. groups[i].block \in Nat \ {0}
  BY GroupType
<1> QED
  BY <1>1 DEF Accepts

LEMMA AcceptsUndropped ==
  ASSUME NEW i, NEW p, NEW max, NEW drop, Accepts(i, p, max, drop)
  PROVE  Accepts(i, p, max, FALSE)
BY DEF Accepts

\* Full attention that can serve a length can serve every shorter one.
LEMMA FullClosed ==
  ASSUME groups \in Layouts, NEW i \in Indices, groups[i].kind = "full",
         NEW f \in Nat, NEW p \in Nat, NEW max \in Nat, NEW drop,
         Accepts(i, f, max, drop), p <= f, p % SchedBlock = 0
  PROVE  Accepts(i, p, max, drop)
<1> DEFINE b == groups[i].block
<1>1. b \in Nat \ {0} /\ SchedBlock % b = 0 /\ SchedBlock \in Nat \ {0}
  BY GroupType
<1>2. f % SchedBlock = 0 /\ f <= max /\ 1..(f \div b) \subseteq cached[i]
  BY DEF Accepts, Needs
<1>3. p \div b \in Nat /\ f \div b \in Nat /\ p \div b <= f \div b
  BY <1>1, Quotient, Monotone
<1>4. Needs(groups[i], p) \subseteq cached[i]
  <2>1. Needs(groups[i], p) = 1..(p \div b)
    BY DEF Needs
  <2> HIDE DEF b
  <2> QED
    BY <1>2, <1>3, <2>1
<1>5. CASE p = f
  BY <1>5
<1>6. CASE p < f
  <2>1. p + b <= f /\ p \div b + 1 <= f \div b
    BY <1>1, <1>2, <1>6, Apart
  <2>2. Above(groups[i], p) \subseteq {p \div b + 1}
    BY DEF Above
  <2>3. p \div b + 1 \in 1..(f \div b)
    BY <1>3, <2>1
  <2>4. Above(groups[i], p) \subseteq cached[i]
    BY <1>2, <2>2, <2>3
  <2> HIDE DEF b
  <2>5. p + b <= max
    BY <1>1, <1>2, <2>1
  <2> QED
    BY <1>2, <1>4, <1>6, <2>4, <2>5 DEF Accepts, b
<1> QED
  BY <1>5, <1>6

\* A lookup gives the greatest length at most the current one that the group
\* accepts: the margin of a drafter group is dropped again.
LEMMA LookUpGives ==
  ASSUME groups \in Layouts, NEW i \in Indices, limit \in Nat, cur \in Nat, cur <= limit,
         NEW drop \in BOOLEAN, NEW new, new = Find(i, Reach(i, drop), drop)
  PROVE  /\ new \in Nat /\ new <= cur /\ new % SchedBlock = 0
         /\ Accepts(i, new, limit, drop)
         /\ \A p \in Nat : p <= cur /\ Accepts(i, p, limit, drop) => p <= new
<1> DEFINE b == groups[i].block
           top == Reach(i, drop)
           S == {p \in 0..top : Accepts(i, p, top, drop)}
<1>1. b \in Nat \ {0}
  BY GroupType
<1>2. top \in Nat /\ top <= limit /\ cur <= top
  BY <1>1 DEF Reach, Lesser
<1>3. drop /\ groups[i].kind # "mamba" => top <= cur + b
  BY <1>1 DEF Reach, Lesser
<1>4. ~(drop /\ groups[i].kind # "mamba") => top = cur
  BY DEF Reach
<1>5. new = Max(S)
  BY DEF Find
<1> HIDE DEF top
<1>6. 0 \in S
  BY <1>2, AcceptsZero
<1>7. new \in S /\ \A p \in S : p <= new
  BY <1>2, <1>5, <1>6, Greatest
<1>8. new \in Nat /\ new <= top /\ Accepts(i, new, top, drop)
  BY <1>2, <1>7
<1>9. new <= cur
  <2>1. CASE drop /\ groups[i].kind # "mamba" /\ new > 0
    <3>1. new + b <= top
      BY <1>8, <2>1 DEF Accepts
    <3>2. top <= cur + b
      BY <1>3, <2>1
    <3>3. b \in Nat /\ top \in Nat /\ new \in Nat
      BY <1>1, <1>2, <1>8
    <3> HIDE DEF b
    <3> QED
      BY <3>1, <3>2, <3>3
  <2>2. CASE ~(drop /\ groups[i].kind # "mamba")
    BY <1>4, <1>8, <2>2
  <2>3. CASE new = 0
    BY <2>3
  <2> QED
    BY <1>8, <2>1, <2>2, <2>3
<1>10. ASSUME NEW p \in Nat, p <= cur, Accepts(i, p, limit, drop) PROVE p \in S
  <2>1. p \in 0..top
    BY <1>2, <1>10
  <2>2. drop /\ groups[i].kind # "mamba" /\ p > 0 => p + b <= top
    <3> SUFFICES ASSUME drop /\ groups[i].kind # "mamba" /\ p > 0 PROVE p + b <= top
      OBVIOUS
    <3>1. p + b <= limit
      BY <1>10 DEF Accepts
    <3>2. p + b <= cur + b
      BY <1>1, <1>10
    <3>3. top = limit \/ top = cur + b
      BY DEF top, Reach, Lesser
    <3> QED
      BY <3>1, <3>2, <3>3
  <2>3. p % SchedBlock = 0 /\ Needs(groups[i], p) \subseteq cached[i] /\ p <= top
    BY <1>10, <2>1 DEF Accepts
  <2>4. drop /\ groups[i].kind # "mamba" /\ p > 0 => Above(groups[i], p) \subseteq cached[i]
    BY <1>10 DEF Accepts
  <2> QED
    BY <2>1, <2>2, <2>3, <2>4 DEF Accepts
<1>11. Accepts(i, new, limit, drop) /\ new % SchedBlock = 0
  <2>1. Accepts(i, new, limit, drop)
    BY <1>2, <1>8, AcceptsMore
  <2> QED
    BY <2>1 DEF Accepts
<1> HIDE DEF S
<1> QED
  BY <1>7, <1>8, <1>9, <1>10, <1>11

-----------------------------------------------------------------------------
(* The search *)

TypeInv ==
  /\ groups \in Layouts /\ lookahead \in Lookaheads /\ retention \in Retentions
  /\ written \in 1..MaxTokens
  /\ cached \in [Indices -> SUBSET (Nat \ {0})] /\ evicted \in BOOLEAN
  /\ phase \in {"cache", "search", "done"} /\ idx \in 1..(Len(groups) + 1)
  /\ limit \in Nat /\ hit \in Nat /\ cur \in Nat
  /\ found \in [Indices -> Nat \cup {-1}] /\ verified \in SUBSET Indices
  /\ phase = "cache" => found = [i \in Indices |-> -1] /\ verified = {}

\* The group i, outside full attention, is the only such group of the drafter.
Alone(i) ==
  /\ groups[i].eagle /\ groups[i].kind # "full"
  /\ \A j \in Indices : groups[j].eagle /\ groups[j].kind # "full" => j = i

\* No slot below the length is one the end of the prefill may have polluted.
Clean(n) == n <= Greater(0, written - lookahead)

\* What an earlier lookup of group i says of the current length.
Visited(i) ==
  /\ cur <= found[i] /\ found[i] <= limit /\ cur % SchedBlock = 0
  /\ Accepts(i, found[i], limit, groups[i].eagle /\ groups[i].kind = "full")
  /\ groups[i].eagle /\ groups[i].kind # "mamba" => Clean(cur)
  /\ i \in verified /\ Alone(i) => Accepts(i, cur, limit, TRUE)

\* Group i has had its turn in this round: either it agrees with the current
\* length, or there will be another round.
Turned(i) ==
  /\ groups[i].kind # "full" =>
       /\ found[i] = cur \/ cur < hit
       /\ idx = i + 1 => found[i] = cur
  /\ Alone(i) =>
       /\ i \in verified \/ cur < hit
       /\ idx = i + 1 => i \in verified

Searching ==
  /\ cur <= hit /\ hit <= limit
  /\ idx = 1 => cur = hit
  /\ \A p \in 0..limit :
       (\A i \in Indices : Accepts(i, p, limit, groups[i].eagle)) => p <= cur
  /\ \A i \in Indices : found[i] # -1 => Visited(i)
  /\ \A i \in Indices : found[i] = -1 => idx <= i /\ i \notin verified
  /\ \A i, j \in Indices : i < j /\ found[j] # -1 => found[i] # -1
  /\ \A i \in Indices : i < idx => Turned(i)

\* What the earlier prompt registered, and what of it is kept.
Registered(i) == 1..(TokensToCache(groups[i], written, lookahead) \div groups[i].block)
Kept(i) ==
  IF retention = Dense THEN Registered(i)
  ELSE Registered(i) \cap Retained(groups[i], written)

Cached ==
  /\ \A i \in Indices : cached[i] \subseteq Registered(i)
  /\ ~evicted => \A i \in Indices : i < idx \/ phase # "cache" => cached[i] = Kept(i)
  /\ phase # "cache" => limit \in {written - 1, written + SchedBlock}

\* The greatest length looked up so far is one that some group has cached.
Furthest ==
  /\ longest \in Nat
  /\ phase = "cache" => longest = 0
  /\ phase = "search" => \A i \in Indices : found[i] <= longest
  /\ longest > 0 => \E i \in Indices : Accepts(i, longest, limit, FALSE)

IInv ==
  /\ TypeInv /\ Cached /\ Furthest
  /\ phase = "search" => Searching
  /\ HitIsLongest /\ ListsCoverHit /\ NoPollutedSlot

LEMMA Ranges ==
  ASSUME TypeInv
  PROVE  /\ SchedBlock \in Nat \ {0} /\ lookahead \in Nat /\ lookahead <= SchedBlock
         /\ written \in Nat /\ written > 0 /\ written <= MaxTokens /\ MaxTokens \in Nat
         /\ Len(groups) \in Nat \ {0} /\ Indices = 1..Len(groups)
         /\ idx \in Nat \ {0} /\ idx <= Len(groups) + 1
<1>1. groups \in Seq(Group) /\ groups # << >>
  BY DEF TypeInv
<1>2. Len(groups) \in Nat \ {0}
  BY <1>1
<1>3. lookahead \in Nat /\ lookahead <= SchedBlock /\ SchedBlock \in Nat \ {0} /\ MaxTokens \in Nat
  BY DEF TypeInv
<1>4. written \in 1..MaxTokens /\ idx \in 1..(Len(groups) + 1)
  BY DEF TypeInv
<1> QED
  BY <1>2, <1>3, <1>4 DEF Indices

\* How much is registered, at most, and in a drafter group never what may be
\* prefilled again.
LEMMA Tokens ==
  ASSUME TypeInv, NEW i \in Indices, NEW t, t = TokensToCache(groups[i], written, lookahead)
  PROVE  /\ t \in Nat /\ t <= written
         /\ groups[i].eagle /\ t > 0 => t <= Greater(0, written - Reprefillable(lookahead))
<1> DEFINE g == groups[i]
           final == Greater(0, written - Reprefillable(lookahead))
<1>1. g.block \in Nat \ {0} /\ g.eagle \in BOOLEAN
  BY GroupType DEF TypeInv
<1>2. SchedBlock \in Nat \ {0} /\ lookahead \in Nat /\ written \in Nat
  BY Ranges
<1>3. final \in Nat /\ final <= written
  <2>1. Reprefillable(lookahead) \in Nat
    BY <1>2 DEF Reprefillable, Greater
  <2> HIDE DEF Reprefillable
  <2> QED
    BY <1>2, <2>1 DEF Greater
<1> HIDE DEF final
<1>4. RoundDown(written, SchedBlock) \in Nat /\ RoundDown(written, SchedBlock) <= written
  BY <1>2, Rounded
<1>5. written < SchedBlock => RoundDown(written, SchedBlock) = 0
  <2> SUFFICES ASSUME written < SchedBlock PROVE RoundDown(written, SchedBlock) = 0
    OBVIOUS
  <2> DEFINE d == written \div SchedBlock
  <2>1. d \in Nat /\ SchedBlock * d <= written
    BY <1>2, Quotient
  <2> HIDE DEF d
  <2>2. d = 0
    <3> SUFFICES ASSUME d # 0 PROVE FALSE
      OBVIOUS
    <3>1. SchedBlock * 0 + SchedBlock <= SchedBlock * d /\ SchedBlock * d \in Int
      BY <1>2, <2>1, Times
    <3> QED
      BY <1>2, <2>1, <3>1
  <2>3. RoundDown(written, SchedBlock) = d * SchedBlock
    BY DEF RoundDown, d
  <2> QED
    BY <1>2, <2>2, <2>3
<1>6. CASE g.eagle /\ written >= SchedBlock
  <2>1. t = Lesser(final, RoundDown(final, SchedBlock) + g.block)
    BY <1>6 DEF TokensToCache, final
  <2>2. RoundDown(final, SchedBlock) \in Nat
    BY <1>2, <1>3, Rounded
  <2>3. t \in Nat /\ t <= final
    BY <1>1, <1>3, <2>1, <2>2 DEF Lesser
  <2> QED
    BY <1>2, <1>3, <2>3 DEF final
<1>7. CASE ~(g.eagle /\ written >= SchedBlock)
  <2>1. t = RoundDown(written, SchedBlock)
    BY <1>7 DEF TokensToCache
  <2>2. g.eagle => t = 0
    BY <1>2, <1>5, <1>7, <2>1
  <2> QED
    BY <1>4, <2>1, <2>2
<1> QED
  BY <1>6, <1>7

\* Where the block above a length is matched in a drafter group, the length is
\* short of every slot that may be polluted.
LEMMA DropIsClean ==
  ASSUME TypeInv, Cached, NEW i \in Indices, groups[i].eagle, groups[i].kind # "mamba",
         NEW p \in Nat, NEW max \in Nat, Accepts(i, p, max, TRUE)
  PROVE  Clean(p)
<1> DEFINE b == groups[i].block
           t == TokensToCache(groups[i], written, lookahead)
<1>1. b \in Nat \ {0} /\ SchedBlock % b = 0
  BY GroupType DEF TypeInv
<1>2. SchedBlock \in Nat \ {0} /\ lookahead \in Nat /\ written \in Nat
  BY Ranges
<1>3. t \in Nat /\ (t > 0 => t <= Greater(0, written - Reprefillable(lookahead)))
  BY Tokens
<1>4. CASE p = 0
  BY <1>2, <1>4 DEF Clean, Greater
<1>5. CASE p > 0
  <2>1. p \div b + 1 \in cached[i] /\ p % SchedBlock = 0
    BY <1>5 DEF Accepts, Above
  <2>2. cached[i] \subseteq 1..(t \div b)
    BY DEF Cached, Registered
  <2> HIDE DEF b, t
  <2>3. p % b = 0
    BY <1>1, <1>2, <2>1, Coarser
  <2>4. p \div b + 1 \in 1..(t \div b)
    BY <2>1, <2>2
  <2>5. p \div b + 1 <= t \div b
    BY <2>4
  <2>6. p + b <= t
    BY <1>1, <1>3, <2>3, <2>5, NextFits
  <2>7. p + 1 <= Greater(0, written - Reprefillable(lookahead))
    <3>1. Greater(0, written - Reprefillable(lookahead)) \in Int
      BY <1>2 DEF Greater, Reprefillable
    <3>2. t > 0
      BY <1>1, <1>3, <2>6
    <3> QED
      BY <1>1, <1>3, <2>6, <3>1, <3>2
  <2> QED
    BY <1>2, <2>7, <1>5 DEF Clean, Greater, Reprefillable
<1> QED
  BY <1>4, <1>5

LEMMA InitInv == Init => IInv
<1> SUFFICES ASSUME Init PROVE IInv
  OBVIOUS
<1>1. /\ groups \in Layouts /\ lookahead \in Lookaheads /\ retention \in Retentions
      /\ written \in 1..MaxTokens /\ cached = [i \in Indices |-> {}] /\ evicted = FALSE
      /\ phase = "cache" /\ idx = 1 /\ limit = 0 /\ hit = 0 /\ cur = 0 /\ longest = 0
      /\ found = [i \in Indices |-> -1] /\ verified = {}
  BY DEF Init
<1>2. Len(groups) \in Nat /\ 1 \in 1..(Len(groups) + 1)
  <2>1. groups \in Seq(Group)
    BY <1>1
  <2> QED
    BY <2>1
<1>3. TypeInv
  BY <1>1, <1>2 DEF TypeInv
<1>4. Cached
  <2>1. \A i \in Indices : cached[i] = {} /\ ~(i < idx)
    BY <1>1 DEF Indices
  <2> QED
    BY <1>1, <2>1 DEF Cached
<1> QED
  BY <1>1, <1>3, <1>4 DEF IInv, Furthest, HitIsLongest, ListsCoverHit, NoPollutedSlot

LEMMA TypeStep ==
  ASSUME TypeInv, phase = "search" => Searching, [Next]_vars
  PROVE  TypeInv'
<1> USE DEF bootVars, cacheVars, searchVars
<1>1. SchedBlock \in Nat \ {0} /\ written \in Nat /\ written > 0 /\ Len(groups) \in Nat \ {0}
      /\ Indices = 1..Len(groups) /\ idx \in Nat \ {0} /\ idx <= Len(groups) + 1
  BY Ranges
<1>2. CASE CacheBlocks
  <2>1. groups' = groups /\ cached' \in [Indices -> SUBSET (Nat \ {0})]
    <3> DEFINE reg == 1..(TokensToCache(groups[idx], written, lookahead) \div groups[idx].block)
    <3>1. reg \subseteq Nat \ {0}
      <4> DEFINE t == TokensToCache(groups[idx], written, lookahead)
      <4>1. t \in Nat /\ groups[idx].block \in Nat \ {0}
        BY <1>2, Tokens, GroupType DEF CacheBlocks, TypeInv
      <4> HIDE DEF t
      <4>2. t \div groups[idx].block \in Nat
        BY <4>1, Quotient
      <4> QED
        BY <4>2 DEF t
    <3> HIDE DEF reg
    <3>2. PICK X \in {reg, reg \cap Retained(groups[idx], written)} :
            cached' = [cached EXCEPT ![idx] = X]
      BY <1>2 DEF CacheBlocks, reg
    <3>3. cached \in [Indices -> SUBSET (Nat \ {0})] /\ X \in SUBSET (Nat \ {0})
      BY <3>1 DEF TypeInv
    <3> QED
      BY <1>2, <3>2, <3>3 DEF CacheBlocks
  <2>2. idx' \in 1..(Len(groups) + 1)
    BY <1>1, <1>2 DEF CacheBlocks
  <2> QED
    BY <1>2, <2>1, <2>2 DEF CacheBlocks, TypeInv, Indices
<1>3. ASSUME NEW i \in Indices, NEW b \in cached[i], Evict(i, b) PROVE TypeInv'
  <2>1. groups' = groups /\ cached' = [cached EXCEPT ![i] = @ \ {b}]
    BY <1>3 DEF Evict
  <2>2. cached' \in [Indices -> SUBSET (Nat \ {0})]
    BY <2>1 DEF TypeInv
  <2> QED
    BY <1>3, <2>2 DEF Evict, TypeInv, Indices
<1>4. ASSUME NEW max \in {written - 1, written + SchedBlock}, BeginSearch(max) PROVE TypeInv'
  <2>1. max \in Nat /\ 1 \in 1..(Len(groups) + 1)
    BY <1>1
  <2> QED
    BY <1>4, <2>1 DEF BeginSearch, TypeInv, Indices
<1>5. ASSUME NEW i \in Indices, Trim(i) PROVE TypeInv'
  <2>1. found[i] \in Nat /\ cur \in Nat
    BY <1>5 DEF Trim, TypeInv
  <2>2. cur' \in Nat /\ idx' \in 1..(Len(groups) + 1)
    BY <1>1, <1>5, <2>1 DEF Trim, Lesser
  <2> QED
    BY <1>5, <2>2 DEF Trim, TypeInv, Indices
<1>6. ASSUME NEW i \in Indices, LookUp(i) PROVE TypeInv'
  <2>1. PICK drop \in BOOLEAN : cur' = Find(i, Reach(i, drop), drop)
    <3>1. (groups[i].eagle /\ i \notin verified) \in BOOLEAN
      OBVIOUS
    <3> QED
      BY <1>6, <3>1 DEF LookUp
  <2>2. cur' \in Nat
    <3>1. limit \in Nat /\ cur \in Nat /\ hit \in Nat /\ groups \in Layouts
      BY DEF TypeInv
    <3>2. cur <= limit
      BY <1>6, <3>1 DEF Searching, LookUp
    <3> QED
      BY <2>1, <3>1, <3>2, LookUpGives
  <2>3. idx' \in 1..(Len(groups) + 1)
    BY <1>1, <1>6 DEF LookUp
  <2>4. found' = [found EXCEPT ![i] = cur']
    BY <1>6 DEF LookUp
  <2>5. found' \in [Indices -> Nat \cup {-1}]
    BY <2>2, <2>4 DEF TypeInv
  <2>6. verified' \in SUBSET Indices
    BY <1>6 DEF LookUp, TypeInv
  <2> QED
    BY <1>6, <2>2, <2>3, <2>5, <2>6 DEF LookUp, TypeInv, Indices
<1>7. CASE EndRound
  <2>1. hit' \in Nat /\ 1 \in 1..(Len(groups) + 1) /\ idx \in 1..(Len(groups) + 1)
    BY <1>1, <1>7 DEF EndRound, TypeInv, Lesser
  <2>2. found' \in [Indices -> Nat \cup {-1}]
    <3>1. found \in [Indices -> Nat \cup {-1}]
      BY DEF TypeInv
    <3>2. \/ found' = found
          \/ found' = [i \in Indices |-> IF Truncated(i) THEN hit' ELSE found[i]]
      BY <1>7 DEF EndRound
    <3> QED
      BY <2>1, <3>1, <3>2
  <2> QED
    BY <1>7, <2>1, <2>2 DEF EndRound, TypeInv, Indices
<1>8. CASE UNCHANGED vars
  BY <1>8 DEF vars, TypeInv, Indices
<1> QED
  BY <1>2, <1>3, <1>4, <1>5, <1>6, <1>7, <1>8 DEF Next

LEMMA CachedStep ==
  ASSUME TypeInv, Cached, [Next]_vars
  PROVE  Cached'
<1> USE DEF bootVars, cacheVars, searchVars
<1>1. /\ groups' = groups /\ lookahead' = lookahead /\ retention' = retention /\ written' = written
      /\ Indices' = Indices
  BY DEF Next, CacheBlocks, Evict, BeginSearch, Trim, LookUp, EndRound, vars, Indices
<1>2. \A i \in Indices : Registered(i)' = Registered(i) /\ Kept(i)' = Kept(i)
  BY <1>1 DEF Registered, Kept, TokensToCache, Retained, Segments
<1>3. cached \in [Indices -> SUBSET (Nat \ {0})] /\ Indices = 1..Len(groups) /\ Len(groups) \in Nat
  BY Ranges DEF TypeInv
<1>4. CASE CacheBlocks
  <2>1. phase = "cache" /\ phase' = phase /\ idx' = idx + 1 /\ evicted' = evicted /\ idx \in Indices
    BY <1>4 DEF CacheBlocks
  <2>2. cached' = [cached EXCEPT ![idx] = Kept(idx)]
    BY <1>4 DEF CacheBlocks, Kept, Registered
  <2>3. Kept(idx) \subseteq Registered(idx)
    BY DEF Kept
  <2>4. \A i \in Indices : cached'[i] = IF i = idx THEN Kept(i) ELSE cached[i]
    BY <1>3, <2>1, <2>2
  <2>5. \A i \in Indices : i < idx' => i < idx \/ i = idx
    BY <1>3, <2>1
  <2> QED
    BY <1>1, <1>2, <2>1, <2>3, <2>4, <2>5 DEF Cached
<1>5. ASSUME NEW i \in Indices, NEW b \in cached[i], Evict(i, b) PROVE Cached'
  <2>1. cached' = [cached EXCEPT ![i] = @ \ {b}] /\ evicted' /\ phase' = phase /\ phase = "cache"
    BY <1>5 DEF Evict
  <2>2. \A j \in Indices : cached'[j] \subseteq cached[j]
    BY <1>3, <2>1
  <2> QED
    BY <1>1, <1>2, <2>1, <2>2 DEF Cached
<1>6. ASSUME NEW max \in {written - 1, written + SchedBlock}, BeginSearch(max) PROVE Cached'
  <2>1. idx > Len(groups) /\ cached' = cached /\ evicted' = evicted /\ limit' = max /\ phase = "cache"
    BY <1>6 DEF BeginSearch
  <2>2. \A i \in Indices : i < idx
    BY <1>3, <2>1, Ranges
  <2> QED
    BY <1>1, <1>2, <2>1, <2>2 DEF Cached
<1>7. ASSUME phase # "cache", phase' # "cache", UNCHANGED <<cached, evicted, limit>> PROVE Cached'
  BY <1>1, <1>2, <1>7 DEF Cached
<1>8. ASSUME NEW i \in Indices, Trim(i) \/ LookUp(i) PROVE Cached'
  BY <1>7, <1>8 DEF Trim, LookUp
<1>9. CASE EndRound
  BY <1>7, <1>9 DEF EndRound
<1>10. CASE UNCHANGED vars
  BY <1>1, <1>2, <1>10 DEF Cached, vars
<1> QED
  BY <1>4, <1>5, <1>6, <1>8, <1>9, <1>10 DEF Next

LEMMA SameAccepts ==
  ASSUME groups' = groups, cached' = cached, NEW i, NEW p, NEW max, NEW drop
  PROVE  Accepts(i, p, max, drop)' <=> Accepts(i, p, max, drop)
BY DEF Accepts

LEMMA FurthestStep ==
  ASSUME TypeInv, phase = "search" => Searching, Furthest, [Next]_vars
  PROVE  Furthest'
<1> USE DEF bootVars, cacheVars, searchVars
<1>1. groups' = groups /\ Indices' = Indices
  BY DEF Next, CacheBlocks, Evict, BeginSearch, Trim, LookUp, EndRound, vars, Indices
<1>2. longest \in Nat /\ (longest > 0 => \E i \in Indices : Accepts(i, longest, limit, FALSE))
  BY DEF Furthest
<1>3. ASSUME phase = "cache", phase' = "cache", longest' = longest PROVE Furthest'
  BY <1>2, <1>3 DEF Furthest
<1>4. ASSUME NEW max \in {written - 1, written + SchedBlock}, BeginSearch(max) PROVE Furthest'
  <2>1. longest' = 0 /\ phase' = "search" /\ found' = [i \in Indices |-> -1]
    BY <1>4 DEF BeginSearch, Furthest, TypeInv
  <2>2. \A i \in Indices : found'[i] = -1
    BY <2>1
  <2> QED
    BY <1>1, <2>1, <2>2 DEF Furthest
<1>5. ASSUME phase = "search", phase' # "cache", longest' = longest, cached' = cached, limit' = limit,
             found' = found \/ phase' = "done"
      PROVE  Furthest'
  <2>1. longest > 0 => \E i \in Indices : Accepts(i, longest, limit, FALSE)'
    BY <1>1, <1>2, <1>5, SameAccepts
  <2>2. \A i \in Indices : found[i] <= longest
    BY <1>5 DEF Furthest
  <2> QED
    BY <1>1, <1>2, <1>5, <2>1, <2>2 DEF Furthest
<1>6. ASSUME NEW i \in Indices, LookUp(i) PROVE Furthest'
  <2> DEFINE drop == groups[i].eagle /\ i \notin verified
             new == Find(i, Reach(i, drop), drop)
  <2>1. /\ phase = "search" /\ phase' = phase /\ cached' = cached /\ limit' = limit
        /\ found' = [found EXCEPT ![i] = new] /\ longest' = Greater(longest, new)
    BY <1>6 DEF LookUp
  <2>2. /\ limit \in Nat /\ cur \in Nat /\ hit \in Nat /\ groups \in Layouts
        /\ found \in [Indices -> Nat \cup {-1}]
    BY DEF TypeInv
  <2>3. cur <= limit /\ drop \in BOOLEAN
    BY <2>1, <2>2 DEF Searching
  <2>4. new \in Nat /\ Accepts(i, new, limit, drop)
    BY <2>2, <2>3, LookUpGives
  <2>5. Accepts(i, new, limit, FALSE)
    BY <2>4, AcceptsUndropped
  <2> HIDE DEF new, drop
  <2>6. \A j \in Indices : found[j] <= longest
    BY <2>1 DEF Furthest
  <2>7. longest' \in Nat /\ longest <= longest' /\ new <= longest' /\ longest' \in {longest, new}
    BY <1>2, <2>1, <2>4 DEF Greater
  <2>8. \A j \in Indices : found'[j] <= longest'
    <3> SUFFICES ASSUME NEW j \in Indices PROVE found'[j] <= longest'
      OBVIOUS
    <3>1. found'[j] = IF j = i THEN new ELSE found[j]
      BY <2>1, <2>2
    <3>2. found[j] \in Int /\ found[j] <= longest
      BY <2>2, <2>6
    <3> QED
      BY <1>2, <2>4, <2>7, <3>1, <3>2
  <2>9. longest' > 0 => \E j \in Indices : Accepts(j, longest', limit, FALSE)
    BY <1>2, <2>5, <2>7
  <2>10. longest' > 0 => \E j \in Indices : Accepts(j, longest, limit, FALSE)'
    BY <1>1, <2>1, <2>9 DEF Accepts
  <2> QED
    BY <1>1, <2>1, <2>7, <2>8, <2>10 DEF Furthest
<1>7. CASE UNCHANGED vars
  <2>1. UNCHANGED <<longest, phase, found, cached, limit>>
    BY <1>7 DEF vars
  <2>2. longest > 0 => \E i \in Indices : Accepts(i, longest, limit, FALSE)'
    BY <1>1, <1>2, <2>1, SameAccepts
  <2> QED
    BY <1>1, <2>1, <2>2 DEF Furthest
<1>8. CacheBlocks \/ (\E i \in Indices : \E b \in cached[i] : Evict(i, b)) => Furthest'
  <2> SUFFICES ASSUME CacheBlocks \/ (\E i \in Indices : \E b \in cached[i] : Evict(i, b))
               PROVE  Furthest'
    OBVIOUS
  <2>1. phase = "cache" /\ phase' = phase /\ longest' = longest
    BY DEF CacheBlocks, Evict
  <2>2. longest = 0
    BY <2>1 DEF Furthest
  <2> QED
    BY <2>1, <2>2 DEF Furthest
<1>9. ASSUME NEW i \in Indices, Trim(i) PROVE Furthest'
  BY <1>5, <1>9 DEF Trim
<1>10. CASE EndRound
  BY <1>5, <1>10 DEF EndRound
<1> QED
  BY <1>4, <1>6, <1>7, <1>8, <1>9, <1>10 DEF Next

LEMMA Begins ==
  ASSUME TypeInv, NEW max \in Nat, BeginSearch(max)
  PROVE  Searching'
<1> USE DEF bootVars, cacheVars, searchVars
<1>1. /\ groups' = groups /\ Indices' = Indices /\ idx' = 1 /\ limit' = max /\ hit' = max /\ cur' = max
      /\ found' = [i \in Indices |-> -1] /\ verified' = {}
  BY DEF BeginSearch, TypeInv, Indices
<1>2. \A i \in Indices : ~(i < 1) /\ 1 <= i
  BY Ranges
<1>3. \A i \in Indices : found'[i] = -1
  BY <1>1
<1>4. max <= max /\ \A p \in 0..max : p <= max
  OBVIOUS
<1> QED
  BY <1>1, <1>2, <1>3, <1>4 DEF Searching

\* Full attention is looked up before the others, and what was found is not less
\* than the current length: trimming changes nothing.
LEMMA Trims ==
  ASSUME TypeInv, Searching, NEW i \in Indices, Trim(i)
  PROVE  Searching'
<1> USE DEF bootVars, cacheVars, searchVars
<1>1. /\ UNCHANGED <<groups, lookahead, written, cached, limit, hit, found, verified>>
      /\ idx = i /\ idx' = idx + 1 /\ found[i] # -1 /\ groups[i].kind = "full" /\ Indices' = Indices
      /\ cur' = Lesser(cur, found[i])
  BY DEF Trim, Indices
<1>2. cur \in Nat /\ hit \in Nat /\ found[i] \in Nat /\ idx \in Nat \ {0} /\ Indices \subseteq Nat
  BY <1>1, Ranges DEF TypeInv
<1>3. cur' = cur
  <2>1. cur <= found[i]
    BY <1>1 DEF Searching, Visited
  <2> QED
    BY <1>1, <1>2, <2>1 DEF Lesser
<1>4. \A j \in Indices : j < idx' => j < idx \/ j = i
  BY <1>1, <1>2
<1>5. \A j \in Indices : j < idx => ~(idx' = j + 1)
  BY <1>1, <1>2
<1>6. \A j \in Indices : Visited(j) => Visited(j)'
  BY <1>1, <1>3, SameAccepts DEF Visited, Clean, Alone
<1>7. Turned(i)'
  BY <1>1 DEF Turned, Alone
<1>8. \A j \in Indices : j < idx /\ Turned(j) => Turned(j)'
  BY <1>1, <1>3, <1>5 DEF Turned, Alone
<1>9. \A j \in Indices : found[j] = -1 => idx' <= j
  <2> SUFFICES ASSUME NEW j \in Indices, found[j] = -1 PROVE idx' <= j
    OBVIOUS
  <2>1. idx <= j /\ j # i
    BY <1>1 DEF Searching
  <2> QED
    BY <1>1, <1>2, <2>1
<1>10. \A p \in 0..limit :
         (\A j \in Indices : Accepts(j, p, limit, groups[j].eagle)') => p <= cur
  BY <1>1, SameAccepts DEF Searching
<1>11. idx' # 1
  BY <1>1, <1>2
<1> QED
  BY <1>1, <1>3, <1>4, <1>6, <1>7, <1>8, <1>9, <1>10, <1>11 DEF Searching

LEMMA LooksUp ==
  ASSUME TypeInv, Cached, Searching, NEW i \in Indices, LookUp(i)
  PROVE  Searching'
<1> USE DEF bootVars, cacheVars, searchVars
<1> DEFINE drop == groups[i].eagle /\ i \notin verified
           new == Find(i, Reach(i, drop), drop)
<1>1. /\ UNCHANGED <<groups, lookahead, written, cached, limit, hit>>
      /\ idx = i /\ idx' = idx + 1 /\ Indices' = Indices /\ cur' = new
      /\ found' = [found EXCEPT ![i] = new] /\ (groups[i].kind = "full" => found[i] = -1)
  BY DEF LookUp, Indices
<1>2. /\ cur \in Nat /\ hit \in Nat /\ limit \in Nat /\ idx \in Nat \ {0} /\ Indices \subseteq Nat
      /\ found \in [Indices -> Nat \cup {-1}] /\ groups \in Layouts /\ cur <= hit /\ hit <= limit
      /\ groups[i].eagle \in BOOLEAN
  BY Ranges, GroupType DEF TypeInv, Searching
<1>3. drop \in BOOLEAN /\ cur <= limit
  BY <1>2
<1>4. /\ new \in Nat /\ new <= cur /\ new % SchedBlock = 0
      /\ Accepts(i, new, limit, drop)
      /\ \A p \in Nat : p <= cur /\ Accepts(i, p, limit, drop) => p <= new
  BY <1>2, <1>3, LookUpGives
<1>5. verified' = IF drop THEN verified \cup {i}
                  ELSE IF new < cur THEN {} ELSE verified
  BY DEF LookUp
<1> HIDE DEF new
<1>6. \A j \in Indices : found'[j] = IF j = i THEN new ELSE found[j]
  BY <1>1, <1>2
<1>7. \A j \in Indices : j \in verified => found[j] # -1
  BY DEF Searching
<1>8. \A j \in Indices : j < idx' => j < idx \/ j = i
  BY <1>1, <1>2
\* A drafter group that is checked again was checked at this very length.
<1>9. ASSUME Alone(i), i \in verified PROVE new = cur
  <2>1. Accepts(i, cur, limit, TRUE)
    BY <1>7, <1>9 DEF Searching, Visited
  <2>2. Accepts(i, cur, limit, drop)
    BY <1>9, <2>1, AcceptsUndropped
  <2>3. cur <= new
    BY <1>2, <1>4, <2>2
  <2> QED
    BY <1>2, <1>4, <2>3
<1>10. Visited(i)'
  <2>1. cur' <= found'[i] /\ found'[i] <= limit' /\ cur' % SchedBlock = 0
    BY <1>1, <1>2, <1>4, <1>6
  <2>2. Accepts(i, new, limit, groups[i].eagle /\ groups[i].kind = "full")
    <3>1. CASE groups[i].kind = "full"
      <4>1. drop <=> groups[i].eagle /\ groups[i].kind = "full"
        BY <1>1, <1>7, <3>1
      <4> QED
        BY <1>4, <4>1
    <3>2. CASE groups[i].kind # "full"
      <4>1. Accepts(i, new, limit, FALSE)
        BY <1>4, AcceptsUndropped
      <4> QED
        BY <3>2, <4>1
    <3> QED
      BY <3>1, <3>2
  <2>3. ASSUME groups[i].eagle, groups[i].kind # "mamba" PROVE Clean(new)
    <3>1. CASE i \in verified
      <4>1. Clean(cur)
        BY <1>7, <2>3, <3>1 DEF Searching, Visited
      <4>2. Greater(0, written - lookahead) \in Int
        BY Ranges DEF Greater
      <4> QED
        BY <1>2, <1>4, <4>1, <4>2 DEF Clean
    <3>2. CASE i \notin verified
      <4>1. Accepts(i, new, limit, TRUE)
        BY <1>4, <2>3, <3>2
      <4> QED
        BY <1>2, <1>4, <2>3, <4>1, DropIsClean
    <3> QED
      BY <3>1, <3>2
  <2>4. ASSUME i \in verified', Alone(i) PROVE Accepts(i, new, limit, TRUE)
    <3>1. CASE i \in verified
      <4>1. new = cur
        BY <1>9, <2>4, <3>1
      <4> QED
        BY <1>7, <2>4, <3>1, <4>1 DEF Searching, Visited
    <3>2. CASE i \notin verified
      <4>1. drop
        BY <1>5, <2>4, <3>2
      <4> QED
        BY <1>4, <4>1
    <3> QED
      BY <3>1, <3>2
  <2>5. Alone(i)' <=> Alone(i)
    BY <1>1 DEF Alone
  <2>6. Clean(new) => Clean(cur)'
    BY <1>1 DEF Clean
  <2>7. found'[i] = new
    BY <1>6
  <2>8. Accepts(i, found[i], limit, groups[i].eagle /\ groups[i].kind = "full")'
    BY <1>1, <2>2, <2>7, SameAccepts
  <2>9. i \in verified' /\ Alone(i)' => Accepts(i, cur, limit, TRUE)'
    BY <1>1, <2>4, <2>5, SameAccepts
  <2> QED
    BY <1>1, <2>1, <2>3, <2>6, <2>8, <2>9 DEF Visited
<1>11. ASSUME NEW j \in Indices, j # i, found[j] # -1 PROVE Visited(j)'
  <2>1. Visited(j)
    BY <1>11 DEF Searching
  <2>2. found'[j] = found[j] /\ found[j] \in Nat
    BY <1>2, <1>6, <1>11
  <2>3. cur' <= found'[j] /\ found'[j] <= limit' /\ cur' % SchedBlock = 0
    BY <1>1, <1>2, <1>4, <2>1, <2>2 DEF Visited
  <2>4. groups[j].eagle /\ groups[j].kind # "mamba" => Clean(new)
    <3>1. Greater(0, written - lookahead) \in Int
      BY Ranges DEF Greater
    <3> QED
      BY <1>2, <1>4, <2>1, <3>1 DEF Clean, Visited
  \* Where it shrinks without a new check of j, another group would have to be
  \* of the drafter, or to be one of full attention that has its first turn.
  <2>5. ASSUME j \in verified', Alone(j) PROVE Accepts(j, new, limit, TRUE)
    <3>1. j \in verified
      BY <1>5, <1>11, <2>5
    <3>2. Accepts(j, cur, limit, TRUE)
      BY <2>1, <2>5, <3>1 DEF Visited
    <3>3. CASE new = cur
      BY <3>2, <3>3
    <3>4. CASE new # cur
      <4>1. new < cur
        BY <1>2, <1>4, <3>4
      <4>2. drop
        BY <1>5, <2>5, <4>1
      <4>3. groups[i].kind = "full"
        BY <1>11, <2>5, <4>2 DEF Alone
      <4>4. found[i] = -1 /\ i < j
        BY <1>1, <1>2, <2>5, <4>3, FullFirst DEF Alone
      <4> QED
        BY <1>11, <4>4 DEF Searching
    <3> QED
      BY <3>3, <3>4
  <2>6. Alone(j)' <=> Alone(j)
    BY <1>1 DEF Alone
  <2>7. Clean(new) => Clean(cur)'
    BY <1>1 DEF Clean
  <2>8. Accepts(j, found'[j], limit, groups[j].eagle /\ groups[j].kind = "full")
    BY <2>1, <2>2 DEF Visited
  <2>9. Accepts(j, found[j], limit, groups[j].eagle /\ groups[j].kind = "full")'
    BY <1>1, <2>8, SameAccepts
  <2>10. j \in verified' /\ Alone(j)' => Accepts(j, cur, limit, TRUE)'
    BY <1>1, <2>5, <2>6, SameAccepts
  <2> QED
    BY <1>1, <2>3, <2>4, <2>7, <2>9, <2>10 DEF Visited
<1>12. Turned(i)'
  <2>1. ASSUME Alone(i) PROVE i \in verified'
    <3>1. CASE i \in verified
      <4>1. new = cur /\ ~drop
        BY <1>9, <2>1, <3>1
      <4> QED
        BY <1>2, <1>5, <3>1, <4>1
    <3>2. CASE i \notin verified
      BY <1>5, <2>1, <3>2 DEF Alone
    <3> QED
      BY <3>1, <3>2
  <2>2. Alone(i)' <=> Alone(i)
    BY <1>1 DEF Alone
  <2> QED
    BY <1>1, <1>6, <2>1, <2>2 DEF Turned
<1>13. ASSUME NEW j \in Indices, j < idx PROVE Turned(j)'
  <2>1. Turned(j) /\ j # i /\ ~(idx' = j + 1) /\ found'[j] = found[j]
    BY <1>1, <1>2, <1>6, <1>13 DEF Searching
  <2>2. new = cur \/ new < hit
    BY <1>2, <1>4
  <2>3. new = cur => verified \subseteq verified'
    BY <1>2, <1>5
  <2>4. cur < hit => new < hit
    BY <1>2, <1>4
  <2>5. Alone(j)' <=> Alone(j)
    BY <1>1 DEF Alone
  <2> QED
    BY <1>1, <2>1, <2>2, <2>3, <2>4, <2>5 DEF Turned
<1>14. ASSUME NEW j \in Indices, found'[j] = -1 PROVE idx' <= j /\ j \notin verified'
  <2>1. j # i /\ found[j] = -1
    BY <1>4, <1>6, <1>14
  <2>2. idx <= j /\ j \notin verified
    BY <2>1 DEF Searching
  <2> QED
    BY <1>1, <1>2, <1>5, <2>1, <2>2
<1>15. ASSUME NEW j \in Indices, NEW k \in Indices, j < k, found'[k] # -1 PROVE found'[j] # -1
  <2>1. CASE j = i
    BY <1>4, <1>6, <2>1
  <2>2. CASE j # i /\ k = i
    <3>1. ~(idx <= j)
      BY <1>1, <1>2, <1>15, <2>2
    <3> QED
      BY <1>6, <2>2, <3>1 DEF Searching
  <2>3. CASE j # i /\ k # i
    BY <1>6, <1>15, <2>3 DEF Searching
  <2> QED
    BY <2>1, <2>2, <2>3
<1>16. ASSUME NEW p \in 0..limit, \A j \in Indices : Accepts(j, p, limit, groups[j].eagle)
       PROVE  p <= new
  <2>1. p <= cur /\ p \in Nat
    <3>1. \A q \in 0..limit :
            (\A j \in Indices : Accepts(j, q, limit, groups[j].eagle)) => q <= cur
      BY DEF Searching
    <3> QED
      BY <1>2, <1>16, <3>1
  <2>2. Accepts(i, p, limit, groups[i].eagle)
    BY <1>16
  <2>3. Accepts(i, p, limit, drop)
    <3>1. CASE drop
      BY <2>2, <3>1
    <3>2. CASE ~drop
      BY <2>2, <3>2, AcceptsUndropped
    <3> QED
      BY <3>1, <3>2
  <2> QED
    BY <1>4, <2>1, <2>3
<1>17. \A p \in 0..limit : (\A j \in Indices : Accepts(j, p, limit, groups[j].eagle)') => p <= new
  BY <1>1, <1>16, SameAccepts
<1>18. \A j \in Indices : found'[j] # -1 => Visited(j)'
  BY <1>6, <1>10, <1>11
<1>19. \A j \in Indices : j < idx' => Turned(j)'
  BY <1>8, <1>12, <1>13
<1>20. idx' # 1 /\ new <= hit /\ hit <= limit
  BY <1>1, <1>2, <1>4
<1> QED
  BY <1>1, <1>14, <1>15, <1>17, <1>18, <1>19, <1>20 DEF Searching

\* Another round starts from the shorter length.
LEMMA GoesRound ==
  ASSUME TypeInv, Searching, EndRound, phase' = "search"
  PROVE  Searching'
<1> USE DEF bootVars, cacheVars, searchVars
<1>1. /\ UNCHANGED <<groups, lookahead, written, cached, limit, cur, found, verified>>
      /\ idx > Len(groups) /\ idx' = 1 /\ hit' = Lesser(hit, cur) /\ Indices' = Indices
      /\ cur < hit
  BY DEF EndRound, Indices
<1>2. hit' = cur
  <2>1. cur \in Nat /\ hit \in Nat
    BY DEF TypeInv
  <2> QED
    BY <1>1, <2>1 DEF Lesser
<1>3. \A i \in Indices : ~(idx <= i) /\ ~(i < 1) /\ 1 <= i
  BY <1>1, Ranges
<1>4. \A i \in Indices : Visited(i) => Visited(i)'
  BY <1>1, SameAccepts DEF Visited, Clean, Alone
<1>5. \A p \in 0..limit :
        (\A j \in Indices : Accepts(j, p, limit, groups[j].eagle)') => p <= cur
  BY <1>1, SameAccepts DEF Searching
<1>6. cur <= limit /\ cur <= cur
  BY <1>1 DEF Searching, TypeInv
<1> QED
  BY <1>1, <1>2, <1>3, <1>4, <1>5, <1>6 DEF Searching

\* The search ends at the length of the last lookup.
LEMMA Ends ==
  ASSUME TypeInv, Searching, Furthest, EndRound, phase' = "done"
  PROVE  HitIsLongest' /\ ListsCoverHit' /\ NoPollutedSlot'
<1> USE DEF bootVars, cacheVars, searchVars
<1>1. /\ UNCHANGED <<groups, lookahead, written, cached, limit, cur, longest, verified, idx>>
      /\ idx > Len(groups) /\ hit' = Lesser(hit, cur) /\ Indices' = Indices
      /\ ~(cur < hit) \/ OneRound
      /\ found' = [i \in Indices |-> IF Truncated(i) THEN hit' ELSE found[i]]
  BY DEF EndRound, Indices
<1>2. /\ cur \in Nat /\ hit \in Nat /\ limit \in Nat /\ cur <= hit /\ hit <= limit
      /\ Len(groups) \in Nat \ {0} /\ Indices = 1..Len(groups) /\ idx = Len(groups) + 1
      /\ found \in [Indices -> Nat \cup {-1}] /\ groups \in Layouts
  BY <1>1, Ranges DEF Searching, TypeInv
<1>3. hit' = cur
  BY <1>1, <1>2 DEF Lesser
<1>4. \A i \in Indices : found[i] # -1 /\ Visited(i) /\ Turned(i) /\ i < idx
  BY <1>2 DEF Searching
<1>5. cur % SchedBlock = 0
  <2>1. 1 \in Indices
    BY <1>2
  <2> QED
    BY <1>4, <2>1 DEF Visited
\* In a single round of two groups the second is the last looked up.
<1>6. ASSUME NEW i \in Indices, groups[i].kind # "full" PROVE ~(cur < hit) \/ idx = i + 1
  <2>1. OneRound => i # 1 /\ Len(groups) = 2
    BY <1>6 DEF OneRound
  <2> QED
    BY <1>1, <1>2, <2>1
<1>7. ASSUME NEW i \in Indices, groups[i].kind # "full" PROVE found[i] = cur
  <2>1. found[i] = cur \/ cur < hit
    BY <1>4, <1>7 DEF Turned
  <2>2. idx = i + 1 => found[i] = cur
    BY <1>4, <1>7 DEF Turned
  <2> QED
    BY <1>6, <1>7, <2>1, <2>2
<1>8. ASSUME NEW i \in Indices, Alone(i) PROVE i \in verified
  <2>1. i \in verified \/ cur < hit
    BY <1>4, <1>8 DEF Turned
  <2>2. idx = i + 1 => i \in verified
    BY <1>4, <1>8 DEF Turned
  <2> QED
    BY <1>6, <1>8, <2>1, <2>2 DEF Alone
<1>9. ASSUME NEW i \in Indices
      PROVE  /\ found'[i] \in {cur, found[i]}
             /\ groups[i].kind # "full" \/ Truncated(i) => found'[i] = cur
  BY <1>1, <1>3, <1>7
<1>10. ASSUME NEW i \in Indices PROVE Accepts(i, cur, limit, Checked(i))
  <2>1. Accepts(i, found[i], limit, groups[i].eagle /\ groups[i].kind = "full")
        /\ cur <= found[i] /\ found[i] \in Nat
    BY <1>2, <1>4 DEF Visited
  <2>2. CASE groups[i].kind = "full"
    <3>1. Checked(i) <=> groups[i].eagle /\ groups[i].kind = "full"
      BY <2>2 DEF Checked
    <3>2. Accepts(i, found[i], limit, Checked(i))
      <4>1. CASE Checked(i)
        BY <2>1, <3>1, <4>1 DEF Accepts
      <4>2. CASE ~Checked(i)
        BY <2>1, <4>2, AcceptsUndropped DEF Accepts
      <4> QED
        BY <4>1, <4>2
    <3> QED
      BY <1>2, <1>5, <2>1, <2>2, <3>2, FullClosed
  <2>3. CASE groups[i].kind # "full" /\ Checked(i)
    <3>1. Alone(i)
      BY <2>3 DEF Alone, Checked
    <3>2. Accepts(i, cur, limit, TRUE)
      BY <1>4, <1>8, <3>1 DEF Visited
    <3> QED
      BY <2>3, <3>2 DEF Accepts
  <2>4. CASE groups[i].kind # "full" /\ ~Checked(i)
    <3>1. Accepts(i, cur, limit, FALSE)
      BY <1>7, <2>1, <2>4, AcceptsUndropped
    <3> QED
      BY <2>4, <3>1 DEF Accepts
  <2> QED
    BY <2>2, <2>3, <2>4
<1>11. HitIsLongest'
  <2>1. \A i \in Indices : Accepts(i, cur, limit, Checked(i)) => Accepts(i, hit, limit, Checked(i))'
    BY <1>1, <1>3 DEF Accepts, Checked
  <2>2. \A p \in 0..limit :
          (\A j \in Indices : Accepts(j, p, limit, groups[j].eagle)') => p <= hit'
    BY <1>1, <1>3, SameAccepts DEF Searching
  <2> QED
    BY <1>1, <1>10, <2>1, <2>2 DEF HitIsLongest
<1>12. NoPollutedSlot'
  <2>1. \A i \in Indices : groups[i].eagle /\ groups[i].kind # "mamba" => Clean(cur)
    BY <1>4 DEF Visited
  <2> QED
    BY <1>1, <1>3, <2>1 DEF NoPollutedSlot, Clean
<1>13. ListsCoverHit'
  <2>1. ASSUME NEW i \in Indices
        PROVE  found'[i] >= cur /\ Needs(groups[i], found'[i]) \subseteq cached[i]
    <3>1. found[i] \in Nat /\ cur <= found[i] /\ Needs(groups[i], found[i]) \subseteq cached[i]
      BY <1>2, <1>4 DEF Visited, Accepts
    <3>2. Needs(groups[i], cur) \subseteq cached[i]
      BY <1>10 DEF Accepts
    <3>3. found'[i] \in {cur, found[i]}
      BY <1>9
    <3> QED
      BY <1>2, <3>1, <3>2, <3>3
  <2>2. longest \in Nat /\ longest >= cur
    <3>1. 1 \in Indices /\ phase = "search"
      BY <1>2 DEF EndRound
    <3>2. found[1] <= longest /\ longest \in Nat
      BY <3>1 DEF Furthest
    <3>3. cur <= found[1]
      BY <1>4, <3>1 DEF Visited
    <3>4. found[1] \in Int
      BY <1>2, <3>1
    <3> QED
      BY <1>2, <3>2, <3>3, <3>4
  <2>3. longest > 0 => \E i \in Indices : Accepts(i, longest, limit, FALSE)'
    BY <1>1, SameAccepts DEF Furthest
  <2>4. \A i \in Indices : Truncated(i)' <=> Truncated(i)
    BY <1>1 DEF Truncated
  <2>5. \A i \in Indices : groups[i].kind # "full" \/ Truncated(i) => found'[i] = cur
    BY <1>9
  <2>6. /\ \A i \in Indices : found'[i] >= cur /\ Needs(groups[i], found'[i]) \subseteq cached[i]
        /\ \A i \in Indices : groups[i].kind # "full" \/ Truncated(i)' => found'[i] = cur
    BY <2>1, <2>4, <2>5
  <2>7. /\ longest' = longest /\ groups' = groups /\ cached' = cached /\ hit' = cur
        /\ Indices' = Indices
    BY <1>1, <1>3
  <2> QED
    BY <2>2, <2>3, <2>6, <2>7 DEF ListsCoverHit
<1> QED
  BY <1>11, <1>12, <1>13

LEMMA NextInv == IInv /\ [Next]_vars => IInv'
<1> SUFFICES ASSUME IInv, [Next]_vars PROVE IInv'
  OBVIOUS
<1> USE DEF bootVars, cacheVars, searchVars
<1>1. TypeInv /\ Cached /\ Furthest /\ (phase = "search" => Searching)
  BY DEF IInv
<1>2. TypeInv' /\ Furthest'
  BY <1>1, TypeStep, FurthestStep
<1>3. Cached'
  BY <1>1, CachedStep
<1>4. phase' \in {"cache", "search", "done"}
  BY <1>2 DEF TypeInv
<1>5. ASSUME phase' = "search" PROVE Searching'
  <2>1. ASSUME NEW max \in {written - 1, written + SchedBlock}, BeginSearch(max) PROVE Searching'
    <3>1. max \in Nat
      BY <1>1, Ranges
    <3> QED
      BY <1>1, <2>1, <3>1, Begins
  <2>2. ASSUME NEW i \in Indices, Trim(i) PROVE Searching'
    BY <1>1, <2>2, Trims DEF Trim
  <2>3. ASSUME NEW i \in Indices, LookUp(i) PROVE Searching'
    BY <1>1, <2>3, LooksUp DEF LookUp
  <2>4. CASE EndRound
    BY <1>1, <1>5, <2>4, GoesRound DEF EndRound
  <2>5. CASE UNCHANGED vars
    <3>1. Searching
      BY <1>1, <1>5, <2>5 DEF vars
    <3>2. /\ UNCHANGED <<groups, lookahead, written, cached, limit, hit, cur, found, verified, idx>>
          /\ Indices' = Indices
      BY <2>5 DEF vars, Indices
    <3>3. \A i \in Indices : (Visited(i) => Visited(i)') /\ (Turned(i) => Turned(i)')
      BY <3>2, SameAccepts DEF Visited, Turned, Clean, Alone
    <3>4. \A p \in 0..limit :
            (\A j \in Indices : Accepts(j, p, limit, groups[j].eagle)') => p <= cur
      BY <3>1, <3>2, SameAccepts DEF Searching
    <3> QED
      BY <3>1, <3>2, <3>3, <3>4 DEF Searching
  <2>6. ~CacheBlocks /\ \A i \in Indices : \A b \in cached[i] : ~Evict(i, b)
    BY <1>5 DEF CacheBlocks, Evict
  <2> QED
    BY <2>1, <2>2, <2>3, <2>4, <2>5, <2>6 DEF Next
<1>6. HitIsLongest' /\ ListsCoverHit' /\ NoPollutedSlot'
  <2>1. CASE phase' # "done"
    BY <2>1 DEF HitIsLongest, ListsCoverHit, NoPollutedSlot
  <2>2. CASE phase' = "done" /\ EndRound
    BY <1>1, <2>2, Ends DEF EndRound
  <2>3. CASE UNCHANGED vars
    <3>1. HitIsLongest /\ ListsCoverHit /\ NoPollutedSlot
      BY DEF IInv
    <3>2. UNCHANGED <<groups, lookahead, written, cached, limit, hit, longest, found, phase>>
          /\ Indices' = Indices
      BY <2>3 DEF vars, Indices
    <3>3. HitIsLongest'
      BY <3>1, <3>2 DEF HitIsLongest, Accepts, Checked
    <3> QED
      BY <3>1, <3>2, <3>3 DEF ListsCoverHit, NoPollutedSlot, Accepts, Truncated
  <2>4. phase' = "done" => EndRound \/ UNCHANGED vars
    BY DEF Next, CacheBlocks, Evict, BeginSearch, Trim, LookUp
  <2> QED
    BY <2>1, <2>2, <2>3, <2>4
<1> QED
  BY <1>2, <1>3, <1>5, <1>6 DEF IInv

LEMMA Invariant == Spec => []IInv
BY InitInv, NextInv, PTL DEF Spec

LEMMA Implied == IInv => HitIsLongest /\ ListsCoverHit /\ NoPollutedSlot
BY DEF IInv

\* The length the search returns can be served by every group, by those of the
\* drafter with the block above it matched, and it is the greatest such length.
THEOREM LongestHit == Spec => []HitIsLongest
BY Invariant, Implied, PTL

\* The blocks returned for each group cover the length returned, exactly, unless the
\* group's manager keeps what is longer, and are all in the cache; and so is, in
\* some group, the shared prefix reported as not yet cached everywhere.
THEOREM ListsAgree == Spec => []ListsCoverHit
BY Invariant, Implied, PTL

\* No hit reaches a slot that the end of the earlier prefill may have written for
\* another continuation, whatever was evicted.
THEOREM HitsAreClean == Spec => []NoPollutedSlot
BY Invariant, Implied, PTL

-----------------------------------------------------------------------------
(* Replays *)

LEMMA Extremes ==
  ASSUME NEW a \in Nat, NEW c \in Nat, a <= c
  PROVE  Min({a, c}) = a /\ Max({a, c}) = c
<1>1. \A x \in {a, c} : (\A y \in {a, c} : x <= y) => x = a
  OBVIOUS
<1>2. a \in {a, c} /\ \A y \in {a, c} : a <= y
  OBVIOUS
<1>3. \A x \in {a, c} : (\A y \in {a, c} : x >= y) => x = c
  OBVIOUS
<1>4. c \in {a, c} /\ \A y \in {a, c} : c >= y
  OBVIOUS
<1>5. Min({a, c}) = a
  BY <1>1, <1>2 DEF Min
<1>6. Max({a, c}) = c
  BY <1>3, <1>4 DEF Max
<1> QED
  BY <1>5, <1>6

LEMMA Fewer ==
  ASSUME NEW b \in Nat \ {0}, NEW p \in Nat
  PROVE  p \div b <= p
<1> DEFINE d == p \div b
<1>1. d \in Nat /\ b * d <= p /\ b * d \in Int
  BY Quotient, Times
<1> HIDE DEF d
<1>2. d * 1 <= d * b
  <2>1. CASE d = 0
    BY <2>1
  <2>2. CASE d # 0
    BY <1>1, <2>2, Times
  <2> QED
    BY <2>1, <2>2
<1>3. d * b = b * d /\ d * 1 = d
  BY <1>1
<1>4. d <= p
  BY <1>1, <1>2, <1>3
<1> QED
  BY <1>4 DEF d

\* The length a replay boundary stands for is registered in every group, and so
\* is the block above it where one is dropped.
LEMMA Resumable ==
  ASSUME TypeInv, Cached, phase # "cache", ~evicted, NEW i \in Indices,
         NEW x \in ReplayBoundaries(groups, written), NEW p \in Nat,
         p = RoundDown(x, SchedBlock), p % SchedBlock = 0, p <= limit,
         NEW t, t = TokensToCache(groups[i], written, lookahead), p <= t,
         groups[i].eagle /\ p > 0 => p + groups[i].block <= t /\ p + groups[i].block <= limit
  PROVE  Accepts(i, p, limit, groups[i].eagle)
<1> DEFINE b == groups[i].block
           d == p \div b
           e == t \div b
<1>1. /\ b \in Nat \ {0} /\ SchedBlock % b = 0 /\ SchedBlock \in Nat \ {0}
      /\ groups[i].window \in Nat \ {0} /\ groups[i].kind \in {"full", "window", "mamba"}
  BY GroupType DEF TypeInv
<1>2. t \in Nat /\ t <= MaxTokens /\ MaxTokens \in Nat
  BY Tokens, Ranges
<1>3. cached[i] = Kept(i) /\ Registered(i) = 1..e
  BY DEF Cached, Registered
<1>4. d \in Nat /\ e \in Nat /\ d <= e /\ e <= MaxTokens
  <2>1. d \in Nat /\ e \in Nat /\ d <= e /\ e <= t
    BY <1>1, <1>2, Quotient, Monotone, Fewer
  <2> QED
    BY <1>2, <2>1
<1>5. groups[i].eagle /\ p > 0 => d + 1 <= e
  <2>1. p % b = 0
    BY <1>1, Coarser
  <2>2. d + 1 <= e <=> p + b <= t
    BY <1>1, <1>2, <2>1, NextFits
  <2> QED
    BY <2>2
<1>6. Needs(groups[i], p) \subseteq 1..d
  <2>1. \A w \in Nat : {n \in 1..d : n > d - w} \subseteq 1..d
    OBVIOUS
  <2>2. {d} \ {0} \subseteq 1..d
    BY <1>4
  <2> HIDE DEF d
  <2>3. Needs(groups[i], p) \in {1..d, {n \in 1..d : n > d - groups[i].window}, {d} \ {0}}
    BY <1>1 DEF Needs, d
  <2> QED
    BY <1>1, <2>1, <2>2, <2>3
<1>7. Above(groups[i], p) \subseteq {d + 1}
  BY DEF Above
<1> HIDE DEF d, e
<1>8. ASSUME NEW n \in Needs(groups[i], p) \cup Above(groups[i], p), n \in 1..e
      PROVE  n \in cached[i]
  <2>1. CASE retention = Dense
    BY <1>3, <1>8, <2>1 DEF Kept
  <2>2. CASE retention # Dense
    <3>1. n \in Retained(groups[i], written)
      <4>1. CASE groups[i].kind = "full"
        <5>1. n \in 1..MaxTokens
          BY <1>2, <1>4, <1>8
        <5> QED
          BY <4>1, <5>1 DEF Retained
      <4>2. CASE groups[i].kind # "full"
        <5>1. p \in {RoundDown(y, SchedBlock) : y \in ReplayBoundaries(groups, written)}
          OBVIOUS
        <5> QED
          BY <1>8, <4>2, <5>1 DEF Retained
      <4> QED
        BY <4>1, <4>2
    <3> QED
      BY <1>3, <1>8, <2>2, <3>1 DEF Kept
  <2> QED
    BY <2>1, <2>2
<1>9. Needs(groups[i], p) \subseteq cached[i]
  <2>1. 1..d \subseteq 1..e
    BY <1>4
  <2> QED
    BY <1>6, <1>8, <2>1
<1>10. groups[i].eagle /\ p > 0 => Above(groups[i], p) \subseteq cached[i]
  <2> SUFFICES ASSUME groups[i].eagle /\ p > 0 PROVE Above(groups[i], p) \subseteq cached[i]
    OBVIOUS
  <2>1. d + 1 \in 1..e
    BY <1>4, <1>5
  <2> QED
    BY <1>7, <1>8, <2>1
<1> QED
  BY <1>9, <1>10 DEF Accepts

\* One block before an aligned position, which the drafter's layout resumes at.
LEMMA OneBlockBefore ==
  ASSUME NEW s \in Nat \ {0}, NEW m \in Nat, NEW x, x = Greater(RoundDown(m, s) - s, 0)
  PROVE  /\ x \in Nat /\ x <= m /\ RoundDown(x, s) \in Nat /\ RoundDown(x, s) <= x
         /\ RoundDown(x, s) % s = 0
         /\ RoundDown(x, s) > 0 => RoundDown(x, s) + s <= RoundDown(m, s)
<1>1. RoundDown(m, s) \in Nat /\ RoundDown(m, s) <= m
  BY Rounded
<1> DEFINE r == RoundDown(m, s)
<1> HIDE DEF r
<1>2. x = Greater(r - s, 0) /\ r \in Nat /\ r <= m
  BY <1>1 DEF r
<1>3. x \in Nat /\ x <= m /\ (x > 0 => x + s = r)
  BY <1>2 DEF Greater
<1> DEFINE y == RoundDown(x, s)
<1>4. y \in Nat /\ y <= x /\ y % s = 0
  BY <1>3, Rounded
<1> HIDE DEF y
<1>5. y > 0 => y + s <= r
  BY <1>2, <1>3, <1>4
<1> QED
  BY <1>3, <1>4, <1>5 DEF y, r

LEMMA Replays == IInv => ReplayResumes
<1> SUFFICES ASSUME IInv, phase = "done", ~evicted, Reprefillable(lookahead) = 0,
                    NEW kept, kept = ReplayBoundaries(groups, written),
                    NEW x, x = IF limit < written THEN Min(kept) ELSE Max(kept)
             PROVE  hit >= RoundDown(x, SchedBlock)
  BY DEF ReplayResumes
<1> DEFINE s == SchedBlock
           n == written
           p == RoundDown(x, s)
<1>1. TypeInv /\ Cached /\ HitIsLongest
  BY DEF IInv
<1>2. /\ s \in Nat \ {0} /\ n \in Nat /\ n > 0 /\ n - 1 \in Nat /\ hit \in Nat /\ limit \in Nat
      /\ limit \in {n - 1, n + s}
  BY <1>1, Ranges DEF TypeInv, Cached
<1> HIDE DEF s, n
\* m is how much of the prompt a replay may take from the cache.
<1>3. PICK m \in {n - 1, n} : /\ m <= limit /\ m \in Nat
                              /\ (IF limit < n THEN m = n - 1 ELSE m = n)
  BY <1>2
<1>4. RoundDown(n, s) \in Nat /\ RoundDown(n, s) <= n
      /\ \A y \in Nat : y % s = 0 /\ y <= n => y <= RoundDown(n, s)
  BY <1>2, Rounded
<1>5. /\ x \in kept /\ p \in Nat /\ p <= m /\ p % s = 0
      /\ Eagle(groups) /\ p > 0 => p + s <= m /\ p + s <= RoundDown(n, s)
  <2>1. CASE ~Eagle(groups)
    <3>1. kept = {n - 1}
      BY <2>1 DEF ReplayBoundaries, n
    <3>2. x = n - 1
      <4>1. kept # {} /\ \A y, z \in kept : y <= z /\ y >= z /\ y = n - 1
        BY <1>2, <3>1
      <4>2. Min(kept) = n - 1 /\ Max(kept) = n - 1
        BY <4>1 DEF Min, Max
      <4> QED
        BY <4>2
    <3>3. p \in Nat /\ p <= n - 1 /\ p % s = 0
      <4>1. x \in Nat
        BY <1>2, <3>2
      <4>2. p \in Nat /\ p <= x /\ p % s = 0
        BY <1>2, <4>1, Rounded
      <4> QED
        BY <3>2, <4>2
    <3>4. p <= m
      BY <1>2, <1>3, <3>3
    <3> QED
      BY <2>1, <3>1, <3>2, <3>3, <3>4
  <2>2. CASE Eagle(groups)
    <3> DEFINE low == Greater(RoundDown(n - 1, s) - s, 0)
               top == Greater(RoundDown(n, s) - s, 0)
    <3>1. kept = {low, top}
      BY <2>2 DEF ReplayBoundaries, n, s
    <3>2. /\ RoundDown(n - 1, s) \in Nat /\ RoundDown(n - 1, s) <= n - 1
          /\ RoundDown(n - 1, s) % s = 0
      BY <1>2, Rounded
    <3>3. RoundDown(n - 1, s) <= RoundDown(n, s)
      BY <1>2, <1>4, <3>2
    <3>4. low \in Nat /\ top \in Nat /\ low <= top
      BY <1>2, <1>4, <3>2, <3>3 DEF Greater
    <3>5. x = Greater(RoundDown(m, s) - s, 0)
      <4>1. Min(kept) = low /\ Max(kept) = top
        BY <3>1, <3>4, Extremes
      <4> QED
        BY <1>3, <4>1 DEF n
    <3>6. x \in kept
      BY <1>3, <3>1, <3>5
    <3>7. /\ p \in Nat /\ p <= x /\ x <= m /\ x \in Nat /\ p % s = 0
          /\ p > 0 => p + s <= RoundDown(m, s)
      BY <1>2, <1>3, <3>5, OneBlockBefore
    <3>8. RoundDown(m, s) \in Nat /\ RoundDown(m, s) <= m /\ RoundDown(m, s) <= RoundDown(n, s)
      BY <1>2, <1>3, <1>4, <3>2, <3>3
    <3> HIDE DEF low, top, p
    <3>9. p <= m /\ (p > 0 => p + s <= m /\ p + s <= RoundDown(n, s))
      BY <1>2, <1>3, <1>4, <3>7, <3>8
    <3> QED
      BY <3>6, <3>7, <3>9
  <2> QED
    BY <2>1, <2>2
<1> HIDE DEF p
<1>6. p <= limit /\ p <= n
  BY <1>2, <1>3, <1>5
<1>7. ASSUME NEW i \in Indices PROVE Accepts(i, p, limit, groups[i].eagle)
  <2> DEFINE b == groups[i].block
             t == TokensToCache(groups[i], written, lookahead)
  <2>1. b \in Nat \ {0} /\ b <= s
    BY <1>1, GroupType DEF TypeInv, s
  <2>2. t \in Nat
    BY <1>1, Tokens
  <2>3. CASE ~groups[i].eagle
    <3>1. t = RoundDown(n, s)
      BY <2>3 DEF TokensToCache, n, s
    <3>2. p <= t
      BY <1>4, <1>5, <1>6, <3>1
    <3> QED
      BY <1>1, <1>5, <1>6, <2>3, <3>2, Resumable DEF p, s
  <2>4. CASE groups[i].eagle
    <3>1. Eagle(groups)
      BY <2>4 DEF Eagle, Indices
    <3>2. p > 0 => p + s <= n /\ n >= s
      <4> HIDE DEF t, b
      <4>1. p > 0 => p + s <= RoundDown(n, s)
        BY <1>5, <3>1
      <4>2. p \in Nat /\ s \in Nat /\ n \in Nat /\ RoundDown(n, s) \in Nat /\ RoundDown(n, s) <= n
        BY <1>2, <1>4, <1>5
      <4> QED
        BY <4>1, <4>2
    <3>3. n >= s => t = Lesser(n, RoundDown(n, s) + b)
      <4>1. Greater(0, written - Reprefillable(lookahead)) = n
        BY <1>2 DEF Greater, n
      <4> QED
        BY <2>4, <4>1 DEF TokensToCache, n, s
    <3>4. p > 0 => p + b <= t /\ p + b <= limit
      <4> SUFFICES ASSUME p > 0 PROVE p + b <= t /\ p + b <= limit
        OBVIOUS
      <4>1. p + s <= n /\ p + s <= m /\ p + s <= RoundDown(n, s)
        BY <1>5, <3>1, <3>2
      <4>2. t = Lesser(n, RoundDown(n, s) + b)
        BY <3>2, <3>3
      <4>3. /\ p \in Nat /\ n \in Nat /\ m \in Nat /\ limit \in Nat /\ s \in Nat /\ b \in Nat
            /\ RoundDown(n, s) \in Nat /\ m <= limit /\ b <= s
        BY <1>2, <1>3, <1>4, <1>5, <2>1
      <4> DEFINE r == RoundDown(n, s)
      <4>4. p + b <= n /\ p + b <= limit /\ p + b <= r + b
        <5> HIDE DEF t, b, r
        <5>1. p + s <= r /\ r \in Nat
          BY <4>1, <4>3 DEF r
        <5> QED
          BY <4>1, <4>3, <5>1
      <4> HIDE DEF t, b
      <4> QED
        BY <4>2, <4>4 DEF Lesser
    <3>5. p <= t
      <4> HIDE DEF t, b
      <4> QED
        BY <1>5, <2>1, <2>2, <3>4
    <3> QED
      BY <1>1, <1>5, <1>6, <3>4, <3>5, Resumable DEF p, s
  <2> QED
    BY <2>3, <2>4
<1>8. p \in 0..limit
  BY <1>2, <1>5, <1>6
<1>9. p <= hit
  BY <1>1, <1>7, <1>8 DEF HitIsLongest
<1> QED
  BY <1>2, <1>5, <1>9 DEF p, s

\* With nothing evicted, a prompt sent again and a longer one that begins with it
\* resume where the coordinator says they can.
THEOREM ReplaysResume == Spec => []ReplayResumes
BY Invariant, Replays, PTL
=============================================================================
