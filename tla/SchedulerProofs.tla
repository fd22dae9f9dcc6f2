--------------------------- MODULE SchedulerProofs ---------------------------
(***************************************************************************)
(* Proofs about Scheduler, for every number of requests and blocks, every  *)
(* block size, budget, draft length, number of steps in flight and boot    *)
(* configuration.                                                          *)
(*                                                                         *)
(* The first part is about blocks: none is lost or held twice, and none is *)
(* given away while a step in flight may write it.  The second is about    *)
(* what is true of one request while its steps are in flight, preempted or *)
(* dropped: it has exactly the queue its status says, every token is       *)
(* delivered once and in its place, the counters come out even, and a load *)
(* keeps its blocks.                                                       *)
(*                                                                         *)
(* The counters of the scheduler are sums over the steps in flight.  The   *)
(* proofs speak of such a sum through its partial sums; where one would    *)
(* go by induction over the steps they take the first place of a failure.  *)
(***************************************************************************)
EXTENDS Scheduler, FiniteSetTheorems, SequenceTheorems, WellFoundedInduction, TLAPS

Early == {"new", "waiting", "remote"}   \* not scheduled since it got its blocks
States == {"new", "waiting", "remote", "running", "finished", "gone"}
Building == {"running", "waiting", "finish"}
BatchShape == [n : [Requests -> Int], k : [Requests -> Int],
               fresh : [Requests -> Int], last : [Requests -> BOOLEAN],
               writes : [Requests -> SUBSET Blocks]]

\* The types the argument needs.
Shape ==
  /\ conf \in Configs /\ status \in [Requests -> States]
  /\ computed \in [Requests -> Int] /\ output \in [Requests -> Int]
  /\ spec \in [Requests -> Int] /\ holes \in [Requests -> Int]
  /\ budget \in Int /\ idx \in Nat \ {0}
  /\ running \in Seq(Requests)
  /\ held \in [Requests -> SUBSET Blocks] /\ pool \subseteq Blocks
  /\ deferred \in Seq(Entry)
  /\ lastSeq \in [Requests -> Nat] /\ schedSeq \in Nat /\ procSeq \in Nat
  /\ batch \in BatchShape /\ steps \in Seq(BatchShape)

\* Who is where: the running queue holds running requests and those the output
\* being processed has stopped, and only running requests are in the batch.
Control ==
  /\ phase = "output" => steps # << >>
  /\ phase # "output" => ended = {}
  /\ \A i \in 1..Len(running) :
       status[running[i]] = "running" \/ running[i] \in ended
  /\ \A r \in Requests :
       batch.n[r] > 0 => phase \in Building /\ status[r] = "running"

\* Every block in one place, also within the list of deferred frees.
Owned ==
  /\ BlocksConserved
  /\ \A i, j \in 1..Len(deferred) :
       i # j => deferred[i].blocks \cap deferred[j].blocks = {}

\* The sequence number of the i-th step in flight.
Done == IF phase = "output" THEN 1 ELSE 0
SeqOf(i) == procSeq + i - Done

\* A block that a step in flight writes is still with its request, whose fence
\* is no older than the step, or it waits behind such a fence.
Guarded(i, r, b) ==
  \/ b \in held[r] /\ lastSeq[r] >= SeqOf(i)
  \/ \E d \in 1..Len(deferred) :
       b \in deferred[d].blocks /\ deferred[d].fence >= SeqOf(i)

Fenced ==
  conf.defer =>
    /\ schedSeq = procSeq + Len(steps) - Done
    /\ \A i \in InFlight : \A r \in Requests : \A b \in steps[i].writes[r] :
         Guarded(i, r, b)
    /\ \A i \in InFlight : \A r \in Requests :
         status[r] \in Early => steps[i].writes[r] \cap held[r] = {}

-----------------------------------------------------------------------------
(* Queues *)

\* f picks from q the members of w, each once: those outside S.
Picks(f, q, w, S) ==
  /\ f \in [1..Len(w) -> 1..Len(q)]
  /\ \A j \in 1..Len(w) : q[f[j]] \notin S /\ w[j] = q[f[j]]
  /\ \A i, j \in 1..Len(w) : f[i] = f[j] => i = j
  /\ \A i \in 1..Len(q) : q[i] \notin S => \E j \in 1..Len(w) : f[j] = i

LEMMA WithoutPicks ==
  ASSUME NEW T, NEW q \in Seq(T), NEW S
  PROVE  Without(q, S) \in Seq(T) /\ \E f : Picks(f, q, Without(q, S), S)
<1> DEFINE kept == {i \in 1..Len(q) : q[i] \notin S}
           upto(i) == {k \in kept : k <= i}
           rank == [i \in kept |-> Cardinality(upto(i))]
           n == Cardinality(kept)
           nth(j) == CHOOSE i \in kept : Cardinality(upto(i)) = j
<1>1. IsFiniteSet(kept) /\ n \in Nat
  <2>1. IsFiniteSet(1..Len(q))
    BY FS_Interval
  <2>2. kept \in SUBSET (1..Len(q))
    OBVIOUS
  <2> HIDE DEF kept
  <2>3. IsFiniteSet(kept)
    BY <2>1, <2>2, FS_Subset
  <2> QED
    BY <2>3, FS_CardinalityType
<1>2. ASSUME NEW i \in kept
      PROVE  IsFiniteSet(upto(i)) /\ Cardinality(upto(i)) \in 1..n
  <2>1. upto(i) \in SUBSET kept /\ i \in upto(i)
    OBVIOUS
  <2> HIDE DEF kept
  <2> DEFINE u == upto(i)
  <2>2. u \in SUBSET kept /\ i \in u
    BY <2>1
  <2> HIDE DEF u
  <2>3. IsFiniteSet(u) /\ Cardinality(u) <= n
    BY <1>1, <2>2, FS_Subset
  <2>4. Cardinality(u) \in Nat
    BY <2>3, FS_CardinalityType
  <2>5. Cardinality(u) # 0
    BY <2>2, <2>3, FS_EmptySet
  <2>6. IsFiniteSet(u) /\ Cardinality(u) \in 1..n
    BY <1>1, <2>3, <2>4, <2>5
  <2> QED
    BY <2>6 DEF u
<1>3. ASSUME NEW i \in kept, NEW k \in kept, i < k
      PROVE  rank[i] # rank[k]
  <2>1. upto(i) \in SUBSET upto(k) /\ upto(i) # upto(k)
    <3>1. i \in Nat /\ k \in Nat /\ \A l \in kept : l \in Nat
      OBVIOUS
    <3>2. \A l \in kept : l <= i => l <= k
      BY <1>3, <3>1
    <3>3. k \in upto(k) /\ k \notin upto(i)
      BY <1>3, <3>1
    <3> QED
      BY <3>2, <3>3
  <2>2. IsFiniteSet(upto(k))
    BY <1>2
  <2> DEFINE u == upto(i)
             v == upto(k)
  <2>3. u \in SUBSET v /\ u # v /\ IsFiniteSet(v)
    BY <2>1, <2>2
  <2> HIDE DEF u, v
  <2>4. Cardinality(u) # Cardinality(v)
    BY <2>3, FS_Subset
  <2> QED
    BY <2>4 DEF u, v
<1>4. rank \in Injection(kept, 1..n)
  <2>1. rank \in [kept -> 1..n]
    BY <1>2
  <2>2. \A i, k \in kept : i # k => rank[i] # rank[k]
    <3>1. \A i, k \in kept : i # k => i < k \/ k < i
      OBVIOUS
    <3> HIDE DEF kept, rank
    <3> QED
      BY <3>1, <1>3
  <2> HIDE DEF rank, kept
  <2> QED
    BY <2>1, <2>2 DEF Injection, IsInjective
<1>5. rank \in Surjection(kept, 1..n)
  <2>1. IsFiniteSet(1..n) /\ Cardinality(1..n) = n
    BY <1>1, FS_Interval
  <2> HIDE DEF rank, kept
  <2> QED
    BY <1>1, <1>4, <2>1, FS_Injection
<1>6. ASSUME NEW j \in 1..n
      PROVE  nth(j) \in kept /\ rank[nth(j)] = j
  <2>1. \E i \in kept : rank[i] = j
    <3> HIDE DEF rank, kept
    <3> QED
      BY <1>5 DEF Surjection
  <2>2. \E i \in kept : Cardinality(upto(i)) = j
    BY <2>1
  <2> HIDE DEF kept
  <2>3. nth(j) \in kept /\ Cardinality(upto(nth(j))) = j
    BY <2>2
  <2> QED
    BY <2>3
<1>7. Without(q, S) = [j \in 1..n |-> q[nth(j)]]
  BY DEF Without
<1>8. \A j \in 1..n : nth(j) \in 1..Len(q) /\ q[nth(j)] \notin S
  BY <1>6
<1> DEFINE w == Without(q, S)
           f == [j \in 1..n |-> nth(j)]
<1>9. w = [j \in 1..n |-> q[nth(j)]]
  BY <1>7
<1>10. \A i \in 1..Len(q) : q[i] \notin S => i \in kept
  OBVIOUS
<1> HIDE DEF kept, rank, nth, n, w
<1>11. \A j \in 1..n : q[nth(j)] \in T
  BY <1>8
<1>12. w \in Seq(T) /\ Len(w) = n
  BY <1>1, <1>9, <1>11
<1>13. f \in [1..n -> 1..Len(q)]
       /\ \A j \in 1..n : f[j] = nth(j) /\ q[f[j]] \notin S /\ w[j] = q[f[j]]
  BY <1>8, <1>9
<1> HIDE DEF f
<1>14. \A i, j \in 1..n : f[i] = f[j] => i = j
  BY <1>6, <1>13
<1>15. ASSUME NEW i \in kept PROVE \E j \in 1..n : f[j] = i
  <2>1. rank[i] \in 1..n /\ \A k \in kept : rank[k] = rank[i] => k = i
    BY <1>4 DEF Injection, IsInjective
  <2>2. nth(rank[i]) = i
    BY <1>6, <2>1
  <2> QED
    BY <1>13, <2>1, <2>2
<1>16. Picks(f, q, w, S)
  BY <1>10, <1>12, <1>13, <1>14, <1>15 DEF Picks
<1> QED
  BY <1>12, <1>16 DEF w

\* The members of Without(q, S) are members of q outside S.
LEMMA WithoutMembers ==
  ASSUME NEW T, NEW q \in Seq(T), NEW S
  PROVE  /\ Without(q, S) \in Seq(T)
         /\ \A j \in 1..Len(Without(q, S)) :
              \E i \in 1..Len(q) : q[i] \notin S /\ Without(q, S)[j] = q[i]
<1>1. PICK f : Picks(f, q, Without(q, S), S)
  BY WithoutPicks
<1>2. ASSUME NEW j \in 1..Len(Without(q, S))
      PROVE  \E i \in 1..Len(q) : q[i] \notin S /\ Without(q, S)[j] = q[i]
  BY <1>1 DEF Picks
<1> QED
  BY <1>2, WithoutPicks

-----------------------------------------------------------------------------
(* What the operations do to the blocks *)

\* Blocks of the pool go to r.
Takes(r) ==
  \E B \in SUBSET pool :
    /\ pool' = pool \ B
    /\ held' = [held EXCEPT ![r] = @ \cup B]
    /\ UNCHANGED deferred

\* All blocks of r go to the pool.
Returns(r) ==
  /\ held' = [held EXCEPT ![r] = {}]
  /\ pool' = pool \cup held[r]
  /\ UNCHANGED deferred

\* All blocks of r wait for the last step scheduled.
Defers(r) ==
  /\ held' = [held EXCEPT ![r] = {}]
  /\ deferred' = Append(deferred, [fence |-> schedSeq, blocks |-> held[r]])
  /\ UNCHANGED pool

LEMMA FreeCases ==
  ASSUME Shape, NEW r \in Requests, FreeRequestBlocks(r)
  PROVE  \/ (CanFree(r) \/ held[r] = {}) /\ Returns(r)
         \/ Defers(r)
<1>1. CASE CanFree(r)
  BY <1>1 DEF FreeRequestBlocks, Returns
<1>2. CASE ~CanFree(r) /\ held[r] = {}
  BY <1>2 DEF FreeRequestBlocks, Returns
<1>3. CASE ~CanFree(r) /\ held[r] # {}
  BY <1>3 DEF FreeRequestBlocks, Defers
<1> QED
  BY <1>1, <1>2, <1>3

LEMMA AllocateTakes ==
  ASSUME NEW r, NEW n, Allocate(r, n) PROVE Takes(r)
BY DEF Allocate, Takes

\* An operation that leaves the steps in flight and the fences of the requests
\* alone, and moves blocks of one request at most.
Steady ==
  /\ UNCHANGED <<conf, seqVars, steps>>
  /\ (phase = "output") <=> (phase' = "output")
  /\ \A q \in Requests :
       status'[q] \in Early =>
         held'[q] = {} \/ (status[q] \in Early /\ held'[q] \subseteq held[q] \cup pool)

Moves(r) ==
  \/ Takes(r)
  \/ FreeRequestBlocks(r)
  \/ Returns(r) /\ status[r] \in Early

Turn == Steady /\ (UNCHANGED blockVars \/ \E r \in Requests : Moves(r))

LEMMA TakesOwned ==
  ASSUME Shape, Owned, NEW r \in Requests, Takes(r) PROVE Owned'
<1>1. PICK B \in SUBSET pool :
        /\ pool' = pool \ B
        /\ held' = [held EXCEPT ![r] = @ \cup B]
        /\ UNCHANGED deferred
  BY DEF Takes
<1>2. DeferredBlocks' = DeferredBlocks
  BY <1>1 DEF DeferredBlocks
<1>3. held'[r] = held[r] \cup B /\ \A q \in Requests : q # r => held'[q] = held[q]
  BY <1>1 DEF Shape
<1>4. UNION {held'[q] : q \in Requests} = B \cup UNION {held[q] : q \in Requests}
  BY <1>3
<1>5. pool' \cup DeferredBlocks \cup UNION {held'[q] : q \in Requests} = Blocks
  BY <1>1, <1>4 DEF Owned, BlocksConserved
<1>6. pool' \cap DeferredBlocks = {}
  BY <1>1 DEF Owned, BlocksConserved
<1>7. \A q \in Requests : held'[q] \cap (pool' \cup DeferredBlocks) = {}
  BY <1>1, <1>3 DEF Owned, BlocksConserved
<1>8. ASSUME NEW p \in Requests, NEW q \in Requests, p # q
      PROVE  held'[p] \cap held'[q] = {}
  BY <1>1, <1>3, <1>8 DEF Owned, BlocksConserved
<1> QED
  BY <1>1, <1>2, <1>5, <1>6, <1>7, <1>8 DEF Owned, BlocksConserved

LEMMA ReturnsOwned ==
  ASSUME Shape, Owned, NEW r \in Requests, Returns(r) PROVE Owned'
<1>1. DeferredBlocks' = DeferredBlocks /\ deferred' = deferred
  BY DEF Returns, DeferredBlocks
<1>2. held'[r] = {} /\ \A q \in Requests : q # r => held'[q] = held[q]
  BY DEF Shape, Returns
<1>3. pool' = pool \cup held[r]
  BY DEF Returns
<1>4. held[r] \cup UNION {held'[q] : q \in Requests} = UNION {held[q] : q \in Requests}
  BY <1>2
<1>5. pool' \cup DeferredBlocks \cup UNION {held'[q] : q \in Requests} = Blocks
  BY <1>3, <1>4 DEF Owned, BlocksConserved
<1>6. pool' \cap DeferredBlocks = {}
  BY <1>3 DEF Owned, BlocksConserved
<1>7. \A q \in Requests : held'[q] \cap (pool' \cup DeferredBlocks) = {}
  BY <1>2, <1>3 DEF Owned, BlocksConserved
<1>8. \A p, q \in Requests : p # q => held'[p] \cap held'[q] = {}
  BY <1>2 DEF Owned, BlocksConserved
<1> QED
  BY <1>1, <1>5, <1>6, <1>7, <1>8 DEF Owned, BlocksConserved

LEMMA DefersOwned ==
  ASSUME Shape, Owned, NEW r \in Requests, Defers(r) PROVE Owned'
<1>1. /\ Len(deferred') = Len(deferred) + 1
      /\ deferred'[Len(deferred) + 1].blocks = held[r]
      /\ \A i \in 1..Len(deferred) : deferred'[i] = deferred[i]
  <2>1. deferred \in Seq(Entry)
    BY DEF Shape
  <2>2. deferred' = Append(deferred, [fence |-> schedSeq, blocks |-> held[r]])
    BY DEF Defers
  <2> QED
    BY <2>1, <2>2
<1>2. Len(deferred) \in Nat
  BY DEF Shape
<1>3. \A i \in 1..Len(deferred') : i \in 1..Len(deferred) \/ i = Len(deferred) + 1
  BY <1>1, <1>2
<1>4. 1..Len(deferred) \subseteq 1..Len(deferred') /\ Len(deferred) + 1 \in 1..Len(deferred')
  BY <1>1, <1>2
<1>5. DeferredBlocks' = DeferredBlocks \cup held[r]
  <2>1. DeferredBlocks' \subseteq DeferredBlocks \cup held[r]
    BY <1>1, <1>3 DEF DeferredBlocks
  <2>2. DeferredBlocks \cup held[r] \subseteq DeferredBlocks'
    BY <1>1, <1>4 DEF DeferredBlocks
  <2> QED
    BY <2>1, <2>2
<1>6. held'[r] = {} /\ (\A q \in Requests : q # r => held'[q] = held[q]) /\ pool' = pool
  BY DEF Shape, Defers
<1>7. held[r] \cup UNION {held'[q] : q \in Requests} = UNION {held[q] : q \in Requests}
  BY <1>6
<1>8. pool' \cup DeferredBlocks' \cup UNION {held'[q] : q \in Requests} = Blocks
  BY <1>5, <1>6, <1>7 DEF Owned, BlocksConserved
<1>9. pool' \cap DeferredBlocks' = {}
  BY <1>5, <1>6 DEF Owned, BlocksConserved
<1>10. \A q \in Requests : held'[q] \cap (pool' \cup DeferredBlocks') = {}
  BY <1>5, <1>6 DEF Owned, BlocksConserved
<1>11. \A p, q \in Requests : p # q => held'[p] \cap held'[q] = {}
  BY <1>6 DEF Owned, BlocksConserved
<1>12. ASSUME NEW i \in 1..Len(deferred'), NEW j \in 1..Len(deferred'), i # j
       PROVE  deferred'[i].blocks \cap deferred'[j].blocks = {}
  <2>1. \A k \in 1..Len(deferred) : deferred[k].blocks \cap held[r] = {}
    BY DEF Owned, BlocksConserved, DeferredBlocks
  <2> QED
    BY <1>1, <1>3, <1>12, <2>1 DEF Owned
<1> QED
  BY <1>8, <1>9, <1>10, <1>11, <1>12 DEF Owned, BlocksConserved

LEMMA TurnOwned ==
  ASSUME Shape, Owned, Turn PROVE Owned'
<1>1. CASE UNCHANGED blockVars
  BY <1>1 DEF blockVars, Owned, BlocksConserved, DeferredBlocks
<1>2. CASE \E r \in Requests : Moves(r)
  BY <1>2, FreeCases, TakesOwned, ReturnsOwned, DefersOwned DEF Moves
<1> QED
  BY <1>1, <1>2 DEF Turn

-----------------------------------------------------------------------------
(* The fence *)

\* A step in flight is younger than the last one processed.
LEMMA SeqOfInFlight ==
  ASSUME Shape, Control
  PROVE  /\ procSeq \in Nat /\ Len(steps) \in Nat /\ Done \in {0, 1}
         /\ \A i \in 1..Len(steps) : SeqOf(i) \in Int
         /\ \A i \in InFlight : /\ i \in 1..Len(steps) /\ SeqOf(i) > procSeq
                                /\ SeqOf(i) <= procSeq + Len(steps) - Done
<1>1. procSeq \in Nat /\ Len(steps) \in Nat /\ Done \in {0, 1}
  BY DEF Shape, Done
<1>2. \A i \in 1..Len(steps) : SeqOf(i) \in Int
  BY <1>1 DEF SeqOf
<1>3. ASSUME NEW i \in InFlight
      PROVE  /\ i \in 1..Len(steps) /\ SeqOf(i) > procSeq
             /\ SeqOf(i) <= procSeq + Len(steps) - Done
  <2>1. i \in 1..Len(steps) /\ i - Done >= 1
    BY <1>1 DEF InFlight, Done
  <2> QED
    BY <1>1, <2>1 DEF SeqOf
<1> QED
  BY <1>1, <1>2, <1>3

\* A step in flight writes no free block.
LEMMA NoWriteToPool ==
  ASSUME Shape, Owned, Fenced, conf.defer, NEW i \in InFlight, NEW r \in Requests
  PROVE  steps[i].writes[r] \cap pool = {}
<1>1. ASSUME NEW b \in steps[i].writes[r]
      PROVE  b \notin pool
  <2>1. b \in held[r] \/ b \in DeferredBlocks
    BY <1>1 DEF Fenced, Guarded, DeferredBlocks
  <2> QED
    BY <2>1 DEF Owned, BlocksConserved
<1> QED
  BY <1>1

\* What guards the steps in flight survives an operation on one request.
LEMMA TurnGuards ==
  ASSUME Shape, Control, Owned, Fenced, conf.defer, Turn,
         NEW i \in InFlight, NEW q \in Requests, NEW b \in steps[i].writes[q]
  PROVE  Guarded(i, q, b)'
<1>1. Guarded(i, q, b)
  BY DEF Fenced
<1>2. SeqOf(i)' = SeqOf(i) /\ lastSeq' = lastSeq /\ schedSeq' = schedSeq
  BY DEF Turn, Steady, seqVars, SeqOf, Done
<1>3. CASE UNCHANGED blockVars
  BY <1>1, <1>2, <1>3 DEF blockVars, Guarded
<1>4. CASE \E r \in Requests : Takes(r)
  <2>1. PICK r \in Requests : Takes(r)
    BY <1>4
  <2>2. held[q] \subseteq held'[q] /\ deferred' = deferred
    BY <2>1 DEF Takes, Shape
  <2> QED
    BY <1>1, <1>2, <2>2 DEF Guarded
<1>5. CASE \E r \in Requests : Returns(r) /\ (status[r] \in Early \/ CanFree(r) \/ held[r] = {})
  <2>1. PICK r \in Requests : Returns(r) /\ (status[r] \in Early \/ CanFree(r) \/ held[r] = {})
    BY <1>5
  <2>2. deferred' = deferred /\ (q # r => held'[q] = held[q])
    BY <2>1 DEF Returns, Shape
  <2>3. CASE q # r
    BY <1>1, <1>2, <2>2, <2>3 DEF Guarded
  <2>4. CASE q = r
    <3>1. ~(b \in held[q] /\ lastSeq[q] >= SeqOf(i))
      <4>1. CASE status[r] \in Early
        BY <4>1, <2>4 DEF Fenced
      <4>2. CASE CanFree(r)
        <5>1. lastSeq[q] <= procSeq /\ lastSeq[q] \in Nat
          BY <4>2, <2>4 DEF CanFree, Shape
        <5> QED
          BY <5>1, SeqOfInFlight
      <4>3. CASE held[r] = {}
        BY <4>3, <2>4
      <4> QED
        BY <2>1, <4>1, <4>2, <4>3
    <3> QED
      BY <1>1, <1>2, <2>2, <3>1 DEF Guarded
  <2> QED
    BY <2>3, <2>4
<1>6. CASE \E r \in Requests : Defers(r)
  <2>1. PICK r \in Requests : Defers(r)
    BY <1>6
  <2>2. /\ Len(deferred') = Len(deferred) + 1 /\ Len(deferred) \in Nat
        /\ deferred'[Len(deferred) + 1] = [fence |-> schedSeq, blocks |-> held[r]]
        /\ \A d \in 1..Len(deferred) : deferred'[d] = deferred[d]
    <3>1. deferred \in Seq(Entry)
      BY DEF Shape
    <3>2. deferred' = Append(deferred, [fence |-> schedSeq, blocks |-> held[r]])
      BY <2>1 DEF Defers
    <3> QED
      BY <3>1, <3>2
  <2>3. q # r => held'[q] = held[q]
    BY <2>1 DEF Defers, Shape
  <2>4. 1..Len(deferred) \subseteq 1..Len(deferred') /\ Len(deferred) + 1 \in 1..Len(deferred')
    BY <2>2
  <2>5. CASE \E d \in 1..Len(deferred) :
               b \in deferred[d].blocks /\ deferred[d].fence >= SeqOf(i)
    <3>1. \E d \in 1..Len(deferred') :
            b \in deferred'[d].blocks /\ deferred'[d].fence >= SeqOf(i)
      BY <2>2, <2>4, <2>5
    <3> QED
      BY <1>2, <3>1 DEF Guarded
  <2>6. CASE b \in held[q] /\ lastSeq[q] >= SeqOf(i) /\ q # r
    BY <1>2, <2>3, <2>6 DEF Guarded
  <2>7. CASE b \in held[q] /\ q = r
    <3>1. schedSeq >= SeqOf(i)
      BY SeqOfInFlight DEF Fenced
    <3> DEFINE d == Len(deferred) + 1
    <3>2. /\ d \in 1..Len(deferred') /\ b \in deferred'[d].blocks
          /\ deferred'[d].fence = schedSeq
      BY <2>2, <2>4, <2>7
    <3> HIDE DEF d
    <3>3. \E e \in 1..Len(deferred') :
            b \in deferred'[e].blocks /\ deferred'[e].fence >= SeqOf(i)
      BY <3>1, <3>2
    <3> QED
      BY <1>2, <3>3 DEF Guarded
  <2> QED
    BY <1>1, <2>5, <2>6, <2>7 DEF Guarded
<1> QED
  BY <1>3, <1>4, <1>5, <1>6, FreeCases DEF Turn, Moves

LEMMA TurnFenced ==
  ASSUME Shape, Control, Owned, Fenced, Turn PROVE Fenced'
<1>1. steps' = steps /\ InFlight' = InFlight /\ Done' = Done /\ conf' = conf
  BY DEF Turn, Steady, InFlight, Done
<1>2. CASE ~conf.defer
  BY <1>1, <1>2 DEF Fenced
<1>3. CASE conf.defer
  <2>1. schedSeq' = procSeq' + Len(steps') - Done'
    BY <1>1, <1>3 DEF Fenced, Turn, Steady, seqVars
  <2>2. \A i \in InFlight' : \A r \in Requests : \A b \in steps'[i].writes[r] :
          Guarded(i, r, b)'
    BY <1>1, <1>3, TurnGuards
  <2>3. ASSUME NEW i \in InFlight, NEW r \in Requests, status'[r] \in Early
        PROVE  steps[i].writes[r] \cap held'[r] = {}
    <3>1. held'[r] = {} \/ (status[r] \in Early /\ held'[r] \subseteq held[r] \cup pool)
      BY <2>3 DEF Turn, Steady
    <3>2. status[r] \in Early => steps[i].writes[r] \cap held[r] = {}
      BY <1>3 DEF Fenced
    <3> QED
      BY <1>3, <3>1, <3>2, NoWriteToPool
  <2> QED
    BY <1>1, <2>1, <2>2, <2>3 DEF Fenced
<1> QED
  BY <1>2, <1>3

-----------------------------------------------------------------------------
(* The end of schedule() and the two ends of update_from_output() *)

\* Scheduling hands the batch over; the blocks it writes are fenced by it.
LEMMA FinishFenced ==
  ASSUME Shape, Control, Owned, Fenced, FinishSchedule PROVE Owned' /\ Fenced'
<1>1. Owned'
  <2>1. UNCHANGED blockVars
    BY DEF FinishSchedule
  <2> QED
    BY <2>1 DEF blockVars, Owned, BlocksConserved, DeferredBlocks
<1>2. conf' = conf /\ held' = held /\ deferred' = deferred /\ status' = status /\ procSeq' = procSeq
  BY DEF FinishSchedule, blockVars
<1>3. /\ Done = 0 /\ Done' = 0 /\ InFlight = 1..Len(steps) /\ InFlight' = 1..Len(steps')
      /\ \A i \in Int : SeqOf(i)' = SeqOf(i)
  BY DEF FinishSchedule, Done, InFlight, SeqOf
<1>4. CASE ~conf.defer
  BY <1>1, <1>2, <1>4 DEF Fenced
<1>5. CASE conf.defer
  <2>1. procSeq \in Nat /\ Len(steps) \in Nat /\ schedSeq = procSeq + Len(steps)
    BY <1>3, <1>5 DEF Shape, Fenced
  <2>2. CASE Scheduled = {}
    <3>1. steps' = steps /\ schedSeq' = schedSeq
      BY <2>2 DEF FinishSchedule
    <3>2. \A r \in Requests : lastSeq'[r] = lastSeq[r]
      BY <2>2 DEF FinishSchedule
    <3>3. \A i \in InFlight : \A r \in Requests : \A b : Guarded(i, r, b) => Guarded(i, r, b)'
      <4>1. \A i \in InFlight : SeqOf(i)' = SeqOf(i)
        BY <1>3
      <4> QED
        BY <1>2, <3>2, <4>1 DEF Guarded
    <3> QED
      BY <1>1, <1>2, <1>3, <1>5, <3>1, <3>3 DEF Fenced
  <2>3. CASE Scheduled # {}
    <3>1. schedSeq' = schedSeq + 1
      BY <1>5, <2>3 DEF FinishSchedule
    <3>2. \A r \in Requests : lastSeq'[r] = IF r \in Scheduled THEN schedSeq + 1 ELSE lastSeq[r]
      BY <1>5, <3>1 DEF FinishSchedule
    <3>3. PICK out :
            /\ steps' = Append(steps, out)
            /\ \A r \in Requests : out.writes[r] = IF r \in Scheduled THEN held[r] ELSE {}
      <4>1. PICK last :
              steps' = Append(steps, [batch EXCEPT !.last = last,
                                        !.writes = [r \in Requests |->
                                          IF r \in Scheduled THEN held[r] ELSE {}]])
        BY <2>3 DEF FinishSchedule
      <4> DEFINE out == [batch EXCEPT !.last = last,
                           !.writes = [r \in Requests |->
                             IF r \in Scheduled THEN held[r] ELSE {}]]
      <4>2. batch \in BatchShape
        BY DEF Shape
      <4>3. out.writes = [r \in Requests |-> IF r \in Scheduled THEN held[r] ELSE {}]
        BY <4>2 DEF BatchShape
      <4>4. steps' = Append(steps, out)
        BY <4>1
      <4> HIDE DEF out
      <4> QED
        BY <4>3, <4>4
    <3>4. /\ Len(steps') = Len(steps) + 1 /\ steps'[Len(steps) + 1] = out
          /\ \A i \in 1..Len(steps) : steps'[i] = steps[i]
      BY <3>3 DEF Shape
    <3> PICK m \in Int : m = Len(steps) + 1
      BY <2>1
    <3>5. \A i \in 1..Len(steps') : i \in 1..Len(steps) \/ i = m
      BY <2>1, <3>4
    <3>6. \A i \in 1..Len(steps) : SeqOf(i) <= schedSeq
      BY <1>3, <2>1 DEF SeqOf
    <3>7. SeqOf(m)' = schedSeq + 1
      <4>1. SeqOf(m) = schedSeq + 1
        BY <1>3, <2>1 DEF SeqOf
      <4> QED
        BY <1>3, <4>1
    <3>8. schedSeq \in Nat /\ \A i \in 1..Len(steps) : SeqOf(i) \in Int /\ SeqOf(i)' = SeqOf(i)
      <4>1. schedSeq \in Nat /\ \A i \in 1..Len(steps) : SeqOf(i) \in Int
        BY <1>3, <2>1 DEF SeqOf
      <4>2. \A i \in 1..Len(steps) : i \in Int
        OBVIOUS
      <4> QED
        BY <1>3, <4>1, <4>2
    <3>9. ASSUME NEW i \in 1..Len(steps), NEW r \in Requests, NEW b, Guarded(i, r, b)
          PROVE  Guarded(i, r, b)'
      <4>1. CASE b \in held[r] /\ lastSeq[r] >= SeqOf(i)
        <5>1. schedSeq + 1 >= SeqOf(i)
          BY <3>6, <3>8
        <5>2. lastSeq'[r] >= SeqOf(i)
          BY <3>2, <4>1, <5>1
        <5> QED
          BY <1>2, <3>8, <4>1, <5>2 DEF Guarded
      <4>2. CASE \E d \in 1..Len(deferred) :
                   b \in deferred[d].blocks /\ deferred[d].fence >= SeqOf(i)
        BY <1>2, <3>8, <4>2 DEF Guarded
      <4> QED
        BY <3>9, <4>1, <4>2 DEF Guarded
    <3>10. ASSUME NEW r \in Requests, NEW b \in out.writes[r]
           PROVE  Guarded(m, r, b)'
      <4>1. r \in Scheduled /\ b \in held'[r]
        BY <1>2, <3>3, <3>10
      <4>2. schedSeq + 1 >= schedSeq + 1
        BY <3>8
      <4>3. lastSeq'[r] >= SeqOf(m)'
        BY <3>2, <3>7, <4>1, <4>2
      <4> QED
        BY <4>1, <4>3 DEF Guarded
    <3>11. \A r \in Requests : status[r] \in Early => out.writes[r] = {}
      BY <3>3 DEF Control, Scheduled, Early
    <3>12. schedSeq' = procSeq' + Len(steps') - Done'
      <4>1. schedSeq + 1 = procSeq + (Len(steps) + 1) - 0
        BY <2>1
      <4> QED
        BY <1>2, <1>3, <3>1, <3>4, <4>1
    <3>13. \A i \in 1..Len(steps') : \A r \in Requests : \A b \in steps'[i].writes[r] :
             Guarded(i, r, b)'
      <4>1. \A i \in 1..Len(steps) : \A r \in Requests : \A b \in steps[i].writes[r] :
              Guarded(i, r, b)
        BY <1>3, <1>5 DEF Fenced
      <4>2. steps'[m] = out
        BY <3>4
      <4> QED
        BY <3>4, <3>5, <3>9, <3>10, <4>1, <4>2
    <3>14. \A i \in 1..Len(steps') : \A r \in Requests :
             status[r] \in Early => steps'[i].writes[r] \cap held[r] = {}
      <4>1. \A i \in 1..Len(steps) : \A r \in Requests :
              status[r] \in Early => steps[i].writes[r] \cap held[r] = {}
        BY <1>3, <1>5 DEF Fenced
      <4>2. steps'[m] = out
        BY <3>4
      <4> QED
        BY <3>4, <3>5, <3>11, <4>1, <4>2
    <3> QED
      BY <1>1, <1>2, <1>3, <3>12, <3>13, <3>14 DEF Fenced
  <2> QED
    BY <2>2, <2>3
<1> QED
  BY <1>1, <1>4, <1>5

\* Draining the front of the list moves blocks to the pool.
LEMMA DrainOwned ==
  ASSUME Shape, Owned, NEW k \in 0..Len(deferred), NEW done, Drain(k, done)
  PROVE  /\ Owned'
         /\ Len(deferred') = Len(deferred) - k
         /\ \A d \in 1..(Len(deferred) - k) : deferred'[d] = deferred[d + k]
<1>1. deferred \in Seq(Entry) /\ Len(deferred) \in Nat
  BY DEF Shape
<1>2. deferred' = SubSeq(deferred, k + 1, Len(deferred))
  BY DEF Drain
<1>3. Len(deferred') = Len(deferred) - k
  BY <1>1, <1>2, SubSeqProperties
<1>4. ASSUME NEW d \in 1..(Len(deferred) - k)
      PROVE  deferred'[d] = deferred[d + k]
  <2>1. SubSeq(deferred, k + 1, Len(deferred))[d] = deferred[(k + 1) + d - 1]
    BY <1>1, SubSeqProperties
  <2>2. (k + 1) + d - 1 = d + k
    OBVIOUS
  <2> QED
    BY <1>2, <2>1, <2>2
<1> DEFINE freed == UNION {deferred[i].blocks : i \in 1..k}
<1>5. pool' = pool \cup freed /\ held' = held
  BY DEF Drain
<1>6. \A d \in 1..Len(deferred') : d + k \in 1..Len(deferred) /\ deferred'[d] = deferred[d + k]
  BY <1>1, <1>3, <1>4
<1>7. \A d \in 1..Len(deferred) :
        d \in 1..k \/ (d - k \in 1..Len(deferred') /\ deferred'[d - k] = deferred[d])
  <2>1. \A d \in 1..Len(deferred) :
          d \in 1..k \/ (d - k \in 1..(Len(deferred) - k) /\ (d - k) + k = d)
    BY <1>1
  <2> QED
    BY <1>3, <1>4, <2>1
<1>8. DeferredBlocks = freed \cup DeferredBlocks'
  <2>1. freed \subseteq DeferredBlocks
    BY <1>1 DEF DeferredBlocks
  <2>2. DeferredBlocks' \subseteq DeferredBlocks
    BY <1>6 DEF DeferredBlocks
  <2>3. DeferredBlocks \subseteq freed \cup DeferredBlocks'
    BY <1>7 DEF DeferredBlocks
  <2> QED
    BY <2>1, <2>2, <2>3
<1>9. freed \cap DeferredBlocks' = {}
  <2>1. \A i \in 1..k : \A d \in 1..Len(deferred') :
          i # d + k /\ i \in 1..Len(deferred)
    BY <1>1, <1>3
  <2>2. \A i \in 1..k : \A d \in 1..Len(deferred') :
          deferred[i].blocks \cap deferred'[d].blocks = {}
    BY <1>6, <2>1 DEF Owned
  <2> QED
    BY <2>2 DEF DeferredBlocks
<1>10. \A i, j \in 1..Len(deferred') :
         i # j => deferred'[i].blocks \cap deferred'[j].blocks = {}
  <2>1. \A i, j \in 1..Len(deferred') : i # j => i + k # j + k
    BY <1>1, <1>3
  <2> QED
    BY <1>6, <2>1 DEF Owned
<1> HIDE DEF freed
<1>11. BlocksConserved'
  BY <1>5, <1>8, <1>9 DEF Owned, BlocksConserved
<1> QED
  BY <1>3, <1>4, <1>10, <1>11 DEF Owned

\* The oldest step is processed: what only it could write is freed.
LEMMA BeginUpdateFenced ==
  ASSUME Shape, Control, Owned, Fenced, BeginUpdate PROVE Owned' /\ Fenced'
<1>1. CASE ~conf.defer
  <2>1. UNCHANGED blockVars /\ conf' = conf
    BY <1>1 DEF BeginUpdate
  <2> QED
    BY <1>1, <2>1 DEF blockVars, Owned, BlocksConserved, DeferredBlocks, Fenced
<1>2. CASE conf.defer
  <2>1. /\ procSeq' = procSeq + 1 /\ conf' = conf /\ steps' = steps /\ status' = status
        /\ lastSeq' = lastSeq /\ schedSeq' = schedSeq /\ Done = 0 /\ Done' = 1
    BY <1>2 DEF BeginUpdate, reqVars, Done
  <2>2. PICK k \in 0..Len(deferred) : Drain(k, procSeq')
    BY <1>2 DEF BeginUpdate
  <2>3. /\ Owned' /\ Len(deferred') = Len(deferred) - k
        /\ \A d \in 1..(Len(deferred) - k) : deferred'[d] = deferred[d + k]
    BY <2>2, DrainOwned
  <2>4. held' = held /\ \A d \in 1..k : deferred[d].fence <= procSeq + 1
    BY <2>1, <2>2 DEF Drain
  <2>5. procSeq \in Nat /\ Len(steps) \in Nat /\ Len(deferred) \in Nat
    BY DEF Shape
  <2>6. \A i \in Int : SeqOf(i)' = SeqOf(i)
    <3>1. \A i \in Int : SeqOf(i)' = procSeq' + i - Done'
      BY DEF SeqOf
    <3>2. \A i \in Int : (procSeq + 1) + i - 1 = procSeq + i - 0
      BY <2>5
    <3> QED
      BY <2>1, <3>1, <3>2 DEF SeqOf
  <2>7. InFlight' \subseteq InFlight
    BY <2>1 DEF InFlight, BeginUpdate
  <2>8. \A i \in InFlight' : i \in Int /\ SeqOf(i) > procSeq + 1 /\ SeqOf(i) \in Int
    <3>1. \A i \in InFlight' : i \in 1..Len(steps) /\ i > 1
      BY <2>1 DEF InFlight, BeginUpdate
    <3> QED
      BY <2>1, <2>5, <3>1 DEF SeqOf
  <2>9. ASSUME NEW i \in InFlight', NEW r \in Requests, NEW b, Guarded(i, r, b)
        PROVE  Guarded(i, r, b)'
    <3>1. SeqOf(i)' = SeqOf(i)
      BY <2>6, <2>8
    <3>2. CASE b \in held[r] /\ lastSeq[r] >= SeqOf(i)
      BY <2>1, <2>4, <3>1, <3>2 DEF Guarded
    <3>3. CASE \E d \in 1..Len(deferred) :
                 b \in deferred[d].blocks /\ deferred[d].fence >= SeqOf(i)
      <4>1. PICK d \in 1..Len(deferred) :
              b \in deferred[d].blocks /\ deferred[d].fence >= SeqOf(i)
        BY <3>3
      <4>2. deferred[d].fence \in Nat
        <5>1. deferred[d] \in Entry
          BY DEF Shape
        <5> QED
          BY <5>1 DEF Entry
      <4>3. d \notin 1..k
        BY <2>4, <2>5, <2>8, <4>1, <4>2
      <4>4. d - k \in 1..(Len(deferred) - k) /\ (d - k) + k = d
        BY <2>5, <4>3
      <4>5. d - k \in 1..Len(deferred') /\ deferred'[d - k] = deferred[d]
        BY <2>3, <4>4
      <4> QED
        BY <3>1, <4>1, <4>5 DEF Guarded
    <3> QED
      BY <2>9, <3>2, <3>3 DEF Guarded
  <2>10. schedSeq' = procSeq' + Len(steps') - Done'
    <3>1. schedSeq = (procSeq + 1) + Len(steps) - 1
      BY <1>2, <2>1, <2>5 DEF Fenced
    <3> QED
      BY <2>1, <3>1
  <2>11. \A i \in InFlight' : \A r \in Requests : \A b \in steps'[i].writes[r] :
           Guarded(i, r, b)'
    BY <1>2, <2>1, <2>7, <2>9 DEF Fenced
  <2>12. \A i \in InFlight' : \A r \in Requests :
           status'[r] \in Early => steps'[i].writes[r] \cap held'[r] = {}
    BY <1>2, <2>1, <2>4, <2>7 DEF Fenced
  <2> QED
    BY <2>3, <2>10, <2>11, <2>12 DEF Fenced
<1> QED
  BY <1>1, <1>2

\* The processed step leaves; the others move up by one.
LEMMA EndUpdateFenced ==
  ASSUME Shape, Control, Owned, Fenced, EndUpdate PROVE Owned' /\ Fenced'
<1>1. UNCHANGED <<held, pool, deferred, conf, status, procSeq, schedSeq, lastSeq>>
  BY DEF EndUpdate, blockVars, reqVars, seqVars
<1>2. Owned'
  BY <1>1 DEF Owned, BlocksConserved, DeferredBlocks
<1>3. CASE ~conf.defer
  BY <1>1, <1>2, <1>3 DEF Fenced
<1>4. CASE conf.defer
  <2>1. Done = 1 /\ Done' = 0 /\ procSeq \in Nat /\ steps \in Seq(BatchShape)
    BY DEF EndUpdate, Done, Shape
  <2>2. steps # << >> /\ steps' = Tail(steps)
    BY DEF Control, EndUpdate
  <2>3. /\ Len(steps) \in Nat \ {0} /\ Len(steps') = Len(steps) - 1
        /\ \A i \in 1..(Len(steps) - 1) : steps'[i] = steps[i + 1]
    BY <2>1, <2>2
  <2>4. \A i \in InFlight' : i + 1 \in InFlight /\ steps'[i] = steps[i + 1]
    <3>1. InFlight' = 1..(Len(steps) - 1)
      BY <2>3 DEF InFlight, EndUpdate
    <3>2. InFlight = {i \in 1..Len(steps) : i > 1}
      BY DEF InFlight, EndUpdate
    <3>3. \A i \in 1..(Len(steps) - 1) : i + 1 \in {j \in 1..Len(steps) : j > 1}
      BY <2>3
    <3> QED
      BY <2>3, <3>1, <3>2, <3>3
  <2>5. \A i \in InFlight' : SeqOf(i)' = SeqOf(i + 1)
    <3>1. \A i \in InFlight' : i \in Int
      BY DEF InFlight
    <3>2. \A i \in Int : procSeq + i - 0 = procSeq + (i + 1) - 1
      BY <2>1
    <3>3. \A i \in InFlight' : SeqOf(i)' = procSeq + i - 0
      BY <1>1, <2>1 DEF SeqOf
    <3> QED
      BY <2>1, <3>1, <3>2, <3>3 DEF SeqOf
  <2>6. \A i \in InFlight' : \A r \in Requests : \A b \in steps'[i].writes[r] :
          Guarded(i, r, b)'
    <3>1. \A i \in InFlight' : \A r \in Requests : \A b \in steps[i + 1].writes[r] :
            Guarded(i + 1, r, b)
      BY <1>4, <2>4 DEF Fenced
    <3>2. \A i \in InFlight' : \A r \in Requests : \A b :
            Guarded(i + 1, r, b) => Guarded(i, r, b)'
      BY <1>1, <2>5 DEF Guarded
    <3> QED
      BY <2>4, <3>1, <3>2
  <2>7. \A i \in InFlight' : \A r \in Requests :
          status'[r] \in Early => steps'[i].writes[r] \cap held'[r] = {}
    BY <1>1, <1>4, <2>4 DEF Fenced
  <2>8. schedSeq' = procSeq' + Len(steps') - Done'
    <3>1. schedSeq = procSeq + (Len(steps) - 1) - 0
      BY <1>4, <2>1, <2>3 DEF Fenced
    <3> QED
      BY <1>1, <2>1, <2>3, <3>1
  <2> QED
    BY <1>2, <2>6, <2>7, <2>8 DEF Fenced
<1> QED
  BY <1>2, <1>3, <1>4

-----------------------------------------------------------------------------
(* The other actions concern one request each *)

\* What they have in common; r is any value when no request is concerned.
Step(r) ==
  /\ UNCHANGED <<conf, seqVars, steps>>
  /\ (phase = "output") <=> (phase' = "output")
  /\ phase \in Building => phase' \in Building
  /\ UNCHANGED blockVars \/ (r \in Requests /\ Moves(r))
  /\ \A q \in Requests :
       q # r => status'[q] = status[q] /\ (batch'.n[q] > 0 => batch.n[q] > 0)
  /\ status'[r] \in Early => status[r] \in Early \/ held'[r] = {}
  /\ status' \in [Requests -> States]
  /\ computed' \in [Requests -> Int] /\ output' \in [Requests -> Int]
  /\ spec' \in [Requests -> Int] /\ holes' \in [Requests -> Int]
  /\ budget' \in Int /\ idx' \in Nat \ {0} /\ batch' \in BatchShape
  /\ ended \subseteq ended' /\ (phase' # "output" => ended' = ended)
  /\ \/ running' = Without(running, {r})
     \/ running' = Append(running, r) /\ r \in Requests /\ status'[r] = "running"
     \/ running' = running /\ (\/ status'[r] = status[r] \/ r \in ended'
                               \/ status[r] # "running" /\ r \notin ended)
  /\ r \in Requests /\ batch'.n[r] > 0 =>
       \/ status'[r] = "running" /\ phase' \in Building
       \/ status'[r] = status[r] /\ batch.n[r] > 0

LEMMA MovesFrame ==
  ASSUME Shape, NEW r \in Requests, Moves(r)
  PROVE  /\ held' \in [Requests -> SUBSET Blocks] /\ pool' \subseteq Blocks
         /\ deferred' \in Seq(Entry)
         /\ held'[r] \subseteq held[r] \cup pool
         /\ \A q \in Requests : q # r => held'[q] = held[q]
<1>1. held \in [Requests -> SUBSET Blocks] /\ pool \subseteq Blocks /\ deferred \in Seq(Entry)
  BY DEF Shape
<1>2. CASE Takes(r)
  BY <1>1, <1>2 DEF Takes
<1>3. CASE Returns(r)
  BY <1>1, <1>3 DEF Returns
<1>4. CASE Defers(r)
  <2>1. [fence |-> schedSeq, blocks |-> held[r]] \in Entry
    BY <1>1 DEF Shape, Entry
  <2>2. deferred' \in Seq(Entry)
    BY <1>1, <1>4, <2>1 DEF Defers
  <2> QED
    BY <1>1, <1>4, <2>2 DEF Defers
<1> QED
  BY <1>2, <1>3, <1>4, FreeCases DEF Moves

LEMMA StepTurn ==
  ASSUME Shape, NEW r, Step(r) PROVE Turn
<1>1. UNCHANGED blockVars \/ \E q \in Requests : Moves(q)
  BY DEF Step
<1>2. ASSUME NEW q \in Requests, status'[q] \in Early
      PROVE  held'[q] = {} \/ (status[q] \in Early /\ held'[q] \subseteq held[q] \cup pool)
  <2>1. CASE q # r
    <3>1. status'[q] = status[q]
      BY <2>1 DEF Step
    <3>2. held'[q] = held[q]
      BY <2>1, MovesFrame DEF Step, blockVars
    <3> QED
      BY <1>2, <3>1, <3>2
  <2>2. CASE q = r
    <3>1. held'[q] \subseteq held[q] \cup pool
      BY <2>2, MovesFrame DEF Step, blockVars
    <3>2. status[q] \in Early \/ held'[q] = {}
      BY <1>2, <2>2 DEF Step
    <3> QED
      BY <3>1, <3>2
  <2> QED
    BY <2>1, <2>2
<1>3. Steady
  BY <1>2 DEF Step, Steady
<1> QED
  BY <1>1, <1>3 DEF Turn

LEMMA StepShape ==
  ASSUME Shape, NEW r, Step(r) PROVE Shape'
<1>1. /\ held' \in [Requests -> SUBSET Blocks] /\ pool' \subseteq Blocks
      /\ deferred' \in Seq(Entry)
  <2>1. CASE held' = held /\ pool' = pool /\ deferred' = deferred
    BY <2>1 DEF Shape
  <2>2. CASE r \in Requests /\ Moves(r)
    BY <2>2, MovesFrame
  <2>3. \/ held' = held /\ pool' = pool /\ deferred' = deferred
        \/ r \in Requests /\ Moves(r)
    BY DEF Step, blockVars
  <2> QED
    BY <2>1, <2>2, <2>3
<1>2. running' \in Seq(Requests)
  <2>1. running \in Seq(Requests)
    BY DEF Shape
  <2>2. Without(running, {r}) \in Seq(Requests)
    BY <2>1, WithoutMembers
  <2>3. \/ running' = Without(running, {r}) \/ running' = running
        \/ running' = Append(running, r) /\ r \in Requests
    BY DEF Step
  <2> QED
    BY <2>1, <2>2, <2>3
<1>3. UNCHANGED <<conf, lastSeq, schedSeq, procSeq, steps>>
  BY DEF Step, seqVars
<1>4. /\ conf' \in Configs /\ lastSeq' \in [Requests -> Nat] /\ schedSeq' \in Nat
      /\ procSeq' \in Nat /\ steps' \in Seq(BatchShape)
  BY <1>3 DEF Shape
<1>5. /\ status' \in [Requests -> States]
      /\ computed' \in [Requests -> Int] /\ output' \in [Requests -> Int]
      /\ spec' \in [Requests -> Int] /\ holes' \in [Requests -> Int]
      /\ budget' \in Int /\ idx' \in Nat \ {0} /\ batch' \in BatchShape
  BY DEF Step
<1> QED
  BY <1>1, <1>2, <1>4, <1>5 DEF Shape

LEMMA StepControl ==
  ASSUME Shape, Control, NEW r, Step(r) PROVE Control'
<1>1. phase' = "output" => steps' # << >>
  BY DEF Step, Control
<1>2. phase' # "output" => ended' = {}
  BY DEF Step, Control
<1>3. \A q \in Requests : q # r => status'[q] = status[q]
  BY DEF Step
<1>4. running \in Seq(Requests)
      /\ \A i \in 1..Len(running) : status[running[i]] = "running" \/ running[i] \in ended
  BY DEF Shape, Control
<1>5. ASSUME NEW i \in 1..Len(running')
      PROVE  status'[running'[i]] = "running" \/ running'[i] \in ended'
  <2>1. ended \subseteq ended'
    BY DEF Step
  <2>2. CASE running' = Without(running, {r})
    <3>1. PICK j \in 1..Len(running) : running[j] # r /\ running'[i] = running[j]
      BY <1>4, <2>2, WithoutMembers
    <3>2. running[j] \in Requests
      BY <1>4
    <3> QED
      BY <1>3, <1>4, <2>1, <3>1, <3>2
  <2>3. CASE running' = Append(running, r) /\ r \in Requests /\ status'[r] = "running"
    <3>1. running'[i] = r \/ (i \in 1..Len(running) /\ running'[i] = running[i])
      BY <1>4, <2>3
    <3>2. CASE running'[i] = r
      BY <2>3, <3>2
    <3>3. CASE running'[i] # r /\ i \in 1..Len(running) /\ running'[i] = running[i]
      <4>1. running[i] \in Requests
        BY <1>4, <3>3
      <4> QED
        BY <1>3, <1>4, <2>1, <3>3, <4>1
    <3> QED
      BY <3>1, <3>2, <3>3
  <2>4. CASE running' = running /\ (\/ status'[r] = status[r] \/ r \in ended'
                                    \/ status[r] # "running" /\ r \notin ended)
    <3>1. i \in 1..Len(running) /\ running'[i] = running[i] /\ running[i] \in Requests
      BY <1>4, <2>4
    <3> QED
      BY <1>3, <1>4, <2>1, <2>4, <3>1
  <2> QED
    BY <2>2, <2>3, <2>4 DEF Step
<1>6. ASSUME NEW q \in Requests, batch'.n[q] > 0
      PROVE  phase' \in Building /\ status'[q] = "running"
  <2>1. CASE q # r
    <3>1. status'[q] = status[q] /\ batch.n[q] > 0
      BY <1>6, <2>1 DEF Step
    <3> QED
      BY <1>6, <3>1 DEF Step, Control
  <2>2. CASE q = r
    BY <1>6, <2>2 DEF Step, Control
  <2> QED
    BY <2>1, <2>2
<1> QED
  BY <1>1, <1>2, <1>5, <1>6 DEF Control

-----------------------------------------------------------------------------
(* The batch being built *)

LEMMA NoBatchShape == NoBatch \in BatchShape /\ \A q \in Requests : ~(NoBatch.n[q] > 0)
BY DEF NoBatch, BatchShape, NoTokens

LEMMA Constants ==
  /\ \A r \in Requests : PromptLen[r] \in Int /\ RemoteHit[r] \in Int
  /\ BlockSize \in Int /\ MaxTokens \in Int /\ Budget \in Int /\ NumSpec \in Int
  /\ Lookahead \in Int /\ MaxModelLen \in Int /\ VerifyLens \subseteq Int
<1>1. {NumSpec, Lookahead, MaxInFlight, MaxRunning, MaxModelLen, MaxFaults} \subseteq Nat
  BY SizesAssumption
<1>2. NumSpec \in Nat /\ Lookahead \in Nat /\ MaxModelLen \in Nat
  BY <1>1
<1>3. VerifyLens \subseteq Int
  BY SizesAssumption, <1>2
<1>4. \A r \in Requests : PromptLen[r] \in Int /\ RemoteHit[r] \in Int
  BY SizesAssumption
<1>5. BlockSize \in Int /\ MaxTokens \in Int /\ Budget \in Int
  BY SizesAssumption
<1> QED
  BY <1>2, <1>3, <1>4, <1>5

-----------------------------------------------------------------------------
(* Actions that move no block and change no status *)

LEMMA QuietStep ==
  ASSUME Shape, Control, NEW r,
         UNCHANGED <<conf, status, running, blockVars, seqVars, steps, ended>>,
         (phase = "output") <=> (phase' = "output"),
         phase \in Building => phase' \in Building,
         computed' \in [Requests -> Int], output' \in [Requests -> Int],
         spec' \in [Requests -> Int], holes' \in [Requests -> Int], budget' \in Int,
         idx' \in Nat \ {0}, batch' \in {batch, NoBatch}
  PROVE  Step(r)
<1>1. batch' \in BatchShape /\ \A q \in Requests : batch'.n[q] > 0 => batch.n[q] > 0
  <2>1. batch \in BatchShape
    BY DEF Shape
  <2>2. CASE batch' = batch
    BY <2>1, <2>2
  <2>3. CASE batch' = NoBatch
    BY <2>3, NoBatchShape
  <2> QED
    BY <2>2, <2>3
<1>2. status' = status /\ status' \in [Requests -> States]
  BY DEF Shape
<1> QED
  BY <1>1, <1>2 DEF Step

LEMMA QuietActions ==
  ASSUME Shape, Control, NEW r,
         \/ BeginReset \/ EndReset \/ BeginSchedule \/ LeaveRunning \/ LeaveWaiting
         \/ r \in Requests /\ (\/ PassRunning(r) \/ PassWaiting(r) \/ LoadFails(r)
                               \/ IgnoreOutput(r) \/ ChunkOutput(r))
  PROVE  Step(r)
<1> USE DEF reqVars, queueVars, passVars, outVars, Building
<1>1. /\ computed \in [Requests -> Int] /\ output \in [Requests -> Int]
      /\ spec \in [Requests -> Int] /\ holes \in [Requests -> Int] /\ budget \in Int
      /\ idx \in Nat \ {0}
  BY DEF Shape
<1>2. CASE BeginReset
  <2>1. /\ UNCHANGED <<conf, status, running, blockVars, seqVars, steps, ended>>
        /\ UNCHANGED <<computed, output, spec, holes, budget, idx, batch>>
        /\ phase = "idle" /\ phase' = "reset"
    BY <1>2 DEF BeginReset
  <2> QED
    BY <1>1, <2>1, QuietStep
<1>3. CASE EndReset
  <2>1. /\ UNCHANGED <<conf, status, running, blockVars, seqVars, steps, ended>>
        /\ UNCHANGED <<computed, output, spec, holes, budget, idx, batch>>
        /\ phase = "reset" /\ phase' = "idle"
    BY <1>3 DEF EndReset
  <2> QED
    BY <1>1, <2>1, QuietStep
<1>4. CASE BeginSchedule
  <2>1. /\ UNCHANGED <<conf, status, running, blockVars, seqVars, steps, ended>>
        /\ UNCHANGED <<computed, output, spec, holes>>
        /\ budget' = Budget /\ idx' = 1 /\ batch' = NoBatch
        /\ phase = "idle" /\ phase' = "running"
    BY <1>4 DEF BeginSchedule
  <2>2. budget' \in Int
    BY <2>1, Constants
  <2> QED
    BY <1>1, <2>1, <2>2, QuietStep
<1>5. CASE LeaveRunning
  <2>1. /\ UNCHANGED <<conf, status, running, blockVars, seqVars, steps, ended>>
        /\ UNCHANGED <<computed, output, spec, holes, budget, idx, batch>>
        /\ phase = "running" /\ phase' \in {"waiting", "finish"}
    BY <1>5 DEF LeaveRunning
  <2> QED
    BY <1>1, <2>1, QuietStep
<1>6. CASE LeaveWaiting
  <2>1. /\ UNCHANGED <<conf, status, running, blockVars, seqVars, steps, ended>>
        /\ UNCHANGED <<computed, output, spec, holes, budget, idx, batch>>
        /\ phase = "waiting" /\ phase' = "finish"
    BY <1>6 DEF LeaveWaiting
  <2> QED
    BY <1>1, <2>1, QuietStep
<1>7. CASE r \in Requests /\ PassRunning(r)
  <2>1. /\ UNCHANGED <<conf, status, running, blockVars, seqVars, steps, ended, phase>>
        /\ UNCHANGED <<computed, output, spec, holes, budget, batch>>
        /\ idx' = idx + 1
    BY <1>7 DEF PassRunning
  <2>2. idx' \in Nat \ {0}
    BY <1>1, <2>1
  <2> QED
    BY <1>1, <2>1, <2>2, QuietStep
<1>8. CASE r \in Requests /\ PassWaiting(r)
  <2>1. /\ UNCHANGED <<conf, status, running, blockVars, seqVars, steps, ended, phase>>
        /\ UNCHANGED <<computed, output, spec, holes, budget, idx, batch>>
    BY <1>8 DEF PassWaiting
  <2> QED
    BY <1>1, <2>1, QuietStep
<1>9. CASE r \in Requests /\ LoadFails(r)
  <2>1. /\ UNCHANGED <<conf, status, running, blockVars, seqVars, steps, ended, phase>>
        /\ UNCHANGED <<output, spec, holes, budget, idx, batch>>
        /\ computed' = [computed EXCEPT ![r] = 0]
    BY <1>9 DEF LoadFails
  <2>2. computed' \in [Requests -> Int]
    <3>1. computed \in [Requests -> Int]
      BY <1>1
    <3> QED
      BY <1>9, <2>1, <3>1
  <2> QED
    BY <1>1, <2>1, <2>2, QuietStep
<1>10. CASE r \in Requests /\ (IgnoreOutput(r) \/ ChunkOutput(r))
  <2>1. /\ UNCHANGED <<conf, status, running, blockVars, seqVars, steps, ended, phase>>
        /\ UNCHANGED <<computed, output, spec, holes, budget, idx, batch>>
    BY <1>10 DEF IgnoreOutput, ChunkOutput
  <2> QED
    BY <1>1, <2>1, QuietStep
<1> QED
  BY <1>2, <1>3, <1>4, <1>5, <1>6, <1>7, <1>8, <1>9, <1>10

-----------------------------------------------------------------------------
(* Calls from outside: add, abort, the end of a load or of a send *)

\* The request the output of a step or a call ends, or that is added or whose
\* load is over: it is neither scheduled nor, unless it leaves the running
\* queue or joins ended, in that queue.
LEMMA StatusStep ==
  ASSUME Shape, Control, NEW r \in Requests, NEW s \in States,
         status' = [status EXCEPT ![r] = s],
         s \notin Early \/ (s = "waiting" /\ status[r] \in Early),
         UNCHANGED blockVars \/ Moves(r),
         UNCHANGED <<conf, seqVars, steps, phase>>,
         computed' \in [Requests -> Int], output' \in [Requests -> Int],
         spec' \in [Requests -> Int], holes' \in [Requests -> Int],
         UNCHANGED <<budget, idx, batch>>,
         phase \notin Building \/ status[r] # "running",
         ended \subseteq ended', phase # "output" => ended' = ended,
         \/ running' = Without(running, {r})
         \/ running' = running
            /\ (r \in ended' \/ (status[r] # "running" /\ r \notin ended))
  PROVE  Step(r)
<1>1. status' \in [Requests -> States] /\ status'[r] = s
  BY DEF Shape
<1>2. \A q \in Requests : q # r => status'[q] = status[q]
  BY DEF Shape
<1>3. batch' \in BatchShape /\ budget' \in Int /\ idx' \in Nat \ {0}
  BY DEF Shape
<1>4. ~(batch'.n[r] > 0)
  BY DEF Control
<1> QED
  BY <1>1, <1>2, <1>3, <1>4 DEF Step

LEMMA CallActions ==
  ASSUME Shape, Control, NEW r \in Requests,
         AddRequest(r) \/ Abort(r) \/ LoadDone(r) \/ SendDone(r)
  PROVE  Step(r)
<1> USE DEF reqVars, queueVars, passVars, outVars
<1>1. /\ computed \in [Requests -> Int] /\ output \in [Requests -> Int]
      /\ spec \in [Requests -> Int] /\ holes \in [Requests -> Int] /\ budget \in Int
      /\ idx \in Nat \ {0}
  BY DEF Shape
<1>2. phase = "idle" => phase \notin Building /\ ended = {}
  BY DEF Control, Building
<1>3. CASE AddRequest(r)
  <2>1. /\ UNCHANGED <<conf, running, blockVars, seqVars, steps, ended, phase>>
        /\ UNCHANGED <<computed, output, spec, holes, budget, idx, batch>>
        /\ status' = [status EXCEPT ![r] = "waiting"] /\ status[r] = "new"
        /\ phase = "idle"
    BY <1>3 DEF AddRequest
  <2> QED
    BY <1>1, <1>2, <2>1, StatusStep DEF Early, States
<1>4. CASE Abort(r)
  <2>1. /\ UNCHANGED <<conf, seqVars, steps, ended, phase>>
        /\ UNCHANGED <<computed, output, spec, holes, budget, idx, batch>>
        /\ phase = "idle" /\ running' = Without(running, {r})
    BY <1>4 DEF Abort
  <2>2. \E s \in {"gone", "finished"} : status' = [status EXCEPT ![r] = s]
    BY <1>4 DEF Abort
  <2>3. UNCHANGED blockVars \/ Moves(r)
    BY <1>4 DEF Abort, Moves
  <2> QED
    BY <1>1, <1>2, <2>1, <2>2, <2>3, StatusStep DEF Early, States
<1>5. CASE LoadDone(r)
  <2>1. /\ UNCHANGED <<conf, running, seqVars, steps, ended, phase>>
        /\ UNCHANGED <<computed, output, spec, holes, budget, idx, batch>>
        /\ phase = "idle"
    BY <1>5 DEF LoadDone
  <2>2. CASE UNCHANGED <<status, blockVars>>
    BY <1>1, <2>1, <2>2, QuietStep
  <2>3. CASE /\ status[r] = "finished" /\ FreeRequestBlocks(r)
             /\ status' = [status EXCEPT ![r] = "gone"]
    <3>1. Moves(r)
      BY <2>3 DEF Moves
    <3> QED
      BY <1>1, <1>2, <2>1, <2>3, <3>1, StatusStep DEF Early, States
  <2> QED
    BY <1>5, <2>2, <2>3 DEF LoadDone
<1>6. CASE SendDone(r)
  <2>1. /\ UNCHANGED <<conf, running, seqVars, steps, ended, phase>>
        /\ UNCHANGED <<computed, output, spec, holes, budget, idx, batch>>
        /\ status' = [status EXCEPT ![r] = "gone"] /\ status[r] = "finished"
        /\ phase = "idle" /\ Moves(r)
    BY <1>6 DEF SendDone, Moves
  <2> QED
    BY <1>1, <1>2, <2>1, StatusStep DEF Early, States
<1> QED
  BY <1>3, <1>4, <1>5, <1>6

-----------------------------------------------------------------------------
(* Preemption *)

LEMMA PreemptStep ==
  ASSUME Shape, Control, NEW r \in Requests, NEW drop, Preempt(r, drop),
         UNCHANGED <<conf, steps, ended>>,
         phase # "output", phase' # "output", phase \in Building => phase' \in Building,
         budget' \in Int, idx' \in Nat \ {0}, batch' \in BatchShape,
         \A q \in Requests : q # r /\ batch'.n[q] > 0 => batch.n[q] > 0,
         ~(batch'.n[r] > 0)
  PROVE  Step(r)
<1>1. /\ status' = [status EXCEPT ![r] = "waiting"]
      /\ running' = Without(running, {r})
      /\ UNCHANGED <<output, seqVars>>
      /\ computed' = [computed EXCEPT ![r] = 0]
      /\ spec' = [spec EXCEPT ![r] = 0]
      /\ holes' = [holes EXCEPT ![r] = 0]
  BY DEF Preempt
<1>2. Moves(r) /\ held' = [held EXCEPT ![r] = {}]
  BY DEF Preempt, Moves, FreeRequestBlocks
<1>3. held'[r] = {}
  BY <1>2 DEF Shape
<1>4. status' \in [Requests -> States] /\ \A q \in Requests : q # r => status'[q] = status[q]
  BY <1>1 DEF Shape, States
<1>5. /\ computed' \in [Requests -> Int] /\ output' \in [Requests -> Int]
      /\ spec' \in [Requests -> Int] /\ holes' \in [Requests -> Int]
  BY <1>1 DEF Shape
<1> QED
  BY <1>1, <1>2, <1>3, <1>4, <1>5 DEF Step

LEMMA PreemptActions ==
  ASSUME Shape, Control, NEW r \in Requests,
         \/ phase = "reset" /\ UNCHANGED <<conf, phase, passVars, outVars, steps>>
            /\ Preempt(r, TRUE)
         \/ \E q \in Requests : PreemptVictim(q, r)
  PROVE  Step(r)
<1>1. budget \in Int /\ idx \in Nat \ {0} /\ batch \in BatchShape
  BY DEF Shape
<1>2. CASE phase = "reset" /\ UNCHANGED <<conf, phase, passVars, outVars, steps>>
           /\ Preempt(r, TRUE)
  <2>1. UNCHANGED <<budget, idx, batch, ended>>
    BY <1>2 DEF passVars, outVars
  <2>2. ~(batch.n[r] > 0)
    BY <1>2 DEF Control, Building
  <2> QED
    BY <1>1, <1>2, <2>1, <2>2, PreemptStep DEF Building
<1>3. CASE \E q \in Requests : PreemptVictim(q, r)
  <2>1. PICK q \in Requests : PreemptVictim(q, r)
    BY <1>3
  <2>2. /\ Preempt(r, conf.drop) /\ UNCHANGED <<conf, steps, ended>>
        /\ batch' = [batch EXCEPT !.n[r] = 0, !.k[r] = 0]
        /\ budget' = budget + batch.n[r]
        /\ idx' = IF \E i \in 1..(idx - 1) : running[i] = r THEN idx - 1 ELSE idx
    BY <2>1 DEF PreemptVictim, outVars
  <2>3. phase = "running" /\ phase' \in {"running", "finish"}
    BY <2>1 DEF PreemptVictim, NoRoom, Considered
  <2>4. batch' \in BatchShape /\ batch'.n = [batch.n EXCEPT ![r] = 0]
    <3> DEFINE zero == 0
               c == [batch EXCEPT !.n[r] = zero, !.k[r] = zero]
    <3>1. batch \in BatchShape /\ zero \in Int
      BY <1>1
    <3>2. batch' = c
      BY <2>2
    <3> HIDE DEF zero
    <3>3. c \in BatchShape /\ c.n = [batch.n EXCEPT ![r] = zero]
      BY <3>1 DEF BatchShape
    <3> HIDE DEF c
    <3>4. batch' \in BatchShape /\ batch'.n = [batch.n EXCEPT ![r] = zero]
      BY <3>2, <3>3
    <3> QED
      BY <3>4 DEF zero
  <2>5. batch.n \in [Requests -> Int]
    BY <1>1 DEF BatchShape
  <2>6. budget' \in Int
    <3>1. batch.n[r] \in Int
      BY <2>5
    <3> QED
      BY <1>1, <2>2, <3>1
  <2>7. idx' \in Nat \ {0}
    <3>1. (\E i \in 1..(idx - 1) : running[i] = r) => idx - 1 \in Nat \ {0}
      BY <1>1
    <3> QED
      BY <1>1, <2>2, <3>1
  <2>8. ~(batch'.n[r] > 0) /\ \A p \in Requests : p # r => batch'.n[p] = batch.n[p]
    BY <2>4, <2>5
  <2> QED
    BY <2>2, <2>3, <2>4, <2>6, <2>7, <2>8, PreemptStep DEF Building
<1> QED
  BY <1>2, <1>3

-----------------------------------------------------------------------------
(* Scheduling: of a running request, and admission of a waiting one *)

LEMMA TokenCounts ==
  ASSUME Shape, NEW r \in Requests
  PROVE  /\ Total(r) \in Int /\ NewTokens(r) \in Int /\ AdmitTokens(r) \in Int
         /\ \A n \in Int : DraftsIn(r, n) \in Int
<1>1. /\ computed[r] \in Int /\ output[r] \in Int /\ spec[r] \in Int /\ holes[r] \in Int
      /\ budget \in Int
  BY DEF Shape
<1>2. PromptLen[r] \in Int /\ MaxModelLen \in Int /\ NumSpec \in Int
  BY Constants
<1>3. Total(r) \in Int
  BY <1>1, <1>2 DEF Total
<1>4. NewTokens(r) \in Int
  BY <1>1, <1>2, <1>3 DEF NewTokens, Pending, Min2
<1>5. AdmitTokens(r) \in Int
  <2> HIDE DEF Padded
  <2> QED
    BY <1>1, <1>2, <1>3 DEF AdmitTokens, Min2
<1>6. \A n \in Int : DraftsIn(r, n) \in Int
  BY <1>1, <1>3 DEF DraftsIn, Min2
<1> QED
  BY <1>3, <1>4, <1>5, <1>6

LEMMA ScheduleStep ==
  ASSUME Shape, Control, NEW r \in Requests, ScheduleRunning(r) PROVE Step(r)
<1>1. PICK n \in 1..NewTokens(r) :
        /\ UNCHANGED <<conf, phase, status, computed, output, holes, running, seqVars, steps, ended>>
        /\ batch' = [batch EXCEPT !.n[r] = n, !.k[r] = DraftsIn(r, n)]
        /\ spec' = [spec EXCEPT ![r] = 0]
        /\ budget' = budget - n /\ idx' = idx + 1
  BY DEF ScheduleRunning, queueVars, outVars
<1> DEFINE k == DraftsIn(r, n)
<1>2. /\ budget \in Int /\ idx \in Nat \ {0} /\ batch \in BatchShape
      /\ spec \in [Requests -> Int] /\ status \in [Requests -> States]
  BY DEF Shape
<1>3. n \in Int /\ k \in Int
  BY TokenCounts
<1>4. Moves(r)
  BY AllocateTakes DEF ScheduleRunning, Moves
<1>5. phase = "running" /\ r = running[idx] /\ idx <= Len(running)
  BY DEF ScheduleRunning, Considered
<1>6. status[r] = "running"
  <2>1. idx \in 1..Len(running)
    BY <1>2, <1>5
  <2>2. ended = {}
    BY <1>5 DEF Control
  <2> QED
    BY <1>5, <2>1, <2>2 DEF Control
<1> HIDE DEF k
<1>7. batch' \in BatchShape /\ batch'.n = [batch.n EXCEPT ![r] = n]
  <2> DEFINE c == [batch EXCEPT !.n[r] = n, !.k[r] = k]
  <2>1. batch \in BatchShape
    BY <1>2
  <2>2. c \in BatchShape /\ c.n = [batch.n EXCEPT ![r] = n]
    BY <1>3, <2>1 DEF BatchShape
  <2>3. batch' = c
    BY <1>1 DEF k
  <2> HIDE DEF c
  <2> QED
    BY <2>2, <2>3
<1>8. \A q \in Requests : q # r => batch'.n[q] = batch.n[q]
  BY <1>2, <1>7 DEF BatchShape
<1>9. budget' \in Int /\ idx' \in Nat \ {0} /\ spec' \in [Requests -> Int]
  BY <1>3, <1>2, <1>1
<1>10. /\ computed' \in [Requests -> Int] /\ output' \in [Requests -> Int]
       /\ holes' \in [Requests -> Int] /\ status' \in [Requests -> States]
  BY <1>1 DEF Shape
<1> QED
  BY <1>1, <1>4, <1>5, <1>6, <1>7, <1>8, <1>9, <1>10 DEF Step, Building, Early

LEMMA AdmitActions ==
  ASSUME Shape, Control, NEW r \in Requests, Promote(r) \/ AdmitLoad(r) \/ Admit(r)
  PROVE  Step(r)
<1>1. /\ budget \in Int /\ idx \in Nat \ {0} /\ batch \in BatchShape
      /\ computed \in [Requests -> Int] /\ output \in [Requests -> Int]
      /\ spec \in [Requests -> Int] /\ holes \in [Requests -> Int]
  BY DEF Shape
<1>2. phase = "waiting" /\ status[r] # "running" /\ ended = {}
  <2>1. phase = "waiting" /\ status[r] # "running"
    BY DEF Promote, AdmitLoad, Admit, Offered
  <2> QED
    BY <2>1 DEF Control
<1>3. CASE Promote(r)
  <2>1. /\ status' = [status EXCEPT ![r] = "waiting"] /\ status[r] = "remote"
        /\ computed' = [computed EXCEPT ![r] = IF @ = Total(r) THEN @ - 1 ELSE @]
        /\ UNCHANGED <<output, spec, holes, running, budget, idx, batch>>
        /\ UNCHANGED <<conf, phase, seqVars, steps, ended>>
    BY <1>3 DEF Promote, queueVars, passVars, outVars
  <2>2. UNCHANGED blockVars \/ Moves(r)
    BY <1>3, <2>1 DEF Promote, Moves, Returns, blockVars, Early
  <2>3. computed' \in [Requests -> Int]
    <3>1. computed[r] \in Int /\ computed[r] - 1 \in Int
      BY <1>1
    <3> QED
      BY <1>1, <2>1, <3>1
  <2> QED
    BY <1>1, <1>2, <2>1, <2>2, <2>3, StatusStep DEF Early, States
<1>4. CASE AdmitLoad(r)
  <2>1. /\ status' = [status EXCEPT ![r] = "remote"] /\ status[r] = "waiting"
        /\ computed' = [computed EXCEPT ![r] = RemoteHit[r]]
        /\ UNCHANGED <<output, spec, holes, running, budget, idx, batch>>
        /\ UNCHANGED <<conf, phase, seqVars, steps, ended>>
    BY <1>4 DEF AdmitLoad, outVars
  <2>2. Moves(r)
    BY <1>4, AllocateTakes DEF AdmitLoad, Moves
  <2>3. computed' \in [Requests -> Int]
    BY <1>1, <2>1, Constants
  <2>4. status' \in [Requests -> States] /\ \A q \in Requests : q # r => status'[q] = status[q]
    BY <2>1 DEF Shape, States
  <2>5. ~(batch.n[r] > 0)
    BY <1>2 DEF Control
  <2> QED
    BY <1>1, <1>2, <2>1, <2>2, <2>3, <2>4, <2>5 DEF Step, Early
<1>5. CASE Admit(r)
  <2>1. PICK n \in 1..AdmitTokens(r) :
          /\ status' = [status EXCEPT ![r] = "running"]
          /\ running' = Append(running, r)
          /\ batch' = [batch EXCEPT !.n[r] = n, !.fresh[r] = Total(r),
                                    !.k[r] = IF computed[r] + n > Total(r) THEN NumSpec ELSE 0]
          /\ budget' = budget - n
          /\ UNCHANGED <<computed, output, spec, holes, idx>>
          /\ UNCHANGED <<conf, phase, seqVars, steps, ended>>
    BY <1>5 DEF Admit, outVars
  <2> DEFINE f == Total(r)
             k == IF computed[r] + n > Total(r) THEN NumSpec ELSE 0
  <2>2. Moves(r)
    BY <1>5, AllocateTakes DEF Admit, Moves
  <2>3. n \in Int /\ f \in Int /\ k \in Int
    BY TokenCounts, Constants
  <2> HIDE DEF f, k
  <2>4. batch' \in BatchShape /\ batch'.n = [batch.n EXCEPT ![r] = n]
    <3> DEFINE c == [batch EXCEPT !.n[r] = n, !.fresh[r] = f, !.k[r] = k]
    <3>1. batch \in BatchShape
      BY <1>1
    <3>2. c \in BatchShape /\ c.n = [batch.n EXCEPT ![r] = n]
      BY <2>3, <3>1 DEF BatchShape
    <3>3. batch' = c
      BY <2>1 DEF f, k
    <3> HIDE DEF c
    <3> QED
      BY <3>2, <3>3
  <2>5. \A q \in Requests : q # r => batch'.n[q] = batch.n[q]
    BY <1>1, <2>4 DEF BatchShape
  <2>6. budget' \in Int
    BY <1>1, <2>1, <2>3
  <2>7. /\ status' \in [Requests -> States] /\ status'[r] = "running"
        /\ \A q \in Requests : q # r => status'[q] = status[q]
    BY <2>1 DEF Shape, States
  <2> QED
    BY <1>1, <1>2, <2>1, <2>2, <2>4, <2>5, <2>6, <2>7 DEF Step, Early, Building
<1> QED
  BY <1>3, <1>4, <1>5

-----------------------------------------------------------------------------
(* The output of one request *)

LEMMA TokenStep ==
  ASSUME Shape, Control, NEW r \in Requests, NEW a \in Int, NEW m \in Int, NEW stop,
         TokenOutput(r, a, m, stop)
  PROVE  Step(r)
<1>1. /\ computed \in [Requests -> Int] /\ output \in [Requests -> Int]
      /\ spec \in [Requests -> Int] /\ holes \in [Requests -> Int] /\ budget \in Int
      /\ idx \in Nat \ {0}
  BY DEF Shape
<1>2. /\ UNCHANGED <<conf, phase, spec, running, seqVars, steps, budget, idx, batch>>
      /\ phase = "output" /\ Settle(r, a, m)
      /\ output' = [output EXCEPT ![r] = @ + m]
  BY DEF TokenOutput, passVars
<1>3. computed' \in [Requests -> Int] /\ holes' \in [Requests -> Int]
  <2>1. Head(steps) \in BatchShape
    BY <1>2 DEF Shape, Control
  <2> DEFINE rejected == Head(steps).k[r] - a
  <2>2. rejected \in Int
    <3>1. Head(steps).k[r] \in Int
      BY <2>1 DEF BatchShape
    <3> QED
      BY <3>1
  <2>3. \/ UNCHANGED <<computed, holes>>
        \/ /\ computed' = [computed EXCEPT ![r] = IF @ > 0 THEN @ - rejected ELSE @]
           /\ holes' = [holes EXCEPT ![r] = (IF @ > 0 THEN @ - rejected ELSE @) - m]
    BY <1>2 DEF Settle
  <2> HIDE DEF rejected
  <2>4. /\ (IF computed[r] > 0 THEN computed[r] - rejected ELSE computed[r]) \in Int
        /\ (IF holes[r] > 0 THEN holes[r] - rejected ELSE holes[r]) - m \in Int
    BY <1>1, <2>2
  <2> QED
    BY <1>1, <2>3, <2>4
<1>4. output' \in [Requests -> Int]
  <2>1. output[r] + m \in Int
    BY <1>1
  <2> QED
    BY <1>1, <1>2, <2>1
<1>5. spec' \in [Requests -> Int]
  BY <1>1, <1>2
<1>6. CASE UNCHANGED <<status, ended, blockVars>>
  BY <1>1, <1>2, <1>3, <1>4, <1>5, <1>6, QuietStep
<1>7. CASE /\ \E s \in {"gone", "finished"} : status' = [status EXCEPT ![r] = s]
           /\ ended' = ended \cup {r}
           /\ UNCHANGED blockVars \/ FreeRequestBlocks(r)
  <2>1. UNCHANGED blockVars \/ Moves(r)
    BY <1>7 DEF Moves
  <2>2. PICK s \in {"gone", "finished"} : status' = [status EXCEPT ![r] = s]
    BY <1>7
  <2>3. s \in States /\ s \notin Early /\ phase \notin Building
    BY <1>2 DEF States, Early, Building
  <2> QED
    BY <1>2, <1>3, <1>4, <1>5, <1>7, <2>1, <2>2, <2>3, StatusStep
<1> QED
  BY <1>6, <1>7 DEF TokenOutput

-----------------------------------------------------------------------------
(* Types and control state at the end of schedule() and in the updates *)

LEMMA FinishSound ==
  ASSUME Shape, Control, FinishSchedule PROVE Shape' /\ Control'
<1>1. /\ computed \in [Requests -> Int] /\ holes \in [Requests -> Int]
      /\ spec \in [Requests -> Int] /\ output \in [Requests -> Int]
      /\ lastSeq \in [Requests -> Nat] /\ schedSeq \in Nat /\ procSeq \in Nat
      /\ batch \in BatchShape /\ steps \in Seq(BatchShape)
      /\ held \in [Requests -> SUBSET Blocks]
  BY DEF Shape
<1>2. /\ UNCHANGED <<conf, status, output, running, held, pool, deferred, procSeq, ended>>
      /\ phase = "finish" /\ phase' = "idle" /\ budget' = 0 /\ idx' = 1
      /\ batch' = NoBatch
  BY DEF FinishSchedule, blockVars, outVars
<1>3. \A r \in Requests : batch.n[r] \in Int /\ batch.k[r] \in Int
  BY <1>1 DEF BatchShape
<1>4. computed' \in [Requests -> Int]
  <2>1. \A r \in Requests : computed[r] + batch.n[r] \in Int
    BY <1>1, <1>3
  <2> QED
    BY <2>1 DEF FinishSchedule
<1>5. holes' \in [Requests -> Int]
  <2>1. \A r \in Requests : holes[r] \in Int /\ holes[r] + 1 + batch.k[r] \in Int
    BY <1>1, <1>3
  <2>2. \E S : holes' = [r \in Requests |->
                           IF r \in S THEN holes[r] + 1 + batch.k[r] ELSE holes[r]]
    BY DEF FinishSchedule
  <2> QED
    BY <2>1, <2>2
<1>6. spec' \in [Requests -> Int]
  <2>1. \E k \in VerifyLens : \E S :
          spec' = [r \in Requests |-> IF r \in S THEN k ELSE spec[r]]
    BY DEF FinishSchedule
  <2> QED
    BY <1>1, <2>1, Constants
<1>7. schedSeq' \in Nat
  BY <1>1 DEF FinishSchedule
<1>8. lastSeq' \in [Requests -> Nat]
  <2>1. lastSeq' = [r \in Requests |->
                      IF conf.defer /\ r \in Scheduled THEN schedSeq' ELSE lastSeq[r]]
    BY DEF FinishSchedule
  <2> QED
    BY <1>1, <1>7, <2>1
<1>9. steps' \in Seq(BatchShape)
  <2>1. CASE Scheduled = {}
    BY <1>1, <2>1 DEF FinishSchedule
  <2>2. CASE Scheduled # {}
    <3>1. \E S : steps' = Append(steps, [batch EXCEPT !.last = [r \in Requests |-> r \in S],
                                           !.writes = [r \in Requests |->
                                             IF r \in Scheduled THEN held[r] ELSE {}]])
      BY <2>2 DEF FinishSchedule
    <3>2. PICK S : steps' = Append(steps, [batch EXCEPT !.last = [r \in Requests |-> r \in S],
                                            !.writes = [r \in Requests |->
                                              IF r \in Scheduled THEN held[r] ELSE {}]])
      BY <3>1
    <3> DEFINE last == [r \in Requests |-> r \in S]
               writes == [r \in Requests |-> IF r \in Scheduled THEN held[r] ELSE {}]
               out == [batch EXCEPT !.last = last, !.writes = writes]
    <3>3. last \in [Requests -> BOOLEAN] /\ writes \in [Requests -> SUBSET Blocks]
      BY <1>1
    <3>4. steps' = Append(steps, out)
      BY <3>2
    <3> HIDE DEF last, writes
    <3>5. out \in BatchShape
      BY <1>1, <3>3 DEF BatchShape
    <3> HIDE DEF out
    <3> QED
      BY <1>1, <3>4, <3>5
  <2> QED
    BY <2>1, <2>2
<1>10. batch' \in BatchShape /\ \A r \in Requests : ~(batch'.n[r] > 0)
  BY <1>2, NoBatchShape
<1>11. Shape'
  BY <1>2, <1>4, <1>5, <1>6, <1>7, <1>8, <1>9, <1>10 DEF Shape
<1>12. Control'
  BY <1>2, <1>10 DEF Control
<1> QED
  BY <1>11, <1>12

LEMMA BeginUpdateSound ==
  ASSUME Shape, Control, BeginUpdate PROVE Shape' /\ Control'
<1>1. /\ UNCHANGED <<conf, status, computed, output, spec, holes, running, lastSeq, schedSeq>>
      /\ UNCHANGED <<budget, idx, batch, steps>>
      /\ phase = "idle" /\ phase' = "output" /\ steps # << >> /\ ended' = {}
  BY DEF BeginUpdate, reqVars, queueVars, passVars
<1>2. /\ procSeq' \in Nat /\ held' \in [Requests -> SUBSET Blocks]
      /\ pool' \subseteq Blocks /\ deferred' \in Seq(Entry)
  <2>1. /\ procSeq \in Nat /\ held \in [Requests -> SUBSET Blocks]
        /\ pool \subseteq Blocks /\ deferred \in Seq(Entry)
    BY DEF Shape
  <2>2. CASE UNCHANGED <<procSeq, blockVars>>
    BY <2>1, <2>2 DEF blockVars
  <2>3. CASE procSeq' = procSeq + 1 /\ \E k \in 0..Len(deferred) : Drain(k, procSeq')
    <3>1. PICK k \in 0..Len(deferred) : Drain(k, procSeq')
      BY <2>3
    <3>2. /\ pool' = pool \cup UNION {deferred[i].blocks : i \in 1..k}
          /\ deferred' = SubSeq(deferred, k + 1, Len(deferred)) /\ held' = held
      BY <3>1 DEF Drain
    <3>3. \A i \in 1..k : deferred[i].blocks \subseteq Blocks
      <4>1. \A i \in 1..k : deferred[i] \in Entry
        BY <2>1
      <4> QED
        BY <4>1 DEF Entry
    <3>4. deferred' \in Seq(Entry)
      BY <2>1, <3>2
    <3>5. procSeq' \in Nat
      BY <2>1, <2>3
    <3> QED
      BY <2>1, <3>2, <3>3, <3>4, <3>5
  <2> QED
    BY <2>2, <2>3 DEF BeginUpdate
<1>3. Shape'
  BY <1>1, <1>2 DEF Shape
<1>4. Control'
  BY <1>1 DEF Control, Building
<1> QED
  BY <1>3, <1>4

LEMMA EndUpdateSound ==
  ASSUME Shape, Control, EndUpdate PROVE Shape' /\ Control'
<1>1. /\ UNCHANGED <<conf, status, computed, output, spec, holes, held, pool, deferred>>
      /\ UNCHANGED <<lastSeq, schedSeq, procSeq, budget, idx, batch>>
      /\ phase = "output" /\ phase' = "idle" /\ ended' = {}
      /\ running' = Without(running, ended) /\ steps' = Tail(steps)
  BY DEF EndUpdate, reqVars, blockVars, seqVars, passVars
<1>2. steps' \in Seq(BatchShape)
  BY <1>1 DEF Shape, Control
<1>3. running \in Seq(Requests)
  BY DEF Shape
<1>4. /\ running' \in Seq(Requests)
      /\ \A j \in 1..Len(running') : status'[running'[j]] = "running"
  <2>1. /\ running' \in Seq(Requests)
        /\ \A j \in 1..Len(running') :
             \E i \in 1..Len(running) : running[i] \notin ended /\ running'[j] = running[i]
    BY <1>1, <1>3, WithoutMembers
  <2>2. \A i \in 1..Len(running) : running[i] \notin ended => status[running[i]] = "running"
    BY DEF Control
  <2> QED
    BY <1>1, <2>1, <2>2
<1>5. Shape'
  BY <1>1, <1>2, <1>4 DEF Shape
<1>6. Control'
  BY <1>1, <1>4 DEF Control, Building
<1> QED
  BY <1>5, <1>6

-----------------------------------------------------------------------------
(* The invariant *)

IInv == Shape /\ Control /\ Owned /\ Fenced

LEMMA InitInv == Init => IInv
<1> SUFFICES ASSUME Init PROVE IInv
  OBVIOUS
<1>1. Shape
  <2>1. NoTokens \in [Requests -> Int] /\ NoTokens \in [Requests -> Nat]
    BY DEF NoTokens
  <2>2. /\ [r \in Requests |-> "new"] \in [Requests -> States]
        /\ [r \in Requests |-> {}] \in [Requests -> SUBSET Blocks]
    BY DEF States
  <2> QED
    BY <2>1, <2>2, NoBatchShape DEF Init, Shape
<1>2. Control
  BY NoBatchShape DEF Init, Control
<1>3. deferred = << >> /\ Len(deferred) = 0 /\ steps = << >> /\ Len(steps) = 0
  BY DEF Init
<1>4. Owned
  <2>1. DeferredBlocks = {}
    BY <1>3 DEF DeferredBlocks
  <2>2. pool = Blocks /\ \A r \in Requests : held[r] = {}
    BY DEF Init
  <2> QED
    BY <1>3, <2>1, <2>2 DEF Owned, BlocksConserved
<1>5. Fenced
  <2>1. InFlight = {} /\ schedSeq = 0 /\ procSeq = 0 /\ Done = 0
    BY <1>3 DEF Init, InFlight, Done
  <2> QED
    BY <1>3, <2>1 DEF Fenced
<1> QED
  BY <1>1, <1>2, <1>4, <1>5 DEF IInv

\* Every action is a step of one request, of none, or one of the three at the
\* ends of schedule() and update_from_output().
LEMMA NextCases ==
  ASSUME Shape, Control, Next
  PROVE  (\E r : Step(r)) \/ FinishSchedule \/ BeginUpdate \/ EndUpdate
<1>1. CASE \E r \in Requests : Calls(r)
  BY <1>1, CallActions, QuietActions DEF Calls
<1>2. CASE \E r \in Requests : RunningTurn(r)
  BY <1>2, QuietActions, ScheduleStep, PreemptActions DEF RunningTurn
<1>3. CASE \E r \in Requests : WaitingTurn(r)
  BY <1>3, QuietActions, AdmitActions DEF WaitingTurn
<1>4. CASE \E r \in Requests : UpdateRequest(r)
  <2>1. PICK r \in Requests : UpdateRequest(r)
    BY <1>4
  <2>2. CASE IgnoreOutput(r) \/ ChunkOutput(r)
    BY <2>2, QuietActions
  <2>3. CASE \E a \in 0..NumSpec : \E m \in 1..(a + 1), stop \in BOOLEAN :
               TokenOutput(r, a, m, stop)
    BY <2>3, Constants, TokenStep
  <2> QED
    BY <2>1, <2>2, <2>3 DEF UpdateRequest
<1>5. CASE ResetOne
  BY <1>5, PreemptActions DEF ResetOne
<1>6. CASE BeginReset \/ EndReset \/ BeginSchedule \/ LeaveRunning \/ LeaveWaiting
  BY <1>6, QuietActions
<1> QED
  BY <1>1, <1>2, <1>3, <1>4, <1>5, <1>6 DEF Next

LEMMA NextInv == IInv /\ [Next]_vars => IInv'
<1> SUFFICES ASSUME IInv, [Next]_vars PROVE IInv'
  OBVIOUS
<1>1. Shape /\ Control /\ Owned /\ Fenced
  BY DEF IInv
<1>2. CASE \E r : Step(r)
  <2>1. PICK r : Step(r)
    BY <1>2
  <2>2. Shape' /\ Control' /\ Turn
    BY <1>1, <2>1, StepShape, StepControl, StepTurn
  <2> QED
    BY <1>1, <2>2, TurnOwned, TurnFenced DEF IInv
<1>3. CASE FinishSchedule
  BY <1>1, <1>3, FinishSound, FinishFenced DEF IInv
<1>4. CASE BeginUpdate
  BY <1>1, <1>4, BeginUpdateSound, BeginUpdateFenced DEF IInv
<1>5. CASE EndUpdate
  BY <1>1, <1>5, EndUpdateSound, EndUpdateFenced DEF IInv
<1>6. CASE UNCHANGED vars
  <2> USE <1>6 DEF vars, reqVars, queueVars, blockVars, seqVars, passVars, outVars
  <2>1. Shape'
    BY <1>1 DEF Shape
  <2>2. Control'
    BY <1>1 DEF Control
  <2>3. Owned'
    BY <1>1 DEF Owned, BlocksConserved, DeferredBlocks
  <2>4. Fenced'
    BY <1>1 DEF Fenced, Guarded, InFlight, SeqOf, Done
  <2> QED
    BY <2>1, <2>2, <2>3, <2>4 DEF IInv
<1> QED
  BY <1>1, <1>2, <1>3, <1>4, <1>5, <1>6, NextCases

LEMMA Invariant == Spec => []IInv
BY InitInv, NextInv, PTL DEF Spec

\* No block is lost and none is in two places: free, waiting for a step to be
\* processed, or with one request; whatever is preempted, aborted or reset.
THEOREM BlocksAreConserved == Spec => []BlocksConserved
<1>1. IInv => BlocksConserved
  BY DEF IInv, Owned
<1> QED
  BY <1>1, Invariant, PTL

LEMMA FencedIsSafe ==
  ASSUME IInv PROVE NoForeignWriter
<1> SUFFICES ASSUME conf.defer, NEW i \in InFlight, NEW r \in Requests
             PROVE  /\ steps[i].writes[r] \cap pool = {}
                    /\ \A q \in Requests : q # r => steps[i].writes[r] \cap held[q] = {}
  BY DEF NoForeignWriter
<1>1. Shape /\ Owned /\ Fenced
  BY DEF IInv
<1>2. steps[i].writes[r] \cap pool = {}
  BY <1>1, NoWriteToPool
<1>3. ASSUME NEW q \in Requests, q # r, NEW b \in steps[i].writes[r]
      PROVE  b \notin held[q]
  <2>1. b \in held[r] \/ b \in DeferredBlocks
    BY <1>1 DEF Fenced, Guarded, DeferredBlocks
  <2> QED
    BY <1>1, <1>3, <2>1 DEF Owned, BlocksConserved
<1> QED
  BY <1>2, <1>3

\* A block that a step in flight may still write is not free and is held by no
\* request but the one the step was scheduled for.
THEOREM NoForeignWrites == Spec => []NoForeignWriter
BY FencedIsSafe, Invariant, PTL

-----------------------------------------------------------------------------
(* Numbers *)

LessThan == {p \in Nat \X Nat : p[1] < p[2]}

LEMMA Least ==
  ASSUME NEW S \in SUBSET Nat, S # {}
  PROVE  \E n \in S : \A m \in S : n <= m
<1>1. IsWellFoundedOn(LessThan, Nat)
  BY NatLessThanWellFounded DEF OpToRel, LessThan
<1>2. PICK n \in S : \A m \in S : <<m, n>> \notin LessThan
  BY <1>1, WFMin
<1>3. \A m \in S : ~(m < n)
  BY <1>2 DEF LessThan
<1> QED
  BY <1>3

-----------------------------------------------------------------------------
(* Sums *)

\* c are the sums of the first members of f, and x the sum of the first n.
Partial(f, n, c) ==
  /\ c \in [0..n -> Nat] /\ c[0] = 0
  /\ \A i \in 1..n : c[i] = c[i - 1] + f[i]
IsSum(f, n, x) == \E c : Partial(f, n, c) /\ c[n] = x

LEMMA SumType ==
  ASSUME NEW f, NEW n \in Nat, NEW x, IsSum(f, n, x)
  PROVE  x \in Nat
BY DEF IsSum, Partial

LEMMA SumOfNone ==
  ASSUME NEW f, NEW x PROVE IsSum(f, 0, x) <=> x = 0
<1>1. ASSUME IsSum(f, 0, x) PROVE x = 0
  BY <1>1 DEF IsSum, Partial
<1>2. Partial(f, 0, [i \in 0..0 |-> 0])
  BY DEF Partial
<1> QED
  BY <1>1, <1>2 DEF IsSum

LEMMA SumOfZeros ==
  ASSUME NEW f, NEW n \in Nat, \A i \in 1..n : f[i] = 0
  PROVE  IsSum(f, n, 0)
<1> DEFINE c == [i \in 0..n |-> 0]
<1>1. Partial(f, n, c) /\ c[n] = 0
  BY DEF Partial
<1> QED
  BY <1>1 DEF IsSum

LEMMA SumSame ==
  ASSUME NEW f, NEW g, NEW n \in Nat, NEW x, IsSum(f, n, x),
         \A i \in 1..n : g[i] = f[i]
  PROVE  IsSum(g, n, x)
BY DEF IsSum, Partial

LEMMA SumNext ==
  ASSUME NEW f, NEW g, NEW n \in Nat, NEW x, IsSum(f, n, x),
         \A i \in 1..n : g[i] = f[i], g[n + 1] \in Nat
  PROVE  IsSum(g, n + 1, x + g[n + 1])
<1>1. PICK c : Partial(f, n, c) /\ c[n] = x
  BY DEF IsSum
<1> DEFINE d == [i \in 0..(n + 1) |-> IF i = n + 1 THEN x + g[n + 1] ELSE c[i]]
<1>2. c \in [0..n -> Nat] /\ x \in Nat /\ c[0] = 0 /\ \A i \in 1..n : c[i] = c[i - 1] + f[i]
  BY <1>1 DEF Partial
<1>3. d \in [0..(n + 1) -> Nat] /\ d[0] = 0 /\ d[n + 1] = x + g[n + 1]
  <2>1. \A i \in 0..(n + 1) : i # n + 1 => i \in 0..n
    OBVIOUS
  <2> QED
    BY <1>2, <2>1
<1>4. ASSUME NEW i \in 1..(n + 1) PROVE d[i] = d[i - 1] + g[i]
  <2>1. /\ i \in 0..(n + 1) /\ i - 1 \in 0..(n + 1) /\ i - 1 # n + 1
        /\ i # n + 1 => i \in 1..n
        /\ i = n + 1 => i - 1 = n
    OBVIOUS
  <2> QED
    BY <1>1, <1>2, <2>1
<1> HIDE DEF d
<1>5. Partial(g, n + 1, d) /\ d[n + 1] = x + g[n + 1]
  BY <1>3, <1>4 DEF Partial
<1> QED
  BY <1>5 DEF IsSum

LEMMA PartialGrows ==
  ASSUME NEW f, NEW n \in Nat, NEW c, Partial(f, n, c), \A i \in 1..n : f[i] \in Nat,
         NEW i \in 0..n, NEW j \in 0..n, i <= j
  PROVE  c[i] <= c[j]
<1> DEFINE S == {k \in 0..n : i <= k /\ ~(c[i] <= c[k])}
<1>1. c \in [0..n -> Nat] /\ \A k \in 1..n : c[k] = c[k - 1] + f[k]
  BY DEF Partial
<1>2. CASE S = {}
  BY <1>2
<1>3. CASE S # {}
  <2>1. S \in SUBSET Nat
    OBVIOUS
  <2>2. PICK k \in S : \A m \in S : k <= m
    BY <1>3, <2>1, Least
  <2>3. k # i /\ k \in 1..n /\ i <= k - 1 /\ k - 1 \in 0..n /\ ~(k <= k - 1)
    BY <1>1, <2>2
  <2>4. c[i] <= c[k - 1]
    BY <2>2, <2>3
  <2>5. c[k] = c[k - 1] + f[k] /\ f[k] \in Nat /\ c[k - 1] \in Nat /\ c[i] \in Nat
    BY <1>1, <2>3
  <2> QED
    BY <2>2, <2>4, <2>5
<1> QED
  BY <1>2, <1>3

\* Nothing adds up to nothing, and only nothing does.
LEMMA SumIsZero ==
  ASSUME NEW f, NEW n \in Nat, \A i \in 1..n : f[i] \in Nat, NEW x, IsSum(f, n, x)
  PROVE  x = 0 <=> \A i \in 1..n : f[i] = 0
<1>1. PICK c : Partial(f, n, c) /\ c[n] = x
  BY DEF IsSum
<1>2. c \in [0..n -> Nat] /\ c[0] = 0 /\ \A k \in 1..n : c[k] = c[k - 1] + f[k]
  BY <1>1 DEF Partial
<1>3. ASSUME x = 0, NEW i \in 1..n PROVE f[i] = 0
  <2>1. i \in 0..n /\ i - 1 \in 0..n /\ n \in 0..n /\ i <= n
    OBVIOUS
  <2>2. c[i] <= c[n]
    BY <1>1, <2>1, PartialGrows
  <2>3. c[i] = c[i - 1] + f[i] /\ c[i - 1] \in Nat /\ f[i] \in Nat
    BY <1>2, <2>1
  <2> QED
    BY <1>1, <1>3, <2>2, <2>3
<1>4. ASSUME \A i \in 1..n : f[i] = 0 PROVE x = 0
  <2> DEFINE S == {k \in 0..n : c[k] # 0}
  <2>1. CASE S = {}
    BY <1>1, <2>1
  <2>2. CASE S # {}
    <3>1. S \in SUBSET Nat
      OBVIOUS
    <3>2. PICK k \in S : \A m \in S : k <= m
      BY <2>2, <3>1, Least
    <3>3. k \in 1..n /\ k - 1 \in 0..n /\ ~(k <= k - 1)
      BY <1>2, <3>2
    <3>4. c[k - 1] = 0
      BY <3>2, <3>3
    <3> QED
      BY <1>2, <1>4, <3>2, <3>3, <3>4
  <2> QED
    BY <2>1, <2>2
<1> QED
  BY <1>3, <1>4

\* The first member is taken out of the sum.
LEMMA SumWithoutFirst ==
  ASSUME NEW f, NEW g, NEW n \in Nat, n >= 1, NEW x, IsSum(f, n, x),
         \A i \in 1..n : f[i] \in Nat, g[1] = 0, \A i \in 2..n : g[i] = f[i]
  PROVE  f[1] <= x /\ IsSum(g, n, x - f[1])
<1>1. PICK c : Partial(f, n, c) /\ c[n] = x
  BY DEF IsSum
<1>2. c \in [0..n -> Nat] /\ c[0] = 0 /\ \A k \in 1..n : c[k] = c[k - 1] + f[k]
  BY <1>1 DEF Partial
<1>3. 1 \in 1..n /\ f[1] \in Nat /\ c[1] = f[1]
  <2>1. 1 \in 1..n /\ 1 - 1 = 0
    OBVIOUS
  <2> QED
    BY <1>2, <2>1
<1>4. \A i \in 1..n : f[1] <= c[i]
  <2> TAKE i \in 1..n
  <2>1. 1 \in 0..n /\ i \in 0..n /\ 1 <= i
    OBVIOUS
  <2> QED
    BY <1>1, <1>3, <2>1, PartialGrows
<1> DEFINE d == [i \in 0..n |-> IF i = 0 THEN 0 ELSE c[i] - f[1]]
<1>5. d \in [0..n -> Nat] /\ d[0] = 0 /\ d[n] = x - f[1] /\ f[1] <= x
  <2>1. \A i \in 0..n : i # 0 => i \in 1..n /\ c[i] \in Nat
    BY <1>2
  <2>2. n \in 1..n /\ n # 0
    OBVIOUS
  <2> QED
    BY <1>1, <1>3, <1>4, <2>1, <2>2
<1>6. ASSUME NEW i \in 1..n PROVE d[i] = d[i - 1] + g[i]
  <2>1. /\ i \in 0..n /\ i - 1 \in 0..n /\ i # 0 /\ c[i] \in Nat /\ c[i - 1] \in Nat
        /\ i = 1 => i - 1 = 0
        /\ i # 1 => i \in 2..n /\ i - 1 # 0
    BY <1>2
  <2>2. CASE i = 1
    BY <1>3, <2>1, <2>2
  <2>3. CASE i # 1
    <3>1. g[i] = f[i] /\ f[i] \in Nat /\ c[i] = c[i - 1] + f[i]
      BY <1>2, <2>1, <2>3
    <3> QED
      BY <1>3, <2>1, <2>3, <3>1
  <2> QED
    BY <2>2, <2>3
<1> HIDE DEF d
<1>7. Partial(g, n, d)
  BY <1>5, <1>6 DEF Partial
<1> QED
  BY <1>5, <1>7 DEF IsSum

LEMMA SumOfTail ==
  ASSUME NEW f, NEW g, NEW n \in Nat, n >= 1, NEW x, IsSum(f, n, x),
         f[1] = 0, \A i \in 1..(n - 1) : g[i] = f[i + 1]
  PROVE  IsSum(g, n - 1, x)
<1>1. PICK c : Partial(f, n, c) /\ c[n] = x
  BY DEF IsSum
<1>2. c \in [0..n -> Nat] /\ c[0] = 0 /\ \A k \in 1..n : c[k] = c[k - 1] + f[k]
  BY <1>1 DEF Partial
<1> DEFINE d == [i \in 0..(n - 1) |-> c[i + 1]]
<1>3. \A i \in 0..(n - 1) : i + 1 \in 0..n /\ i + 1 \in 1..n
  OBVIOUS
<1>4. c[1] = 0
  <2>1. 1 \in 1..n /\ 1 - 1 = 0
    OBVIOUS
  <2> QED
    BY <1>2, <2>1
<1>5. d \in [0..(n - 1) -> Nat] /\ d[0] = 0 /\ d[n - 1] = x
  <2>1. 0 \in 0..(n - 1) /\ n - 1 \in 0..(n - 1) /\ (n - 1) + 1 = n /\ 0 + 1 = 1
    OBVIOUS
  <2> QED
    BY <1>1, <1>2, <1>3, <1>4, <2>1
<1>6. ASSUME NEW i \in 1..(n - 1) PROVE d[i] = d[i - 1] + g[i]
  <2>1. i \in 0..(n - 1) /\ i - 1 \in 0..(n - 1) /\ (i - 1) + 1 = i /\ (i + 1) - 1 = i
        /\ i + 1 \in 1..n
    OBVIOUS
  <2>2. c[i + 1] = c[i] + f[i + 1]
    BY <1>2, <2>1
  <2> QED
    BY <2>1, <2>2
<1> HIDE DEF d
<1>7. Partial(g, n - 1, d)
  BY <1>5, <1>6 DEF Partial
<1> QED
  BY <1>5, <1>7 DEF IsSum
-----------------------------------------------------------------------------
(* What the steps in flight hold of one request *)

\* One row per step: the tokens still to arrive, the drafts among them, the
\* length sent along with a resumed request, and whether a token is sampled.
Row == [n : Nat, k : Nat, fresh : Nat, last : BOOLEAN]
Tokens(R) == [i \in 1..Len(R) |-> R[i].n]
\* Places kept for the tokens of the rows after the s-th.
Owed(R, s) == [i \in 1..Len(R) |->
                 IF i > s /\ R[i].n > 0 /\ R[i].last THEN 1 + R[i].k ELSE 0]

\* x tokens are in flight; the first s rows, with y of them, are stale.
Tally(R, s, x, y) == IsSum(Tokens(R), Len(R), x) /\ IsSum(Tokens(R), s, y)
HolesOf(R, s, h) == IsSum(Owed(R, s), Len(R), h)

\* The output of row i will be delivered.
Counts(R, s, drop, i) == i \in 1..Len(R) /\ R[i].n > 0 /\ (i > s \/ ~drop)
First(R, s, drop, i) == \A j \in 1..(i - 1) : ~Counts(R, s, drop, j)
\* The workers know the length of the request.
Knows(drop, st, total, kn) == kn = total /\ (st = 0 \/ ~drop)

\* Only the first row that counts may carry a length, and that is the length
\* of the request; without one the workers know it.
Chained(R, s, drop, st, total, kn) ==
  \A i \in 1..Len(R) : Counts(R, s, drop, i) =>
    \/ R[i].fresh = 0 /\ ~First(R, s, drop, i)
    \/ /\ First(R, s, drop, i)
       /\ R[i].fresh = total \/ (R[i].fresh = 0 /\ Knows(drop, st, total, kn))

\* What a row scheduled next may rely on, bf the length it carries.
Resumes(R, s, drop, st, total, kn, bf) ==
  IF bf > 0 THEN bf = total /\ \A i \in 1..Len(R) : ~Counts(R, s, drop, i)
            ELSE \/ \E i \in 1..Len(R) : Counts(R, s, drop, i)
                 \/ kn = total /\ st = 0
Quiet(R, s) == \A i \in 1..Len(R) : i > s => R[i].n = 0

LEMMA TokensType ==
  ASSUME NEW R \in Seq(Row)
  PROVE  /\ \A i \in 1..Len(R) : R[i] \in Row /\ R[i].n \in Nat /\ R[i].k \in Nat
                                 /\ R[i].fresh \in Nat /\ R[i].last \in BOOLEAN
         /\ \A i \in 1..Len(R) : Tokens(R)[i] = R[i].n
<1>1. \A i \in 1..Len(R) : R[i] \in Row
  OBVIOUS
<1> QED
  BY <1>1 DEF Row, Tokens

LEMMA OwedType ==
  ASSUME NEW R \in Seq(Row), NEW s
  PROVE  /\ \A i \in 1..Len(R) : Owed(R, s)[i] \in Nat
         /\ \A i \in 1..Len(R) :
              Owed(R, s)[i] = IF i > s /\ R[i].n > 0 /\ R[i].last THEN 1 + R[i].k ELSE 0
BY TokensType DEF Owed

\* With rows in flight at all, stale ones among them are seen in the count.
LEMMA StaleRows ==
  ASSUME NEW R \in Seq(Row), NEW s \in 0..Len(R), NEW y, IsSum(Tokens(R), s, y)
  PROVE  y \in Nat /\ (y = 0 <=> \A i \in 1..Len(R) : i <= s => R[i].n = 0)
<1>1. \A i \in 1..s : i \in 1..Len(R) /\ Tokens(R)[i] = R[i].n /\ R[i].n \in Nat
  BY TokensType
<1>2. s \in Nat /\ y \in Nat
  BY SumType
<1>3. \A i \in 1..s : Tokens(R)[i] \in Nat
  BY <1>1
<1>4. y = 0 <=> \A i \in 1..s : Tokens(R)[i] = 0
  BY <1>2, <1>3, SumIsZero
<1>5. \A i \in 1..Len(R) : i <= s => i \in 1..s
  OBVIOUS
<1> QED
  BY <1>1, <1>2, <1>4, <1>5

\* Without tokens in flight no row is left.
LEMMA NothingInFlight ==
  ASSUME NEW R \in Seq(Row), IsSum(Tokens(R), Len(R), 0)
  PROVE  \A i \in 1..Len(R) : R[i].n = 0
<1>1. Len(R) \in 0..Len(R) /\ \A i \in 1..Len(R) : i <= Len(R)
  OBVIOUS
<1> QED
  BY <1>1, StaleRows

LEMMA NothingOwed ==
  ASSUME NEW R \in Seq(Row), NEW s, NEW h, HolesOf(R, s, h)
  PROVE  /\ h \in Nat
         /\ Quiet(R, s) => h = 0
<1>1. h \in Nat
  BY SumType DEF HolesOf
<1>2. ASSUME Quiet(R, s) PROVE h = 0
  <2>1. \A i \in 1..Len(R) : Owed(R, s)[i] = 0
    BY <1>2, OwedType DEF Quiet
  <2>2. Len(R) \in Nat /\ IsSum(Owed(R, s), Len(R), h)
    BY DEF HolesOf
  <2>3. \A i \in 1..Len(R) : Owed(R, s)[i] \in Nat
    BY <2>1
  <2> QED
    BY <2>1, <2>2, <2>3, SumIsZero
<1> QED
  BY <1>1, <1>2

-----------------------------------------------------------------------------
(* A step is scheduled: a row more *)

LEMMA GrowRows ==
  ASSUME NEW R \in Seq(Row), NEW w \in Row
  PROVE  /\ Append(R, w) \in Seq(Row) /\ Len(Append(R, w)) = Len(R) + 1
         /\ Len(R) \in Nat
         /\ \A i \in 1..Len(R) : Append(R, w)[i] = R[i]
         /\ Append(R, w)[Len(R) + 1] = w
OBVIOUS

LEMMA GrowTally ==
  ASSUME NEW R \in Seq(Row), NEW w \in Row, NEW s \in 0..Len(R), NEW x, NEW y,
         Tally(R, s, x, y)
  PROVE  Tally(Append(R, w), s, x + w.n, y)
<1> DEFINE Q == Append(R, w)
           n == Len(R)
<1>1. Q \in Seq(Row) /\ Len(Q) = n + 1 /\ n \in Nat /\ (\A i \in 1..n : Q[i] = R[i])
      /\ Q[n + 1] = w
  BY GrowRows
<1> HIDE DEF Q, n
<1>2. \A i \in 1..n : i \in 1..(n + 1)
  BY <1>1
<1>3. \A i \in 1..n : Tokens(Q)[i] = Tokens(R)[i]
  BY <1>1, <1>2 DEF Tokens, n
<1>4. Tokens(Q)[n + 1] = w.n /\ w.n \in Nat
  <2>1. n + 1 \in 1..Len(Q)
    BY <1>1
  <2> QED
    BY <1>1, <2>1 DEF Tokens, Row
<1>5. IsSum(Tokens(R), n, x) /\ IsSum(Tokens(R), s, y)
  BY DEF Tally, n
<1>6. IsSum(Tokens(Q), n + 1, x + w.n)
  <2>1. Tokens(Q)[n + 1] \in Nat
    BY <1>4
  <2>2. IsSum(Tokens(Q), n + 1, x + Tokens(Q)[n + 1])
    BY <1>1, <1>3, <1>5, <2>1, SumNext
  <2> QED
    BY <1>4, <2>2
<1>7. IsSum(Tokens(Q), s, y)
  <2>1. s \in Nat /\ \A i \in 1..s : i \in 1..n
    BY <1>1 DEF n
  <2>2. \A i \in 1..s : Tokens(Q)[i] = Tokens(R)[i]
    BY <1>3, <2>1
  <2> QED
    BY <1>5, <2>1, <2>2, SumSame
<1> QED
  BY <1>1, <1>6, <1>7 DEF Tally, Q

LEMMA GrowHoles ==
  ASSUME NEW R \in Seq(Row), NEW w \in Row, NEW s \in 0..Len(R), NEW h,
         HolesOf(R, s, h)
  PROVE  HolesOf(Append(R, w), s, h + (IF w.n > 0 /\ w.last THEN 1 + w.k ELSE 0))
<1> DEFINE Q == Append(R, w)
           n == Len(R)
           more == IF w.n > 0 /\ w.last THEN 1 + w.k ELSE 0
<1>1. Q \in Seq(Row) /\ Len(Q) = n + 1 /\ n \in Nat /\ (\A i \in 1..n : Q[i] = R[i])
      /\ Q[n + 1] = w
  BY GrowRows
<1> HIDE DEF Q, n
<1>2. \A i \in 1..n : i \in 1..(n + 1)
  BY <1>1
<1>3. \A i \in 1..n : Owed(Q, s)[i] = Owed(R, s)[i]
  BY <1>1, <1>2 DEF Owed, n
<1>4. Owed(Q, s)[n + 1] = more /\ more \in Nat
  <2>1. n + 1 \in 1..Len(Q) /\ n + 1 > s
    BY <1>1 DEF n
  <2>2. more \in Nat
    BY DEF Row
  <2> QED
    BY <1>1, <2>1, <2>2 DEF Owed
<1> HIDE DEF more
<1>5. IsSum(Owed(R, s), n, h)
  BY DEF HolesOf, n
<1>6. IsSum(Owed(Q, s), n + 1, h + more)
  <2>1. Owed(Q, s)[n + 1] \in Nat
    BY <1>4
  <2>2. IsSum(Owed(Q, s), n + 1, h + Owed(Q, s)[n + 1])
    BY <1>1, <1>3, <1>5, <2>1, SumNext
  <2> QED
    BY <1>4, <2>2
<1> QED
  BY <1>1, <1>6 DEF HolesOf, Q, more

\* Whether a row counts does not depend on the later ones.
LEMMA GrowCounts ==
  ASSUME NEW R \in Seq(Row), NEW w \in Row, NEW s \in 0..Len(R), NEW drop
  PROVE  /\ \A i \in 1..Len(R) : /\ Counts(Append(R, w), s, drop, i) <=> Counts(R, s, drop, i)
                                 /\ First(Append(R, w), s, drop, i) <=> First(R, s, drop, i)
         /\ Counts(Append(R, w), s, drop, Len(R) + 1) <=> w.n > 0
         /\ First(Append(R, w), s, drop, Len(R) + 1) <=>
              \A i \in 1..Len(R) : ~Counts(R, s, drop, i)
<1> DEFINE Q == Append(R, w)
           n == Len(R)
<1>1. Q \in Seq(Row) /\ Len(Q) = n + 1 /\ n \in Nat /\ (\A i \in 1..n : Q[i] = R[i])
      /\ Q[n + 1] = w
  BY GrowRows
<1>0. s \in 0..n /\ n = Len(R)
  OBVIOUS
<1> HIDE DEF Q, n
<1>2. (\A i \in 1..n : i \in 1..(n + 1)) /\ n + 1 \in 1..(n + 1) /\ n + 1 > s
  BY <1>0, <1>1
<1>3. \A i \in 1..n : Counts(Q, s, drop, i) <=> Counts(R, s, drop, i)
  BY <1>0, <1>1, <1>2 DEF Counts
<1>4. Counts(Q, s, drop, n + 1) <=> w.n > 0
  BY <1>0, <1>1, <1>2 DEF Counts
<1>5. \A i \in 1..n : \A j \in 1..(i - 1) : j \in 1..n
  BY <1>1
<1>6. \A i \in 1..n : First(Q, s, drop, i) <=> First(R, s, drop, i)
  BY <1>3, <1>5 DEF First
<1>7. (n + 1) - 1 = n
  BY <1>1
<1>8. First(Q, s, drop, n + 1) <=> \A i \in 1..n : ~Counts(R, s, drop, i)
  BY <1>3, <1>7 DEF First
<1> QED
  BY <1>0, <1>3, <1>4, <1>6, <1>8 DEF Q

LEMMA GrowChained ==
  ASSUME NEW R \in Seq(Row), NEW w \in Row, NEW s \in 0..Len(R), NEW drop, NEW st,
         NEW total \in Nat, NEW kn, Chained(R, s, drop, st, total, kn),
         w.n > 0 => Resumes(R, s, drop, st, total, kn, w.fresh)
  PROVE  Chained(Append(R, w), s, drop, st, total, kn)
<1> DEFINE Q == Append(R, w)
<1>1. /\ Len(Q) = Len(R) + 1 /\ Len(R) \in Nat
      /\ \A i \in 1..Len(R) : Q[i] = R[i]
      /\ Q[Len(R) + 1] = w
  BY GrowRows
<1>2. /\ \A i \in 1..Len(R) : /\ Counts(Q, s, drop, i) <=> Counts(R, s, drop, i)
                              /\ First(Q, s, drop, i) <=> First(R, s, drop, i)
      /\ Counts(Q, s, drop, Len(R) + 1) <=> w.n > 0
      /\ First(Q, s, drop, Len(R) + 1) <=> \A i \in 1..Len(R) : ~Counts(R, s, drop, i)
  BY GrowCounts
<1> HIDE DEF Q
<1> SUFFICES ASSUME NEW i \in 1..Len(Q), Counts(Q, s, drop, i)
             PROVE  \/ Q[i].fresh = 0 /\ ~First(Q, s, drop, i)
                    \/ /\ First(Q, s, drop, i)
                       /\ Q[i].fresh = total
                          \/ (Q[i].fresh = 0 /\ Knows(drop, st, total, kn))
  BY DEF Chained, Q
<1>3. CASE i \in 1..Len(R)
  BY <1>1, <1>2, <1>3 DEF Chained
<1>4. CASE i = Len(R) + 1
  <2>1. w.n > 0 /\ w.fresh \in Nat /\ Q[i] = w
    BY <1>1, <1>2, <1>4 DEF Row
  <2>2. CASE w.fresh > 0
    BY <1>2, <1>4, <2>1, <2>2 DEF Resumes
  <2>3. CASE w.fresh = 0 /\ \E j \in 1..Len(R) : Counts(R, s, drop, j)
    BY <1>2, <1>4, <2>1, <2>3
  <2>4. CASE w.fresh = 0 /\ ~\E j \in 1..Len(R) : Counts(R, s, drop, j)
    <3>1. kn = total /\ st = 0
      BY <2>1, <2>4 DEF Resumes
    <3> QED
      BY <1>2, <1>4, <2>1, <2>4, <3>1 DEF Knows
  <2> QED
    BY <2>1, <2>2, <2>3, <2>4
<1> QED
  BY <1>1, <1>3, <1>4

LEMMA GrowResumes ==
  ASSUME NEW R \in Seq(Row), NEW w \in Row, NEW s \in 0..Len(R), NEW drop, NEW st,
         NEW total, NEW kn, w.n = 0 => Resumes(R, s, drop, st, total, kn, 0)
  PROVE  Resumes(Append(R, w), s, drop, st, total, kn, 0)
<1>1. w.n > 0 \/ w.n = 0
  BY DEF Row
<1>2. /\ Len(Append(R, w)) = Len(R) + 1 /\ Len(R) \in Nat
      /\ \A i \in 1..Len(R) : Counts(Append(R, w), s, drop, i) <=> Counts(R, s, drop, i)
      /\ Counts(Append(R, w), s, drop, Len(R) + 1) <=> w.n > 0
  BY GrowRows, GrowCounts
<1>3. (\A i \in 1..Len(R) : i \in 1..(Len(R) + 1)) /\ Len(R) + 1 \in 1..(Len(R) + 1)
  BY <1>2
<1> QED
  BY <1>1, <1>2, <1>3 DEF Resumes

-----------------------------------------------------------------------------
(* Output arrives: the first row is emptied *)

Cleared(R, Q) ==
  /\ Q \in Seq(Row) /\ Len(Q) = Len(R) /\ Q[1].n = 0
  /\ \A i \in 1..Len(R) : i # 1 => Q[i] = R[i]
\* What is left of the stale tokens y when n arrive.
LeftOf(y, n) == IF y > 0 THEN y - n ELSE y

LEMMA FirstRowStale ==
  ASSUME NEW R \in Seq(Row), Len(R) >= 1, R[1].n > 0, NEW s \in 0..Len(R), NEW y,
         IsSum(Tokens(R), s, y)
  PROVE  y \in Nat /\ (y > 0 <=> s >= 1)
<1>1. y \in Nat /\ (y = 0 <=> \A i \in 1..Len(R) : i <= s => R[i].n = 0)
  BY StaleRows
<1>2. 1 \in 1..Len(R) /\ \A i \in 1..Len(R) : i >= 1
  OBVIOUS
<1>3. ASSUME s >= 1 PROVE y # 0
  BY <1>1, <1>2, <1>3
<1>4. ASSUME ~(s >= 1) PROVE y = 0
  <2>1. s = 0
    BY <1>4
  <2> QED
    BY <1>1, <1>2, <2>1
<1> QED
  BY <1>1, <1>3, <1>4

LEMMA ClearSum ==
  ASSUME NEW R \in Seq(Row), NEW Q, Cleared(R, Q), NEW n \in 1..Len(R), NEW x,
         IsSum(Tokens(R), n, x)
  PROVE  R[1].n <= x /\ IsSum(Tokens(Q), n, x - R[1].n)
<1>1. n \in Nat /\ n >= 1 /\ (\A i \in 1..n : i \in 1..Len(R)) /\ 1 \in 1..Len(R)
      /\ \A i \in 2..n : i \in 1..Len(R) /\ i # 1
  OBVIOUS
<1>2. Q \in Seq(Row) /\ Len(Q) = Len(R) /\ Q[1].n = 0
      /\ \A i \in 1..Len(R) : i # 1 => Q[i] = R[i]
  BY DEF Cleared
<1>3. \A i \in 1..n : Tokens(R)[i] = R[i].n /\ Tokens(R)[i] \in Nat
  BY <1>1, TokensType
<1>4. Tokens(Q)[1] = 0 /\ \A i \in 2..n : Tokens(Q)[i] = Tokens(R)[i]
  BY <1>1, <1>2 DEF Tokens
<1>5. Tokens(R)[1] <= x /\ IsSum(Tokens(Q), n, x - Tokens(R)[1])
  <2>1. \A i \in 1..n : Tokens(R)[i] \in Nat
    BY <1>3
  <2> QED
    BY <1>1, <1>4, <2>1, SumWithoutFirst
<1>6. Tokens(R)[1] = R[1].n
  BY <1>1, <1>3
<1> QED
  BY <1>5, <1>6

LEMMA ClearTally ==
  ASSUME NEW R \in Seq(Row), NEW Q, Cleared(R, Q), Len(R) >= 1, R[1].n > 0,
         NEW s \in 0..Len(R), NEW x, NEW y, Tally(R, s, x, y)
  PROVE  /\ x - R[1].n \in Nat /\ LeftOf(y, R[1].n) \in Nat
         /\ Tally(Q, s, x - R[1].n, LeftOf(y, R[1].n))
<1>1. IsSum(Tokens(R), Len(R), x) /\ IsSum(Tokens(R), s, y)
  BY DEF Tally
<1>2. Len(R) \in 1..Len(R) /\ Len(Q) = Len(R)
  BY DEF Cleared
<1>3. IsSum(Tokens(Q), Len(Q), x - R[1].n)
  BY <1>1, <1>2, ClearSum
<1>4. y \in Nat /\ (y > 0 <=> s >= 1)
  BY <1>1, FirstRowStale
<1>5. IsSum(Tokens(Q), s, LeftOf(y, R[1].n))
  <2>1. CASE s >= 1
    <3>1. s \in 1..Len(R)
      BY <2>1
    <3>2. IsSum(Tokens(Q), s, y - R[1].n)
      BY <1>1, <3>1, ClearSum
    <3> QED
      BY <1>4, <2>1, <3>2 DEF LeftOf
  <2>2. CASE s = 0
    <3>1. y = 0
      BY <1>4, <2>2
    <3>2. IsSum(Tokens(Q), 0, 0)
      BY SumOfNone
    <3> QED
      BY <2>2, <3>1, <3>2 DEF LeftOf
  <2> QED
    BY <2>1, <2>2
<1>6. x - R[1].n \in Nat
  <2>1. Len(Q) \in Nat
    BY <1>2
  <2> QED
    BY <1>3, <2>1, SumType
<1>7. LeftOf(y, R[1].n) \in Nat
  <2>1. s \in Nat
    OBVIOUS
  <2> QED
    BY <1>5, <2>1, SumType
<1> QED
  BY <1>3, <1>5, <1>6, <1>7 DEF Tally

\* A stale row keeps no places; a later one gives its places up.
LEMMA ClearHoles ==
  ASSUME NEW R \in Seq(Row), NEW Q, Cleared(R, Q), Len(R) >= 1, R[1].n > 0,
         NEW s \in 0..Len(R), NEW h, HolesOf(R, s, h)
  PROVE  /\ s >= 1 \/ ~R[1].last => HolesOf(Q, s, h)
         /\ s = 0 /\ R[1].last => 1 + R[1].k <= h /\ HolesOf(Q, 0, h - (1 + R[1].k))
<1>1. Q \in Seq(Row) /\ Len(Q) = Len(R) /\ Q[1].n = 0
      /\ \A i \in 1..Len(R) : i # 1 => Q[i] = R[i]
  BY DEF Cleared
<1>2. \A i \in 1..Len(R) : Owed(R, s)[i] \in Nat
  BY OwedType
<1>3. 1 \in 1..Len(R) /\ Len(R) \in Nat /\ \A i \in 2..Len(R) : i \in 1..Len(R) /\ i # 1
  OBVIOUS
<1>4. Owed(Q, s)[1] = 0 /\ \A i \in 2..Len(R) : Owed(Q, s)[i] = Owed(R, s)[i]
  BY <1>1, <1>3 DEF Owed
<1>5. Owed(R, s)[1] = IF 1 > s /\ R[1].last THEN 1 + R[1].k ELSE 0
  BY <1>3, OwedType
<1>6. IsSum(Owed(R, s), Len(R), h)
  BY DEF HolesOf
<1>7. Owed(R, s)[1] <= h /\ IsSum(Owed(Q, s), Len(R), h - Owed(R, s)[1])
  BY <1>2, <1>3, <1>4, <1>6, SumWithoutFirst
<1>8. h \in Nat
  BY <1>3, <1>6, SumType
<1>9. ASSUME s >= 1 \/ ~R[1].last PROVE HolesOf(Q, s, h)
  <2>1. Owed(R, s)[1] = 0
    BY <1>5, <1>9
  <2>2. h - 0 = h
    BY <1>8
  <2> QED
    BY <1>1, <1>7, <2>1, <2>2 DEF HolesOf
<1>10. ASSUME s = 0, R[1].last
       PROVE  1 + R[1].k <= h /\ HolesOf(Q, 0, h - (1 + R[1].k))
  <2>1. Owed(R, s)[1] = 1 + R[1].k
    BY <1>5, <1>10
  <2> QED
    BY <1>1, <1>7, <1>10, <2>1 DEF HolesOf
<1> QED
  BY <1>9, <1>10

LEMMA ClearCounts ==
  ASSUME NEW R \in Seq(Row), NEW Q, Cleared(R, Q), NEW s, NEW drop
  PROVE  /\ ~Counts(Q, s, drop, 1)
         /\ \A i \in 1..Len(R) : i # 1 => (Counts(Q, s, drop, i) <=> Counts(R, s, drop, i))
         /\ Len(Q) = Len(R)
<1>1. Q[1].n = 0 /\ Len(Q) = Len(R) /\ \A i \in 1..Len(R) : i # 1 => Q[i] = R[i]
  BY DEF Cleared
<1> QED
  BY <1>1 DEF Counts

\* The first row is delivered: the workers sent what follows on from the length
\* of the request, and from then on they know it.
LEMMA ClearDelivered ==
  ASSUME NEW R \in Seq(Row), NEW Q, Cleared(R, Q), Len(R) >= 1, NEW s, NEW drop,
         Counts(R, s, drop, 1), NEW st, NEW total \in Nat, total > 0, NEW kn,
         Chained(R, s, drop, st, total, kn)
  PROVE  /\ (IF R[1].fresh > 0 THEN R[1].fresh ELSE kn) = total
         /\ \A z, u : (z = 0 \/ ~drop) => Chained(Q, s, drop, z, u, u)
         /\ \A u : Resumes(Q, s, drop, 0, u, u, 0)
<1>1. 1 \in 1..Len(R) /\ First(R, s, drop, 1) /\ R[1].fresh \in Nat
  <2>1. 1 \in 1..Len(R) /\ 1 - 1 = 0
    OBVIOUS
  <2> QED
    BY <2>1, TokensType DEF First
<1>2. R[1].fresh = total \/ (R[1].fresh = 0 /\ Knows(drop, st, total, kn))
  BY <1>1 DEF Chained
<1>3. (IF R[1].fresh > 0 THEN R[1].fresh ELSE kn) = total
  BY <1>1, <1>2 DEF Knows
<1>4. ASSUME NEW z, NEW u, z = 0 \/ ~drop PROVE Chained(Q, s, drop, z, u, u)
  <2> SUFFICES ASSUME NEW i \in 1..Len(Q), Counts(Q, s, drop, i)
               PROVE  \/ Q[i].fresh = 0 /\ ~First(Q, s, drop, i)
                      \/ /\ First(Q, s, drop, i)
                         /\ Q[i].fresh = u \/ (Q[i].fresh = 0 /\ Knows(drop, z, u, u))
    BY DEF Chained
  <2>1. i \in 1..Len(R) /\ i # 1 /\ Counts(R, s, drop, i)
    BY ClearCounts
  <2>2. ~First(R, s, drop, i)
    <3>1. 1 \in 1..(i - 1)
      BY <2>1
    <3> QED
      BY <3>1 DEF First
  <2>3. Q[i].fresh = 0
    BY <2>1, <2>2 DEF Chained, Cleared
  <2> QED
    BY <1>4, <2>3 DEF Knows
<1>5. \A u : Resumes(Q, s, drop, 0, u, u, 0)
  BY DEF Resumes
<1> QED
  BY <1>3, <1>4, <1>5

\* The first row is dropped: what counts stays.
LEMMA ClearIgnored ==
  ASSUME NEW R \in Seq(Row), NEW Q, Cleared(R, Q), Len(R) >= 1, NEW s, s \in Nat, s >= 1,
         NEW st, st # 0, NEW total, NEW kn
  PROVE  /\ Chained(R, s, TRUE, st, total, kn) =>
              \A z, u : Chained(Q, s, TRUE, z, total, u)
         /\ Resumes(R, s, TRUE, st, total, kn, 0) =>
              \A z, u : Resumes(Q, s, TRUE, z, total, u, 0)
<1>1. ~Counts(R, s, TRUE, 1)
  BY DEF Counts
<1>2. \A i \in 1..Len(R) : Counts(Q, s, TRUE, i) <=> Counts(R, s, TRUE, i)
  BY <1>1, ClearCounts
<1>3. \A i \in 1..Len(R) : First(Q, s, TRUE, i) <=> First(R, s, TRUE, i)
  <2>1. \A i \in 1..Len(R) : \A j \in 1..(i - 1) : j \in 1..Len(R)
    OBVIOUS
  <2> QED
    BY <1>2, <2>1 DEF First
<1>4. Len(Q) = Len(R) /\ \A i \in 1..Len(R) : i # 1 => Q[i] = R[i]
  BY DEF Cleared
<1>5. ~Knows(TRUE, st, total, kn)
  BY DEF Knows
<1>6. ASSUME Chained(R, s, TRUE, st, total, kn), NEW z, NEW u
      PROVE  Chained(Q, s, TRUE, z, total, u)
  <2>1. \A i \in 1..Len(R) : Counts(R, s, TRUE, i) => i # 1
    BY <1>1
  <2>2. \A i \in 1..Len(R) : Counts(R, s, TRUE, i) =>
          \/ Q[i].fresh = 0 /\ ~First(Q, s, TRUE, i)
          \/ First(Q, s, TRUE, i) /\ Q[i].fresh = total
    BY <1>3, <1>4, <1>5, <1>6, <2>1 DEF Chained
  <2> QED
    BY <1>2, <1>4, <2>2 DEF Chained
<1>7. ASSUME Resumes(R, s, TRUE, st, total, kn, 0), NEW z, NEW u
      PROVE  Resumes(Q, s, TRUE, z, total, u, 0)
  BY <1>2, <1>4, <1>7 DEF Resumes
<1> QED
  BY <1>6, <1>7

-----------------------------------------------------------------------------
(* A step is done with: its row, empty by then, goes *)

Less(s) == IF s = 0 THEN 0 ELSE s - 1

LEMMA TailRows ==
  ASSUME NEW R \in Seq(Row), Len(R) >= 1
  PROVE  /\ Tail(R) \in Seq(Row) /\ Len(Tail(R)) = Len(R) - 1
         /\ \A i \in 1..(Len(R) - 1) : Tail(R)[i] = R[i + 1]
OBVIOUS

LEMMA TailTally ==
  ASSUME NEW R \in Seq(Row), Len(R) >= 1, R[1].n = 0, NEW s \in 0..Len(R), NEW x, NEW y,
         Tally(R, s, x, y)
  PROVE  Less(s) \in 0..Len(Tail(R)) /\ Tally(Tail(R), Less(s), x, y)
<1> DEFINE Q == Tail(R)
<1>1. Len(Q) = Len(R) - 1 /\ \A i \in 1..(Len(R) - 1) : Q[i] = R[i + 1]
  BY TailRows
<1> HIDE DEF Q
<1>2. ASSUME NEW n \in 1..Len(R), NEW z, IsSum(Tokens(R), n, z)
      PROVE  IsSum(Tokens(Q), n - 1, z)
  <2>1. n \in Nat /\ n >= 1 /\ Tokens(R)[1] = 0
    <3>1. 1 \in 1..Len(R)
      OBVIOUS
    <3> QED
      BY <3>1, TokensType
  <2>2. \A i \in 1..(n - 1) : Tokens(Q)[i] = Tokens(R)[i + 1]
    <3>1. \A i \in 1..(n - 1) : i \in 1..(Len(R) - 1) /\ i + 1 \in 1..Len(R)
      OBVIOUS
    <3> QED
      BY <1>1, <3>1 DEF Tokens
  <2> QED
    BY <1>2, <2>1, <2>2, SumOfTail
<1>3. IsSum(Tokens(R), Len(R), x) /\ IsSum(Tokens(R), s, y)
  BY DEF Tally
<1>4. IsSum(Tokens(Q), Len(Q), x)
  <2>1. Len(R) \in 1..Len(R)
    OBVIOUS
  <2> QED
    BY <1>1, <1>2, <1>3, <2>1
<1>5. IsSum(Tokens(Q), Less(s), y)
  <2>1. CASE s = 0
    BY <1>3, <2>1, SumOfNone DEF Less
  <2>2. CASE s # 0
    <3>1. s \in 1..Len(R) /\ Less(s) = s - 1
      BY <2>2 DEF Less
    <3> QED
      BY <1>2, <1>3, <3>1
  <2> QED
    BY <2>1, <2>2
<1>6. Less(s) \in 0..Len(Q)
  BY <1>1 DEF Less
<1> QED
  BY <1>4, <1>5, <1>6 DEF Tally, Q

LEMMA TailHoles ==
  ASSUME NEW R \in Seq(Row), Len(R) >= 1, R[1].n = 0, NEW s \in 0..Len(R), NEW h,
         HolesOf(R, s, h)
  PROVE  HolesOf(Tail(R), Less(s), h)
<1> DEFINE Q == Tail(R)
<1>1. Len(Q) = Len(R) - 1 /\ \A i \in 1..(Len(R) - 1) : Q[i] = R[i + 1]
  BY TailRows
<1> HIDE DEF Q
<1>2. 1 \in 1..Len(R) /\ Len(R) \in Nat
      /\ \A i \in 1..(Len(R) - 1) : i + 1 \in 1..Len(R) /\ i \in 1..Len(Q)
                                    /\ (i > Less(s) <=> i + 1 > s)
  BY <1>1 DEF Less
<1>3. Owed(R, s)[1] = 0
  BY <1>2 DEF Owed
<1>4. \A i \in 1..(Len(R) - 1) : Owed(Q, Less(s))[i] = Owed(R, s)[i + 1]
  BY <1>1, <1>2 DEF Owed
<1>5. IsSum(Owed(R, s), Len(R), h)
  BY DEF HolesOf
<1>6. IsSum(Owed(Q, Less(s)), Len(R) - 1, h)
  BY <1>2, <1>3, <1>4, <1>5, SumOfTail
<1> QED
  BY <1>1, <1>6 DEF HolesOf, Q

LEMMA TailCounts ==
  ASSUME NEW R \in Seq(Row), Len(R) >= 1, R[1].n = 0, NEW s \in 0..Len(R), NEW drop
  PROVE  /\ \A i \in 1..Len(Tail(R)) :
              /\ Counts(Tail(R), Less(s), drop, i) <=> Counts(R, s, drop, i + 1)
              /\ First(Tail(R), Less(s), drop, i) <=> First(R, s, drop, i + 1)
         /\ \A i \in 1..Len(R) : Counts(R, s, drop, i) => i - 1 \in 1..Len(Tail(R))
<1> DEFINE Q == Tail(R)
<1>1. Len(Q) = Len(R) - 1 /\ \A i \in 1..(Len(R) - 1) : Q[i] = R[i + 1]
  BY TailRows
<1> HIDE DEF Q
<1>2. \A i \in 1..Len(Q) : i + 1 \in 1..Len(R) /\ (i > Less(s) <=> i + 1 > s)
  BY <1>1 DEF Less
<1>3. \A i \in 1..Len(Q) : Counts(Q, Less(s), drop, i) <=> Counts(R, s, drop, i + 1)
  BY <1>1, <1>2 DEF Counts
<1>4. ~Counts(R, s, drop, 1)
  BY DEF Counts
<1>5. \A i \in 1..Len(R) : Counts(R, s, drop, i) => i - 1 \in 1..Len(Q)
  BY <1>1, <1>4
<1>6. ASSUME NEW i \in 1..Len(Q)
      PROVE  First(Q, Less(s), drop, i) <=> First(R, s, drop, i + 1)
  <2>1. (i + 1) - 1 = i /\ \A j \in 1..(i - 1) : j \in 1..Len(Q) /\ j + 1 \in 1..i
    OBVIOUS
  <2>2. \A j \in 1..i : j = 1 \/ (j - 1 \in 1..(i - 1) /\ (j - 1) + 1 = j)
    OBVIOUS
  <2>3. ASSUME First(Q, Less(s), drop, i), NEW j \in 1..i PROVE ~Counts(R, s, drop, j)
    <3>1. CASE j = 1
      BY <1>4, <3>1
    <3>2. CASE j - 1 \in 1..(i - 1) /\ (j - 1) + 1 = j
      BY <1>3, <2>1, <2>3, <3>2 DEF First
    <3> QED
      BY <2>2, <3>1, <3>2
  <2>4. ASSUME First(R, s, drop, i + 1), NEW j \in 1..(i - 1)
        PROVE  ~Counts(Q, Less(s), drop, j)
    BY <1>3, <2>1, <2>4 DEF First
  <2> QED
    BY <2>1, <2>3, <2>4 DEF First
<1> QED
  BY <1>3, <1>5, <1>6 DEF Q

LEMMA TailChained ==
  ASSUME NEW R \in Seq(Row), Len(R) >= 1, R[1].n = 0, NEW s \in 0..Len(R), NEW drop,
         NEW st, NEW total, NEW kn, NEW bf
  PROVE  /\ Chained(R, s, drop, st, total, kn) =>
              Chained(Tail(R), Less(s), drop, st, total, kn)
         /\ Resumes(R, s, drop, st, total, kn, bf) =>
              Resumes(Tail(R), Less(s), drop, st, total, kn, bf)
         /\ Quiet(R, s) => Quiet(Tail(R), Less(s))
<1> DEFINE Q == Tail(R)
<1>1. Len(Q) = Len(R) - 1 /\ \A i \in 1..(Len(R) - 1) : Q[i] = R[i + 1]
  BY TailRows
<1>2. /\ \A i \in 1..Len(Q) :
           /\ Counts(Q, Less(s), drop, i) <=> Counts(R, s, drop, i + 1)
           /\ First(Q, Less(s), drop, i) <=> First(R, s, drop, i + 1)
      /\ \A i \in 1..Len(R) : Counts(R, s, drop, i) => i - 1 \in 1..Len(Q)
  BY TailCounts
<1> HIDE DEF Q
<1>3. \A i \in 1..Len(Q) : i + 1 \in 1..Len(R) /\ Q[i] = R[i + 1]
                           /\ (i > Less(s) => i + 1 > s)
  BY <1>1 DEF Less
<1>4. ASSUME Chained(R, s, drop, st, total, kn)
      PROVE  Chained(Q, Less(s), drop, st, total, kn)
  BY <1>2, <1>3, <1>4 DEF Chained
<1>5. (\E i \in 1..Len(R) : Counts(R, s, drop, i)) <=>
        \E i \in 1..Len(Q) : Counts(Q, Less(s), drop, i)
  <2>1. \A i \in 1..Len(R) : (i - 1) + 1 = i
    OBVIOUS
  <2> QED
    BY <1>2, <1>3, <2>1
<1>6. ASSUME Resumes(R, s, drop, st, total, kn, bf)
      PROVE  Resumes(Q, Less(s), drop, st, total, kn, bf)
  <2>1. CASE bf > 0
    BY <1>5, <1>6, <2>1 DEF Resumes
  <2>2. CASE ~(bf > 0)
    BY <1>5, <1>6, <2>2 DEF Resumes
  <2> QED
    BY <2>1, <2>2
<1>7. ASSUME Quiet(R, s) PROVE Quiet(Q, Less(s))
  BY <1>3, <1>7 DEF Quiet
<1> QED
  BY <1>4, <1>6, <1>7 DEF Q

-----------------------------------------------------------------------------
(* Preemption and admission: from which row on output is stale *)

LEMMA PreemptTally ==
  ASSUME NEW R \in Seq(Row), NEW s, NEW x, NEW y, Tally(R, s, x, y)
  PROVE  /\ Tally(R, Len(R), x, x) /\ HolesOf(R, Len(R), 0) /\ Quiet(R, Len(R))
         /\ Len(R) \in 0..Len(R)
<1>1. Len(R) \in Nat /\ \A i \in 1..Len(R) : ~(i > Len(R))
  OBVIOUS
<1>2. \A i \in 1..Len(R) : Owed(R, Len(R))[i] = 0
  BY <1>1 DEF Owed
<1>3. HolesOf(R, Len(R), 0)
  BY <1>1, <1>2, SumOfZeros DEF HolesOf
<1>4. Quiet(R, Len(R))
  BY <1>1 DEF Quiet
<1>5. Tally(R, Len(R), x, x)
  BY DEF Tally
<1> QED
  BY <1>1, <1>3, <1>4, <1>5

LEMMA PreemptChained ==
  ASSUME NEW R \in Seq(Row), NEW s \in 0..Len(R), NEW old \in BOOLEAN, NEW new \in BOOLEAN,
         NEW st, IsSum(Tokens(R), s, st), NEW z, NEW total, NEW kn,
         Chained(R, s, old, st, total, kn), ~new => (~old \/ st = 0)
  PROVE  Chained(R, Len(R), new, z, total, kn)
<1>1. \A i \in 1..Len(R) : ~(i > Len(R))
  OBVIOUS
<1>2. CASE new
  <2>1. \A i \in 1..Len(R) : ~Counts(R, Len(R), new, i)
    BY <1>1, <1>2 DEF Counts
  <2> QED
    BY <2>1 DEF Chained
<1>3. CASE ~new
  <2>1. old => \A i \in 1..Len(R) : i <= s => R[i].n = 0
    BY <1>3, StaleRows
  <2>2. \A i \in 1..Len(R) : Counts(R, Len(R), new, i) <=> Counts(R, s, old, i)
    <3>1. \A i \in 1..Len(R) : i <= s \/ i > s
      OBVIOUS
    <3> QED
      BY <1>3, <2>1, <3>1 DEF Counts
  <2>3. \A i \in 1..Len(R) : First(R, Len(R), new, i) <=> First(R, s, old, i)
    <3>1. \A i \in 1..Len(R) : \A j \in 1..(i - 1) : j \in 1..Len(R)
      OBVIOUS
    <3> QED
      BY <2>2, <3>1 DEF First
  <2>4. Knows(old, st, total, kn) => Knows(new, z, total, kn)
    BY <1>3 DEF Knows
  <2> QED
    BY <2>2, <2>3, <2>4 DEF Chained
<1> QED
  BY <1>2, <1>3

\* A request is scheduled anew only when no output of it counts any more.
LEMMA AdmitResumes ==
  ASSUME NEW R \in Seq(Row), NEW s \in 0..Len(R), NEW drop \in BOOLEAN, NEW st,
         IsSum(Tokens(R), s, st), Quiet(R, s), st = 0 \/ drop, NEW total, total > 0, NEW kn
  PROVE  Resumes(R, s, drop, st, total, kn, total)
<1>1. \A i \in 1..Len(R) : ~Counts(R, s, drop, i)
  <2>1. st = 0 => \A i \in 1..Len(R) : i <= s => R[i].n = 0
    BY StaleRows
  <2>2. \A i \in 1..Len(R) : i <= s \/ i > s
    OBVIOUS
  <2> QED
    BY <2>1, <2>2 DEF Counts, Quiet
<1> QED
  BY <1>1 DEF Resumes

-----------------------------------------------------------------------------
(* The books of a request *)

Live == {"new", "waiting", "remote", "running"}

\* The rows of r: what was processed already has arrived.
Arrives(i, r) == IF phase = "output" /\ i = 1 /\ r \notin todo THEN 0 ELSE steps[i].n[r]
Rows(r) == [i \in 1..Len(steps) |->
              [n |-> Arrives(i, r), k |-> steps[i].k[r],
               fresh |-> steps[i].fresh[r], last |-> steps[i].last[r]]]

\* The counters of r, if its output of the first s steps is stale.
Entered(r, s) ==
  /\ Tally(Rows(r), s, inFlight[r], stale[r])
  /\ status[r] \in Live =>
       /\ HolesOf(Rows(r), s, holes[r])
       /\ Chained(Rows(r), s, dropStale[r], stale[r], Total(r), known[r])
       /\ status[r] # "running" => Quiet(Rows(r), s)
       /\ status[r] \in {"running", "remote"} => stale[r] = 0 \/ dropStale[r]
       /\ status[r] = "running" =>
            Resumes(Rows(r), s, dropStale[r], stale[r], Total(r), known[r], batch.fresh[r])
Books(r) == \E s \in 0..Len(Rows(r)) : Entered(r, s)

\* How far the computation of r is ahead of its tokens.
Progress(r) ==
  /\ Len(delivered[r]) = output[r]
  /\ \A i \in 1..Len(delivered[r]) : delivered[r][i] = PromptLen[r] + i
  /\ status[r] \in Live => Total(r) < MaxModelLen /\ spec[r] \in 0..NumSpec
  /\ status[r] \in {"new", "waiting", "remote"} => holes[r] = 0 /\ spec[r] = 0
  /\ status[r] \in {"new", "waiting"} => computed[r] < Total(r)
  /\ status[r] = "remote" => computed[r] <= Total(r)
  /\ status[r] = "running" =>
       /\ computed[r] < Total(r) + holes[r] /\ computed[r] < MaxModelLen
       /\ holes[r] > 0 => computed[r] = Total(r) + holes[r] - 1

\* The batch takes r to its last token and by its drafts beyond it.
Planned(r) ==
  batch.n[r] > 0 =>
    /\ computed[r] + batch.n[r] < MaxModelLen
    /\ computed[r] + batch.n[r] <= Total(r) + holes[r] + batch.k[r]
    /\ computed[r] + batch.n[r] >= Total(r) + holes[r] =>
         batch.k[r] = computed[r] + batch.n[r] - (Total(r) + holes[r])

Sound(r) ==
  /\ status[r] # "gone" => Books(r)
  /\ Progress(r) /\ Planned(r)
  /\ batch.fresh[r] > 0 => batch.n[r] > 0

\* Types and the batch between the passes.
Numbers ==
  /\ computed \in [Requests -> Nat] /\ output \in [Requests -> Nat]
  /\ spec \in [Requests -> Nat] /\ holes \in [Requests -> Nat]
  /\ inFlight \in [Requests -> Nat] /\ stale \in [Requests -> Nat]
  /\ known \in [Requests -> Nat]
  /\ dropStale \in [Requests -> BOOLEAN] /\ chunk \in [Requests -> BOOLEAN]
  /\ delivered \in [Requests -> Seq(Nat)]
  /\ budget \in Nat /\ batch \in Batch /\ steps \in Seq(Batch)
Marks ==
  /\ phase \notin Building => batch = NoBatch
  /\ phase = "running" => \A r \in Requests : batch.fresh[r] = 0
  /\ phase = "output" => \A r \in todo : Head(steps).n[r] > 0

Ledger == Numbers /\ Marks /\ \A r \in Requests : Sound(r)

\* Nothing of q changes.
Same(q) ==
  /\ status'[q] = status[q] /\ computed'[q] = computed[q] /\ output'[q] = output[q]
  /\ spec'[q] = spec[q] /\ holes'[q] = holes[q]
  /\ inFlight'[q] = inFlight[q] /\ stale'[q] = stale[q] /\ dropStale'[q] = dropStale[q]
  /\ known'[q] = known[q] /\ delivered'[q] = delivered[q]
  /\ batch'.n[q] = batch.n[q] /\ batch'.k[q] = batch.k[q] /\ batch'.fresh[q] = batch.fresh[q]
  /\ Rows(q)' = Rows(q)

LEMMA SameSound ==
  ASSUME NEW q \in Requests, Same(q), Sound(q) PROVE Sound(q)'
<1>1. Total(q)' = Total(q)
  BY DEF Same, Total
<1>2. ASSUME NEW s, Entered(q, s) PROVE Entered(q, s)'
  BY <1>1, <1>2 DEF Entered, Same
<1>3. Books(q) => Books(q)'
  BY <1>2 DEF Books, Same
<1>4. Progress(q)'
  BY <1>1 DEF Sound, Progress, Same
<1>5. Planned(q)'
  BY <1>1 DEF Sound, Planned, Same
<1> QED
  BY <1>3, <1>4, <1>5 DEF Sound, Same

LEMMA RowsSame ==
  ASSUME NEW q, steps' = steps, (phase = "output") <=> (phase' = "output"),
         phase = "output" => (q \in todo <=> q \in todo')
  PROVE  Rows(q)' = Rows(q)
<1>1. \A i : Arrives(i, q)' = Arrives(i, q)
  BY DEF Arrives
<1> QED
  BY <1>1 DEF Rows

LEMMA BatchTypes ==
  ASSUME Numbers
  PROVE  /\ \A q \in Requests : /\ batch.n[q] \in Nat /\ batch.fresh[q] \in Nat
                                /\ batch.k[q] \in 0..NumSpec
         /\ \A i \in 1..Len(steps) : \A q \in Requests :
              /\ steps[i].n[q] \in Nat /\ steps[i].fresh[q] \in Nat
              /\ steps[i].k[q] \in 0..NumSpec /\ steps[i].last[q] \in BOOLEAN
<1>1. batch \in Batch /\ steps \in Seq(Batch)
  BY DEF Numbers
<1>2. \A i \in 1..Len(steps) : steps[i] \in Batch
  BY <1>1
<1>3. \A b \in Batch : \A q \in Requests :
        b.n[q] \in Nat /\ b.fresh[q] \in Nat /\ b.k[q] \in 0..NumSpec /\ b.last[q] \in BOOLEAN
  BY DEF Batch
<1> QED
  BY <1>1, <1>2, <1>3

LEMMA RowsType ==
  ASSUME Numbers, NEW q \in Requests
  PROVE  /\ Rows(q) \in Seq(Row) /\ Len(Rows(q)) = Len(steps)
         /\ \A i \in 1..Len(steps) : Rows(q)[i] = [n |-> Arrives(i, q), k |-> steps[i].k[q],
                             fresh |-> steps[i].fresh[q], last |-> steps[i].last[q]]
<1>1. NumSpec \in Nat
  BY SizesAssumption
<1>2. \A i \in 1..Len(steps) : Arrives(i, q) \in Nat
  BY BatchTypes DEF Arrives
<1>3. \A i \in 1..Len(steps) : steps[i].k[q] \in Nat
  BY <1>1, BatchTypes
<1>4. \A i \in 1..Len(steps) :
        [n |-> Arrives(i, q), k |-> steps[i].k[q],
         fresh |-> steps[i].fresh[q], last |-> steps[i].last[q]] \in Row
  BY <1>2, <1>3, BatchTypes DEF Row
<1>5. Len(steps) \in Nat
  BY DEF Numbers
<1> QED
  BY <1>4, <1>5 DEF Rows

\* One request changes, the others stay as they are.
LEMMA OneSound ==
  ASSUME NEW r, \A q \in Requests : Sound(q), \A q \in Requests : q # r => Same(q),
         r \in Requests => Sound(r)'
  PROVE  \A q \in Requests : Sound(q)'
BY SameSound

-----------------------------------------------------------------------------
(* Steps that leave the books alone *)

LEMMA NoBatchType ==
  /\ NoBatch \in Batch
  /\ \A q \in Requests : NoBatch.n[q] = 0 /\ NoBatch.k[q] = 0 /\ NoBatch.fresh[q] = 0
<1>1. 0 \in 0..NumSpec
  BY SizesAssumption
<1>2. NoTokens \in [Requests -> Nat] /\ NoTokens \in [Requests -> 0..NumSpec]
      /\ \A q \in Requests : NoTokens[q] = 0
  BY <1>1 DEF NoTokens
<1> HIDE DEF NoTokens
<1> QED
  BY <1>2 DEF NoBatch, Batch

LEMMA QuietLedger ==
  ASSUME Ledger, UNCHANGED <<reqVars, wkVars, steps, todo, batch>>, budget' \in Nat,
         (phase = "output") <=> (phase' = "output"),
         phase' \notin Building => batch = NoBatch,
         phase' = "running" => \A q \in Requests : batch.fresh[q] = 0
  PROVE  Ledger'
<1>1. /\ UNCHANGED <<status, computed, output, spec, holes, inFlight, stale, dropStale>>
      /\ UNCHANGED <<chunk, known, delivered, steps, todo, batch>>
  BY DEF reqVars, wkVars
<1>2. \A q \in Requests : Same(q)
  <2>1. \A q \in Requests : Rows(q)' = Rows(q)
    BY <1>1, RowsSame
  <2> QED
    BY <1>1, <2>1 DEF Same
<1>3. \A q \in Requests : Sound(q)'
  BY <1>2, SameSound DEF Ledger
<1>4. Numbers'
  BY <1>1 DEF Ledger, Numbers
<1>5. Marks'
  BY <1>1 DEF Ledger, Marks
<1> QED
  BY <1>3, <1>4, <1>5 DEF Ledger

LEMMA QuietActionsLedger ==
  ASSUME Ledger,
         \/ BeginReset \/ EndReset \/ BeginSchedule \/ LeaveRunning \/ LeaveWaiting
         \/ UNCHANGED vars
         \/ \E r \in Requests : PassRunning(r) \/ PassWaiting(r)
  PROVE  Ledger'
<1>1. budget \in Nat /\ (phase \notin Building => batch = NoBatch)
      /\ (phase = "running" => \A q \in Requests : batch.fresh[q] = 0)
  BY DEF Ledger, Numbers, Marks
<1> USE DEF outVars, passVars, Building
<1>2. CASE BeginReset
  BY <1>1, <1>2, QuietLedger DEF BeginReset
<1>3. CASE EndReset
  BY <1>1, <1>3, QuietLedger DEF EndReset
<1>4. CASE BeginSchedule
  <2>1. Budget \in Nat /\ phase = "idle" /\ batch = NoBatch
    BY <1>1, <1>4, SizesAssumption DEF BeginSchedule
  <2> QED
    BY <1>4, <2>1, NoBatchType, QuietLedger DEF BeginSchedule
<1>5. CASE LeaveRunning
  BY <1>1, <1>5, QuietLedger DEF LeaveRunning
<1>6. CASE LeaveWaiting
  BY <1>1, <1>6, QuietLedger DEF LeaveWaiting
<1>7. CASE UNCHANGED vars
  BY <1>1, <1>7, QuietLedger DEF vars
<1>8. ASSUME NEW r \in Requests, PassRunning(r) PROVE Ledger'
  BY <1>1, <1>8, QuietLedger DEF PassRunning
<1>9. ASSUME NEW r \in Requests, PassWaiting(r) PROVE Ledger'
  BY <1>1, <1>9, QuietLedger DEF PassWaiting
<1> QED
  BY <1>2, <1>3, <1>4, <1>5, <1>6, <1>7, <1>8, <1>9

-----------------------------------------------------------------------------
(* A request changes its status while nothing is scheduled or processed *)

\* The status t and the count c that a request which is not running may get.
Allowed(r, t, c) ==
  t \in Live =>
    /\ t \in {"waiting", "remote"} /\ status[r] \in {"new", "waiting", "remote"}
    /\ t = "waiting" => c < Total(r)
    /\ t = "remote" => c <= Total(r) /\ ~AwaitsOutput(r)

\* What add, abort, the end of a load, admission to a load and promotion have
\* in common.
LEMMA StatusLedger ==
  ASSUME Shape, Ledger, NEW r \in Requests, NEW t, status' = [status EXCEPT ![r] = t],
         NEW c, c \in Nat, computed' = [computed EXCEPT ![r] = c],
         UNCHANGED <<phase, output, spec, holes, inFlight, stale, dropStale, chunk,
                     wkVars, steps, todo, budget, batch>>,
         Allowed(r, t, c), t # "gone" => status[r] # "gone",
         ~(batch.n[r] > 0)
  PROVE  Ledger'
<1>1. /\ status \in [Requests -> States] /\ computed \in [Requests -> Nat]
      /\ inFlight \in [Requests -> Nat] /\ stale \in [Requests -> Nat]
      /\ dropStale \in [Requests -> BOOLEAN]
  BY DEF Shape, Ledger, Numbers
<1>2. status'[r] = t /\ computed'[r] = c
      /\ \A q \in Requests : q # r => status'[q] = status[q] /\ computed'[q] = computed[q]
  BY <1>1
<1>3. \A q \in Requests : Rows(q)' = Rows(q)
  BY RowsSame
<1>4. UNCHANGED <<output, spec, holes, inFlight, stale, dropStale, known, delivered, batch>>
  BY DEF wkVars
<1>5. \A q \in Requests : q # r => Same(q)
  BY <1>2, <1>3, <1>4 DEF Same
<1>6. Sound(r) /\ Numbers /\ Marks
  BY DEF Ledger
<1>7. Total(r)' = Total(r)
  BY <1>4 DEF Total
<1>8. ASSUME t # "gone" PROVE Books(r)'
  <2>1. PICK s \in 0..Len(Rows(r)) : Entered(r, s)
    BY <1>6, <1>8 DEF Sound, Books
  <2>2. Tally(Rows(r), s, inFlight[r], stale[r])'
    BY <1>3, <1>4, <2>1 DEF Entered
  <2>3. ASSUME t \in Live
        PROVE  /\ HolesOf(Rows(r), s, holes[r])
               /\ Chained(Rows(r), s, dropStale[r], stale[r], Total(r), known[r])
               /\ Quiet(Rows(r), s)
    BY <2>1, <2>3 DEF Entered, Live, Allowed
  <2>4. t = "remote" => stale[r] = 0 \/ dropStale[r]
    <3>1. stale[r] \in Nat
      BY <1>1
    <3> QED
      BY <3>1 DEF AwaitsOutput, Live, Allowed
  <2>5. t # "running"
    BY DEF Live, Allowed
  <2>6. Entered(r, s)'
    BY <1>2, <1>3, <1>4, <1>7, <2>2, <2>3, <2>4, <2>5 DEF Entered
  <2> QED
    BY <1>3, <2>1, <2>6 DEF Books
<1>9. Progress(r)'
  BY <1>2, <1>4, <1>6, <1>7 DEF Sound, Progress, Live, Allowed
<1>10. Planned(r)' /\ ~(batch.fresh[r] > 0)
  BY <1>4, <1>6 DEF Planned, Sound
<1>11. Sound(r)'
  BY <1>2, <1>4, <1>8, <1>9, <1>10 DEF Sound
<1>12. \A q \in Requests : Sound(q)'
  BY <1>5, <1>11, OneSound DEF Ledger
<1>13. Numbers'
  BY <1>1, <1>4, <1>6 DEF Numbers
<1>14. Marks'
  BY <1>4, <1>6 DEF Marks
<1> QED
  BY <1>12, <1>13, <1>14 DEF Ledger

LEMMA StatusActionsLedger ==
  ASSUME Shape, Control, Ledger, NEW r \in Requests,
         \/ AddRequest(r) \/ Abort(r) \/ LoadDone(r) \/ LoadFails(r) \/ SendDone(r)
         \/ Promote(r) \/ AdmitLoad(r)
  PROVE  Ledger'
<1> USE DEF outVars, passVars
<1>1. /\ status \in [Requests -> States] /\ computed \in [Requests -> Nat]
      /\ output \in [Requests -> Nat]
      /\ batch.n[r] > 0 => status[r] = "running" /\ phase \in Building
      /\ Progress(r)
  BY DEF Shape, Control, Ledger, Numbers, Sound
<1>2. computed' = computed => computed' = [computed EXCEPT ![r] = computed[r]]
  BY <1>1
<1>3. status' = status => status' = [status EXCEPT ![r] = status[r]]
  BY <1>1
<1>4. computed[r] \in Nat /\ Total(r) \in Nat /\ Total(r) > 0
  BY <1>1, SizesAssumption DEF Total
<1>5. CASE AddRequest(r)
  <2>1. status[r] = "new" /\ status' = [status EXCEPT ![r] = "waiting"]
        /\ UNCHANGED <<phase, computed, output, spec, holes, inFlight, stale, dropStale, chunk,
                       wkVars, steps, todo, budget, batch>>
    BY <1>5 DEF AddRequest
  <2>2. computed[r] < Total(r) /\ ~(batch.n[r] > 0)
    BY <1>1, <2>1 DEF Progress
  <2>3. Allowed(r, "waiting", computed[r])
    BY <2>1, <2>2 DEF Allowed
  <2> QED
    BY <1>2, <1>4, <2>1, <2>2, <2>3, StatusLedger
<1>6. CASE Abort(r)
  <2>1. PICK t \in {"gone", "finished"} : status' = [status EXCEPT ![r] = t]
    BY <1>6 DEF Abort
  <2>2. phase = "idle" /\ status[r] # "gone"
        /\ UNCHANGED <<phase, computed, output, spec, holes, inFlight, stale, dropStale, chunk,
                       wkVars, steps, todo, budget, batch>>
    BY <1>6 DEF Abort
  <2>3. ~(batch.n[r] > 0) /\ t \notin Live
    BY <1>1, <2>1, <2>2 DEF Building, Live
  <2>4. Allowed(r, t, computed[r])
    BY <2>3 DEF Allowed
  <2>5. t # "gone" => status[r] # "gone"
    BY <2>2
  <2> QED
    BY <1>2, <1>4, <2>1, <2>2, <2>3, <2>4, <2>5, StatusLedger
<1>7. CASE LoadDone(r)
  <2>1. UNCHANGED <<phase, computed, output, spec, holes, inFlight, stale, dropStale, chunk,
                    wkVars, steps, todo, budget, batch>>
    BY <1>7 DEF LoadDone
  <2>2. CASE status[r] = "remote" /\ status' = status
    <3>1. ~(batch.n[r] > 0)
      BY <1>1, <2>2
    <3>2. UNCHANGED <<reqVars, wkVars, steps, todo, batch, phase, budget>>
      BY <2>1, <2>2 DEF reqVars
    <3>3. budget \in Nat /\ (phase \notin Building => batch = NoBatch)
          /\ (phase = "running" => \A q \in Requests : batch.fresh[q] = 0)
      BY DEF Ledger, Numbers, Marks
    <3> QED
      BY <3>2, <3>3, QuietLedger
  <2>3. CASE status[r] = "finished" /\ status' = [status EXCEPT ![r] = "gone"]
    <3>1. ~(batch.n[r] > 0)
      BY <1>1, <2>3
    <3>2. Allowed(r, "gone", computed[r])
      BY DEF Allowed, Live
    <3> QED
      BY <1>2, <1>4, <2>1, <2>3, <3>1, <3>2, StatusLedger
  <2> QED
    BY <1>7, <2>2, <2>3 DEF LoadDone
<1>8. CASE LoadFails(r)
  <2>1. status[r] = "remote" /\ status' = status /\ computed' = [computed EXCEPT ![r] = 0]
        /\ UNCHANGED <<phase, output, spec, holes, inFlight, stale, dropStale, chunk,
                       wkVars, steps, todo, budget, batch>>
    BY <1>8 DEF LoadFails
  <2>2. ~(batch.n[r] > 0)
    BY <1>1, <2>1
  <2>3. ~AwaitsOutput(r)
    <3>1. PICK s \in 0..Len(Rows(r)) : Entered(r, s)
      BY <2>1 DEF Ledger, Sound, Books
    <3> QED
      BY <2>1, <3>1 DEF Entered, Live, AwaitsOutput
  <2>4. Allowed(r, "remote", 0)
    BY <1>4, <2>1, <2>3 DEF Allowed
  <2>5. status' = [status EXCEPT ![r] = "remote"] /\ 0 \in Nat
    BY <1>3, <2>1
  <2> QED
    BY <2>1, <2>2, <2>4, <2>5, StatusLedger
<1>9. CASE SendDone(r)
  <2>1. status[r] = "finished" /\ status' = [status EXCEPT ![r] = "gone"]
        /\ UNCHANGED <<phase, computed, output, spec, holes, inFlight, stale, dropStale, chunk,
                       wkVars, steps, todo, budget, batch>>
    BY <1>9 DEF SendDone
  <2>2. ~(batch.n[r] > 0)
    BY <1>1, <2>1
  <2>3. Allowed(r, "gone", computed[r])
    BY DEF Allowed, Live
  <2> QED
    BY <1>2, <1>4, <2>1, <2>2, <2>3, StatusLedger
<1>10. CASE Promote(r)
  <2> DEFINE c == IF computed[r] = Total(r) THEN computed[r] - 1 ELSE computed[r]
  <2>1. status[r] = "remote" /\ status' = [status EXCEPT ![r] = "waiting"]
        /\ computed' = [computed EXCEPT ![r] = c]
        /\ UNCHANGED <<phase, output, spec, holes, inFlight, stale, dropStale, chunk,
                       wkVars, steps, todo, budget, batch>>
    BY <1>10 DEF Promote
  <2>2. ~(batch.n[r] > 0) /\ computed[r] <= Total(r)
    BY <1>1, <2>1 DEF Progress
  <2>3. c \in Nat /\ c < Total(r)
    BY <1>4, <2>2
  <2>4. Allowed(r, "waiting", c)
    BY <2>1, <2>3 DEF Allowed
  <2> HIDE DEF c
  <2> QED
    BY <2>1, <2>2, <2>3, <2>4, StatusLedger
<1>11. CASE AdmitLoad(r)
  <2>1. status[r] = "waiting" /\ ~AwaitsOutput(r)
        /\ status' = [status EXCEPT ![r] = "remote"]
        /\ computed' = [computed EXCEPT ![r] = RemoteHit[r]]
        /\ UNCHANGED <<phase, output, spec, holes, inFlight, stale, dropStale, chunk,
                       wkVars, steps, todo, budget, batch>>
    BY <1>11 DEF AdmitLoad
  <2>2. ~(batch.n[r] > 0)
    BY <1>1, <2>1
  <2>3. RemoteHit[r] \in Nat /\ RemoteHit[r] <= Total(r)
    BY <1>1, SizesAssumption DEF Total
  <2>4. Allowed(r, "remote", RemoteHit[r])
    BY <2>1, <2>3 DEF Allowed
  <2> QED
    BY <2>1, <2>2, <2>3, <2>4, StatusLedger
<1> QED
  BY <1>5, <1>6, <1>7, <1>8, <1>9, <1>10, <1>11

-----------------------------------------------------------------------------
(* A running request is scheduled, a waiting one admitted *)

\* Two batches that differ in r only.
Differ(b, c, r, n, k) ==
  /\ c \in Batch /\ c.n[r] = n /\ c.k[r] = k
  /\ \A q \in Requests : q # r =>
       c.n[q] = b.n[q] /\ c.k[q] = b.k[q] /\ c.fresh[q] = b.fresh[q]

LEMMA BatchWith ==
  ASSUME batch \in Batch, NEW r \in Requests, NEW n \in Nat, NEW k \in 0..NumSpec,
         batch' = [batch EXCEPT !.n[r] = n, !.k[r] = k]
  PROVE  Differ(batch, batch', r, n, k) /\ batch'.fresh = batch.fresh
<1> DEFINE c == [batch EXCEPT !.n[r] = n, !.k[r] = k]
<1>1. batch.n \in [Requests -> Nat] /\ batch.k \in [Requests -> 0..NumSpec]
  BY DEF Batch
<1>2. /\ c.n = [batch.n EXCEPT ![r] = n] /\ c.k = [batch.k EXCEPT ![r] = k]
      /\ c.fresh = batch.fresh /\ c \in Batch
  BY DEF Batch
<1>3. batch' = c
  OBVIOUS
<1> HIDE DEF c
<1> QED
  BY <1>1, <1>2, <1>3 DEF Differ

\* NewTokens and DraftsIn: c computed, e the end of the request with its places.
LEMMA TokensToSchedule ==
  ASSUME NEW c \in Nat, NEW e \in Nat, NEW sp \in 0..NumSpec, NEW b \in Nat, b > 0,
         c < e, c < MaxModelLen, NEW n \in 1..Min2(Min2(e + sp - c, b), MaxModelLen - c - 1),
         NEW k, k = IF n + c - e > 0 THEN Min2(sp, n + c - e) ELSE 0
  PROVE  /\ n \in Nat /\ n > 0 /\ n <= b /\ k \in 0..NumSpec
         /\ c + n < MaxModelLen /\ c + n <= e + k
         /\ c + n >= e => k = c + n - e
<1>1. MaxModelLen \in Int /\ NumSpec \in Nat
  BY Constants, SizesAssumption
<1>2. n \in Nat /\ n > 0 /\ n <= b /\ c + n < MaxModelLen /\ n <= e + sp - c
  BY <1>1 DEF Min2
<1>3. k \in 0..NumSpec /\ c + n <= e + k /\ (c + n >= e => k = c + n - e)
  BY <1>1, <1>2 DEF Min2
<1> QED
  BY <1>2, <1>3

LEMMA ScheduleLedger ==
  ASSUME Shape, Control, Ledger, NEW r \in Requests, ScheduleRunning(r) PROVE Ledger'
<1>1. PICK n \in 1..NewTokens(r) :
        /\ UNCHANGED <<phase, status, computed, output, holes, inFlight, stale, dropStale, chunk>>
        /\ UNCHANGED <<known, delivered, steps, todo>>
        /\ batch' = [batch EXCEPT !.n[r] = n, !.k[r] = DraftsIn(r, n)]
        /\ spec' = [spec EXCEPT ![r] = 0] /\ budget' = budget - n
        /\ phase = "running" /\ budget > 0
  BY DEF ScheduleRunning, Considered, outVars, wkVars
<1> DEFINE k == DraftsIn(r, n)
<1>2. status[r] = "running"
  <2>1. phase = "running" /\ r = running[idx] /\ idx <= Len(running)
    BY DEF ScheduleRunning, Considered
  <2>2. running \in Seq(Requests) /\ idx \in Nat \ {0}
    BY DEF Shape
  <2>3. idx \in 1..Len(running) /\ ended = {}
    BY <2>1, <2>2 DEF Control
  <2> QED
    BY <2>1, <2>3 DEF Control
<1>3. Numbers /\ Marks /\ Sound(r)
  BY DEF Ledger
<1>4. /\ computed[r] \in Nat /\ output[r] \in Nat /\ holes[r] \in Nat /\ spec[r] \in 0..NumSpec
      /\ computed[r] < Total(r) + holes[r] /\ computed[r] < MaxModelLen
      /\ budget \in Nat /\ batch \in Batch /\ spec \in [Requests -> Nat]
  BY <1>2, <1>3 DEF Numbers, Sound, Progress, Live
<1>5. Total(r) \in Nat
  BY <1>4, SizesAssumption DEF Total
<1>6. /\ n \in Nat /\ n > 0 /\ n <= budget /\ k \in 0..NumSpec
      /\ computed[r] + n < MaxModelLen /\ computed[r] + n <= Total(r) + holes[r] + k
      /\ computed[r] + n >= Total(r) + holes[r] => k = computed[r] + n - (Total(r) + holes[r])
  <2> DEFINE e == Total(r) + holes[r]
  <2>1. n \in 1..Min2(Min2(e + spec[r] - computed[r], budget), MaxModelLen - computed[r] - 1)
    <3>1. Total(r) + spec[r] + holes[r] - computed[r] = e + spec[r] - computed[r]
      BY <1>4, <1>5
    <3> QED
      BY <3>1 DEF NewTokens, Pending
  <2>2. k = IF n + computed[r] - e > 0 THEN Min2(spec[r], n + computed[r] - e) ELSE 0
    <3>1. n \in Int
      BY TokenCounts
    <3>2. n + computed[r] - Total(r) - holes[r] = n + computed[r] - e
      BY <1>4, <1>5, <3>1
    <3> QED
      BY <3>2 DEF DraftsIn
  <2>3. e \in Nat /\ computed[r] < e
    BY <1>4, <1>5
  <2> HIDE DEF e, k
  <2>4. /\ n \in Nat /\ n > 0 /\ n <= budget /\ k \in 0..NumSpec
        /\ computed[r] + n < MaxModelLen /\ computed[r] + n <= e + k
        /\ computed[r] + n >= e => k = computed[r] + n - e
    BY <1>1, <1>4, <2>1, <2>2, <2>3, TokensToSchedule
  <2> QED
    BY <2>4 DEF e
<1> HIDE DEF k
<1>7. Differ(batch, batch', r, n, k) /\ batch'.fresh = batch.fresh
  BY <1>1, <1>4, <1>6, BatchWith DEF k
<1>8. \A q \in Requests : Rows(q)' = Rows(q)
  BY <1>1, RowsSame
<1>9. spec'[r] = 0 /\ spec' \in [Requests -> Nat]
      /\ \A q \in Requests : q # r => spec'[q] = spec[q]
  BY <1>1, <1>4
<1>10. \A q \in Requests : q # r => Same(q)
  BY <1>1, <1>7, <1>8, <1>9 DEF Same, Differ
<1>11. Total(r)' = Total(r)
  BY <1>1 DEF Total
<1>12. Books(r)'
  <2>1. PICK s \in 0..Len(Rows(r)) : Entered(r, s)
    BY <1>2, <1>3 DEF Sound, Books
  <2>2. Entered(r, s)'
    BY <1>1, <1>7, <1>8, <1>11, <2>1 DEF Entered
  <2> QED
    BY <1>8, <2>1, <2>2 DEF Books
<1>13. Progress(r)'
  <2>1. 0 \in 0..NumSpec
    BY SizesAssumption
  <2> QED
    BY <1>1, <1>3, <1>9, <1>11, <2>1 DEF Sound, Progress
<1>14. Planned(r)' /\ batch'.n[r] > 0
  <2>1. computed'[r] = computed[r] /\ holes'[r] = holes[r]
    BY <1>1
  <2>2. batch'.n[r] = n /\ batch'.k[r] = k
    BY <1>7 DEF Differ
  <2>3. computed'[r] + batch'.n[r] = computed[r] + n
        /\ Total(r)' + holes'[r] = Total(r) + holes[r]
    BY <1>11, <2>1, <2>2
  <2>4. batch'.n[r] > 0
    BY <1>6, <2>2
  <2>5. /\ computed'[r] + batch'.n[r] < MaxModelLen
        /\ computed'[r] + batch'.n[r] <= Total(r)' + holes'[r] + batch'.k[r]
    BY <1>6, <2>2, <2>3
  <2>6. computed'[r] + batch'.n[r] >= Total(r)' + holes'[r] =>
          batch'.k[r] = computed'[r] + batch'.n[r] - (Total(r)' + holes'[r])
    BY <1>4, <1>5, <1>6, <1>11, <2>1, <2>2
  <2> QED
    BY <2>4, <2>5, <2>6 DEF Planned
<1>15. Sound(r)'
  BY <1>12, <1>13, <1>14 DEF Sound
<1>16. \A q \in Requests : Sound(q)'
  BY <1>10, <1>15, OneSound DEF Ledger
<1>17. budget' \in Nat
  BY <1>1, <1>4, <1>6
<1>18. Numbers'
  BY <1>1, <1>3, <1>7, <1>9, <1>17 DEF Numbers, Differ
<1>19. Marks'
  BY <1>1, <1>3, <1>7 DEF Marks, Building
<1> QED
  BY <1>16, <1>18, <1>19 DEF Ledger

\* AdmitTokens of a request with d tokens to compute.
LEMMA TokensToAdmit ==
  ASSUME NEW c \in Nat, NEW e \in Nat, NEW b \in Nat, b > 0, c < e, e < MaxModelLen,
         NEW padded \in BOOLEAN, padded => e - c = 1 /\ c + 1 + NumSpec + 1 <= MaxModelLen,
         NEW n \in 1..(IF padded THEN 1 + NumSpec ELSE Min2(e - c, b)),
         (n = 1 + NumSpec /\ padded) \/ c + n <= e,
         NEW k, k = IF c + n > e THEN NumSpec ELSE 0
  PROVE  /\ n \in Nat /\ n > 0 /\ k \in 0..NumSpec
         /\ c + n < MaxModelLen /\ c + n <= e + k
         /\ c + n >= e => k = c + n - e
<1>1. MaxModelLen \in Int /\ NumSpec \in Nat
  BY Constants, SizesAssumption
<1>2. n \in Nat /\ n > 0
  BY <1>1 DEF Min2
<1>3. CASE c + n <= e
  BY <1>1, <1>2, <1>3
<1>4. CASE n = 1 + NumSpec /\ padded
  BY <1>1, <1>2, <1>4
<1> QED
  BY <1>3, <1>4

LEMMA AdmitLedger ==
  ASSUME Shape, Control, Ledger, NEW r \in Requests, Admit(r) PROVE Ledger'
<1>1. PICK n \in 1..AdmitTokens(r) :
        /\ UNCHANGED <<phase, computed, output, spec, holes, inFlight, stale, dropStale, chunk>>
        /\ UNCHANGED <<known, delivered, steps, todo>>
        /\ batch' = [batch EXCEPT !.n[r] = n, !.fresh[r] = Total(r),
                                  !.k[r] = IF computed[r] + n > Total(r) THEN NumSpec ELSE 0]
        /\ status' = [status EXCEPT ![r] = "running"] /\ budget' = budget - n
        /\ phase = "waiting" /\ budget > 0 /\ n <= budget
        /\ n = AdmitTokens(r) \/ computed[r] + n <= Total(r)
        /\ status[r] = "waiting" /\ ~AwaitsOutput(r)
  BY DEF Admit, Offered, outVars, wkVars
<1> DEFINE k == IF computed[r] + n > Total(r) THEN NumSpec ELSE 0
           f == Total(r)
<1>2. Numbers /\ Marks /\ Sound(r) /\ status \in [Requests -> States]
  BY DEF Ledger, Shape
<1>3. /\ computed[r] \in Nat /\ output[r] \in Nat /\ holes[r] = 0 /\ spec[r] \in 0..NumSpec
      /\ computed[r] < Total(r) /\ Total(r) < MaxModelLen
      /\ budget \in Nat /\ batch \in Batch
  BY <1>1, <1>2 DEF Numbers, Sound, Progress, Live
<1>4. Total(r) \in Nat /\ Total(r) > 0
  BY <1>3, SizesAssumption DEF Total
<1>5. /\ n \in Nat /\ n > 0 /\ k \in 0..NumSpec
      /\ computed[r] + n < MaxModelLen /\ computed[r] + n <= Total(r) + k
      /\ computed[r] + n >= Total(r) => k = computed[r] + n - Total(r)
  <2>1. Padded(r) \in BOOLEAN
        /\ (Padded(r) => Total(r) - computed[r] = 1 /\ computed[r] + 1 + NumSpec + 1 <= MaxModelLen)
    BY DEF Padded
  <2>2. n \in 1..(IF Padded(r) THEN 1 + NumSpec ELSE Min2(Total(r) - computed[r], budget))
    BY DEF AdmitTokens
  <2>3. (n = 1 + NumSpec /\ Padded(r)) \/ computed[r] + n <= Total(r)
    <3> HIDE DEF Padded
    <3>1. CASE Padded(r)
      BY <1>1, <3>1 DEF AdmitTokens
    <3>2. CASE ~Padded(r)
      BY <1>3, <1>4, <2>2, <3>2 DEF Min2
    <3> QED
      BY <3>1, <3>2
  <2>4. k = IF computed[r] + n > Total(r) THEN NumSpec ELSE 0
    OBVIOUS
  <2> HIDE DEF k
  <2> QED
    BY <1>1, <1>3, <1>4, <2>1, <2>2, <2>3, <2>4, TokensToAdmit
<1> HIDE DEF k
<1>6. f \in Nat /\ f = Total(r)
  BY <1>4
<1> HIDE DEF f
<1>7. Differ(batch, batch', r, n, k) /\ batch'.fresh[r] = f
  <2> DEFINE c == [batch EXCEPT !.n[r] = n, !.fresh[r] = f, !.k[r] = k]
  <2>1. batch.n \in [Requests -> Nat] /\ batch.k \in [Requests -> 0..NumSpec]
        /\ batch.fresh \in [Requests -> Nat]
    BY <1>3 DEF Batch
  <2>2. /\ c.n = [batch.n EXCEPT ![r] = n] /\ c.k = [batch.k EXCEPT ![r] = k]
        /\ c.fresh = [batch.fresh EXCEPT ![r] = f] /\ c \in Batch
    BY <1>3, <1>5, <1>6, <2>1 DEF Batch
  <2>3. batch' = c
    BY <1>1 DEF f, k
  <2> HIDE DEF c
  <2> QED
    BY <1>5, <1>6, <2>1, <2>2, <2>3 DEF Differ
<1>8. \A q \in Requests : Rows(q)' = Rows(q)
  BY <1>1, RowsSame
<1>9. status'[r] = "running" /\ \A q \in Requests : q # r => status'[q] = status[q]
  BY <1>1, <1>2
<1>10. \A q \in Requests : q # r => Same(q)
  BY <1>1, <1>7, <1>8, <1>9 DEF Same, Differ
<1>11. Total(r)' = Total(r)
  BY <1>1 DEF Total
<1>12. Books(r)'
  <2>1. PICK s \in 0..Len(Rows(r)) : Entered(r, s)
    BY <1>1, <1>2 DEF Sound, Books
  <2>2. /\ Tally(Rows(r), s, inFlight[r], stale[r]) /\ HolesOf(Rows(r), s, holes[r])
        /\ Chained(Rows(r), s, dropStale[r], stale[r], Total(r), known[r])
        /\ Quiet(Rows(r), s)
    BY <1>1, <2>1 DEF Entered, Live
  <2>3. stale[r] = 0 \/ dropStale[r]
    BY <1>1, <1>2 DEF AwaitsOutput, Numbers
  <2>4. Rows(r) \in Seq(Row) /\ dropStale[r] \in BOOLEAN
    BY <1>2, RowsType DEF Numbers
  <2>5. Resumes(Rows(r), s, dropStale[r], stale[r], Total(r), known[r], Total(r))
    BY <1>4, <2>1, <2>2, <2>3, <2>4, AdmitResumes DEF Tally
  <2>6. Entered(r, s)'
    BY <1>1, <1>6, <1>7, <1>8, <1>9, <1>11, <2>2, <2>3, <2>5 DEF Entered
  <2> QED
    BY <1>8, <2>1, <2>6 DEF Books
<1>13. Progress(r)'
  <2>1. computed[r] < MaxModelLen /\ computed[r] < Total(r) + holes[r]
    BY <1>3, <1>4, Constants
  <2> QED
    BY <1>1, <1>2, <1>3, <1>9, <1>11, <2>1 DEF Sound, Progress, Live
<1>14. Planned(r)' /\ batch'.n[r] > 0
  <2>1. Total(r) + holes[r] = Total(r)
    BY <1>3, <1>4
  <2>2. computed'[r] = computed[r] /\ holes'[r] = holes[r]
    BY <1>1
  <2>3. batch'.n[r] = n /\ batch'.k[r] = k
    BY <1>7 DEF Differ
  <2>4. computed'[r] + batch'.n[r] = computed[r] + n /\ Total(r)' + holes'[r] = Total(r)
    BY <1>11, <2>1, <2>2, <2>3
  <2>5. /\ computed'[r] + batch'.n[r] < MaxModelLen
        /\ computed'[r] + batch'.n[r] <= Total(r)' + holes'[r] + batch'.k[r]
    BY <1>5, <2>3, <2>4
  <2>6. computed'[r] + batch'.n[r] >= Total(r)' + holes'[r] =>
          batch'.k[r] = computed'[r] + batch'.n[r] - (Total(r)' + holes'[r])
    BY <1>3, <1>4, <1>5, <1>11, <2>1, <2>2, <2>3
  <2>7. batch'.n[r] > 0
    BY <1>5, <2>3
  <2> QED
    BY <2>5, <2>6, <2>7 DEF Planned
<1>15. Sound(r)'
  BY <1>12, <1>13, <1>14 DEF Sound
<1>16. \A q \in Requests : Sound(q)'
  BY <1>10, <1>15, OneSound DEF Ledger
<1>17. budget' \in Nat
  BY <1>1, <1>3, <1>5
<1>18. Numbers'
  BY <1>1, <1>2, <1>7, <1>17 DEF Numbers, Differ
<1>19. Marks'
  BY <1>1, <1>2 DEF Marks, Building
<1> QED
  BY <1>16, <1>18, <1>19 DEF Ledger

-----------------------------------------------------------------------------
(* A request is preempted *)

LEMMA PreemptLedger ==
  ASSUME Shape, Ledger, NEW r \in Requests, NEW drop \in BOOLEAN, Preempt(r, drop),
         status[r] = "running", UNCHANGED <<wkVars, steps, todo>>,
         phase # "output", phase' # "output", budget' \in Nat,
         Differ(batch, batch', r, 0, batch'.k[r]), batch'.fresh = batch.fresh,
         \A q \in Requests : batch.fresh[q] = 0,
         phase' \notin Building => batch' = NoBatch
  PROVE  Ledger'
<1>1. /\ status' = [status EXCEPT ![r] = "waiting"] /\ computed' = [computed EXCEPT ![r] = 0]
      /\ spec' = [spec EXCEPT ![r] = 0] /\ holes' = [holes EXCEPT ![r] = 0]
      /\ dropStale' = [dropStale EXCEPT ![r] = drop \/ (dropStale[r] /\ stale[r] > 0)]
      /\ stale' = [stale EXCEPT ![r] = inFlight[r]]
      /\ UNCHANGED <<output, inFlight, chunk>>
  BY DEF Preempt
<1>2. UNCHANGED <<known, delivered>>
  BY DEF wkVars
<1>3. Numbers /\ Marks /\ Sound(r) /\ status \in [Requests -> States]
  BY DEF Ledger, Shape
<1> DEFINE new == drop \/ (dropStale[r] /\ stale[r] > 0)
<1>4. /\ status'[r] = "waiting" /\ computed'[r] = 0 /\ spec'[r] = 0 /\ holes'[r] = 0
      /\ stale'[r] = inFlight[r]
  BY <1>1, <1>3 DEF Numbers
<1>5. new \in BOOLEAN /\ dropStale'[r] = new /\ dropStale[r] \in BOOLEAN
      /\ dropStale' \in [Requests -> BOOLEAN]
  <2>1. dropStale \in [Requests -> BOOLEAN]
    BY <1>3 DEF Numbers
  <2>2. new \in BOOLEAN
    BY <2>1
  <2>3. dropStale' = [dropStale EXCEPT ![r] = new]
    BY <1>1
  <2> HIDE DEF new
  <2> QED
    BY <2>1, <2>2, <2>3
<1>6. ASSUME NEW q \in Requests, q # r
      PROVE  /\ status'[q] = status[q] /\ computed'[q] = computed[q] /\ spec'[q] = spec[q]
             /\ holes'[q] = holes[q] /\ stale'[q] = stale[q] /\ dropStale'[q] = dropStale[q]
  <2>1. dropStale' = [dropStale EXCEPT ![r] = new]
    BY <1>1
  <2> HIDE DEF new
  <2>2. dropStale'[q] = dropStale[q]
    BY <1>3, <1>6, <2>1 DEF Numbers
  <2> QED
    BY <1>1, <1>3, <1>6, <2>2 DEF Numbers
<1>7. \A q \in Requests : Rows(q)' = Rows(q)
  BY RowsSame
<1>8. \A q \in Requests : q # r => Same(q)
  BY <1>1, <1>2, <1>6, <1>7 DEF Same, Differ
<1>9. Total(r)' = Total(r)
  BY <1>1 DEF Total
<1>10. Books(r)'
  <2>1. PICK s \in 0..Len(Rows(r)) : Entered(r, s)
    BY <1>3 DEF Sound, Books
  <2> DEFINE R == Rows(r)
  <2>2. /\ Tally(R, s, inFlight[r], stale[r])
        /\ Chained(R, s, dropStale[r], stale[r], Total(r), known[r])
    BY <2>1 DEF Entered, Live
  <2>3. R \in Seq(Row)
    BY <1>3, RowsType
  <2>4. /\ Tally(R, Len(R), inFlight[r], inFlight[r]) /\ HolesOf(R, Len(R), 0)
        /\ Quiet(R, Len(R)) /\ Len(R) \in 0..Len(R)
    BY <2>2, <2>3, PreemptTally
  <2>5. Chained(R, Len(R), new, inFlight[r], Total(r), known[r])
    <3>1. ~new => (~dropStale[r] \/ stale[r] = 0)
      BY <1>3 DEF Numbers
    <3>2. IsSum(Tokens(R), s, stale[r])
      BY <2>2 DEF Tally
    <3> HIDE DEF new, R
    <3> QED
      BY <1>5, <2>1, <2>2, <2>3, <3>1, <3>2, PreemptChained DEF R
  <2> HIDE DEF new
  <2>6. Entered(r, Len(R))'
    BY <1>1, <1>2, <1>4, <1>5, <1>7, <1>9, <2>4, <2>5 DEF Entered
  <2>7. Len(R)' \in (0..Len(Rows(r)))'
    BY <1>7, <2>4
  <2> QED
    BY <2>6, <2>7 DEF Books
<1>11. Progress(r)'
  <2>1. 0 \in 0..NumSpec
    BY SizesAssumption
  <2>2. 0 < Total(r)
    <3>1. output[r] \in Nat
      BY <1>3 DEF Numbers
    <3>2. PromptLen[r] \in Nat \ {0}
      BY SizesAssumption
    <3> QED
      BY <3>1, <3>2 DEF Total
  <2> QED
    BY <1>1, <1>2, <1>3, <1>4, <1>9, <2>1, <2>2 DEF Sound, Progress, Live
<1>12. Planned(r)' /\ ~(batch'.fresh[r] > 0)
  BY DEF Planned, Differ
<1>13. Sound(r)'
  BY <1>10, <1>11, <1>12 DEF Sound
<1>14. \A q \in Requests : Sound(q)'
  BY <1>8, <1>13, OneSound DEF Ledger
<1>15. Numbers'
  <2>1. inFlight[r] \in Nat
    BY <1>3 DEF Numbers
  <2> QED
    BY <1>1, <1>2, <1>3, <1>5, <2>1 DEF Numbers, Differ
<1>16. Marks'
  BY DEF Marks
<1> QED
  BY <1>14, <1>15, <1>16 DEF Ledger

LEMMA PreemptActionsLedger ==
  ASSUME Shape, Control, Ledger, NEW r \in Requests,
         \/ ResetOne /\ r = Last(running)
         \/ \E q \in Requests : PreemptVictim(q, r) /\ status[r] = "running"
  PROVE  Ledger'
<1> USE DEF outVars, passVars
<1>1. batch \in Batch /\ budget \in Nat
  BY DEF Ledger, Numbers
<1>2. CASE ResetOne /\ r = Last(running)
  <2>1. /\ phase = "reset" /\ phase' = "reset" /\ running # << >> /\ Preempt(r, TRUE)
        /\ UNCHANGED <<wkVars, steps, todo, batch, budget>>
    BY <1>2 DEF ResetOne
  <2>2. batch = NoBatch
    BY <2>1 DEF Ledger, Marks, Building
  <2>3. status[r] = "running"
    <3>1. running \in Seq(Requests) /\ Len(running) \in 1..Len(running)
      BY <2>1 DEF Shape
    <3>2. ended = {}
      BY <2>1 DEF Control
    <3> QED
      BY <1>2, <3>1, <3>2 DEF Control, Last
  <2>4. Differ(batch, batch', r, 0, batch'.k[r]) /\ \A q \in Requests : batch.fresh[q] = 0
    BY <1>1, <2>1, <2>2, NoBatchType DEF Differ
  <2> QED
    BY <1>1, <2>1, <2>2, <2>3, <2>4, PreemptLedger
<1>3. CASE \E q \in Requests : PreemptVictim(q, r) /\ status[r] = "running"
  <2>1. PICK q \in Requests : PreemptVictim(q, r) /\ status[r] = "running"
    BY <1>3
  <2>2. /\ phase = "running" /\ phase' \in {"running", "finish"} /\ Preempt(r, conf.drop)
        /\ UNCHANGED <<wkVars, steps, todo>>
        /\ batch' = [batch EXCEPT !.n[r] = 0, !.k[r] = 0]
        /\ budget' = budget + batch.n[r]
    BY <2>1 DEF PreemptVictim, NoRoom, Considered
  <2>3. budget' \in Nat
    BY <1>1, <2>2, BatchTypes DEF Ledger
  <2>4. Differ(batch, batch', r, 0, batch'.k[r]) /\ batch'.fresh = batch.fresh
    <3> DEFINE zero == 0
    <3>1. batch' = [batch EXCEPT !.n[r] = zero, !.k[r] = zero]
          /\ zero \in Nat /\ zero \in 0..NumSpec
      BY <2>2, SizesAssumption
    <3> HIDE DEF zero
    <3>2. Differ(batch, batch', r, zero, zero) /\ batch'.fresh = batch.fresh
      BY <1>1, <3>1, BatchWith
    <3> QED
      BY <3>2 DEF Differ, zero
  <2>5. \A p \in Requests : batch.fresh[p] = 0
    BY <2>2 DEF Ledger, Marks
  <2>6. conf.drop \in BOOLEAN
    BY ConfigsAssumption DEF Shape, Config
  <2> QED
    BY <2>1, <2>2, <2>3, <2>4, <2>5, <2>6, PreemptLedger DEF Building
<1> QED
  BY <1>2, <1>3

-----------------------------------------------------------------------------
(* The output of one request *)

\* The step whose output is processed, as it concerns r.
HeadRow(r) == [n |-> Head(steps).n[r], k |-> Head(steps).k[r],
               fresh |-> Head(steps).fresh[r], last |-> Head(steps).last[r]]

LEMMA ArriveRows ==
  ASSUME Control, Numbers, Marks, NEW r \in Requests, phase = "output", phase' = "output",
         r \in todo, todo' = todo \ {r}, steps' = steps
  PROVE  /\ Cleared(Rows(r), Rows(r)') /\ Len(Rows(r)) >= 1
         /\ Rows(r)[1] = HeadRow(r) /\ Rows(r)[1].n > 0
         /\ \A q \in Requests : q # r => Rows(q)' = Rows(q)
<1>1. steps \in Seq(Batch) /\ steps # << >>
  BY DEF Control, Numbers
<1>2. Len(steps) \in Nat /\ Len(steps) >= 1 /\ 1 \in 1..Len(steps) /\ Head(steps) = steps[1]
  BY <1>1
<1>3. /\ Rows(r) \in Seq(Row) /\ Len(Rows(r)) = Len(steps)
      /\ \A i \in 1..Len(steps) : Rows(r)[i] = [n |-> Arrives(i, r), k |-> steps[i].k[r],
                             fresh |-> steps[i].fresh[r], last |-> steps[i].last[r]]
  BY RowsType
<1>4. Arrives(1, r) = steps[1].n[r]
  BY DEF Arrives
<1>5. Rows(r)[1] = HeadRow(r) /\ Rows(r)[1].n > 0
  <2>1. Rows(r)[1] = HeadRow(r)
    BY <1>2, <1>3, <1>4 DEF HeadRow
  <2>2. Head(steps).n[r] > 0
    BY DEF Marks
  <2> QED
    BY <2>1, <2>2 DEF HeadRow
<1>6. Arrives(1, r)' = 0 /\ \A i \in 2..Len(steps) : Arrives(i, r)' = Arrives(i, r)
  BY DEF Arrives
<1>7. Rows(r)' = [i \in 1..Len(steps) |->
                    [n |-> Arrives(i, r)', k |-> steps[i].k[r],
                     fresh |-> steps[i].fresh[r], last |-> steps[i].last[r]]]
  BY DEF Rows
<1> DEFINE first == [n |-> 0, k |-> steps[1].k[r],
                     fresh |-> steps[1].fresh[r], last |-> steps[1].last[r]]
<1>8. Rows(r)'[1] = first /\ \A i \in 1..Len(steps) : i # 1 => Rows(r)'[i] = Rows(r)[i]
  <2>1. \A i \in 1..Len(steps) : i # 1 => i \in 2..Len(steps)
    BY <1>2
  <2> QED
    BY <1>2, <1>3, <1>6, <1>7, <2>1
<1>9. first \in Row /\ first.n = 0
  <2>1. steps[1].k[r] \in 0..NumSpec /\ steps[1].fresh[r] \in Nat /\ steps[1].last[r] \in BOOLEAN
    BY <1>2, BatchTypes
  <2>2. steps[1].k[r] \in Nat
    BY <2>1, SizesAssumption
  <2> QED
    BY <2>1, <2>2 DEF Row
<1> HIDE DEF first
<1>10. Rows(r)' \in Seq(Row) /\ Len(Rows(r)') = Len(steps)
  <2>1. \A i \in 1..Len(steps) : Rows(r)'[i] \in Row
    BY <1>3, <1>8, <1>9, TokensType
  <2>2. Rows(r)' = [i \in 1..Len(steps) |-> Rows(r)'[i]]
    BY <1>7
  <2> QED
    BY <1>2, <2>1, <2>2
<1>11. Cleared(Rows(r), Rows(r)')
  BY <1>3, <1>8, <1>9, <1>10 DEF Cleared
<1>12. \A q \in Requests : q # r => Rows(q)' = Rows(q)
  BY RowsSame
<1> QED
  BY <1>2, <1>3, <1>5, <1>11, <1>12

LEMMA ArrivedCounts ==
  ASSUME Numbers, NEW r \in Requests, NEW n, Arrived(r, n)
  PROVE  /\ inFlight'[r] = inFlight[r] - n /\ stale'[r] = LeftOf(stale[r], n)
         /\ \A q \in Requests : q # r => inFlight'[q] = inFlight[q] /\ stale'[q] = stale[q]
         /\ inFlight[r] - n \in Nat /\ LeftOf(stale[r], n) \in Nat =>
              inFlight' \in [Requests -> Nat] /\ stale' \in [Requests -> Nat]
<1>1. inFlight \in [Requests -> Nat] /\ stale \in [Requests -> Nat]
  BY DEF Numbers
<1> DEFINE y == LeftOf(stale[r], n)
<1>2. inFlight' = [inFlight EXCEPT ![r] = inFlight[r] - n] /\ stale' = [stale EXCEPT ![r] = y]
  BY DEF Arrived, LeftOf
<1> HIDE DEF y
<1>3. /\ inFlight'[r] = inFlight[r] - n /\ stale'[r] = y
      /\ \A q \in Requests : q # r => inFlight'[q] = inFlight[q] /\ stale'[q] = stale[q]
      /\ inFlight[r] - n \in Nat /\ y \in Nat =>
           inFlight' \in [Requests -> Nat] /\ stale' \in [Requests -> Nat]
  BY <1>1, <1>2
<1> QED
  BY <1>3 DEF y

\* What the processing of any output keeps.
Receives(r) ==
  /\ phase = "output" /\ phase' = "output" /\ r \in todo /\ todo' = todo \ {r}
  /\ UNCHANGED <<spec, dropStale, chunk, batch, budget, steps>>
  /\ \A q \in Requests : q # r =>
       /\ status'[q] = status[q] /\ computed'[q] = computed[q] /\ output'[q] = output[q]
       /\ holes'[q] = holes[q] /\ inFlight'[q] = inFlight[q] /\ stale'[q] = stale[q]
       /\ known'[q] = known[q] /\ delivered'[q] = delivered[q]

LEMMA ReceiveLedger ==
  ASSUME Control, Ledger, NEW r \in Requests, Receives(r),
         Numbers', status'[r] # "gone" => Books(r)', Progress(r)'
  PROVE  Ledger'
<1>1. Numbers /\ Marks
  BY DEF Ledger
<1>2. \A q \in Requests : q # r => Rows(q)' = Rows(q)
  BY <1>1, ArriveRows DEF Receives
<1>3. \A q \in Requests : q # r => Same(q)
  BY <1>2 DEF Receives, Same
<1>4. batch = NoBatch /\ batch' = NoBatch
  BY <1>1 DEF Receives, Marks, Building
<1>5. Sound(r)'
  BY <1>4, NoBatchType DEF Sound, Planned
<1>6. Marks'
  BY <1>1, <1>4 DEF Marks, Receives
<1>7. \A q \in Requests : Sound(q)'
  BY <1>3, <1>5, OneSound DEF Ledger
<1> QED
  BY <1>6, <1>7 DEF Ledger

LEMMA IgnoreLedger ==
  ASSUME Control, Ledger, NEW r \in Requests, IgnoreOutput(r) PROVE Ledger'
<1> DEFINE n == Head(steps).n[r]
           b == Head(steps)
           base == IF b.fresh[r] > 0 THEN b.fresh[r] ELSE known[r]
<1>1. /\ phase = "output" /\ phase' = "output" /\ r \in todo /\ todo' = todo \ {r}
      /\ UNCHANGED <<status, computed, output, spec, holes, dropStale, chunk, delivered>>
      /\ UNCHANGED <<batch, budget, steps>>
      /\ status[r] \in {"gone", "finished"} \/ (stale[r] > 0 /\ dropStale[r])
  BY DEF IgnoreOutput, passVars
<1>2. Numbers /\ Marks /\ Sound(r)
  BY DEF Ledger
<1>3. /\ Cleared(Rows(r), Rows(r)') /\ Len(Rows(r)) >= 1
      /\ Rows(r)[1] = HeadRow(r) /\ Rows(r)[1].n > 0
  BY <1>1, <1>2, ArriveRows
<1>4. Rows(r) \in Seq(Row) /\ n = Rows(r)[1].n
  BY <1>2, <1>3, RowsType DEF HeadRow
<1>5. /\ status[r] = "gone" => UNCHANGED <<inFlight, stale>>
      /\ status[r] # "gone" => Arrived(r, n)
  BY DEF IgnoreOutput
<1>6. known' \in [Requests -> Nat] /\ \A q \in Requests : q # r => known'[q] = known[q]
  <2>1. known \in [Requests -> Nat] /\ base \in Nat /\ b.k[r] \in 0..NumSpec
    <3>1. /\ known \in [Requests -> Nat] /\ b \in Batch
      BY <1>1, <1>2 DEF Numbers, Control
    <3>2. b.fresh[r] \in Nat /\ b.k[r] \in 0..NumSpec
      BY <3>1 DEF Batch
    <3> QED
      BY <3>1, <3>2
  <2>2. known' = known
        \/ \E a \in 0..b.k[r] :
             known' = [known EXCEPT ![r] = IF b.last[r] THEN base + 1 + a ELSE base]
    BY DEF IgnoreOutput
  <2> HIDE DEF base, b
  <2>3. \A a \in 0..b.k[r] : a \in Nat
    OBVIOUS
  <2>4. ASSUME NEW a \in 0..b.k[r],
               known' = [known EXCEPT ![r] = IF b.last[r] THEN base + 1 + a ELSE base]
        PROVE  known' \in [Requests -> Nat] /\ \A q \in Requests : q # r => known'[q] = known[q]
    <3> DEFINE v == IF b.last[r] THEN base + 1 + a ELSE base
    <3>1. v \in Nat
      BY <2>1, <2>3
    <3>2. known' = [known EXCEPT ![r] = v]
      BY <2>4
    <3> HIDE DEF v
    <3> QED
      BY <2>1, <3>1, <3>2
  <2> QED
    BY <2>1, <2>2, <2>4
<1> HIDE DEF n, b, base
<1>7. status[r] # "gone" =>
        inFlight[r] - n \in Nat /\ LeftOf(stale[r], n) \in Nat /\ Books(r)'
  <2> SUFFICES ASSUME status[r] # "gone"
               PROVE  inFlight[r] - n \in Nat /\ LeftOf(stale[r], n) \in Nat /\ Books(r)'
    OBVIOUS
  <2>1. PICK s \in 0..Len(Rows(r)) : Entered(r, s)
    BY <1>2 DEF Sound, Books
  <2> DEFINE R == Rows(r)
             Q == Rows(r)'
  <2>2. Tally(R, s, inFlight[r], stale[r])
    BY <2>1 DEF Entered
  <2> HIDE DEF R, Q
  <2>3. R \in Seq(Row) /\ Cleared(R, Q) /\ Len(R) >= 1 /\ R[1].n > 0 /\ n = R[1].n
        /\ s \in 0..Len(R)
    BY <1>3, <1>4, <2>1 DEF R, Q
  <2>4. /\ inFlight[r] - n \in Nat /\ LeftOf(stale[r], n) \in Nat
        /\ Tally(Q, s, inFlight[r] - n, LeftOf(stale[r], n))
    BY <2>2, <2>3, ClearTally
  <2>5. inFlight'[r] = inFlight[r] - n /\ stale'[r] = LeftOf(stale[r], n)
    BY <1>2, <1>5, ArrivedCounts
  <2>6. Tally(Q, s, inFlight'[r], stale'[r])
    BY <2>4, <2>5
  <2>7. Total(r)' = Total(r)
    BY <1>1 DEF Total
  <2>8. ASSUME status[r] \in Live
        PROVE  /\ HolesOf(Q, s, holes[r])
               /\ Chained(Q, s, dropStale[r], stale'[r], Total(r), known'[r])
               /\ Quiet(R, s) => Quiet(Q, s)
               /\ dropStale[r]
               /\ status[r] = "running" =>
                    Resumes(Q, s, dropStale[r], stale'[r], Total(r), known'[r], 0)
    <3>1. stale[r] > 0 /\ dropStale[r] /\ dropStale[r] = TRUE
      BY <1>1, <1>2, <2>8 DEF Live, Numbers
    <3>2. s >= 1 /\ s \in Nat /\ stale[r] # 0
      <4>1. IsSum(Tokens(R), s, stale[r])
        BY <2>2 DEF Tally
      <4>2. stale[r] > 0 <=> s >= 1
        BY <2>3, <4>1, FirstRowStale
      <4> QED
        BY <2>3, <3>1, <4>2
    <3>3. batch.fresh[r] = 0
      BY <1>1, <1>2, NoBatchType DEF Marks, Building
    <3>4. /\ HolesOf(R, s, holes[r])
          /\ Chained(R, s, TRUE, stale[r], Total(r), known[r])
          /\ status[r] = "running" => Resumes(R, s, TRUE, stale[r], Total(r), known[r], 0)
      BY <2>1, <2>8, <3>1, <3>3 DEF Entered, R
    <3>5. HolesOf(Q, s, holes[r])
      BY <2>3, <3>2, <3>4, ClearHoles
    <3>6. /\ \A z, u : Chained(Q, s, TRUE, z, Total(r), u)
          /\ status[r] = "running" => \A z, u : Resumes(Q, s, TRUE, z, Total(r), u, 0)
      BY <2>3, <3>2, <3>4, ClearIgnored
    <3>7. Quiet(R, s) => Quiet(Q, s)
      BY <2>3 DEF Quiet, Cleared
    <3> QED
      BY <3>1, <3>5, <3>6, <3>7
  <2>9. batch'.fresh[r] = 0
    BY <1>1, <1>2, NoBatchType DEF Marks, Building
  <2>10. status[r] \in Live /\ status[r] # "running" => Quiet(R, s)
    BY <2>1 DEF Entered, R
  <2>11. Entered(r, s)'
    BY <1>1, <2>6, <2>7, <2>8, <2>9, <2>10 DEF Entered, Q
  <2>12. s \in (0..Len(Rows(r)))'
    BY <2>3 DEF Cleared, Q
  <2>13. Books(r)'
    BY <2>11, <2>12 DEF Books
  <2> QED
    BY <2>4, <2>13
<1>8. Progress(r)'
  <2>1. Total(r)' = Total(r)
    BY <1>1 DEF Total
  <2> QED
    BY <1>1, <1>2, <2>1 DEF Sound, Progress
<1>9. inFlight' \in [Requests -> Nat] /\ stale' \in [Requests -> Nat]
      /\ \A q \in Requests : q # r => inFlight'[q] = inFlight[q] /\ stale'[q] = stale[q]
  <2>1. CASE status[r] = "gone"
    BY <1>2, <1>5, <2>1 DEF Numbers
  <2>2. CASE status[r] # "gone"
    BY <1>2, <1>5, <1>7, <2>2, ArrivedCounts
  <2> QED
    BY <2>1, <2>2
<1>10. Receives(r)
  BY <1>1, <1>6, <1>9 DEF Receives
<1>11. Numbers'
  BY <1>1, <1>2, <1>6, <1>9 DEF Numbers
<1> QED
  BY <1>1, <1>7, <1>8, <1>10, <1>11, ReceiveLedger

\* Output that is delivered starts at the length of the request; the rows that
\* are left go on from there.
Delivers(r, s, Q) ==
  LET x == inFlight[r] - HeadRow(r).n
      y == LeftOf(stale[r], HeadRow(r).n)
  IN  /\ (IF HeadRow(r).fresh > 0 THEN HeadRow(r).fresh ELSE known[r]) = Total(r)
      /\ x \in Nat /\ y \in Nat /\ Tally(Q, s, x, y)
      /\ stale[r] > 0 <=> s >= 1
      /\ status[r] # "remote" /\ (status[r] # "running" => stale[r] > 0)
      /\ \A u : Chained(Q, s, dropStale[r], y, u, u)
      /\ status[r] = "running" => /\ stale[r] = 0 /\ y = 0
                                  /\ \A u : Resumes(Q, s, dropStale[r], y, u, u, 0)
      /\ Quiet(Rows(r), s) => Quiet(Q, s)

LEMMA Delivery ==
  ASSUME Numbers, NEW r \in Requests, NEW Q, Cleared(Rows(r), Q), Len(Rows(r)) >= 1,
         Rows(r)[1] = HeadRow(r), Rows(r)[1].n > 0, status[r] \in Live,
         ~(stale[r] > 0 /\ dropStale[r]), NEW s \in 0..Len(Rows(r)), Entered(r, s)
  PROVE  Delivers(r, s, Q)
<1> DEFINE R == Rows(r)
           w == HeadRow(r)
           y == LeftOf(stale[r], w.n)
<1>1. R \in Seq(Row) /\ dropStale[r] \in BOOLEAN /\ stale[r] \in Nat
      /\ w = R[1]
  BY RowsType DEF Numbers
<1>2. Total(r) \in Nat /\ Total(r) > 0
  <2>1. output[r] \in Nat
    BY DEF Numbers
  <2>2. PromptLen[r] \in Nat \ {0}
    BY SizesAssumption
  <2> QED
    BY <2>1, <2>2 DEF Total
<1>3. /\ Tally(R, s, inFlight[r], stale[r])
      /\ Chained(R, s, dropStale[r], stale[r], Total(r), known[r])
      /\ status[r] # "running" => Quiet(R, s)
      /\ status[r] \in {"running", "remote"} => stale[r] = 0 \/ dropStale[r]
  BY DEF Entered
<1>4. stale[r] > 0 <=> s >= 1
  <2>1. IsSum(Tokens(R), s, stale[r])
    BY <1>3 DEF Tally
  <2> HIDE DEF R
  <2> QED
    BY <1>1, <2>1, FirstRowStale DEF R
<1>5. Counts(R, s, dropStale[r], 1)
  BY <1>1, <1>4 DEF Counts
<1>6. status[r] # "running" => stale[r] > 0
  BY <1>1, <1>3, <1>4 DEF Quiet
<1>7. status[r] # "remote" /\ (status[r] = "running" => stale[r] = 0)
  BY <1>1, <1>3, <1>6
<1> HIDE DEF R
<1>8. /\ (IF R[1].fresh > 0 THEN R[1].fresh ELSE known[r]) = Total(r)
      /\ \A z, u : (z = 0 \/ ~dropStale[r]) => Chained(Q, s, dropStale[r], z, u, u)
      /\ \A u : Resumes(Q, s, dropStale[r], 0, u, u, 0)
  BY <1>1, <1>2, <1>3, <1>5, ClearDelivered DEF R
<1>9. y = 0 \/ ~dropStale[r]
  BY <1>1 DEF LeftOf
<1>10. status[r] = "running" => y = 0
  BY <1>1, <1>7 DEF LeftOf
<1>11. /\ inFlight[r] - R[1].n \in Nat /\ LeftOf(stale[r], R[1].n) \in Nat
       /\ Tally(Q, s, inFlight[r] - R[1].n, LeftOf(stale[r], R[1].n))
  BY <1>1, <1>3, ClearTally DEF R
<1>12. Quiet(R, s) => Quiet(Q, s)
  BY DEF Quiet, Cleared, R
<1>13. Rows(r) = R
  BY DEF R
<1>14. LeftOf(stale[r], R[1].n) = y
  BY <1>1
<1> HIDE DEF y, w
<1>15. /\ (IF w.fresh > 0 THEN w.fresh ELSE known[r]) = Total(r)
       /\ inFlight[r] - w.n \in Nat /\ Tally(Q, s, inFlight[r] - w.n, y) /\ y \in Nat
  BY <1>1, <1>8, <1>11, <1>14
<1>16. \A u : Chained(Q, s, dropStale[r], y, u, u)
  BY <1>8, <1>9
<1>17. status[r] = "running" => \A u : Resumes(Q, s, dropStale[r], y, u, u, 0)
  BY <1>8, <1>10
<1> QED
  BY <1>4, <1>6, <1>7, <1>10, <1>12, <1>13, <1>15, <1>16, <1>17 DEF Delivers, y, w

LEMMA ChunkLedger ==
  ASSUME Shape, Control, Ledger, NEW r \in Requests, ChunkOutput(r) PROVE Ledger'
<1> DEFINE n == HeadRow(r).n
           base == IF HeadRow(r).fresh > 0 THEN HeadRow(r).fresh ELSE known[r]
<1>1. /\ phase = "output" /\ phase' = "output" /\ r \in todo /\ todo' = todo \ {r}
      /\ UNCHANGED <<status, computed, output, spec, holes, dropStale, chunk, delivered>>
      /\ UNCHANGED <<batch, budget, steps>> /\ ~HeadRow(r).last
      /\ status[r] \notin {"gone", "finished"} /\ ~(stale[r] > 0 /\ dropStale[r])
      /\ Arrived(r, n) /\ known' = [known EXCEPT ![r] = base]
  BY DEF ChunkOutput, passVars, HeadRow
<1>2. Numbers /\ Marks /\ Sound(r) /\ status[r] \in Live
  BY <1>1 DEF Ledger, Shape, States, Live
<1>3. /\ Cleared(Rows(r), Rows(r)') /\ Len(Rows(r)) >= 1
      /\ Rows(r)[1] = HeadRow(r) /\ Rows(r)[1].n > 0
  BY <1>1, <1>2, ArriveRows
<1>4. Rows(r) \in Seq(Row)
  BY <1>2, RowsType
<1>5. PICK s \in 0..Len(Rows(r)) : Entered(r, s)
  BY <1>1, <1>2 DEF Sound, Books
<1>6. Delivers(r, s, Rows(r)')
  BY <1>1, <1>2, <1>3, <1>5, Delivery
<1> DEFINE R == Rows(r)
           Q == Rows(r)'
           y == LeftOf(stale[r], n)
<1>7. /\ base = Total(r) /\ inFlight[r] - n \in Nat /\ y \in Nat
      /\ Tally(Q, s, inFlight[r] - n, y)
      /\ \A u : Chained(Q, s, dropStale[r], y, u, u)
      /\ status[r] = "running" => \A u : Resumes(Q, s, dropStale[r], y, u, u, 0)
      /\ Quiet(R, s) => Quiet(Q, s)
      /\ status[r] = "running" => y = 0
      /\ status[r] # "remote"
  BY <1>6 DEF Delivers
<1> HIDE DEF R, Q, n, base, y
<1>8. HolesOf(Q, s, holes[r])
  <2>1. HolesOf(R, s, holes[r])
    BY <1>2, <1>5 DEF Entered, R
  <2> QED
    BY <1>1, <1>3, <1>4, <1>5, <2>1, ClearHoles DEF R, Q
<1>9. /\ inFlight'[r] = inFlight[r] - n /\ stale'[r] = y
      /\ inFlight' \in [Requests -> Nat] /\ stale' \in [Requests -> Nat]
      /\ \A q \in Requests : q # r => inFlight'[q] = inFlight[q] /\ stale'[q] = stale[q]
  BY <1>1, <1>2, <1>7, ArrivedCounts DEF y
<1>10. known'[r] = Total(r) /\ known' \in [Requests -> Nat]
       /\ \A q \in Requests : q # r => known'[q] = known[q]
  <2>1. known \in [Requests -> Nat] /\ output[r] \in Nat
    BY <1>2 DEF Numbers
  <2>2. PromptLen[r] \in Nat \ {0}
    BY SizesAssumption
  <2>3. Total(r) \in Nat
    BY <2>1, <2>2 DEF Total
  <2> QED
    BY <1>1, <1>7, <2>1, <2>3
<1>11. Total(r)' = Total(r)
  BY <1>1 DEF Total
<1>12. batch'.fresh[r] = 0
  BY <1>1, <1>2, NoBatchType DEF Marks, Building
<1>13. status[r] # "running" => Quiet(R, s)
  BY <1>2, <1>5 DEF Entered, R
<1>14. Entered(r, s)'
  BY <1>1, <1>7, <1>8, <1>9, <1>10, <1>11, <1>12, <1>13 DEF Entered, Q
<1>15. Books(r)'
  <2>1. s \in (0..Len(Rows(r)))'
    BY <1>3, <1>5 DEF Cleared
  <2> QED
    BY <1>14, <2>1 DEF Books
<1>16. Progress(r)'
  BY <1>1, <1>2, <1>11 DEF Sound, Progress
<1>17. Receives(r)
  BY <1>1, <1>9, <1>10 DEF Receives
<1>18. Numbers'
  <2>1. inFlight' \in [Requests -> Nat] /\ stale' \in [Requests -> Nat]
        /\ known' \in [Requests -> Nat]
    BY <1>9, <1>10
  <2>2. UNCHANGED <<computed, output, spec, holes, dropStale, chunk, delivered, batch,
                    budget, steps>>
    BY <1>1
  <2> QED
    BY <1>2, <2>1, <2>2 DEF Numbers
<1> QED
  BY <1>15, <1>16, <1>17, <1>18, ReceiveLedger

\* m positions more, from the length of the request on.
Positions(t, m) == [i \in 1..m |-> t + i]

Follow(d, p, o) == d \in Seq(Nat) /\ Len(d) = o /\ \A i \in 1..o : d[i] = p + i

LEMMA Appended ==
  ASSUME NEW d, NEW p \in Nat, NEW o \in Nat, Follow(d, p, o), NEW m \in Nat,
         NEW t, t = p + o
  PROVE  Follow(d \o Positions(t, m), p, o + m)
<1> DEFINE e == Positions(t, m)
<1>0. d \in Seq(Nat) /\ Len(d) = o /\ \A i \in 1..o : d[i] = p + i
  BY DEF Follow
<1>1. e \in Seq(Nat) /\ Len(e) = m /\ \A i \in 1..m : e[i] = t + i
  <2>1. \A i \in 1..m : t + i \in Nat
    OBVIOUS
  <2> QED
    BY <2>1 DEF Positions
<1> HIDE DEF e
<1>2. d \o e \in Seq(Nat) /\ Len(d \o e) = o + m
  <2>1. d \in Seq(Nat) /\ e \in Seq(Nat) /\ Len(d) = o /\ Len(e) = m
    BY <1>0, <1>1
  <2> QED
    BY ONLY <2>1, ConcatProperties
<1>3. \A i \in 1..(o + m) : (d \o e)[i] = p + i
  <2> TAKE i \in 1..(o + m)
  <2>1. i \in 1..(Len(d) + Len(e))
    BY <1>0, <1>1
  <2>2. (d \o e)[i] = IF i <= Len(d) THEN d[i] ELSE e[i - Len(d)]
    BY <1>0, <1>1, <2>1, ConcatProperties
  <2>3. CASE i <= o
    <3>1. i \in 1..o
      BY <2>3
    <3> QED
      BY <1>0, <2>2, <2>3, <3>1
  <2>4. CASE ~(i <= o)
    <3>1. i - o \in 1..m /\ t + (i - o) = p + i
      BY <2>4
    <3> QED
      BY <1>0, <1>1, <2>2, <2>4, <3>1
  <2> QED
    BY <2>3, <2>4
<1> QED
  BY <1>2, <1>3 DEF e, Follow

\* The request goes on with m tokens more, or it has ended.
GoesOn(r, a, m) == /\ status'[r] = status[r] /\ m = a + 1 /\ Total(r) + m < MaxModelLen
Ends(r) == status'[r] \in {"gone", "finished"}

\* Where the output of r starts, and what its delivery changes.
Base(r) == IF HeadRow(r).fresh > 0 THEN HeadRow(r).fresh ELSE known[r]
TokenEffect(r, a, m) ==
  /\ phase = "output" /\ phase' = "output" /\ r \in todo /\ todo' = todo \ {r}
  /\ UNCHANGED <<spec, dropStale, chunk, batch, budget, steps>>
  /\ status[r] \in Live /\ ~(stale[r] > 0 /\ dropStale[r])
  /\ Arrived(r, HeadRow(r).n) /\ Settle(r, a, m)
  /\ HeadRow(r).last /\ a <= HeadRow(r).k
  /\ output' = [output EXCEPT ![r] = @ + m]
  /\ known' = [known EXCEPT ![r] = Base(r) + 1 + a]
  /\ delivered' = [delivered EXCEPT ![r] = @ \o Positions(Base(r), m)]
  /\ \A q \in Requests : q # r => status'[q] = status[q]
  /\ GoesOn(r, a, m) \/ Ends(r)

LEMMA TokenParts ==
  ASSUME Shape, Numbers, NEW r \in Requests, NEW a \in 0..NumSpec, NEW m \in 1..(a + 1),
         NEW stop \in BOOLEAN, TokenOutput(r, a, m, stop)
  PROVE  TokenEffect(r, a, m)
<1>1. status \in [Requests -> States] /\ status[r] \notin {"gone", "finished"}
  BY DEF Shape, TokenOutput
<1>2. status[r] \in Live
  BY <1>1 DEF States, Live
<1>3. a \in Nat /\ m \in Nat /\ (m < a + 1 => stop) /\ (MustStop(r, m) => stop)
  BY SizesAssumption DEF TokenOutput
<1>4. output[r] \in Nat /\ PromptLen[r] \in Nat /\ MaxModelLen \in Nat
  BY SizesAssumption DEF Numbers
<1>5. ~stop => m = a + 1 /\ Total(r) + m < MaxModelLen
  <2>1. Total(r) \in Nat
    BY <1>4 DEF Total
  <2> QED
    BY <1>3, <1>4, <2>1 DEF MustStop
<1>6. \/ ~stop /\ status' = status
      \/ \E t \in {"gone", "finished"} : status' = [status EXCEPT ![r] = t]
  BY DEF TokenOutput
<1>7. /\ \A q \in Requests : q # r => status'[q] = status[q]
      /\ GoesOn(r, a, m) \/ Ends(r)
  BY <1>1, <1>5, <1>6 DEF GoesOn, Ends
<1> QED
  BY <1>2, <1>7 DEF TokenOutput, TokenEffect, passVars, HeadRow, Base, Positions

\* The counters after Settle, from the row that arrived first.
LEMMA SettledCounts ==
  ASSUME Numbers, NEW r \in Requests, NEW a \in 0..NumSpec, NEW m \in 1..(a + 1),
         Settle(r, a, m), NEW h, NEW c,
         h = (IF holes[r] > 0 THEN holes[r] - (HeadRow(r).k - a) ELSE holes[r]) - m,
         c = IF computed[r] > 0 THEN computed[r] - (HeadRow(r).k - a) ELSE computed[r]
  PROVE  /\ stale[r] > 0 => UNCHANGED <<computed, holes>>
         /\ ~(stale[r] > 0) => /\ computed'[r] = c /\ holes'[r] = h
                               /\ h \in Nat /\ c \in Nat =>
                                    computed' \in [Requests -> Nat] /\ holes' \in [Requests -> Nat]
         /\ \A q \in Requests : q # r => computed'[q] = computed[q] /\ holes'[q] = holes[q]
<1>1. computed \in [Requests -> Nat] /\ holes \in [Requests -> Nat]
  BY DEF Numbers
<1>2. CASE stale[r] > 0
  BY <1>2 DEF Settle
<1>3. CASE ~(stale[r] > 0)
  <2>1. computed' = [computed EXCEPT ![r] = c] /\ holes' = [holes EXCEPT ![r] = h]
    BY <1>3 DEF Settle, HeadRow
  <2> QED
    BY ONLY <1>1, <1>3, <2>1, r \in Requests
<1> QED
  BY <1>2, <1>3

\* Settle in numbers: c tokens of t are computed, with h places, k drafts of
\* which a are accepted, and m tokens appended; x places and y tokens are left.
Settles(c, h, t, k, a, m, x, y) ==
  /\ h \in Nat /\ t \in Nat /\ k \in Nat /\ a \in Nat /\ m \in Nat
  /\ t > 0 /\ c = t + h - 1 /\ 1 + k <= h /\ a <= k /\ m <= a + 1
  /\ x = (IF h > 0 THEN h - (k - a) ELSE h) - m
  /\ y = IF c > 0 THEN c - (k - a) ELSE c

LEMMA TokenSettles ==
  ASSUME NEW c, NEW h, NEW t, NEW k, NEW a, NEW m, NEW x, NEW y,
         Settles(c, h, t, k, a, m, x, y)
  PROVE  /\ x \in Nat /\ y \in Nat
         /\ m = a + 1 => x = h - (1 + k) /\ y <= c /\ y = (t + m) + x - 1
BY DEF Settles

LEMMA TokenLedger ==
  ASSUME Shape, Control, Ledger, NEW r \in Requests, NEW a \in 0..NumSpec,
         NEW m \in 1..(a + 1), NEW stop \in BOOLEAN, TokenOutput(r, a, m, stop)
  PROVE  Ledger' /\ status[r] # "remote"
<1> DEFINE n == HeadRow(r).n
           k == HeadRow(r).k
           base == Base(r)
<1>1. Numbers /\ Marks /\ Sound(r)
  BY DEF Ledger
<1>0. TokenEffect(r, a, m)
  BY <1>1, TokenParts
<1>2. /\ phase = "output" /\ phase' = "output" /\ r \in todo /\ todo' = todo \ {r}
      /\ UNCHANGED <<spec, dropStale, chunk, batch, budget, steps>>
      /\ status[r] \in Live /\ ~(stale[r] > 0 /\ dropStale[r])
      /\ Arrived(r, n) /\ Settle(r, a, m) /\ HeadRow(r).last /\ a <= k
      /\ output' = [output EXCEPT ![r] = @ + m]
      /\ known' = [known EXCEPT ![r] = base + 1 + a]
      /\ delivered' = [delivered EXCEPT ![r] = @ \o Positions(base, m)]
      /\ \A q \in Requests : q # r => status'[q] = status[q]
  BY <1>0 DEF TokenEffect
<1>3. GoesOn(r, a, m) \/ Ends(r)
  BY <1>0 DEF TokenEffect
<1>4. /\ Cleared(Rows(r), Rows(r)') /\ Len(Rows(r)) >= 1
      /\ Rows(r)[1] = HeadRow(r) /\ Rows(r)[1].n > 0
  BY <1>1, <1>2, ArriveRows
<1>5. Rows(r) \in Seq(Row)
  BY <1>1, RowsType
<1>6. status[r] # "gone"
  BY <1>2 DEF Live
<1>7. PICK s \in 0..Len(Rows(r)) : Entered(r, s)
  BY <1>1, <1>6 DEF Sound, Books
<1>8. Delivers(r, s, Rows(r)')
  BY <1>1, <1>2, <1>4, <1>7, Delivery
<1> DEFINE R == Rows(r)
           Q == Rows(r)'
           y == LeftOf(stale[r], n)
<1>9. /\ base = Total(r) /\ inFlight[r] - n \in Nat /\ y \in Nat
      /\ Tally(Q, s, inFlight[r] - n, y)
      /\ status[r] # "remote"
      /\ stale[r] > 0 <=> s >= 1
      /\ status[r] # "running" => stale[r] > 0
      /\ Quiet(R, s) => Quiet(Q, s)
      /\ status[r] = "running" => y = 0
      /\ \A u : Chained(Q, s, dropStale[r], y, u, u)
      /\ status[r] = "running" => \A u : Resumes(Q, s, dropStale[r], y, u, u, 0)
  BY <1>8 DEF Delivers, Base
<1> HIDE DEF R, Q, n, k, base, y
<1>10. /\ output[r] \in Nat /\ PromptLen[r] \in Nat /\ PromptLen[r] > 0 /\ Total(r) > 0
       /\ Total(r) = PromptLen[r] + output[r] /\ Total(r) \in Nat
       /\ a \in Nat /\ m \in Nat /\ m >= 1 /\ m <= a + 1
  <2>1. output[r] \in Nat
    BY <1>1 DEF Numbers
  <2>2. PromptLen[r] \in Nat \ {0}
    BY SizesAssumption
  <2>3. Total(r) = PromptLen[r] + output[r]
    BY DEF Total
  <2> QED
    BY <2>1, <2>2, <2>3
<1>11. /\ output'[r] = output[r] + m /\ Total(r)' = Total(r) + m
       /\ output' \in [Requests -> Nat]
       /\ \A q \in Requests : q # r => output'[q] = output[q]
  <2>1. output \in [Requests -> Nat]
    BY <1>1 DEF Numbers
  <2>2. /\ output'[r] = output[r] + m
        /\ output' \in [Requests -> Nat]
        /\ \A q \in Requests : q # r => output'[q] = output[q]
    BY <1>2, <1>10, <2>1
  <2> QED
    BY <1>10, <2>2 DEF Total
<1>12. /\ known'[r] = Total(r) + 1 + a /\ known' \in [Requests -> Nat]
       /\ \A q \in Requests : q # r => known'[q] = known[q]
  <2> DEFINE v == Total(r) + 1 + a
  <2>1. known \in [Requests -> Nat]
    BY <1>1 DEF Numbers
  <2>2. v \in Nat
    BY <1>10
  <2>3. known' = [known EXCEPT ![r] = v]
    BY <1>2, <1>9
  <2> HIDE DEF v
  <2>4. known'[r] = v /\ known' \in [Requests -> Nat]
        /\ \A q \in Requests : q # r => known'[q] = known[q]
    BY <2>1, <2>2, <2>3
  <2> QED
    BY <2>4 DEF v
<1>13. /\ delivered' \in [Requests -> Seq(Nat)]
       /\ Len(delivered'[r]) = output[r] + m
       /\ \A i \in 1..(output[r] + m) : delivered'[r][i] = PromptLen[r] + i
       /\ \A q \in Requests : q # r => delivered'[q] = delivered[q]
  <2>1. delivered \in [Requests -> Seq(Nat)] /\ delivered[r] \in Seq(Nat)
    BY <1>1 DEF Numbers
  <2>2. Follow(delivered[r], PromptLen[r], output[r])
    BY <1>1, <2>1 DEF Sound, Progress, Follow
  <2> DEFINE d == delivered[r] \o Positions(base, m)
  <2>3. base = PromptLen[r] + output[r]
    BY <1>9, <1>10
  <2>4. Follow(d, PromptLen[r], output[r] + m)
    <3>1. PromptLen[r] \in Nat /\ output[r] \in Nat /\ m \in Nat
      BY <1>10
    <3> QED
      BY ONLY <2>2, <2>3, <3>1, Appended
  <2>5. delivered' = [delivered EXCEPT ![r] = d]
    BY <1>2
  <2> HIDE DEF d
  <2>6. d \in Seq(Nat) /\ Len(d) = output[r] + m
        /\ \A i \in 1..(output[r] + m) : d[i] = PromptLen[r] + i
    BY <2>4 DEF Follow
  <2>7. /\ delivered' \in [Requests -> Seq(Nat)] /\ delivered'[r] = d
        /\ \A q \in Requests : q # r => delivered'[q] = delivered[q]
    BY <2>1, <2>5, <2>6
  <2> QED
    BY <2>6, <2>7
<1>14. /\ inFlight'[r] = inFlight[r] - n /\ stale'[r] = y
       /\ inFlight' \in [Requests -> Nat] /\ stale' \in [Requests -> Nat]
       /\ \A q \in Requests : q # r => inFlight'[q] = inFlight[q] /\ stale'[q] = stale[q]
  BY <1>1, <1>2, <1>9, ArrivedCounts DEF y
<1> DEFINE h == (IF holes[r] > 0 THEN holes[r] - (k - a) ELSE holes[r]) - m
           c == IF computed[r] > 0 THEN computed[r] - (k - a) ELSE computed[r]
<1>15. /\ stale[r] > 0 => UNCHANGED <<computed, holes>>
       /\ ~(stale[r] > 0) => /\ computed'[r] = c /\ holes'[r] = h
                             /\ h \in Nat /\ c \in Nat =>
                                  computed' \in [Requests -> Nat] /\ holes' \in [Requests -> Nat]
       /\ \A q \in Requests : q # r => computed'[q] = computed[q] /\ holes'[q] = holes[q]
  BY <1>1, <1>2, SettledCounts DEF k
<1>16. holes[r] \in Nat /\ computed[r] \in Nat /\ HolesOf(R, s, holes[r])
  BY <1>1, <1>2, <1>7 DEF Numbers, Entered, R
<1>17. ASSUME ~(stale[r] > 0)
       PROVE  /\ status[r] = "running" /\ s = 0 /\ h \in Nat /\ c \in Nat
              /\ m = a + 1 => /\ h = holes[r] - (1 + k) /\ c <= computed[r]
                              /\ c = (Total(r) + m) + h - 1
                              /\ HolesOf(Q, s, h)
  <2>1. status[r] = "running" /\ s = 0
    BY <1>9, <1>17
  <2>2. 1 + k <= holes[r] /\ HolesOf(Q, 0, holes[r] - (1 + k))
    <3>1. R[1] = HeadRow(r) /\ Cleared(R, Q) /\ Len(R) >= 1 /\ R[1].n > 0 /\ R \in Seq(Row)
      BY <1>4, <1>5 DEF R, Q
    <3>2. s \in 0..Len(R) /\ R[1].last /\ R[1].k = k
      BY <1>2, <3>1, <1>7 DEF R, k
    <3> QED
      BY <1>16, <2>1, <3>1, <3>2, ClearHoles
  <2>3. k \in Nat
    <3>1. 1 \in 1..Len(Rows(r))
      BY <1>4, <1>5
    <3> QED
      BY <1>4, <1>5, <3>1, TokensType DEF k
  <2>4. computed[r] = Total(r) + holes[r] - 1
    <3>1. holes[r] > 0
      BY <1>16, <2>2, <2>3
    <3> QED
      BY <1>1, <2>1, <3>1 DEF Sound, Progress
  <2>5. /\ h = (IF holes[r] > 0 THEN holes[r] - (k - a) ELSE holes[r]) - m
        /\ c = IF computed[r] > 0 THEN computed[r] - (k - a) ELSE computed[r]
    OBVIOUS
  <2> HIDE DEF h, c
  <2>6. /\ h \in Nat /\ c \in Nat
        /\ m = a + 1 => /\ h = holes[r] - (1 + k) /\ c <= computed[r]
                        /\ c = (Total(r) + m) + h - 1
    <3>1. holes[r] \in Nat /\ Total(r) \in Nat /\ Total(r) > 0 /\ a \in Nat /\ m \in Nat
          /\ m <= a + 1 /\ a <= k /\ 1 + k <= holes[r]
      BY <1>2, <1>10, <1>16, <2>2
    <3>2. Settles(computed[r], holes[r], Total(r), k, a, m, h, c)
      BY <2>3, <2>4, <2>5, <3>1 DEF Settles
    <3> QED
      BY <3>2, TokenSettles
  <2> QED
    BY <2>1, <2>2, <2>6
<1> HIDE DEF h, c
<1>18. computed' \in [Requests -> Nat] /\ holes' \in [Requests -> Nat]
  <2>1. CASE stale[r] > 0
    BY <1>1, <1>15, <2>1 DEF Numbers
  <2>2. CASE ~(stale[r] > 0)
    BY <1>15, <1>17, <2>2
  <2> QED
    BY <2>1, <2>2
<1>19. Numbers'
  <2>1. UNCHANGED <<spec, dropStale, chunk, batch, budget, steps>>
    BY <1>2
  <2> QED
    BY <1>1, <1>11, <1>12, <1>13, <1>14, <1>18, <2>1 DEF Numbers
<1>20. Receives(r)
  BY <1>2, <1>11, <1>12, <1>13, <1>14, <1>15 DEF Receives
<1>21. ASSUME GoesOn(r, a, m), stale[r] > 0
       PROVE  HolesOf(Q, s, holes'[r]) /\ holes'[r] = holes[r] /\ computed'[r] = computed[r]
  <2>1. s >= 1
    BY <1>9, <1>21
  <2>2. HolesOf(Q, s, holes[r])
    BY <1>4, <1>5, <1>7, <1>16, <2>1, ClearHoles DEF R, Q
  <2> QED
    BY <1>15, <1>21, <2>2
<1>22. ASSUME GoesOn(r, a, m), ~(stale[r] > 0)
       PROVE  /\ HolesOf(Q, s, holes'[r]) /\ computed'[r] <= computed[r]
              /\ computed'[r] = (Total(r) + m) + holes'[r] - 1
  BY <1>15, <1>17, <1>22 DEF GoesOn
<1>23. HolesOf(Q, s, holes'[r]) \/ Ends(r)
  BY <1>3, <1>21, <1>22
<1>24. ASSUME status'[r] # "gone" PROVE Books(r)'
  <2>1. s \in (0..Len(Rows(r)))'
    BY <1>4, <1>7 DEF Cleared
  <2>2. Tally(Rows(r), s, inFlight[r], stale[r])'
    BY <1>9, <1>14 DEF Q
  <2>3. CASE Ends(r)
    <3>1. Entered(r, s)'
      BY <2>2, <2>3 DEF Entered, Ends, Live
    <3> QED
      BY <2>1, <3>1 DEF Books
  <2>4. CASE GoesOn(r, a, m)
    <3>1. status'[r] = status[r] /\ known'[r] = Total(r)' /\ m = a + 1
      BY <1>10, <1>11, <1>12, <2>4 DEF GoesOn
    <3>2. HolesOf(Q, s, holes'[r])
      BY <1>21, <1>22, <2>4
    <3>3. Chained(Q, s, dropStale[r], y, Total(r)', known'[r])
      BY <1>9, <3>1
    <3>4. batch'.fresh[r] = 0
      BY <1>1, <1>2, NoBatchType DEF Marks, Building
    <3>5. status[r] = "running" =>
            Resumes(Q, s, dropStale[r], y, Total(r)', known'[r], batch'.fresh[r])
      BY <1>9, <3>1, <3>4
    <3>6. status[r] # "running" => Quiet(Q, s)
      BY <1>2, <1>7, <1>9 DEF Entered, R
    <3>7. Entered(r, s)'
      BY <1>2, <1>9, <1>14, <2>2, <3>1, <3>2, <3>3, <3>5, <3>6 DEF Entered, Q
    <3> QED
      BY <2>1, <3>7 DEF Books
  <2> QED
    BY <1>3, <2>3, <2>4
<1>25. Progress(r)'
  <2>1. (Len(delivered[r]) = output[r])'
        /\ (\A i \in 1..Len(delivered[r]) : delivered[r][i] = PromptLen[r] + i)'
    BY <1>11, <1>13
  <2>2. CASE Ends(r)
    BY <2>1, <2>2 DEF Progress, Ends, Live
  <2>3. CASE GoesOn(r, a, m)
    <3>1. /\ status'[r] = status[r] /\ Total(r)' = Total(r) + m /\ Total(r) + m < MaxModelLen
          /\ spec' = spec
      BY <1>2, <1>11, <2>3 DEF GoesOn
    <3>2. spec[r] \in 0..NumSpec /\ (status[r] \in {"new", "waiting"} => spec[r] = 0)
      BY <1>1, <1>2 DEF Sound, Progress
    <3>3. CASE status[r] = "running"
      <4>1. ~(stale[r] > 0)
        BY <1>8, <3>3 DEF Delivers
      <4>2. computed'[r] = (Total(r) + m) + holes'[r] - 1 /\ computed'[r] <= computed[r]
        BY <1>22, <2>3, <4>1
      <4>3. computed[r] < MaxModelLen
        BY <1>1, <3>3 DEF Sound, Progress
      <4>5. MaxModelLen \in Nat /\ computed'[r] \in Nat /\ holes'[r] \in Nat
        BY <1>18, SizesAssumption
      <4>4. computed'[r] < MaxModelLen /\ computed'[r] < (Total(r) + m) + holes'[r]
        <5>1. computed[r] \in Nat /\ Total(r) \in Nat /\ m \in Nat
          BY <1>10, <1>16
        <5> DEFINE cc == computed'[r]
                   hh == holes'[r]
                   tt == Total(r) + m
        <5>2. /\ cc \in Nat /\ hh \in Nat /\ tt \in Nat
              /\ cc = tt + hh - 1 /\ cc <= computed[r]
          BY <4>2, <4>5, <5>1
        <5> HIDE DEF cc, hh, tt
        <5>3. cc < MaxModelLen
          BY ONLY <5>1, <5>2, <4>3, <4>5
        <5>4. cc < tt + hh
          BY ONLY <5>2
        <5> QED
          BY <5>3, <5>4 DEF cc, hh, tt
      <4> QED
        BY <2>1, <3>1, <3>2, <3>3, <4>2, <4>4 DEF Progress
    <3>4. CASE status[r] \in {"new", "waiting"}
      <4>1. stale[r] > 0
        BY <1>9, <3>4
      <4>2. holes'[r] = holes[r] /\ computed'[r] = computed[r]
        BY <1>21, <2>3, <4>1
      <4>3. holes[r] = 0 /\ computed[r] < Total(r)
        BY <1>1, <3>4 DEF Sound, Progress
      <4>4. computed[r] < Total(r) + m
        BY <1>10, <1>16, <4>3
      <4> QED
        BY <2>1, <3>1, <3>2, <3>4, <4>2, <4>3, <4>4 DEF Progress
    <3> QED
      BY <1>2, <1>9, <3>3, <3>4 DEF Live
  <2> QED
    BY <1>3, <2>2, <2>3
<1> QED
  BY <1>9, <1>19, <1>20, <1>24, <1>25, ReceiveLedger

-----------------------------------------------------------------------------
(* The end of schedule(): the batch becomes a step in flight *)

\* The batch takes q to its last token.
Samples(q) == batch.n[q] > 0 /\ ~(computed[q] + batch.n[q] < Total(q) + holes[q])
Sampling == {q \in Requests : Samples(q)}
\* The batch as it is handed to the workers.
Issued == [batch EXCEPT !.last = [q \in Requests |-> q \in Sampling],
                        !.writes = [q \in Requests |-> IF q \in Scheduled THEN held[q] ELSE {}]]

LEMMA FinishParts ==
  ASSUME FinishSchedule, Numbers
  PROVE  /\ phase = "finish" /\ phase' = "idle" /\ budget' = 0 /\ batch' = NoBatch
         /\ UNCHANGED <<status, output, stale, dropStale, known, delivered, todo>>
         /\ computed' = [q \in Requests |-> computed[q] + batch.n[q]]
         /\ inFlight' = [q \in Requests |-> inFlight[q] + batch.n[q]]
         /\ holes' = [q \in Requests |->
                        IF q \in Sampling THEN holes[q] + 1 + batch.k[q] ELSE holes[q]]
         /\ \E k \in VerifyLens :
              spec' = [q \in Requests |-> IF q \in Sampling THEN k ELSE spec[q]]
         /\ chunk' \in [Requests -> BOOLEAN]
         /\ steps' = IF Scheduled = {} THEN steps ELSE Append(steps, Issued)
<1> DEFINE after == [r \in Requests |-> computed[r] + batch.n[r]]
           isChunk == [r \in Requests |->
                    IF r \in Scheduled THEN after[r] < Total(r) + holes[r] ELSE chunk[r]]
           samples == {r \in Scheduled : ~isChunk[r]}
<1>1. samples = Sampling
  <2>1. \A r \in Requests : r \in Scheduled => isChunk[r] = (computed[r] + batch.n[r] < Total(r) + holes[r])
    OBVIOUS
  <2>2. \A r : r \in Scheduled <=> r \in Requests /\ batch.n[r] > 0
    BY DEF Scheduled
  <2> HIDE DEF isChunk
  <2> QED
    BY <2>1, <2>2 DEF Sampling, Samples
<1>2. isChunk \in [Requests -> BOOLEAN]
  <2>1. \A r \in Requests : (after[r] < Total(r) + holes[r]) \in BOOLEAN
    OBVIOUS
  <2>2. \A r \in Requests : chunk[r] \in BOOLEAN
    BY DEF Numbers
  <2> HIDE DEF after
  <2> QED
    BY <2>1, <2>2
<1>3. /\ phase = "finish" /\ phase' = "idle" /\ budget' = 0 /\ batch' = NoBatch
      /\ UNCHANGED <<status, output, stale, dropStale, known, delivered, todo>>
      /\ computed' = after /\ chunk' = isChunk
      /\ inFlight' = [q \in Requests |-> inFlight[q] + batch.n[q]]
      /\ holes' = [q \in Requests |->
                     IF q \in samples THEN holes[q] + 1 + batch.k[q] ELSE holes[q]]
      /\ \E k \in VerifyLens :
           spec' = [q \in Requests |-> IF q \in samples THEN k ELSE spec[q]]
      /\ steps' = IF Scheduled = {} THEN steps
                  ELSE Append(steps, [batch EXCEPT !.last = [q \in Requests |-> q \in samples],
                        !.writes = [q \in Requests |-> IF q \in Scheduled THEN held[q] ELSE {}]])
  BY DEF FinishSchedule, outVars, wkVars
<1> HIDE DEF samples, isChunk
<1> QED
  BY <1>1, <1>2, <1>3 DEF Issued

LEMMA IssuedBatch ==
  ASSUME Shape, Numbers
  PROVE  /\ Issued \in Batch
         /\ \A q \in Requests :
              /\ Issued.n[q] = batch.n[q] /\ Issued.k[q] = batch.k[q]
              /\ Issued.fresh[q] = batch.fresh[q] /\ (Issued.last[q] <=> Samples(q))
<1> DEFINE last == [q \in Requests |-> q \in Sampling]
           writes == [q \in Requests |-> IF q \in Scheduled THEN held[q] ELSE {}]
           out == [batch EXCEPT !.last = last, !.writes = writes]
<1>1. batch \in Batch /\ held \in [Requests -> SUBSET Blocks]
  BY DEF Shape, Numbers
<1>2. last \in [Requests -> BOOLEAN] /\ writes \in [Requests -> SUBSET Blocks]
      /\ \A q \in Requests : last[q] <=> Samples(q)
  <2>1. \A q \in Requests : (q \in Sampling) \in BOOLEAN
    OBVIOUS
  <2>2. \A q \in Requests : last[q] <=> q \in Sampling
    OBVIOUS
  <2>3. \A q \in Requests : q \in Sampling <=> Samples(q)
    BY DEF Sampling
  <2>4. last \in [Requests -> BOOLEAN]
    BY <2>1
  <2>5. writes \in [Requests -> SUBSET Blocks]
    BY <1>1
  <2> QED
    BY <2>2, <2>3, <2>4, <2>5
<1> HIDE DEF last, writes
<1>3. /\ out.n = batch.n /\ out.k = batch.k /\ out.fresh = batch.fresh /\ out.last = last
      /\ out \in Batch
  BY <1>1, <1>2 DEF Batch
<1>4. Issued = out
  BY DEF Issued, last, writes
<1> HIDE DEF out
<1> QED
  BY <1>2, <1>3, <1>4

\* The row that q gets, and the rows with it.
Added(q) == [n |-> batch.n[q], k |-> batch.k[q], fresh |-> batch.fresh[q], last |-> Samples(q)]
Grows(R, w, Q) == Q = Append(R, w) \/ (Q = R /\ w.n = 0)

LEMMA FinishRows ==
  ASSUME Shape, Numbers, FinishSchedule, NEW q \in Requests
  PROVE  /\ Added(q) \in Row /\ Rows(q) \in Seq(Row)
         /\ Grows(Rows(q), Added(q), Rows(q)')
<1>1. batch.n[q] \in Nat /\ batch.k[q] \in Nat /\ batch.fresh[q] \in Nat /\ Samples(q) \in BOOLEAN
  <2>1. batch.k[q] \in 0..NumSpec /\ NumSpec \in Nat
    BY BatchTypes, SizesAssumption
  <2> QED
    BY <2>1, BatchTypes DEF Samples
<1>2. Added(q) \in Row
  BY <1>1 DEF Added, Row
<1>3. Rows(q) \in Seq(Row) /\ Len(Rows(q)) = Len(steps)
      /\ \A i \in 1..Len(steps) : Rows(q)[i] = [n |-> Arrives(i, q), k |-> steps[i].k[q],
                             fresh |-> steps[i].fresh[q], last |-> steps[i].last[q]]
  BY RowsType
<1>4. phase = "finish" /\ phase' = "idle"
      /\ steps' = IF Scheduled = {} THEN steps ELSE Append(steps, Issued)
  BY FinishParts
<1>5. CASE Scheduled = {}
  <2>1. Rows(q)' = Rows(q)
    BY <1>4, <1>5, RowsSame
  <2>2. ~(batch.n[q] > 0)
    BY <1>5 DEF Scheduled
  <2> QED
    BY <1>1, <1>2, <1>3, <2>1, <2>2 DEF Grows, Added
<1>6. CASE Scheduled # {}
  <2> DEFINE n == Len(steps)
             w == Added(q)
             R == Rows(q)
  <2>1. steps \in Seq(Batch) /\ n \in Nat
    BY DEF Numbers
  <2>2. Issued \in Batch /\ Issued.n[q] = batch.n[q] /\ Issued.k[q] = batch.k[q]
        /\ Issued.fresh[q] = batch.fresh[q] /\ Issued.last[q] = Samples(q)
    <3>1. Issued.last[q] \in BOOLEAN
      BY IssuedBatch DEF Batch
    <3> QED
      BY <1>1, <3>1, IssuedBatch
  <2>3. /\ Len(steps') = n + 1 /\ \A i \in 1..n : steps'[i] = steps[i]
        /\ steps'[n + 1] = Issued
    BY <1>4, <1>6, <2>1, <2>2
  <2>4. Rows(q)' = [i \in 1..(n + 1) |-> [n |-> steps'[i].n[q], k |-> steps'[i].k[q],
                             fresh |-> steps'[i].fresh[q], last |-> steps'[i].last[q]]]
    BY <1>4, <2>3 DEF Rows, Arrives
  <2>5. \A i \in 1..n : Rows(q)'[i] = R[i]
    <3>1. \A i \in 1..n : Arrives(i, q) = steps[i].n[q]
      BY <1>4 DEF Arrives
    <3>2. \A i \in 1..n : i \in 1..(n + 1)
      BY <2>1
    <3> QED
      BY <1>3, <2>3, <2>4, <3>1, <3>2
  <2>6. Rows(q)'[n + 1] = w
    <3>1. n + 1 \in 1..(n + 1)
      BY <2>1
    <3> QED
      BY <2>2, <2>3, <2>4, <3>1 DEF Added
  <2>7. /\ Append(R, w) \in Seq(Row) /\ Len(Append(R, w)) = n + 1
        /\ \A i \in 1..n : Append(R, w)[i] = R[i]
        /\ Append(R, w)[n + 1] = w
    BY <1>2, <1>3, GrowRows
  <2>8. \A i \in 1..(n + 1) : i = n + 1 \/ i \in 1..n
    BY <2>1
  <2>9. DOMAIN Rows(q)' = 1..(n + 1) /\ Rows(q)' = [i \in 1..(n + 1) |-> Rows(q)'[i]]
    BY <2>4
  <2> HIDE DEF w, R, n
  <2>10. \A i \in 1..(n + 1) : Rows(q)'[i] = Append(R, w)[i]
    BY <2>5, <2>6, <2>7, <2>8
  <2>11. Rows(q)' = Append(R, w)
    <3>1. Rows(q)' \in Seq(Row) /\ Len(Rows(q)') = n + 1
      <4>1. \A i \in 1..(n + 1) : Append(R, w)[i] \in Row
        BY <2>1, <2>7
      <4>2. \A i \in 1..(n + 1) : Rows(q)'[i] \in Row
        BY <2>10, <4>1
      <4>3. n + 1 \in Nat
        BY <2>1
      <4> QED
        BY <2>9, <4>2, <4>3
    <3> QED
      BY <2>7, <2>10, <3>1, SeqEqual
  <2> QED
    BY <1>2, <1>3, <2>11 DEF Grows, w, R
<1> QED
  BY <1>5, <1>6

LEMMA GrowsAll ==
  ASSUME NEW R \in Seq(Row), NEW w \in Row, NEW Q, Grows(R, w, Q), NEW s \in 0..Len(R)
  PROVE  /\ s \in 0..Len(Q)
         /\ \A x \in Nat : \A y : Tally(R, s, x, y) => Tally(Q, s, x + w.n, y)
         /\ \A h \in Nat : HolesOf(R, s, h) =>
              HolesOf(Q, s, h + (IF w.n > 0 /\ w.last THEN 1 + w.k ELSE 0))
         /\ w.n = 0 /\ Quiet(R, s) => Quiet(Q, s)
         /\ \A drop, st, kn : \A total \in Nat :
              /\ Chained(R, s, drop, st, total, kn)
              /\ w.n > 0 => Resumes(R, s, drop, st, total, kn, w.fresh)
              => Chained(Q, s, drop, st, total, kn)
         /\ \A drop, st, kn, total :
              (w.n = 0 => Resumes(R, s, drop, st, total, kn, 0)) =>
                Resumes(Q, s, drop, st, total, kn, 0)
<1>1. CASE Q = Append(R, w)
  <2>1. /\ Len(Q) = Len(R) + 1 /\ Len(R) \in Nat
        /\ Q[Len(R) + 1] = w
        /\ \A i \in 1..Len(R) : Q[i] = R[i]
    BY <1>1, GrowRows
  <2>2. s \in 0..Len(Q)
    BY <2>1
  <2>3. w.n = 0 /\ Quiet(R, s) => Quiet(Q, s)
    <3>1. \A i \in 1..Len(Q) : i \in 1..Len(R) \/ i = Len(R) + 1
      BY <2>1
    <3> QED
      BY <2>1, <3>1 DEF Quiet
  <2>4. \A x \in Nat : \A y : Tally(R, s, x, y) => Tally(Q, s, x + w.n, y)
    BY <1>1, GrowTally
  <2>5. \A h \in Nat : HolesOf(R, s, h) =>
          HolesOf(Q, s, h + (IF w.n > 0 /\ w.last THEN 1 + w.k ELSE 0))
    BY <1>1, GrowHoles
  <2>6. ASSUME NEW drop, NEW st, NEW kn, NEW total \in Nat,
               Chained(R, s, drop, st, total, kn),
               w.n > 0 => Resumes(R, s, drop, st, total, kn, w.fresh)
        PROVE  Chained(Q, s, drop, st, total, kn)
    BY <1>1, <2>6, GrowChained
  <2>7. ASSUME NEW drop, NEW st, NEW kn, NEW total,
               w.n = 0 => Resumes(R, s, drop, st, total, kn, 0)
        PROVE  Resumes(Q, s, drop, st, total, kn, 0)
    BY <1>1, <2>7, GrowResumes
  <2> QED
    BY <2>2, <2>3, <2>4, <2>5, <2>6, <2>7
<1>2. CASE Q = R /\ w.n = 0
  <2>1. \A x \in Nat : x + w.n = x
    BY <1>2
  <2>2. \A h \in Nat : h + (IF w.n > 0 /\ w.last THEN 1 + w.k ELSE 0) = h
    BY <1>2
  <2> QED
    BY <1>2, <2>1, <2>2
<1> QED
  BY <1>1, <1>2 DEF Grows

\* Scheduling in numbers: of e = t + h places c are computed and n more with k
\* drafts are planned.
LEMMA TokensPlanned ==
  ASSUME NEW t \in Nat, NEW h \in Nat, NEW c \in Nat, NEW n \in Nat, NEW k \in Nat, n > 0,
         c < t + h, h > 0 => c = t + h - 1,
         c + n <= t + h + k, c + n >= t + h => k = c + n - (t + h)
  PROVE  /\ c + n < t + h => ~(h > 0)
         /\ ~(c + n < t + h) => c + n = t + (h + 1 + k) - 1 /\ c + n < t + (h + 1 + k)
OBVIOUS

LEMMA FinishLedger ==
  ASSUME Shape, Control, Ledger, FinishSchedule PROVE Ledger'
<1>1. Numbers /\ Marks
  BY DEF Ledger
<1>2. /\ phase = "finish" /\ phase' = "idle" /\ budget' = 0 /\ batch' = NoBatch
      /\ UNCHANGED <<status, output, stale, dropStale, known, delivered, todo>>
      /\ computed' = [q \in Requests |-> computed[q] + batch.n[q]]
      /\ inFlight' = [q \in Requests |-> inFlight[q] + batch.n[q]]
      /\ holes' = [q \in Requests |->
                     IF q \in Sampling THEN holes[q] + 1 + batch.k[q] ELSE holes[q]]
      /\ \E k \in VerifyLens :
           spec' = [q \in Requests |-> IF q \in Sampling THEN k ELSE spec[q]]
      /\ chunk' \in [Requests -> BOOLEAN]
      /\ steps' = IF Scheduled = {} THEN steps ELSE Append(steps, Issued)
  BY <1>1, FinishParts
<1>3. PICK v \in VerifyLens :
        spec' = [q \in Requests |-> IF q \in Sampling THEN v ELSE spec[q]]
  BY <1>2
<1>4. v \in 0..NumSpec /\ v \in Nat
  <2>1. v \in 0..NumSpec /\ NumSpec \in Nat
    BY SizesAssumption
  <2> QED
    BY <2>1
<1>5. \A q \in Requests :
        /\ computed[q] \in Nat /\ holes[q] \in Nat /\ inFlight[q] \in Nat /\ spec[q] \in Nat
        /\ batch.n[q] \in Nat /\ batch.k[q] \in Nat /\ batch.fresh[q] \in Nat
        /\ Total(q) \in Nat
  <2> TAKE q \in Requests
  <2>1. computed[q] \in Nat /\ holes[q] \in Nat /\ inFlight[q] \in Nat /\ spec[q] \in Nat
        /\ output[q] \in Nat
    BY <1>1 DEF Numbers
  <2>2. batch.n[q] \in Nat /\ batch.k[q] \in 0..NumSpec /\ batch.fresh[q] \in Nat
    BY <1>1, BatchTypes
  <2>3. NumSpec \in Nat /\ PromptLen[q] \in Nat \ {0}
    BY SizesAssumption
  <2>4. batch.k[q] \in Nat
    BY <2>2, <2>3
  <2>5. Total(q) \in Nat
    BY <2>1, <2>3 DEF Total
  <2> QED
    BY <2>1, <2>2, <2>4, <2>5
<1>6. ASSUME NEW q \in Requests PROVE Sound(q)'
  <2> DEFINE n == batch.n[q]
             k == batch.k[q]
  <2>1. Sound(q)
    BY DEF Ledger
  <2>2. /\ computed'[q] = computed[q] + n /\ inFlight'[q] = inFlight[q] + n
        /\ holes'[q] = IF Samples(q) THEN holes[q] + 1 + k ELSE holes[q]
        /\ spec'[q] = IF Samples(q) THEN v ELSE spec[q]
        /\ Total(q)' = Total(q)
    BY <1>2, <1>3 DEF Sampling, Total
  <2>3. NoBatch.n[q] = 0 /\ NoBatch.fresh[q] = 0
    BY NoBatchType
  <2>4. n \in Nat /\ k \in Nat /\ (n > 0 => status[q] = "running") /\ (n = 0 => batch.fresh[q] = 0)
        /\ (n = 0 => ~Samples(q))
    BY <1>5, <2>1 DEF Control, Sound, Samples
  <2>5. ASSUME status[q] # "gone" PROVE Books(q)'
    <3> DEFINE R == Rows(q)
               w == Added(q)
               Q == Rows(q)'
    <3>1. PICK s \in 0..Len(R) : Entered(q, s)
      BY <2>1, <2>5 DEF Sound, Books
    <3>2. w \in Row /\ R \in Seq(Row) /\ Grows(R, w, Q)
      BY <1>1, FinishRows
    <3>3. w.n = n /\ w.k = k /\ w.fresh = batch.fresh[q] /\ w.last = Samples(q)
      BY DEF Added
    <3>4. /\ Tally(R, s, inFlight[q], stale[q])
          /\ status[q] \in Live =>
               /\ HolesOf(R, s, holes[q])
               /\ Chained(R, s, dropStale[q], stale[q], Total(q), known[q])
               /\ status[q] # "running" => Quiet(R, s)
               /\ status[q] \in {"running", "remote"} => stale[q] = 0 \/ dropStale[q]
               /\ status[q] = "running" =>
                    Resumes(R, s, dropStale[q], stale[q], Total(q), known[q], batch.fresh[q])
      BY <3>1 DEF Entered
    <3>5. s \in 0..Len(R) /\ (Samples(q) => n > 0)
      BY DEF Samples
    <3> HIDE DEF R, w, Q, n, k
    <3>6. /\ s \in 0..Len(Q)
          /\ Tally(Q, s, inFlight[q] + n, stale[q])
          /\ HolesOf(R, s, holes[q]) =>
               HolesOf(Q, s, holes[q] + (IF n > 0 /\ Samples(q) THEN 1 + k ELSE 0))
          /\ n = 0 /\ Quiet(R, s) => Quiet(Q, s)
      BY <1>5, <3>2, <3>3, <3>4, <3>5, GrowsAll
    <3>7. status[q] \in Live => HolesOf(Q, s, holes'[q])
      <4>1. holes[q] + (IF n > 0 /\ Samples(q) THEN 1 + k ELSE 0) = holes'[q]
        <5>1. holes[q] \in Nat /\ n \in Nat /\ k \in Nat
          BY <1>5, <2>4
        <5>2. CASE Samples(q)
          BY <2>2, <3>5, <5>1, <5>2
        <5>3. CASE ~Samples(q)
          BY <2>2, <5>1, <5>3
        <5> QED
          BY <5>2, <5>3
      <4> QED
        BY <3>4, <3>6, <4>1
    <3>8. status[q] \in Live => Chained(Q, s, dropStale[q], stale[q], Total(q), known[q])
      <4>1. status[q] \in Live => /\ Chained(R, s, dropStale[q], stale[q], Total(q), known[q])
                                  /\ n > 0 => Resumes(R, s, dropStale[q], stale[q], Total(q),
                                                      known[q], w.fresh)
        BY <2>4, <3>3, <3>4
      <4> QED
        BY <1>5, <3>2, <3>3, <3>5, <4>1, GrowsAll
    <3>9. status[q] = "running" =>
            Resumes(Q, s, dropStale[q], stale[q], Total(q), known[q], 0)
      <4>1. status[q] = "running" =>
              (n = 0 => Resumes(R, s, dropStale[q], stale[q], Total(q), known[q], 0))
        BY <2>4, <3>4 DEF Live
      <4> QED
        BY <3>2, <3>3, <3>5, <4>1, GrowsAll
    <3>10. status[q] \in Live /\ status[q] # "running" => Quiet(Q, s)
      BY <2>4, <3>4, <3>6
    <3>11. Entered(q, s)'
      BY <1>2, <2>2, <2>3, <3>4, <3>6, <3>7, <3>8, <3>9, <3>10 DEF Entered, Q
    <3>12. s \in (0..Len(Rows(q)))'
      BY <3>6 DEF Q
    <3> QED
      BY <3>11, <3>12 DEF Books
  <2> HIDE DEF n, k
  <2>6. Progress(q)'
    <3>1. Progress(q)
      BY <2>1 DEF Sound
    <3>2. status[q] \in Live => Total(q) < MaxModelLen /\ spec'[q] \in 0..NumSpec
      BY <1>4, <2>2, <3>1 DEF Progress
    <3>3. CASE n = 0
      <4>1. computed'[q] = computed[q] /\ holes'[q] = holes[q] /\ spec'[q] = spec[q]
        BY <1>5, <2>2, <2>4, <3>3
      <4> QED
        BY <1>2, <2>2, <3>1, <4>1 DEF Progress
    <3>4. CASE n > 0
      <4>1. status[q] = "running"
        BY <2>4, <3>4
      <4>2. /\ computed[q] < Total(q) + holes[q]
            /\ holes[q] > 0 => computed[q] = Total(q) + holes[q] - 1
        BY <3>1, <4>1 DEF Progress
      <4>3. /\ computed[q] + n < MaxModelLen
            /\ computed[q] + n <= Total(q) + holes[q] + k
            /\ computed[q] + n >= Total(q) + holes[q] =>
                 k = computed[q] + n - (Total(q) + holes[q])
        BY <2>1, <3>4 DEF Sound, Planned, n, k
      <4>4. Samples(q) <=> ~(computed[q] + n < Total(q) + holes[q])
        BY <3>4 DEF Samples, n
      <4>5. /\ computed[q] + n < Total(q) + holes[q] => ~(holes[q] > 0)
            /\ ~(computed[q] + n < Total(q) + holes[q]) =>
                 /\ computed[q] + n = Total(q) + (holes[q] + 1 + k) - 1
                 /\ computed[q] + n < Total(q) + (holes[q] + 1 + k)
        BY <1>5, <2>4, <3>4, <4>2, <4>3, TokensPlanned
      <4>6. /\ computed'[q] < Total(q) + holes'[q] /\ computed'[q] < MaxModelLen
            /\ holes'[q] > 0 => computed'[q] = Total(q) + holes'[q] - 1
        <5>1. CASE Samples(q)
          BY <2>2, <4>3, <4>4, <4>5, <5>1
        <5>2. CASE ~Samples(q)
          BY <2>2, <4>3, <4>4, <4>5, <5>2
        <5> QED
          BY <5>1, <5>2
      <4> QED
        BY <1>2, <2>2, <3>1, <3>2, <4>1, <4>6 DEF Progress
    <3> QED
      BY <2>4, <3>3, <3>4
  <2>7. Planned(q)' /\ ~(batch'.fresh[q] > 0)
    BY <1>2, <2>3 DEF Planned
  <2> QED
    BY <1>2, <2>5, <2>6, <2>7 DEF Sound
<1>7. Numbers'
  <2>1. computed' \in [Requests -> Nat] /\ inFlight' \in [Requests -> Nat]
    BY <1>2, <1>5
  <2>2. holes' \in [Requests -> Nat]
    BY <1>2, <1>5
  <2>3. spec' \in [Requests -> Nat]
    BY <1>3, <1>4, <1>5
  <2>4. steps' \in Seq(Batch)
    <3>1. steps \in Seq(Batch) /\ Issued \in Batch
      BY <1>1, IssuedBatch DEF Numbers
    <3> QED
      BY <1>2, <3>1
  <2>5. batch' \in Batch /\ budget' \in Nat
    BY <1>2, NoBatchType
  <2>6. UNCHANGED <<output, stale, dropStale, known, delivered>>
    BY <1>2
  <2> QED
    BY <1>1, <1>2, <2>1, <2>2, <2>3, <2>4, <2>5, <2>6 DEF Numbers
<1>8. Marks'
  BY <1>2 DEF Marks, Building
<1> QED
  BY <1>6, <1>7, <1>8 DEF Ledger

-----------------------------------------------------------------------------
(* The output of a step: before its first request and after its last *)

LEMMA BeginUpdateLedger ==
  ASSUME Ledger, BeginUpdate PROVE Ledger'
<1>1. /\ phase = "idle" /\ phase' = "output" /\ steps # << >>
      /\ todo' = {r \in Requests : Head(steps).n[r] > 0}
      /\ UNCHANGED <<status, computed, output, spec, holes, inFlight, stale, dropStale>>
      /\ UNCHANGED <<chunk, known, delivered, steps, batch, budget>>
  BY DEF BeginUpdate, reqVars, passVars, wkVars
<1>2. Numbers /\ Marks
  BY DEF Ledger
<1>3. steps \in Seq(Batch) /\ Len(steps) \in Nat /\ Len(steps) >= 1 /\ Head(steps) = steps[1]
  BY <1>1, <1>2 DEF Numbers
<1>4. ASSUME NEW q \in Requests PROVE Rows(q)' = Rows(q)
  <2>1. steps[1].n[q] \in Nat
    <3>1. 1 \in 1..Len(steps)
      BY <1>3
    <3> QED
      BY <1>2, <3>1, BatchTypes
  <2>2. q \notin todo' => steps[1].n[q] = 0
    BY <1>1, <1>3, <2>1
  <2>3. \A i : Arrives(i, q)' = Arrives(i, q)
    BY <1>1, <2>2 DEF Arrives
  <2> QED
    BY <1>1, <2>3 DEF Rows
<1>5. \A q \in Requests : Same(q)
  BY <1>1, <1>4 DEF Same
<1>6. \A q \in Requests : Sound(q)'
  BY <1>5, SameSound DEF Ledger
<1>7. Numbers'
  BY <1>1, <1>2 DEF Numbers
<1>8. Marks'
  BY <1>1, <1>2 DEF Marks, Building
<1> QED
  BY <1>6, <1>7, <1>8 DEF Ledger

LEMMA EndRows ==
  ASSUME Numbers, NEW q \in Requests, phase = "output", todo = {}, steps # << >>,
         phase' = "idle", steps' = Tail(steps)
  PROVE  /\ Rows(q) \in Seq(Row) /\ Len(Rows(q)) >= 1 /\ Rows(q)[1].n = 0
         /\ Rows(q)' = Tail(Rows(q))
<1> DEFINE R == Rows(q)
           n == Len(steps)
<1>1. steps \in Seq(Batch) /\ n \in Nat /\ n >= 1 /\ 1 \in 1..n
  BY DEF Numbers
<1>2. /\ R \in Seq(Row) /\ Len(R) = n
      /\ \A i \in 1..n : R[i] = [n |-> Arrives(i, q), k |-> steps[i].k[q],
                             fresh |-> steps[i].fresh[q], last |-> steps[i].last[q]]
  BY RowsType
<1>3. Arrives(1, q) = 0
  BY DEF Arrives
<1>4. R[1].n = 0
  <2> HIDE DEF R
  <2>1. R[1] = [n |-> Arrives(1, q), k |-> steps[1].k[q],
                fresh |-> steps[1].fresh[q], last |-> steps[1].last[q]]
    BY <1>1, <1>2
  <2> QED
    BY <1>3, <2>1
<1>5. /\ Len(steps') = n - 1 /\ \A i \in 1..(n - 1) : steps'[i] = steps[i + 1]
  BY <1>1
<1>6. Rows(q)' = [i \in 1..(n - 1) |-> [n |-> steps'[i].n[q], k |-> steps'[i].k[q],
                             fresh |-> steps'[i].fresh[q], last |-> steps'[i].last[q]]]
  BY <1>5 DEF Rows, Arrives
<1>7. \A i \in 1..(n - 1) : Rows(q)'[i] = R[i + 1]
  <2>1. \A i \in 1..(n - 1) : i + 1 \in 1..n /\ i + 1 # 1
    BY <1>1
  <2>2. \A i \in 1..(n - 1) : Arrives(i + 1, q) = steps[i + 1].n[q]
    BY <2>1 DEF Arrives
  <2>3. \A i \in 1..(n - 1) : R[i + 1] = [n |-> Arrives(i + 1, q), k |-> steps[i + 1].k[q],
                             fresh |-> steps[i + 1].fresh[q], last |-> steps[i + 1].last[q]]
    BY <1>2, <2>1
  <2>4. \A i \in 1..(n - 1) :
          Rows(q)'[i] = [n |-> steps'[i].n[q], k |-> steps'[i].k[q],
                         fresh |-> steps'[i].fresh[q], last |-> steps'[i].last[q]]
    BY <1>6
  <2> HIDE DEF R
  <2>5. ASSUME NEW i \in 1..(n - 1) PROVE Rows(q)'[i] = R[i + 1]
    <3>1. steps'[i] = steps[i + 1] /\ Arrives(i + 1, q) = steps[i + 1].n[q]
      BY <1>5, <2>2
    <3>2. Rows(q)'[i] = [n |-> steps'[i].n[q], k |-> steps'[i].k[q],
                         fresh |-> steps'[i].fresh[q], last |-> steps'[i].last[q]]
      BY <2>4
    <3>3. R[i + 1] = [n |-> Arrives(i + 1, q), k |-> steps[i + 1].k[q],
                      fresh |-> steps[i + 1].fresh[q], last |-> steps[i + 1].last[q]]
      BY <2>3
    <3> QED
      BY <3>1, <3>2, <3>3
  <2> QED
    BY <2>5
<1>8. /\ Tail(R) \in Seq(Row) /\ Len(Tail(R)) = n - 1
      /\ \A i \in 1..(n - 1) : Tail(R)[i] = R[i + 1]
  <2>1. Len(R) >= 1
    BY <1>1, <1>2
  <2> HIDE DEF R
  <2> QED
    BY <1>2, <2>1, TailRows
<1>9. DOMAIN Rows(q)' = 1..(n - 1) /\ Rows(q)' = [i \in 1..(n - 1) |-> Rows(q)'[i]]
  BY <1>6
<1> HIDE DEF R, n
<1>10. Rows(q)' \in Seq(Row) /\ Len(Rows(q)') = n - 1
  <2>1. \A i \in 1..(n - 1) : Tail(R)[i] \in Row
    BY <1>8
  <2>2. \A i \in 1..(n - 1) : Rows(q)'[i] \in Row
    BY <1>7, <1>8, <2>1
  <2>3. n - 1 \in Nat
    BY <1>1
  <2> QED
    BY <1>9, <2>2, <2>3
<1>11. Rows(q)' = Tail(R)
  BY <1>7, <1>8, <1>10, SeqEqual
<1> QED
  BY <1>1, <1>2, <1>4, <1>11 DEF R

LEMMA EndUpdateLedger ==
  ASSUME Control, Ledger, EndUpdate PROVE Ledger'
<1>1. /\ phase = "output" /\ phase' = "idle" /\ todo = {} /\ todo' = {} /\ steps' = Tail(steps)
      /\ UNCHANGED <<status, computed, output, spec, holes, inFlight, stale, dropStale>>
      /\ UNCHANGED <<chunk, known, delivered, batch, budget>>
  BY DEF EndUpdate, reqVars, passVars, wkVars
<1>2. Numbers /\ Marks /\ steps # << >>
  BY <1>1 DEF Ledger, Control
<1>3. ASSUME NEW q \in Requests PROVE Sound(q)'
  <2> DEFINE R == Rows(q)
  <2>1. /\ R \in Seq(Row) /\ Len(R) >= 1 /\ R[1].n = 0
        /\ Rows(q)' = Tail(R)
    BY <1>1, <1>2, EndRows
  <2>2. Sound(q) /\ Total(q)' = Total(q)
    BY <1>1 DEF Ledger, Total
  <2>3. ASSUME status[q] # "gone" PROVE Books(q)'
    <3>1. PICK s \in 0..Len(R) : Entered(q, s)
      BY <2>2, <2>3 DEF Sound, Books
    <3>2. /\ Tally(R, s, inFlight[q], stale[q])
          /\ status[q] \in Live =>
               /\ HolesOf(R, s, holes[q])
               /\ Chained(R, s, dropStale[q], stale[q], Total(q), known[q])
               /\ status[q] # "running" => Quiet(R, s)
               /\ status[q] \in {"running", "remote"} => stale[q] = 0 \/ dropStale[q]
               /\ status[q] = "running" =>
                    Resumes(R, s, dropStale[q], stale[q], Total(q), known[q], batch.fresh[q])
      BY <3>1 DEF Entered
    <3>3. s \in 0..Len(R)
      OBVIOUS
    <3> DEFINE Q == Tail(R)
               z == Less(s)
    <3> HIDE DEF R
    <3>4. z \in 0..Len(Q) /\ Tally(Q, z, inFlight[q], stale[q])
      BY <2>1, <3>2, <3>3, TailTally
    <3>5. status[q] \in Live => HolesOf(Q, z, holes[q])
      BY <2>1, <3>2, <3>3, TailHoles
    <3>6. /\ status[q] \in Live =>
               Chained(Q, z, dropStale[q], stale[q], Total(q), known[q])
          /\ status[q] \in Live /\ status[q] # "running" => Quiet(Q, z)
          /\ status[q] = "running" =>
               Resumes(Q, z, dropStale[q], stale[q], Total(q), known[q], batch.fresh[q])
      BY <2>1, <3>2, <3>3, TailChained DEF Live
    <3> HIDE DEF Q, z
    <3>7. Rows(q)' = Q
      BY <2>1 DEF Q
    <3>8. Entered(q, z)'
      BY <1>1, <2>2, <3>2, <3>4, <3>5, <3>6, <3>7 DEF Entered
    <3>9. z \in (0..Len(Rows(q)))'
      BY <3>4, <3>7
    <3> QED
      BY <3>8, <3>9 DEF Books
  <2>4. Progress(q)'
    BY <1>1, <2>2 DEF Sound, Progress
  <2>5. Planned(q)' /\ (batch'.fresh[q] > 0 => batch'.n[q] > 0)
    BY <1>1, <2>2 DEF Sound, Planned
  <2> QED
    BY <1>1, <2>3, <2>4, <2>5 DEF Sound
<1>4. Numbers'
  <2>1. steps' \in Seq(Batch)
    BY <1>1, <1>2 DEF Numbers
  <2> QED
    BY <1>1, <1>2, <2>1 DEF Numbers
<1>5. Marks'
  BY <1>1, <1>2 DEF Marks, Building
<1> QED
  BY <1>3, <1>4, <1>5 DEF Ledger

-----------------------------------------------------------------------------
(* Queues *)

Members(q) == {q[i] : i \in 1..Len(q)}
\* A queue of requests, each in it once.
Line(q) == q \in Seq(Requests) /\ \A i, j \in 1..Len(q) : q[i] = q[j] => i = j

LEMMA LineWithout ==
  ASSUME NEW q, Line(q), NEW S
  PROVE  Line(Without(q, S)) /\ Members(Without(q, S)) = Members(q) \ S
<1> DEFINE w == Without(q, S)
<1>1. q \in Seq(Requests) /\ \A i, j \in 1..Len(q) : q[i] = q[j] => i = j
  BY DEF Line
<1>2. w \in Seq(Requests) /\ \E f : Picks(f, q, w, S)
  BY <1>1, WithoutPicks
<1> HIDE DEF w
<1>3. PICK f : Picks(f, q, w, S)
  BY <1>2
<1>4. /\ \A j \in 1..Len(w) : f[j] \in 1..Len(q) /\ q[f[j]] \notin S /\ w[j] = q[f[j]]
      /\ \A i, j \in 1..Len(w) : f[i] = f[j] => i = j
      /\ \A i \in 1..Len(q) : q[i] \notin S => \E j \in 1..Len(w) : f[j] = i
  BY <1>3 DEF Picks
<1>5. ASSUME NEW i \in 1..Len(w), NEW j \in 1..Len(w), w[i] = w[j] PROVE i = j
  <2>1. q[f[i]] = q[f[j]] /\ f[i] \in 1..Len(q) /\ f[j] \in 1..Len(q)
    BY <1>4, <1>5
  <2>2. f[i] = f[j]
    BY <1>1, <2>1
  <2> QED
    BY <1>4, <2>2
<1>6. ASSUME NEW x PROVE x \in Members(w) <=> x \in Members(q) \ S
  <2>1. ASSUME x \in Members(w) PROVE x \in Members(q) \ S
    <3>1. PICK j \in 1..Len(w) : x = w[j]
      BY <2>1 DEF Members
    <3> QED
      BY <1>4, <3>1 DEF Members
  <2>2. ASSUME x \in Members(q) \ S PROVE x \in Members(w)
    <3>1. PICK i \in 1..Len(q) : x = q[i] /\ q[i] \notin S
      BY <2>2 DEF Members
    <3>2. PICK j \in 1..Len(w) : f[j] = i
      BY <1>4, <3>1
    <3> QED
      BY <1>4, <3>1, <3>2 DEF Members
  <2> QED
    BY <2>1, <2>2
<1>7. Line(w) /\ Members(w) = Members(q) \ S
  BY <1>2, <1>5, <1>6 DEF Line
<1> QED
  BY <1>7 DEF w

LEMMA LineAppend ==
  ASSUME NEW q, Line(q), NEW r \in Requests, r \notin Members(q)
  PROVE  Line(Append(q, r)) /\ Members(Append(q, r)) = Members(q) \cup {r}
<1> DEFINE a == Append(q, r)
<1>1. q \in Seq(Requests) /\ \A i, j \in 1..Len(q) : q[i] = q[j] => i = j
  BY DEF Line
<1>2. /\ a \in Seq(Requests) /\ Len(a) = Len(q) + 1 /\ a[Len(q) + 1] = r
      /\ \A i \in 1..Len(q) : a[i] = q[i]
  BY <1>1
<1>3. Len(q) \in Nat /\ \A i \in 1..Len(q) : q[i] # r
  BY <1>1 DEF Members
<1> HIDE DEF a
<1>4. \A i \in 1..Len(a) : i \in 1..Len(q) \/ i = Len(q) + 1
  BY <1>2, <1>3
<1>5. \A i, j \in 1..Len(a) : a[i] = a[j] => i = j
  BY <1>1, <1>2, <1>3, <1>4
<1>6. 1..Len(q) \subseteq 1..Len(a) /\ Len(q) + 1 \in 1..Len(a)
  BY <1>2, <1>3
<1>7. ASSUME NEW x PROVE x \in Members(a) <=> x \in Members(q) \cup {r}
  BY <1>2, <1>4, <1>6 DEF Members
<1>8. Line(a) /\ Members(a) = Members(q) \cup {r}
  BY <1>2, <1>5, <1>7 DEF Line
<1> QED
  BY <1>8 DEF a

LEMMA LineConcat ==
  ASSUME NEW p, NEW q, Line(p), Line(q), Members(p) \cap Members(q) = {}
  PROVE  Line(p \o q) /\ Members(p \o q) = Members(p) \cup Members(q)
<1> DEFINE c == p \o q
<1>1. /\ p \in Seq(Requests) /\ \A i, j \in 1..Len(p) : p[i] = p[j] => i = j
      /\ q \in Seq(Requests) /\ \A i, j \in 1..Len(q) : q[i] = q[j] => i = j
  BY DEF Line
<1>2. /\ c \in Seq(Requests) /\ Len(c) = Len(p) + Len(q)
      /\ \A i \in 1..Len(c) : c[i] = IF i <= Len(p) THEN p[i] ELSE q[i - Len(p)]
  BY <1>1, ConcatProperties
<1>3. Len(p) \in Nat /\ Len(q) \in Nat
  BY <1>1
<1> HIDE DEF c
<1>4. \A i \in 1..Len(c) : \/ i \in 1..Len(p) /\ c[i] = p[i]
                           \/ i - Len(p) \in 1..Len(q) /\ c[i] = q[i - Len(p)]
  BY <1>2, <1>3
<1>5. /\ \A i \in 1..Len(p) : i \in 1..Len(c) /\ c[i] = p[i]
      /\ \A i \in 1..Len(q) : i + Len(p) \in 1..Len(c) /\ c[i + Len(p)] = q[i]
  <2>1. ASSUME NEW i \in 1..Len(q) PROVE i + Len(p) \in 1..Len(c) /\ c[i + Len(p)] = q[i]
    <3>1. i + Len(p) \in 1..Len(c) /\ ~(i + Len(p) <= Len(p)) /\ (i + Len(p)) - Len(p) = i
      BY <1>2, <1>3
    <3> QED
      BY <1>2, <3>1
  <2>2. ASSUME NEW i \in 1..Len(p) PROVE i \in 1..Len(c) /\ c[i] = p[i]
    BY <1>2, <1>3
  <2> QED
    BY <2>1, <2>2
<1>6. \A i \in 1..Len(p) : \A j \in 1..Len(q) : p[i] # q[j]
  BY DEF Members
<1>7. ASSUME NEW i \in 1..Len(c), NEW j \in 1..Len(c), c[i] = c[j] PROVE i = j
  <2>1. CASE i \in 1..Len(p) /\ c[i] = p[i]
    <3>1. j \in 1..Len(p) /\ c[j] = p[j]
      BY <1>4, <1>6, <1>7, <2>1
    <3> QED
      BY <1>1, <1>7, <2>1, <3>1
  <2>2. CASE i - Len(p) \in 1..Len(q) /\ c[i] = q[i - Len(p)]
    <3>1. j - Len(p) \in 1..Len(q) /\ c[j] = q[j - Len(p)]
      BY <1>4, <1>6, <1>7, <2>2
    <3>2. i - Len(p) = j - Len(p)
      BY <1>1, <1>7, <2>2, <3>1
    <3> QED
      BY <1>2, <1>3, <3>2
  <2> QED
    BY <1>4, <2>1, <2>2
<1>8. ASSUME NEW x PROVE x \in Members(c) <=> x \in Members(p) \cup Members(q)
  <2>1. ASSUME x \in Members(c) PROVE x \in Members(p) \cup Members(q)
    <3>1. PICK i \in 1..Len(c) : x = c[i]
      BY <2>1 DEF Members
    <3> QED
      BY <1>4, <3>1 DEF Members
  <2>2. ASSUME x \in Members(p) PROVE x \in Members(c)
    BY <1>5, <2>2 DEF Members
  <2>3. ASSUME x \in Members(q) PROVE x \in Members(c)
    <3>1. PICK i \in 1..Len(q) : x = q[i]
      BY <2>3 DEF Members
    <3> QED
      BY <1>5, <3>1 DEF Members
  <2> QED
    BY <2>1, <2>2, <2>3
<1>9. Line(c) /\ Members(c) = Members(p) \cup Members(q)
  BY <1>2, <1>7, <1>8 DEF Line
<1> QED
  BY <1>9 DEF c

LEMMA LineOfOne ==
  /\ Line(<< >>) /\ Members(<< >>) = {}
  /\ \A r \in Requests : Line(<<r>>) /\ Members(<<r>>) = {r}
BY DEF Line, Members

\* A queue that is not empty has a member of least rank and one of greatest.
LEMMA Extremes ==
  ASSUME NEW q \in Seq(Requests), q # << >>
  PROVE  /\ \E v \in Members(q) : \A i \in 1..Len(q) : Rank[v] <= Rank[q[i]]
         /\ \E v \in Members(q) : \A i \in 1..Len(q) : Rank[v] >= Rank[q[i]]
<1>1. Len(q) \in Nat /\ Len(q) >= 1 /\ \A i \in 1..Len(q) : Rank[q[i]] \in Nat
  <2>1. Rank \in [Requests -> Nat]
    BY SizesAssumption
  <2>2. Len(q) \in Nat /\ Len(q) >= 1 /\ \A i \in 1..Len(q) : q[i] \in Requests
    OBVIOUS
  <2> QED
    BY <2>1, <2>2
<1>2. \E v \in Members(q) : \A i \in 1..Len(q) : Rank[v] <= Rank[q[i]]
  <2> DEFINE S == {Rank[q[i]] : i \in 1..Len(q)}
  <2>1. S \in SUBSET Nat /\ Rank[q[1]] \in S
    BY <1>1
  <2>2. \A i \in 1..Len(q) : Rank[q[i]] \in S
    OBVIOUS
  <2>3. \A m \in S : \E i \in 1..Len(q) : m = Rank[q[i]]
    OBVIOUS
  <2> HIDE DEF S
  <2>4. PICK m \in S : \A l \in S : m <= l
    BY <2>1, Least
  <2> QED
    BY <2>2, <2>3, <2>4 DEF Members
<1>3. \E v \in Members(q) : \A i \in 1..Len(q) : Rank[v] >= Rank[q[i]]
  <2> DEFINE Top(n) == \E j \in 1..n : \A i \in 1..n : Rank[q[j]] >= Rank[q[i]]
             S == {n \in 1..Len(q) : ~Top(n)}
  <2>1. Top(1)
    <3>1. 1 \in 1..1 /\ \A i \in 1..1 : i = 1
      OBVIOUS
    <3>2. Rank[q[1]] >= Rank[q[1]]
      BY <1>1
    <3> QED
      BY <3>1, <3>2
  <2>2. ASSUME NEW n \in 1..Len(q), n # 1, Top(n - 1) PROVE Top(n)
    <3>1. PICK j \in 1..(n - 1) : \A i \in 1..(n - 1) : Rank[q[j]] >= Rank[q[i]]
      BY <2>2
    <3>2. /\ j \in 1..n /\ n \in 1..n
          /\ \A i \in 1..n : i \in 1..Len(q) /\ (i \in 1..(n - 1) \/ i = n)
      BY <1>1, <2>2
    <3>3. \A i \in 1..n : Rank[q[i]] \in Nat
      BY <1>1, <3>2
    <3>4. CASE Rank[q[j]] >= Rank[q[n]]
      BY <3>1, <3>2, <3>4
    <3>5. CASE ~(Rank[q[j]] >= Rank[q[n]])
      <4>1. ASSUME NEW i \in 1..n PROVE Rank[q[n]] >= Rank[q[i]]
        <5>1. i = n \/ Rank[q[j]] >= Rank[q[i]]
          BY <3>1, <3>2
        <5> QED
          BY <3>2, <3>3, <3>5, <5>1
      <4> QED
        BY <3>2, <4>1
    <3> QED
      BY <3>4, <3>5
  <2>3. S \in SUBSET Nat /\ \A n \in S : n \in 1..Len(q) /\ ~Top(n)
    OBVIOUS
  <2>4. \A n \in 1..Len(q) : n \notin S => Top(n)
    OBVIOUS
  <2> HIDE DEF S, Top
  <2>5. S = {}
    <3>1. SUFFICES ASSUME S # {} PROVE FALSE
      OBVIOUS
    <3>2. PICK n \in S : \A m \in S : n <= m
      BY <2>3, <3>1, Least
    <3>3. n \in 1..Len(q) /\ n # 1
      BY <2>1, <2>3, <3>2
    <3>4. n - 1 \in 1..Len(q) /\ ~(n <= n - 1)
      BY <1>1, <3>3
    <3> QED
      BY <2>2, <2>3, <2>4, <3>2, <3>3, <3>4
  <2>6. Top(Len(q))
    <3>1. Len(q) \in 1..Len(q)
      BY <1>1
    <3> QED
      BY <2>4, <2>5, <3>1
  <2> QED
    BY <2>6 DEF Top, Members
<1> QED
  BY <1>2, <1>3

LEMMA VictimRuns ==
  ASSUME running \in Seq(Requests), running # << >>
  PROVE  Victim \in Members(running)
<1>1. CASE conf.priority
  <2> DEFINE S == {running[i] : i \in 1..Len(running)}
             P(v) == \A i \in 1..Len(running) : Rank[v] >= Rank[running[i]]
  <2>1. \E v \in S : P(v)
    BY Extremes DEF Members
  <2>2. Victim = CHOOSE v \in S : P(v)
    BY <1>1 DEF Victim
  <2> HIDE DEF S, P
  <2>3. Victim \in S
    BY <2>1, <2>2
  <2> QED
    BY <2>3 DEF S, Members
<1>2. CASE ~conf.priority
  <2>1. Len(running) \in 1..Len(running)
    OBVIOUS
  <2> QED
    BY <1>2, <2>1 DEF Victim, Last, Members
<1> QED
  BY <1>1, <1>2

LEMMA PeekWaits ==
  ASSUME NEW q \in Seq(Requests), q # << >>
  PROVE  Peek(q) \in Members(q)
<1>1. CASE conf.priority
  <2> DEFINE S == {q[i] : i \in 1..Len(q)}
             P(v) == \A i \in 1..Len(q) : Rank[v] <= Rank[q[i]]
  <2>1. \E v \in S : P(v)
    BY Extremes DEF Members
  <2>2. Peek(q) = CHOOSE v \in S : P(v)
    BY <1>1 DEF Peek
  <2> HIDE DEF S, P
  <2>3. Peek(q) \in S
    BY <2>1, <2>2
  <2> QED
    BY <2>3 DEF S, Members
<1>2. CASE ~conf.priority
  <2>1. 1 \in 1..Len(q) /\ Head(q) = q[1]
    OBVIOUS
  <2> QED
    BY <1>2, <2>1 DEF Peek, Members
<1> QED
  BY <1>1, <1>2

LEMMA NextWaits ==
  ASSUME waiting \in Seq(Requests), skipped \in Seq(Requests), NEW r, NextWaiting(r)
  PROVE  r \in Members(waiting) \/ r \in Members(skipped)
<1>1. \/ waiting # << >> /\ r = Peek(waiting)
      \/ skipped # << >> /\ r = Peek(skipped)
  BY DEF NextWaiting
<1> QED
  BY <1>1, PeekWaits

-----------------------------------------------------------------------------
(* The books are kept *)

LEMMA InitLedger == Init => Ledger
<1> SUFFICES ASSUME Init PROVE Ledger
  OBVIOUS
<1>1. /\ status = [r \in Requests |-> "new"] /\ computed = NoTokens /\ output = NoTokens
      /\ spec = NoTokens /\ holes = NoTokens /\ inFlight = NoTokens /\ stale = NoTokens
      /\ known = NoTokens /\ dropStale = [r \in Requests |-> FALSE]
      /\ chunk = [r \in Requests |-> FALSE] /\ delivered = [r \in Requests |-> << >>]
      /\ budget = 0 /\ batch = NoBatch /\ steps = << >> /\ phase = "idle"
  BY DEF Init
<1>2. NoTokens \in [Requests -> Nat] /\ \A r \in Requests : NoTokens[r] = 0
  BY DEF NoTokens
<1>3. Numbers
  BY <1>1, <1>2, NoBatchType DEF Numbers
<1>4. Marks
  BY <1>1 DEF Marks, Building
<1>5. ASSUME NEW r \in Requests PROVE Sound(r)
  <2>1. /\ status[r] = "new" /\ computed[r] = 0 /\ output[r] = 0 /\ spec[r] = 0
        /\ holes[r] = 0 /\ inFlight[r] = 0 /\ stale[r] = 0 /\ delivered[r] = << >>
        /\ batch.n[r] = 0 /\ batch.fresh[r] = 0
    BY <1>1, <1>2, NoBatchType
  <2>2. Rows(r) = << >> /\ Len(Rows(r)) = 0
    BY <1>1 DEF Rows
  <2>3. 0 \in 0..Len(Rows(r)) /\ Entered(r, 0)
    <3>1. Tally(Rows(r), 0, 0, 0) /\ HolesOf(Rows(r), 0, 0)
      BY <2>2, SumOfNone DEF Tally, HolesOf
    <3>2. /\ Chained(Rows(r), 0, dropStale[r], stale[r], Total(r), known[r])
          /\ Quiet(Rows(r), 0)
      BY <2>2 DEF Chained, Quiet
    <3> QED
      BY <2>1, <2>2, <3>1, <3>2 DEF Entered
  <2>4. PromptLen[r] \in Nat /\ PromptLen[r] > 0 /\ PromptLen[r] < MaxModelLen /\ NumSpec \in Nat
    BY SizesAssumption, PromptsAssumption
  <2>5. Total(r) = PromptLen[r] /\ 0 \in 0..NumSpec /\ Len(delivered[r]) = 0
    BY <2>1, <2>4 DEF Total
  <2>6. Progress(r)
    BY <2>1, <2>4, <2>5 DEF Progress
  <2>7. Planned(r)
    BY <2>1 DEF Planned
  <2> QED
    BY <2>1, <2>3, <2>6, <2>7 DEF Sound, Books
<1> QED
  BY <1>3, <1>4, <1>5 DEF Ledger

\* A request that is preempted for want of blocks is running.
LEMMA VictimStatus ==
  ASSUME Shape, Control, NEW q, NEW r, PreemptVictim(q, r)
  PROVE  r \in Requests /\ status[r] = "running"
<1>1. running \in Seq(Requests) /\ phase = "running" /\ idx <= Len(running)
      /\ idx \in Nat \ {0} /\ r = Victim
  BY DEF PreemptVictim, NoRoom, Considered, Shape
<1>2. running # << >>
  BY <1>1
<1>3. PICK i \in 1..Len(running) : r = running[i]
  BY <1>1, <1>2, VictimRuns DEF Members
<1> QED
  BY <1>1, <1>3 DEF Control

LEMMA NextLedger ==
  ASSUME Shape, Control, Ledger, [Next]_vars PROVE Ledger'
<1>1. ASSUME NEW r \in Requests, Calls(r) PROVE Ledger'
  BY <1>1, StatusActionsLedger DEF Calls
<1>2. ASSUME NEW r \in Requests, RunningTurn(r) PROVE Ledger'
  <2>1. CASE PassRunning(r)
    BY <2>1, QuietActionsLedger
  <2>2. CASE ScheduleRunning(r)
    BY <2>2, ScheduleLedger
  <2>3. CASE \E v \in Requests : PreemptVictim(r, v)
    BY <2>3, VictimStatus, PreemptActionsLedger
  <2> QED
    BY <1>2, <2>1, <2>2, <2>3 DEF RunningTurn
<1>3. ASSUME NEW r \in Requests, WaitingTurn(r) PROVE Ledger'
  BY <1>3, QuietActionsLedger, StatusActionsLedger, AdmitLedger DEF WaitingTurn
<1>4. ASSUME NEW r \in Requests, UpdateRequest(r) PROVE Ledger'
  <2>1. CASE \E a \in 0..NumSpec : \E m \in 1..(a + 1), stop \in BOOLEAN :
               TokenOutput(r, a, m, stop)
    BY <2>1, TokenLedger
  <2> QED
    BY <1>4, <2>1, IgnoreLedger, ChunkLedger DEF UpdateRequest
<1>5. ASSUME ResetOne PROVE Ledger'
  <2>1. PICK r \in Requests : r = Last(running)
    BY <1>5 DEF ResetOne
  <2> QED
    BY <1>5, <2>1, PreemptActionsLedger
<1>6. ASSUME \/ BeginReset \/ EndReset \/ BeginSchedule \/ LeaveRunning \/ LeaveWaiting
             \/ UNCHANGED vars
      PROVE  Ledger'
  BY <1>6, QuietActionsLedger
<1>7. ASSUME FinishSchedule \/ BeginUpdate \/ EndUpdate PROVE Ledger'
  BY <1>7, FinishLedger, BeginUpdateLedger, EndUpdateLedger
<1> QED
  BY <1>1, <1>2, <1>3, <1>4, <1>5, <1>6, <1>7 DEF Next

LEMMA LedgerInvariant == Spec => []Ledger
<1>1. IInv => Shape /\ Control
  BY DEF IInv
<1>2. IInv /\ Ledger /\ [Next]_vars => Ledger'
  BY <1>1, NextLedger
<1> QED
  BY <1>2, InitLedger, Invariant, PTL DEF Spec

\* The tokens a request gets are those of its positions, each once and in their
\* order, through every preemption, resumption, rejected draft and late output.
THEOREM TokensInOrder == Spec => []OutputInOrder
<1>1. Ledger => OutputInOrder
  BY DEF Ledger, Sound, Progress, OutputInOrder
<1> QED
  BY <1>1, LedgerInvariant, PTL

LEMMA LedgerSettles ==
  ASSUME Ledger PROVE CountersSettle
<1> SUFFICES ASSUME phase = "idle", NEW r \in Requests, status[r] = "running", inFlight[r] = 0
             PROVE  holes[r] = 0 /\ computed[r] < Total(r)
  BY DEF CountersSettle
<1>1. Numbers /\ Books(r) /\ Progress(r)
  BY DEF Ledger, Sound
<1>2. PICK s \in 0..Len(Rows(r)) : Entered(r, s)
  BY <1>1 DEF Books
<1>3. Tally(Rows(r), s, inFlight[r], stale[r]) /\ HolesOf(Rows(r), s, holes[r])
  BY <1>2 DEF Entered, Live
<1>4. Rows(r) \in Seq(Row)
  BY <1>1, RowsType
<1>5. \A i \in 1..Len(Rows(r)) : Rows(r)[i].n = 0
  BY <1>3, <1>4, NothingInFlight DEF Tally
<1>6. holes[r] = 0
  BY <1>3, <1>4, <1>5, NothingOwed DEF Quiet
<1>7. computed[r] < Total(r) + 0
  BY <1>1, <1>6 DEF Progress
<1>8. Total(r) \in Int
  <2>1. output[r] \in Nat /\ PromptLen[r] \in Nat
    BY <1>1, SizesAssumption DEF Numbers
  <2> QED
    BY <2>1 DEF Total
<1> QED
  BY <1>6, <1>7, <1>8

\* A running request with nothing in flight waits for no token and has something
\* to compute: schedule() can always take it further.
THEOREM RequestsGoOn == Spec => []CountersSettle
BY LedgerSettles, LedgerInvariant, PTL

-----------------------------------------------------------------------------
(* Every request in its queue *)

Queued == Members(waiting) \cup Members(skipped) \cup Members(passed)
Having(S) == {r \in Requests : status[r] \in S}

\* The queues hold the requests of their status, and until the output being
\* processed is done with also those that it ended.
Lines ==
  /\ Line(running) /\ Line(waiting) /\ Line(skipped) /\ Line(passed)
  /\ Members(waiting) \cap Members(skipped) = {}
  /\ Members(passed) \cap (Members(waiting) \cup Members(skipped)) = {}
  /\ Having({"running"}) = Members(running) \ ended
  /\ Having({"waiting", "remote"}) = Queued \ ended
  /\ passed # << >> => phase \in {"waiting", "finish"}

LEMMA InitLines == Init => Lines
<1> SUFFICES ASSUME Init PROVE Lines
  OBVIOUS
<1>1. /\ running = << >> /\ waiting = << >> /\ skipped = << >> /\ passed = << >> /\ ended = {}
      /\ status = [r \in Requests |-> "new"]
  BY DEF Init
<1>2. Having({"running"}) = {} /\ Having({"waiting", "remote"}) = {}
  BY <1>1 DEF Having
<1> QED
  BY <1>1, <1>2, LineOfOne DEF Lines, Queued

\* Nobody enters or leaves a queue.
LEMMA QuietLines ==
  ASSUME Lines, UNCHANGED <<running, waiting, skipped, passed, ended>>,
         \A q \in Requests : status'[q] = "running" <=> status[q] = "running",
         \A q \in Requests :
           status'[q] \in {"waiting", "remote"} <=> status[q] \in {"waiting", "remote"},
         passed # << >> => phase' \in {"waiting", "finish"}
  PROVE  Lines'
<1>1. Having({"running"})' = Having({"running"})
  BY DEF Having
<1>2. Having({"waiting", "remote"})' = Having({"waiting", "remote"})
  BY DEF Having
<1>3. Queued' = Queued
  BY DEF Queued
<1> QED
  BY <1>1, <1>2, <1>3 DEF Lines

LEMMA QuietActionsLines ==
  ASSUME Shape, Control, Lines,
         \/ BeginReset \/ EndReset \/ BeginSchedule \/ LeaveRunning \/ LeaveWaiting
         \/ BeginUpdate \/ UNCHANGED vars
         \/ \E r \in Requests :
              \/ LoadDone(r) \/ LoadFails(r) \/ SendDone(r) \/ PassRunning(r)
              \/ ScheduleRunning(r) \/ Promote(r) \/ IgnoreOutput(r) \/ ChunkOutput(r)
              \/ \E a, m : TokenOutput(r, a, m, FALSE)
  PROVE  Lines'
<1>1. /\ passed # << >> => phase \in {"waiting", "finish"}
      /\ phase # "output" => ended = {}
      /\ status \in [Requests -> States]
  BY DEF Lines, Control, Shape
<1> USE DEF reqVars, queueVars, passVars, outVars
<1>2. CASE \/ BeginReset \/ EndReset \/ LeaveRunning \/ LeaveWaiting
           \/ UNCHANGED vars
  <2>1. /\ UNCHANGED <<status, running, waiting, skipped, passed, ended>>
        /\ passed # << >> => phase' \in {"waiting", "finish"}
    BY <1>1, <1>2 DEF BeginReset, EndReset, LeaveRunning, LeaveWaiting, vars
  <2> QED
    BY <2>1, QuietLines
<1>3. CASE BeginSchedule \/ BeginUpdate
  <2>1. phase = "idle" /\ ended = {} /\ passed = << >>
    BY <1>1, <1>3 DEF BeginSchedule, BeginUpdate
  <2>2. UNCHANGED <<status, running, waiting, skipped, passed, ended>>
    BY <1>3, <2>1 DEF BeginSchedule, BeginUpdate
  <2> QED
    BY <2>1, <2>2, QuietLines
<1>4. ASSUME NEW r \in Requests,
             \/ LoadFails(r) \/ PassRunning(r) \/ ScheduleRunning(r) \/ IgnoreOutput(r)
             \/ ChunkOutput(r) \/ \E a, m : TokenOutput(r, a, m, FALSE)
      PROVE  Lines'
  <2>1. /\ UNCHANGED <<status, running, waiting, skipped, passed, ended>>
        /\ phase' = phase
    BY <1>4 DEF LoadFails, PassRunning, ScheduleRunning, IgnoreOutput, ChunkOutput, TokenOutput
  <2> QED
    BY <1>1, <2>1, QuietLines
<1>5. ASSUME NEW r \in Requests, LoadDone(r) \/ SendDone(r) \/ Promote(r)
      PROVE  Lines'
  <2>1. UNCHANGED <<phase, running, waiting, skipped, passed, ended>>
    BY <1>5 DEF LoadDone, SendDone, Promote
  <2>2. \/ status' = status
        \/ status[r] = "finished" /\ status' = [status EXCEPT ![r] = "gone"]
        \/ status[r] = "remote" /\ status' = [status EXCEPT ![r] = "waiting"]
    BY <1>5 DEF LoadDone, SendDone, Promote
  <2>3. \A q \in Requests :
          /\ status'[q] = "running" <=> status[q] = "running"
          /\ status'[q] \in {"waiting", "remote"} <=> status[q] \in {"waiting", "remote"}
    BY <1>1, <2>2
  <2> QED
    BY <1>1, <2>1, <2>3, QuietLines
<1> QED
  BY <1>2, <1>3, <1>4, <1>5

LEMMA CallLines ==
  ASSUME Shape, Control, Lines, NEW r \in Requests, AddRequest(r) \/ Abort(r)
  PROVE  Lines'
<1>1. /\ Line(running) /\ Line(waiting) /\ Line(skipped) /\ Line(passed)
      /\ Members(waiting) \cap Members(skipped) = {}
      /\ Having({"running"}) = Members(running)
      /\ Having({"waiting", "remote"}) = Queued
      /\ status \in [Requests -> States]
      /\ phase = "idle" /\ phase' = "idle" /\ passed = << >> /\ passed' = << >>
      /\ ended = {} /\ ended' = {}
  <2>1. phase = "idle" /\ UNCHANGED <<phase, passed, ended>>
    BY DEF AddRequest, Abort, passVars, outVars
  <2>2. ended = {} /\ passed = << >>
    BY <2>1 DEF Control, Lines
  <2> QED
    BY <2>1, <2>2 DEF Shape, Lines
<1>2. Members(passed) = {} /\ Members(passed') = {} /\ Line(passed')
  BY <1>1, LineOfOne
<1>3. CASE AddRequest(r)
  <2>1. /\ UNCHANGED <<running, skipped>> /\ waiting' = Append(waiting, r)
        /\ status[r] = "new" /\ status' = [status EXCEPT ![r] = "waiting"]
    BY <1>3 DEF AddRequest
  <2>2. r \notin Members(waiting) /\ r \notin Members(skipped)
    <3>1. r \notin Having({"waiting", "remote"})
      BY <2>1 DEF Having
    <3> QED
      BY <1>1, <3>1 DEF Queued
  <2>3. Line(waiting') /\ Members(waiting') = Members(waiting) \cup {r}
    BY <1>1, <2>1, <2>2, LineAppend
  <2>4. /\ Having({"running"})' = Having({"running"})
        /\ Having({"waiting", "remote"})' = Having({"waiting", "remote"}) \cup {r}
    BY <1>1, <2>1 DEF Having
  <2>5. Queued' = Queued \cup {r}
    BY <1>2, <2>1, <2>3 DEF Queued
  <2> QED
    BY <1>1, <1>2, <2>1, <2>2, <2>3, <2>4, <2>5 DEF Lines
<1>4. CASE Abort(r)
  <2>1. /\ running' = Without(running, {r}) /\ waiting' = Without(waiting, {r})
        /\ skipped' = Without(skipped, {r})
        /\ \E t \in {"gone", "finished"} : status' = [status EXCEPT ![r] = t]
    BY <1>4 DEF Abort
  <2>2. /\ Line(running') /\ Members(running') = Members(running) \ {r}
        /\ Line(waiting') /\ Members(waiting') = Members(waiting) \ {r}
        /\ Line(skipped') /\ Members(skipped') = Members(skipped) \ {r}
    BY <1>1, <2>1, LineWithout
  <2>3. /\ Having({"running"})' = Having({"running"}) \ {r}
        /\ Having({"waiting", "remote"})' = Having({"waiting", "remote"}) \ {r}
    BY <1>1, <2>1 DEF Having
  <2>4. Queued' = Queued \ {r}
    BY <1>2, <2>2 DEF Queued
  <2> QED
    BY <1>1, <1>2, <2>2, <2>3, <2>4 DEF Lines
<1> QED
  BY <1>3, <1>4

LEMMA PreemptLines ==
  ASSUME Shape, Control, Lines, NEW r \in Requests, NEW drop, Preempt(r, drop),
         status[r] = "running", phase # "output", UNCHANGED <<passed, ended>>,
         passed # << >> => phase' \in {"waiting", "finish"}
  PROVE  Lines'
<1>1. /\ running' = Without(running, {r}) /\ waiting' = <<r>> \o waiting
      /\ skipped' = skipped /\ status' = [status EXCEPT ![r] = "waiting"]
  BY DEF Preempt
<1>2. /\ Line(running) /\ Line(waiting) /\ Line(skipped) /\ Line(passed)
      /\ Members(waiting) \cap Members(skipped) = {}
      /\ Members(passed) \cap (Members(waiting) \cup Members(skipped)) = {}
      /\ Having({"running"}) = Members(running)
      /\ Having({"waiting", "remote"}) = Queued
      /\ status \in [Requests -> States] /\ ended = {} /\ ended' = {}
  BY DEF Shape, Control, Lines
<1>3. r \notin Queued
  <2>1. r \notin Having({"waiting", "remote"})
    BY DEF Having
  <2> QED
    BY <1>2, <2>1
<1>4. Line(running') /\ Members(running') = Members(running) \ {r}
  BY <1>1, <1>2, LineWithout
<1>5. Line(waiting') /\ Members(waiting') = {r} \cup Members(waiting)
  <2>1. Line(<<r>>) /\ Members(<<r>>) = {r} /\ Members(<<r>>) \cap Members(waiting) = {}
    BY <1>3, LineOfOne DEF Queued
  <2> QED
    BY <1>1, <1>2, <2>1, LineConcat
<1>6. /\ Having({"running"})' = Having({"running"}) \ {r}
      /\ Having({"waiting", "remote"})' = Having({"waiting", "remote"}) \cup {r}
  BY <1>1, <1>2 DEF Having
<1>7. Queued' = Queued \cup {r}
  BY <1>1, <1>5 DEF Queued
<1>8. /\ Members(waiting') \cap Members(skipped') = {} /\ passed' = passed
      /\ Members(passed') \cap (Members(waiting') \cup Members(skipped')) = {}
  BY <1>1, <1>2, <1>3, <1>5 DEF Queued
<1>9. /\ Having({"running"})' = Members(running') \ ended'
      /\ Having({"waiting", "remote"})' = Queued' \ ended'
  BY <1>2, <1>4, <1>6, <1>7
<1>10. Line(running') /\ Line(waiting') /\ Line(skipped') /\ Line(passed')
  BY <1>1, <1>2, <1>4, <1>5, <1>8
<1> QED
  BY <1>8, <1>9, <1>10 DEF Lines

LEMMA PreemptActionsLines ==
  ASSUME Shape, Control, Lines, NEW r \in Requests,
         \/ ResetOne /\ r = Last(running)
         \/ \E q \in Requests : PreemptVictim(q, r)
  PROVE  Lines'
<1>1. CASE ResetOne /\ r = Last(running)
  <2>1. /\ phase = "reset" /\ phase' = "reset" /\ running # << >> /\ Preempt(r, TRUE)
        /\ UNCHANGED <<passed, ended>>
    BY <1>1 DEF ResetOne, passVars, outVars
  <2>2. status[r] = "running"
    <3>1. running \in Seq(Requests) /\ Len(running) \in 1..Len(running)
      BY <2>1 DEF Shape
    <3>2. ended = {}
      BY <2>1 DEF Control
    <3> QED
      BY <1>1, <3>1, <3>2 DEF Control, Last
  <2>3. passed = << >>
    BY <2>1 DEF Lines
  <2> QED
    BY <2>1, <2>2, <2>3, PreemptLines
<1>2. CASE \E q \in Requests : PreemptVictim(q, r)
  <2>1. PICK q \in Requests : PreemptVictim(q, r)
    BY <1>2
  <2>2. /\ phase = "running" /\ Preempt(r, conf.drop) /\ UNCHANGED <<passed, ended>>
    BY <2>1 DEF PreemptVictim, NoRoom, Considered, outVars
  <2>3. passed = << >>
    BY <2>2 DEF Lines
  <2> QED
    BY <2>1, <2>2, <2>3, VictimStatus, PreemptLines
<1> QED
  BY <1>1, <1>2

\* The request the loop is at leaves the queue it waits in.
LEMMA OfferedLeaves ==
  ASSUME Control, Lines, NEW r \in Requests, Offered(r),
         waiting' = Without(waiting, {r}), skipped' = Without(skipped, {r})
  PROVE  /\ Line(waiting') /\ Members(waiting') = Members(waiting) \ {r}
         /\ Line(skipped') /\ Members(skipped') = Members(skipped) \ {r}
         /\ r \in Members(waiting) \cup Members(skipped)
         /\ r \notin Members(passed) /\ ended = {}
<1>1. /\ Line(waiting) /\ Line(skipped) /\ phase = "waiting" /\ NextWaiting(r)
      /\ Members(passed) \cap (Members(waiting) \cup Members(skipped)) = {}
  BY DEF Lines, Offered
<1>2. r \in Members(waiting) \cup Members(skipped)
  BY <1>1, NextWaits DEF Line
<1> QED
  BY <1>1, <1>2, LineWithout DEF Control

LEMMA AsideLines ==
  ASSUME Shape, Control, Lines, NEW r \in Requests, PassWaiting(r) \/ AdmitLoad(r)
  PROVE  Lines'
<1>1. /\ Offered(r) /\ passed' = Append(passed, r)
      /\ waiting' = Without(waiting, {r}) /\ skipped' = Without(skipped, {r})
      /\ UNCHANGED <<phase, running, ended>> /\ phase = "waiting"
      /\ status[r] \in {"waiting", "remote"}
      /\ status' = status \/ status' = [status EXCEPT ![r] = "remote"]
  BY DEF PassWaiting, AdmitLoad, SetAside, Offered, reqVars, outVars
<1>2. /\ Line(waiting') /\ Members(waiting') = Members(waiting) \ {r}
      /\ Line(skipped') /\ Members(skipped') = Members(skipped) \ {r}
      /\ r \in Members(waiting) \cup Members(skipped)
      /\ r \notin Members(passed)
  BY <1>1, OfferedLeaves
<1>3. Line(passed') /\ Members(passed') = Members(passed) \cup {r}
  BY <1>1, <1>2, LineAppend DEF Lines
<1>4. status \in [Requests -> States]
  BY DEF Shape
<1>5. /\ Having({"running"})' = Having({"running"})
      /\ Having({"waiting", "remote"})' = Having({"waiting", "remote"})
  BY <1>1, <1>4 DEF Having
<1>6. Queued' = Queued
  BY <1>2, <1>3 DEF Queued
<1> QED
  BY <1>1, <1>2, <1>3, <1>5, <1>6 DEF Lines

LEMMA AdmitLines ==
  ASSUME Shape, Control, Lines, NEW r \in Requests, Admit(r)
  PROVE  Lines'
<1>1. /\ Offered(r) /\ running' = Append(running, r)
      /\ waiting' = Without(waiting, {r}) /\ skipped' = Without(skipped, {r})
      /\ UNCHANGED <<phase, passed, ended>> /\ phase = "waiting" /\ status[r] = "waiting"
      /\ status' = [status EXCEPT ![r] = "running"]
  BY DEF Admit, Offered, outVars
<1>2. /\ Line(waiting') /\ Members(waiting') = Members(waiting) \ {r}
      /\ Line(skipped') /\ Members(skipped') = Members(skipped) \ {r}
      /\ r \in Members(waiting) \cup Members(skipped)
      /\ r \notin Members(passed) /\ ended = {}
  BY <1>1, OfferedLeaves
<1>3. r \notin Members(running)
  <2>1. r \notin Having({"running"})
    BY <1>1 DEF Having
  <2> QED
    BY <1>2, <2>1 DEF Lines
<1>4. Line(running') /\ Members(running') = Members(running) \cup {r}
  BY <1>1, <1>3, LineAppend DEF Lines
<1>5. status \in [Requests -> States]
  BY DEF Shape
<1>6. /\ Having({"running"})' = Having({"running"}) \cup {r}
      /\ Having({"waiting", "remote"})' = Having({"waiting", "remote"}) \ {r}
  BY <1>1, <1>5 DEF Having
<1>7. Queued' = Queued \ {r}
  BY <1>1, <1>2 DEF Queued
<1> QED
  BY <1>1, <1>2, <1>4, <1>6, <1>7 DEF Lines

LEMMA FinishLines ==
  ASSUME Lines, FinishSchedule PROVE Lines'
<1>1. /\ skipped' = passed \o skipped /\ passed' = << >>
      /\ UNCHANGED <<status, running, waiting, ended>>
  BY DEF FinishSchedule, outVars
<1>2. Line(skipped') /\ Members(skipped') = Members(passed) \cup Members(skipped)
  BY <1>1, LineConcat DEF Lines
<1>3. Line(passed') /\ Members(passed') = {}
  BY <1>1, LineOfOne
<1>4. Having({"running"})' = Having({"running"})
      /\ Having({"waiting", "remote"})' = Having({"waiting", "remote"})
  BY <1>1 DEF Having
<1>5. Queued' = Queued
  BY <1>1, <1>2, <1>3 DEF Queued
<1> QED
  BY <1>1, <1>2, <1>3, <1>4, <1>5 DEF Lines

LEMMA StopLines ==
  ASSUME Shape, Lines, NEW r \in Requests, NEW a, NEW m, TokenOutput(r, a, m, TRUE)
  PROVE  Lines'
<1>1. /\ UNCHANGED <<phase, running, waiting, skipped, passed>> /\ ended' = ended \cup {r}
      /\ \E t \in {"gone", "finished"} : status' = [status EXCEPT ![r] = t]
  BY DEF TokenOutput, passVars
<1>2. status \in [Requests -> States]
  BY DEF Shape
<1>3. /\ Having({"running"})' = Having({"running"}) \ {r}
      /\ Having({"waiting", "remote"})' = Having({"waiting", "remote"}) \ {r}
  BY <1>1, <1>2 DEF Having
<1>4. Queued' = Queued
  BY <1>1 DEF Queued
<1> QED
  BY <1>1, <1>3, <1>4 DEF Lines

LEMMA EndUpdateLines ==
  ASSUME Lines, EndUpdate PROVE Lines'
<1>1. /\ running' = Without(running, ended) /\ waiting' = Without(waiting, ended)
      /\ skipped' = Without(skipped, ended) /\ ended' = {} /\ phase = "output"
      /\ UNCHANGED <<status, passed>>
  BY DEF EndUpdate, reqVars, passVars
<1>2. passed = << >>
  BY <1>1 DEF Lines
<1>3. /\ Line(running') /\ Members(running') = Members(running) \ ended
      /\ Line(waiting') /\ Members(waiting') = Members(waiting) \ ended
      /\ Line(skipped') /\ Members(skipped') = Members(skipped) \ ended
  BY <1>1, LineWithout DEF Lines
<1>4. Members(passed) = {} /\ Members(passed') = {} /\ Line(passed')
  BY <1>1, <1>2, LineOfOne
<1>5. Having({"running"})' = Having({"running"})
      /\ Having({"waiting", "remote"})' = Having({"waiting", "remote"})
  BY <1>1 DEF Having
<1>6. Queued' = Queued \ ended
  BY <1>3, <1>4 DEF Queued
<1> QED
  BY <1>1, <1>2, <1>3, <1>4, <1>5, <1>6 DEF Lines

LEMMA NextLines ==
  ASSUME Shape, Control, Lines, [Next]_vars PROVE Lines'
<1>1. ASSUME NEW r \in Requests, Calls(r) PROVE Lines'
  BY <1>1, CallLines, QuietActionsLines DEF Calls
<1>2. ASSUME NEW r \in Requests, RunningTurn(r) PROVE Lines'
  <2>1. CASE \E v \in Requests : PreemptVictim(r, v)
    BY <2>1, PreemptActionsLines
  <2> QED
    BY <1>2, <2>1, QuietActionsLines DEF RunningTurn
<1>3. ASSUME NEW r \in Requests, WaitingTurn(r) PROVE Lines'
  BY <1>3, QuietActionsLines, AsideLines, AdmitLines DEF WaitingTurn
<1>4. ASSUME NEW r \in Requests, UpdateRequest(r) PROVE Lines'
  <2>1. ASSUME NEW a, NEW m, NEW stop \in BOOLEAN, TokenOutput(r, a, m, stop)
        PROVE  Lines'
    <3>1. CASE stop = TRUE
      BY <2>1, <3>1, StopLines
    <3>2. CASE stop = FALSE
      BY <2>1, <3>2, QuietActionsLines
    <3> QED
      BY <3>1, <3>2
  <2>2. CASE IgnoreOutput(r) \/ ChunkOutput(r)
    BY <2>2, QuietActionsLines
  <2> QED
    BY <1>4, <2>1, <2>2 DEF UpdateRequest
<1>5. ASSUME ResetOne PROVE Lines'
  <2>1. PICK r \in Requests : r = Last(running)
    BY <1>5 DEF ResetOne
  <2> QED
    BY <1>5, <2>1, PreemptActionsLines
<1>6. ASSUME \/ BeginReset \/ EndReset \/ BeginSchedule \/ LeaveRunning \/ LeaveWaiting
             \/ BeginUpdate \/ UNCHANGED vars
      PROVE  Lines'
  BY <1>6, QuietActionsLines
<1>7. ASSUME FinishSchedule \/ EndUpdate PROVE Lines'
  BY <1>7, FinishLines, EndUpdateLines
<1> QED
  BY <1>1, <1>2, <1>3, <1>4, <1>5, <1>6, <1>7 DEF Next

LEMMA LinesInvariant == Spec => []Lines
<1>1. IInv => Shape /\ Control
  BY DEF IInv
<1>2. IInv /\ Lines /\ [Next]_vars => Lines'
  BY <1>1, NextLines
<1> QED
  BY <1>2, InitLines, Invariant, PTL DEF Spec

LEMMA CountInLine ==
  ASSUME NEW q, Line(q), NEW r
  PROVE  Cardinality({i \in 1..Len(q) : q[i] = r}) = IF r \in Members(q) THEN 1 ELSE 0
<1> DEFINE S == {i \in 1..Len(q) : q[i] = r}
<1>1. CASE r \in Members(q)
  <2>1. PICK i \in 1..Len(q) : r = q[i]
    BY <1>1 DEF Members
  <2>2. S = {i}
    BY <2>1 DEF Line
  <2> QED
    BY <1>1, <2>2, FS_Singleton
<1>2. CASE r \notin Members(q)
  <2>1. S = {}
    BY <1>2 DEF Members
  <2> QED
    BY <1>2, <2>1, FS_EmptySet
<1> QED
  BY <1>1, <1>2

LEMMA LinesAgree ==
  ASSUME Shape, Control, Lines PROVE QueuesAgree
<1> SUFFICES ASSUME phase # "output", NEW r \in Requests
             PROVE  Places(r) = CASE status[r] = "running" -> <<1, 0>>
                                  [] status[r] \in {"waiting", "remote"} -> <<0, 1>>
                                  [] OTHER -> <<0, 0>>
  BY DEF QueuesAgree
<1> DEFINE in(q) == IF r \in Members(q) THEN 1 ELSE 0
<1>1. ended = {}
  BY DEF Control
<1>2. r \in Members(running) <=> status[r] = "running"
  <2>1. r \in Having({"running"}) <=> r \in Members(running)
    BY <1>1 DEF Lines
  <2> QED
    BY <2>1 DEF Having
<1>3. r \in Members(waiting) \cup Members(skipped) \cup Members(passed)
        <=> status[r] \in {"waiting", "remote"}
  <2>1. r \in Having({"waiting", "remote"}) <=> r \in Queued
    BY <1>1 DEF Lines
  <2> QED
    BY <2>1 DEF Having, Queued
<1>4. Places(r) = <<in(running), in(waiting) + in(skipped) + in(passed)>>
  <2>1. Line(running) /\ Line(waiting) /\ Line(skipped) /\ Line(passed)
    BY DEF Lines
  <2> QED
    BY <2>1, CountInLine DEF Places
<1>5. /\ ~(r \in Members(waiting) /\ r \in Members(skipped))
      /\ ~(r \in Members(passed) /\ r \in Members(waiting) \cup Members(skipped))
  BY DEF Lines
<1>6. in(waiting) + in(skipped) + in(passed)
        = IF status[r] \in {"waiting", "remote"} THEN 1 ELSE 0
  BY <1>3, <1>5
<1>7. in(running) = IF status[r] = "running" THEN 1 ELSE 0
  BY <1>2
<1> QED
  BY <1>4, <1>6, <1>7

\* A request is in the queue its status says, once: never lost between two
\* queues, never scheduled from two of them.
THEOREM QueuesMatchStatus == Spec => []QueuesAgree
<1>1. IInv => Shape /\ Control
  BY DEF IInv
<1> QED
  BY <1>1, LinesAgree, LinesInvariant, Invariant, PTL

-----------------------------------------------------------------------------
(* The loads of the connector *)

\* A load still running has blocks no step writes; one that was reported ended
\* belongs to a request that still waits for it.
Loads ==
  /\ loading \subseteq Requests /\ recvd \subseteq Requests
  /\ loading # {} => conf.defer
  /\ \A r \in recvd : status[r] = "remote" /\ r \notin loading
  /\ LoadKeepsBlocks

LEMMA InitLoads == Init => Loads
BY DEF Init, Loads, LoadKeepsBlocks

LEMMA SameInFlight ==
  ASSUME steps' = steps, (phase = "output") <=> (phase' = "output")
  PROVE  InFlight' = InFlight
BY DEF InFlight

\* What a load that goes on needs of a step.
Loading(q) ==
  /\ status'[q] \in {"remote", "finished"} /\ held'[q] = held[q]
  /\ \A i \in InFlight' :
       \/ steps'[i].writes[q] = {}
       \/ \E j \in InFlight : steps'[i].writes[q] = steps[j].writes[q]

LEMMA LoadsGoOn ==
  ASSUME Loads, conf' = conf, loading' \subseteq loading, recvd' \subseteq Requests,
         \A q \in loading' : Loading(q),
         \A q \in recvd' : status'[q] = "remote" /\ q \notin loading'
  PROVE  Loads'
<1>1. ASSUME NEW q \in loading'
      PROVE  /\ status'[q] \in {"remote", "finished"} /\ held'[q] # {}
             /\ \A i \in InFlight' : steps'[i].writes[q] \cap held'[q] = {}
  <2>1. q \in loading /\ Loading(q)
    BY <1>1
  <2>2. held[q] # {} /\ \A j \in InFlight : steps[j].writes[q] \cap held[q] = {}
    BY <2>1 DEF Loads, LoadKeepsBlocks
  <2> QED
    BY <2>1, <2>2 DEF Loading
<1>2. LoadKeepsBlocks'
  BY <1>1 DEF LoadKeepsBlocks
<1> QED
  BY <1>2 DEF Loads

\* Blocks and status of one request change, and it loads nothing.
LEMMA StepLoads ==
  ASSUME Shape, Loads, NEW r, Step(r), loading' \subseteq loading, recvd' \subseteq recvd,
         r \in Requests => r \notin loading' /\ r \notin recvd'
  PROVE  Loads'
<1>1. /\ conf' = conf /\ steps' = steps /\ InFlight' = InFlight
      /\ \A q \in Requests : q # r => status'[q] = status[q] /\ held'[q] = held[q]
  <2>1. \A q \in Requests : q # r => held'[q] = held[q]
    BY MovesFrame DEF Step, blockVars
  <2> QED
    BY <2>1, SameInFlight DEF Step
<1>2. /\ loading \subseteq Requests /\ recvd \subseteq Requests
      /\ \A q \in recvd : status[q] = "remote" /\ q \notin loading
      /\ \A q \in loading : status[q] \in {"remote", "finished"}
  BY DEF Loads, LoadKeepsBlocks
<1>3. \A q \in loading' : Loading(q)
  BY <1>1, <1>2 DEF Loading
<1>4. \A q \in recvd' : status'[q] = "remote" /\ q \notin loading'
  BY <1>1, <1>2
<1> QED
  BY <1>1, <1>2, <1>3, <1>4, LoadsGoOn

\* A request that is scheduled or can be loads nothing.
LEMMA NotLoading ==
  ASSUME Loads, NEW r, status[r] \notin {"remote", "finished"}
  PROVE  r \notin loading /\ r \notin recvd
BY DEF Loads, LoadKeepsBlocks

\* No block moves.
LEMMA StillLoads ==
  ASSUME Loads, conf' = conf, steps' = steps, held' = held,
         (phase = "output") <=> (phase' = "output"),
         loading' \subseteq loading, recvd' \subseteq Requests,
         \A q \in loading' : status'[q] \in {"remote", "finished"},
         \A q \in recvd' : status'[q] = "remote" /\ q \notin loading'
  PROVE  Loads'
<1>1. InFlight' = InFlight
  BY SameInFlight
<1>2. \A q \in loading' : Loading(q)
  BY <1>1 DEF Loading
<1> QED
  BY <1>2, LoadsGoOn

LEMMA QuietActionsLoads ==
  ASSUME Loads,
         \/ BeginReset \/ EndReset \/ BeginSchedule \/ LeaveRunning \/ LeaveWaiting
         \/ UNCHANGED vars
         \/ \E r \in Requests :
              PassRunning(r) \/ PassWaiting(r) \/ IgnoreOutput(r) \/ ChunkOutput(r)
  PROVE  Loads'
<1>1. /\ \A q \in loading : status[q] \in {"remote", "finished"}
      /\ \A q \in recvd : status[q] = "remote" /\ q \notin loading
      /\ recvd \subseteq Requests
  BY DEF Loads, LoadKeepsBlocks
<1>2. /\ conf' = conf /\ steps' = steps /\ held' = held
      /\ (phase = "output") <=> (phase' = "output")
      /\ UNCHANGED <<status, loading, recvd>>
  <2> USE DEF reqVars, blockVars, kvVars
  <2>1. CASE BeginReset \/ EndReset \/ BeginSchedule \/ LeaveRunning \/ LeaveWaiting
    BY <2>1 DEF BeginReset, EndReset, BeginSchedule, LeaveRunning, LeaveWaiting
  <2>2. CASE UNCHANGED vars
    BY <2>2 DEF vars
  <2>3. ASSUME NEW r \in Requests,
               PassRunning(r) \/ PassWaiting(r) \/ IgnoreOutput(r) \/ ChunkOutput(r)
        PROVE  /\ conf' = conf /\ steps' = steps /\ held' = held /\ phase' = phase
               /\ UNCHANGED <<status, loading, recvd>>
    BY <2>3 DEF PassRunning, PassWaiting, IgnoreOutput, ChunkOutput
  <2> QED
    BY <2>1, <2>2, <2>3
<1> QED
  BY <1>1, <1>2, StillLoads

LEMMA CallLoads ==
  ASSUME Shape, Control, Loads, NEW r \in Requests, Calls(r) PROVE Loads'
<1>1. /\ \A q \in loading : status[q] \in {"remote", "finished"}
      /\ \A q \in recvd : status[q] = "remote" /\ q \notin loading
      /\ recvd \subseteq Requests /\ status \in [Requests -> States]
  BY DEF Loads, LoadKeepsBlocks, Shape
<1>2. CASE AddRequest(r)
  <2>1. status[r] = "new" /\ UNCHANGED <<loading, recvd>>
    BY <1>2 DEF AddRequest, kvVars
  <2> QED
    BY <1>2, <2>1, CallActions, NotLoading, StepLoads
<1>3. CASE Abort(r) /\ LoadEnded(r)
  <2>1. loading' = loading /\ recvd' = recvd \ {r} /\ status[r] \in {"waiting", "remote", "running"}
    BY <1>3 DEF Abort
  <2>2. r \notin loading
    <3>1. status[r] = "remote" => r \in recvd
      BY <1>3 DEF LoadEnded
    <3> QED
      BY <1>1, <2>1, <3>1
  <2>3. Step(r)
    BY <1>3, CallActions
  <2>4. loading' \subseteq loading /\ recvd' \subseteq recvd /\ r \notin loading' /\ r \notin recvd'
    BY <2>1, <2>2
  <2> QED
    BY <2>3, <2>4, StepLoads
<1>4. CASE Abort(r) /\ ~LoadEnded(r)
  <2>1. /\ UNCHANGED <<conf, phase, steps, loading, blockVars>> /\ recvd' = recvd \ {r}
        /\ status' = [status EXCEPT ![r] = "finished"]
    BY <1>4 DEF Abort
  <2> QED
    BY <1>1, <2>1, StillLoads DEF blockVars
<1>5. CASE LoadDone(r)
  <2>1. r \in loading /\ loading' = loading \ {r} /\ UNCHANGED <<conf, phase, steps>>
    BY <1>5 DEF LoadDone
  <2>2. CASE status[r] = "remote" /\ recvd' = recvd \cup {r} /\ UNCHANGED <<status, blockVars>>
    BY <1>1, <2>1, <2>2, StillLoads DEF blockVars
  <2>3. CASE status[r] = "finished" /\ UNCHANGED recvd
    <3>1. Step(r)
      BY <1>5, CallActions
    <3>2. loading' \subseteq loading /\ recvd' \subseteq recvd /\ r \notin loading' /\ r \notin recvd'
      BY <1>1, <2>1, <2>3
    <3> QED
      BY <3>1, <3>2, StepLoads
  <2> QED
    BY <1>5, <2>2, <2>3 DEF LoadDone
<1>6. CASE LoadFails(r)
  <2>1. /\ loading' = loading \ {r} /\ recvd' = recvd \cup {r} /\ status[r] = "remote"
        /\ UNCHANGED <<conf, phase, steps, status, blockVars>>
    BY <1>6 DEF LoadFails
  <2> QED
    BY <1>1, <2>1, StillLoads DEF blockVars
<1>7. CASE SendDone(r)
  <2>1. status[r] = "finished" /\ r \notin loading /\ UNCHANGED <<loading, recvd>>
    BY <1>7 DEF SendDone, kvVars
  <2>2. Step(r)
    BY <1>7, CallActions
  <2>3. loading' \subseteq loading /\ recvd' \subseteq recvd /\ r \notin loading' /\ r \notin recvd'
    BY <1>1, <2>1
  <2> QED
    BY <2>2, <2>3, StepLoads
<1> QED
  BY <1>2, <1>3, <1>4, <1>5, <1>6, <1>7 DEF Calls

LEMMA TurnLoads ==
  ASSUME Shape, Control, Loads, NEW r \in Requests,
         \/ ScheduleRunning(r) \/ Promote(r) \/ Admit(r)
         \/ \E q \in Requests : PreemptVictim(q, r)
         \/ ResetOne /\ r = Last(running)
  PROVE  Loads'
<1>1. CASE ScheduleRunning(r)
  <2>1. status[r] = "running"
    <3>1. phase = "running" /\ r = running[idx] /\ idx <= Len(running)
      BY <1>1 DEF ScheduleRunning, Considered
    <3>2. idx \in 1..Len(running) /\ ended = {}
      BY <3>1 DEF Shape, Control
    <3> QED
      BY <3>1, <3>2 DEF Control
  <2>2. UNCHANGED <<loading, recvd>>
    BY <1>1 DEF ScheduleRunning, kvVars
  <2> QED
    BY <1>1, <2>1, <2>2, ScheduleStep, NotLoading, StepLoads
<1>2. CASE Promote(r)
  <2>1. r \in recvd /\ loading' = loading /\ recvd' = recvd \ {r}
    BY <1>2 DEF Promote
  <2>2. r \notin loading
    BY <2>1 DEF Loads
  <2>3. Step(r)
    BY <1>2, AdmitActions
  <2> QED
    BY <2>1, <2>2, <2>3, StepLoads
<1>3. CASE Admit(r)
  <2>1. status[r] = "waiting" /\ UNCHANGED <<loading, recvd>>
    BY <1>3 DEF Admit, kvVars
  <2> QED
    BY <1>3, <2>1, AdmitActions, NotLoading, StepLoads
<1>4. CASE \E q \in Requests : PreemptVictim(q, r)
  <2>1. status[r] = "running" /\ UNCHANGED <<loading, recvd>>
    BY <1>4, VictimStatus DEF PreemptVictim, kvVars
  <2> QED
    BY <1>4, <2>1, PreemptActions, NotLoading, StepLoads
<1>5. CASE ResetOne /\ r = Last(running)
  <2>1. /\ phase = "reset" /\ running # << >> /\ Preempt(r, TRUE)
        /\ UNCHANGED <<conf, phase, passVars, outVars, steps, loading, recvd>>
    BY <1>5 DEF ResetOne, kvVars
  <2>2. status[r] = "running"
    <3>1. running \in Seq(Requests) /\ Len(running) \in 1..Len(running)
      BY <2>1 DEF Shape
    <3>2. ended = {}
      BY <2>1 DEF Control
    <3> QED
      BY <1>5, <3>1, <3>2 DEF Control, Last
  <2>3. Step(r)
    BY <2>1, PreemptActions
  <2> QED
    BY <2>1, <2>2, <2>3, NotLoading, StepLoads
<1> QED
  BY <1>1, <1>2, <1>3, <1>4, <1>5

LEMMA TokenLoads ==
  ASSUME Shape, Control, Ledger, Loads, NEW r \in Requests, NEW a \in 0..NumSpec,
         NEW m \in 1..(a + 1), NEW stop \in BOOLEAN, TokenOutput(r, a, m, stop)
  PROVE  Loads'
<1>1. status[r] # "remote"
  BY TokenLedger
<1>2. status[r] # "finished" /\ UNCHANGED <<loading, recvd>>
  BY DEF TokenOutput, kvVars
<1>3. a \in Int /\ m \in Int
  BY Constants
<1>4. Step(r)
  BY <1>3, TokenStep
<1> QED
  BY <1>1, <1>2, <1>4, NotLoading, StepLoads

-----------------------------------------------------------------------------
(* A load is admitted *)

LEMMA CdivPositive ==
  ASSUME NEW a \in Nat \ {0}, NEW b \in Nat \ {0} PROVE Cdiv(a, b) \in Nat /\ Cdiv(a, b) >= 1
<1> DEFINE d == (a + b - 1) \div b
<1>1. a + b - 1 = (b - 1) + a /\ a + b - 1 \in Nat
  OBVIOUS
<1>2. d \in Int
  OBVIOUS
<1>3. d >= 1
  OBVIOUS
<1> QED
  BY <1>2, <1>3 DEF Cdiv

LEMMA LoadGetsBlocks ==
  ASSUME Shape, NEW r \in Requests, RemoteHit[r] > 0, Allocate(r, RemoteHit[r])
  PROVE  held'[r] # {}
<1>1. PICK B \in SUBSET pool :
        Cardinality(B) = Missing(r, RemoteHit[r]) /\ held' = [held EXCEPT ![r] = @ \cup B]
  BY DEF Allocate
<1>2. held'[r] = held[r] \cup B
  BY <1>1 DEF Shape
<1>3. CASE held[r] = {}
  <2> DEFINE n == Min2(RemoteHit[r], MaxModelLen)
  <2>1. BlockSize \in Nat \ {0} /\ n \in Nat \ {0}
    <3>1. /\ MaxModelLen \in Nat /\ PromptLen[r] \in Nat \ {0} /\ RemoteHit[r] \in Nat
          /\ PromptLen[r] < MaxModelLen
      BY SizesAssumption, PromptsAssumption
    <3> QED
      BY <3>1, SizesAssumption DEF Min2
  <2>2. Cdiv(n, BlockSize) \in Nat /\ Cdiv(n, BlockSize) >= 1
    BY <2>1, CdivPositive
  <2>3. Cardinality(held[r]) = 0
    BY <1>3, FS_EmptySet
  <2>4. Missing(r, RemoteHit[r]) # 0
    BY <2>2, <2>3 DEF Missing
  <2>5. B # {}
    BY <1>1, <2>4, FS_EmptySet
  <2> QED
    BY <1>2, <2>5
<1> QED
  BY <1>2, <1>3

LEMMA AdmitLoads ==
  ASSUME Shape, Control, Loads, Fenced', NEW r \in Requests, AdmitLoad(r) PROVE Loads'
<1>1. /\ UNCHANGED <<phase, steps, conf, recvd>> /\ loading' = loading \cup {r}
      /\ status[r] = "waiting" /\ status' = [status EXCEPT ![r] = "remote"]
      /\ conf.defer /\ RemoteHit[r] > 0 /\ Allocate(r, RemoteHit[r])
  BY DEF AdmitLoad, Loadable
<1>2. status \in [Requests -> States] /\ conf.defer
  BY <1>1 DEF Shape
<1>3. InFlight' = InFlight
  BY <1>1, SameInFlight
<1>4. \A q \in Requests : q # r => status'[q] = status[q] /\ held'[q] = held[q]
  BY <1>1, <1>2, AllocateTakes, MovesFrame DEF Moves
<1>5. /\ loading \subseteq Requests /\ recvd \subseteq Requests
      /\ \A q \in recvd : status[q] = "remote" /\ q \notin loading
      /\ \A q \in loading : /\ status[q] \in {"remote", "finished"} /\ held[q] # {}
                            /\ \A i \in InFlight : steps[i].writes[q] \cap held[q] = {}
  BY DEF Loads, LoadKeepsBlocks
<1>6. /\ status'[r] = "remote" /\ held'[r] # {}
      /\ \A i \in InFlight' : steps'[i].writes[r] \cap held'[r] = {}
  <2>1. status'[r] = "remote" /\ held'[r] # {}
    BY <1>1, <1>2, LoadGetsBlocks
  <2>2. status'[r] \in Early /\ conf'.defer
    BY <1>1, <1>2, <2>1 DEF Early
  <2> QED
    BY <2>1, <2>2 DEF Fenced
<1>7. ASSUME NEW q \in loading'
      PROVE  /\ status'[q] \in {"remote", "finished"} /\ held'[q] # {}
             /\ \A i \in InFlight' : steps'[i].writes[q] \cap held'[q] = {}
  <2>1. CASE q = r
    BY <1>6, <2>1
  <2>2. CASE q # r
    <3>1. q \in loading /\ q \in Requests
      BY <1>1, <1>5, <2>2
    <3> QED
      BY <1>1, <1>3, <1>4, <1>5, <2>2, <3>1
  <2> QED
    BY <2>1, <2>2
<1>8. LoadKeepsBlocks'
  BY <1>7 DEF LoadKeepsBlocks
<1>9. \A q \in recvd' : status'[q] = "remote" /\ q \notin loading'
  BY <1>1, <1>4, <1>5
<1> QED
  BY <1>1, <1>5, <1>8, <1>9 DEF Loads

-----------------------------------------------------------------------------
(* The steps in flight move under the loads *)

LEMMA FinishLoads ==
  ASSUME Shape, Control, Loads, FinishSchedule PROVE Loads'
<1>1. /\ UNCHANGED <<conf, status, held, loading, recvd>>
      /\ phase = "finish" /\ phase' = "idle"
  BY DEF FinishSchedule, blockVars, kvVars
<1>2. /\ loading \subseteq Requests /\ recvd \subseteq Requests
      /\ \A q \in recvd : status[q] = "remote" /\ q \notin loading
      /\ \A q \in loading : status[q] \in {"remote", "finished"}
  BY DEF Loads, LoadKeepsBlocks
<1>3. InFlight = 1..Len(steps) /\ InFlight' = 1..Len(steps')
  BY <1>1 DEF InFlight
<1>4. ASSUME NEW q \in loading' PROVE Loading(q)
  <2>1. q \in loading /\ q \in Requests /\ q \notin Scheduled
    BY <1>1, <1>2, <1>4 DEF Control, Scheduled
  <2>2. CASE Scheduled = {}
    <3>1. steps' = steps
      BY <2>2 DEF FinishSchedule
    <3> QED
      BY <1>1, <1>2, <1>3, <2>1, <3>1 DEF Loading
  <2>3. CASE Scheduled # {}
    <3>1. PICK last :
            steps' = Append(steps, [batch EXCEPT !.last = last,
                                      !.writes = [p \in Requests |->
                                        IF p \in Scheduled THEN held[p] ELSE {}]])
      BY <2>3 DEF FinishSchedule
    <3> DEFINE out == [batch EXCEPT !.last = last,
                         !.writes = [p \in Requests |->
                           IF p \in Scheduled THEN held[p] ELSE {}]]
    <3>2. steps \in Seq(BatchShape) /\ batch \in BatchShape
      BY DEF Shape
    <3>3. out.writes[q] = {}
      BY <2>1, <3>2 DEF BatchShape
    <3>4. steps' = Append(steps, out)
      BY <3>1
    <3> HIDE DEF out
    <3>5. /\ Len(steps) \in Nat /\ Len(steps') = Len(steps) + 1
          /\ steps'[Len(steps) + 1] = out /\ \A i \in 1..Len(steps) : steps'[i] = steps[i]
      BY <3>2, <3>4
    <3>6. \A i \in InFlight' : i \in InFlight \/ i = Len(steps) + 1
      BY <1>3, <3>5
    <3>7. \A i \in InFlight' : \/ steps'[i].writes[q] = {}
                               \/ \E j \in InFlight : steps'[i].writes[q] = steps[j].writes[q]
      BY <1>3, <3>3, <3>5, <3>6
    <3> QED
      BY <1>1, <1>2, <2>1, <3>7 DEF Loading
  <2> QED
    BY <2>2, <2>3
<1> QED
  BY <1>1, <1>2, <1>4, LoadsGoOn

LEMMA BeginUpdateLoads ==
  ASSUME Loads, BeginUpdate PROVE Loads'
<1>1. /\ UNCHANGED <<conf, status, held, steps, loading, recvd>>
      /\ phase = "idle" /\ phase' = "output"
  BY DEF BeginUpdate, Drain, reqVars, blockVars, kvVars
<1>2. /\ recvd \subseteq Requests
      /\ \A q \in recvd : status[q] = "remote" /\ q \notin loading
      /\ \A q \in loading : status[q] \in {"remote", "finished"}
  BY DEF Loads, LoadKeepsBlocks
<1>3. InFlight' \subseteq InFlight
  BY <1>1 DEF InFlight
<1>4. \A q \in loading' : Loading(q)
  BY <1>1, <1>2, <1>3 DEF Loading
<1> QED
  BY <1>1, <1>2, <1>4, LoadsGoOn

LEMMA EndUpdateLoads ==
  ASSUME Shape, Control, Loads, EndUpdate PROVE Loads'
<1>1. /\ UNCHANGED <<conf, status, held, loading, recvd>> /\ steps' = Tail(steps)
      /\ phase = "output" /\ phase' = "idle"
  BY DEF EndUpdate, reqVars, blockVars, kvVars
<1>2. /\ recvd \subseteq Requests
      /\ \A q \in recvd : status[q] = "remote" /\ q \notin loading
      /\ \A q \in loading : status[q] \in {"remote", "finished"}
  BY DEF Loads, LoadKeepsBlocks
<1>3. steps \in Seq(BatchShape) /\ steps # << >>
  BY <1>1 DEF Shape, Control
<1>4. /\ Len(steps) \in Nat /\ Len(steps) >= 1 /\ Len(steps') = Len(steps) - 1
      /\ \A i \in 1..(Len(steps) - 1) : steps'[i] = steps[i + 1]
  BY <1>1, <1>3
<1>5. \A i \in InFlight' : i \in 1..(Len(steps) - 1) /\ i + 1 \in 1..Len(steps) /\ i + 1 > 1
  BY <1>1, <1>4 DEF InFlight
<1>6. \A i \in InFlight' : i + 1 \in InFlight /\ steps'[i] = steps[i + 1]
  BY <1>4, <1>5 DEF InFlight
<1>7. \A q \in loading' : Loading(q)
  BY <1>1, <1>2, <1>6 DEF Loading
<1> QED
  BY <1>1, <1>2, <1>7, LoadsGoOn

LEMMA NextLoads ==
  ASSUME Shape, Control, Ledger, Loads, Fenced', [Next]_vars PROVE Loads'
<1>1. ASSUME NEW r \in Requests, Calls(r) PROVE Loads'
  BY <1>1, CallLoads
<1>2. ASSUME NEW r \in Requests, RunningTurn(r) PROVE Loads'
  <2>1. CASE \E v \in Requests : PreemptVictim(r, v)
    BY <2>1, TurnLoads
  <2> QED
    BY <1>2, <2>1, QuietActionsLoads, TurnLoads DEF RunningTurn
<1>3. ASSUME NEW r \in Requests, WaitingTurn(r) PROVE Loads'
  BY <1>3, QuietActionsLoads, TurnLoads, AdmitLoads DEF WaitingTurn
<1>4. ASSUME NEW r \in Requests, UpdateRequest(r) PROVE Loads'
  <2>1. CASE \E a \in 0..NumSpec : \E m \in 1..(a + 1), stop \in BOOLEAN :
               TokenOutput(r, a, m, stop)
    BY <2>1, TokenLoads
  <2>2. CASE IgnoreOutput(r) \/ ChunkOutput(r)
    BY <2>2, QuietActionsLoads
  <2> QED
    BY <1>4, <2>1, <2>2 DEF UpdateRequest
<1>5. ASSUME ResetOne PROVE Loads'
  <2>1. PICK r \in Requests : r = Last(running)
    BY <1>5 DEF ResetOne
  <2> QED
    BY <1>5, <2>1, TurnLoads
<1>6. ASSUME \/ BeginReset \/ EndReset \/ BeginSchedule \/ LeaveRunning \/ LeaveWaiting
             \/ UNCHANGED vars
      PROVE  Loads'
  BY <1>6, QuietActionsLoads
<1>7. ASSUME FinishSchedule \/ BeginUpdate \/ EndUpdate PROVE Loads'
  BY <1>7, FinishLoads, BeginUpdateLoads, EndUpdateLoads
<1> QED
  BY <1>1, <1>2, <1>3, <1>4, <1>5, <1>6, <1>7 DEF Next

LEMMA LoadsInvariant == Spec => []Loads
<1>1. IInv => Shape /\ Control /\ Fenced
  BY DEF IInv
<1>2. IInv /\ Ledger /\ Loads /\ IInv' /\ [Next]_vars => Loads'
  <2>1. IInv' => Fenced'
    BY DEF IInv
  <2> QED
    BY <1>1, <2>1, NextLoads
<1> QED
  BY <1>2, InitLoads, Invariant, LedgerInvariant, PTL DEF Spec

\* While a remote load runs, its blocks stay with the request it was started for,
\* aborted or not, and no step scheduled before the load began writes them.
THEOREM LoadsKeepTheirBlocks == Spec => []LoadKeepsBlocks
<1>1. Loads => LoadKeepsBlocks
  BY DEF Loads
<1> QED
  BY <1>1, LoadsInvariant, PTL

-----------------------------------------------------------------------------
(* Types *)

\* What no other invariant says of the types.
Small ==
  /\ phase \in {"idle", "reset", "running", "waiting", "finish", "output"}
  /\ faults \in Nat /\ preempted \in BOOLEAN
  /\ prefills \subseteq Requests /\ again \subseteq Requests /\ todo \subseteq Requests
  /\ ended \subseteq Requests /\ failed \subseteq Requests

LEMMA PreemptSmall ==
  ASSUME NEW r, NEW drop, Preempt(r, drop) PROVE prefills' = prefills \ {r}
BY DEF Preempt

LEMMA NextSmall ==
  ASSUME Small, [Next]_vars PROVE Small'
<1> USE DEF Small
<1>1. ASSUME NEW r \in Requests, Calls(r) PROVE Small'
  <2> USE DEF passVars, outVars, kvVars, queueVars
  <2>1. CASE AddRequest(r)
    BY <2>1 DEF AddRequest
  <2>2. CASE Abort(r)
    BY <2>2 DEF Abort
  <2>3. CASE LoadDone(r)
    BY <2>3 DEF LoadDone
  <2>4. CASE LoadFails(r)
    BY <2>4 DEF LoadFails
  <2>5. CASE SendDone(r)
    BY <2>5 DEF SendDone
  <2> QED
    BY <1>1, <2>1, <2>2, <2>3, <2>4, <2>5 DEF Calls
<1>2. ASSUME NEW r \in Requests, RunningTurn(r) PROVE Small'
  <2> USE DEF outVars, kvVars, queueVars
  <2>1. CASE PassRunning(r)
    <3>1. /\ UNCHANGED <<phase, preempted, again, prefills, todo, ended, failed>>
          /\ faults' = faults \/ faults' = faults + 1
      BY <2>1 DEF PassRunning, Cut
    <3> QED
      BY <3>1
  <2>2. CASE ScheduleRunning(r)
    <3>1. /\ UNCHANGED <<phase, preempted, prefills, todo, ended, failed>>
          /\ again' = again \cup {r}
          /\ faults' = faults \/ faults' = faults + 1
      BY <2>2 DEF ScheduleRunning, Cut
    <3> QED
      BY <3>1
  <2>3. ASSUME NEW v \in Requests, PreemptVictim(r, v) PROVE Small'
    <3>1. /\ Preempt(v, conf.drop) /\ preempted' = TRUE /\ again' = again \ {v}
          /\ phase' \in {phase, "finish"}
          /\ UNCHANGED <<faults, todo, ended, failed>>
      BY <2>3 DEF PreemptVictim
    <3> QED
      BY <3>1, PreemptSmall
  <2> QED
    BY <1>2, <2>1, <2>2, <2>3 DEF RunningTurn
<1>3. ASSUME NEW r \in Requests, WaitingTurn(r) PROVE Small'
  <2> USE DEF passVars, outVars, kvVars, queueVars
  <2>1. CASE PassWaiting(r)
    BY <2>1 DEF PassWaiting
  <2>2. CASE Promote(r)
    <3>1. /\ UNCHANGED <<phase, faults, preempted, prefills, again, todo, ended>>
          /\ failed' = failed \ {r}
      BY <2>2 DEF Promote
    <3> QED
      BY <3>1
  <2>3. CASE AdmitLoad(r)
    <3>1. /\ UNCHANGED <<phase, faults, preempted, again, todo, ended, failed>>
          /\ prefills' = prefills \cup {r}
      BY <2>3 DEF AdmitLoad
    <3> QED
      BY <3>1
  <2>4. CASE Admit(r)
    <3>1. /\ UNCHANGED <<phase, preempted, again, todo, ended, failed>>
          /\ prefills' = prefills \cup {r} \/ prefills' = prefills
          /\ faults' = faults \/ faults' = faults + 1
      BY <2>4 DEF Admit, Cut
    <3> QED
      BY <3>1
  <2> QED
    BY <1>3, <2>1, <2>2, <2>3, <2>4 DEF WaitingTurn
<1>4. ASSUME NEW r \in Requests, UpdateRequest(r) PROVE Small'
  <2> USE DEF passVars, kvVars, queueVars
  <2>1. CASE IgnoreOutput(r) \/ ChunkOutput(r)
    <3>1. /\ UNCHANGED <<phase, faults, preempted, again, prefills, ended, failed>>
          /\ todo' = todo \ {r}
      BY <2>1 DEF IgnoreOutput, ChunkOutput
    <3> QED
      BY <3>1
  <2>2. ASSUME NEW a, NEW m, NEW stop, TokenOutput(r, a, m, stop) PROVE Small'
    <3>1. /\ UNCHANGED <<phase, faults, preempted, again, failed>> /\ todo' = todo \ {r}
          /\ ended' = ended \/ ended' = ended \cup {r}
          /\ prefills' = prefills \/ prefills' = prefills \ {r}
      BY <2>2 DEF TokenOutput
    <3> QED
      BY <3>1
  <2> QED
    BY <1>4, <2>1, <2>2 DEF UpdateRequest
<1>5. ASSUME ResetOne PROVE Small'
  <2>1. /\ UNCHANGED <<phase, faults, preempted, again, todo, ended, failed>>
        /\ \E r : Preempt(r, TRUE)
    BY <1>5 DEF ResetOne, passVars, outVars, kvVars
  <2> QED
    BY <2>1, PreemptSmall
<1>6. ASSUME BeginReset \/ EndReset \/ LeaveRunning \/ LeaveWaiting \/ UNCHANGED vars
      PROVE  Small'
  <2>1. /\ UNCHANGED <<preempted, again, prefills, todo, ended, failed>>
        /\ faults' = faults \/ faults' = faults + 1
        /\ phase' \in {phase, "idle", "reset", "waiting", "finish"}
    BY <1>6 DEF BeginReset, EndReset, LeaveRunning, LeaveWaiting, Cut, vars, passVars,
                outVars, kvVars, queueVars
  <2> QED
    BY <2>1
<1>7. ASSUME BeginSchedule \/ FinishSchedule PROVE Small'
  <2>1. /\ UNCHANGED <<faults, todo, ended, failed>> /\ preempted' = FALSE /\ again' = {}
        /\ phase' \in {"running", "idle"} /\ prefills' \subseteq prefills
    BY <1>7 DEF BeginSchedule, FinishSchedule, outVars, kvVars, queueVars
  <2> QED
    BY <2>1
<1>8. ASSUME BeginUpdate \/ EndUpdate PROVE Small'
  <2>1. /\ UNCHANGED <<faults, preempted, again, prefills, failed>> /\ ended' = {}
        /\ phase' \in {"output", "idle"} /\ todo' \subseteq Requests
    BY <1>8 DEF BeginUpdate, EndUpdate, passVars, kvVars, queueVars
  <2> QED
    BY <2>1
<1> QED
  BY <1>1, <1>2, <1>3, <1>4, <1>5, <1>6, <1>7, <1>8 DEF Next

LEMMA SmallInvariant == Spec => []Small
<1>1. Init => Small
  <2> SUFFICES ASSUME Init PROVE Small
    OBVIOUS
  <2>1. prefills = {} /\ again = {} /\ todo = {} /\ ended = {} /\ failed = {}
    BY DEF Init
  <2>2. phase = "idle" /\ faults = 0 /\ preempted = FALSE
    BY DEF Init
  <2>3. preempted \in BOOLEAN
    BY <2>2
  <2> QED
    BY <2>1, <2>2, <2>3 DEF Small
<1>2. Small /\ [Next]_vars => Small'
  BY NextSmall
<1> QED
  BY <1>1, <1>2, PTL DEF Spec

\* Every variable keeps its type; the counters of the scheduler never go below
\* zero, as the code asserts of the placeholders and of the stale tokens.
THEOREM TypeCorrect == Spec => []TypeOK
<1>1. IInv /\ Ledger /\ Lines /\ Loads /\ Small => TypeOK
  <2> SUFFICES ASSUME IInv, Ledger, Lines, Loads, Small PROVE TypeOK
    OBVIOUS
  <2>1. Shape /\ Numbers
    BY DEF IInv, Ledger
  <2>2. /\ conf \in Configs /\ status \in [Requests -> States]
        /\ held \in [Requests -> SUBSET Blocks] /\ pool \subseteq Blocks
        /\ deferred \in Seq(Entry) /\ schedSeq \in Nat /\ procSeq \in Nat
        /\ idx \in Nat \ {0} /\ lastSeq \in [Requests -> Nat]
    BY <2>1 DEF Shape
  <2>3. \A f \in {computed, output, spec, holes, inFlight, stale, lastSeq, known} :
          f \in [Requests -> Nat]
    BY <2>1, <2>2 DEF Numbers
  <2>4. \A q \in {running, waiting, skipped, passed} : q \in Seq(Requests)
    BY DEF Lines, Line
  <2>5. \A S \in {prefills, again, todo, ended, loading, recvd, failed} : S \subseteq Requests
    BY DEF Loads, Small
  <2>6. /\ dropStale \in [Requests -> BOOLEAN] /\ chunk \in [Requests -> BOOLEAN]
        /\ budget \in Nat /\ batch \in Batch /\ steps \in Seq(Batch)
        /\ delivered \in [Requests -> Seq(Nat)]
    BY <2>1 DEF Numbers
  <2>7. /\ phase \in {"idle", "reset", "running", "waiting", "finish", "output"}
        /\ preempted \in BOOLEAN /\ faults \in Nat
    BY DEF Small
  <2> QED
    BY <2>2, <2>3, <2>4, <2>5, <2>6, <2>7 DEF TypeOK, States
<1> QED
  BY <1>1, Invariant, LedgerInvariant, LinesInvariant, LoadsInvariant, SmallInvariant, PTL
=============================================================================
