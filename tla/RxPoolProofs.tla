---------------------------- MODULE RxPoolProofs -----------------------------
(***************************************************************************)
(* Proofs about RxPool, for every pool, queue, assembly limit, number of   *)
(* readers, sequence of messages and loss of fragments: who owns each      *)
(* buffer, and from that what the readers get.                             *)
(***************************************************************************)
EXTENDS RxPool, FiniteSetTheorems, SequenceTheorems, TLAPS

Busy == {"create", "open", "closing", "free"}    \* the stream has its buffers

\* Who is active in which phase.
Quiet ==
  /\ rx # "queue" => rxm = NoMsg
  /\ phase \in {"none", "create", "gone"} => queue = << >>
  /\ phase \notin {"open", "closing"} => \A r \in Readers : reading[r] = NoMsg

\* Types, and what the fill state says of the assembly buffer.
TypeInv ==
  /\ TypeOK
  /\ Quiet
  /\ asm # None <=> phase \in Busy
  /\ rx # "idle" => phase \in {"open", "closing"}
  /\ phase = "none" => len = 0 /\ pool = << >>
  /\ phase \in Busy /\ rx # "queue" => len <= Len(store[asm])

-----------------------------------------------------------------------------
USE RxAssumption

LEMMA MsgType ==
  /\ NoMsg \in RxMsg /\ ~NoMsg.from_pool /\ NoMsg.data = None
  /\ \A m \in RxMsg :
       /\ m.from_pool \in BOOLEAN /\ m.len \in Nat /\ m.text \in Seq(Frag)
       /\ m.from_pool => m.data \in Buffers
       /\ ~m.from_pool => m.data = None
<1>1. << >> \in Seq(Frag)
  OBVIOUS
<1>2. NoMsg \in RxMsg /\ ~NoMsg.from_pool /\ NoMsg.data = None
  BY <1>1 DEF NoMsg, RxMsg
<1>3. ASSUME NEW m \in RxMsg
      PROVE  /\ m.from_pool \in BOOLEAN /\ m.len \in Nat /\ m.text \in Seq(Frag)
             /\ m.from_pool => m.data \in Buffers
             /\ ~m.from_pool => m.data = None
  BY <1>1 DEF RxMsg
<1> QED
  BY <1>2, <1>3

LEMMA PutType ==
  ASSUME TypeOK, NEW b \in Buffers, Put(b)
  PROVE  /\ live' \subseteq live /\ pool' \in Seq(Buffers) /\ cap' = cap
         /\ Len(pool') <= cap'
BY DEF TypeOK, Put

LEMMA MsgFreeType ==
  ASSUME TypeOK, NEW m \in RxMsg, MsgFree(m)
  PROVE  /\ live' \subseteq live /\ pool' \in Seq(Buffers) /\ cap' = cap
         /\ Len(pool') <= cap'
<1>1. CASE m.from_pool
  BY <1>1, MsgType, PutType DEF MsgFree
<1>2. CASE ~m.from_pool
  BY <1>2 DEF MsgFree, poolVars, TypeOK
<1> QED
  BY <1>1, <1>2, MsgType

LEMMA FrameWrites ==
  ASSUME TypeInv, Frame
  PROVE  /\ store' \in [Buffers -> Seq(Frag)]
         /\ len' \in Nat /\ len' <= Len(store'[asm])
         /\ \A b \in Buffers : b # asm => store'[b] = store[b]
<1> DEFINE at == IF next.frag = 1 THEN 0 ELSE len
<1>1. next \in Frag /\ asm \in Buffers /\ asm # None /\ rx = "idle" /\ phase = "open"
  BY DEF TypeInv, TypeOK, Frame, OnWire, Frag, Busy
<1>2. store[asm] \in Seq(Frag) /\ at \in Nat /\ at <= Len(store[asm])
  BY <1>1 DEF TypeInv, TypeOK, Busy
<1>3. /\ Append(SubSeq(store[asm], 1, at), next) \in Seq(Frag)
      /\ Len(Append(SubSeq(store[asm], 1, at), next)) = at + 1
  BY <1>1, <1>2
<1>4. CASE at + 1 <= AsmMax
  <2>1. store' = [store EXCEPT ![asm] = Append(SubSeq(store[asm], 1, at), next)]
    BY <1>4 DEF Frame
  <2>2. len' \in {0, at + 1}
    BY <1>4 DEF Frame
  <2> QED
    BY <1>1, <1>2, <1>3, <2>1, <2>2 DEF TypeInv, TypeOK
<1>5. CASE ~(at + 1 <= AsmMax)
  <2>1. store' = store /\ len' \in {0, at}
    BY <1>5 DEF Frame
  <2> QED
    BY <1>2, <2>1 DEF TypeInv, TypeOK
<1> QED
  BY <1>4, <1>5

LEMMA AfterType ==
  ASSUME TypeOK, next.msg <= Msgs
  PROVE  /\ After(next) \in [msg : 1..(Msgs + 1), frag : 1..MaxFrags]
         /\ After(next).msg <= Msgs => After(next).frag <= size[After(next).msg]
         /\ IsEnd(next) <=> After(next) = [msg |-> next.msg + 1, frag |-> 1]
         /\ ~IsEnd(next) <=> After(next) = [msg |-> next.msg, frag |-> next.frag + 1]
<1>1. /\ next \in [msg : 1..(Msgs + 1), frag : 1..MaxFrags]
      /\ next.msg \in 1..Msgs /\ size[next.msg] \in 1..MaxFrags
      /\ next.frag \in 1..size[next.msg]
  BY DEF TypeOK
<1>2. next = [msg |-> next.msg, frag |-> next.frag]
  BY <1>1
<1>3. CASE next.frag < size[next.msg]
  <2>1. After(next) = [msg |-> next.msg, frag |-> next.frag + 1]
    BY <1>1, <1>2, <1>3 DEF After
  <2> QED
    BY <1>1, <1>3, <2>1 DEF IsEnd
<1>4. CASE ~(next.frag < size[next.msg])
  <2>1. After(next) = [msg |-> next.msg + 1, frag |-> 1] /\ next.frag = size[next.msg]
    BY <1>1, <1>4 DEF After
  <2>2. next.msg + 1 <= Msgs => size[next.msg + 1] \in 1..MaxFrags
    BY <1>1 DEF TypeOK
  <2> QED
    BY <1>1, <2>1, <2>2 DEF IsEnd
<1> QED
  BY <1>3, <1>4

LEMMA TypeInit == Init => TypeInv
<1> SUFFICES ASSUME Init PROVE TypeInv
  OBVIOUS
<1>1. << >> \in Seq(Buffers) /\ << >> \in Seq(RxMsg) /\ << >> \in Seq(Frag) /\ Len(<< >>) = 0
  OBVIOUS
<1>2. next \in [msg : 1..(Msgs + 1), frag : 1..MaxFrags]
      /\ (next.msg <= Msgs => next.frag <= size[next.msg])
  BY DEF Init
<1>3. IsFiniteSet(live) /\ live \subseteq Buffers
  BY FS_EmptySet DEF Init
<1>4. store \in [Buffers -> Seq(Frag)] /\ pool \in Seq(Buffers) /\ Len(pool) <= cap
  BY <1>1 DEF Init
<1>5. rxm \in RxMsg /\ queue \in Seq(RxMsg) /\ reading \in [Readers -> RxMsg]
  BY <1>1, MsgType DEF Init
<1>6. TypeOK
  BY <1>2, <1>3, <1>4, <1>5 DEF Init, TypeOK
<1> QED
  BY <1>6 DEF Init, TypeInv, Quiet, Busy

LEMMA TypeStep == TypeInv /\ [Next]_vars => TypeInv'
<1> SUFFICES ASSUME TypeInv, [Next]_vars PROVE TypeInv'
  OBVIOUS
<1> USE DEF TypeInv, Quiet
<1>1. ASSUME NEW b \in Buffers, BeginCreate(b) PROVE TypeInv'
  <2>1. IsFiniteSet(live') /\ live' \subseteq Buffers
    BY <1>1, FS_Singleton DEF BeginCreate
  <2>2. phase = "none" /\ pool' \in Seq(Buffers) /\ cap' \in Nat /\ len' = 0
        /\ Len(pool') <= cap' /\ Len(store[b]) \in Nat
    BY <1>1 DEF BeginCreate, TypeOK
  <2> QED
    BY <1>1, <2>1, <2>2 DEF BeginCreate, TypeOK, Busy, wireVars
<1>2. ASSUME NEW b \in Buffers, AddSpare(b) PROVE TypeInv'
  <2>1. IsFiniteSet(live') /\ live' \subseteq Buffers
    BY <1>2, FS_AddElement DEF AddSpare, TypeOK
  <2>2. pool' \in Seq(Buffers) /\ Len(pool') <= cap
    BY <1>2 DEF AddSpare, TypeOK
  <2> QED
    BY <1>2, <2>1, <2>2 DEF AddSpare, TypeOK, Busy, wireVars, asmVars
<1>3. CASE FinishCreate \/ Close \/ BeginFree
  BY <1>3 DEF FinishCreate, Close, BeginFree, TypeOK, Busy, wireVars, asmVars, poolVars
<1>4. CASE CreateFails \/ FreeBuffers
  <2>1. live' \in SUBSET live /\ pool' = << >> /\ cap' = 0 /\ asm' = None
        /\ phase' = "gone" /\ rx = "idle"
    BY <1>4 DEF CreateFails, FreeBuffers
  <2>2. IsFiniteSet(live')
    BY <2>1, FS_Subset DEF TypeOK
  <2>5. << >> \in Seq(Buffers) /\ Len(<< >>) <= 0
    OBVIOUS
  <2>6. UNCHANGED <<wireVars, len, bad, store, rx, rxm, queue, reading>>
    BY <1>4 DEF CreateFails, FreeBuffers
  <2>3. TypeOK'
    BY <2>1, <2>2, <2>5, <2>6 DEF TypeOK, wireVars
  <2>4. queue' = << >> /\ UNCHANGED <<rx, rxm, reading>> /\ phase \in {"create", "free"}
    BY <1>4 DEF CreateFails, FreeBuffers
  <2> QED
    BY <2>1, <2>3, <2>4 DEF Busy
<1>5. CASE Lose
  BY <1>5, AfterType DEF Lose, OnWire, TypeOK, Busy, asmVars, poolVars
<1>6. CASE Frame
  <2>1. next' = After(next) /\ next.msg <= Msgs /\ phase' = "open" /\ asm' = asm
        /\ gap' \in BOOLEAN /\ bad' \in BOOLEAN /\ rx' \in {"idle", "end"}
        /\ UNCHANGED <<phase, size, asm, poolVars, rxm, queue, reading>>
    BY <1>6 DEF Frame, OnWire, TypeOK
  <2>2. TypeOK'
    BY <1>6, <2>1, FrameWrites, AfterType DEF TypeOK, poolVars
  <2>3. rx = "idle" /\ rx' \in {"idle", "end", "queue"} /\ phase = "open"
    BY <1>6, <2>1 DEF Frame, OnWire
  <2> QED
    BY <1>6, <2>1, <2>2, <2>3, FrameWrites DEF Busy
<1>7. CASE HandOver
  <2>1. asm \in Buffers
    BY <1>7 DEF HandOver, TypeOK, Busy
  <2>2. rxm' \in RxMsg
    BY <1>7, <2>1 DEF HandOver, RxMsg, TypeOK
  <2>3. pool[Len(pool)] \in Buffers /\ Front(pool) \in Seq(Buffers)
        /\ Len(Front(pool)) <= cap
    BY <1>7 DEF HandOver, Front, TypeOK
  <2> QED
    BY <1>7, <2>2, <2>3 DEF HandOver, TypeOK, Busy, wireVars
<1>8. CASE CopyOut
  <2>1. asm \in Buffers /\ len <= Len(store[asm]) /\ store[asm] \in Seq(Frag) /\ len \in Nat
    BY <1>8 DEF CopyOut, TypeOK, Busy
  <2>2. SubSeq(store[asm], 1, len) \in Seq(Frag)
    BY <2>1
  <2>3. rxm' \in RxMsg
    BY <1>8, <2>1, <2>2 DEF CopyOut, RxMsg
  <2> QED
    BY <1>8, <2>3 DEF CopyOut, TypeOK, Busy, wireVars, asmVars, poolVars
<1>9. CASE NoMemory
  BY SMTT(30), <1>9 DEF NoMemory, TypeOK, Busy, wireVars, poolVars
<1>10. CASE Enqueue
  <2>1. queue' \in Seq(RxMsg)
    BY <1>10 DEF Enqueue, TypeOK
  <2>2. TypeOK'
    BY <1>10, <2>1, MsgType DEF Enqueue, TypeOK, wireVars, poolVars
  <2>3. /\ phase \in {"open", "closing"} /\ asm \in Buffers /\ Len(store[asm]) \in Nat
        /\ UNCHANGED <<phase, asm, store, reading>> /\ rxm' = NoMsg /\ len' = 0 /\ rx' = "idle"
    BY <1>10 DEF Enqueue, TypeOK, Busy
  <2> QED
    BY <2>2, <2>3 DEF Busy
<1>11. CASE QueueFull
  <2>1. /\ live' \subseteq live /\ pool' \in Seq(Buffers) /\ cap' = cap /\ Len(pool') <= cap'
    BY <1>11, MsgFreeType DEF QueueFull, TypeOK
  <2>2. IsFiniteSet(live')
    BY <2>1, FS_Subset DEF TypeOK
  <2> QED
    BY SMTT(30), <1>11, <2>1, <2>2, MsgType DEF QueueFull, TypeOK, Busy, wireVars
<1>12. ASSUME NEW r \in Readers, Take(r) PROVE TypeInv'
  <2>1. Head(queue) \in RxMsg /\ queue' \in Seq(RxMsg) /\ reading' \in [Readers -> RxMsg]
    BY <1>12 DEF Take, TypeOK
  <2> QED
    BY <1>12, <2>1 DEF Take, TypeOK, Busy, wireVars, asmVars, poolVars
<1>13. ASSUME NEW r \in Readers, Give(r) PROVE TypeInv'
  <2>1. /\ live' \subseteq live /\ pool' \in Seq(Buffers) /\ cap' = cap /\ Len(pool') <= cap'
    BY <1>13, MsgFreeType DEF Give, TypeOK
  <2>2. IsFiniteSet(live')
    BY <2>1, FS_Subset DEF TypeOK
  <2>3. reading' \in [Readers -> RxMsg]
    BY <1>13, MsgType DEF Give, TypeOK
  <2> QED
    BY <1>13, <2>1, <2>2, <2>3 DEF Give, TypeOK, Busy, wireVars, asmVars
<1>14. CASE DrainOne
  <2>1. Head(queue) \in RxMsg /\ queue' \in Seq(RxMsg)
    BY <1>14 DEF DrainOne, TypeOK
  <2>2. /\ live' \subseteq live /\ pool' \in Seq(Buffers) /\ cap' = cap /\ Len(pool') <= cap'
    BY <1>14, <2>1, MsgFreeType DEF DrainOne, TypeOK
  <2>3. IsFiniteSet(live')
    BY <2>2, FS_Subset DEF TypeOK
  <2> QED
    BY <1>14, <2>1, <2>2, <2>3 DEF DrainOne, TypeOK, Busy, wireVars, asmVars
<1>15. CASE UNCHANGED vars
  BY <1>15 DEF vars, wireVars, asmVars, poolVars, TypeOK, Busy
<1> QED
  BY <1>1, <1>2, <1>3, <1>4, <1>5, <1>6, <1>7, <1>8, <1>9, <1>10, <1>11, <1>12, <1>13,
     <1>14, <1>15 DEF Next

\* Every variable keeps its type under every interleaving of the callback, the
\* readers and teardown.
THEOREM TypeCorrect == Spec => []TypeOK
<1>1. Spec => []TypeInv
  BY TypeInit, TypeStep, PTL DEF Spec
<1>2. TypeInv => TypeOK
  BY DEF TypeInv
<1> QED
  BY <1>1, <1>2, PTL

-----------------------------------------------------------------------------
(* One owner *)

InPool(b)     == \E i \in 1..Len(pool) : pool[i] = b
InQueue(b)    == \E i \in 1..Len(queue) : queue[i].data = b
WithReader(b) == \E r \in Readers : reading[r].data = b

\* A buffer is allocated when it is in one of the five places, ...
Accounted ==
  \A b \in Buffers :
    b \in live <=> asm = b \/ rxm.data = b \/ InPool(b) \/ InQueue(b) \/ WithReader(b)

\* ... never in two of them, ...
Apart ==
  \A b \in Buffers :
    /\ asm = b => rxm.data # b /\ ~InPool(b) /\ ~InQueue(b) /\ ~WithReader(b)
    /\ rxm.data = b => ~InPool(b) /\ ~InQueue(b) /\ ~WithReader(b)
    /\ InPool(b) => ~InQueue(b) /\ ~WithReader(b)
    /\ InQueue(b) => ~WithReader(b)

\* ... and never twice in one.
PoolOnce   == \A i, j \in 1..Len(pool) : pool[i] = pool[j] => i = j
QueueOnce  == \A i, j \in 1..Len(queue) :
                queue[i].data = queue[j].data /\ queue[i].data # None => i = j
ReaderOnce == \A r, s \in Readers :
                reading[r].data = reading[s].data /\ reading[r].data # None => r = s

\* The stream has one buffer more than its pool has room for, at most.
Counted ==
  /\ phase \in Busy => Cardinality(live) <= cap + 1
  /\ phase = "create" => Cardinality(live) = Len(pool) + 1

OwnInv == TypeInv /\ Accounted /\ Apart /\ PoolOnce /\ QueueOnce /\ ReaderOnce
            /\ Counted

LEMMA MsgData ==
  ASSUME TypeOK
  PROVE  /\ rxm \in RxMsg
         /\ \A i \in 1..Len(queue) : queue[i] \in RxMsg
         /\ \A r \in Readers : reading[r] \in RxMsg
         /\ \A m \in RxMsg : m.from_pool <=> m.data # None
<1>1. \A m \in RxMsg : m.from_pool <=> m.data # None
  BY MsgType
<1>2. \A i \in 1..Len(queue) : queue[i] \in RxMsg
  BY DEF TypeOK
<1> QED
  BY <1>1, <1>2 DEF TypeOK

LEMMA ListSize ==
  ASSUME pool \in Seq(Buffers), PoolOnce
  PROVE  /\ IsFiniteSet({pool[i] : i \in 1..Len(pool)})
         /\ Cardinality({pool[i] : i \in 1..Len(pool)}) = Len(pool)
<1> DEFINE R == {pool[i] : i \in 1..Len(pool)}
           f == [i \in 1..Len(pool) |-> pool[i]]
<1>1. Len(pool) \in Nat
  OBVIOUS
<1>2. f \in Bijection(1..Len(pool), R)
  <2>1. f \in [1..Len(pool) -> R]
    OBVIOUS
  <2>2. \A i, j \in 1..Len(pool) : f[i] = f[j] => i = j
    BY DEF PoolOnce
  <2>3. \A t \in R : \E i \in 1..Len(pool) : f[i] = t
    OBVIOUS
  <2> HIDE DEF f, R
  <2> QED
    BY <2>1, <2>2, <2>3 DEF Bijection, Injection, Surjection, IsInjective
<1>3. ExistsBijection(1..Len(pool), R)
  BY <1>2 DEF ExistsBijection
<1>4. IsFiniteSet(R)
  BY <1>1, <1>3, FS_NatBijection
<1>5. Cardinality(R) = Len(pool)
  BY <1>1, <1>3, FS_CountingElements
<1> QED
  BY <1>4, <1>5

\* A buffer that comes back finds room in the pool.
LEMMA PutFits ==
  ASSUME OwnInv, phase \in Busy, NEW b \in live, b # asm, ~InPool(b)
  PROVE  Len(pool) < cap
<1> DEFINE R == {pool[i] : i \in 1..Len(pool)}
<1>1. asm \in live /\ asm \notin R /\ b \notin R /\ R \subseteq live
  <2>1. asm \in Buffers /\ live \subseteq Buffers /\ pool \in Seq(Buffers)
    BY DEF OwnInv, TypeInv, TypeOK
  <2>2. asm \in live /\ ~InPool(asm)
    BY <2>1 DEF OwnInv, Accounted, Apart
  <2>3. \A i \in 1..Len(pool) : pool[i] \in live
    <3> TAKE i \in 1..Len(pool)
    <3>1. pool[i] \in Buffers /\ InPool(pool[i])
      BY <2>1 DEF InPool
    <3> QED
      BY <3>1 DEF OwnInv, Accounted
  <2> QED
    BY <2>2, <2>3 DEF InPool
<1>2. IsFiniteSet(R) /\ Cardinality(R) = Len(pool)
  BY ListSize DEF OwnInv, TypeInv, TypeOK
<1>3. IsFiniteSet(R \cup {asm}) /\ Cardinality(R \cup {asm}) = Len(pool) + 1
  BY <1>1, <1>2, FS_AddElement
<1>4. Cardinality((R \cup {asm}) \cup {b}) = Len(pool) + 2
  <2> HIDE DEF R
  <2>1. b \notin R \cup {asm} /\ IsFiniteSet(R \cup {asm})
    BY <1>1, <1>3
  <2>2. Len(pool) \in Nat
    BY DEF OwnInv, TypeInv, TypeOK
  <2>3. Cardinality((R \cup {asm}) \cup {b}) = Cardinality(R \cup {asm}) + 1
    BY <2>1, FS_AddElement
  <2> QED
    BY <1>3, <2>2, <2>3
<1>5. Cardinality((R \cup {asm}) \cup {b}) <= Cardinality(live)
  <2>1. (R \cup {asm}) \cup {b} \in SUBSET live
    BY <1>1
  <2> QED
    BY <2>1, FS_Subset DEF OwnInv, TypeInv, TypeOK
<1>6. Cardinality(live) <= cap + 1 /\ Cardinality(live) \in Nat
  BY FS_CardinalityType DEF OwnInv, Counted, TypeInv, TypeOK
<1>7. Len(pool) \in Nat /\ cap \in Nat
  BY DEF OwnInv, TypeInv, TypeOK
<1> QED
  BY <1>4, <1>5, <1>6, <1>7

\* What _rx_msg_free does to the pool, when the data of the message is nowhere else.
LEMMA FreeEffect ==
  ASSUME OwnInv, phase \in Busy, NEW m \in RxMsg, MsgFree(m),
         m.data # None => m.data \in live /\ m.data # asm /\ ~InPool(m.data)
  PROVE  /\ live' = live /\ cap' = cap /\ PoolOnce'
         /\ \A b \in Buffers : InPool(b)' <=> InPool(b) \/ b = m.data
<1>1. CASE m.from_pool
  <2>1. m.data \in Buffers /\ Len(pool) < cap
    BY <1>1, PutFits, MsgType
  <2>2. pool' = Append(pool, m.data) /\ live' = live /\ cap' = cap
    BY <1>1, <2>1 DEF MsgFree, Put
  <2>3. pool \in Seq(Buffers)
    BY DEF OwnInv, TypeInv, TypeOK
  <2>4. Len(pool') = Len(pool) + 1 /\ pool'[Len(pool) + 1] = m.data
        /\ \A i \in 1..Len(pool) : pool'[i] = pool[i]
    BY <2>1, <2>2, <2>3
  <2>5. \A b \in Buffers : InPool(b)' <=> InPool(b) \/ b = m.data
    BY <2>3, <2>4 DEF InPool
  <2>6. PoolOnce'
    BY <2>1, <2>3, <2>4, <1>1 DEF PoolOnce, InPool, OwnInv
  <2> QED
    BY <2>2, <2>5, <2>6
<1>2. CASE ~m.from_pool
  <2>1. m.data = None
    BY <1>2, MsgType
  <2> QED
    BY <1>2, <2>1 DEF MsgFree, poolVars, InPool, PoolOnce, OwnInv
<1> QED
  BY <1>1, <1>2, MsgType

LEMMA OwnInit == Init => OwnInv
<1> SUFFICES ASSUME Init PROVE OwnInv
  OBVIOUS
<1>1. live = {} /\ asm = None /\ pool = << >> /\ queue = << >> /\ rxm.data = None
      /\ phase = "none" /\ \A r \in Readers : reading[r].data = None
  BY MsgType DEF Init
<1>2. Len(pool) = 0 /\ Len(queue) = 0
  BY <1>1
<1>3. Accounted /\ Apart /\ PoolOnce /\ QueueOnce /\ ReaderOnce /\ Counted
  BY <1>1, <1>2 DEF Accounted, Apart, PoolOnce, QueueOnce, ReaderOnce, Counted, Busy,
     InPool, InQueue, WithReader
<1> QED
  BY <1>3, TypeInit DEF OwnInv

\* Of the places only the pool and one message change when a message is freed.
LEMMA OwnFree ==
  ASSUME OwnInv, TypeInv', phase \in Busy, phase # "create", phase' = phase, asm' = asm,
         NEW m \in RxMsg, MsgFree(m),
         m.data # None => m.data \in live /\ m.data # asm /\ ~InPool(m.data),
         \A b \in Buffers :
           /\ (rxm'.data = b \/ InQueue(b)' \/ WithReader(b)')
                <=> b # m.data /\ (rxm.data = b \/ InQueue(b) \/ WithReader(b))
           /\ rxm'.data = b => rxm.data = b
           /\ InQueue(b)' => InQueue(b)
           /\ WithReader(b)' => WithReader(b),
         QueueOnce', ReaderOnce'
  PROVE  OwnInv'
<1>1. /\ live' = live /\ cap' = cap /\ PoolOnce'
      /\ \A b \in Buffers : InPool(b)' <=> InPool(b) \/ b = m.data
  BY FreeEffect
<1>2. Accounted'
  <2> SUFFICES ASSUME NEW b \in Buffers
               PROVE  b \in live <=> asm = b \/ rxm'.data = b \/ InPool(b)' \/ InQueue(b)'
                                      \/ WithReader(b)'
    BY <1>1 DEF Accounted
  <2>1. b \in live <=> asm = b \/ rxm.data = b \/ InPool(b) \/ InQueue(b) \/ WithReader(b)
    BY DEF OwnInv, Accounted
  <2>2. b = m.data => b \in live
    BY DEF TypeInv
  <2> QED
    BY <1>1, <2>1, <2>2
<1>3. Apart'
  <2> SUFFICES ASSUME NEW b \in Buffers
               PROVE  /\ asm = b => rxm'.data # b /\ ~InPool(b)' /\ ~InQueue(b)' /\ ~WithReader(b)'
                      /\ rxm'.data = b => ~InPool(b)' /\ ~InQueue(b)' /\ ~WithReader(b)'
                      /\ InPool(b)' => ~InQueue(b)' /\ ~WithReader(b)'
                      /\ InQueue(b)' => ~WithReader(b)'
    BY DEF Apart
  <2>1. /\ asm = b => rxm.data # b /\ ~InPool(b) /\ ~InQueue(b) /\ ~WithReader(b)
        /\ rxm.data = b => ~InPool(b) /\ ~InQueue(b) /\ ~WithReader(b)
        /\ InPool(b) => ~InQueue(b) /\ ~WithReader(b)
        /\ InQueue(b) => ~WithReader(b)
    BY DEF OwnInv, Apart
  <2>2. m.data = b => asm # b
    BY RxAssumption
  <2> QED
    BY <1>1, <2>1, <2>2
<1>4. Counted'
  BY <1>1 DEF OwnInv, Counted, Busy
<1> QED
  BY <1>1, <1>2, <1>3, <1>4 DEF OwnInv

LEMMA QueueTail ==
  ASSUME QueueOnce, Len(queue) \in Nat \ {0}, Len(queue') = Len(queue) - 1,
         \A i \in 1..(Len(queue) - 1) : queue'[i] = queue[i + 1]
  PROVE  \A b \in Buffers : InQueue(b)' <=> InQueue(b) /\ b # queue[1].data
<1> SUFFICES ASSUME NEW b \in Buffers
             PROVE  InQueue(b)' <=> InQueue(b) /\ b # queue[1].data
  OBVIOUS
<1>0. b # None
  BY RxAssumption
<1>1. ASSUME InQueue(b)' PROVE InQueue(b) /\ b # queue[1].data
  <2>1. PICK i \in 1..(Len(queue) - 1) : queue'[i].data = b
    BY <1>1 DEF InQueue
  <2>2. i + 1 \in 1..Len(queue) /\ queue[i + 1].data = b
    BY <2>1
  <2>3. 1 \in 1..Len(queue) /\ i + 1 # 1
    BY <2>1
  <2> QED
    BY <1>0, <2>2, <2>3 DEF InQueue, QueueOnce
<1>2. ASSUME InQueue(b), b # queue[1].data PROVE InQueue(b)'
  <2>1. PICK i \in 1..Len(queue) : queue[i].data = b
    BY <1>2 DEF InQueue
  <2>2. i - 1 \in 1..(Len(queue) - 1) /\ (i - 1) + 1 = i
    BY <1>2, <2>1
  <2>3. queue'[i - 1].data = b
    BY <2>1, <2>2
  <2>4. i - 1 \in 1..Len(queue')
    BY <2>2
  <2> QED
    BY <2>3, <2>4 DEF InQueue
<1> QED
  BY <1>1, <1>2

LEMMA QueueTailOnce ==
  ASSUME QueueOnce, Len(queue) \in Nat \ {0}, Len(queue') = Len(queue) - 1,
         \A i \in 1..(Len(queue) - 1) : queue'[i] = queue[i + 1]
  PROVE  QueueOnce'
<1> SUFFICES ASSUME NEW i \in 1..Len(queue'), NEW j \in 1..Len(queue'),
                    queue'[i].data = queue'[j].data, queue'[i].data # None
             PROVE  i = j
  BY DEF QueueOnce
<1>1. i \in 1..(Len(queue) - 1) /\ j \in 1..(Len(queue) - 1)
  OBVIOUS
<1>2. i + 1 \in 1..Len(queue) /\ j + 1 \in 1..Len(queue)
  BY <1>1
<1>3. i + 1 = j + 1
  BY <1>1, <1>2 DEF QueueOnce
<1> QED
  BY <1>1, <1>3

LEMMA FrontFacts ==
  ASSUME NEW S, NEW s \in Seq(S), s # << >>
  PROVE  /\ Len(Front(s)) = Len(s) - 1
         /\ \A i \in 1..(Len(s) - 1) : Front(s)[i] = s[i]
<1>1. Len(s) \in Nat /\ Len(s) > 0
  OBVIOUS
<1>2. \A i \in 1..(Len(s) - 1) : s[i] \in S
  BY <1>1
<1>3. Len(Front(s)) = IF 1 <= Len(s) - 1 THEN (Len(s) - 1) - 1 + 1 ELSE 0
  BY <1>1, <1>2, SubSeqProperties DEF Front
<1>4. \A i \in 1..((Len(s) - 1) - 1 + 1) : Front(s)[i] = s[1 + i - 1]
  BY <1>1, <1>2, SubSeqProperties DEF Front
<1>5. ASSUME NEW i \in 1..(Len(s) - 1) PROVE Front(s)[i] = s[i]
  <2>1. i \in 1..((Len(s) - 1) - 1 + 1) /\ 1 + i - 1 = i
    BY <1>1
  <2>2. Front(s)[i] = s[1 + i - 1]
    BY <1>4, <2>1
  <2> QED
    BY <2>1, <2>2
<1>6. (IF 1 <= Len(s) - 1 THEN (Len(s) - 1) - 1 + 1 ELSE 0) = Len(s) - 1
  <2>1. \A n \in Nat : n > 0 => (IF 1 <= n - 1 THEN (n - 1) - 1 + 1 ELSE 0) = n - 1
    OBVIOUS
  <2> QED
    BY <1>1, <2>1
<1> QED
  BY <1>3, <1>5, <1>6

LEMMA OwnStep == OwnInv /\ [Next]_vars => OwnInv'
<1> SUFFICES ASSUME OwnInv, [Next]_vars PROVE OwnInv'
  OBVIOUS
<1>0. TypeInv /\ TypeInv' /\ TypeOK
  BY TypeStep DEF OwnInv, TypeInv
<1>a. ASSUME UNCHANGED <<live, asm, pool, cap, rxm, queue, reading>>,
             phase \in Busy \ {"create"} \/ phase' = phase, phase' \in Busy \/ phase' = phase,
             phase' = "create" => phase = "create"
      PROVE  OwnInv'
  <2>1. (Accounted /\ Apart /\ PoolOnce /\ QueueOnce /\ ReaderOnce)'
    BY <1>a DEF OwnInv, Accounted, Apart, PoolOnce, QueueOnce, ReaderOnce, InPool, InQueue, WithReader
  <2>2. Counted'
    BY <1>a DEF OwnInv, Counted, Busy
  <2> QED
    BY <1>0, <2>1, <2>2 DEF OwnInv
<1>b. QueueOnce /\ ReaderOnce /\ PoolOnce /\ Accounted /\ Apart /\ Counted /\ Quiet
  BY <1>0 DEF OwnInv, TypeInv
<1>1. ASSUME NEW b \in Buffers, BeginCreate(b) PROVE OwnInv'
  <2>1. phase = "none" /\ phase' = "create" /\ asm' = b /\ live' = {b} /\ pool = << >>
        /\ cap' \in Nat /\ UNCHANGED <<pool, rxm, queue, reading>> /\ queue = << >>
        /\ rxm.data = None /\ \A r \in Readers : reading[r].data = None
    BY <1>0, <1>1, MsgType DEF BeginCreate, TypeInv, Quiet, TypeOK
  <2>2. Len(pool) = 0 /\ Len(pool') = 0 /\ Len(queue) = 0
    BY <2>1
  <2>3. Cardinality(live') = 1
    BY <2>1, FS_Singleton
  <2>4. Cardinality(live') <= cap' + 1 /\ Cardinality(live') = Len(pool') + 1
    <3>1. cap' \in Nat
      BY <2>1
    <3>2. 1 <= cap' + 1 /\ 1 = 0 + 1
      <4>1. \A c \in Nat : 1 <= c + 1 /\ 1 = 0 + 1
        OBVIOUS
      <4> QED
        BY <3>1, <4>1, Zenon
    <3> QED
      BY <2>2, <2>3, <3>2, Zenon
  <2>6. Counted'
    BY <2>4 DEF Counted
  <2>5. (Accounted /\ Apart /\ PoolOnce /\ QueueOnce /\ ReaderOnce)'
    BY <2>1, <2>2 DEF Accounted, Apart, PoolOnce, QueueOnce, ReaderOnce, InPool, InQueue, WithReader
  <2> QED
    BY <1>0, <2>5, <2>6 DEF OwnInv
<1>2. ASSUME NEW b \in Buffers, AddSpare(b) PROVE OwnInv'
  <2>1. /\ phase = "create" /\ phase' = phase /\ Len(pool) < cap /\ b \notin live
        /\ live' = live \cup {b} /\ pool' = Append(pool, b)
        /\ UNCHANGED <<asm, cap, rxm, queue, reading>> /\ pool \in Seq(Buffers)
        /\ Len(pool) \in Nat /\ cap \in Nat
    BY <1>0, <1>2 DEF AddSpare, TypeOK, asmVars
  <2>2. Len(pool') = Len(pool) + 1 /\ pool'[Len(pool) + 1] = b
        /\ \A i \in 1..Len(pool) : pool'[i] = pool[i]
    BY <2>1
  <2>3. \A c \in Buffers : InPool(c)' <=> InPool(c) \/ c = b
    BY <2>1, <2>2 DEF InPool
  <2>4. asm # b /\ rxm.data # b /\ ~InPool(b) /\ ~InQueue(b) /\ ~WithReader(b)
    BY <1>b, <2>1 DEF Accounted
  <2>5. PoolOnce'
    BY <1>b, <2>1, <2>2, <2>4 DEF PoolOnce, InPool
  <2>6. QueueOnce' /\ ReaderOnce'
    BY <1>b, <2>1 DEF QueueOnce, ReaderOnce
  <2>7. \A c : (InQueue(c)' <=> InQueue(c)) /\ (WithReader(c)' <=> WithReader(c))
    BY <2>1 DEF InQueue, WithReader
  <2>8. Accounted' /\ Apart'
    BY <1>b, <2>1, <2>3, <2>4, <2>7 DEF Accounted, Apart
  <2>9. Cardinality(live') = Cardinality(live) + 1
    BY <1>0, <2>1, FS_AddElement DEF TypeOK
  <2>10. Counted'
    BY <1>b, <2>1, <2>2, <2>9 DEF Counted, Busy
  <2> QED
    BY <1>0, <2>5, <2>6, <2>8, <2>10 DEF OwnInv
<1>3. CASE FinishCreate
  <2>1. UNCHANGED <<live, asm, pool, cap, rxm, queue, reading>> /\ phase = "create" /\ phase' = "open"
    BY <1>3 DEF FinishCreate, asmVars, poolVars
  <2>2. (Accounted /\ Apart /\ PoolOnce /\ QueueOnce /\ ReaderOnce)'
    BY <1>b, <2>1 DEF Accounted, Apart, PoolOnce, QueueOnce, ReaderOnce, InPool, InQueue, WithReader
  <2>3. Counted'
    BY <1>b, <2>1 DEF Counted, Busy
  <2> QED
    BY <1>0, <2>2, <2>3 DEF OwnInv
<1>4. CASE CreateFails \/ FreeBuffers
  <2>1. /\ live' = live \ ({asm} \cup {pool[i] : i \in 1..Len(pool)})
        /\ asm' = None /\ pool' = << >> /\ phase' = "gone" /\ queue = << >>
        /\ UNCHANGED <<rxm, queue, reading>> /\ phase \in {"create", "free"}
        /\ rxm = NoMsg /\ \A r \in Readers : reading[r] = NoMsg
    BY <1>0, <1>4 DEF CreateFails, FreeBuffers, Quiet, TypeInv
  <2>2. Len(pool') = 0 /\ Len(queue) = 0 /\ rxm.data = None
        /\ \A r \in Readers : reading[r].data = None
    BY <2>1, MsgType
  <2>3. live' = {}
    <3> SUFFICES ASSUME NEW b \in live PROVE b = asm \/ b \in {pool[i] : i \in 1..Len(pool)}
      BY <2>1
    <3>1. b \in Buffers /\ b # None
      BY <1>0 DEF TypeOK
    <3>2. ~InQueue(b) /\ ~WithReader(b) /\ rxm.data # b
      BY <2>2, <3>1 DEF InQueue, WithReader
    <3> QED
      BY <1>b, <3>1, <3>2 DEF Accounted, InPool
  <2>4. (Accounted /\ Apart /\ PoolOnce /\ QueueOnce /\ ReaderOnce)'
    BY <2>1, <2>2, <2>3 DEF Accounted, Apart, PoolOnce, QueueOnce, ReaderOnce, InPool, InQueue, WithReader
  <2>5. Counted'
    BY <2>1 DEF Counted, Busy
  <2> QED
    BY <1>0, <2>4, <2>5 DEF OwnInv
<1>5. CASE Lose \/ Frame \/ CopyOut \/ NoMemory \/ Close \/ BeginFree \/ UNCHANGED vars
  <2>1. CASE ~CopyOut
    BY <1>5, <1>a, <2>1 DEF Lose, Frame, NoMemory, Close, BeginFree, vars, asmVars, poolVars, Busy, OnWire
  <2>2. CASE CopyOut
    <3>1. rxm.data = None /\ rxm'.data = None /\ UNCHANGED <<live, asm, pool, cap, queue, reading, phase>>
      BY <1>0, <2>2, MsgType DEF CopyOut, TypeInv, Quiet, asmVars, poolVars
    <3>2. (Accounted /\ Apart /\ PoolOnce /\ QueueOnce /\ ReaderOnce /\ Counted)'
      BY <1>b, <3>1 DEF Accounted, Apart, PoolOnce, QueueOnce, ReaderOnce, InPool, InQueue, WithReader,
         Counted
    <3> QED
      BY <1>0, <3>2 DEF OwnInv
  <2> QED
    BY <2>1, <2>2
<1>6. CASE HandOver
  <2>a. rx = "end" /\ pool # << >> /\ pool \in Seq(Buffers) /\ pool' = Front(pool)
        /\ asm' = pool[Len(pool)] /\ rxm'.data = asm /\ phase' = phase
        /\ UNCHANGED <<live, cap, queue, reading>>
    BY <1>0, <1>6 DEF HandOver, TypeOK
  <2>b. Len(pool) \in Nat /\ Len(pool) > 0 /\ pool[Len(pool)] \in Buffers
    BY <2>a
  <2>c. phase \in {"open", "closing"} /\ asm \in Buffers /\ asm # None /\ rxm.data = None
    BY <1>0, <2>a, MsgType DEF TypeInv, Quiet, TypeOK, Busy
  <2>1. /\ rx = "end" /\ phase \in {"open", "closing"} /\ phase' = phase /\ UNCHANGED <<live, cap, queue, reading>>
        /\ rxm.data = None /\ rxm'.data = asm /\ asm \in Buffers /\ asm # None
        /\ Len(pool) \in Nat /\ Len(pool) > 0
        /\ asm' = pool[Len(pool)] /\ asm' \in Buffers /\ pool' = Front(pool) /\ pool \in Seq(Buffers)
    BY <2>a, <2>b, <2>c
  <2>2. Len(pool') = Len(pool) - 1 /\ \A i \in 1..(Len(pool) - 1) : pool'[i] = pool[i]
    BY <2>a, FrontFacts
  <2>3. asm' # asm /\ InPool(asm')
    BY <1>b, <2>1 DEF Apart, InPool
  <2>4. \A b \in Buffers : InPool(b)' <=> InPool(b) /\ b # asm'
    BY <1>b, <2>1, <2>2 DEF InPool, PoolOnce
  <2>5. PoolOnce'
    BY <1>b, <2>1, <2>2 DEF PoolOnce
  <2>6. \A c : (InQueue(c)' <=> InQueue(c)) /\ (WithReader(c)' <=> WithReader(c))
    BY <2>1 DEF InQueue, WithReader
  <2>7. Accounted'
    <3> SUFFICES ASSUME NEW b \in Buffers
                 PROVE  b \in live <=> asm' = b \/ rxm'.data = b \/ InPool(b)' \/ InQueue(b)'
                                        \/ WithReader(b)'
      BY <2>1 DEF Accounted
    <3>1. b \in live <=> asm = b \/ rxm.data = b \/ InPool(b) \/ InQueue(b) \/ WithReader(b)
      BY <1>b DEF Accounted
    <3> QED
      BY <2>1, <2>3, <2>4, <2>6, <3>1, RxAssumption
  <2>8. Apart'
    <3> SUFFICES ASSUME NEW b \in Buffers
                 PROVE  /\ asm' = b => rxm'.data # b /\ ~InPool(b)' /\ ~InQueue(b)' /\ ~WithReader(b)'
                        /\ rxm'.data = b => ~InPool(b)' /\ ~InQueue(b)' /\ ~WithReader(b)'
                        /\ InPool(b)' => ~InQueue(b)' /\ ~WithReader(b)'
                        /\ InQueue(b)' => ~WithReader(b)'
      BY DEF Apart
    <3>1. /\ asm = b => rxm.data # b /\ ~InPool(b) /\ ~InQueue(b) /\ ~WithReader(b)
          /\ InPool(b) => ~InQueue(b) /\ ~WithReader(b)
          /\ InQueue(b) => ~WithReader(b)
      BY <1>b DEF Apart
    <3> QED
      BY <2>1, <2>3, <2>4, <2>6, <3>1
  <2>9. QueueOnce' /\ ReaderOnce' /\ Counted'
    BY <1>b, <2>1 DEF QueueOnce, ReaderOnce, Counted, Busy
  <2> QED
    BY <1>0, <2>5, <2>7, <2>8, <2>9 DEF OwnInv
<1>7. CASE Enqueue
  <2>1. /\ queue' = Append(queue, rxm) /\ rxm' = NoMsg /\ rxm'.data = None
        /\ UNCHANGED <<live, phase, asm, pool, cap, reading>> /\ queue \in Seq(RxMsg) /\ rxm \in RxMsg
    BY <1>0, <1>7, MsgType DEF Enqueue, TypeOK, poolVars
  <2>2. Len(queue) \in Nat /\ Len(queue') = Len(queue) + 1 /\ queue'[Len(queue) + 1] = rxm
        /\ \A i \in 1..Len(queue) : queue'[i] = queue[i]
    BY <2>1
  <2>3. \A b : InQueue(b)' <=> InQueue(b) \/ rxm.data = b
    BY <2>2 DEF InQueue
  <2>4. \A c : (InPool(c)' <=> InPool(c)) /\ (WithReader(c)' <=> WithReader(c))
    BY <2>1 DEF InPool, WithReader
  <2>5. rxm.data # None => rxm.data \in Buffers /\ ~InQueue(rxm.data)
    BY <1>b, <2>1, MsgType DEF Apart
  <2>6. QueueOnce'
    BY <1>b, <2>2, <2>5 DEF QueueOnce, InQueue
  <2>7. Accounted'
    BY <1>b, <2>1, <2>3, <2>4, RxAssumption DEF Accounted
  <2>8. Apart'
    BY <1>b, <2>1, <2>3, <2>4, RxAssumption DEF Apart
  <2>9. PoolOnce' /\ ReaderOnce' /\ Counted'
    BY <1>b, <2>1 DEF PoolOnce, ReaderOnce, Counted
  <2> QED
    BY <1>0, <2>6, <2>7, <2>8, <2>9 DEF OwnInv
<1>8. CASE QueueFull
  <2>1. /\ MsgFree(rxm) /\ rxm' = NoMsg /\ rxm'.data = None /\ rxm \in RxMsg
        /\ UNCHANGED <<phase, asm, queue, reading>> /\ phase \in {"open", "closing"}
    BY <1>0, <1>8, MsgType DEF QueueFull, TypeOK, TypeInv
  <2>2. \A c : (InQueue(c)' <=> InQueue(c)) /\ (WithReader(c)' <=> WithReader(c))
    BY <2>1 DEF InQueue, WithReader
  <2>3. rxm.data # None => rxm.data \in Buffers
    BY <2>1, MsgType
  <2>4. rxm.data # None => rxm.data \in live /\ rxm.data # asm /\ ~InPool(rxm.data)
    BY <1>b, <2>3 DEF Accounted, Apart
  <2>5. \A b \in Buffers :
          (InQueue(b) \/ WithReader(b)) => b # rxm.data
    BY <1>b DEF Apart
  <2>6. QueueOnce' /\ ReaderOnce'
    BY <1>b, <2>1 DEF QueueOnce, ReaderOnce
  <2> QED
    BY <1>0, <2>1, <2>2, <2>4, <2>5, <2>6, OwnFree, RxAssumption DEF Busy
<1>9. ASSUME NEW r \in Readers, Take(r) PROVE OwnInv'
  <2>1. /\ reading[r] = NoMsg /\ reading[r].data = None /\ queue # << >> /\ queue \in Seq(RxMsg)
        /\ reading' = [reading EXCEPT ![r] = Head(queue)] /\ queue' = Tail(queue)
        /\ UNCHANGED <<live, phase, asm, pool, cap, rxm>> /\ reading \in [Readers -> RxMsg]
    BY <1>0, <1>9, MsgType DEF Take, TypeOK, asmVars, poolVars
  <2>2. /\ Len(queue) \in Nat \ {0} /\ Len(queue') = Len(queue) - 1 /\ Head(queue) = queue[1]
        /\ \A i \in 1..(Len(queue) - 1) : queue'[i] = queue[i + 1]
    BY <2>1
  <2>3. \A b \in Buffers : InQueue(b)' <=> InQueue(b) /\ b # Head(queue).data
    BY <1>b, <2>2, QueueTail
  <2>4. \A b \in Buffers : WithReader(b)' <=> WithReader(b) \/ b = Head(queue).data
    BY <2>1, RxAssumption DEF WithReader
  <2>5. \A b \in Buffers : b = Head(queue).data => InQueue(b)
    BY <2>2 DEF InQueue
  <2>6. \A c : InPool(c)' <=> InPool(c)
    BY <2>1 DEF InPool
  <2>7. QueueOnce'
    BY <1>b, <2>2, QueueTailOnce
  <2>8. ReaderOnce'
    <3>1. Head(queue).data # None => Head(queue).data \in Buffers /\ ~WithReader(Head(queue).data)
      <4>1. Head(queue) \in RxMsg
        BY <2>1
      <4> QED
        BY <1>b, <4>1, <2>5, MsgType DEF Apart
    <3> QED
      BY <1>b, <2>1, <3>1 DEF ReaderOnce, WithReader
  <2>9. Accounted'
    BY <1>b, <2>1, <2>3, <2>4, <2>5, <2>6 DEF Accounted
  <2>10. Apart'
    BY <1>b, <2>1, <2>3, <2>4, <2>5, <2>6 DEF Apart
  <2>11. PoolOnce' /\ Counted'
    BY <1>b, <2>1 DEF PoolOnce, Counted
  <2> QED
    BY <1>0, <2>7, <2>8, <2>9, <2>10, <2>11 DEF OwnInv
<1>10. ASSUME NEW r \in Readers, Give(r) PROVE OwnInv'
  <2> DEFINE m == reading[r]
  <2>1. /\ m # NoMsg /\ MsgFree(m) /\ m \in RxMsg /\ NoMsg.data = None
        /\ reading' = [reading EXCEPT ![r] = NoMsg] /\ reading \in [Readers -> RxMsg]
        /\ UNCHANGED <<phase, asm, rxm, queue>> /\ phase \in {"open", "closing"}
    BY <1>0, <1>10, MsgType DEF Give, TypeOK, asmVars, TypeInv, Quiet
  <2>2. m.data # None => m.data \in Buffers /\ WithReader(m.data)
    BY <2>1, MsgType DEF WithReader
  <2>3. m.data # None => m.data \in live /\ m.data # asm /\ ~InPool(m.data)
    BY <1>b, <2>2 DEF Accounted, Apart
  <2>4. \A b \in Buffers : WithReader(b)' <=> WithReader(b) /\ b # m.data
    BY <1>b, <2>1, RxAssumption DEF WithReader, ReaderOnce
  <2>5. \A b \in Buffers : (rxm.data = b \/ InQueue(b)) => b # m.data
    BY <1>b, <2>2, RxAssumption DEF Apart
  <2>6. \A c : InQueue(c)' <=> InQueue(c)
    BY <2>1 DEF InQueue
  <2>7. QueueOnce'
    BY <1>b, <2>1 DEF QueueOnce
  <2>8. ReaderOnce'
    BY <1>b, <2>1 DEF ReaderOnce
  <2> QED
    BY <1>0, <2>1, <2>3, <2>4, <2>5, <2>6, <2>7, <2>8, OwnFree DEF Busy
<1>11. CASE DrainOne
  <2> DEFINE m == Head(queue)
  <2>1. /\ phase = "free" /\ MsgFree(m) /\ m \in RxMsg /\ queue # << >> /\ queue \in Seq(RxMsg)
        /\ queue' = Tail(queue) /\ UNCHANGED <<phase, asm, rxm, reading>>
    BY <1>0, <1>11 DEF DrainOne, TypeOK, asmVars
  <2>2. /\ Len(queue) \in Nat \ {0} /\ Len(queue') = Len(queue) - 1 /\ m = queue[1]
        /\ \A i \in 1..(Len(queue) - 1) : queue'[i] = queue[i + 1]
    BY <2>1
  <2>3. m.data # None => m.data \in Buffers /\ InQueue(m.data)
    BY <2>1, <2>2, MsgType DEF InQueue
  <2>4. m.data # None => m.data \in live /\ m.data # asm /\ ~InPool(m.data)
    BY <1>b, <2>3 DEF Accounted, Apart
  <2>5. \A b \in Buffers : InQueue(b)' <=> InQueue(b) /\ b # m.data
    BY <1>b, <2>2, QueueTail
  <2>6. \A b \in Buffers : (rxm.data = b \/ WithReader(b)) => b # m.data
    BY <1>b, <2>3, RxAssumption DEF Apart
  <2>7. \A c : WithReader(c)' <=> WithReader(c)
    BY <2>1 DEF WithReader
  <2>8. QueueOnce'
    BY <1>b, <2>2, QueueTailOnce
  <2>9. ReaderOnce'
    BY <1>b, <2>1 DEF ReaderOnce
  <2> HIDE DEF m
  <2> QED
    BY <1>0, <2>1, <2>4, <2>5, <2>6, <2>7, <2>8, <2>9, OwnFree DEF Busy
<1> QED
  BY <1>1, <1>2, <1>3, <1>4, <1>5, <1>6, <1>7, <1>8, <1>9, <1>10, <1>11 DEF Next

LEMMA Owned == Spec => []OwnInv
BY OwnInit, OwnStep, PTL DEF Spec

-----------------------------------------------------------------------------
(* The two properties *)

LEMMA AtPlaces ==
  /\ At(<<"asm", 1>>) = asm /\ At(<<"rxm", 1>>) = rxm.data
  /\ \A i : At(<<"pool", i>>) = pool[i]
  /\ \A i : At(<<"queue", i>>) = queue[i].data
  /\ \A r : At(<<"reader", r>>) = reading[r].data
BY DEF At

LEMMA OwnerUnique == OwnInv => OneOwner
<1> SUFFICES ASSUME OwnInv PROVE OneOwner
  OBVIOUS
<1>1. /\ \A b \in live : b \in Buffers /\ b # None
      /\ asm \in Buffers \cup {None} /\ rxm.data \in Buffers \cup {None}
      /\ \A i \in 1..Len(pool) : pool[i] \in Buffers
      /\ \A i \in 1..Len(queue) : queue[i].data \in Buffers \cup {None}
      /\ \A r \in Readers : reading[r].data \in Buffers \cup {None}
  <2>1. TypeOK
    BY DEF OwnInv, TypeInv
  <2>2. \A m \in RxMsg : m.data \in Buffers \cup {None}
    BY MsgType
  <2>3. \A i \in 1..Len(queue) : queue[i] \in RxMsg
    BY <2>1, MsgData
  <2> QED
    BY <2>1, <2>2, <2>3, RxAssumption DEF TypeOK
<1>2. Accounted /\ Apart /\ PoolOnce /\ QueueOnce /\ ReaderOnce
  BY DEF OwnInv
<1>3. ASSUME NEW p \in Occupied, NEW q \in Occupied, At(p) = At(q) PROVE p = q
  <2> DEFINE b == At(p)
  <2>1. b \in Buffers
    BY <1>1, <1>3, AtPlaces DEF Occupied, Places
  <2>2. \/ p = <<"asm", 1>> /\ asm = b
        \/ p = <<"rxm", 1>> /\ rxm.data = b
        \/ \E i \in 1..Len(pool) : p = <<"pool", i>> /\ pool[i] = b
        \/ \E i \in 1..Len(queue) : p = <<"queue", i>> /\ queue[i].data = b
        \/ \E r \in Readers : p = <<"reader", r>> /\ reading[r].data = b
    BY AtPlaces DEF Occupied, Places
  <2>3. \/ q = <<"asm", 1>> /\ asm = b
        \/ q = <<"rxm", 1>> /\ rxm.data = b
        \/ \E i \in 1..Len(pool) : q = <<"pool", i>> /\ pool[i] = b
        \/ \E i \in 1..Len(queue) : q = <<"queue", i>> /\ queue[i].data = b
        \/ \E r \in Readers : q = <<"reader", r>> /\ reading[r].data = b
    BY <1>3, AtPlaces DEF Occupied, Places
  <2> HIDE DEF b
  <2>4. CASE p = <<"asm", 1>> /\ asm = b
    BY <1>2, <2>1, <2>3, <2>4 DEF Apart, InPool, InQueue, WithReader
  <2>5. CASE p = <<"rxm", 1>> /\ rxm.data = b
    BY <1>2, <2>1, <2>3, <2>5 DEF Apart, InPool, InQueue, WithReader
  <2>6. CASE \E i \in 1..Len(pool) : p = <<"pool", i>> /\ pool[i] = b
    BY <1>2, <2>1, <2>3, <2>6 DEF Apart, InPool, InQueue, WithReader, PoolOnce
  <2>7. CASE \E i \in 1..Len(queue) : p = <<"queue", i>> /\ queue[i].data = b
    <3>1. b # None
      BY <2>1, RxAssumption
    <3> QED
      BY <1>2, <2>1, <2>3, <2>7, <3>1 DEF Apart, InPool, InQueue, WithReader, QueueOnce
  <2>8. CASE \E r \in Readers : p = <<"reader", r>> /\ reading[r].data = b
    <3>1. b # None
      BY <2>1, RxAssumption
    <3> QED
      BY <1>2, <2>1, <2>3, <2>8, <3>1 DEF Apart, InPool, InQueue, WithReader, ReaderOnce
  <2> QED
    BY <2>2, <2>4, <2>5, <2>6, <2>7, <2>8
<1>4. ASSUME NEW b \in live PROVE \E p \in Occupied : At(p) = b
  <2>1. b \in Buffers /\ b # None
    BY <1>1
  <2>2. asm = b \/ rxm.data = b \/ InPool(b) \/ InQueue(b) \/ WithReader(b)
    BY <1>2, <2>1 DEF Accounted
  <2>3. \E p \in Places : At(p) = b
    BY <2>2, AtPlaces DEF Places, InPool, InQueue, WithReader
  <2> QED
    BY <2>1, <2>3 DEF Occupied
<1>5. ASSUME NEW p \in Occupied PROVE At(p) \in live
  <2>1. At(p) \in Buffers
    BY <1>1, AtPlaces DEF Occupied, Places
  <2>2. asm = At(p) \/ rxm.data = At(p) \/ InPool(At(p)) \/ InQueue(At(p)) \/ WithReader(At(p))
    BY AtPlaces DEF Occupied, Places, InPool, InQueue, WithReader
  <2> QED
    BY <1>2, <2>1, <2>2 DEF Accounted
<1> QED
  BY <1>3, <1>4, <1>5 DEF OneOwner

\* Every allocated buffer is in exactly one place, whatever the callback, the
\* readers and teardown do, and none is left once the stream is gone.
THEOREM BuffersOwnedOnce == Spec => []OneOwner
BY Owned, OwnerUnique, PTL

LEMMA LiveFixed ==
  OwnInv /\ [Next]_vars => (phase \in {"open", "closing"} => live' = live)
<1> SUFFICES ASSUME OwnInv, [Next]_vars, phase \in {"open", "closing"} PROVE live' = live
  OBVIOUS
<1>0. TypeOK /\ Accounted /\ Apart
  BY DEF OwnInv, TypeInv
<1>1. CASE QueueFull
  <2>1. rxm \in RxMsg /\ MsgFree(rxm) /\ (rxm.data # None => rxm.data \in Buffers)
    BY <1>0, <1>1, MsgType DEF QueueFull, TypeOK
  <2>2. rxm.data # None => rxm.data \in live /\ rxm.data # asm /\ ~InPool(rxm.data)
    BY <1>0, <2>1 DEF Accounted, Apart
  <2> QED
    BY <2>1, <2>2, FreeEffect DEF Busy
<1>2. ASSUME NEW r \in Readers, Give(r) PROVE live' = live
  <2>1. reading[r] \in RxMsg /\ MsgFree(reading[r])
        /\ (reading[r].data # None => reading[r].data \in Buffers)
    BY <1>0, <1>2, MsgType DEF Give, TypeOK
  <2>2. reading[r].data # None =>
          reading[r].data \in live /\ reading[r].data # asm /\ ~InPool(reading[r].data)
    BY <1>0, <2>1 DEF Accounted, Apart, WithReader
  <2> QED
    BY <2>1, <2>2, FreeEffect DEF Busy
<1>3. CASE ~QueueFull /\ ~\E r \in Readers : Give(r)
  BY <1>3 DEF Next, BeginCreate, AddSpare, FinishCreate, CreateFails, Lose, Frame, HandOver,
     CopyOut, NoMemory, Enqueue, Take, Close, BeginFree, DrainOne, FreeBuffers, poolVars, vars
<1> QED
  BY <1>1, <1>2, <1>3

\* Between creation and teardown no buffer is allocated or freed: the pool has
\* room for every buffer that comes back.
THEOREM PoolConserved == Spec => BuffersFixed
<1>1. OwnInv /\ [Next]_vars => [(phase \in {"open", "closing"}) => live' = live]_vars
  BY LiveFixed
<1> QED
  BY <1>1, Owned, PTL DEF Spec, BuffersFixed

-----------------------------------------------------------------------------
(* Messages are received whole and in order.  What is queued or being read is *)
(* in no buffer the callback assembles into, by OwnInv.                       *)

\* Message k as the peer sent it, when z gives the sizes.
Message(z, k) == [i \in 1..z[k] |-> [msg |-> k, frag |-> i]]

\* What a reader of m gets when s is what has been written to the buffers, the
\* number of that message, and that none of it is missing.
TextIn(s, m)  == IF m.from_pool THEN SubSeq(s[m.data], 1, m.len) ELSE m.text
Num(s, m)     == TextIn(s, m)[1].msg
Full(z, s, m) == Num(s, m) \in 1..Msgs /\ TextIn(s, m) = Message(z, Num(s, m))

\* The messages of the queue q and of the readers rd are whole, come in order
\* and come before message b.
InOrder(z, s, q, rd, b) ==
  /\ \A i \in 1..Len(q) : Full(z, s, q[i]) /\ Num(s, q[i]) < b
  /\ \A i, j \in 1..Len(q) : i < j => Num(s, q[i]) < Num(s, q[j])
  /\ \A r \in Readers : rd[r] # NoMsg =>
       /\ Full(z, s, rd[r]) /\ Num(s, rd[r]) < b
       /\ \A i \in 1..Len(q) : Num(s, rd[r]) < Num(s, q[i])

\* The message whose last fragment the callback has just had.
Ended == next.msg - 1

\* What the callback has put together so far.
Assembled ==
  /\ rx # "idle" => next.frag = 1 /\ Ended \in 1..Msgs
  /\ phase \in {"none", "create"} => next.frag = 1
  /\ phase = "open" /\ rx = "idle" /\ next.frag > 1 /\ ~bad /\ ~gap =>
       /\ len = next.frag - 1
       /\ \A i \in 1..len : store[asm][i] = [msg |-> next.msg, frag |-> i]
  /\ rx = "end" => SubSeq(store[asm], 1, len) = Message(size, Ended)
  /\ rx = "queue" => TextIn(store, rxm) = Message(size, Ended)

\* Messages that have left the callback come before this one.
Bound   == IF rx = "idle" THEN next.msg ELSE Ended
Ordered == InOrder(size, store, queue, reading, Bound)

OrderInv == OwnInv /\ Assembled /\ Ordered

-----------------------------------------------------------------------------
(* The order of messages, apart from the state *)

LEMMA MessageNumber ==
  ASSUME NEW z \in [1..Msgs -> 1..MaxFrags], NEW k \in 1..Msgs
  PROVE  Message(z, k)[1].msg = k
<1>1. z[k] \in Nat /\ 1 \in 1..z[k]
  OBVIOUS
<1> QED
  BY <1>1 DEF Message

\* Texts that stay what they are keep the order, if messages only go.
LEMMA Kept ==
  ASSUME NEW z, NEW s, NEW t, NEW q \in Seq(RxMsg), NEW rd, NEW rd2,
         NEW b \in Nat, NEW c \in Nat, b <= c, InOrder(z, s, q, rd, b),
         \A i \in 1..Len(q) : TextIn(t, q[i]) = TextIn(s, q[i]),
         \A r \in Readers : rd2[r] # NoMsg =>
            rd2[r] = rd[r] /\ TextIn(t, rd[r]) = TextIn(s, rd[r])
  PROVE  InOrder(z, t, q, rd2, c)
<1>1. \A i \in 1..Len(q) : /\ Num(t, q[i]) = Num(s, q[i]) /\ Num(s, q[i]) \in Nat
                           /\ Full(z, t, q[i])
  BY DEF InOrder, Num, Full
<1>2. \A r \in Readers : rd2[r] # NoMsg =>
        /\ rd[r] # NoMsg /\ Num(t, rd2[r]) = Num(s, rd[r]) /\ Num(s, rd[r]) \in Nat
        /\ Full(z, t, rd2[r])
  BY DEF InOrder, Num, Full
<1>3. \A n \in Nat : n < b => n < c
  OBVIOUS
<1> QED
  BY <1>1, <1>2, <1>3 DEF InOrder

LEMMA Appended ==
  ASSUME NEW z, NEW s, NEW q \in Seq(RxMsg), NEW rd, NEW m \in RxMsg, NEW k \in Nat,
         InOrder(z, s, q, rd, k), Full(z, s, m), Num(s, m) = k
  PROVE  InOrder(z, s, Append(q, m), rd, k + 1)
<1> DEFINE p == Append(q, m)
<1>1. /\ Len(q) \in Nat /\ Len(p) = Len(q) + 1 /\ p[Len(q) + 1] = m
      /\ \A i \in 1..Len(q) : p[i] = q[i]
  OBVIOUS
<1>2. \A i \in 1..Len(p) : i \in 1..Len(q) \/ i = Len(q) + 1
  BY <1>1
<1>3. \A n \in Nat : n < k => n < k + 1
  OBVIOUS
<1>4. /\ \A i \in 1..Len(q) : Num(s, q[i]) \in Nat
      /\ \A r \in Readers : rd[r] # NoMsg => Num(s, rd[r]) \in Nat
  BY DEF InOrder, Full
<1>5. k < k + 1
  OBVIOUS
<1> HIDE DEF p
<1>6. \A i \in 1..Len(p) : Full(z, s, p[i]) /\ Num(s, p[i]) < k + 1
  BY <1>1, <1>2, <1>3, <1>4, <1>5 DEF InOrder
<1>7. \A i, j \in 1..Len(p) : i < j => Num(s, p[i]) < Num(s, p[j])
  <2> SUFFICES ASSUME NEW i \in 1..Len(p), NEW j \in 1..Len(p), i < j
               PROVE  Num(s, p[i]) < Num(s, p[j])
    OBVIOUS
  <2>1. i \in 1..Len(q)
    BY <1>1
  <2>2. CASE j \in 1..Len(q)
    BY <1>1, <2>1, <2>2 DEF InOrder
  <2>3. CASE j = Len(q) + 1
    BY <1>1, <2>1, <2>3 DEF InOrder
  <2> QED
    BY <1>2, <2>2, <2>3
<1>8. ASSUME NEW r \in Readers, rd[r] # NoMsg
      PROVE  /\ Full(z, s, rd[r]) /\ Num(s, rd[r]) < k + 1
             /\ \A i \in 1..Len(p) : Num(s, rd[r]) < Num(s, p[i])
  <2>1. /\ Full(z, s, rd[r]) /\ Num(s, rd[r]) < k /\ Num(s, rd[r]) \in Nat
        /\ \A i \in 1..Len(q) : Num(s, rd[r]) < Num(s, q[i])
    BY <1>4, <1>8 DEF InOrder
  <2> QED
    BY <1>1, <1>2, <1>3, <2>1
<1>9. InOrder(z, s, p, rd, k + 1)
  BY <1>6, <1>7, <1>8 DEF InOrder
<1> QED
  BY <1>9 DEF p

\* The head of the queue goes, to a reader that has no message or nowhere.
LEMMA Dequeued ==
  ASSUME NEW z, NEW s, NEW q \in Seq(RxMsg), q # << >>, NEW rd, NEW rd2, NEW b \in Nat,
         InOrder(z, s, q, rd, b),
         \A r \in Readers : rd2[r] = rd[r] \/ rd2[r] = Head(q)
  PROVE  InOrder(z, s, Tail(q), rd2, b)
<1> DEFINE p == Tail(q)
<1>1. /\ Len(q) \in Nat \ {0} /\ Len(p) = Len(q) - 1 /\ Head(q) = q[1]
      /\ \A i \in 1..(Len(q) - 1) : p[i] = q[i + 1]
  OBVIOUS
<1> HIDE DEF p
<1>2. \A i \in 1..Len(p) : i + 1 \in 1..Len(q) /\ p[i] = q[i + 1] /\ 1 < i + 1
  BY <1>1
<1>3. \A i \in 1..Len(p) : Full(z, s, p[i]) /\ Num(s, p[i]) < b
  BY <1>2 DEF InOrder
<1>4. \A i, j \in 1..Len(p) : i < j => Num(s, p[i]) < Num(s, p[j])
  <2> SUFFICES ASSUME NEW i \in 1..Len(p), NEW j \in 1..Len(p), i < j
               PROVE  Num(s, p[i]) < Num(s, p[j])
    OBVIOUS
  <2>1. i + 1 < j + 1
    BY <1>1
  <2> QED
    BY <1>2, <2>1 DEF InOrder
<1>5. ASSUME NEW r \in Readers, rd2[r] # NoMsg
      PROVE  /\ Full(z, s, rd2[r]) /\ Num(s, rd2[r]) < b
             /\ \A i \in 1..Len(p) : Num(s, rd2[r]) < Num(s, p[i])
  <2>1. CASE rd2[r] = rd[r]
    BY <1>2, <1>5, <2>1 DEF InOrder
  <2>2. CASE rd2[r] = Head(q)
    <3>1. 1 \in 1..Len(q) /\ rd2[r] = q[1]
      BY <1>1, <2>2
    <3> QED
      BY <1>2, <3>1 DEF InOrder
  <2> QED
    BY <2>1, <2>2
<1>6. InOrder(z, s, p, rd2, b)
  BY <1>3, <1>4, <1>5 DEF InOrder
<1> QED
  BY <1>6 DEF p
-----------------------------------------------------------------------------
(* The callback *)

LEMMA FrameKeepsTexts ==
  ASSUME OwnInv, Frame
  PROVE  /\ \A i \in 1..Len(queue) : TextIn(store', queue[i]) = TextIn(store, queue[i])
         /\ \A r \in Readers : TextIn(store', reading[r]) = TextIn(store, reading[r])
<1>1. TypeInv /\ TypeOK /\ Apart
  BY DEF OwnInv, TypeInv
<1>2. \A b \in Buffers : b # asm => store'[b] = store[b]
  BY <1>1, FrameWrites
<1>3. \A m \in RxMsg : m.data # asm => TextIn(store', m) = TextIn(store, m)
  <2> TAKE m \in RxMsg
  <2>1. m.from_pool => m.data \in Buffers
    BY MsgType
  <2> QED
    BY <1>2, <2>1 DEF TextIn
<1>4. asm \in Buffers
  BY <1>1 DEF TypeInv, TypeOK, Frame, OnWire, Busy
<1>5. /\ \A i \in 1..Len(queue) : queue[i] \in RxMsg /\ queue[i].data # asm
      /\ \A r \in Readers : reading[r] \in RxMsg /\ reading[r].data # asm
  BY <1>1, <1>4, MsgData DEF Apart, InQueue, WithReader
<1> QED
  BY <1>3, <1>5

\* A fragment that does not spoil the message is put behind those before it.
LEMMA FrameAppends ==
  ASSUME OrderInv, Frame,
         ~((next.frag # 1 /\ (bad \/ gap))
             \/ ~((IF next.frag = 1 THEN 0 ELSE len) + 1 <= AsmMax))
  PROVE  /\ len' = next.frag /\ ~bad' /\ store'[asm] \in Seq(Frag)
         /\ Len(store'[asm]) = next.frag
         /\ \A i \in 1..next.frag : store'[asm][i] = [msg |-> next.msg, frag |-> i]
         /\ rx' = IF IsEnd(next) THEN "end" ELSE "idle"
<1> DEFINE at == IF next.frag = 1 THEN 0 ELSE len
<1>1. TypeInv /\ TypeOK /\ Assembled
  BY DEF OrderInv, OwnInv, TypeInv
<1>2. /\ next \in Frag /\ next.frag \in Nat \ {0} /\ asm \in Buffers
      /\ rx = "idle" /\ phase = "open" /\ store[asm] \in Seq(Frag)
      /\ store \in [Buffers -> Seq(Frag)] /\ len \in Nat /\ len <= Len(store[asm])
  <2>1. next \in Frag /\ next.frag \in Nat \ {0}
    BY <1>1 DEF TypeOK, Frame, OnWire, Frag
  <2>2. rx = "idle" /\ phase = "open"
    BY DEF Frame, OnWire
  <2>3. asm \in Buffers /\ len <= Len(store[asm])
    BY <1>1, <2>2 DEF TypeInv, TypeOK, Busy
  <2> QED
    BY <1>1, <2>1, <2>2, <2>3 DEF TypeOK
<1>3. at = next.frag - 1 /\ \A i \in 1..at : store[asm][i] = [msg |-> next.msg, frag |-> i]
  <2>1. CASE next.frag = 1
    BY <2>1
  <2>2. CASE next.frag # 1
    <3>1. next.frag > 1 /\ ~bad /\ ~gap
      BY <1>2, <2>2
    <3> QED
      BY <1>1, <1>2, <2>2, <3>1 DEF Assembled
  <2> QED
    BY <2>1, <2>2
<1>4. at \in Nat /\ at <= Len(store[asm]) /\ at + 1 <= AsmMax
  BY <1>2
<1>5. /\ store' = [store EXCEPT ![asm] = Append(SubSeq(store[asm], 1, at), next)]
      /\ len' = at + 1 /\ bad' = FALSE /\ rx' = IF IsEnd(next) THEN "end" ELSE "idle"
  BY DEF Frame
<1> HIDE DEF at
<1>6. store'[asm] = Append(SubSeq(store[asm], 1, at), next)
  BY <1>2, <1>5
<1>7. /\ SubSeq(store[asm], 1, at) \in Seq(Frag) /\ Len(SubSeq(store[asm], 1, at)) = at
      /\ \A i \in 1..at : SubSeq(store[asm], 1, at)[i] = store[asm][i]
  BY <1>2, <1>4
<1>8. /\ store'[asm] \in Seq(Frag) /\ Len(store'[asm]) = at + 1
      /\ \A i \in 1..at : store'[asm][i] = store[asm][i]
      /\ store'[asm][at + 1] = next
  BY <1>2, <1>4, <1>6, <1>7
<1>9. next = [msg |-> next.msg, frag |-> next.frag] /\ at + 1 = next.frag
  BY <1>2, <1>3 DEF Frag
<1>10. \A i \in 1..next.frag : i \in 1..at \/ i = next.frag
  BY <1>2, <1>3
<1> QED
  BY <1>3, <1>5, <1>8, <1>9, <1>10

LEMMA WholeText ==
  ASSUME NEW t \in Seq(Frag), NEW z \in [1..Msgs -> 1..MaxFrags], NEW k \in 1..Msgs,
         Len(t) = z[k], \A i \in 1..z[k] : t[i] = [msg |-> k, frag |-> i]
  PROVE  SubSeq(t, 1, Len(t)) = Message(z, k)
<1>1. SubSeq(t, 1, Len(t)) = t
  OBVIOUS
<1>2. z[k] \in Nat /\ t = [i \in 1..z[k] |-> t[i]]
  OBVIOUS
<1>3. t = [i \in 1..z[k] |-> [msg |-> k, frag |-> i]]
  BY <1>2
<1> QED
  BY <1>1, <1>3 DEF Message

LEMMA FrameAssembles == OrderInv /\ Frame => Assembled'
<1> SUFFICES ASSUME OrderInv, Frame PROVE Assembled'
  OBVIOUS
<1> DEFINE at == IF next.frag = 1 THEN 0 ELSE len
           spoilt == (next.frag # 1 /\ (bad \/ gap)) \/ ~(at + 1 <= AsmMax)
<1>1. TypeInv /\ TypeOK /\ next.msg <= Msgs /\ rx = "idle" /\ phase = "open"
  BY DEF OrderInv, OwnInv, TypeInv, Frame, OnWire
<1>2. /\ next.msg \in 1..Msgs /\ next.frag \in Nat \ {0} /\ size[next.msg] \in Nat
      /\ size \in [1..Msgs -> 1..MaxFrags]
  <2>1. size \in [1..Msgs -> 1..MaxFrags] /\ next.msg \in 1..Msgs + 1 /\ next.frag \in 1..MaxFrags
    BY <1>1 DEF TypeOK
  <2>2. Msgs \in Nat /\ MaxFrags \in Nat
    BY RxAssumption
  <2>3. next.msg \in 1..Msgs
    BY <1>1, <2>1, <2>2
  <2>4. size[next.msg] \in 1..MaxFrags
    BY <2>1, <2>3
  <2> QED
    BY <2>1, <2>2, <2>3, <2>4
<1>3. next' = After(next) /\ phase' = "open" /\ size' = size /\ asm' = asm
  BY <1>1 DEF Frame
<1>4. IsEnd(next) => next' = [msg |-> next.msg + 1, frag |-> 1]
  BY <1>1, <1>3, AfterType
<1>5. ~IsEnd(next) => next' = [msg |-> next.msg, frag |-> next.frag + 1]
  BY <1>1, <1>3, AfterType
<1>6. CASE spoilt
  <2>1. rx' = "idle" /\ (IsEnd(next) \/ bad')
    BY <1>1, <1>6 DEF Frame
  <2>2. next'.frag > 1 => bad'
    BY <1>4, <2>1
  <2> QED
    BY <1>3, <2>1, <2>2 DEF Assembled
<1>7. CASE ~spoilt
  <2>1. /\ len' = next.frag /\ ~bad' /\ store'[asm] \in Seq(Frag)
        /\ Len(store'[asm]) = next.frag
        /\ \A i \in 1..next.frag : store'[asm][i] = [msg |-> next.msg, frag |-> i]
        /\ rx' = IF IsEnd(next) THEN "end" ELSE "idle"
    BY <1>7, FrameAppends
  <2> HIDE DEF spoilt
  <2>2. CASE IsEnd(next)
    <3>1. next.frag = size[next.msg]
      BY <2>2 DEF IsEnd
    <3>2. SubSeq(store'[asm], 1, len') = Message(size, next.msg)
      <4> DEFINE t == store'[asm]
      <4>1. /\ t \in Seq(Frag) /\ Len(t) = size[next.msg] /\ len' = Len(t)
            /\ \A i \in 1..size[next.msg] : t[i] = [msg |-> next.msg, frag |-> i]
        BY <2>1, <3>1
      <4> HIDE DEF t
      <4>2. SubSeq(t, 1, Len(t)) = Message(size, next.msg)
        BY <1>2, <4>1, WholeText
      <4> QED
        BY <4>1, <4>2 DEF t
    <3>3. next'.frag = 1 /\ next'.msg - 1 = next.msg /\ rx' = "end"
      BY <1>2, <1>4, <2>1, <2>2
    <3> QED
      BY <1>2, <1>3, <3>2, <3>3 DEF Assembled, Ended
  <2>3. CASE ~IsEnd(next)
    <3>1. next'.msg = next.msg /\ next'.frag = next.frag + 1 /\ rx' = "idle"
      BY <1>5, <2>1, <2>3
    <3>2. len' = next'.frag - 1
      BY <1>2, <2>1, <3>1
    <3>3. \A i \in 1..len' : store'[asm'][i] = [msg |-> next'.msg, frag |-> i]
      BY <1>3, <2>1, <3>1
    <3> QED
      BY <1>3, <3>1, <3>2, <3>3 DEF Assembled
  <2> QED
    BY <2>2, <2>3
<1> QED
  BY <1>6, <1>7
-----------------------------------------------------------------------------
(* The invariant *)

LEMMA OrderInit == Init => OrderInv
<1> SUFFICES ASSUME Init PROVE OrderInv
  OBVIOUS
<1>1. OwnInv
  BY OwnInit
<1>2. Assembled
  BY DEF Init, Assembled
<1>3. Len(queue) = 0 /\ \A r \in Readers : reading[r] = NoMsg
  BY DEF Init
<1>4. Ordered
  BY <1>3 DEF Ordered, InOrder
<1> QED
  BY <1>1, <1>2, <1>4 DEF OrderInv

LEMMA AssembledStep == OrderInv /\ [Next]_vars => Assembled'
<1> SUFFICES ASSUME OrderInv, [Next]_vars PROVE Assembled'
  OBVIOUS
<1>1. TypeInv /\ TypeOK /\ Assembled
  BY DEF OrderInv, OwnInv, TypeInv
<1>2. next.msg \in Nat /\ next.frag \in Nat
  BY <1>1 DEF TypeOK
<1>3. ASSUME NEW b \in Buffers, BeginCreate(b) \/ AddSpare(b) PROVE Assembled'
  <2>1. /\ phase' = "create" /\ rx' = "idle" /\ next' = next /\ next.frag = 1
    BY <1>1, <1>3 DEF BeginCreate, AddSpare, TypeInv, Assembled, wireVars, asmVars
  <2> QED
    BY <2>1 DEF Assembled
<1>4. CASE FinishCreate \/ CreateFails \/ BeginFree \/ FreeBuffers
  <2>1. /\ phase' = "open" => next'.frag = 1
        /\ phase' \notin {"none", "create"} /\ rx' = "idle"
    BY <1>1, <1>4 DEF FinishCreate, CreateFails, BeginFree, FreeBuffers, TypeInv, Assembled, wireVars
  <2>2. ~(next'.frag > 1 /\ phase' = "open")
    BY <2>1
  <2> QED
    BY <2>1, <2>2 DEF Assembled
<1>5. CASE Lose
  <2>1. /\ rx' = "idle" /\ phase' = "open" /\ next' = After(next) /\ gap' = ~IsEnd(next)
        /\ next.msg <= Msgs
    BY <1>5 DEF Lose, OnWire
  <2>2. CASE IsEnd(next)
    <3>1. next'.frag = 1 /\ ~(next'.frag > 1)
      BY <1>1, <2>1, <2>2, AfterType
    <3> QED
      BY <2>1, <3>1 DEF Assembled
  <2>3. CASE ~IsEnd(next)
    <3>1. gap'
      BY <2>1, <2>3
    <3> QED
      BY <2>1, <3>1 DEF Assembled
  <2> QED
    BY <2>2, <2>3
<1>6. CASE Frame
  BY <1>6, FrameAssembles
<1>7. CASE HandOver
  <2>1. /\ rx = "end" /\ rx' = "queue" /\ phase' = phase /\ next' = next /\ size' = size
        /\ store' = store
        /\ rxm' = [from_pool |-> TRUE, data |-> asm, len |-> len, text |-> << >>]
    BY <1>7 DEF HandOver, wireVars
  <2>2. TextIn(store, rxm') = SubSeq(store[asm], 1, len)
    BY <2>1 DEF TextIn
  <2>3. (TextIn(store, rxm))' = TextIn(store, rxm')
    BY <2>1 DEF TextIn
  <2> QED
    BY <1>1, <2>1, <2>2, <2>3 DEF Assembled, Ended, Message
<1>8. CASE CopyOut
  <2>1. /\ rx = "end" /\ rx' = "queue" /\ phase' = phase /\ next' = next /\ size' = size
        /\ rxm' = [from_pool |-> FALSE, data |-> None, len |-> len,
                   text |-> SubSeq(store[asm], 1, len)]
    BY <1>8 DEF CopyOut, wireVars
  <2>2. (TextIn(store, rxm))' = SubSeq(store[asm], 1, len)
    BY <2>1 DEF TextIn
  <2> QED
    BY <1>1, <2>1, <2>2 DEF Assembled, Ended, Message
<1>9. CASE NoMemory \/ Enqueue \/ QueueFull
  <2>1. rx # "idle" /\ rx' = "idle" /\ phase' = phase /\ next' = next
    BY <1>9 DEF NoMemory, Enqueue, QueueFull, wireVars
  <2>2. next'.frag = 1 /\ ~(next'.frag > 1)
    BY <1>1, <2>1 DEF Assembled
  <2> QED
    BY <2>1, <2>2 DEF Assembled
<1>10. CASE Close
  <2>1. /\ phase' = "closing"
        /\ UNCHANGED <<next, size, len, store, asm, rx, rxm>>
    BY <1>10 DEF Close, wireVars, asmVars
  <2> QED
    BY <1>1, <2>1 DEF Assembled, Ended, Message, TextIn
<1>11. ASSUME UNCHANGED <<phase, next, size, gap, len, bad, store, asm, rx, rxm>>
       PROVE  Assembled'
  BY <1>1, <1>11 DEF Assembled, Ended, Message, TextIn
<1>12. ASSUME NEW r \in Readers, Take(r) \/ Give(r) PROVE Assembled'
  BY <1>11, <1>12 DEF Take, Give, wireVars, asmVars
<1>13. CASE DrainOne \/ UNCHANGED vars
  BY <1>11, <1>13 DEF DrainOne, vars, wireVars, asmVars
<1> QED
  BY <1>3, <1>4, <1>5, <1>6, <1>7, <1>8, <1>9, <1>10, <1>12, <1>13 DEF Next

LEMMA OrderedStep == OrderInv /\ [Next]_vars => Ordered'
<1> SUFFICES ASSUME OrderInv, [Next]_vars PROVE Ordered'
  OBVIOUS
<1>1. TypeInv /\ TypeOK /\ Assembled /\ InOrder(size, store, queue, reading, Bound)
  BY DEF OrderInv, OwnInv, TypeInv, Ordered
<1>2. /\ next.msg \in Nat /\ queue \in Seq(RxMsg) /\ reading \in [Readers -> RxMsg]
      /\ size \in [1..Msgs -> 1..MaxFrags]
  BY <1>1 DEF TypeOK
<1>3. rx # "idle" => next.msg \in Nat \ {0}
  BY <1>1, <1>2 DEF Assembled, Ended
<1>4. Bound \in Nat
  BY <1>2, <1>3 DEF Bound, Ended
<1>5. ASSUME InOrder(size, store', queue', reading', Bound'), size' = size PROVE Ordered'
  BY <1>5 DEF Ordered
<1>6. size' = size
  BY DEF Next, BeginCreate, AddSpare, FinishCreate, CreateFails, Lose, Frame, HandOver,
     CopyOut, NoMemory, Enqueue, QueueFull, Take, Give, Close, BeginFree, DrainOne,
     FreeBuffers, vars, wireVars
\* Nothing enters or leaves the queue, and texts stay what they are.
<1>7. ASSUME queue' = queue, Bound <= Bound', Bound' \in Nat,
             \A i \in 1..Len(queue) : TextIn(store', queue[i]) = TextIn(store, queue[i]),
             \A r \in Readers : reading'[r] # NoMsg =>
                reading'[r] = reading[r]
                /\ TextIn(store', reading[r]) = TextIn(store, reading[r])
      PROVE  Ordered'
  <2>1. InOrder(size, store', queue, reading', Bound')
    BY <1>1, <1>2, <1>4, <1>7, Kept
  <2> QED
    BY <1>5, <1>6, <1>7, <2>1
<1>8. ASSUME UNCHANGED <<queue, store, next, rx>>,
             \A r \in Readers : reading'[r] # NoMsg => reading'[r] = reading[r]
      PROVE  Ordered'
  <2>1. Bound' = Bound
    BY <1>8 DEF Bound, Ended
  <2>2. Bound <= Bound' /\ Bound' \in Nat
    BY <1>4, <2>1
  <2> QED
    BY <1>7, <1>8, <2>2
<1>9. ASSUME NEW b \in Buffers, BeginCreate(b) \/ AddSpare(b) PROVE Ordered'
  BY <1>8, <1>9 DEF BeginCreate, AddSpare, wireVars, asmVars
<1>10. CASE FinishCreate \/ CreateFails \/ Close \/ BeginFree \/ FreeBuffers \/ UNCHANGED vars
  BY <1>8, <1>10 DEF FinishCreate, CreateFails, Close, BeginFree, FreeBuffers, vars,
     wireVars, asmVars
<1>11. CASE Lose \/ Frame
  <2>1. /\ queue' = queue /\ reading' = reading /\ rx = "idle" /\ next' = After(next)
        /\ next.msg <= Msgs
    BY <1>11 DEF Lose, Frame, OnWire
  <2>2. Lose => rx' = "idle" /\ store' = store
    BY <2>1 DEF Lose, asmVars
  <2>3. /\ IsEnd(next) => next'.msg = next.msg + 1
        /\ ~IsEnd(next) => next'.msg = next.msg
    BY <1>1, <2>1, AfterType
  <2>4. Frame /\ ~IsEnd(next) => rx' = "idle"
    BY <2>1 DEF Frame
  <2>5. Frame => rx' \in {"idle", "end"}
    BY <2>1 DEF Frame
  <2>6. Bound = next.msg /\ Bound' \in {next.msg, next.msg + 1}
    <3>1. Bound = next.msg /\ Bound' = IF rx' = "idle" THEN next'.msg ELSE next'.msg - 1
      BY <2>1 DEF Bound, Ended
    <3>2. CASE IsEnd(next)
      BY <1>2, <2>3, <3>1, <3>2
    <3>3. CASE ~IsEnd(next)
      BY <1>11, <2>2, <2>3, <2>4, <3>1, <3>3
    <3> QED
      BY <3>2, <3>3
  <2>7. Bound <= Bound' /\ Bound' \in Nat
    BY <1>2, <2>6
  <2>8. /\ \A i \in 1..Len(queue) : TextIn(store', queue[i]) = TextIn(store, queue[i])
        /\ \A r \in Readers : TextIn(store', reading[r]) = TextIn(store, reading[r])
    BY <1>11, <2>2, FrameKeepsTexts DEF OrderInv
  <2> QED
    BY <1>7, <2>1, <2>7, <2>8
<1>12. CASE HandOver \/ CopyOut \/ NoMemory \/ QueueFull
  <2>1. /\ UNCHANGED <<queue, reading, store, next>> /\ rx # "idle"
        /\ rx' \in {"idle", "queue"}
    BY <1>12 DEF HandOver, CopyOut, NoMemory, QueueFull, wireVars, asmVars
  <2>2. Bound = next.msg - 1 /\ Bound' \in {next.msg - 1, next.msg}
    BY <2>1 DEF Bound, Ended
  <2>3. Bound <= Bound' /\ Bound' \in Nat
    BY <1>3, <2>1, <2>2
  <2> QED
    BY <1>7, <2>1, <2>3
<1>13. CASE Enqueue
  <2>1. /\ rx = "queue" /\ rx' = "idle" /\ queue' = Append(queue, rxm)
        /\ UNCHANGED <<reading, store, next>>
    BY <1>13 DEF Enqueue, wireVars
  <2>2. rxm \in RxMsg /\ Ended \in 1..Msgs /\ TextIn(store, rxm) = Message(size, Ended)
    BY <1>1, <2>1 DEF TypeOK, Assembled
  <2>3. Num(store, rxm) = Ended /\ Full(size, store, rxm)
    BY <1>2, <2>2, MessageNumber DEF Num, Full
  <2>4. Bound = Ended /\ Ended \in Nat
    BY <2>1, <2>2 DEF Bound
  <2>5. InOrder(size, store, Append(queue, rxm), reading, Ended + 1)
    BY <1>1, <1>2, <2>2, <2>3, <2>4, Appended
  <2>6. Bound' = Ended + 1
    <3>1. Bound' = next.msg
      BY <2>1 DEF Bound
    <3> QED
      BY <1>2, <3>1 DEF Ended
  <2> QED
    BY <1>5, <1>6, <2>1, <2>5, <2>6
<1>14. ASSUME UNCHANGED <<store, next, rx>>, queue # << >>, queue' = Tail(queue),
              \A r \in Readers : reading'[r] = reading[r] \/ reading'[r] = Head(queue)
       PROVE  Ordered'
  <2>1. Bound' = Bound
    BY <1>14 DEF Bound, Ended
  <2>2. InOrder(size, store, Tail(queue), reading', Bound)
    BY <1>1, <1>2, <1>4, <1>14, Dequeued
  <2> QED
    BY <1>5, <1>6, <1>14, <2>1, <2>2
<1>15. ASSUME NEW r \in Readers, Take(r) PROVE Ordered'
  <2>1. /\ UNCHANGED <<store, next, rx>> /\ queue # << >> /\ queue' = Tail(queue)
        /\ reading' = [reading EXCEPT ![r] = Head(queue)]
    BY <1>15 DEF Take, wireVars, asmVars
  <2>2. \A q \in Readers : reading'[q] = reading[q] \/ reading'[q] = Head(queue)
    BY <1>2, <2>1
  <2> QED
    BY <1>14, <2>1, <2>2
<1>16. CASE DrainOne
  <2>1. UNCHANGED <<store, next, rx, reading>> /\ queue # << >> /\ queue' = Tail(queue)
    BY <1>16 DEF DrainOne, wireVars, asmVars
  <2> QED
    BY <1>14, <2>1
<1>17. ASSUME NEW r \in Readers, Give(r) PROVE Ordered'
  <2>1. /\ UNCHANGED <<queue, store, next, rx>>
        /\ reading' = [reading EXCEPT ![r] = NoMsg]
    BY <1>17 DEF Give, wireVars, asmVars
  <2>2. \A q \in Readers : reading'[q] # NoMsg => reading'[q] = reading[q]
    BY <1>2, <2>1
  <2> QED
    BY <1>8, <2>1, <2>2
<1> QED
  BY <1>9, <1>10, <1>11, <1>12, <1>13, <1>15, <1>16, <1>17 DEF Next

LEMMA OrderStep == OrderInv /\ [Next]_vars => OrderInv'
BY OwnStep, AssembledStep, OrderedStep DEF OrderInv

LEMMA OrderDelivers == OrderInv => WholeInOrder
<1> SUFFICES ASSUME OrderInv PROVE WholeInOrder
  OBVIOUS
<1>1. InOrder(size, store, queue, reading, Bound)
  BY DEF OrderInv, Ordered
<1>2. \A m : Text(m) = TextIn(store, m)
  BY DEF Text, TextIn
<1>3. \A m : Full(size, store, m) => Whole(Text(m))
  BY <1>2 DEF Full, Whole, Sent, Message
<1>4. \A m : Text(m)[1].msg = Num(store, m)
  BY <1>2 DEF Num
<1>5. \A i \in 1..Len(queue) : Waiting[i] = Text(queue[i])
  BY DEF Waiting
<1> QED
  BY <1>1, <1>3, <1>4, <1>5 DEF InOrder, WholeInOrder

\* Whatever fragments are lost and however deliveries, full queues, failed
\* allocations, readers and the end of the stream interleave, a message that a
\* reader finds in the queue or has taken off it is complete, and what waits comes
\* in the order in which it was sent, after what is being read.
THEOREM MessagesWholeInOrder == Spec => []WholeInOrder
BY OrderInit, OrderStep, OrderDelivers, PTL DEF Spec

-----------------------------------------------------------------------------
(* The link that only loses *)

TextsIn(s, q) == [i \in 1..Len(q) |-> TextIn(s, q[i])]

LEMMA TextsAppended ==
  ASSUME NEW s, NEW q \in Seq(RxMsg), NEW m \in RxMsg
  PROVE  TextsIn(s, Append(q, m)) = Append(TextsIn(s, q), TextIn(s, m))
<1> DEFINE S == {TextIn(s, k) : k \in RxMsg}
           p == Append(q, m)
           a == TextsIn(s, p)
           b == Append(TextsIn(s, q), TextIn(s, m))
<1>1. /\ Len(q) \in Nat /\ Len(p) = Len(q) + 1 /\ p[Len(q) + 1] = m
      /\ \A i \in 1..Len(q) : p[i] = q[i] /\ q[i] \in RxMsg
  OBVIOUS
<1>2. \A i \in 1..Len(p) : i \in 1..Len(q) \/ i = Len(q) + 1
  BY <1>1
<1>3. \A i \in 1..Len(p) : p[i] \in RxMsg
  BY <1>1, <1>2
<1> HIDE DEF p
<1>4. a \in Seq(S) /\ Len(a) = Len(q) + 1 /\ \A i \in 1..Len(p) : a[i] = TextIn(s, p[i])
  BY <1>1, <1>3 DEF TextsIn
<1>5. TextsIn(s, q) \in Seq(S) /\ Len(TextsIn(s, q)) = Len(q) /\ TextIn(s, m) \in S
  BY <1>1 DEF TextsIn
<1>6. \A i \in 1..Len(q) : TextsIn(s, q)[i] = TextIn(s, q[i])
  BY DEF TextsIn
<1> HIDE DEF S
<1>7. b \in Seq(S) /\ Len(b) = Len(q) + 1 /\ b[Len(q) + 1] = TextIn(s, m)
      /\ \A i \in 1..Len(q) : b[i] = TextIn(s, q[i])
  BY <1>1, <1>5, <1>6
<1> HIDE DEF a, b
<1>8. \A i \in 1..Len(a) : a[i] = b[i]
  BY <1>1, <1>2, <1>4, <1>7
<1>9. a = b
  BY <1>1, <1>4, <1>7, <1>8, SeqEqual
<1> QED
  BY <1>9 DEF a, b, p

LEMMA TextsTaken ==
  ASSUME NEW s, NEW q \in Seq(RxMsg), q # << >>
  PROVE  /\ TextsIn(s, q) # << >> /\ Head(TextsIn(s, q)) = TextIn(s, Head(q))
         /\ TextsIn(s, Tail(q)) = Tail(TextsIn(s, q))
<1> DEFINE S == {TextIn(s, k) : k \in RxMsg}
           p == Tail(q)
           w == TextsIn(s, q)
           a == TextsIn(s, p)
           b == Tail(w)
<1>1. /\ Len(q) \in Nat \ {0} /\ Len(p) = Len(q) - 1 /\ Head(q) = q[1]
      /\ \A i \in 1..(Len(q) - 1) : p[i] = q[i + 1]
      /\ \A i \in 1..Len(q) : q[i] \in RxMsg
  OBVIOUS
<1> HIDE DEF p
<1>2. /\ w \in Seq(S) /\ Len(w) = Len(q) /\ \A i \in 1..Len(q) : w[i] = TextIn(s, q[i])
  BY <1>1 DEF TextsIn
<1>3. a \in Seq(S) /\ Len(a) = Len(q) - 1 /\ \A i \in 1..(Len(q) - 1) : a[i] = TextIn(s, q[i + 1])
  BY <1>1 DEF TextsIn
<1> HIDE DEF S, w, a
<1>4. w # << >> /\ Head(w) = w[1] /\ b \in Seq(S) /\ Len(b) = Len(q) - 1
      /\ \A i \in 1..(Len(q) - 1) : b[i] = w[i + 1]
  BY <1>1, <1>2
<1> HIDE DEF b
<1>5. \A i \in 1..Len(a) : a[i] = b[i]
  <2> TAKE i \in 1..Len(a)
  <2>1. i \in 1..(Len(q) - 1) /\ i + 1 \in 1..Len(q)
    BY <1>1, <1>3
  <2> QED
    BY <1>2, <1>3, <1>4, <2>1
<1>6. a = b
  BY <1>3, <1>4, <1>5, SeqEqual
<1>7. Head(w) = TextIn(s, Head(q))
  BY <1>1, <1>2, <1>4
<1> QED
  BY <1>4, <1>6, <1>7 DEF w, a, b, p

\* Where a step of the stream takes the link.
LEMMA LinkNow ==
  /\ Waiting = TextsIn(store, queue) /\ Waiting' = TextsIn(store', queue')
  /\ \A r \in Readers : Held[r] = TextIn(store, reading[r])
  /\ \A r \in Readers : Held'[r] = TextIn(store', reading'[r])
  /\ Held = [r \in Readers |-> Held[r]] /\ Held' = [r \in Readers |-> Held'[r]]
BY DEF Waiting, TextsIn, TextIn, Text, Held

\* What waits and what is read stay as they are: the link is still, or loses
\* the next message.
LEMMA LinkStill ==
  ASSUME queue' = queue, reading' = reading, size' = size,
         \A i \in 1..Len(queue) : TextIn(store', queue[i]) = TextIn(store, queue[i]),
         \A r \in Readers : TextIn(store', reading[r]) = TextIn(store, reading[r])
  PROVE  Waiting' = Waiting /\ Held' = Held /\ Sent' = Sent
<1>1. TextsIn(store', queue) = TextsIn(store, queue)
  BY DEF TextsIn
<1>2. Waiting' = Waiting
  BY <1>1, LinkNow
<1>3. Held' = Held
  BY LinkNow
<1>4. Sent' = Sent
  BY DEF Sent
<1> QED
  BY <1>2, <1>3, <1>4

\* Which message has reached the callback, and when it is done with it.
LEMMA PassedNow ==
  ASSUME OrderInv
  PROVE  /\ rx = "idle" => Passed = next.msg - 1
         /\ rx # "idle" => Passed = next.msg - 2 /\ Passed \in Nat /\ Passed < Msgs /\ ~Over
                             /\ Passed + 1 = Ended /\ Ended \in 1..Msgs
         /\ next.msg \in 1..(Msgs + 1) /\ Passed \in Nat
<1>1. next.msg \in 1..(Msgs + 1)
  BY DEF OrderInv, OwnInv, TypeInv, TypeOK
<1>2. CASE rx = "idle"
  BY <1>1, <1>2 DEF Passed
<1>3. CASE rx # "idle"
  <2>1. next.msg - 1 \in 1..Msgs /\ phase \in {"open", "closing"}
    BY <1>3 DEF OrderInv, Assembled, Ended, OwnInv, TypeInv
  <2> QED
    BY <1>1, <1>3, <2>1 DEF Passed, Ended, Over
<1> QED
  BY <1>1, <1>2, <1>3

LEMMA LinkInit == Init => Link!Init
<1> SUFFICES ASSUME Init PROVE Link!Init
  OBVIOUS
<1>1. Sent \in [1..Msgs -> Seq(Frag) \ {<< >>}]
  <2>1. ASSUME NEW m \in 1..Msgs
        PROVE  [i \in 1..size[m] |-> [msg |-> m, frag |-> i]] \in Seq(Frag) \ {<< >>}
    <3>1. size[m] \in 1..MaxFrags
      BY <2>1 DEF Init
    <3>2. \A i \in 1..size[m] : [msg |-> m, frag |-> i] \in Frag
      BY <3>1 DEF Frag
    <3> DEFINE f(i) == [msg |-> m, frag |-> i]
               s == [i \in 1..size[m] |-> f(i)]
    <3> HIDE DEF f
    <3>3. s \in Seq(Frag) /\ Len(s) = size[m]
      <4>1. \A i \in 1..size[m] : f(i) \in Frag
        BY <3>2 DEF f
      <4> QED
        BY <3>1, <4>1
    <3>4. s # << >>
      <4> HIDE DEF s
      <4> QED
        BY <3>1, <3>3
    <3> QED
      BY <3>3, <3>4 DEF f
  <2> QED
    BY <2>1 DEF Sent
<1>2. Passed = 0
  BY DEF Init, Passed
<1>3. Waiting = << >>
  BY DEF Init, Waiting
<1>4. Held = [r \in Readers |-> << >>]
  BY DEF Init, Held, Text, NoMsg
<1>5. Over = FALSE
  BY DEF Init, Over
<1> QED
  BY <1>1, <1>2, <1>3, <1>4, <1>5 DEF Link!Init

LEMMA LinkStep == OrderInv /\ [Next]_vars => [Link!Next]_(Link!vars)
<1> SUFFICES ASSUME OrderInv, [Next]_vars PROVE [Link!Next]_(Link!vars)
  OBVIOUS
<1> DEFINE Still == Waiting' = Waiting /\ Held' = Held /\ Sent' = Sent
<1>1. TypeInv /\ TypeOK /\ Assembled /\ InOrder(size, store, queue, reading, Bound)
  BY DEF OrderInv, OwnInv, TypeInv, Ordered
<1>2. /\ queue \in Seq(RxMsg) /\ reading \in [Readers -> RxMsg]
      /\ size \in [1..Msgs -> 1..MaxFrags]
  BY <1>1 DEF TypeOK
<1>3. /\ rx = "idle" => Passed = next.msg - 1
      /\ rx # "idle" => Passed = next.msg - 2 /\ Passed < Msgs /\ ~Over
      /\ next.msg \in 1..(Msgs + 1) /\ Passed \in Nat
  BY PassedNow
<1>4. Passed' = IF rx' = "idle" THEN next'.msg - 1 ELSE next'.msg - 2
  BY DEF Passed
<1>5. ASSUME UNCHANGED <<queue, reading, size>>,
             \/ store' = store
             \/ Frame
      PROVE  Still
  <2>1. /\ \A i \in 1..Len(queue) : TextIn(store', queue[i]) = TextIn(store, queue[i])
        /\ \A r \in Readers : TextIn(store', reading[r]) = TextIn(store, reading[r])
    BY <1>5, FrameKeepsTexts DEF OrderInv
  <2> QED
    BY <1>5, <2>1, LinkStill
<1>6. ASSUME Still, Passed' = Passed, Over' = Over PROVE [Link!Next]_(Link!vars)
  BY <1>6 DEF Link!vars
<1>7. ASSUME Still, Passed' = Passed + 1, Passed < Msgs, ~Over, Over' = Over
      PROVE  [Link!Next]_(Link!vars)
  BY <1>7 DEF Link!Next, Link!Pass
<1>8. ASSUME Still, Passed' = Passed, ~Over, Over', \A r \in Readers : reading[r] = NoMsg
      PROVE  [Link!Next]_(Link!vars)
  <2>1. \A r \in Readers : Held[r] = << >>
    BY <1>8 DEF Held, Text, NoMsg
  <2>2. Over' = TRUE
    BY <1>8 DEF Over
  <2> QED
    BY <1>8, <2>1, <2>2 DEF Link!Next, Link!End
<1> HIDE DEF Still
<1>9. ASSUME NEW b \in Buffers, BeginCreate(b) \/ AddSpare(b)
      PROVE  [Link!Next]_(Link!vars)
  <2>1. /\ UNCHANGED <<queue, reading, size, store, next, rx>>
        /\ Over' = Over
    BY <1>9 DEF BeginCreate, AddSpare, wireVars, asmVars, Over
  <2> QED
    BY <1>4, <1>5, <1>6, <2>1 DEF Passed
<1>10. CASE FinishCreate \/ Close \/ FreeBuffers \/ UNCHANGED vars
  <2>1. /\ UNCHANGED <<queue, reading, size, store, next, rx>>
        /\ Over' = Over
    BY <1>10 DEF FinishCreate, Close, FreeBuffers, vars, wireVars, asmVars, Over
  <2> QED
    BY <1>4, <1>5, <1>6, <2>1 DEF Passed
<1>11. CASE CreateFails \/ BeginFree
  <2>1. /\ UNCHANGED <<queue, reading, size, store, next, rx>> /\ ~Over /\ Over'
        /\ \A r \in Readers : reading[r] = NoMsg
    BY <1>1, <1>11 DEF CreateFails, BeginFree, wireVars, asmVars, Over, TypeInv, Quiet
  <2> QED
    BY <1>4, <1>5, <1>8, <2>1 DEF Passed
<1>12. CASE Lose \/ Frame
  <2>1. /\ UNCHANGED <<queue, reading, size, phase>> /\ rx = "idle" /\ next' = After(next)
        /\ next.msg <= Msgs /\ ~Over /\ Over' = Over
    BY <1>12 DEF Lose, Frame, OnWire, Over
  <2>2. Still
    BY <1>5, <1>12, <2>1 DEF Lose, asmVars
  <2>3. /\ IsEnd(next) => next'.msg = next.msg + 1
        /\ ~IsEnd(next) => next'.msg = next.msg
    BY <1>1, <2>1, AfterType
  <2>4. /\ rx' \in {"idle", "end"}
        /\ ~IsEnd(next) => rx' = "idle"
    BY <1>12, <2>1 DEF Lose, Frame
  <2>5. CASE IsEnd(next) /\ rx' = "idle"
    <3>1. Passed' = Passed + 1 /\ Passed < Msgs
      BY <1>3, <1>4, <2>1, <2>3, <2>5
    <3> QED
      BY <1>7, <2>1, <2>2, <3>1
  <2>6. CASE ~(IsEnd(next) /\ rx' = "idle")
    <3>1. Passed' = Passed
      BY <1>3, <1>4, <2>1, <2>3, <2>4, <2>6
    <3> QED
      BY <1>6, <2>1, <2>2, <3>1
  <2> QED
    BY <2>5, <2>6
<1>13. CASE HandOver \/ CopyOut
  <2>1. /\ UNCHANGED <<queue, reading, size, store, next, phase>>
        /\ rx = "end" /\ rx' = "queue"
    BY <1>13 DEF HandOver, CopyOut, wireVars, asmVars
  <2>2. Passed' = Passed /\ Over' = Over
    BY <2>1 DEF Passed, Over
  <2> QED
    BY <1>5, <1>6, <2>1, <2>2
<1>14. CASE NoMemory \/ QueueFull
  <2>1. /\ UNCHANGED <<queue, reading, size, store, next, phase>>
        /\ rx # "idle" /\ rx' = "idle"
    BY <1>14 DEF NoMemory, QueueFull, wireVars, asmVars
  <2>2. Passed' = Passed + 1 /\ Over' = Over
    BY <1>3, <1>4, <2>1 DEF Over
  <2> QED
    BY <1>3, <1>5, <1>7, <2>1, <2>2
<1>15. CASE Enqueue
  <2>1. /\ rx = "queue" /\ rx' = "idle" /\ queue' = Append(queue, rxm)
        /\ UNCHANGED <<reading, size, store, next, phase>>
    BY <1>15 DEF Enqueue, wireVars
  <2>2. Passed' = Passed + 1 /\ Over' = Over /\ ~Over /\ Passed < Msgs
    BY <1>3, <1>4, <2>1 DEF Over
  <2>3. TextIn(store, rxm) = Sent[Passed + 1]
    <3>1. Passed + 1 = Ended /\ Ended \in 1..Msgs
      BY <2>1, PassedNow
    <3>2. TextIn(store, rxm) = Message(size, Ended)
      BY <1>1, <2>1 DEF Assembled
    <3> QED
      BY <3>1, <3>2 DEF Sent, Message
  <2>4. Waiting' = Append(Waiting, Sent[Passed + 1])
    <3>1. rxm \in RxMsg
      BY <1>1 DEF TypeOK
    <3>2. TextsIn(store', queue') = Append(TextsIn(store, queue), TextIn(store, rxm))
      BY <1>2, <2>1, <3>1, TextsAppended
    <3> QED
      BY <2>3, <3>2, LinkNow
  <2>5. Held' = Held /\ Sent' = Sent
    BY <2>1, LinkNow DEF Sent
  <2> QED
    BY <2>2, <2>4, <2>5 DEF Link!Next, Link!Pass
<1>16. ASSUME UNCHANGED <<size, store, next, rx>>, queue # << >>, queue' = Tail(queue)
       PROVE  /\ Passed' = Passed /\ Sent' = Sent
              /\ Waiting # << >> /\ Waiting' = Tail(Waiting)
              /\ Head(Waiting) = TextIn(store, Head(queue))
  <2>1. Passed' = Passed /\ Sent' = Sent
    BY <1>16 DEF Passed, Sent
  <2>2. /\ TextsIn(store, queue) # << >>
        /\ Head(TextsIn(store, queue)) = TextIn(store, Head(queue))
        /\ TextsIn(store, Tail(queue)) = Tail(TextsIn(store, queue))
    BY <1>2, <1>16, TextsTaken
  <2> QED
    BY <1>16, <2>1, <2>2, LinkNow
<1>17. ASSUME NEW r \in Readers, Take(r) PROVE [Link!Next]_(Link!vars)
  <2>1. /\ UNCHANGED <<size, store, next, rx, phase>> /\ queue # << >>
        /\ queue' = Tail(queue) /\ phase = "open" /\ reading[r] = NoMsg
        /\ reading' = [reading EXCEPT ![r] = Head(queue)]
    BY <1>17 DEF Take, wireVars, asmVars
  <2>2. ~Over /\ Over' = Over
    BY <2>1 DEF Over
  <2>3. Held[r] = << >>
    BY <2>1 DEF Held, Text, NoMsg
  <2>4. Held' = [Held EXCEPT ![r] = Head(Waiting)]
    <3>1. Head(Waiting) = TextIn(store, Head(queue))
      BY <1>16, <2>1
    <3>2. \A q \in Readers : Held'[q] = IF q = r THEN Head(Waiting) ELSE Held[q]
      BY <1>2, <2>1, <3>1, LinkNow
    <3> QED
      BY <3>2, LinkNow
  <2>5. Link!Receive(r)
    BY <1>16, <2>1, <2>2, <2>3, <2>4 DEF Link!Receive
  <2> QED
    BY <2>5 DEF Link!Next
<1>18. ASSUME NEW r \in Readers, Give(r) PROVE [Link!Next]_(Link!vars)
  <2>1. /\ UNCHANGED <<queue, size, store, next, rx, phase>> /\ reading[r] # NoMsg
        /\ reading' = [reading EXCEPT ![r] = NoMsg]
    BY <1>18 DEF Give, wireVars, asmVars
  <2>2. Held[r] # << >>
    <3>1. Full(size, store, reading[r])
      BY <1>1, <2>1 DEF InOrder
    <3>2. PICK k \in 1..Msgs : TextIn(store, reading[r]) = Message(size, k)
      BY <3>1 DEF Full
    <3>3. Message(size, k) # << >>
      <4>1. size[k] \in 1..MaxFrags /\ DOMAIN Message(size, k) = 1..size[k]
        BY <1>2 DEF Message
      <4>2. 1 \in DOMAIN Message(size, k) /\ 1 \notin DOMAIN << >>
        BY <4>1
      <4> QED
        BY <4>2
    <3> QED
      BY <3>2, <3>3, LinkNow
  <2>3. Held' = [Held EXCEPT ![r] = << >>]
    <3>1. TextIn(store, NoMsg) = << >>
      BY DEF TextIn, NoMsg
    <3>2. \A q \in Readers : Held'[q] = IF q = r THEN << >> ELSE Held[q]
      BY <1>2, <2>1, <3>1, LinkNow
    <3> QED
      BY <3>2, LinkNow
  <2>4. Waiting' = Waiting /\ Sent' = Sent /\ Passed' = Passed /\ Over' = Over
    BY <2>1, LinkNow DEF Sent, Passed, Over
  <2>5. Link!Return(r)
    BY <2>2, <2>3, <2>4 DEF Link!Return
  <2> QED
    BY <2>5 DEF Link!Next
<1>19. CASE DrainOne
  <2>1. /\ UNCHANGED <<size, store, next, rx, phase, reading>> /\ queue # << >>
        /\ queue' = Tail(queue) /\ phase = "free"
    BY <1>19 DEF DrainOne, wireVars, asmVars
  <2>2. Over /\ Over' = Over /\ Held' = Held
    BY <2>1, LinkNow DEF Over
  <2>3. Link!Discard
    BY <1>16, <2>1, <2>2 DEF Link!Discard
  <2> QED
    BY <2>3 DEF Link!Next
<1> QED
  BY <1>9, <1>10, <1>11, <1>12, <1>13, <1>14, <1>15, <1>17, <1>18, <1>19 DEF Next

\* Whatever fragments and messages are lost and however deliveries, full queues,
\* failed allocations, readers and teardown interleave, a stream is a link that
\* only loses messages: each message passes once, in the order sent, whole or
\* not at all; what waits and what is being read never changes; a message leaves
\* only to a reader or at the end of the stream.
THEOREM StreamOnlyLoses == Spec => LinkSpec
<1>1. Spec => []OrderInv
  BY OrderInit, OrderStep, PTL DEF Spec
<1> QED
  BY <1>1, LinkInit, LinkStep, PTL DEF Spec, LinkSpec, Link!Spec
=============================================================================
