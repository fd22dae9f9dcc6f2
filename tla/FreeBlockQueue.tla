--------------------------- MODULE FreeBlockQueue ---------------------------
(***************************************************************************)
(* FreeKVCacheBlockQueue of v1/core/kv_cache_utils.py: the free KV blocks  *)
(* as a doubly linked list threaded through the blocks themselves, between *)
(* a fake head and a fake tail.                                            *)
(*                                                                         *)
(* The caller is the block pool, which is not in the repository.  It is    *)
(* modelled by the set of blocks it holds a reference to: it removes only  *)
(* free blocks (a cache hit on one) and puts back only blocks it holds.    *)
(***************************************************************************)
EXTENDS Integers, Sequences, FiniteSets, Functions

CONSTANT NumBlocks   \* num_gpu_blocks

ASSUME NumBlocksAssumption == NumBlocks \in Nat \ {0}

Blocks   == 1..NumBlocks
FakeHead == 0                 \* fake_free_list_head
FakeTail == NumBlocks + 1     \* fake_free_list_tail
None     == -1
Nodes    == 0..(NumBlocks + 1)

\* The block lists a caller passes or receives: no block twice.
BlockLists ==
  UNION {{l \in [1..k -> Blocks] : IsInjective(l)} : k \in 1..NumBlocks}
Lists(S) == {l \in BlockLists : Range(l) \subseteq S}

VARIABLES
  next,   \* next_free_block of every block and of the two fakes
  prev,   \* prev_free_block
  num,    \* num_free_blocks
  held,   \* blocks the pool has handed out
  call    \* the last call and the blocks it was given or returned

vars == <<next, prev, num, held, call>>

Init ==
  /\ next = [x \in Nodes |-> IF x = FakeTail THEN None ELSE x + 1]
  /\ prev = [x \in Nodes |-> x - 1]
  /\ num = NumBlocks
  /\ held = {}
  /\ call = <<"init", << >>>>

Popleft ==
  LET first == next[FakeHead]
  IN  /\ first \notin {FakeTail, None} /\ next[first] # None
      /\ next' = [next EXCEPT ![FakeHead] = next[first], ![first] = None]
      /\ prev' = [prev EXCEPT ![next[first]] = FakeHead, ![first] = None]
      /\ num' = num - 1
      /\ held' = held \cup {first}
      /\ call' = <<"popleft", <<first>>>>

\* The first blocks along the list, as the loop of popleft_n collects them.
Leading(l) ==
  /\ l[1] = next[FakeHead]
  /\ \A i \in 1..(Len(l) - 1) : l[i + 1] = next[l[i]]

\* Bug variant: the new first block still points back at a popped one.
PopleftN_StaleBack ==
  \E l \in BlockLists :
    LET curr == next[l[Len(l)]]
    IN  /\ Len(l) <= num /\ Leading(l)
        /\ next' = [x \in Nodes |->
                      IF x \in Range(l) THEN None
                      ELSE IF x = FakeHead /\ curr # None THEN curr ELSE next[x]]
        /\ prev' = [x \in Nodes |-> IF x \in Range(l) THEN None ELSE prev[x]]
        /\ num' = num - Len(l)
        /\ held' = held \cup Range(l)
        /\ call' = <<"popleft", l>>

\* popleft_n for some n > 0.
PopleftN ==
  \E l \in BlockLists :
    LET curr == next[l[Len(l)]]
    IN  /\ Len(l) <= num /\ Leading(l)
        /\ next' = [x \in Nodes |->
                      IF x \in Range(l) THEN None
                      ELSE IF x = FakeHead /\ curr # None THEN curr ELSE next[x]]
        /\ prev' = [x \in Nodes |->
                      IF x \in Range(l) THEN None
                      ELSE IF x = curr THEN FakeHead ELSE prev[x]]
        /\ num' = num - Len(l)
        /\ held' = held \cup Range(l)
        /\ call' = <<"popleft", l>>

\* A cache hit takes a free block out of the middle.
Remove ==
  \E b \in Blocks \ held :
    /\ prev[b] # None /\ next[b] # None
    /\ next' = [next EXCEPT ![prev[b]] = next[b], ![b] = None]
    /\ prev' = [prev EXCEPT ![next[b]] = prev[b], ![b] = None]
    /\ num' = num - 1
    /\ held' = held \cup {b}
    /\ call' = <<"remove", <<b>>>>

\* Bug variant: the counter is left alone.
Append1_NoCount ==
  \E b \in held :
    /\ prev[FakeTail] # None
    /\ next' = [next EXCEPT ![prev[FakeTail]] = b, ![b] = FakeTail]
    /\ prev' = [prev EXCEPT ![b] = prev[FakeTail], ![FakeTail] = b]
    /\ num' = num
    /\ held' = held \ {b}
    /\ call' = <<"append", <<b>>>>

\* append.
Append1 ==
  \E b \in held :
    /\ prev[FakeTail] # None
    /\ next' = [next EXCEPT ![prev[FakeTail]] = b, ![b] = FakeTail]
    /\ prev' = [prev EXCEPT ![b] = prev[FakeTail], ![FakeTail] = b]
    /\ num' = num + 1
    /\ held' = held \ {b}
    /\ call' = <<"append", <<b>>>>

\* Links the nodes of c one after another, both ways.
Splice(c) ==
  LET at(x) == CHOOSE i \in 1..Len(c) : c[i] = x
  IN  /\ next' = [x \in Nodes |->
                    IF x \in {c[i] : i \in 1..(Len(c) - 1)}
                      THEN c[at(x) + 1] ELSE next[x]]
      /\ prev' = [x \in Nodes |->
                    IF x \in {c[i] : i \in 2..Len(c)}
                      THEN c[at(x) - 1] ELSE prev[x]]

\* Bug variant: the blocks go in one by one at the front, which turns the
\* eviction order of a request's blocks around.
PrependN_OneByOne ==
  \E l \in Lists(held) :
    /\ next[FakeHead] # None
    /\ Splice(<<FakeHead>> \o [i \in 1..Len(l) |-> l[Len(l) + 1 - i]]
                \o <<next[FakeHead]>>)
    /\ num' = num + Len(l)
    /\ held' = held \ Range(l)
    /\ call' = <<"prepend", l>>

PrependN ==
  \E l \in Lists(held) :
    /\ next[FakeHead] # None
    /\ Splice(<<FakeHead>> \o l \o <<next[FakeHead]>>)
    /\ num' = num + Len(l)
    /\ held' = held \ Range(l)
    /\ call' = <<"prepend", l>>

AppendN ==
  \E l \in Lists(held) :
    /\ prev[FakeTail] # None
    /\ Splice(<<prev[FakeTail]>> \o l \o <<FakeTail>>)
    /\ num' = num + Len(l)
    /\ held' = held \ Range(l)
    /\ call' = <<"append", l>>

Next == Popleft \/ PopleftN \/ Remove \/ Append1 \/ PrependN \/ AppendN

Spec == Init /\ [][Next]_vars

-----------------------------------------------------------------------------
(* Properties *)

\* Every variable keeps its shape.
TypeOK ==
  /\ next \in [Nodes -> Nodes \cup {None}]
  /\ prev \in [Nodes -> Nodes \cup {None}]
  /\ num \in 0..NumBlocks
  /\ held \subseteq Blocks
  /\ call \in {"init", "popleft", "remove", "append", "prepend"}
               \X (BlockLists \cup {<< >>})

\* The list l between its two fakes, and the two chains of links that make it.
At(l, i) == IF i = 0 THEN FakeHead ELSE IF i > Len(l) THEN FakeTail ELSE l[i]
Represents(l) ==
  \A i \in 0..Len(l) :
    /\ next[At(l, i)] = At(l, i + 1)
    /\ prev[At(l, i + 1)] = At(l, i)

FreeLists == BlockLists \cup {<< >>}

\* Both chains run through the same blocks in opposite orders; they are
\* exactly the blocks nobody holds, and the counter counts them.
ListSound ==
  \E l \in FreeLists :
    /\ Represents(l)
    /\ Range(l) = Blocks \ held
    /\ Len(l) = num

\* None of the errors the code raises on a list out of sync can occur: the
\* counter and the list are empty together, free blocks are linked on both
\* sides and the fakes always have their neighbours.
NeverRaises ==
  /\ next[FakeHead] \notin {None} /\ prev[FakeTail] # None
  /\ next[FakeHead] = FakeTail <=> num = 0
  /\ \A b \in Blocks \ held : prev[b] # None /\ next[b] # None

\* The eviction order.
FreeList == CHOOSE l \in FreeLists : Represents(l)
Order == INSTANCE BlockOrder WITH free <- FreeList

\* The linked list implements the sequence of free blocks.
OrderSpec == Order!Spec
=============================================================================
