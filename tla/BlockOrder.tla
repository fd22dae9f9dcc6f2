----------------------------- MODULE BlockOrder -----------------------------
(***************************************************************************)
(* What the free list of the KV cache promises the block pool: the free    *)
(* blocks in eviction order.  Allocation takes them from the front, a      *)
(* cache hit takes one from anywhere, a freed request puts its blocks at   *)
(* the back, or at the front to be reused first.                           *)
(***************************************************************************)
EXTENDS Naturals, SequencesExt

CONSTANT NumBlocks

Blocks == 1..NumBlocks

\* Non-empty lists of different members of S.
BlockLists ==
  UNION {{l \in [1..k -> Blocks] : IsInjective(l)} : k \in 1..NumBlocks}
Lists(S) == {l \in BlockLists : ToSet(l) \subseteq S}

VARIABLES
  free,   \* the free blocks, the next to be evicted first
  call    \* the last call and the blocks it was given or returned

Init == free = [i \in Blocks |-> i] /\ call = <<"init", << >>>>

Allocate ==
  \E n \in 1..Len(free) :
    /\ call' = <<"popleft", SubSeq(free, 1, n)>>
    /\ free' = SubSeq(free, n + 1, Len(free))

Reclaim ==
  \E i \in 1..Len(free) :
    /\ call' = <<"remove", <<free[i]>>>>
    /\ free' = RemoveAt(free, i)

Retire ==
  \E bs \in Lists(Blocks \ ToSet(free)) :
    /\ call' = <<"append", bs>>
    /\ free' = free \o bs

Discard ==
  \E bs \in Lists(Blocks \ ToSet(free)) :
    /\ call' = <<"prepend", bs>>
    /\ free' = bs \o free

Next == Allocate \/ Reclaim \/ Retire \/ Discard

Spec == Init /\ [][Next]_<<free, call>>
=============================================================================
