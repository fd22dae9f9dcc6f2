------------------------------ MODULE MCOdlAr2 ------------------------------
(* Instances of OdlAr2 for TLC: the sizes and the faults a run allows. *)
EXTENDS OdlAr2

\* every sequence of sizes
AnyShapes == [1..Rounds -> 1..MaxSize]

\* sizes that never shrink, so that a replayed round is never cut short
GrowingShapes == {f \in AnyShapes : \A k \in 1..(Rounds - 1) : f[k] <= f[k + 1]}

\* one size throughout, as within one decode step
UniformShapes == {f \in AnyShapes : \A k \in 1..Rounds : f[k] = MaxSize}

NoFaults == [r \in Ranks |-> {}]

\* Rank 1 may lose what it sends, fail at anything and leave; rank 0 gives up waiting.
FaultyPeer == [r \in Ranks |-> IF r = 0 THEN {"timeout"} ELSE Events \ {"timeout"}]
=============================================================================
