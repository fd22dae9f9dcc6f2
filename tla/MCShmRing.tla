----------------------------- MODULE MCShmRing ------------------------------
(* Instances of ShmRing for TLC. *)
EXTENDS ShmRing, TLC

\* With 16-byte chunks: the largest message that is sent inline, out-of-band
\* buffer included, and the smallest that does not fit.
Fits == [main |-> 1, oob |-> 4, parts |-> 1]
Big  == [main |-> 2, oob |-> 4, parts |-> 1]

\* One inline message among big ones, more of them than the ring has blocks.
Mixed == [m \in Messages |-> IF m = 2 THEN Fits ELSE Big]
AllBig == [m \in Messages |-> Big]

\* Readers differ in name only; used where no liveness property is checked.
ReaderSymmetry == Permutations(Readers)
=============================================================================
