------------------------------ MODULE MCRxPool -------------------------------
(* Instance of RxPool for TLC. *)
EXTENDS RxPool, TLC

RxSymmetry == Permutations(Buffers) \cup Permutations(Readers)
=============================================================================
