---------------------------- MODULE LockstepSum ----------------------------
(***************************************************************************)
(* What a two-rank all-reduce promises its callers.  A rank contributes to *)
(* a round once it has completed the previous one, and completes the round *)
(* only after both ranks contributed to it; what it adds is the other      *)
(* rank's contribution to that very round.                                 *)
(***************************************************************************)
EXTENDS Naturals, Sequences

CONSTANT Rounds    \* number of rounds

Ranks == {0, 1}
Peer(r) == 1 - r

VARIABLES
  contributed,  \* contributed[r]: rounds rank r has given its data to
  completed,    \* completed[r]: rounds rank r has the sum of
  added         \* added[r][k]: the round whose peer data went into sum k

vars == <<contributed, completed, added>>

Init ==
  /\ contributed = [r \in Ranks |-> 0]
  /\ completed = [r \in Ranks |-> 0]
  /\ added = [r \in Ranks |-> << >>]

Contribute(r) ==
  /\ contributed[r] = completed[r] /\ contributed[r] < Rounds
  /\ contributed' = [contributed EXCEPT ![r] = @ + 1]
  /\ UNCHANGED <<completed, added>>

Complete(r) ==
  LET k == completed[r] + 1 IN
  /\ k <= contributed[r] /\ k <= contributed[Peer(r)]
  /\ completed' = [completed EXCEPT ![r] = k]
  /\ added' = [added EXCEPT ![r] = Append(@, k)]
  /\ UNCHANGED contributed

Next == \E r \in Ranks : Contribute(r) \/ Complete(r)

Spec == Init /\ [][Next]_vars
=============================================================================
