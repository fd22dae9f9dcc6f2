--------------------------- MODULE BroadcastQueue ---------------------------
(***************************************************************************)
(* What the shared memory MessageQueue promises its users: one queue that  *)
(* every reader sees whole and in order.  The writer may run ahead of the  *)
(* slowest reader by at most Capacity messages.  A reader that cannot      *)
(* decode a message loses that message (got holds 0 for it), never another *)
(* one.                                                                    *)
(***************************************************************************)
EXTENDS Integers, Sequences

CONSTANTS Readers, Messages, Capacity

VARIABLES
  sent,   \* messages enqueued so far
  got     \* got[r]: what reader r made of each message, in order

vars == <<sent, got>>

Init == sent = << >> /\ got = [r \in Readers |-> << >>]

Enqueue ==
  /\ \A r \in Readers : Len(sent) - Len(got[r]) < Capacity
  /\ \E m \in Messages : sent' = Append(sent, m)
  /\ UNCHANGED got

Dequeue(r) ==
  LET j == Len(got[r]) + 1 IN
  /\ j <= Len(sent)
  /\ \E v \in {sent[j], 0} : got' = [got EXCEPT ![r] = Append(@, v)]
  /\ UNCHANGED sent

Next == Enqueue \/ \E r \in Readers : Dequeue(r)

Spec == Init /\ [][Next]_vars
=============================================================================
