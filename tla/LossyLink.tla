----------------------------- MODULE LossyLink -------------------------------
(***************************************************************************)
(* What one stream of the link promises: every message either reaches the  *)
(* receiver whole or is lost, in the order in which they were sent, none   *)
(* twice; a reader takes the oldest one that waits; and none that waits is *)
(* taken back before the stream has ended.                                 *)
(***************************************************************************)
EXTENDS Naturals, Sequences

CONSTANTS
  Msgs,      \* number of messages sent
  Texts,     \* what a message can say
  Nothing,   \* what a reader without a message has
  Readers

VARIABLES
  text,      \* text[m]: what message m says
  passed,    \* messages that got through or are lost
  link,      \* the messages that wait at the receiver
  held,      \* held[r]: the message reader r has taken
  ended      \* the stream is torn down

vars == <<text, passed, link, held, ended>>

Init ==
  /\ text \in [1..Msgs -> Texts \ {Nothing}]
  /\ passed = 0
  /\ link = << >>
  /\ held = [r \in Readers |-> Nothing]
  /\ ended = FALSE

\* The next message gets through, or is lost.
Pass ==
  /\ ~ended /\ passed < Msgs
  /\ passed' = passed + 1
  /\ link' \in {link, Append(link, text[passed + 1])}
  /\ UNCHANGED <<text, held, ended>>

Receive(r) ==
  /\ ~ended /\ link # << >> /\ held[r] = Nothing
  /\ held' = [held EXCEPT ![r] = Head(link)]
  /\ link' = Tail(link)
  /\ UNCHANGED <<text, passed, ended>>

Return(r) ==
  /\ held[r] # Nothing
  /\ held' = [held EXCEPT ![r] = Nothing]
  /\ UNCHANGED <<text, passed, link, ended>>

End ==
  /\ ~ended /\ \A r \in Readers : held[r] = Nothing
  /\ ended' = TRUE
  /\ UNCHANGED <<text, passed, link, held>>

Discard ==
  /\ ended /\ link # << >>
  /\ link' = Tail(link)
  /\ UNCHANGED <<text, passed, held, ended>>

Next == Pass \/ End \/ Discard \/ \E r \in Readers : Receive(r) \/ Return(r)

Spec == Init /\ [][Next]_vars
=============================================================================
