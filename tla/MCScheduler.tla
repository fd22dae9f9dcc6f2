---------------------------- MODULE MCScheduler -----------------------------
(* Instances of Scheduler for TLC. *)
EXTENDS Scheduler, TLC

\* The first to arrive is the less urgent one.
Ranks == [r \in Requests |-> 3 - r]
Plain(p) == [connector |-> FALSE, defer |-> FALSE, drop |-> FALSE,
             priority |-> p, full |-> TRUE]
LocalConfigs  == {Plain(p) : p \in BOOLEAN}
RemoteConfigs == {[connector |-> TRUE, defer |-> TRUE, drop |-> d,
                   priority |-> FALSE, full |-> TRUE] : d \in BOOLEAN}
\* A connector that only sends.
SendConfig    == [connector |-> TRUE, defer |-> FALSE, drop |-> FALSE,
                  priority |-> FALSE, full |-> TRUE]
AllConfigs    == LocalConfigs \cup RemoteConfigs \cup {SendConfig}
\* A reset drops the late output whatever the connector wants.
LateConfigs   == LocalConfigs \cup {c \in RemoteConfigs : ~c.drop}

ShortAndLong == <<1, 3>>
LongLoads    == <<0, 2>>
LongAndShort == <<2, 1>>
OneLoads     == <<2, 0>>

BlockSymmetry == Permutations(Blocks)
=============================================================================
