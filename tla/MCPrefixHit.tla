---------------------------- MODULE MCPrefixHit ------------------------------
(* Instances of PrefixHit for TLC. *)
EXTENDS PrefixHit

G(k, b, w, e) == [kind |-> k, block |-> b, window |-> w, eagle |-> e, retains |-> FALSE]
Keep(g) == [g EXCEPT !.retains = TRUE]

RetentionSet == {Dense, 0, SchedBlock, 2 * SchedBlock}

\* One full-attention group and one other; three kinds together; no full
\* attention at all; drafter layers in a group of their own, in the first, or,
\* when no group is marked and all are taken to hold some, in every group; and a
\* full-attention group that keeps the longer list.
LayoutSet ==
  {<<G("full", 2, 1, e), G("window", 1, 2, f)>> : e, f \in BOOLEAN}
  \cup {<<G("full", 2, 1, e), G("mamba", 2, 1, FALSE)>> : e \in BOOLEAN}
  \cup {<<G("full", 1, 1, FALSE), G("window", 2, 1, e), G("mamba", 2, 1, FALSE)>> : e \in BOOLEAN}
  \cup {<<G("window", 1, 2, TRUE), G("window", 2, 1, FALSE)>>}
  \cup {<<G("window", 1, 1, TRUE), G("window", 2, 1, TRUE)>>}
  \cup {<<G("full", 2, 1, TRUE), G("window", 1, 1, TRUE), G("mamba", 2, 1, TRUE)>>}
  \cup {<<Keep(G("full", 2, 1, e)), G("mamba", 2, 1, FALSE)>> : e \in BOOLEAN}
  \cup {<<Keep(G("full", 1, 1, FALSE)), G("full", 2, 1, FALSE), G("window", 1, 2, TRUE)>>}
=============================================================================
