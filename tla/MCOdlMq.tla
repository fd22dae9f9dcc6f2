------------------------------ MODULE MCOdlMq -------------------------------
(* Instances of OdlMq for TLC. *)
EXTENDS OdlMq

\* Blobs of one full chunk, of a full and a short one, and shorter than one.
Lengths == [m \in Messages |-> <<3, 2, 1>>[m]]
=============================================================================
