--------------------------- MODULE MCTermination ---------------------------
(* Termination for TLC: who asks whom to remove nodes.                     *)
EXTENDS Termination

\* Requests to remove a node only go down the ring.
MCDown == {p \in Rank \X Rank : p[1] > p[2]}

MCAll == Rank \X Rank
=============================================================================
