-------------------------- MODULE MCHardSyncMutex --------------------------
(* HardSyncMutex for TLC: the hosts of the nodes and the bounds.           *)
EXTENDS HardSyncMutex

CONSTANTS n0, n1

\* n0 on process 0, and n1, if there is one, on process 1.
MCHost == [n \in Node |-> IF n = n0 THEN 0 ELSE 1]

\* Process 0 may wait for its own node: it serves the others' requests during
\* its first operation, then asks for what they hold.
MCOps == [p \in Rank |-> IF p = 0 THEN 2 ELSE 1]
=============================================================================
