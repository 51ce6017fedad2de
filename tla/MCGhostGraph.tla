---------------------------- MODULE MCGhostGraph ----------------------------
(* GhostGraph for TLC: where nodes are built and what edges link.          *)
EXTENDS GhostGraph

CONSTANTS a, b, c,  \* nodes
          x, y      \* edges

\* a and c are built by process 0, b by process 1.
MCOrigin == [n \in Node |-> IF n = b THEN 1 ELSE 0]

\* x links a to b; y links b to c or, without c, to a.
MCSource == [e \in Edge |-> IF e = x THEN a ELSE b]
MCTarget == [e \in Edge |-> IF e = x THEN b ELSE IF c \in Node THEN c ELSE a]
=============================================================================
