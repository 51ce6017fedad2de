-------------------------- MODULE MCHardSyncLinker --------------------------
(* HardSyncLinker for TLC: a small graph on three processes.               *)
EXTENDS HardSyncLinker

CONSTANTS a, b, c, d,  \* nodes
          w, x, y, z   \* edges

\* a and d are hosted by process 0, b by 1 and c by 2.
MCHost == [n \in Node |-> CASE n = b -> 1 [] n = c -> 2 [] OTHER -> 0]

\* A triangle of three processes, and a LOCAL edge: w links a to d, x links a
\* to b, y links b to c, z links c to a.
MCSource == [e \in Edge |-> CASE e = y -> b [] e = z -> c [] OTHER -> a]
MCTarget == [e \in Edge |-> CASE e = w -> d [] e = x -> b [] e = y -> c [] e = z -> a]

MCOps == [p \in Rank |-> 1]
=============================================================================
