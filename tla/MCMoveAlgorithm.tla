-------------------------- MODULE MCMoveAlgorithm --------------------------
(* Instances of MoveAlgorithm for TLC: three agents, two groups.            *)
EXTENDS MoveAlgorithm

CONSTANTS a, b, c

MCGroups == {{a}, {b, c}}

MCGrids ==
  {[width |-> 2, height |-> 2, procs |-> 2],
   [width |-> 1, height |-> 3, procs |-> 2]}

\* Ranges that only contain the location; larger ones, one of which has a radius
\* greater than its size; and one that does not contain the location.
Still == [mobility |-> [kind |-> "VonNeumann", size |-> 0],
          perception |-> [kind |-> "Moore", size |-> 0]]
Far == [mobility |-> [kind |-> "VonNeumann", size |-> 1],
        perception |-> [kind |-> "Moore", size |-> 1]]
Graph == [mobility |-> [kind |-> "GraphExcludingLocation", size |-> 1],
          perception |-> [kind |-> "Graph", size |-> 1]]

MCRanges == {Still, Far, Graph}

MCFirstRanges ==
  {[i \in Agent |-> CASE i = a -> Far [] i = b -> Graph [] i = c -> Still]}
=============================================================================
