---------------------------- MODULE AgentMapping ----------------------------
(***************************************************************************)
(* The constructor of ConstrainedGridAgentMapping: it deals agent_count    *)
(* agents to the cells of a grid in passes that give each cell at most one *)
(* agent. A pass puts its agents in the first cells and shuffles them with *)
(* random swaps; any number a distribution may return is possible.         *)
(*                                                                         *)
(* Point (x, y) is the number x + y * grid_width, as in the code; the maps *)
(* of the code have points outside the grid when they are given some.      *)
(***************************************************************************)
EXTENDS Integers, FiniteSetsExt

CONSTANTS
  Requests  \* the arguments: width, height, agent_count, max_agent_by_cell

VARIABLES
  request,
  count_map,  \* agents by point
  local_map,  \* the points of the current pass that have an agent
  i,          \* the next cell to swap in a pass
  n,          \* the number of passes
  current_agent_count,
  pc

vars == <<request, count_map, local_map, i, n, current_agent_count, pc>>

NCell == request.width * request.height

\* The points of the grid, and the ones after its last cell.
Point == 0 .. NCell + request.agent_count

Init ==
  /\ request \in Requests
  /\ count_map = [p \in Point |-> 0]
  /\ local_map = {}
  /\ i = 0 /\ n = 0
  /\ current_agent_count = request.agent_count
  /\ pc = "start"

\* No mapping is built if the agents are too many for the grid.
Start ==
  /\ pc = "start"
  /\ pc' = IF NCell * request.max_agent_by_cell < request.agent_count THEN "done" ELSE "pass"
  /\ UNCHANGED <<request, count_map, local_map, i, n, current_agent_count>>

\* The number of agents of pass n: the last one takes all that are left.
NAgent ==
  IF n = request.max_agent_by_cell - 1 THEN current_agent_count
  ELSE Max({1, request.agent_count \div request.max_agent_by_cell})

Fill ==
  /\ pc = "pass"
  /\ current_agent_count > 0 /\ n < request.max_agent_by_cell
  /\ local_map' = 0 .. NAgent - 1
  /\ i' = 0
  /\ pc' = "swap"
  /\ UNCHANGED <<request, count_map, n, current_agent_count>>

\* The cells that UniformIntDistribution(0, n_cell - i), whose bounds are both
\* included, lets cell i be swapped with.
Drawn == {i + draw : draw \in 0 .. NCell - i}

Swap ==
  /\ pc = "swap" /\ i < NCell - 1
  /\ \E j \in Drawn :
       local_map' = {p \in Point : (IF p = i THEN j ELSE IF p = j THEN i ELSE p) \in local_map}
  /\ i' = i + 1
  /\ UNCHANGED <<request, count_map, n, current_agent_count, pc>>

Merge ==
  /\ pc = "swap" /\ i >= NCell - 1
  /\ count_map' = [p \in Point |-> count_map[p] + IF p \in local_map THEN 1 ELSE 0]
  /\ n' = n + 1
  /\ current_agent_count' = current_agent_count - NAgent
  /\ pc' = "pass"
  /\ UNCHANGED <<request, local_map, i>>

Return ==
  /\ pc = "pass"
  /\ ~ (current_agent_count > 0 /\ n < request.max_agent_by_cell)
  /\ pc' = "done"
  /\ UNCHANGED <<request, count_map, local_map, i, n, current_agent_count>>

Next == Start \/ Fill \/ Swap \/ Merge \/ Return

Spec == Init /\ [][Next]_vars

-----------------------------------------------------------------------------
(* All the agents of an accepted request are on the grid, and no cell has    *)
(* more than max_agent_by_cell of them: SpatialAgentBuilder asks countAt()   *)
(* for the cells of the grid only, and builds that many agents.              *)
AgentsOnGrid ==
  pc = "done" /\ request.agent_count <= NCell * request.max_agent_by_cell =>
    LET Count(p) == count_map[p]
        cells == 0 .. NCell - 1
    IN  /\ MapThenSumSet(Count, cells) = request.agent_count
        /\ \A p \in cells : count_map[p] <= request.max_agent_by_cell
=============================================================================
