--------------------------- MODULE MoveAlgorithm ---------------------------
(***************************************************************************)
(* Spatial agents of fpmas::model: they move on a network of cells, and    *)
(* the DistributedMoveAlgorithm of a group commits the moves of its        *)
(* members, and builds their mobility and perception fields and their      *)
(* perceptions, from cell to cell.                                         *)
(*                                                                         *)
(* The state is the edges of the graph on the layers of the spatial model. *)
(* An action is what all the processes do from a synchronisation of the    *)
(* graph to the next one. In between a process reads only edges of its own *)
(* cells (or of its own agents) that nobody else writes in that phase, so  *)
(* where cells and agents are hosted, and in which order processes work,   *)
(* makes no difference; that all of them then see the same edges is what   *)
(* GhostGraph and HardSyncLinker show.                                     *)
(***************************************************************************)
EXTENDS Grid, FiniteSets, FiniteSetsExt, Functions

CONSTANTS
  Agent,
  Groups,       \* the move groups, as sets of agents
  Grids,        \* the grids the model is built on
  Ranges,       \* the pairs of ranges an agent may take
  FirstRanges,  \* the ranges of the agents when they are built
  MaxSide,      \* bound: the sides of the grids of Lattice
  MaxMoves,     \* bound: executions of agents
  MaxRuns,      \* bound: runs of the algorithm after the first one
  Allow         \* the restricted usages (below) that are not excluded

(* Usages the algorithm is not made for, excluded unless in Allow:          *)
(*   SHRINK       an agent that stays where it is takes a smaller range     *)
(*   ZERO_RADIUS  a group moves whose ranges all have radius 0              *)
Usage == {"SHRINK", "ZERO_RADIUS"}

ASSUME UsageAssumption == Allow \subseteq Usage
ASSUME GroupsAssumption == IsFiniteSet(Agent) /\ Groups \subseteq SUBSET Agent
ASSUME RangesAssumption ==
  /\ Ranges \subseteq [mobility : OneRange, perception : OneRange]
  /\ FirstRanges \subseteq [Agent -> Ranges]
ASSUME GridsAssumption ==
  \A g \in Grids :
    /\ g \in [width : Nat \ {0}, height : Nat \ {0}, procs : Nat \ {0}]
    /\ g.procs <= Side(g)
ASSUME SideAssumption == MaxSide \in Nat

\* The layers from agents to cells.
Layer == {"LOCATION", "MOVE", "PERCEIVE", "NEW_LOCATION", "NEW_MOVE", "NEW_PERCEIVE"}

VARIABLES
  grid,             \* the cell network
  edges,            \* number of edges from an agent to a cell, by layer
  perceptions,      \* number of edges from an agent to another on PERCEPTION
  location_id,      \* SpatialAgentBase::location_id
  range,            \* the mobility and the perception range of each agent
  move_flags,       \* CellBase: the agents whose fields a cell has grown
  perception_flags,
  phase,            \* what the processes do next
  group,            \* the group the algorithm runs for, or has last run for
  step, max_step,   \* EndCondition
  moved,            \* agents that moved and whose group has not run since
  moves, runs       \* bounds

state == <<edges, perceptions, location_id, range>>
flags == <<move_flags, perception_flags>>
bounds == <<moved, moves, runs>>
vars == <<grid, state, flags, phase, group, step, max_step, bounds>>

Phase == {"idle", "outgoing", "incoming", "grow", "crop", "perceptions"}

CellsOf == [g \in Grids |-> Cells(g)]
SuccessorsOf == [g \in Grids |-> Successors(g)]

Cell == CellsOf[grid]

\* CellBase::successors()
Successor == SuccessorsOf[grid]

\* The cells an agent is linked to on a layer.
Field(a, layer) == {c \in Cell : edges[a][layer][c] > 0}

\* One edge to each cell of a set.
EdgesTo(cells) == [c \in Cell |-> IF c \in cells THEN 1 ELSE 0]

\* SpatialAgentBase::locationCell()
LocationCell(a) == CHOOSE c \in Field(a, "LOCATION") : TRUE

-----------------------------------------------------------------------------
(* Agents *)

\* The edges of an agent without the first one on LOCATION.
Unlocated(location) ==
  LET cells == {c \in Cell : location[c] > 0}
  IN  IF cells = {} THEN location
      ELSE [location EXCEPT ![CHOOSE c \in cells : TRUE] = @ - 1]

\* Mutant of Relocated: the obsolete location is not unlinked.
RelocatedTwice(links, cell, ranges) ==
  [links EXCEPT
    !["NEW_LOCATION"][cell] = @ + 1,
    !["MOVE"] = EdgesTo({c \in {cell} : Contains(Successor, ranges.mobility, c, c)}),
    !["PERCEIVE"] = EdgesTo({c \in {cell} : Contains(Successor, ranges.perception, c, c)})]

\* SpatialAgentBase::updateLocation(): cell becomes the new location of an agent
\* with the edges links; its obsolete location and fields are unlinked, and the
\* cell is added to the fields whose range contains it.
Relocated(links, cell, ranges) ==
  [links EXCEPT
    !["NEW_LOCATION"][cell] = @ + 1,
    !["LOCATION"] = Unlocated(@),
    !["MOVE"] = EdgesTo({c \in {cell} : Contains(Successor, ranges.mobility, c, c)}),
    !["PERCEIVE"] = EdgesTo({c \in {cell} : Contains(Successor, ranges.perception, c, c)})]

AgentRadius(a) == Max({Radius(range[a].mobility), Radius(range[a].perception)})

\* SpatialAgentBuilder::build(): agents are created where the mapping says, and
\* the algorithm is run for the temporary group of all of them.
Init ==
  /\ grid \in Grids
  /\ location_id \in [Agent -> Cell]
  /\ range \in FirstRanges
  /\ edges = [a \in Agent |->
       Relocated([l \in Layer |-> EdgesTo({})],
                 location_id[a], range[a])]
  /\ perceptions = [a \in Agent |-> [b \in Agent |-> 0]]
  /\ move_flags = [c \in Cell |-> {}]
  /\ perception_flags = [c \in Cell |-> {}]
  /\ phase = "outgoing" /\ group = Agent
  /\ step = 0 /\ max_step = 0
  /\ moved = Agent /\ moves = 0 /\ runs = 0
  /\ "ZERO_RADIUS" \in Allow \/ \E a \in Agent : AgentRadius(a) > 0

\* GridRange::setSize()
Smaller(old, new) == new.kind # old.kind \/ new.size < old.size

\* The behavior of agent a takes other ranges, and calls moveTo(cell) for a cell
\* of its mobility field. A second moveTo() before the algorithm is undefined.
MoveTo(a, cell, ranges) ==
  /\ phase = "idle" /\ moves < MaxMoves
  /\ a \notin moved
  /\ cell \in Field(a, "MOVE")
  /\ edges' = [edges EXCEPT ![a] = Relocated(@, cell, ranges)]
  /\ location_id' = [location_id EXCEPT ![a] = cell]
  /\ range' = [range EXCEPT ![a] = ranges]
  /\ moved' = moved \cup {a} /\ moves' = moves + 1
  /\ UNCHANGED <<grid, perceptions, flags, phase, group, step, max_step, runs>>

\* The behavior of agent a takes other ranges and stays.
Stay(a, ranges) ==
  /\ phase = "idle" /\ moves < MaxMoves
  /\ a \notin moved
  /\ "SHRINK" \in Allow \/ ~ (\/ Smaller(range[a].mobility, ranges.mobility)
                              \/ Smaller(range[a].perception, ranges.perception))
  /\ range' = [range EXCEPT ![a] = ranges]
  /\ moved' = moved \cup {a} /\ moves' = moves + 1
  /\ UNCHANGED <<grid, edges, perceptions, location_id, flags, phase, group, step, max_step, runs>>

-----------------------------------------------------------------------------
(* DistributedMoveAlgorithm::AlgoTask::run() *)

\* DynamicEndCondition::init(): the maximum over the agents of all processes.
MaxRadius == Max({AgentRadius(a) : a \in group} \cup {0})

\* The algorithm is scheduled for a group, after its agents or other ones have
\* been executed.
StartAlgorithm(g) ==
  /\ phase = "idle" /\ runs < MaxRuns
  /\ "ZERO_RADIUS" \in Allow \/ g \cap moved = {} \/ \E a \in g : AgentRadius(a) > 0
  /\ phase' = "outgoing" /\ group' = g
  /\ runs' = runs + 1
  /\ UNCHANGED <<grid, state, flags, step, max_step, moved, moves>>

\* The outgoing PERCEPTION edges of the agents of the group are unlinked.
UnlinkOutgoing ==
  /\ phase = "outgoing"
  /\ perceptions' = [a \in Agent |-> [b \in Agent |-> IF a \in group THEN 0 ELSE perceptions[a][b]]]
  /\ phase' = "incoming"
  /\ UNCHANGED <<grid, edges, location_id, range, flags,
                 group, step, max_step, bounds>>

\* Mutant of NextPhase: one step too many.
NextPhaseLate(s, max) == IF s <= max THEN "grow" ELSE "perceptions"

\* while(!end.end())
NextPhase(s, max) == IF s < max THEN "grow" ELSE "perceptions"

\* Mutant of UnlinkIncoming: perceptions of agents of other groups are kept.
KeepIncoming ==
  /\ phase = "incoming"
  /\ step' = 0 /\ max_step' = MaxRadius
  /\ phase' = NextPhase(step', max_step')
  /\ UNCHANGED <<grid, state, flags, group, bounds>>

\* The incoming ones are, and the end condition is initialised.
UnlinkIncoming ==
  /\ phase = "incoming"
  /\ perceptions' = [a \in Agent |-> [b \in Agent |-> IF b \in group THEN 0 ELSE perceptions[a][b]]]
  /\ step' = 0 /\ max_step' = MaxRadius
  /\ phase' = NextPhase(step', max_step')
  /\ UNCHANGED <<grid, edges, location_id, range, flags, group, bounds>>

\* How often cell c grows a field of agent a: in handleNewLocation() for each
\* NEW_LOCATION edge, else in handleMove() or handlePerceive(), for a field the
\* cell is in, unless the agent is flagged.
Expands(a, c, layer, flagged) ==
  IF edges[a]["NEW_LOCATION"][c] > 0 THEN edges[a]["NEW_LOCATION"][c]
  ELSE IF edges[a][layer][c] > 0 /\ a \notin flagged[c] THEN 1 ELSE 0

\* growMobilityField() and growPerceptionField(), for all the cells: the edges to
\* their successors that are added to layer for agent a.
Growth(a, layer, flagged) ==
  [d \in Cell |->
     SumFunction([c \in {b \in Cell : d \in Successor[b]} |-> Expands(a, c, layer, flagged)])]

Plus(f, g) == [c \in Cell |-> f[c] + g[c]]

\* All the agents the cells have grown a field of.
Flagged(flagged, layer) ==
  [c \in Cell |-> flagged[c] \cup
     {a \in Agent : edges[a]["NEW_LOCATION"][c] > 0 \/ edges[a][layer][c] > 0}]

\* handleNewLocation(), handleMove() and handlePerceive(), by all cells.
Grow ==
  /\ phase = "grow"
  /\ edges' = [a \in Agent |-> [edges[a] EXCEPT
       !["LOCATION"] = Plus(@, edges[a]["NEW_LOCATION"]),
       !["NEW_LOCATION"] = EdgesTo({}),
       !["NEW_MOVE"] = Plus(@, Growth(a, "MOVE", move_flags)),
       !["NEW_PERCEIVE"] = Plus(@, Growth(a, "PERCEIVE", perception_flags))]]
  /\ move_flags' = Flagged(move_flags, "MOVE")
  /\ perception_flags' = Flagged(perception_flags, "PERCEIVE")
  /\ phase' = "crop"
  /\ UNCHANGED <<grid, perceptions, location_id, range,
                 group, step, max_step, bounds>>

\* The cells of the new edges that are kept: each once, in range, not yet in the
\* field.
Cropped(a, new, field, r) ==
  {c \in Field(a, new) : edges[a][field][c] = 0 /\ Contains(Successor, r, LocationCell(a), c)}

\* handleNewMove() and handleNewPerceive(), by the agents of the group.
Crop ==
  /\ phase = "crop"
  /\ edges' = [a \in Agent |->
       IF a \notin group THEN edges[a]
       ELSE [edges[a] EXCEPT
         !["MOVE"] = Plus(@, EdgesTo(Cropped(a, "NEW_MOVE", "MOVE", range[a].mobility))),
         !["PERCEIVE"] =
           Plus(@, EdgesTo(Cropped(a, "NEW_PERCEIVE", "PERCEIVE", range[a].perception))),
         !["NEW_MOVE"] = EdgesTo({}),
         !["NEW_PERCEIVE"] = EdgesTo({})]]
  /\ step' = step + 1
  /\ phase' = NextPhase(step', max_step)
  /\ UNCHANGED <<grid, perceptions, location_id, range, flags,
                 group, max_step, bounds>>

\* The PERCEPTION edges that updatePerceptions() creates from agent a to agent b.
Perceived(a, b) ==
  IF a # b /\ (a \in group \/ b \in group)
  THEN SumFunction([c \in Cell |-> edges[a]["PERCEIVE"][c] * edges[b]["LOCATION"][c]])
  ELSE 0

\* updatePerceptions(), by all cells; the algorithm returns.
UpdatePerceptions ==
  /\ phase = "perceptions"
  /\ perceptions' = [a \in Agent |-> [b \in Agent |-> perceptions[a][b] + Perceived(a, b)]]
  /\ move_flags' = [c \in Cell |-> {}]
  /\ perception_flags' = [c \in Cell |-> {}]
  /\ moved' = moved \ group
  /\ phase' = "idle"
  /\ UNCHANGED <<grid, edges, location_id, range,
                 group, step, max_step, moves, runs>>

Next ==
  \/ \E a \in Agent, ranges \in Ranges :
       \/ \E cell \in Cell : MoveTo(a, cell, ranges)
       \/ Stay(a, ranges)
  \/ \E g \in Groups : StartAlgorithm(g)
  \/ UnlinkOutgoing
  \/ UnlinkIncoming
  \/ Grow
  \/ Crop
  \/ UpdatePerceptions

Spec == Init /\ [][Next]_vars

-----------------------------------------------------------------------------
(* Properties *)

TypeOK ==
  /\ grid \in Grids
  /\ edges \in [Agent -> [Layer -> [Cell -> Nat]]]
  /\ perceptions \in [Agent -> [Agent -> Nat]]
  /\ location_id \in [Agent -> Cell]
  /\ range \in [Agent -> Ranges]
  /\ move_flags \in [Cell -> SUBSET Agent]
  /\ perception_flags \in [Cell -> SUBSET Agent]
  /\ phase \in Phase
  /\ group \in Groups \cup {Agent}
  /\ max_step \in Nat /\ step \in 0 .. max_step
  /\ moved \subseteq Agent

(* VonNeumannGridBuilder builds the lattice of any width and height up to    *)
(* MaxSide on any number of processes it can distribute the longer side to;  *)
(* stated of the states in which a model has just been built.                *)
Lattice ==
  phase = "outgoing" /\ runs = 0 =>
    \A w, h, n \in 1 .. MaxSide :
      LET g == [width |-> w, height |-> h, procs |-> n]
      IN  n <= Side(g) => IsLattice(g)

(* An agent is at one place: at any time it has a single edge on LOCATION   *)
(* or NEW_LOCATION, to the cell of its locationId(), and it is on LOCATION  *)
(* once the algorithm has run for its group.                                *)
OneLocation ==
  \A a \in Agent :
    /\ \A c \in Cell :
         edges[a]["LOCATION"][c] + edges[a]["NEW_LOCATION"][c]
           = IF c = location_id[a] THEN 1 ELSE 0
    /\ phase = "idle" /\ a \notin moved => Field(a, "NEW_LOCATION") = {}

(* The number of steps DynamicEndCondition computes, the flags of the cells  *)
(* and the cropping by the agents build the fields exactly: once the         *)
(* algorithm has run for the group of an agent, it has one MOVE and one      *)
(* PERCEIVE edge to each cell of its ranges, and none to others, whatever    *)
(* the runs for other groups have added to the graph in between; those edges *)
(* are cropped, unless no agent of the group has a range to grow.            *)
FieldsExact ==
  phase = "idle" => \A a \in Agent \ moved :
    LET InRange(r) == {c \in Cell : Contains(Successor, r, location_id[a], c)}
    IN  /\ edges[a]["MOVE"] = EdgesTo(InRange(range[a].mobility))
        /\ edges[a]["PERCEIVE"] = EdgesTo(InRange(range[a].perception))
        /\ a \in group /\ max_step > 0 =>
             Field(a, "NEW_MOVE") = {} /\ Field(a, "NEW_PERCEIVE") = {}

(* An agent perceives each agent that is in its perception range once, and   *)
(* no other, even when only one of the two is in the group that last moved.  *)
PerceptionsExact ==
  phase = "idle" => \A a, b \in Agent \ moved :
    perceptions[a][b] =
      IF a # b /\ Contains(Successor, range[a].perception, location_id[a], location_id[b])
      THEN 1 ELSE 0
=============================================================================
