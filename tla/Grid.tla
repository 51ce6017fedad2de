-------------------------------- MODULE Grid --------------------------------
(***************************************************************************)
(* The cell networks of fpmas::model: the grid that VonNeumannGridBuilder  *)
(* builds over several processes, and the ranges that agents may have on   *)
(* it. A cell is the pair of its coordinates; a grid g is a record of its  *)
(* width and height and of the number of processes that build it.          *)
(***************************************************************************)
EXTENDS Integers

Abs(i) == IF i < 0 THEN -i ELSE i

ManhattanDistance(p, q) == Abs(q[1] - p[1]) + Abs(q[2] - p[2])

ChebyshevDistance(p, q) ==
  LET dx == Abs(q[1] - p[1])
      dy == Abs(q[2] - p[2])
  IN  IF dx < dy THEN dy ELSE dx

-----------------------------------------------------------------------------
(* VonNeumannGridBuilder: each process builds a slab of the longer side of *)
(* the grid, and links its border to the one of its neighbours.            *)

Ranks(g) == 0 .. g.procs - 1

\* Columns are distributed if the grid is at least as wide as high, else rows.
ByColumn(g) == g.width >= g.height

Side(g) == IF ByColumn(g) THEN g.width ELSE g.height

PerProc(g) == Side(g) \div g.procs

\* Mutant of Count: the remainder is forgotten.
CountEvenly(g, r) == PerProc(g)

\* The columns or rows of process r: the last one takes the remainder.
Count(g, r) == PerProc(g) + (IF r = g.procs - 1 THEN Side(g) % g.procs ELSE 0)

Begin(g, r) == r * PerProc(g)

End(g, r) == Begin(g, r) + Count(g, r) - 1

Columns(g, r) == IF ByColumn(g) THEN Begin(g, r) .. End(g, r) ELSE 0 .. g.width - 1

Rows(g, r) == IF ByColumn(g) THEN 0 .. g.height - 1 ELSE Begin(g, r) .. End(g, r)

LocalCells(g, r) == Columns(g, r) \X Rows(g, r)

\* buildLocalGrid(): each cell is linked to the next and the previous cell of
\* its row and of its column, within the slab.
LocalLinks(g, r) ==
  LET cells == LocalCells(g, r)
      Towards(dx, dy) ==
        {<<c, <<c[1] + dx, c[2] + dy>>>> :
           c \in {d \in cells : <<d[1] + dx, d[2] + dy>> \in cells}}
  IN  Towards(0, 1) \cup Towards(0, -1) \cup Towards(1, 0) \cup Towards(-1, 0)

\* The k-th cell of the first or last line of a slab.
BorderCell(g, line, k) == IF ByColumn(g) THEN <<line, k>> ELSE <<k, line>>

BorderLength(g) == IF ByColumn(g) THEN g.height ELSE g.width

\* The cells that process q sends to its neighbour r, in the order of the border.
Frontier(g, q, r) ==
  [k \in 0 .. BorderLength(g) - 1 |->
     BorderCell(g, IF q < r THEN End(g, q) ELSE Begin(g, q), k)]

\* The links of process r to the cells of the frontiers it receives.
FrontierLinks(g, r) ==
  UNION {{<<BorderCell(g, IF q < r THEN Begin(g, r) ELSE End(g, r), k), Frontier(g, q, r)[k]>> :
            k \in 0 .. BorderLength(g) - 1} :
         q \in {r - 1, r + 1} \cap Ranks(g)}

\* The coordinates process r gives to the temporary cells of a frontier.
FrontierPoint(g, q, r, k) ==
  BorderCell(g, IF q < r THEN Begin(g, r) - 1 ELSE End(g, r) + 1, k)

\* The CELL_SUCCESSOR links that process r creates.
Links(g, r) == LocalLinks(g, r) \cup FrontierLinks(g, r)

Cells(g) == UNION {LocalCells(g, r) : r \in Ranks(g)}

\* CellBase::successors(), once the graph is synchronised.
Successors(g) ==
  LET links == UNION {Links(g, r) : r \in Ranks(g)}
  IN  [c \in Cells(g) |-> {d \in Cells(g) : <<c, d>> \in links}]

(* The processes build one grid together: every point of it is a cell of    *)
(* exactly one process, the cells at distance 1 and no others are linked,   *)
(* each by the process that has its source, and the temporary cell of a     *)
(* frontier stands for the cell at its own coordinates.                     *)
IsLattice(g) ==
  LET points == (0 .. g.width - 1) \X (0 .. g.height - 1)
  IN  /\ Cells(g) = points
      /\ \A q, r \in Ranks(g) : q # r => LocalCells(g, q) \cap LocalCells(g, r) = {}
      /\ \A r \in Ranks(g) :
           Links(g, r) = {l \in LocalCells(g, r) \X points : ManhattanDistance(l[1], l[2]) = 1}
      /\ \A q, r \in Ranks(g) : q - r \in {-1, 1} =>
           \A k \in 0 .. BorderLength(g) - 1 :
             FrontierPoint(g, q, r, k) = Frontier(g, q, r)[k]

-----------------------------------------------------------------------------
(* Ranges: GridRange with its two distances, and GraphRange, which is the   *)
(* successors of the location, with or without the location.                *)

RangeKind == {"VonNeumann", "Moore", "Graph", "GraphExcludingLocation"}

OneRange == [kind : RangeKind, size : Nat]

\* The farthest point of a range of that size from the origin, in number of links.
VonNeumannPerimeter(size) == <<0, size>>

MoorePerimeter(size) == <<size, size>>

\* GraphRange::contains(), for the given successors of the cells.
InGraphRange(successors, range, root, cell) ==
  \/ cell \in successors[root]
  \/ range.kind = "Graph" /\ cell = root

\* Range::contains(root, cell).
Contains(successors, range, root, cell) ==
  CASE range.kind = "VonNeumann" -> ManhattanDistance(root, cell) <= range.size
    [] range.kind = "Moore" -> ChebyshevDistance(root, cell) <= range.size
    [] OTHER -> InGraphRange(successors, range, root, cell)

\* Mutant of Radius: the distance of the range instead of the one of the grid.
RadiusOfSize(range) ==
  IF range.kind \in {"VonNeumann", "Moore"} THEN range.size ELSE 1

\* Range::radius(): the number of links to the farthest cell of the range.
Radius(range) ==
  CASE range.kind = "VonNeumann" ->
         ManhattanDistance(<<0, 0>>, VonNeumannPerimeter(range.size))
    [] range.kind = "Moore" -> ManhattanDistance(<<0, 0>>, MoorePerimeter(range.size))
    [] OTHER -> 1
=============================================================================
