----------------------------- MODULE GridProofs -----------------------------
(***************************************************************************)
(* Proofs about Grid: that VonNeumannGridBuilder builds the lattice of any *)
(* width and height on any number of processes it can distribute the       *)
(* longer side to (LatticeBuilt), and what the move algorithm needs of the *)
(* ranges: Radius bounds the number of links to a cell of a range          *)
(* (RadiusBound), and a range is connected: a cell of it other than the    *)
(* root has a neighbour in it that is one link closer (RangeConnected).    *)
(***************************************************************************)
EXTENDS Grid, TLAPS

\* The grids the builder is called for.

GridSet == [width : Nat \ {0}, height : Nat \ {0}, procs : Nat \ {0}]

Buildable(g) == g \in GridSet /\ g.procs <= Side(g)

-----------------------------------------------------------------------------
(* The slabs *)

LEMMA GridParts ==
  ASSUME NEW g, Buildable(g)
  PROVE  /\ g.width \in Nat /\ g.width > 0
         /\ g.height \in Nat /\ g.height > 0
         /\ g.procs \in Nat /\ g.procs > 0
         /\ Side(g) \in Nat /\ g.procs <= Side(g)
BY DEF Buildable, GridSet, Side

LEMMA Division ==
  ASSUME NEW s \in Nat, NEW n \in Nat, n > 0, n <= s
  PROVE  /\ s \div n \in Nat /\ s \div n > 0
         /\ s % n \in 0 .. n - 1
         /\ s = n * (s \div n) + (s % n)
<1>1. s \div n \in Int /\ s % n \in 0 .. n - 1 /\ s = n * (s \div n) + (s % n)
  OBVIOUS
<1>2. s \div n > 0
  <2>1. SUFFICES ASSUME s \div n <= 0 PROVE FALSE
    BY <1>1
  <2>2. n * (s \div n) <= 0
    BY <1>1, <2>1
  <2> QED
    BY <1>1, <2>2
<1> QED
  BY <1>1, <1>2

LEMMA PerProcParts ==
  ASSUME NEW g, Buildable(g)
  PROVE  /\ PerProc(g) \in Nat /\ PerProc(g) > 0
         /\ Side(g) % g.procs \in Nat
         /\ Side(g) = g.procs * PerProc(g) + (Side(g) % g.procs)
<1> DEFINE s == Side(g)
           n == g.procs
<1>1. s \in Nat /\ n \in Nat /\ n > 0 /\ n <= s
  BY GridParts
<1> HIDE DEF s, n
<1>2. /\ s \div n \in Nat /\ s \div n > 0
      /\ s % n \in 0 .. n - 1
      /\ s = n * (s \div n) + (s % n)
  BY <1>1, Division
<1>3. s % n \in Nat
  BY <1>1, <1>2
<1> QED
  BY <1>2, <1>3 DEF PerProc, s, n

LEMMA Products ==
  ASSUME NEW p \in Nat, NEW r \in Int
  PROVE  /\ r * p \in Int
         /\ (r + 1) * p = r * p + p
         /\ \A q \in Int : q <= r => q * p <= r * p
<1>1. r * p \in Int /\ (r + 1) * p = r * p + p
  OBVIOUS
<1>2. ASSUME NEW q \in Int, q <= r
      PROVE  q * p <= r * p
  <2>1. r * p - q * p = (r - q) * p
    OBVIOUS
  <2>2. r - q \in Nat
    BY <1>2
  <2>3. (r - q) * p \in Nat
    BY <2>2
  <2> QED
    BY <2>1, <2>3, <1>1
<1> QED
  BY <1>1, <1>2

LEMMA SlabParts ==
  ASSUME NEW g, Buildable(g), NEW r \in Ranks(g)
  PROVE  /\ Begin(g, r) \in Nat /\ End(g, r) \in Nat
         /\ Begin(g, r) <= End(g, r) /\ End(g, r) < Side(g)
         /\ r = 0 => Begin(g, r) = 0
         /\ r = g.procs - 1 => End(g, r) = Side(g) - 1
         /\ r + 1 \in Ranks(g) => Begin(g, r + 1) = End(g, r) + 1
         /\ \A q \in Ranks(g) : q < r => End(g, q) < Begin(g, r)
<1> DEFINE p == PerProc(g)
           m == Side(g) % g.procs
           n == g.procs
<1>1. /\ p \in Nat /\ p > 0 /\ m \in Nat /\ n \in Nat /\ n > 0 /\ Side(g) \in Nat
      /\ Side(g) = n * p + m
  BY GridParts, PerProcParts
<1>2. r \in Nat /\ r <= n - 1
  BY <1>1 DEF Ranks
<1>3. /\ Begin(g, r) = r * p
      /\ End(g, r) = r * p + (p + (IF r = n - 1 THEN m ELSE 0)) - 1
  BY DEF Begin, End, Count
<1> HIDE DEF p, m, n
<1>4. r * p \in Nat /\ (r + 1) * p = r * p + p
  BY <1>1, <1>2, Products
<1>5. r < n - 1 => (r + 1) * p + p <= n * p
  <2>1. ((r + 1) + 1) * p = (r + 1) * p + p
    BY <1>1, <1>2, Products
  <2>2. r < n - 1 => (r + 1) + 1 <= n
    BY <1>1, <1>2
  <2>3. r < n - 1 => ((r + 1) + 1) * p <= n * p
    BY <1>1, <1>2, <2>2, Products
  <2> QED
    BY <2>1, <2>3
<1>6. r = n - 1 => n * p = r * p + p
  BY <1>1, <1>2, <1>4
<1>7. n * p \in Nat
  BY <1>1
<1>8. r = 0 => r * p = 0
  BY <1>1
<1>9. r = n - 1 => End(g, r) = Side(g) - 1
  BY <1>1, <1>3, <1>4, <1>6, <1>7
<1>10. r < n - 1 => End(g, r) = (r + 1) * p - 1 /\ End(g, r) < Side(g)
  BY <1>1, <1>2, <1>3, <1>4, <1>5, <1>7
<1>11. r + 1 \in Ranks(g) => Begin(g, r + 1) = End(g, r) + 1
  <2>1. r + 1 \in Ranks(g) => r < n - 1
    BY <1>1, <1>2 DEF Ranks, n
  <2>2. Begin(g, r + 1) = (r + 1) * p
    BY DEF Begin, p
  <2> QED
    BY <2>1, <2>2, <1>10, <1>4, <1>1
<1>12. ASSUME NEW q \in Ranks(g), q < r
       PROVE  End(g, q) < Begin(g, r)
  <2>1. q \in Nat /\ q < n - 1 /\ q + 1 <= r
    BY <1>1, <1>2, <1>12 DEF Ranks, n
  <2>2. End(g, q) = q * p + p - 1
    BY <2>1, <1>1 DEF End, Count, Begin, p, n
  <2>3. (q + 1) * p = q * p + p /\ (q + 1) * p <= r * p /\ q * p \in Int
    BY <1>1, <1>2, <2>1, Products
  <2> QED
    BY <2>2, <2>3, <1>3, <1>4, <1>1
<1>13. Begin(g, r) \in Nat /\ End(g, r) \in Nat /\ Begin(g, r) <= End(g, r)
  BY <1>1, <1>3, <1>4
<1>14. End(g, r) < Side(g)
  BY <1>1, <1>2, <1>9, <1>10
<1> QED
  BY <1>3, <1>8, <1>9, <1>11, <1>12, <1>13, <1>14 DEF n

\* Every line is in a slab.
LEMMA SlabsCover ==
  ASSUME NEW g, Buildable(g), NEW i \in 0 .. Side(g) - 1
  PROVE  \E r \in Ranks(g) : i \in Begin(g, r) .. End(g, r)
<1> DEFINE p == PerProc(g)
           n == g.procs
<1>1. /\ p \in Nat /\ p > 0 /\ n \in Nat /\ n > 0 /\ Side(g) \in Nat
  BY GridParts, PerProcParts
<1>2. n - 1 \in Ranks(g)
  BY <1>1 DEF Ranks
<1>3. CASE i >= (n - 1) * p
  <2>1. Begin(g, n - 1) = (n - 1) * p
    BY DEF Begin
  <2>2. End(g, n - 1) = Side(g) - 1
    BY <1>2, SlabParts
  <2>3. (n - 1) * p \in Int
    BY <1>1
  <2>4. i \in Begin(g, n - 1) .. End(g, n - 1)
    BY <1>1, <1>3, <2>1, <2>2, <2>3
  <2> QED
    BY <1>2, <2>4
<1>4. CASE i < (n - 1) * p
  <2> DEFINE r == i \div p
  <2> HIDE DEF p, n
  <2>1. r \in Int /\ i % p \in 0 .. p - 1 /\ i = p * r + (i % p)
    BY <1>1
  <2> HIDE DEF r
  <2>2. p * r = r * p /\ r * p \in Int
    BY <1>1, <2>1
  <2>3. r >= 0
    <3>1. SUFFICES ASSUME r <= -1 PROVE FALSE
      BY <2>1
    <3>2. r * p <= (-1) * p
      BY <1>1, <2>1, <3>1, Products
    <3> QED
      BY <3>2, <1>1, <2>1, <2>2
  <2>4. r < n - 1
    <3>1. SUFFICES ASSUME n - 1 <= r PROVE FALSE
      BY <1>1, <2>1
    <3>2. (n - 1) * p <= r * p /\ (n - 1) * p \in Int
      BY <1>1, <2>1, <3>1, Products
    <3> QED
      BY <3>2, <1>1, <1>4, <2>1, <2>2
  <2>5. r \in Ranks(g)
    BY <1>1, <2>1, <2>3, <2>4 DEF Ranks, n
  <2>6. /\ Begin(g, r) = r * p
        /\ End(g, r) = r * p + p - 1
    BY <1>1, <2>1, <2>2, <2>4 DEF Begin, End, Count, p, n
  <2>7. i \in Begin(g, r) .. End(g, r)
    BY <1>1, <2>1, <2>2, <2>6
  <2> QED
    BY <2>5, <2>7
<1> QED
  <2>1. (n - 1) * p \in Int /\ i \in Int
    BY <1>1
  <2> QED
    BY <2>1, <1>3, <1>4

-----------------------------------------------------------------------------
(* Cells and links *)

Points(g) == (0 .. g.width - 1) \X (0 .. g.height - 1)

\* The line of the longer side a cell is in, and its place there.
Line(g, c) == IF ByColumn(g) THEN c[1] ELSE c[2]
Place(g, c) == IF ByColumn(g) THEN c[2] ELSE c[1]

LEMMA PointParts ==
  ASSUME NEW g, Buildable(g), NEW c
  PROVE  c \in Points(g) <=>
           /\ c = <<c[1], c[2]>>
           /\ Line(g, c) \in 0 .. Side(g) - 1
           /\ Place(g, c) \in 0 .. BorderLength(g) - 1
BY DEF Points, Line, Place, Side, BorderLength

LEMMA CellParts ==
  ASSUME NEW g, Buildable(g), NEW r \in Ranks(g), NEW c
  PROVE  c \in LocalCells(g, r) <=>
           /\ c \in Points(g)
           /\ Line(g, c) \in Begin(g, r) .. End(g, r)
<1>1. c \in LocalCells(g, r) <=>
        /\ c = <<c[1], c[2]>>
        /\ Line(g, c) \in Begin(g, r) .. End(g, r)
        /\ Place(g, c) \in 0 .. BorderLength(g) - 1
  BY DEF LocalCells, Columns, Rows, Line, Place, BorderLength
<1>2. Begin(g, r) \in Nat /\ End(g, r) \in Nat /\ End(g, r) < Side(g) /\ Side(g) \in Nat
  BY SlabParts, GridParts
<1>3. Line(g, c) \in Begin(g, r) .. End(g, r) => Line(g, c) \in 0 .. Side(g) - 1
  BY <1>2
<1> QED
  BY <1>1, <1>3, PointParts

LEMMA CellsArePoints ==
  ASSUME NEW g, Buildable(g)
  PROVE  Cells(g) = Points(g)
<1>1. ASSUME NEW c \in Points(g)
      PROVE  \E r \in Ranks(g) : c \in LocalCells(g, r)
  <2>1. Line(g, c) \in 0 .. Side(g) - 1
    BY PointParts
  <2>2. PICK r \in Ranks(g) : Line(g, c) \in Begin(g, r) .. End(g, r)
    BY <2>1, SlabsCover
  <2> QED
    BY <2>2, CellParts
<1>2. \A r \in Ranks(g) : LocalCells(g, r) \subseteq Points(g)
  BY CellParts
<1> QED
  BY <1>1, <1>2 DEF Cells

LEMMA SlabsDisjoint ==
  ASSUME NEW g, Buildable(g), NEW q \in Ranks(g), NEW r \in Ranks(g), q # r
  PROVE  LocalCells(g, q) \cap LocalCells(g, r) = {}
<1>1. /\ Begin(g, q) \in Nat /\ End(g, q) \in Nat /\ Begin(g, r) \in Nat /\ End(g, r) \in Nat
      /\ q < r => End(g, q) < Begin(g, r)
      /\ r < q => End(g, r) < Begin(g, q)
  BY SlabParts
<1>2. q < r \/ r < q
  BY DEF Ranks
<1>3. ASSUME NEW c \in LocalCells(g, q), c \in LocalCells(g, r)
      PROVE  FALSE
  <2>1. Line(g, c) \in Begin(g, q) .. End(g, q) /\ Line(g, c) \in Begin(g, r) .. End(g, r)
    BY <1>3, CellParts
  <2> QED
    BY <2>1, <1>1, <1>2
<1> QED
  BY <1>3

LEMMA DistanceOne ==
  ASSUME NEW x \in Int, NEW y \in Int, NEW u \in Int, NEW v \in Int
  PROVE  ManhattanDistance(<<x, y>>, <<u, v>>) = 1 <=>
           \/ u = x /\ (v = y + 1 \/ v = y - 1)
           \/ v = y /\ (u = x + 1 \/ u = x - 1)
<1>1. ManhattanDistance(<<x, y>>, <<u, v>>) = Abs(u - x) + Abs(v - y)
  BY DEF ManhattanDistance
<1>2. /\ Abs(u - x) = IF u - x < 0 THEN -(u - x) ELSE u - x
      /\ Abs(v - y) = IF v - y < 0 THEN -(v - y) ELSE v - y
  BY DEF Abs
<1> QED
  BY <1>1, <1>2

LEMMA LocalLinkParts ==
  ASSUME NEW g, Buildable(g), NEW r \in Ranks(g), NEW l
  PROVE  l \in LocalLinks(g, r) <=>
           /\ l \in LocalCells(g, r) \X LocalCells(g, r)
           /\ ManhattanDistance(l[1], l[2]) = 1
<1> DEFINE cells == LocalCells(g, r)
           Towards(dx, dy) ==
             {<<c, <<c[1] + dx, c[2] + dy>>>> :
                c \in {d \in cells : <<d[1] + dx, d[2] + dy>> \in cells}}
<1>1. LocalLinks(g, r) = Towards(0, 1) \cup Towards(0, -1) \cup Towards(1, 0) \cup Towards(-1, 0)
  BY DEF LocalLinks
<1>2. \A c \in cells : c = <<c[1], c[2]>> /\ c[1] \in Int /\ c[2] \in Int
  <2>1. \A c \in cells : c \in Points(g)
    BY CellParts
  <2>2. g.width \in Nat /\ g.height \in Nat
    BY GridParts
  <2> QED
    BY <2>1, <2>2 DEF Points
<1>3. ASSUME NEW dx \in Int, NEW dy \in Int
      PROVE  l \in Towards(dx, dy) <=>
               /\ l = <<l[1], l[2]>> /\ l[1] \in cells /\ l[2] \in cells
               /\ l[2] = <<l[1][1] + dx, l[1][2] + dy>>
  <2> HIDE DEF cells
  <2> DEFINE To(c) == <<c[1] + dx, c[2] + dy>>
  <2>1. l \in Towards(dx, dy) <=> \E c \in cells : To(c) \in cells /\ l = <<c, To(c)>>
    OBVIOUS
  <2> HIDE DEF To, Towards
  <2>2. ASSUME NEW c \in cells, To(c) \in cells, l = <<c, To(c)>>
        PROVE  l = <<l[1], l[2]>> /\ l[1] \in cells /\ l[2] \in cells /\ l[2] = To(l[1])
    BY <2>2
  <2>3. ASSUME l = <<l[1], l[2]>>, l[1] \in cells, l[2] \in cells, l[2] = To(l[1])
        PROVE  \E c \in cells : To(c) \in cells /\ l = <<c, To(c)>>
    BY <2>3
  <2>4. l \in Towards(dx, dy) <=>
          /\ l = <<l[1], l[2]>> /\ l[1] \in cells /\ l[2] \in cells /\ l[2] = To(l[1])
    BY <2>1, <2>2, <2>3
  <2> QED
    BY <2>4 DEF To
<1> HIDE DEF cells, Towards
<1>4. ASSUME l = <<l[1], l[2]>>, l[1] \in cells, l[2] \in cells
      PROVE  ManhattanDistance(l[1], l[2]) = 1 <=>
               \/ l[2] = <<l[1][1] + 0, l[1][2] + 1>> \/ l[2] = <<l[1][1] + 0, l[1][2] + (-1)>>
               \/ l[2] = <<l[1][1] + 1, l[1][2] + 0>> \/ l[2] = <<l[1][1] + (-1), l[1][2] + 0>>
  <2>1. PICK x, y, u, v \in Int : l[1] = <<x, y>> /\ l[2] = <<u, v>>
    BY <1>2, <1>4
  <2>2. l[1][1] = x /\ l[1][2] = y
    BY <2>1
  <2>3. \A a, b \in Int : <<u, v>> = <<a, b>> <=> u = a /\ v = b
    OBVIOUS
  <2> QED
    BY <2>1, <2>2, <2>3, DistanceOne
<1>5. l \in LocalLinks(g, r) <=>
        /\ l = <<l[1], l[2]>> /\ l[1] \in cells /\ l[2] \in cells
        /\ \/ l[2] = <<l[1][1] + 0, l[1][2] + 1>> \/ l[2] = <<l[1][1] + 0, l[1][2] + (-1)>>
           \/ l[2] = <<l[1][1] + 1, l[1][2] + 0>> \/ l[2] = <<l[1][1] + (-1), l[1][2] + 0>>
  BY <1>1, <1>3
<1>6. l \in cells \X cells <=> l = <<l[1], l[2]>> /\ l[1] \in cells /\ l[2] \in cells
  OBVIOUS
<1> QED
  BY <1>4, <1>5, <1>6 DEF cells

LEMMA BorderCellParts ==
  ASSUME NEW g, NEW line \in Int, NEW k \in Int
  PROVE  LET c == BorderCell(g, line, k)
         IN  c = <<c[1], c[2]>> /\ Line(g, c) = line /\ Place(g, c) = k
BY DEF BorderCell, Line, Place

LEMMA CellOfLine ==
  ASSUME NEW g, NEW c, c = <<c[1], c[2]>>
  PROVE  c = BorderCell(g, Line(g, c), Place(g, c))
BY DEF BorderCell, Line, Place

LEMMA DistanceByLine ==
  ASSUME NEW g, NEW c \in Int \X Int, NEW d \in Int \X Int
  PROVE  ManhattanDistance(c, d) = 1 <=>
           \/ Line(g, d) = Line(g, c) /\ Place(g, d) - Place(g, c) \in {-1, 1}
           \/ Place(g, d) = Place(g, c) /\ Line(g, d) - Line(g, c) \in {-1, 1}
<1>1. PICK x, y, u, v \in Int : c = <<x, y>> /\ d = <<u, v>>
  OBVIOUS
<1>2. ManhattanDistance(c, d) = 1 <=>
        \/ u = x /\ (v = y + 1 \/ v = y - 1)
        \/ v = y /\ (u = x + 1 \/ u = x - 1)
  BY <1>1, DistanceOne
<1>3. /\ u - x \in {-1, 1} <=> u = x + 1 \/ u = x - 1
      /\ v - y \in {-1, 1} <=> v = y + 1 \/ v = y - 1
  OBVIOUS
<1>4. CASE ByColumn(g)
  <2>1. Line(g, c) = x /\ Place(g, c) = y /\ Line(g, d) = u /\ Place(g, d) = v
    BY <1>1, <1>4 DEF Line, Place
  <2> QED
    BY <1>2, <1>3, <2>1
<1>5. CASE ~ByColumn(g)
  <2>1. Line(g, c) = y /\ Place(g, c) = x /\ Line(g, d) = v /\ Place(g, d) = u
    BY <1>1, <1>5 DEF Line, Place
  <2> QED
    BY <1>2, <1>3, <2>1
<1> QED
  BY <1>4, <1>5

\* The neighbours of a slab in the others.
LEMMA NextSlab ==
  ASSUME NEW g, Buildable(g), NEW r \in Ranks(g), NEW i \in Begin(g, r) .. End(g, r),
         NEW j \in 0 .. Side(g) - 1, j \notin Begin(g, r) .. End(g, r), j - i \in {-1, 1}
  PROVE  \/ r + 1 \in Ranks(g) /\ i = End(g, r) /\ j = Begin(g, r + 1)
         \/ r - 1 \in Ranks(g) /\ i = Begin(g, r) /\ j = End(g, r - 1)
<1>1. /\ Begin(g, r) \in Nat /\ End(g, r) \in Nat /\ End(g, r) < Side(g) /\ Side(g) \in Nat
      /\ r = 0 => Begin(g, r) = 0
      /\ r = g.procs - 1 => End(g, r) = Side(g) - 1
      /\ g.procs \in Nat
  BY SlabParts, GridParts
<1>2. r \in Nat /\ r <= g.procs - 1
  BY <1>1 DEF Ranks
<1>3. \/ i = End(g, r) /\ j = End(g, r) + 1
      \/ i = Begin(g, r) /\ j = Begin(g, r) - 1
  BY <1>1
<1>4. CASE i = End(g, r) /\ j = End(g, r) + 1
  <2>1. r # g.procs - 1
    BY <1>1, <1>4
  <2>2. r + 1 \in Ranks(g)
    BY <1>1, <1>2, <2>1 DEF Ranks
  <2> QED
    BY <1>4, <2>2, SlabParts
<1>5. CASE i = Begin(g, r) /\ j = Begin(g, r) - 1
  <2>1. r # 0
    BY <1>1, <1>5
  <2>2. r - 1 \in Ranks(g) /\ (r - 1) + 1 = r
    BY <1>1, <1>2, <2>1 DEF Ranks
  <2>3. Begin(g, r) = End(g, r - 1) + 1 /\ End(g, r - 1) \in Nat
    BY <2>2, SlabParts
  <2> QED
    BY <1>5, <2>2, <2>3
<1> QED
  BY <1>3, <1>4, <1>5

LEMMA FrontierParts ==
  ASSUME NEW g, Buildable(g), NEW r \in Ranks(g), NEW q \in Ranks(g), q - r \in {-1, 1},
         NEW k \in 0 .. BorderLength(g) - 1
  PROVE  /\ Frontier(g, q, r)[k] = BorderCell(g, IF q < r THEN End(g, q) ELSE Begin(g, q), k)
         /\ FrontierPoint(g, q, r, k) = Frontier(g, q, r)[k]
<1>1. Frontier(g, q, r)[k] = BorderCell(g, IF q < r THEN End(g, q) ELSE Begin(g, q), k)
  BY DEF Frontier
<1>2. q \in Int /\ r \in Int
  BY DEF Ranks
<1>3. /\ Begin(g, q) \in Nat /\ End(g, q) \in Nat /\ Begin(g, r) \in Nat /\ End(g, r) \in Nat
  BY SlabParts
<1>4. CASE q + 1 = r
  <2>1. Begin(g, r) = End(g, q) + 1
    BY <1>4, SlabParts
  <2> QED
    BY <1>1, <1>2, <1>3, <1>4, <2>1 DEF FrontierPoint
<1>5. CASE q = r + 1
  <2>1. Begin(g, q) = End(g, r) + 1
    BY <1>5, SlabParts
  <2> QED
    BY <1>1, <1>2, <1>3, <1>5, <2>1 DEF FrontierPoint
<1> QED
  BY <1>2, <1>4, <1>5

LEMMA FrontierLinkParts ==
  ASSUME NEW g, Buildable(g), NEW r \in Ranks(g), NEW l
  PROVE  l \in FrontierLinks(g, r) <=>
           /\ l \in LocalCells(g, r) \X (Points(g) \ LocalCells(g, r))
           /\ ManhattanDistance(l[1], l[2]) = 1
<1> DEFINE near(q) == IF q < r THEN Begin(g, r) ELSE End(g, r)
           far(q) == IF q < r THEN End(g, q) ELSE Begin(g, q)
           K == 0 .. BorderLength(g) - 1
<1>1. g.width \in Nat /\ g.height \in Nat /\ BorderLength(g) \in Nat /\ Side(g) \in Nat
  BY GridParts DEF BorderLength
<1>2. \A q \in Ranks(g) : /\ Begin(g, q) \in Nat /\ End(g, q) \in Nat
                           /\ Begin(g, q) <= End(g, q) /\ End(g, q) < Side(g)
                           /\ q \in Int
  BY SlabParts DEF Ranks
<1>3. l \in FrontierLinks(g, r) <=>
        \E q \in Ranks(g), k \in K :
          q - r \in {-1, 1} /\ l = <<BorderCell(g, near(q), k), BorderCell(g, far(q), k)>>
  <2>1. l \in FrontierLinks(g, r) <=>
          \E q \in {r - 1, r + 1} \cap Ranks(g), k \in K :
             l = <<BorderCell(g, near(q), k), Frontier(g, q, r)[k]>>
    BY DEF FrontierLinks
  <2>2. \A q \in Ranks(g) : q \in {r - 1, r + 1} <=> q - r \in {-1, 1}
    BY <1>2
  <2>3. \A q \in Ranks(g), k \in K : q - r \in {-1, 1} => Frontier(g, q, r)[k] = BorderCell(g, far(q), k)
    BY FrontierParts
  <2> HIDE DEF near, far, K
  <2> QED
    BY <2>1, <2>2, <2>3
<1>4. ASSUME NEW q \in Ranks(g), NEW k \in K, q - r \in {-1, 1},
             l = <<BorderCell(g, near(q), k), BorderCell(g, far(q), k)>>
      PROVE  /\ l \in LocalCells(g, r) \X (Points(g) \ LocalCells(g, r))
             /\ ManhattanDistance(l[1], l[2]) = 1
  <2> DEFINE c == BorderCell(g, near(q), k)
             d == BorderCell(g, far(q), k)
  <2>1. near(q) \in Begin(g, r) .. End(g, r) /\ near(q) \in Int /\ k \in Int
    BY <1>1, <1>2
  <2>2. far(q) \in 0 .. Side(g) - 1 /\ far(q) \in Int
    BY <1>1, <1>2
  <2>3. far(q) - near(q) \in {-1, 1} /\ far(q) \notin Begin(g, r) .. End(g, r)
    <3>1. q + 1 = r \/ r + 1 = q
      BY <1>2, <1>4
    <3>2. q + 1 = r => Begin(g, r) = End(g, q) + 1
      BY SlabParts
    <3>3. r + 1 = q => Begin(g, q) = End(g, r) + 1
      BY SlabParts
    <3> QED
      BY <1>2, <3>1, <3>2, <3>3
  <2>4. /\ c = <<c[1], c[2]>> /\ Line(g, c) = near(q) /\ Place(g, c) = k
        /\ d = <<d[1], d[2]>> /\ Line(g, d) = far(q) /\ Place(g, d) = k
    <3> HIDE DEF near, far
    <3> QED
      BY <2>1, <2>2, BorderCellParts
  <2>5. Begin(g, r) \in Nat /\ End(g, r) \in Nat /\ End(g, r) < Side(g)
    BY <1>2
  <2>6. near(q) \in 0 .. Side(g) - 1
    BY <2>1, <2>5, <1>1
  <2> HIDE DEF near, far, c, d
  <2>7. c \in Points(g) /\ d \in Points(g)
    BY <2>2, <2>4, <2>6, PointParts DEF K
  <2>8. c \in LocalCells(g, r) /\ d \notin LocalCells(g, r)
    BY <2>1, <2>3, <2>4, <2>7, CellParts
  <2>9. c \in Int \X Int /\ d \in Int \X Int
    BY <2>7, <1>1 DEF Points
  <2>10. ManhattanDistance(c, d) = 1
    BY <2>3, <2>4, <2>9, DistanceByLine
  <2>11. l = <<c, d>> /\ l[1] = c /\ l[2] = d
    BY <1>4 DEF c, d
  <2> QED
    BY <2>7, <2>8, <2>10, <2>11
<1>5. ASSUME l \in LocalCells(g, r) \X (Points(g) \ LocalCells(g, r)),
             ManhattanDistance(l[1], l[2]) = 1
      PROVE  \E q \in Ranks(g), k \in K :
               q - r \in {-1, 1} /\ l = <<BorderCell(g, near(q), k), BorderCell(g, far(q), k)>>
  <2> DEFINE c == l[1]
             d == l[2]
             k == Place(g, c)
  <2>1. /\ c \in LocalCells(g, r) /\ d \in Points(g) /\ d \notin LocalCells(g, r)
        /\ l = <<c, d>> /\ ManhattanDistance(c, d) = 1
    BY <1>5
  <2> HIDE DEF c, d
  <2>2. /\ c \in Points(g) /\ Line(g, c) \in Begin(g, r) .. End(g, r)
        /\ Line(g, d) \notin Begin(g, r) .. End(g, r)
    BY <2>1, CellParts
  <2>3. /\ c = <<c[1], c[2]>> /\ d = <<d[1], d[2]>> /\ k \in K
        /\ Line(g, c) \in 0 .. Side(g) - 1 /\ Line(g, d) \in 0 .. Side(g) - 1
    BY <2>1, <2>2, PointParts
  <2>4. c \in Int \X Int /\ d \in Int \X Int
    BY <2>1, <2>2, <1>1 DEF Points
  <2>5. Place(g, d) = k /\ Line(g, d) - Line(g, c) \in {-1, 1}
    BY <2>1, <2>2, <2>4, DistanceByLine
  <2>6. \/ r + 1 \in Ranks(g) /\ Line(g, c) = End(g, r) /\ Line(g, d) = Begin(g, r + 1)
        \/ r - 1 \in Ranks(g) /\ Line(g, c) = Begin(g, r) /\ Line(g, d) = End(g, r - 1)
    BY <2>2, <2>3, <2>5, NextSlab
  <2>7. c = BorderCell(g, Line(g, c), k) /\ d = BorderCell(g, Line(g, d), k)
    BY <2>3, <2>5, CellOfLine
  <2>8. r \in Int /\ ~(r + 1 < r) /\ r - 1 < r /\ (r + 1) - r = 1 /\ (r - 1) - r = -1
    BY <1>2
  <2> HIDE DEF k, K
  <2>9. CASE r + 1 \in Ranks(g) /\ Line(g, c) = End(g, r) /\ Line(g, d) = Begin(g, r + 1)
    <3>1. near(r + 1) = End(g, r) /\ far(r + 1) = Begin(g, r + 1)
      BY <2>8
    <3> HIDE DEF near, far
    <3> QED
      BY <2>1, <2>3, <2>7, <2>8, <2>9, <3>1
  <2>10. CASE r - 1 \in Ranks(g) /\ Line(g, c) = Begin(g, r) /\ Line(g, d) = End(g, r - 1)
    <3>1. near(r - 1) = Begin(g, r) /\ far(r - 1) = End(g, r - 1)
      BY <2>8
    <3> HIDE DEF near, far
    <3> QED
      BY <2>1, <2>3, <2>7, <2>8, <2>10, <3>1
  <2> QED
    BY <2>6, <2>9, <2>10
<1> HIDE DEF near, far, K
<1> QED
  BY <1>3, <1>4, <1>5

LEMMA LinkParts ==
  ASSUME NEW g, Buildable(g), NEW r \in Ranks(g)
  PROVE  Links(g, r) = {l \in LocalCells(g, r) \X Points(g) : ManhattanDistance(l[1], l[2]) = 1}
<1>1. LocalCells(g, r) \subseteq Points(g)
  BY CellParts
<1>2. ASSUME NEW l
      PROVE  l \in Links(g, r) <=>
               l \in LocalCells(g, r) \X Points(g) /\ ManhattanDistance(l[1], l[2]) = 1
  <2>1. l \in Links(g, r) <=>
          /\ \/ l \in LocalCells(g, r) \X LocalCells(g, r)
             \/ l \in LocalCells(g, r) \X (Points(g) \ LocalCells(g, r))
          /\ ManhattanDistance(l[1], l[2]) = 1
    BY LocalLinkParts, FrontierLinkParts DEF Links
  <2> QED
    BY <2>1, <1>1
<1> QED
  BY <1>2

THEOREM LatticeBuilt ==
  ASSUME NEW g, Buildable(g)
  PROVE  IsLattice(g)
<1>1. Cells(g) = Points(g)
  BY CellsArePoints
<1>2. \A q, r \in Ranks(g) : q # r => LocalCells(g, q) \cap LocalCells(g, r) = {}
  BY SlabsDisjoint
<1>3. \A r \in Ranks(g) :
        Links(g, r) = {l \in LocalCells(g, r) \X Points(g) : ManhattanDistance(l[1], l[2]) = 1}
  BY LinkParts
<1>4. \A q, r \in Ranks(g) : q - r \in {-1, 1} =>
        \A k \in 0 .. BorderLength(g) - 1 : FrontierPoint(g, q, r, k) = Frontier(g, q, r)[k]
  BY FrontierParts
<1> QED
  BY <1>1, <1>2, <1>3, <1>4 DEF IsLattice, Points

\* Neighbours of the cells in the graph: those at distance 1.
LEMMA SuccessorParts ==
  ASSUME NEW g, Buildable(g), NEW c \in Cells(g), NEW d \in Cells(g)
  PROVE  d \in Successors(g)[c] <=> ManhattanDistance(c, d) = 1
<1>1. d \in Successors(g)[c] <=> \E r \in Ranks(g) : <<c, d>> \in Links(g, r)
  BY DEF Successors
<1>2. c \in Points(g) /\ d \in Points(g)
  BY CellsArePoints
<1>3. PICK r \in Ranks(g) : c \in LocalCells(g, r)
  BY DEF Cells
<1>4. \A q \in Ranks(g) : <<c, d>> \in Links(g, q) => ManhattanDistance(c, d) = 1
  BY LinkParts
<1>5. ManhattanDistance(c, d) = 1 => <<c, d>> \in Links(g, r)
  BY <1>2, <1>3, LinkParts
<1> QED
  BY <1>1, <1>4, <1>5

-----------------------------------------------------------------------------
(* Distances and ranges *)

LEMMA CellCoordinates ==
  ASSUME NEW g, Buildable(g), NEW c \in Cells(g)
  PROVE  /\ c = <<c[1], c[2]>>
         /\ c[1] \in 0 .. g.width - 1 /\ c[2] \in 0 .. g.height - 1
         /\ c[1] \in Int /\ c[2] \in Int
<1>1. c \in Points(g)
  BY CellsArePoints
<1> QED
  BY <1>1, GridParts DEF Points

LEMMA AbsParts ==
  ASSUME NEW i \in Int
  PROVE  Abs(i) \in Nat /\ (Abs(i) = 0 <=> i = 0) /\ (i < 0 => Abs(i) = -i) /\ (i >= 0 => Abs(i) = i)
BY DEF Abs

LEMMA DistanceParts ==
  ASSUME NEW g, Buildable(g), NEW c \in Cells(g), NEW d \in Cells(g)
  PROVE  /\ ManhattanDistance(c, d) = Abs(d[1] - c[1]) + Abs(d[2] - c[2])
         /\ ManhattanDistance(c, d) \in Nat
         /\ ManhattanDistance(c, d) = 0 <=> d = c
         /\ ChebyshevDistance(c, d) \in Nat
         /\ \A n \in Nat : ChebyshevDistance(c, d) <= n <=>
              Abs(d[1] - c[1]) <= n /\ Abs(d[2] - c[2]) <= n
<1>1. /\ c = <<c[1], c[2]>> /\ c[1] \in Int /\ c[2] \in Int
      /\ d = <<d[1], d[2]>> /\ d[1] \in Int /\ d[2] \in Int
  BY CellCoordinates
<1> DEFINE x == Abs(d[1] - c[1])
           y == Abs(d[2] - c[2])
<1>2. /\ x \in Nat /\ (x = 0 <=> d[1] = c[1])
      /\ y \in Nat /\ (y = 0 <=> d[2] = c[2])
  BY <1>1, AbsParts
<1>3. ManhattanDistance(c, d) = x + y /\ ChebyshevDistance(c, d) = IF x < y THEN y ELSE x
  BY DEF ManhattanDistance, ChebyshevDistance
<1> HIDE DEF x, y
<1>4. x + y = 0 <=> x = 0 /\ y = 0
  BY <1>2
<1>5. d = c <=> d[1] = c[1] /\ d[2] = c[2]
  BY <1>1
<1>6. ManhattanDistance(c, d) = 0 <=> d = c
  BY <1>2, <1>3, <1>4, <1>5
<1> QED
  BY <1>2, <1>3, <1>6 DEF x, y

LEMMA ContainsParts ==
  ASSUME NEW g, Buildable(g), NEW r \in OneRange, NEW root \in Cells(g), NEW c \in Cells(g)
  PROVE  LET inside == Contains(Successors(g), r, root, c)
         IN  /\ r.kind = "VonNeumann" => (inside <=> ManhattanDistance(root, c) <= r.size)
             /\ r.kind = "Moore" => (inside <=> ChebyshevDistance(root, c) <= r.size)
             /\ r.kind = "Graph" => (inside <=> c = root \/ ManhattanDistance(root, c) = 1)
             /\ r.kind = "GraphExcludingLocation" => (inside <=> ManhattanDistance(root, c) = 1)
             /\ r.size \in Nat /\ r.kind \in RangeKind
<1>1. c \in Successors(g)[root] <=> ManhattanDistance(root, c) = 1
  BY SuccessorParts
<1>2. r.size \in Nat /\ r.kind \in RangeKind
  BY DEF OneRange
<1> QED
  BY <1>1, <1>2 DEF Contains, InGraphRange

\* A range contains the location of the agent, or the successors of it.
LEMMA ContainsRoot ==
  ASSUME NEW g, Buildable(g), NEW r \in OneRange, NEW root \in Cells(g)
  PROVE  /\ r.kind # "GraphExcludingLocation" => Contains(Successors(g), r, root, root)
         /\ r.kind = "GraphExcludingLocation" =>
              /\ ~Contains(Successors(g), r, root, root)
              /\ \A c \in Cells(g) :
                   Contains(Successors(g), r, root, c) <=> c \in Successors(g)[root]
<1>1. ManhattanDistance(root, root) = 0 /\ ChebyshevDistance(root, root) <= 0
  <2>1. /\ ManhattanDistance(root, root) = 0
        /\ ChebyshevDistance(root, root) <= 0 <=>
             Abs(root[1] - root[1]) <= 0 /\ Abs(root[2] - root[2]) <= 0
    BY DistanceParts
  <2>2. Abs(root[1] - root[1]) = 0 /\ Abs(root[2] - root[2]) = 0
    BY CellCoordinates, AbsParts
  <2> QED
    BY <2>1, <2>2
<1>2. ChebyshevDistance(root, root) \in Nat
  BY DistanceParts
<1>3. r.kind # "GraphExcludingLocation" => Contains(Successors(g), r, root, root)
  BY <1>1, <1>2, ContainsParts DEF RangeKind
<1>4. r.kind = "GraphExcludingLocation" => ~Contains(Successors(g), r, root, root)
  BY <1>1, ContainsParts
<1>5. r.kind = "GraphExcludingLocation" => \A c \in Cells(g) :
        Contains(Successors(g), r, root, c) <=> c \in Successors(g)[root]
  BY ContainsParts, SuccessorParts
<1> QED
  BY <1>3, <1>4, <1>5

\* Range::radius() bounds the number of links to the cells of a range.
LEMMA RadiusBound ==
  ASSUME NEW g, Buildable(g), NEW r \in OneRange, NEW root \in Cells(g), NEW c \in Cells(g),
         Contains(Successors(g), r, root, c)
  PROVE  ManhattanDistance(root, c) <= Radius(r)
<1>1. r.size \in Nat /\ r.kind \in RangeKind /\ Abs(r.size) = r.size
  BY AbsParts DEF OneRange
<1>2. /\ r.kind = "VonNeumann" => Radius(r) = r.size
      /\ r.kind = "Moore" => Radius(r) = r.size + r.size
      /\ r.kind \in {"Graph", "GraphExcludingLocation"} => Radius(r) = 1
  BY <1>1, AbsParts DEF Radius, ManhattanDistance, VonNeumannPerimeter, MoorePerimeter
<1>3. CASE r.kind = "Moore"
  <2> DEFINE x == Abs(c[1] - root[1])
             y == Abs(c[2] - root[2])
  <2>1. x <= r.size /\ y <= r.size /\ ManhattanDistance(root, c) = x + y
    BY <1>1, <1>3, ContainsParts, DistanceParts
  <2>2. x \in Nat /\ y \in Nat
    BY CellCoordinates, AbsParts
  <2> HIDE DEF x, y
  <2> QED
    BY <1>1, <1>2, <1>3, <2>1, <2>2
<1>4. CASE r.kind = "VonNeumann"
  BY <1>2, <1>4, ContainsParts
<1>5. CASE r.kind \in {"Graph", "GraphExcludingLocation"}
  <2>1. c = root \/ ManhattanDistance(root, c) = 1
    BY <1>5, ContainsParts
  <2>2. c = root => ManhattanDistance(root, c) = 0
    BY DistanceParts
  <2> QED
    BY <2>1, <2>2, <1>2, <1>5
<1> QED
  BY <1>1, <1>3, <1>4, <1>5 DEF RangeKind

LEMMA RadiusIsNat ==
  ASSUME NEW r \in OneRange
  PROVE  Radius(r) \in Nat
<1>1. r.size \in Nat /\ r.kind \in RangeKind /\ Abs(r.size) = r.size
  BY AbsParts DEF OneRange
<1> QED
  BY <1>1, AbsParts DEF Radius, ManhattanDistance, VonNeumannPerimeter, MoorePerimeter

\* A range of the same kind that is not smaller contains the same cells.
LEMMA WiderRange ==
  ASSUME NEW g, Buildable(g), NEW r \in OneRange, NEW s \in OneRange, s.kind = r.kind, r.size <= s.size,
         NEW root \in Cells(g), NEW c \in Cells(g), Contains(Successors(g), r, root, c)
  PROVE  Contains(Successors(g), s, root, c)
<1>1. s.kind = r.kind /\ r.size <= s.size /\ r.size \in Nat /\ s.size \in Nat /\ r.kind \in RangeKind
  BY DEF OneRange
<1>2. ManhattanDistance(root, c) \in Nat /\ ChebyshevDistance(root, c) \in Nat
  BY DistanceParts
<1>3. /\ ManhattanDistance(root, c) <= r.size => ManhattanDistance(root, c) <= s.size
      /\ ChebyshevDistance(root, c) <= r.size => ChebyshevDistance(root, c) <= s.size
  BY <1>1, <1>2
<1> QED
  BY <1>1, <1>3, ContainsParts DEF RangeKind

\* One step from c towards root.
Nearer(c, root) ==
  IF c[1] < root[1] THEN <<c[1] + 1, c[2]>>
  ELSE IF c[1] > root[1] THEN <<c[1] - 1, c[2]>>
  ELSE IF c[2] < root[2] THEN <<c[1], c[2] + 1>>
  ELSE <<c[1], c[2] - 1>>

LEMMA NearerParts ==
  ASSUME NEW g, Buildable(g), NEW root \in Cells(g), NEW c \in Cells(g), c # root
  PROVE  LET d == Nearer(c, root)
         IN  /\ d \in Cells(g)
             /\ ManhattanDistance(root, d) + 1 = ManhattanDistance(root, c)
             /\ \A n \in Nat : ChebyshevDistance(root, c) <= n => ChebyshevDistance(root, d) <= n
             /\ c \in Successors(g)[d]
<1> DEFINE d == Nearer(c, root)
<1>1. /\ c = <<c[1], c[2]>> /\ c[1] \in Int /\ c[2] \in Int
      /\ c[1] \in 0 .. g.width - 1 /\ c[2] \in 0 .. g.height - 1
      /\ root = <<root[1], root[2]>> /\ root[1] \in Int /\ root[2] \in Int
      /\ root[1] \in 0 .. g.width - 1 /\ root[2] \in 0 .. g.height - 1
      /\ g.width \in Nat /\ g.height \in Nat
  BY CellCoordinates, GridParts
<1>2. c[1] # root[1] \/ c[2] # root[2]
  BY <1>1
<1>3. /\ d = <<d[1], d[2]>>
      /\ d[1] \in 0 .. g.width - 1 /\ d[2] \in 0 .. g.height - 1
      /\ d[1] \in Int /\ d[2] \in Int
      /\ ManhattanDistance(d, c) = 1
      /\ Abs(d[1] - root[1]) + Abs(d[2] - root[2]) + 1
           = Abs(c[1] - root[1]) + Abs(c[2] - root[2])
      /\ Abs(d[1] - root[1]) <= Abs(c[1] - root[1])
      /\ Abs(d[2] - root[2]) <= Abs(c[2] - root[2])
  <2>1. CASE c[1] < root[1]
    <3>1. d = <<c[1] + 1, c[2]>> /\ d[1] = c[1] + 1 /\ d[2] = c[2]
      BY <2>1 DEF Nearer
    <3> HIDE DEF d
    <3>2. ManhattanDistance(d, c) = 1
      BY <1>1, <3>1, DistanceOne
    <3> QED
      BY <1>1, <2>1, <3>1, <3>2 DEF Abs
  <2>2. CASE c[1] > root[1]
    <3>1. d = <<c[1] - 1, c[2]>> /\ d[1] = c[1] - 1 /\ d[2] = c[2]
      BY <1>1, <2>2 DEF Nearer
    <3> HIDE DEF d
    <3>2. ManhattanDistance(d, c) = 1
      <4>1. c[1] - 1 \in Int /\ c[1] = (c[1] - 1) + 1
        BY <1>1
      <4>2. ManhattanDistance(<<c[1] - 1, c[2]>>, <<c[1], c[2]>>) = 1
        BY <1>1, <4>1, DistanceOne
      <4> QED
        BY <1>1, <3>1, <4>2
    <3> QED
      BY <1>1, <2>2, <3>1, <3>2 DEF Abs
  <2>3. CASE c[1] = root[1] /\ c[2] < root[2]
    <3>1. d = <<c[1], c[2] + 1>> /\ d[1] = c[1] /\ d[2] = c[2] + 1
      BY <1>1, <2>3 DEF Nearer
    <3> HIDE DEF d
    <3>2. ManhattanDistance(d, c) = 1
      BY <1>1, <3>1, DistanceOne
    <3> QED
      BY <1>1, <2>3, <3>1, <3>2 DEF Abs
  <2>4. CASE c[1] = root[1] /\ c[2] > root[2]
    <3>1. d = <<c[1], c[2] - 1>> /\ d[1] = c[1] /\ d[2] = c[2] - 1
      BY <1>1, <2>4 DEF Nearer
    <3> HIDE DEF d
    <3>2. ManhattanDistance(d, c) = 1
      <4>1. c[2] - 1 \in Int /\ c[2] = (c[2] - 1) + 1
        BY <1>1
      <4>2. ManhattanDistance(<<c[1], c[2] - 1>>, <<c[1], c[2]>>) = 1
        BY <1>1, <4>1, DistanceOne
      <4> QED
        BY <1>1, <3>1, <4>2
    <3> QED
      BY <1>1, <2>4, <3>1, <3>2 DEF Abs
  <2> QED
    BY <1>1, <1>2, <2>1, <2>2, <2>3, <2>4
<1> HIDE DEF d
<1>4. d \in Points(g)
  BY <1>3 DEF Points
<1>5. d \in Cells(g)
  BY <1>4, CellsArePoints
<1>6. c \in Successors(g)[d]
  BY <1>3, <1>5, SuccessorParts
<1>7. ManhattanDistance(root, d) + 1 = ManhattanDistance(root, c)
  BY <1>3, <1>5, DistanceParts
<1>8. ASSUME NEW n \in Nat, ChebyshevDistance(root, c) <= n
      PROVE  ChebyshevDistance(root, d) <= n
  <2>1. Abs(c[1] - root[1]) <= n /\ Abs(c[2] - root[2]) <= n
    BY <1>8, DistanceParts
  <2>2. /\ Abs(c[1] - root[1]) \in Nat /\ Abs(c[2] - root[2]) \in Nat
        /\ Abs(d[1] - root[1]) \in Nat /\ Abs(d[2] - root[2]) \in Nat
    BY <1>1, <1>3, AbsParts
  <2>3. Abs(d[1] - root[1]) <= n /\ Abs(d[2] - root[2]) <= n
    BY <1>3, <2>1, <2>2
  <2> QED
    BY <1>5, <2>3, DistanceParts
<1> QED
  BY <1>5, <1>6, <1>7, <1>8 DEF d

\* A range is connected: a cell of it has a predecessor there one link nearer.
LEMMA RangeConnected ==
  ASSUME NEW g, Buildable(g), NEW r \in OneRange, r.kind # "GraphExcludingLocation",
         NEW root \in Cells(g), NEW c \in Cells(g), c # root,
         Contains(Successors(g), r, root, c)
  PROVE  \E d \in Cells(g) :
           /\ Contains(Successors(g), r, root, d)
           /\ ManhattanDistance(root, d) + 1 = ManhattanDistance(root, c)
           /\ c \in Successors(g)[d]
<1> DEFINE d == Nearer(c, root)
<1>1. /\ d \in Cells(g)
      /\ ManhattanDistance(root, d) + 1 = ManhattanDistance(root, c)
      /\ \A n \in Nat : ChebyshevDistance(root, c) <= n => ChebyshevDistance(root, d) <= n
      /\ c \in Successors(g)[d]
  BY NearerParts
<1>2. r.size \in Nat /\ r.kind \in RangeKind
  BY DEF OneRange
<1> HIDE DEF d
<1>3. /\ ManhattanDistance(root, c) \in Nat /\ ManhattanDistance(root, d) \in Nat
      /\ ManhattanDistance(root, d) = 0 => d = root
  BY <1>1, DistanceParts
<1>4. CASE r.kind = "VonNeumann"
  <2>1. ManhattanDistance(root, c) <= r.size
    BY <1>4, ContainsParts
  <2>2. ManhattanDistance(root, d) <= r.size
    BY <1>1, <1>2, <1>3, <2>1
  <2> QED
    BY <1>1, <1>4, <2>2, ContainsParts
<1>5. CASE r.kind = "Moore"
  <2>1. ChebyshevDistance(root, d) <= r.size
    BY <1>1, <1>2, <1>5, ContainsParts
  <2> QED
    BY <1>1, <1>5, <2>1, ContainsParts
<1>6. CASE r.kind = "Graph"
  <2>1. ManhattanDistance(root, c) = 1
    BY <1>6, ContainsParts
  <2>2. d = root
    BY <1>1, <1>3, <2>1
  <2> QED
    BY <1>1, <1>6, <2>2, ContainsParts
<1> QED
  BY <1>2, <1>4, <1>5, <1>6 DEF RangeKind
====
