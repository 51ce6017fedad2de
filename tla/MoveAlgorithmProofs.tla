------------------------- MODULE MoveAlgorithmProofs -------------------------
(***************************************************************************)
(* Proofs about MoveAlgorithm, for any agents, groups, ranges and grids,   *)
(* and any number of moves and runs of the algorithm, as long as the       *)
(* usages of Allow are excluded.                                           *)
(*                                                                         *)
(* Fields are grown from cell to cell, one link further in each step.      *)
(* Ranges are connected, so after k steps a field has the cells of its     *)
(* range that are k links away, and the algorithm makes as many steps as   *)
(* the farthest cell of any range is away (Range::radius()).               *)
(***************************************************************************)
EXTENDS MoveAlgorithm, GridProofs, FiniteSetTheorems, WellFoundedInduction

-----------------------------------------------------------------------------
(* Sums and maxima over finite sets: a set of subsets of a finite set has a *)
(* minimal element, which stands for induction.                             *)

\* A set of subsets of a finite set has a minimal element.
LEMMA MinimalSubset ==
  ASSUME NEW S, IsFiniteSet(S), NEW B \in SUBSET SUBSET S, B # {}
  PROVE  \E T \in B : \A U \in SUBSET T : U # T => U \notin B
<1>1. IsWellFoundedOn(StrictSubsetOrdering(S), SUBSET S)
  BY FS_StrictSubsetOrderingWellFounded, FS_FiniteSubsetsOfFinite
<1>2. \E T \in B : \A U \in B : ~(<<U, T>> \in StrictSubsetOrdering(S))
  BY <1>1, WFMin
<1>3. PICK T \in B : \A U \in B : ~(<<U, T>> \in StrictSubsetOrdering(S))
  BY <1>2
<1>4. ASSUME NEW U \in SUBSET T, U # T, U \in B
      PROVE FALSE
  BY <1>3, <1>4 DEF StrictSubsetOrdering
<1> QED
  BY <1>3, <1>4

\* The element of a set that is summed first.
First(s) == CHOOSE x \in s : TRUE

LEMMA FirstIn == ASSUME NEW s, s # {} PROVE First(s) \in s
BY DEF First

\* g is the sums of f over the subsets of S.
IsSums(f, S, g) ==
  g = [s \in SUBSET S |-> IF s = {} THEN 0 ELSE f[First(s)] + g[s \ {First(s)}]]

Sums(f, S) == CHOOSE g : IsSums(f, S, g)

LEMMA SumIsSums ==
  ASSUME NEW f, NEW S
  PROVE  SumFunctionOnSet(f, S) = Sums(f, S)[S]
BY DEF SumFunctionOnSet, FoldFunctionOnSet, MapThenFoldSet, Sums, IsSums, First

LEMMA SumsStep ==
  ASSUME NEW f, NEW S, NEW g, IsSums(f, S, g), NEW s \in SUBSET S
  PROVE  g[s] = IF s = {} THEN 0 ELSE f[First(s)] + g[s \ {First(s)}]
<1> DEFINE h == [t \in SUBSET S |-> IF t = {} THEN 0 ELSE f[First(t)] + g[t \ {First(t)}]]
<1>1. g = h
  BY DEF IsSums
<1>2. h[s] = IF s = {} THEN 0 ELSE f[First(s)] + g[s \ {First(s)}]
  OBVIOUS
<1> QED
  BY <1>1, <1>2

LEMMA SumsMore ==
  ASSUME NEW f, NEW S, NEW g, IsSums(f, S, g), NEW s \in SUBSET S, s # {}
  PROVE  /\ First(s) \in s /\ s \ {First(s)} \in SUBSET S /\ s \ {First(s)} # s
         /\ s \ {First(s)} \in SUBSET s
         /\ g[s] = f[First(s)] + g[s \ {First(s)}]
<1>1. First(s) \in s
  BY FirstIn
<1>2. g[s] = f[First(s)] + g[s \ {First(s)}]
  BY SumsStep
<1> QED
  BY <1>1, <1>2

LEMMA SumsEmpty ==
  ASSUME NEW f, NEW S, NEW g, IsSums(f, S, g)
  PROVE  g[{}] = 0
<1>1. {} \in SUBSET S
  OBVIOUS
<1> QED
  BY <1>1, SumsStep

LEMMA SumsAgree ==
  ASSUME NEW f, NEW S, IsFiniteSet(S), NEW T, NEW g, NEW h, NEW s \in SUBSET S, s \in SUBSET T,
         IsSums(f, S, g), IsSums(f, T, h)
  PROVE  g[s] = h[s]
<1> SUFFICES ASSUME g[s] # h[s] PROVE FALSE
  OBVIOUS
<1> DEFINE B == {u \in SUBSET S : u \in SUBSET T /\ g[u] # h[u]}
<1>0. B \in SUBSET SUBSET S /\ s \in B
  OBVIOUS
<1>1. PICK u \in B : \A v \in SUBSET u : v # u => v \notin B
  <2> HIDE DEF B
  <2> QED
    BY <1>0, MinimalSubset
<1>2. u # {}
  <2>1. g[{}] = h[{}]
    BY SumsEmpty
  <2> QED
    BY <1>1, <2>1
<1>3. u \in SUBSET S /\ u \in SUBSET T /\ g[u] # h[u]
  BY <1>1
<1> DEFINE v == u \ {First(u)}
<1>4. /\ v \in SUBSET u /\ v # u /\ v \in SUBSET S /\ v \in SUBSET T
      /\ g[u] = f[First(u)] + g[v]
  <2> HIDE DEF B
  <2> QED
    BY <1>2, <1>3, SumsMore
<1>5. h[u] = f[First(u)] + h[v]
  <2> HIDE DEF B
  <2> QED
    BY <1>2, <1>3, SumsMore
<1>6. g[v] = h[v]
  BY <1>1, <1>4
<1> QED
  BY <1>3, <1>4, <1>5, <1>6

LEMMA SumsExist ==
  ASSUME NEW f, NEW S, IsFiniteSet(S)
  PROVE  IsSums(f, S, Sums(f, S))
<1> SUFFICES ASSUME ~ \E g : IsSums(f, S, g) PROVE FALSE
  BY DEF Sums
<1> DEFINE B == {t \in SUBSET S : ~ \E g : IsSums(f, t, g)}
<1>0. B \in SUBSET SUBSET S /\ S \in B
  OBVIOUS
<1>1. PICK t \in B : \A v \in SUBSET t : v # t => v \notin B
  <2> HIDE DEF B
  <2> QED
    BY <1>0, MinimalSubset
<1>2. \A v \in SUBSET t : v # t => IsSums(f, v, Sums(f, v))
  BY <1>1 DEF Sums
<1>3. \A v \in SUBSET t : IsFiniteSet(v)
  BY <1>1, FS_Subset
<1> DEFINE At(v) == IF v = {} THEN 0 ELSE f[First(v)] + Sums(f, v \ {First(v)})[v \ {First(v)}]
           G == [v \in SUBSET t |-> At(v)]
<1>4. ASSUME NEW v \in SUBSET t, v # {}
      PROVE  G[v \ {First(v)}] = Sums(f, v \ {First(v)})[v \ {First(v)}]
  <2> DEFINE w == v \ {First(v)}
  <2>1. First(v) \in v /\ w \in SUBSET t /\ w # t /\ w \in SUBSET w
    BY <1>4, FirstIn
  <2>2. IsSums(f, w, Sums(f, w)) /\ G[w] = At(w) /\ IsFiniteSet(w)
    BY <1>2, <1>3, <2>1
  <2>3. CASE w = {}
    BY <2>2, <2>3, SumsStep
  <2>4. CASE w # {}
    <3> DEFINE x == w \ {First(w)}
    <3>1. First(w) \in w /\ x \in SUBSET t /\ x # t /\ x \in SUBSET w /\ x \in SUBSET x
      BY <2>1, <2>4, FirstIn
    <3>2. IsSums(f, x, Sums(f, x))
      BY <1>2, <3>1
    <3>3. Sums(f, w)[w] = f[First(w)] + Sums(f, w)[x]
      <4> HIDE DEF w, x, B
      <4> QED
        BY <2>2, <2>4, <2>1, SumsMore DEF x
    <3>4. Sums(f, w)[x] = Sums(f, x)[x]
      <4> HIDE DEF w, x, B
      <4> QED
        BY <2>2, <3>1, <3>2, SumsAgree
    <3> QED
      BY <3>3, <3>4, <2>2, <2>4
  <2> QED
    BY <2>3, <2>4
<1>5. \A v \in SUBSET t : G[v] = IF v = {} THEN 0 ELSE f[First(v)] + G[v \ {First(v)}]
  BY <1>4
<1>6. IsSums(f, t, G)
  <2> HIDE DEF At
  <2> QED
    BY <1>5 DEF IsSums
<1> QED
  BY <1>1, <1>6

\* A sum of natural numbers.
LEMMA SumIsNat ==
  ASSUME NEW S, IsFiniteSet(S), NEW f, \A x \in S : f[x] \in Nat
  PROVE  /\ SumFunctionOnSet(f, S) \in Nat
         /\ SumFunctionOnSet(f, S) > 0 <=> \E x \in S : f[x] > 0
<1> DEFINE g == Sums(f, S)
           Good(t) == g[t] \in Nat /\ (g[t] > 0 <=> \E x \in t : f[x] > 0)
           B == {t \in SUBSET S : ~Good(t)}
<1>1. IsSums(f, S, g)
  BY SumsExist
<1>2. ASSUME B # {} PROVE FALSE
  <2>1. PICK t \in B : \A v \in SUBSET t : v # t => v \notin B
    <3>1. B \in SUBSET SUBSET S
      OBVIOUS
    <3> HIDE DEF B
    <3> QED
      BY <1>2, <3>1, MinimalSubset
  <2>2. CASE t = {}
    <3>1. g[{}] = 0
      BY <1>1, SumsEmpty
    <3> QED
      BY <2>1, <2>2, <3>1
  <2>3. CASE t # {}
    <3> DEFINE x == First(t)
               v == t \ {x}
    <3>1. x \in t /\ v \in SUBSET S /\ v # t /\ v \in SUBSET t /\ g[t] = f[x] + g[v]
      <4>1. t \in SUBSET S
        BY <2>1
      <4> HIDE DEF g, B
      <4> QED
        BY <1>1, <2>3, <4>1, SumsMore
    <3>2. Good(v)
      BY <2>1, <3>1
    <3>3. f[x] \in Nat /\ g[v] \in Nat
      BY <2>1, <3>1, <3>2
    <3>4. g[t] \in Nat /\ (g[t] > 0 <=> f[x] > 0 \/ g[v] > 0)
      <4> HIDE DEF g, x, v
      <4> QED
        BY <3>1, <3>3
    <3>5. \A y \in t : y = x \/ y \in v
      OBVIOUS
    <3>6. (\E y \in t : f[y] > 0) <=> f[x] > 0 \/ \E y \in v : f[y] > 0
      BY <3>1, <3>5
    <3> QED
      BY <2>1, <3>2, <3>4, <3>6
  <2> QED
    BY <2>2, <2>3
<1>3. Good(S)
  BY <1>2
<1> QED
  BY <1>3, SumIsSums

\* A sum with one term at most that is not 0.
LEMMA SumOfOne ==
  ASSUME NEW S, IsFiniteSet(S), NEW f, NEW y \in S, f[y] \in Nat,
         \A x \in S : x # y => f[x] = 0
  PROVE  SumFunctionOnSet(f, S) = f[y]
<1> DEFINE g == Sums(f, S)
           Good(t) == g[t] = IF y \in t THEN f[y] ELSE 0
           B == {t \in SUBSET S : ~Good(t)}
<1>1. IsSums(f, S, g)
  BY SumsExist
<1>2. ASSUME B # {} PROVE FALSE
  <2>1. PICK t \in B : \A v \in SUBSET t : v # t => v \notin B
    <3>1. B \in SUBSET SUBSET S
      OBVIOUS
    <3> HIDE DEF B
    <3> QED
      BY <1>2, <3>1, MinimalSubset
  <2>2. CASE t = {}
    <3>1. g[{}] = 0
      BY <1>1, SumsEmpty
    <3> QED
      BY <2>1, <2>2, <3>1
  <2>3. CASE t # {}
    <3> DEFINE x == First(t)
               v == t \ {x}
    <3>1. x \in t /\ v \in SUBSET S /\ v # t /\ v \in SUBSET t /\ g[t] = f[x] + g[v]
      <4>1. t \in SUBSET S
        BY <2>1
      <4> HIDE DEF g, B
      <4> QED
        BY <1>1, <2>3, <4>1, SumsMore
    <3>2. Good(v) /\ ~Good(t) /\ x \in S
      BY <2>1, <3>1
    <3>3. CASE x = y
      <4>1. g[v] = 0 /\ y \in t
        BY <3>1, <3>2, <3>3
      <4>2. g[t] = f[y]
        BY <3>1, <3>3, <4>1
      <4> QED
        BY <3>2, <4>1, <4>2
    <3>4. CASE x # y
      <4>1. f[x] = 0 /\ (y \in v <=> y \in t)
        BY <3>2, <3>4
      <4>2. g[v] \in Nat
        BY <3>2
      <4>3. g[t] = g[v]
        BY <3>1, <4>1, <4>2
      <4> QED
        BY <3>2, <4>1, <4>3
    <3> QED
      BY <3>3, <3>4
  <2> QED
    BY <2>2, <2>3
<1>3. Good(S)
  BY <1>2
<1> QED
  BY <1>3, SumIsSums

\* A finite set of numbers has a maximum.
LEMMA MaxOfFinite ==
  ASSUME NEW S \in SUBSET Nat, IsFiniteSet(S), S # {}
  PROVE  Max(S) \in S /\ \A x \in S : Max(S) >= x
<1> DEFINE B == {t \in SUBSET S : t # {} /\ ~ \E m \in t : \A x \in t : m >= x}
<1>1. ASSUME B # {} PROVE FALSE
  <2>1. PICK t \in B : \A v \in SUBSET t : v # t => v \notin B
    <3>1. B \in SUBSET SUBSET S
      OBVIOUS
    <3> HIDE DEF B
    <3> QED
      BY <1>1, <3>1, MinimalSubset
  <2>2. PICK x \in t : TRUE
    BY <2>1
  <2> DEFINE v == t \ {x}
  <2>3. v \in SUBSET t /\ v # t /\ v \notin B
    BY <2>1, <2>2
  <2>4. CASE v = {}
    BY <2>1, <2>2, <2>4
  <2>5. CASE v # {}
    <3>1. PICK m \in v : \A y \in v : m >= y
      BY <2>1, <2>3, <2>5
    <3>2. \A y \in t : y \in Nat /\ (y = x \/ y \in v)
      BY <2>1
    <3>3. CASE m >= x
      BY <2>1, <3>1, <3>2, <3>3
    <3>4. CASE x > m
      BY <2>1, <2>2, <3>1, <3>2, <3>4
    <3> QED
      BY <3>1, <3>2, <3>3, <3>4
  <2> QED
    BY <2>4, <2>5
<1>2. \E m \in S : \A x \in S : m >= x
  BY <1>1
<1> QED
  BY <1>2 DEF Max
-----------------------------------------------------------------------------
(* The inductive invariant *)

\* The fields of an agent: their layers, ranges, flags and cells.
FieldLayer == {"MOVE", "PERCEIVE"}

New(l) == IF l = "MOVE" THEN "NEW_MOVE" ELSE "NEW_PERCEIVE"

Among(ranges, l) == IF l = "MOVE" THEN ranges.mobility ELSE ranges.perception

RangeOf(a, l) == Among(range[a], l)

Flags(l) == IF l = "MOVE" THEN move_flags ELSE perception_flags

Inside(a, l, c) == Contains(Successor, RangeOf(a, l), location_id[a], c)

Linked(a, l, c) == edges[a][l][c] > 0

\* An agent has a new location that no cell has committed.
Pending(a) == Linked(a, "NEW_LOCATION", location_id[a])

Away(a, c) == ManhattanDistance(location_id[a], c)

Located ==
  \A a \in Agent, c \in Cell :
    edges[a]["LOCATION"][c] + edges[a]["NEW_LOCATION"][c] = IF c = location_id[a] THEN 1 ELSE 0

\* New locations are committed in the first step.
Committed ==
  /\ \A a \in Agent : Pending(a) => a \in moved
  /\ phase = "crop" \/ (phase = "grow" /\ step > 0) => \A a \in Agent : ~Pending(a)
  /\ phase = "perceptions" => \A a \in group : ~Pending(a)

\* The end condition; a group that moves has a range to grow.
Steps ==
  /\ phase \in {"outgoing", "incoming"} => 
       group \cap moved = {} \/ \E a \in group : AgentRadius(a) > 0
  /\ phase \in {"grow", "crop", "perceptions"} => max_step = MaxRadius
  /\ phase \in {"grow", "crop"} => step < max_step
  /\ phase = "perceptions" => step = max_step
  /\ phase \in {"grow", "crop", "perceptions"} /\ max_step = 0 => group \cap moved = {}

\* Fields never exceed ranges.
FieldsInside ==
  \A a \in Agent, l \in FieldLayer, c \in Cell :
    edges[a][l][c] \in {0, 1} /\ (Linked(a, l, c) => Inside(a, l, c))

\* The fields of agents that have not moved are complete.
FieldsKept ==
  \A a \in Agent, l \in FieldLayer, c \in Cell :
    a \notin moved /\ Inside(a, l, c) => Linked(a, l, c)

\* Fields have cells to grow from.
FieldsSeeded ==
  \A a \in Agent, l \in FieldLayer :
    /\ Inside(a, l, location_id[a]) => Linked(a, l, location_id[a])
    /\ ~Inside(a, l, location_id[a]) =>
         \/ Pending(a)
         \/ \A c \in Cell : c \in Successor[location_id[a]] => Linked(a, l, c) \/ Linked(a, New(l), c)

\* Flagged cells have been grown.
FlagsGrown ==
  /\ phase \in {"idle", "outgoing", "incoming"} => \A c \in Cell, l \in FieldLayer : Flags(l)[c] = {}
  /\ \A a \in Agent, l \in FieldLayer, c, d \in Cell :
       a \in Flags(l)[c] /\ d \in Successor[c] /\ Inside(a, l, d) =>
         Linked(a, l, d) \/ Linked(a, New(l), d)

\* After so many steps, fields reach the cells that many links away.
FieldsReach ==
  \A a \in group, l \in FieldLayer, c \in Cell : Inside(a, l, c) =>
    /\ phase \in {"grow", "crop", "perceptions"} /\ Away(a, c) <= step => Linked(a, l, c)
    /\ phase = "crop" /\ Away(a, c) <= step + 1 => Linked(a, l, c) \/ Linked(a, New(l), c)

Cleared ==
  phase \in {"grow", "perceptions", "idle"} /\ max_step > 0 =>
    \A a \in group, l \in FieldLayer, c \in Cell :
      (phase = "grow" => step > 0) => ~Linked(a, New(l), c)

\* Perceptions are those of agents that have not moved, or unlinked.
PerceptionsKept ==
  \A a, b \in Agent :
    /\ phase = "incoming" /\ a \in group => perceptions[a][b] = 0
    /\ phase \in {"grow", "crop", "perceptions"} /\ (a \in group \/ b \in group) => perceptions[a][b] = 0
    /\ \/ a \in moved \/ b \in moved
       \/ /\ phase \in {"incoming", "grow", "crop", "perceptions"}
          /\ a \in group \/ b \in group
       \/ perceptions[a][b] = IF a # b /\ Inside(a, "PERCEIVE", location_id[b]) THEN 1 ELSE 0

IInv ==
  /\ TypeOK /\ Located /\ Committed /\ Steps
  /\ FieldsInside /\ FieldsKept /\ FieldsSeeded /\ FlagsGrown /\ FieldsReach /\ Cleared
  /\ PerceptionsKept
-----------------------------------------------------------------------------
(* The grid, the ranges and the fields *)

LEMMA GridFacts ==
  ASSUME grid \in Grids
  PROVE  /\ Buildable(grid) /\ Cell = Cells(grid) /\ Successor = Successors(grid)
         /\ IsFiniteSet(Cell)
         /\ \A c \in Cell : Successor[c] \subseteq Cell
<1>1. Buildable(grid) /\ Cell = Cells(grid) /\ Successor = Successors(grid)
  BY GridsAssumption DEF Buildable, GridSet, Cell, CellsOf, Successor, SuccessorsOf
<1>2. Cell = Points(grid) /\ grid.width \in Nat /\ grid.height \in Nat
  BY <1>1, CellsArePoints, GridParts
<1>3. IsFiniteSet(0 .. grid.width - 1) /\ IsFiniteSet(0 .. grid.height - 1)
  <2>1. 0 \in Int /\ grid.width - 1 \in Int /\ grid.height - 1 \in Int
    BY <1>2
  <2> QED
    BY <2>1, FS_Interval
<1>4. IsFiniteSet(Cell)
  BY <1>2, <1>3, FS_Product DEF Points
<1>5. \A c \in Cell : Successor[c] \subseteq Cell
  BY <1>1 DEF Successors
<1> QED
  BY <1>1, <1>4, <1>5

LEMMA LayerFacts ==
  /\ \A l \in FieldLayer : l \in Layer /\ New(l) \in Layer /\ l \notin {"LOCATION", "NEW_LOCATION"}
                           /\ New(l) \notin {"LOCATION", "NEW_LOCATION"}
  /\ \A l, m \in FieldLayer : New(l) # m /\ (New(l) = New(m) => l = m)
  /\ "LOCATION" \in Layer /\ "NEW_LOCATION" \in Layer
BY DEF FieldLayer, New, Layer

LEMMA RangeFacts ==
  ASSUME NEW r \in Ranges
  PROVE  /\ r.mobility \in OneRange /\ r.perception \in OneRange
         /\ Radius(r.mobility) \in Nat /\ Radius(r.perception) \in Nat
<1>1. r \in [mobility : OneRange, perception : OneRange]
  BY RangesAssumption DEF OneRange
<1> QED
  BY <1>1, RadiusIsNat

LEMMA RangeOfFacts ==
  ASSUME TypeOK, NEW a \in Agent, NEW l \in FieldLayer
  PROVE  RangeOf(a, l) \in OneRange
<1>1. range[a] \in Ranges
  BY DEF TypeOK
<1> QED
  BY <1>1, RangeFacts DEF RangeOf, Among

LEMMA MaxOfTwo ==
  ASSUME NEW m \in Nat, NEW n \in Nat
  PROVE  Max({m, n}) \in Nat /\ m <= Max({m, n}) /\ n <= Max({m, n})
<1>1. {m, n} \in SUBSET Nat /\ {m, n} # {} /\ m \in {m, n} /\ n \in {m, n}
  OBVIOUS
<1>2. IsFiniteSet({m, n})
  <2>1. {m, n} = {m} \cup {n}
    OBVIOUS
  <2>2. IsFiniteSet({m})
    BY FS_Singleton
  <2>3. IsFiniteSet({m} \cup {n})
    BY <2>2, FS_AddElement
  <2> QED
    BY <2>1, <2>3
<1> QED
  BY <1>1, <1>2, MaxOfFinite

LEMMA AgentRadiusFacts ==
  ASSUME TypeOK, NEW a \in Agent
  PROVE  /\ AgentRadius(a) \in Nat
         /\ \A l \in FieldLayer : Radius(RangeOf(a, l)) <= AgentRadius(a)
<1>1. range[a] \in Ranges
  BY DEF TypeOK
<1>2. Radius(range[a].mobility) \in Nat /\ Radius(range[a].perception) \in Nat
  BY <1>1, RangeFacts
<1> QED
  BY <1>2, MaxOfTwo DEF AgentRadius, RangeOf, Among

LEMMA MaxRadiusFacts ==
  ASSUME TypeOK
  PROVE  MaxRadius \in Nat /\ \A a \in group : a \in Agent /\ AgentRadius(a) <= MaxRadius
<1>1. group \in SUBSET Agent /\ IsFiniteSet(Agent)
  BY GroupsAssumption DEF TypeOK
<1>2. IsFiniteSet(group)
  BY <1>1, FS_Subset
<1> DEFINE R == {AgentRadius(a) : a \in group}
<1>3. IsFiniteSet(R)
  <2> DEFINE f == [a \in group |-> AgentRadius(a)]
  <2>1. f \in Surjection(group, R)
    BY DEF Surjection
  <2> HIDE DEF f, R
  <2> QED
    BY <1>2, <2>1, FS_Surjection
<1>4. IsFiniteSet(R \cup {0})
  BY <1>3, FS_AddElement
<1>5. R \cup {0} \in SUBSET Nat
  BY <1>1, AgentRadiusFacts
<1>6. Max(R \cup {0}) \in R \cup {0} /\ \A x \in R \cup {0} : Max(R \cup {0}) >= x
  <2> HIDE DEF R
  <2> QED
    BY <1>4, <1>5, MaxOfFinite
<1>7. MaxRadius = Max(R \cup {0})
  BY DEF MaxRadius
<1>8. MaxRadius \in Nat
  BY <1>5, <1>6, <1>7
<1>9. \A a \in group : AgentRadius(a) \in R
  OBVIOUS
<1>10. \A a \in group : AgentRadius(a) <= MaxRadius /\ AgentRadius(a) \in Nat
  BY <1>5, <1>6, <1>7, <1>8, <1>9
<1> QED
  BY <1>1, <1>8, <1>10

\* Distances and ranges, of the state.
LEMMA AwayFacts ==
  ASSUME TypeOK, NEW a \in Agent, NEW c \in Cell
  PROVE  /\ Away(a, c) \in Nat
         /\ Away(a, c) = 0 <=> c = location_id[a]
         /\ location_id[a] \in Cell
<1>1. grid \in Grids /\ location_id[a] \in Cell
  BY DEF TypeOK
<1> QED
  BY <1>1, GridFacts, DistanceParts DEF Away

LEMMA InsideFacts ==
  ASSUME TypeOK, NEW a \in Agent, NEW l \in FieldLayer, NEW c \in Cell, Inside(a, l, c)
  PROVE  /\ Away(a, c) <= AgentRadius(a)
         /\ Inside(a, l, location_id[a]) =>
              \/ c = location_id[a]
              \/ \E d \in Cell : /\ Inside(a, l, d) /\ Away(a, d) + 1 = Away(a, c)
                                 /\ c \in Successor[d]
         /\ ~Inside(a, l, location_id[a]) =>
              c \in Successor[location_id[a]] /\ c # location_id[a]
<1> DEFINE r == RangeOf(a, l)
           root == location_id[a]
<1>1. /\ grid \in Grids /\ root \in Cell /\ r \in OneRange
      /\ Buildable(grid) /\ Cell = Cells(grid) /\ Successor = Successors(grid)
  BY GridFacts, RangeOfFacts DEF TypeOK
<1>2. Contains(Successors(grid), r, root, c)
  BY <1>1 DEF Inside
<1> HIDE DEF r, root
<1>3. Away(a, c) <= Radius(r) /\ Away(a, c) \in Nat
  BY <1>1, <1>2, RadiusBound, AwayFacts DEF Away, root
<1>4. Radius(r) \in Nat /\ Radius(r) <= AgentRadius(a) /\ AgentRadius(a) \in Nat
  BY <1>1, RadiusIsNat, AgentRadiusFacts DEF r
<1>5. CASE r.kind = "GraphExcludingLocation"
  <2>1. ~Contains(Successors(grid), r, root, root) /\ c \in Successor[root] /\ c # root
    BY <1>1, <1>2, <1>5, ContainsRoot
  <2> QED
    BY <1>1, <1>3, <1>4, <2>1 DEF Inside, r, root
<1>6. CASE r.kind # "GraphExcludingLocation"
  <2>1. Contains(Successors(grid), r, root, root)
    BY <1>1, <1>6, ContainsRoot
  <2>2. c # root => \E d \in Cells(grid) :
           /\ Contains(Successors(grid), r, root, d)
           /\ ManhattanDistance(root, d) + 1 = ManhattanDistance(root, c)
           /\ c \in Successors(grid)[d]
    BY <1>1, <1>2, <1>6, RangeConnected
  <2> QED
    BY <1>1, <1>3, <1>4, <2>1, <2>2 DEF Inside, Away, r, root
<1> QED
  BY <1>5, <1>6

LEMMA GrowthFacts ==
  ASSUME TypeOK, NEW a \in Agent, NEW l \in FieldLayer, NEW d \in Cell
  PROVE  /\ Growth(a, l, Flags(l))[d] \in Nat
         /\ Growth(a, l, Flags(l))[d] > 0 <=>
              \E c \in Cell : d \in Successor[c] /\ Expands(a, c, l, Flags(l)) > 0
<1> DEFINE S == {b \in Cell : d \in Successor[b]}
           f == [c \in S |-> Expands(a, c, l, Flags(l))]
<1>1. IsFiniteSet(Cell) /\ S \in SUBSET Cell
  BY GridFacts DEF TypeOK
<1>2. IsFiniteSet(S)
  BY <1>1, FS_Subset
<1>3. \A c \in S : f[c] \in Nat
  <2>1. \A c \in Cell : edges[a]["NEW_LOCATION"][c] \in Nat /\ edges[a][l][c] \in Nat
    BY LayerFacts DEF TypeOK
  <2> QED
    BY <2>1 DEF Expands
<1>4. Growth(a, l, Flags(l))[d] = SumFunctionOnSet(f, S)
  BY DEF Growth, SumFunction, SumFunctionOnSet, FoldFunction
<1>5. /\ SumFunctionOnSet(f, S) \in Nat
      /\ SumFunctionOnSet(f, S) > 0 <=> \E c \in S : f[c] > 0
  <2> HIDE DEF f, S
  <2> QED
    BY <1>2, <1>3, SumIsNat
<1>6. (\E c \in S : f[c] > 0) <=> \E c \in Cell : d \in Successor[c] /\ Expands(a, c, l, Flags(l)) > 0
  OBVIOUS
<1> QED
  BY <1>4, <1>5, <1>6

-----------------------------------------------------------------------------
(* Steps that keep the edges from agents to cells *)

LEMMA Parts ==
  ASSUME IInv
  PROVE  /\ TypeOK /\ Located /\ Committed /\ Steps /\ FieldsInside /\ FieldsKept /\ FieldsSeeded
         /\ FlagsGrown /\ FieldsReach /\ Cleared /\ PerceptionsKept
BY DEF IInv

LEMMA SameRanges ==
  ASSUME UNCHANGED <<grid, location_id, range>>
  PROVE  /\ Cell' = Cell /\ Successor' = Successor
         /\ \A a, l, c : Inside(a, l, c)' <=> Inside(a, l, c)
         /\ \A a, c : Away(a, c)' = Away(a, c)
         /\ \A a : AgentRadius(a)' = AgentRadius(a)
BY DEF Cell, Successor, Inside, RangeOf, Away, AgentRadius

LEMMA SameMax ==
  ASSUME UNCHANGED <<range, group>>
  PROVE  MaxRadius' = MaxRadius
<1>1. \A a : AgentRadius(a)' = AgentRadius(a)
  BY DEF AgentRadius
<1>2. {AgentRadius(a) : a \in group}' = {AgentRadius(a) : a \in group}
  BY <1>1
<1> QED
  BY <1>2 DEF MaxRadius

LEMMA SameGraph ==
  ASSUME UNCHANGED <<grid, location_id, range, edges>>
  PROVE  /\ \A a, l, c : Linked(a, l, c)' <=> Linked(a, l, c)
         /\ \A a : Pending(a)' <=> Pending(a)
         /\ Located => Located'
         /\ FieldsInside => FieldsInside'
         /\ FieldsSeeded => FieldsSeeded'
         /\ FieldsKept /\ moved \subseteq moved' => FieldsKept'
<1>1. /\ Cell' = Cell /\ Successor' = Successor
      /\ \A a, l, c : Inside(a, l, c)' <=> Inside(a, l, c)
  BY SameRanges
<1>2. /\ \A a, l, c : Linked(a, l, c)' <=> Linked(a, l, c)
      /\ \A a : Pending(a)' <=> Pending(a)
  BY DEF Linked, Pending
<1>3. Located => Located'
  BY <1>1 DEF Located
<1>4. FieldsInside => FieldsInside'
  BY <1>1, <1>2 DEF FieldsInside
<1>5. FieldsSeeded => FieldsSeeded'
  BY <1>1, <1>2 DEF FieldsSeeded
<1>6. FieldsKept /\ moved \subseteq moved' => FieldsKept'
  BY <1>1, <1>2 DEF FieldsKept
<1> QED
  BY <1>2, <1>3, <1>4, <1>5, <1>6

LEMMA SameFlags ==
  ASSUME UNCHANGED <<grid, location_id, range, edges, flags>>, FlagsGrown,
         phase' \in {"idle", "outgoing", "incoming"} => phase \in {"idle", "outgoing", "incoming"}
  PROVE  FlagsGrown'
<1>1. /\ Cell' = Cell /\ Successor' = Successor
      /\ \A a, l, c : Inside(a, l, c)' <=> Inside(a, l, c)
      /\ \A a, l, c : Linked(a, l, c)' <=> Linked(a, l, c)
  BY SameRanges, SameGraph
<1>2. \A l : Flags(l)' = Flags(l)
  BY DEF Flags, flags
<1> QED
  BY <1>1, <1>2 DEF FlagsGrown

LEMMA StartStep ==
  ASSUME IInv, NEW g \in Groups, StartAlgorithm(g), Allow = {}
  PROVE  IInv'
<1>1. /\ phase = "idle" /\ phase' = "outgoing" /\ group' = g
      /\ g \cap moved = {} \/ \E a \in g : AgentRadius(a) > 0
      /\ UNCHANGED <<grid, edges, perceptions, location_id, range, move_flags, perception_flags>>
      /\ UNCHANGED <<flags, step, max_step, moved>>
  BY DEF StartAlgorithm, state, flags
<1>2. /\ TypeOK /\ Located /\ Committed /\ Steps /\ FieldsInside /\ FieldsKept /\ FieldsSeeded
      /\ FlagsGrown /\ PerceptionsKept
  BY Parts
<1>3. /\ Cell' = Cell
      /\ \A a, l, c : Inside(a, l, c)' <=> Inside(a, l, c)
      /\ \A a : AgentRadius(a)' = AgentRadius(a)
      /\ \A a : Pending(a)' <=> Pending(a)
  BY <1>1, SameRanges, SameGraph
<1>4. TypeOK'
  BY <1>1, <1>2, <1>3 DEF TypeOK, Phase
<1>5. Located' /\ FieldsInside' /\ FieldsSeeded' /\ FieldsKept'
  BY <1>1, <1>2, SameGraph
<1>6. Committed'
  BY <1>1, <1>2, <1>3 DEF Committed
<1>7. Steps'
  BY <1>1, <1>3 DEF Steps
<1>8. FlagsGrown'
  BY <1>1, <1>2, SameFlags
<1>9. FieldsReach' /\ Cleared'
  BY <1>1 DEF FieldsReach, Cleared
<1>10. PerceptionsKept'
  BY <1>1, <1>2, <1>3 DEF PerceptionsKept
<1> QED
  BY <1>4, <1>5, <1>6, <1>7, <1>8, <1>9, <1>10 DEF IInv

LEMMA UnlinkOutgoingStep ==
  ASSUME IInv, UnlinkOutgoing
  PROVE  IInv'
<1>1. /\ phase = "outgoing" /\ phase' = "incoming"
      /\ perceptions' =
           [a \in Agent |-> [b \in Agent |-> IF a \in group THEN 0 ELSE perceptions[a][b]]]
      /\ UNCHANGED <<grid, edges, location_id, range, move_flags, perception_flags>>
      /\ UNCHANGED <<flags, group, step, max_step, moved>>
  BY DEF UnlinkOutgoing, flags, bounds
<1>2. /\ TypeOK /\ Located /\ Committed /\ Steps /\ FieldsInside /\ FieldsKept /\ FieldsSeeded
      /\ FlagsGrown /\ PerceptionsKept
  BY Parts
<1>3. /\ Cell' = Cell
      /\ \A a, l, c : Inside(a, l, c)' <=> Inside(a, l, c)
      /\ \A a : AgentRadius(a)' = AgentRadius(a)
      /\ \A a : Pending(a)' <=> Pending(a)
  BY <1>1, SameRanges, SameGraph
<1>4. TypeOK'
  <2>1. \A a, b \in Agent : (IF a \in group THEN 0 ELSE perceptions[a][b]) \in Nat
    BY <1>2 DEF TypeOK
  <2>2. perceptions' \in [Agent -> [Agent -> Nat]]
    BY <1>1, <2>1
  <2> QED
    BY <1>1, <1>2, <1>3, <2>2 DEF TypeOK, Phase
<1>5. Located' /\ FieldsInside' /\ FieldsSeeded' /\ FieldsKept'
  BY <1>1, <1>2, SameGraph
<1>6. Committed'
  BY <1>1, <1>2, <1>3 DEF Committed
<1>7. Steps'
  BY <1>1, <1>2, <1>3 DEF Steps
<1>8. FlagsGrown'
  BY <1>1, <1>2, SameFlags
<1>9. FieldsReach' /\ Cleared'
  BY <1>1 DEF FieldsReach, Cleared
<1>10. PerceptionsKept'
  <2>1. \A a, b \in Agent : perceptions'[a][b] = IF a \in group THEN 0 ELSE perceptions[a][b]
    BY <1>1
  <2> QED
    BY <1>1, <1>2, <1>3, <2>1 DEF PerceptionsKept
<1> QED
  BY <1>4, <1>5, <1>6, <1>7, <1>8, <1>9, <1>10 DEF IInv

LEMMA UnlinkIncomingStep ==
  ASSUME IInv, UnlinkIncoming
  PROVE  IInv'
<1>1. /\ phase = "incoming" /\ step' = 0 /\ max_step' = MaxRadius
      /\ phase' = NextPhase(step', max_step')
      /\ perceptions' =
           [a \in Agent |-> [b \in Agent |-> IF b \in group THEN 0 ELSE perceptions[a][b]]]
      /\ UNCHANGED <<grid, edges, location_id, range, move_flags, perception_flags>>
      /\ UNCHANGED <<flags, group, moved>>
  BY DEF UnlinkIncoming, flags, bounds
<1>2. /\ TypeOK /\ Located /\ Committed /\ Steps /\ FieldsInside /\ FieldsKept /\ FieldsSeeded
      /\ FlagsGrown /\ PerceptionsKept
  BY Parts
<1>3. /\ Cell' = Cell
      /\ \A a, l, c : Inside(a, l, c)' <=> Inside(a, l, c)
      /\ \A a : AgentRadius(a)' = AgentRadius(a)
      /\ \A a : Pending(a)' <=> Pending(a)
      /\ \A a, l, c : Linked(a, l, c)' <=> Linked(a, l, c)
      /\ \A a, c : Away(a, c)' = Away(a, c)
  BY <1>1, SameRanges, SameGraph
<1>4. /\ MaxRadius \in Nat /\ MaxRadius' = MaxRadius
      /\ \A a \in group : a \in Agent /\ AgentRadius(a) <= MaxRadius /\ AgentRadius(a) \in Nat
  BY <1>1, <1>2, <1>3, MaxRadiusFacts, AgentRadiusFacts DEF MaxRadius
<1>5. phase' = IF MaxRadius > 0 THEN "grow" ELSE "perceptions"
  BY <1>1, <1>4 DEF NextPhase
<1>6. MaxRadius = 0 => group \cap moved = {}
  BY <1>1, <1>2, <1>4 DEF Steps
<1>7. TypeOK'
  <2>1. \A a, b \in Agent : (IF b \in group THEN 0 ELSE perceptions[a][b]) \in Nat
    BY <1>2 DEF TypeOK
  <2>2. perceptions' \in [Agent -> [Agent -> Nat]]
    BY <1>1, <2>1
  <2>3. max_step' \in Nat /\ step' \in 0 .. max_step' /\ phase' \in Phase
    BY <1>1, <1>4, <1>5 DEF Phase
  <2> QED
    BY <1>1, <1>2, <1>3, <2>2, <2>3 DEF TypeOK
<1>8. Located' /\ FieldsInside' /\ FieldsSeeded' /\ FieldsKept'
  BY <1>1, <1>2, SameGraph
<1>9. Committed'
  BY <1>1, <1>2, <1>3, <1>4, <1>5, <1>6 DEF Committed
<1>10. Steps'
  BY <1>1, <1>4, <1>5, <1>6 DEF Steps
<1>11. FlagsGrown'
  BY <1>1, <1>2, SameFlags
<1>12. FieldsReach'
  <2>1. ASSUME NEW a \in group, NEW l \in FieldLayer, NEW c \in Cell, Inside(a, l, c), Away(a, c) <= 0
        PROVE  Linked(a, l, c)
    <3>1. c = location_id[a]
      BY <1>2, <1>4, <2>1, AwayFacts
    <3> QED
      BY <1>2, <1>4, <2>1, <3>1 DEF FieldsSeeded
  <2> QED
    BY <1>1, <1>3, <1>5, <2>1 DEF FieldsReach
<1>13. Cleared'
  BY <1>1, <1>4, <1>5 DEF Cleared
<1>14. PerceptionsKept'
  <2>1. \A a, b \in Agent : perceptions'[a][b] = IF b \in group THEN 0 ELSE perceptions[a][b]
    BY <1>1
  <2> QED
    BY <1>1, <1>2, <1>3, <1>5, <2>1 DEF PerceptionsKept
<1> QED
  BY <1>7, <1>8, <1>9, <1>10, <1>11, <1>12, <1>13, <1>14 DEF IInv

-----------------------------------------------------------------------------
(* Agents that move or stay *)

LEMMA EdgesToFacts ==
  ASSUME NEW S
  PROVE  EdgesTo(S) \in [Cell -> Nat] /\ \A c \in Cell : EdgesTo(S)[c] = IF c \in S THEN 1 ELSE 0
BY DEF EdgesTo

LEMMA UnlocatedFacts ==
  ASSUME NEW f \in [Cell -> Nat],
         \/ \A c \in Cell : f[c] = 0
         \/ \E p \in Cell : \A c \in Cell : f[c] = IF c = p THEN 1 ELSE 0
  PROVE  Unlocated(f) \in [Cell -> Nat] /\ \A c \in Cell : Unlocated(f)[c] = 0
<1> DEFINE cells == {c \in Cell : f[c] > 0}
<1>1. CASE \A c \in Cell : f[c] = 0
  <2>1. cells = {}
    BY <1>1
  <2>2. Unlocated(f) = f
    BY <2>1 DEF Unlocated
  <2> QED
    BY <1>1, <2>2
<1>2. ASSUME NEW p \in Cell, \A c \in Cell : f[c] = IF c = p THEN 1 ELSE 0
      PROVE  Unlocated(f) \in [Cell -> Nat] /\ \A c \in Cell : Unlocated(f)[c] = 0
  <2>1. cells = {p}
    BY <1>2
  <2>2. (CHOOSE c \in cells : TRUE) = p
    BY <2>1
  <2>3. Unlocated(f) = [f EXCEPT ![p] = @ - 1]
    BY <2>1, <2>2 DEF Unlocated
  <2>4. \A c \in Cell : [f EXCEPT ![p] = f[p] - 1][c] = 0
    BY <1>2
  <2>5. f[p] - 1 = 0
    BY <1>2
  <2>6. [f EXCEPT ![p] = f[p] - 1] \in [Cell -> Nat]
    BY <2>5
  <2> QED
    BY <2>3, <2>4, <2>6
<1> QED
  BY <1>1, <1>2

LEMMA RelocatedFacts ==
  ASSUME NEW links \in [Layer -> [Cell -> Nat]], NEW cell \in Cell, NEW ranges,
         \A c \in Cell : links["NEW_LOCATION"][c] = 0,
         \/ \A c \in Cell : links["LOCATION"][c] = 0
         \/ \E p \in Cell : \A c \in Cell : links["LOCATION"][c] = IF c = p THEN 1 ELSE 0
  PROVE  /\ Relocated(links, cell, ranges) \in [Layer -> [Cell -> Nat]]
         /\ \A c \in Cell : Relocated(links, cell, ranges)["LOCATION"][c] = 0
         /\ \A c \in Cell :
              Relocated(links, cell, ranges)["NEW_LOCATION"][c] = IF c = cell THEN 1 ELSE 0
         /\ \A l \in FieldLayer, c \in Cell : Relocated(links, cell, ranges)[l][c] =
              IF c = cell /\ Contains(Successor, Among(ranges, l), cell, cell) THEN 1 ELSE 0
         /\ \A l \in FieldLayer : Relocated(links, cell, ranges)[New(l)] = links[New(l)]
<1> DEFINE new == Relocated(links, cell, ranges)
           m == {c \in {cell} : Contains(Successor, ranges.mobility, c, c)}
           p == {c \in {cell} : Contains(Successor, ranges.perception, c, c)}
           loc == Unlocated(links["LOCATION"])
           newloc == [links["NEW_LOCATION"] EXCEPT ![cell] = @ + 1]
<1>1. loc \in [Cell -> Nat] /\ \A c \in Cell : loc[c] = 0
  <2>1. links["LOCATION"] \in [Cell -> Nat]
    BY LayerFacts
  <2> QED
    BY <2>1, UnlocatedFacts
<1>2. newloc \in [Cell -> Nat] /\ \A c \in Cell : newloc[c] = IF c = cell THEN 1 ELSE 0
  <2> DEFINE f == links["NEW_LOCATION"]
  <2>1. f \in [Cell -> Nat] /\ \A c \in Cell : f[c] = 0
    BY LayerFacts
  <2> HIDE DEF f
  <2>2. [f EXCEPT ![cell] = f[cell] + 1] \in [Cell -> Nat]
    BY <2>1
  <2>3. \A c \in Cell : [f EXCEPT ![cell] = f[cell] + 1][c] = IF c = cell THEN 1 ELSE 0
    BY <2>1
  <2> QED
    BY <2>2, <2>3 DEF f
<1>3. /\ EdgesTo(m) \in [Cell -> Nat] /\ \A c \in Cell : EdgesTo(m)[c] = IF c \in m THEN 1 ELSE 0
      /\ EdgesTo(p) \in [Cell -> Nat] /\ \A c \in Cell : EdgesTo(p)[c] = IF c \in p THEN 1 ELSE 0
  BY EdgesToFacts
<1>4. /\ \A c \in Cell : c \in m <=> c = cell /\ Contains(Successor, ranges.mobility, cell, cell)
      /\ \A c \in Cell : c \in p <=> c = cell /\ Contains(Successor, ranges.perception, cell, cell)
  OBVIOUS
<1>5. new = [links EXCEPT !["NEW_LOCATION"] = newloc, !["LOCATION"] = loc,
                          !["MOVE"] = EdgesTo(m), !["PERCEIVE"] = EdgesTo(p)]
  BY DEF Relocated, Layer
<1> HIDE DEF m, p, loc, newloc, new
<1>6. /\ new["NEW_LOCATION"] = newloc /\ new["LOCATION"] = loc
      /\ new["MOVE"] = EdgesTo(m) /\ new["PERCEIVE"] = EdgesTo(p)
      /\ new["NEW_MOVE"] = links["NEW_MOVE"] /\ new["NEW_PERCEIVE"] = links["NEW_PERCEIVE"]
  BY <1>5 DEF Layer
<1>7. new \in [Layer -> [Cell -> Nat]]
  BY <1>1, <1>2, <1>3, <1>5
<1>8. \A l \in FieldLayer, c \in Cell : new[l][c] =
        IF /\ c = cell
           /\ Contains(Successor, Among(ranges, l), cell, cell)
        THEN 1 ELSE 0
  BY <1>3, <1>4, <1>6 DEF FieldLayer, Among
<1>9. \A l \in FieldLayer : new[New(l)] = links[New(l)]
  BY <1>6 DEF FieldLayer, New
<1> QED
  BY <1>1, <1>2, <1>6, <1>7, <1>8, <1>9 DEF new

LEMMA InitIInv ==
  ASSUME Init, Allow = {}
  PROVE  IInv
<1>1. /\ grid \in Grids /\ location_id \in [Agent -> Cell] /\ range \in FirstRanges
      /\ edges = [a \in Agent |->
           Relocated([l \in Layer |-> EdgesTo({})], location_id[a], range[a])]
      /\ perceptions = [a \in Agent |-> [b \in Agent |-> 0]]
      /\ move_flags = [c \in Cell |-> {}] /\ perception_flags = [c \in Cell |-> {}]
      /\ phase = "outgoing" /\ group = Agent /\ step = 0 /\ max_step = 0 /\ moved = Agent
      /\ \E a \in Agent : AgentRadius(a) > 0
  BY DEF Init
<1> DEFINE none == [l \in Layer |-> EdgesTo({})]
<1>2. /\ none \in [Layer -> [Cell -> Nat]]
      /\ \A c \in Cell : none["NEW_LOCATION"][c] = 0 /\ none["LOCATION"][c] = 0
  BY EdgesToFacts, LayerFacts
<1>3. ASSUME NEW a \in Agent
      PROVE  /\ edges[a] \in [Layer -> [Cell -> Nat]]
             /\ \A c \in Cell : edges[a]["LOCATION"][c] = 0
             /\ \A c \in Cell : edges[a]["NEW_LOCATION"][c] = IF c = location_id[a] THEN 1 ELSE 0
             /\ \A l \in FieldLayer, c \in Cell : edges[a][l][c] =
                  IF c = location_id[a] /\ Inside(a, l, c) THEN 1 ELSE 0
  <2>1. location_id[a] \in Cell /\ edges[a] = Relocated(none, location_id[a], range[a])
    BY <1>1
  <2> HIDE DEF none
  <2>2. /\ edges[a] \in [Layer -> [Cell -> Nat]]
        /\ \A c \in Cell : edges[a]["LOCATION"][c] = 0
        /\ \A c \in Cell : edges[a]["NEW_LOCATION"][c] = IF c = location_id[a] THEN 1 ELSE 0
        /\ \A l \in FieldLayer, c \in Cell : edges[a][l][c] =
             IF c = location_id[a]
                /\ Contains(Successor, Among(range[a], l), location_id[a], location_id[a])
             THEN 1 ELSE 0
    BY <1>2, <2>1, RelocatedFacts
  <2>3. \A l, c : Inside(a, l, c) <=> Contains(Successor, Among(range[a], l), location_id[a], c)
    BY DEF Inside, RangeOf
  <2> QED
    BY <2>2, <2>3
<1>4. TypeOK
  <2>1. edges \in [Agent -> [Layer -> [Cell -> Nat]]]
    BY <1>1, <1>3
  <2>2. perceptions \in [Agent -> [Agent -> Nat]]
    BY <1>1
  <2>3. range \in [Agent -> Ranges]
    BY <1>1, RangesAssumption
  <2>4. move_flags \in [Cell -> SUBSET Agent] /\ perception_flags \in [Cell -> SUBSET Agent]
    BY <1>1
  <2> QED
    BY <1>1, <2>1, <2>2, <2>3, <2>4 DEF TypeOK, Phase
<1>5. Located
  BY <1>3 DEF Located
<1>6. Committed
  BY <1>1 DEF Committed
<1>7. Steps
  BY <1>1 DEF Steps
<1>8. FieldsInside
  BY <1>3 DEF FieldsInside, Linked
<1>9. FieldsKept
  BY <1>1 DEF FieldsKept
<1>10. FieldsSeeded
  <2>1. \A a \in Agent : Pending(a) /\ location_id[a] \in Cell
    BY <1>1, <1>3 DEF Pending, Linked
  <2> QED
    BY <1>3, <2>1 DEF FieldsSeeded, Linked
<1>11. FlagsGrown
  <2>1. \A c \in Cell, l \in FieldLayer : Flags(l)[c] = {}
    BY <1>1 DEF Flags
  <2> QED
    BY <2>1 DEF FlagsGrown
<1>12. FieldsReach /\ Cleared
  BY <1>1 DEF FieldsReach, Cleared
<1>13. PerceptionsKept
  BY <1>1 DEF PerceptionsKept
<1> QED
  BY <1>4, <1>5, <1>6, <1>7, <1>8, <1>9, <1>10, <1>11, <1>12, <1>13 DEF IInv

LEMMA StayStep ==
  ASSUME IInv, NEW agent \in Agent, NEW ranges \in Ranges, Stay(agent, ranges), Allow = {}
  PROVE  IInv'
<1>1. /\ phase = "idle" /\ agent \notin moved
      /\ ~Smaller(range[agent].mobility, ranges.mobility)
      /\ ~Smaller(range[agent].perception, ranges.perception)
      /\ range' = [range EXCEPT ![agent] = ranges] /\ moved' = moved \cup {agent}
      /\ UNCHANGED <<grid, edges, perceptions, location_id, move_flags, perception_flags>>
      /\ UNCHANGED <<phase, group, step, max_step>>
  BY DEF Stay, flags
<1>2. /\ TypeOK /\ Located /\ Committed /\ FieldsInside /\ FieldsKept /\ FieldsSeeded
      /\ FlagsGrown /\ Cleared /\ PerceptionsKept
  BY Parts
<1>3. /\ Cell' = Cell /\ Successor' = Successor
      /\ \A a, l, c : Linked(a, l, c)' <=> Linked(a, l, c)
      /\ \A a : Pending(a)' <=> Pending(a)
      /\ \A l : Flags(l)' = Flags(l)
  BY <1>1 DEF Cell, Successor, Linked, Pending, Flags
<1>4. \A a \in Agent : a # agent => range'[a] = range[a]
  BY <1>1, <1>2 DEF TypeOK
<1>5. range'[agent] = ranges /\ range[agent] \in Ranges
  BY <1>1, <1>2 DEF TypeOK
<1>6. \A a \in Agent : \A l, c : a # agent => (Inside(a, l, c)' <=> Inside(a, l, c))
  BY <1>1, <1>3, <1>4 DEF Inside, RangeOf
<1>7. ASSUME NEW l \in FieldLayer, NEW c \in Cell
      PROVE  /\ Inside(agent, l, c) => Inside(agent, l, c)'
             /\ Inside(agent, l, location_id[agent])' <=> Inside(agent, l, location_id[agent])
  <2> DEFINE old == RangeOf(agent, l)
             new == Among(ranges, l)
             root == location_id[agent]
  <2>1. old \in OneRange /\ new \in OneRange /\ ~Smaller(old, new)
    BY <1>1, <1>5, RangeFacts DEF RangeOf, Among
  <2>2. old.kind = new.kind /\ old.size <= new.size
    <3>1. old.size \in Nat /\ new.size \in Nat
      BY <2>1 DEF OneRange
    <3> HIDE DEF old, new
    <3> QED
      BY <2>1, <3>1 DEF Smaller
  <2>3. grid \in Grids /\ root \in Cell
    BY <1>2 DEF TypeOK
  <2>4. /\ Buildable(grid) /\ Cell = Cells(grid) /\ Successor = Successors(grid)
    BY <2>3, GridFacts
  <2>5. \A d : Inside(agent, l, d) <=> Contains(Successors(grid), old, root, d)
    BY <2>4 DEF Inside
  <2>6. \A d : Inside(agent, l, d)' <=> Contains(Successors(grid), new, root, d)
    BY <1>1, <1>3, <1>5, <2>4 DEF Inside, RangeOf, Among
  <2> HIDE DEF old, new
  <2>7. /\ Contains(Successors(grid), old, root, c) => Contains(Successors(grid), new, root, c)
        /\ Contains(Successors(grid), old, root, root) <=> Contains(Successors(grid), new, root, root)
    BY <2>1, <2>2, <2>3, <2>4, WiderRange, ContainsRoot
  <2>8. (location_id[agent])' = root
    BY <1>1
  <2> QED
    BY <2>5, <2>6, <2>7, <2>8
<1>8. \A a \in Agent, l \in FieldLayer, c \in Cell : Inside(a, l, c) => Inside(a, l, c)'
  BY <1>6, <1>7
<1>9. \A a \in Agent, l \in FieldLayer :
        Inside(a, l, location_id[a])' <=> Inside(a, l, location_id[a])
  <2>1. \A a \in Agent : location_id[a] \in Cell
    BY <1>2 DEF TypeOK
  <2> QED
    BY <1>1, <1>6, <1>7, <2>1
<1>10. TypeOK'
  <2>1. range' \in [Agent -> Ranges] /\ moved' \subseteq Agent
    BY <1>1, <1>2 DEF TypeOK
  <2> QED
    BY <1>1, <1>2, <1>3, <2>1 DEF TypeOK
<1>11. Located'
  BY <1>1, <1>2, <1>3 DEF Located
<1>12. Committed'
  BY <1>1, <1>2, <1>3 DEF Committed
<1>13. Steps' /\ FieldsReach'
  BY <1>1 DEF Steps, FieldsReach
<1>14. FieldsInside'
  BY <1>1, <1>2, <1>3, <1>8 DEF FieldsInside
<1>15. FieldsKept'
  BY <1>1, <1>2, <1>3, <1>6 DEF FieldsKept
<1>16. FieldsSeeded'
  BY <1>1, <1>2, <1>3, <1>9 DEF FieldsSeeded
<1>17. FlagsGrown'
  BY <1>1, <1>2, <1>3 DEF FlagsGrown
<1>18. Cleared'
  BY <1>1, <1>2, <1>3 DEF Cleared
<1>19. PerceptionsKept'
  BY <1>1, <1>2, <1>6 DEF PerceptionsKept
<1> QED
  BY <1>10, <1>11, <1>12, <1>13, <1>14, <1>15, <1>16, <1>17, <1>18, <1>19 DEF IInv

LEMMA MoveToStep ==
  ASSUME IInv, NEW agent \in Agent, NEW cell \in Cell, NEW ranges \in Ranges,
         MoveTo(agent, cell, ranges)
  PROVE  IInv'
<1>1. /\ phase = "idle" /\ agent \notin moved
      /\ edges' = [edges EXCEPT ![agent] = Relocated(edges[agent], cell, ranges)]
      /\ location_id' = [location_id EXCEPT ![agent] = cell]
      /\ range' = [range EXCEPT ![agent] = ranges] /\ moved' = moved \cup {agent}
      /\ UNCHANGED <<grid, perceptions, move_flags, perception_flags>>
      /\ UNCHANGED <<phase, group, step, max_step>>
  BY DEF MoveTo, flags
<1>2. /\ TypeOK /\ Located /\ Committed /\ FieldsInside /\ FieldsKept /\ FieldsSeeded
      /\ FlagsGrown /\ Cleared /\ PerceptionsKept
  BY Parts
<1>3. /\ edges[agent] \in [Layer -> [Cell -> Nat]] /\ location_id[agent] \in Cell
      /\ \A c \in Cell : edges[agent]["NEW_LOCATION"][c] \in Nat /\ edges[agent]["LOCATION"][c] \in Nat
  BY <1>2, LayerFacts DEF TypeOK
<1>4. \A c \in Cell : /\ edges[agent]["NEW_LOCATION"][c] = 0
                      /\ edges[agent]["LOCATION"][c] = IF c = location_id[agent] THEN 1 ELSE 0
  <2>1. edges[agent]["NEW_LOCATION"][location_id[agent]] = 0
    BY <1>1, <1>2, <1>3 DEF Committed, Pending, Linked
  <2>2. \A c \in Cell : edges[agent]["LOCATION"][c] + edges[agent]["NEW_LOCATION"][c]
                          = IF c = location_id[agent] THEN 1 ELSE 0
    BY <1>2 DEF Located
  <2> QED
    BY <1>3, <2>1, <2>2
<1>5. /\ edges'[agent] \in [Layer -> [Cell -> Nat]]
      /\ \A c \in Cell : edges'[agent]["LOCATION"][c] = 0
      /\ \A c \in Cell : edges'[agent]["NEW_LOCATION"][c] = IF c = cell THEN 1 ELSE 0
      /\ \A l \in FieldLayer, c \in Cell : edges'[agent][l][c] =
           IF c = cell /\ Contains(Successor, Among(ranges, l), cell, cell) THEN 1 ELSE 0
      /\ \A l \in FieldLayer : edges'[agent][New(l)] = edges[agent][New(l)]
  <2>1. \E p \in Cell : \A c \in Cell : edges[agent]["LOCATION"][c] = IF c = p THEN 1 ELSE 0
    BY <1>3, <1>4
  <2>2. edges'[agent] = Relocated(edges[agent], cell, ranges)
    BY <1>1, <1>2 DEF TypeOK
  <2> QED
    BY <1>3, <1>4, <2>1, <2>2, RelocatedFacts
<1>6. /\ Cell' = Cell /\ Successor' = Successor /\ \A l : Flags(l)' = Flags(l)
      /\ location_id'[agent] = cell /\ range'[agent] = ranges
  BY <1>1, <1>2 DEF Cell, Successor, TypeOK, Flags
<1>7. \A a \in Agent : a # agent =>
        edges'[a] = edges[a] /\ location_id'[a] = location_id[a] /\ range'[a] = range[a]
  BY <1>1, <1>2 DEF TypeOK
<1>8. \A a \in Agent : \A l, c : a # agent =>
        /\ Inside(a, l, c)' <=> Inside(a, l, c)
        /\ Linked(a, l, c)' <=> Linked(a, l, c)
        /\ Pending(a)' <=> Pending(a)
  BY <1>6, <1>7 DEF Inside, RangeOf, Linked, Pending
<1>9. \A l, c : Inside(agent, l, c)' <=> Contains(Successor, Among(ranges, l), cell, c)
  BY <1>6 DEF Inside, RangeOf
<1>10. TypeOK'
  <2>1. edges' \in [Agent -> [Layer -> [Cell -> Nat]]]
    <3>1. edges' = [a \in Agent |-> IF a = agent THEN edges'[agent] ELSE edges[a]]
      BY <1>1, <1>2 DEF TypeOK
    <3>2. \A a \in Agent : edges[a] \in [Layer -> [Cell -> Nat]]
      BY <1>2 DEF TypeOK
    <3> QED
      BY <1>5, <3>1, <3>2
  <2>2. location_id' \in [Agent -> Cell] /\ range' \in [Agent -> Ranges] /\ moved' \subseteq Agent
    BY <1>1, <1>2 DEF TypeOK
  <2> QED
    BY <1>1, <1>2, <1>6, <2>1, <2>2 DEF TypeOK
<1>11. Located'
  <2>1. \A c \in Cell : edges'[agent]["LOCATION"][c] + edges'[agent]["NEW_LOCATION"][c]
                          = IF c = location_id'[agent] THEN 1 ELSE 0
    BY <1>5, <1>6
  <2> QED
    BY <1>2, <1>6, <1>7, <2>1 DEF Located
<1>12. Committed'
  BY <1>1, <1>2, <1>8 DEF Committed
<1>13. Steps' /\ FieldsReach'
  BY <1>1 DEF Steps, FieldsReach
<1>14. FieldsInside'
  <2>1. ASSUME NEW l \in FieldLayer, NEW c \in Cell
        PROVE  edges'[agent][l][c] \in {0, 1} /\ (Linked(agent, l, c)' => Inside(agent, l, c)')
    BY <1>5, <1>9 DEF Linked
  <2>2. ASSUME NEW a \in Agent, a # agent, NEW l \in FieldLayer, NEW c \in Cell
        PROVE  edges'[a][l][c] \in {0, 1} /\ (Linked(a, l, c)' => Inside(a, l, c)')
    BY <1>2, <1>7, <1>8, <2>2 DEF FieldsInside
  <2> QED
    BY <1>6, <2>1, <2>2 DEF FieldsInside
<1>15. FieldsKept'
  BY <1>1, <1>2, <1>6, <1>8 DEF FieldsKept
<1>16. FieldsSeeded'
  <2>1. ASSUME NEW l \in FieldLayer
        PROVE  /\ Inside(agent, l, cell)' => Linked(agent, l, cell)'
               /\ Pending(agent)'
    BY <1>5, <1>6, <1>9 DEF Linked, Pending
  <2>2. ASSUME NEW l \in FieldLayer
        PROVE  /\ Inside(agent, l, location_id[agent])' => Linked(agent, l, location_id[agent])'
               /\ Pending(agent)'
    <3>1. (location_id[agent])' = cell
      BY <1>6
    <3>2. /\ Inside(agent, l, location_id[agent])' <=> Inside(agent, l, cell)'
          /\ Linked(agent, l, location_id[agent])' <=> Linked(agent, l, cell)'
      BY <1>6 DEF Inside, Linked
    <3> QED
      BY <2>1, <3>2
  <2>3. ASSUME NEW a \in Agent, a # agent, NEW l \in FieldLayer
        PROVE  /\ Inside(a, l, location_id[a])' <=> Inside(a, l, location_id[a])
               /\ Linked(a, l, location_id[a])' <=> Linked(a, l, location_id[a])
               /\ Pending(a)' <=> Pending(a)
               /\ Successor'[location_id'[a]] = Successor[location_id[a]]
               /\ \A c \in Cell : Linked(a, l, c)' <=> Linked(a, l, c)
               /\ \A c \in Cell : Linked(a, New(l), c)' <=> Linked(a, New(l), c)
    BY <1>6, <1>7, <1>8, <2>3 DEF Inside, Linked, RangeOf
  <2> QED
    BY <1>2, <1>6, <2>2, <2>3 DEF FieldsSeeded
<1>17. FlagsGrown'
  BY <1>1, <1>2, <1>6 DEF FlagsGrown
<1>18. Cleared'
  <2>1. \A a \in Agent, l \in FieldLayer : \A c : Linked(a, New(l), c)' <=> Linked(a, New(l), c)
    BY <1>5, <1>7 DEF Linked
  <2>2. group \subseteq Agent
    BY <1>2, GroupsAssumption DEF TypeOK
  <2> QED
    BY <1>1, <1>2, <1>6, <2>1, <2>2 DEF Cleared
<1>19. PerceptionsKept'
  <2>1. ASSUME NEW a \in Agent, NEW b \in Agent, a \notin moved', b \notin moved'
        PROVE  /\ a \notin moved /\ b \notin moved
               /\ Inside(a, "PERCEIVE", location_id[b])' <=> Inside(a, "PERCEIVE", location_id[b])
    <3>1. a # agent /\ b # agent /\ a \notin moved /\ b \notin moved
      BY <1>1, <2>1
    <3> QED
      BY <1>6, <1>7, <3>1 DEF Inside, RangeOf
  <2> QED
    BY <1>1, <1>2, <2>1 DEF PerceptionsKept
<1> QED
  BY <1>10, <1>11, <1>12, <1>13, <1>14, <1>15, <1>16, <1>17, <1>18, <1>19 DEF IInv

-----------------------------------------------------------------------------
(* The steps of the algorithm *)

LEMMA PlusFacts ==
  ASSUME NEW f \in [Cell -> Nat], NEW g \in [Cell -> Nat]
  PROVE  Plus(f, g) \in [Cell -> Nat] /\ \A c \in Cell : Plus(f, g)[c] = f[c] + g[c]
BY DEF Plus

\* What growing does to the edges and the flags of an agent.
LEMMA GrownFacts ==
  ASSUME TypeOK, Grow, NEW a \in Agent
  PROVE  /\ edges'[a] \in [Layer -> [Cell -> Nat]]
         /\ \A c \in Cell : /\ edges'[a]["LOCATION"][c] = edges[a]["LOCATION"][c]
                                                            + edges[a]["NEW_LOCATION"][c]
                            /\ edges'[a]["NEW_LOCATION"][c] = 0
         /\ \A l \in FieldLayer, c \in Cell :
              /\ edges'[a][l][c] = edges[a][l][c]
              /\ edges'[a][New(l)][c] = edges[a][New(l)][c] + Growth(a, l, Flags(l))[c]
              /\ Flags(l)'[c] = Flagged(Flags(l), l)[c]
<1>1. /\ edges' = [b \in Agent |-> [edges[b] EXCEPT
            !["LOCATION"] = Plus(edges[b]["LOCATION"], edges[b]["NEW_LOCATION"]),
            !["NEW_LOCATION"] = EdgesTo({}),
            !["NEW_MOVE"] = Plus(edges[b]["NEW_MOVE"], Growth(b, "MOVE", move_flags)),
            !["NEW_PERCEIVE"] = Plus(edges[b]["NEW_PERCEIVE"],
                                     Growth(b, "PERCEIVE", perception_flags))]]
      /\ move_flags' = Flagged(move_flags, "MOVE")
      /\ perception_flags' = Flagged(perception_flags, "PERCEIVE")
  BY DEF Grow
<1> DEFINE old == edges[a]
           loc == Plus(old["LOCATION"], old["NEW_LOCATION"])
           none == EdgesTo({})
           m == Plus(old["NEW_MOVE"], Growth(a, "MOVE", move_flags))
           p == Plus(old["NEW_PERCEIVE"], Growth(a, "PERCEIVE", perception_flags))
           new == [old EXCEPT !["LOCATION"] = loc, !["NEW_LOCATION"] = none,
                              !["NEW_MOVE"] = m, !["NEW_PERCEIVE"] = p]
<1>2. edges'[a] = new
  BY <1>1
<1>3. old \in [Layer -> [Cell -> Nat]]
  BY DEF TypeOK
<1>4. /\ Growth(a, "MOVE", move_flags) \in [Cell -> Nat]
      /\ Growth(a, "PERCEIVE", perception_flags) \in [Cell -> Nat]
  <2>1. /\ "MOVE" \in FieldLayer /\ Flags("MOVE") = move_flags
        /\ "PERCEIVE" \in FieldLayer /\ Flags("PERCEIVE") = perception_flags
    BY DEF FieldLayer, Flags
  <2>2. \A d \in Cell : /\ Growth(a, "MOVE", move_flags)[d] \in Nat
                        /\ Growth(a, "PERCEIVE", perception_flags)[d] \in Nat
    BY <2>1, GrowthFacts
  <2> QED
    BY <2>2 DEF Growth
<1>5. /\ loc \in [Cell -> Nat] /\ m \in [Cell -> Nat] /\ p \in [Cell -> Nat]
      /\ \A c \in Cell : /\ loc[c] = old["LOCATION"][c] + old["NEW_LOCATION"][c]
                         /\ m[c] = old["NEW_MOVE"][c] + Growth(a, "MOVE", move_flags)[c]
                         /\ p[c] = old["NEW_PERCEIVE"][c] + Growth(a, "PERCEIVE", perception_flags)[c]
  <2>1. /\ old["LOCATION"] \in [Cell -> Nat] /\ old["NEW_LOCATION"] \in [Cell -> Nat]
        /\ old["NEW_MOVE"] \in [Cell -> Nat] /\ old["NEW_PERCEIVE"] \in [Cell -> Nat]
    BY <1>3 DEF Layer
  <2> HIDE DEF old
  <2> QED
    BY <1>4, <2>1, PlusFacts
<1>6. none \in [Cell -> Nat] /\ \A c \in Cell : none[c] = 0
  BY EdgesToFacts
<1> HIDE DEF loc, none, m, p, old
<1>7. /\ new["LOCATION"] = loc /\ new["NEW_LOCATION"] = none
      /\ new["NEW_MOVE"] = m /\ new["NEW_PERCEIVE"] = p
      /\ new["MOVE"] = old["MOVE"] /\ new["PERCEIVE"] = old["PERCEIVE"]
  BY <1>3 DEF Layer
<1>8. new \in [Layer -> [Cell -> Nat]]
  BY <1>3, <1>5, <1>6
<1> HIDE DEF new
<1>9. ASSUME NEW l \in FieldLayer, NEW c \in Cell
      PROVE  /\ edges'[a][l][c] = edges[a][l][c]
             /\ edges'[a][New(l)][c] = edges[a][New(l)][c] + Growth(a, l, Flags(l))[c]
  <2>1. CASE l = "MOVE"
    BY <1>2, <1>5, <1>7, <2>1 DEF New, Flags, old
  <2>2. CASE l = "PERCEIVE"
    BY <1>2, <1>5, <1>7, <2>2 DEF New, Flags, old
  <2> QED
    BY <2>1, <2>2 DEF FieldLayer
<1>10. \A l \in FieldLayer, c \in Cell : Flags(l)'[c] = Flagged(Flags(l), l)[c]
  BY <1>1 DEF FieldLayer, Flags
<1> QED
  BY <1>2, <1>5, <1>6, <1>7, <1>8, <1>9, <1>10 DEF old

LEMMA GrowStep ==
  ASSUME IInv, Grow
  PROVE  IInv'
<1>1. /\ phase = "grow" /\ phase' = "crop"
      /\ move_flags' = Flagged(move_flags, "MOVE")
      /\ perception_flags' = Flagged(perception_flags, "PERCEIVE")
      /\ edges' \in [Agent -> [Layer -> [Cell -> Nat]]]
      /\ UNCHANGED <<grid, perceptions, location_id, range>>
      /\ UNCHANGED <<group, step, max_step, moved>>
  <2>1. TypeOK
    BY Parts
  <2>2. edges' \in [Agent -> [Layer -> [Cell -> Nat]]]
    <3>1. \A a \in Agent : edges'[a] \in [Layer -> [Cell -> Nat]]
      BY <2>1, GrownFacts
    <3> QED
      BY <3>1 DEF Grow
  <2> QED
    BY <2>2 DEF Grow, bounds
<1>2. /\ TypeOK /\ Located /\ Committed /\ Steps /\ FieldsInside /\ FieldsKept /\ FieldsSeeded
      /\ FlagsGrown /\ FieldsReach /\ PerceptionsKept
  BY Parts
<1>3. /\ Cell' = Cell /\ Successor' = Successor
      /\ \A a, l, c : Inside(a, l, c)' <=> Inside(a, l, c)
      /\ \A a, c : Away(a, c)' = Away(a, c)
      /\ \A a : AgentRadius(a)' = AgentRadius(a)
  BY <1>1, SameRanges
<1>4. \A a \in Agent : location_id[a] \in Cell
  BY <1>2 DEF TypeOK
<1>5. \A a \in Agent : ~Pending(a)'
  <2>1. \A a \in Agent : edges'[a]["NEW_LOCATION"][location_id[a]] = 0
    BY <1>2, <1>4, GrownFacts
  <2> QED
    BY <1>1, <2>1 DEF Pending, Linked
<1>6. ASSUME NEW a \in Agent, NEW l \in FieldLayer, NEW c \in Cell
      PROVE  /\ edges'[a][l][c] = edges[a][l][c]
             /\ Linked(a, l, c)' <=> Linked(a, l, c)
             /\ Linked(a, New(l), c)' <=>
                  Linked(a, New(l), c) \/ Growth(a, l, Flags(l))[c] > 0
  <2>1. Growth(a, l, Flags(l))[c] \in Nat /\ edges[a][New(l)][c] \in Nat
    BY <1>2, GrowthFacts, LayerFacts DEF TypeOK
  <2>2. /\ edges'[a][l][c] = edges[a][l][c]
        /\ edges'[a][New(l)][c] = edges[a][New(l)][c] + Growth(a, l, Flags(l))[c]
    BY <1>2, GrownFacts
  <2> QED
    BY <2>1, <2>2 DEF Linked
<1>7. ASSUME NEW a \in Agent, NEW l \in FieldLayer, NEW c \in Cell, NEW d \in Cell,
             d \in Successor[c], Linked(a, "NEW_LOCATION", c) \/ Linked(a, l, c),
             Linked(a, "NEW_LOCATION", c) \/ a \notin Flags(l)[c]
      PROVE  Linked(a, New(l), d)'
  <2>1. Expands(a, c, l, Flags(l)) > 0
    BY <1>7 DEF Expands, Linked
  <2>2. Growth(a, l, Flags(l))[d] > 0
    BY <1>2, <1>7, <2>1, GrowthFacts
  <2> QED
    BY <1>6, <2>2
<1>8. ASSUME NEW a \in Agent, NEW l \in FieldLayer, NEW c \in Cell, NEW d \in Cell,
             d \in Successor[c], Inside(a, l, d),
             Linked(a, "NEW_LOCATION", c) \/ Linked(a, l, c) \/ a \in Flags(l)[c]
      PROVE  Linked(a, l, d)' \/ Linked(a, New(l), d)'
  <2>1. CASE a \in Flags(l)[c]
    <3>1. Linked(a, l, d) \/ Linked(a, New(l), d)
      BY <1>2, <1>8, <2>1 DEF FlagsGrown
    <3> QED
      BY <1>6, <3>1
  <2>2. CASE a \notin Flags(l)[c]
    BY <1>7, <1>8, <2>2
  <2> QED
    BY <2>1, <2>2
<1>9. TypeOK'
  <2>1. move_flags' \in [Cell -> SUBSET Agent] /\ perception_flags' \in [Cell -> SUBSET Agent]
    BY <1>1, <1>2 DEF TypeOK, Flagged
  <2> QED
    BY <1>1, <1>2, <1>3, <2>1 DEF TypeOK, Phase
<1>10. Located'
  <2>1. \A a \in Agent, c \in Cell :
          /\ edges'[a]["LOCATION"][c] = edges[a]["LOCATION"][c] + edges[a]["NEW_LOCATION"][c]
          /\ edges'[a]["NEW_LOCATION"][c] = 0
    BY <1>2, GrownFacts
  <2>2. \A a \in Agent, c \in Cell : edges[a]["LOCATION"][c] + edges[a]["NEW_LOCATION"][c]
                                       = IF c = location_id[a] THEN 1 ELSE 0
    BY <1>2 DEF Located
  <2>3. \A a \in Agent, c \in Cell : edges'[a]["LOCATION"][c] + edges'[a]["NEW_LOCATION"][c]
                                       = IF c = location_id[a] THEN 1 ELSE 0
    BY <2>1, <2>2
  <2> QED
    BY <1>1, <1>3, <2>3 DEF Located
<1>11. Committed'
  BY <1>1, <1>5 DEF Committed
<1>12. Steps'
  BY <1>1, <1>2, SameMax DEF Steps
<1>13. FieldsInside' /\ FieldsKept'
  BY <1>1, <1>2, <1>3, <1>6 DEF FieldsInside, FieldsKept
<1>14. FieldsSeeded'
  <2>1. ASSUME NEW a \in Agent, NEW l \in FieldLayer, Inside(a, l, location_id[a])
        PROVE  Linked(a, l, location_id[a])'
    <3>1. edges'[a][l][location_id[a]] = edges[a][l][location_id[a]]
      BY <1>4, <1>6
    <3> QED
      BY <1>1, <1>2, <2>1, <3>1 DEF FieldsSeeded, Linked
  <2>2. ASSUME NEW a \in Agent, NEW l \in FieldLayer, ~Inside(a, l, location_id[a]),
               NEW c \in Cell, c \in Successor[location_id[a]]
        PROVE  Linked(a, l, c)' \/ Linked(a, New(l), c)'
    <3>1. CASE Pending(a)
      BY <1>4, <1>7, <2>2, <3>1 DEF Pending
    <3>2. CASE ~Pending(a)
      <4>1. Linked(a, l, c) \/ Linked(a, New(l), c)
        BY <1>2, <2>2, <3>2 DEF FieldsSeeded
      <4> QED
        BY <1>6, <4>1
    <3> QED
      BY <3>1, <3>2
  <2>3. \A a \in Agent, l \in FieldLayer :
          Inside(a, l, location_id[a])' <=> Inside(a, l, location_id[a])
    BY <1>1, <1>3
  <2> QED
    BY <1>1, <1>3, <2>1, <2>2, <2>3 DEF FieldsSeeded
<1>15. FlagsGrown'
  <2>1. ASSUME NEW a \in Agent, NEW l \in FieldLayer, NEW c \in Cell, NEW d \in Cell,
               a \in Flags(l)'[c], d \in Successor[c], Inside(a, l, d)
        PROVE  Linked(a, l, d)' \/ Linked(a, New(l), d)'
    <3>1. Flags(l)'[c] = Flagged(Flags(l), l)[c]
      BY <1>2, GrownFacts
    <3>2. Linked(a, "NEW_LOCATION", c) \/ Linked(a, l, c) \/ a \in Flags(l)[c]
      BY <2>1, <3>1 DEF Flagged, Linked
    <3> QED
      BY <1>8, <2>1, <3>2
  <2> QED
    BY <1>1, <1>3, <2>1 DEF FlagsGrown
<1>16. FieldsReach'
  <2>1. group \subseteq Agent /\ step \in Nat
    BY <1>2, GroupsAssumption DEF TypeOK
  <2>2. \A a \in group, l \in FieldLayer, c \in Cell :
          Inside(a, l, c) /\ Away(a, c) <= step => Linked(a, l, c)
    BY <1>1, <1>2 DEF FieldsReach
  <2>3. ASSUME NEW a \in group, NEW l \in FieldLayer, NEW c \in Cell, Inside(a, l, c),
               Away(a, c) <= step + 1
        PROVE  Linked(a, l, c)' \/ Linked(a, New(l), c)'
    <3>1. a \in Agent
      BY <2>1
    <3>2. CASE Inside(a, l, location_id[a]) /\ c = location_id[a]
      <4>1. Linked(a, l, c)
        BY <1>2, <3>1, <3>2 DEF FieldsSeeded
      <4> QED
        BY <1>6, <3>1, <4>1
    <3>3. CASE Inside(a, l, location_id[a]) /\ c # location_id[a]
      <4>1. PICK d \in Cell : /\ Inside(a, l, d) /\ Away(a, d) + 1 = Away(a, c)
                              /\ c \in Successor[d]
        BY <1>2, <2>3, <3>1, <3>3, InsideFacts
      <4>2. Away(a, d) \in Nat /\ Away(a, c) \in Nat
        BY <1>2, <3>1, AwayFacts
      <4>3. Away(a, d) <= step
        BY <2>1, <2>3, <4>1, <4>2
      <4>4. Linked(a, l, d)
        BY <2>2, <4>1, <4>3
      <4> QED
        BY <1>8, <2>3, <3>1, <4>1, <4>4
    <3>4. CASE ~Inside(a, l, location_id[a])
      <4>1. c \in Successor[location_id[a]]
        BY <1>2, <2>3, <3>1, <3>4, InsideFacts
      <4>2. ~Inside(a, l, location_id[a])' /\ ~Pending(a)'
        BY <1>1, <1>3, <1>5, <3>1, <3>4
      <4>3. c \in Cell' /\ c \in Successor'[location_id'[a]]
        BY <1>1, <1>3, <4>1
      <4> QED
        BY <1>14, <3>1, <4>2, <4>3 DEF FieldsSeeded
    <3> QED
      BY <3>2, <3>3, <3>4
  <2>4. \A a \in group, l \in FieldLayer, c \in Cell : Linked(a, l, c) => Linked(a, l, c)'
    BY <1>6, <2>1
  <2> QED
    BY <1>1, <1>3, <2>2, <2>3, <2>4 DEF FieldsReach
<1>17. Cleared'
  BY <1>1 DEF Cleared
<1>18. PerceptionsKept'
  <2>1. \A a, b : Inside(a, "PERCEIVE", location_id[b])' <=> Inside(a, "PERCEIVE", location_id[b])
    BY <1>1, <1>3
  <2> QED
    BY <1>1, <1>2, <2>1 DEF PerceptionsKept
<1> QED
  BY <1>9, <1>10, <1>11, <1>12, <1>13, <1>14, <1>15, <1>16, <1>17, <1>18 DEF IInv

LEMMA LocationFacts ==
  ASSUME TypeOK, Located, NEW a \in Agent, ~Pending(a)
  PROVE  /\ location_id[a] \in Cell
         /\ \A c \in Cell : edges[a]["LOCATION"][c] = IF c = location_id[a] THEN 1 ELSE 0
         /\ LocationCell(a) = location_id[a]
<1>1. /\ location_id[a] \in Cell
      /\ \A c \in Cell : edges[a]["LOCATION"][c] \in Nat /\ edges[a]["NEW_LOCATION"][c] \in Nat
  BY LayerFacts DEF TypeOK
<1>2. edges[a]["NEW_LOCATION"][location_id[a]] = 0
  BY <1>1 DEF Pending, Linked
<1>3. \A c \in Cell : edges[a]["LOCATION"][c] + edges[a]["NEW_LOCATION"][c]
                        = IF c = location_id[a] THEN 1 ELSE 0
  BY DEF Located
<1>4. \A c \in Cell : edges[a]["LOCATION"][c] = IF c = location_id[a] THEN 1 ELSE 0
  BY <1>1, <1>2, <1>3
<1>5. Field(a, "LOCATION") = {location_id[a]}
  BY <1>1, <1>4 DEF Field
<1>6. LocationCell(a) = location_id[a]
  BY <1>5 DEF LocationCell
<1> QED
  BY <1>1, <1>4, <1>6

\* What cropping does to the edges of an agent of the group.
LEMMA CroppedFacts ==
  ASSUME TypeOK, Located, FieldsInside, Crop, NEW a \in Agent, a \in group, ~Pending(a)
  PROVE  /\ edges'[a] \in [Layer -> [Cell -> Nat]]
         /\ edges'[a]["LOCATION"] = edges[a]["LOCATION"]
         /\ edges'[a]["NEW_LOCATION"] = edges[a]["NEW_LOCATION"]
         /\ \A l \in FieldLayer, c \in Cell :
              /\ edges'[a][l][c] = IF \/ Linked(a, l, c)
                                      \/ Linked(a, New(l), c) /\ Inside(a, l, c)
                                   THEN 1 ELSE 0
              /\ edges'[a][New(l)][c] = 0
<1> DEFINE old == edges[a]
           M == Cropped(a, "NEW_MOVE", "MOVE", range[a].mobility)
           P == Cropped(a, "NEW_PERCEIVE", "PERCEIVE", range[a].perception)
           m == Plus(old["MOVE"], EdgesTo(M))
           p == Plus(old["PERCEIVE"], EdgesTo(P))
           none == EdgesTo({})
           new == [old EXCEPT !["MOVE"] = m, !["PERCEIVE"] = p,
                              !["NEW_MOVE"] = none, !["NEW_PERCEIVE"] = none]
<1>1. edges'[a] = new
  <2>1. edges' = [b \in Agent |->
          IF b \notin group THEN edges[b]
          ELSE [edges[b] EXCEPT
            !["MOVE"] = Plus(edges[b]["MOVE"],
                             EdgesTo(Cropped(b, "NEW_MOVE", "MOVE", range[b].mobility))),
            !["PERCEIVE"] = Plus(edges[b]["PERCEIVE"],
                             EdgesTo(Cropped(b, "NEW_PERCEIVE", "PERCEIVE", range[b].perception))),
            !["NEW_MOVE"] = EdgesTo({}),
            !["NEW_PERCEIVE"] = EdgesTo({})]]
    BY DEF Crop
  <2> QED
    BY <2>1
<1>2. old \in [Layer -> [Cell -> Nat]]
  BY DEF TypeOK
<1>3. /\ old["MOVE"] \in [Cell -> Nat] /\ old["PERCEIVE"] \in [Cell -> Nat]
      /\ EdgesTo(M) \in [Cell -> Nat] /\ EdgesTo(P) \in [Cell -> Nat]
      /\ \A c \in Cell : EdgesTo(M)[c] = IF c \in M THEN 1 ELSE 0
      /\ \A c \in Cell : EdgesTo(P)[c] = IF c \in P THEN 1 ELSE 0
      /\ none \in [Cell -> Nat] /\ \A c \in Cell : none[c] = 0
  <2>1. old["MOVE"] \in [Cell -> Nat] /\ old["PERCEIVE"] \in [Cell -> Nat]
    BY <1>2 DEF Layer
  <2> HIDE DEF M, P, old
  <2> QED
    BY <2>1, EdgesToFacts
<1>4. /\ \A c \in Cell : c \in M <=> /\ Linked(a, "NEW_MOVE", c) /\ old["MOVE"][c] = 0
                                     /\ Inside(a, "MOVE", c)
      /\ \A c \in Cell : c \in P <=> /\ Linked(a, "NEW_PERCEIVE", c) /\ old["PERCEIVE"][c] = 0
                                     /\ Inside(a, "PERCEIVE", c)
  <2>1. LocationCell(a) = location_id[a]
    BY LocationFacts
  <2> QED
    BY <2>1 DEF Cropped, Field, Linked, Inside, RangeOf, Among
<1> HIDE DEF M, P, none, old
<1>5. /\ m \in [Cell -> Nat] /\ \A c \in Cell : m[c] = old["MOVE"][c] + EdgesTo(M)[c]
      /\ p \in [Cell -> Nat] /\ \A c \in Cell : p[c] = old["PERCEIVE"][c] + EdgesTo(P)[c]
  BY <1>3, PlusFacts
<1> HIDE DEF m, p
<1>6. /\ new["MOVE"] = m /\ new["PERCEIVE"] = p
      /\ new["NEW_MOVE"] = none /\ new["NEW_PERCEIVE"] = none
      /\ new["LOCATION"] = old["LOCATION"] /\ new["NEW_LOCATION"] = old["NEW_LOCATION"]
  BY <1>2 DEF Layer
<1>7. new \in [Layer -> [Cell -> Nat]]
  BY <1>2, <1>3, <1>5
<1> HIDE DEF new
<1>8. ASSUME NEW c \in Cell
      PROVE  /\ m[c] = IF Linked(a, "MOVE", c) \/ (Linked(a, "NEW_MOVE", c) /\ Inside(a, "MOVE", c))
                       THEN 1 ELSE 0
             /\ p[c] = IF \/ Linked(a, "PERCEIVE", c)
                          \/ Linked(a, "NEW_PERCEIVE", c) /\ Inside(a, "PERCEIVE", c)
                       THEN 1 ELSE 0
  <2>1. old["MOVE"][c] \in {0, 1} /\ old["PERCEIVE"][c] \in {0, 1}
    BY DEF FieldsInside, FieldLayer, old
  <2>2. /\ m[c] = old["MOVE"][c] + (IF c \in M THEN 1 ELSE 0)
        /\ p[c] = old["PERCEIVE"][c] + (IF c \in P THEN 1 ELSE 0)
    BY <1>3, <1>5
  <2>3. /\ Linked(a, "MOVE", c) <=> old["MOVE"][c] > 0
        /\ Linked(a, "PERCEIVE", c) <=> old["PERCEIVE"][c] > 0
    BY DEF Linked, old
  <2> QED
    BY <1>4, <2>1, <2>2, <2>3
<1>9. ASSUME NEW l \in FieldLayer, NEW c \in Cell
      PROVE  /\ edges'[a][l][c] = IF Linked(a, l, c) \/ (Linked(a, New(l), c) /\ Inside(a, l, c))
                                  THEN 1 ELSE 0
             /\ edges'[a][New(l)][c] = 0
  <2>1. CASE l = "MOVE"
    BY <1>1, <1>3, <1>6, <1>8, <2>1 DEF New
  <2>2. CASE l = "PERCEIVE"
    BY <1>1, <1>3, <1>6, <1>8, <2>2 DEF New
  <2> QED
    BY <2>1, <2>2 DEF FieldLayer
<1> QED
  BY <1>1, <1>6, <1>7, <1>9 DEF old

\* A range that excludes its location is the successors of the location.
LEMMA ExcludingFacts ==
  ASSUME TypeOK, NEW a \in Agent, NEW l \in FieldLayer, ~Inside(a, l, location_id[a]),
         NEW c \in Cell, c \in Successor[location_id[a]]
  PROVE  Inside(a, l, c)
<1> DEFINE r == RangeOf(a, l)
           root == location_id[a]
<1>1. /\ grid \in Grids /\ root \in Cell /\ r \in OneRange
      /\ Buildable(grid) /\ Cell = Cells(grid) /\ Successor = Successors(grid)
  BY GridFacts, RangeOfFacts DEF TypeOK
<1>2. ~Contains(Successors(grid), r, root, root)
  BY <1>1 DEF Inside
<1> HIDE DEF r, root
<1>3. Contains(Successors(grid), r, root, c)
  BY <1>1, <1>2, ContainsRoot DEF root
<1> QED
  BY <1>1, <1>3 DEF Inside, r, root

LEMMA CropStep ==
  ASSUME IInv, Crop
  PROVE  IInv'
<1>1. /\ phase = "crop" /\ step' = step + 1 /\ phase' = NextPhase(step', max_step)
      /\ UNCHANGED <<grid, perceptions, location_id, range, move_flags, perception_flags>>
      /\ UNCHANGED <<group, max_step, moved>>
  BY DEF Crop, flags, bounds
<1>2. /\ TypeOK /\ Located /\ Committed /\ Steps /\ FieldsInside /\ FieldsKept /\ FieldsSeeded
      /\ FlagsGrown /\ FieldsReach /\ PerceptionsKept
  BY Parts
<1>3. /\ Cell' = Cell /\ Successor' = Successor
      /\ \A a, l, c : Inside(a, l, c)' <=> Inside(a, l, c)
      /\ \A a, c : Away(a, c)' = Away(a, c)
      /\ \A a : AgentRadius(a)' = AgentRadius(a)
      /\ \A l : Flags(l)' = Flags(l)
  BY <1>1, SameRanges DEF Flags
<1>4. \A a \in Agent : ~Pending(a) /\ location_id[a] \in Cell
  BY <1>1, <1>2 DEF Committed, TypeOK
<1>5. /\ step \in Nat /\ max_step \in Nat /\ step < max_step
      /\ group \subseteq Agent /\ max_step = MaxRadius
  BY <1>1, <1>2, GroupsAssumption DEF TypeOK, Steps
<1>6. phase' = IF step + 1 < max_step THEN "grow" ELSE "perceptions"
  BY <1>1 DEF NextPhase
<1>7. /\ \A a \in Agent : a \notin group => edges'[a] = edges[a]
      /\ DOMAIN edges' = Agent /\ edges' = [a \in Agent |-> edges'[a]]
  BY DEF Crop
<1>8. ASSUME NEW a \in Agent
      PROVE  /\ edges'[a] \in [Layer -> [Cell -> Nat]]
             /\ edges'[a]["LOCATION"] = edges[a]["LOCATION"]
             /\ edges'[a]["NEW_LOCATION"] = edges[a]["NEW_LOCATION"]
  <2>1. CASE a \in group
    BY <1>2, <1>4, <2>1, CroppedFacts
  <2>2. CASE a \notin group
    BY <1>2, <1>7, <2>2 DEF TypeOK
  <2> QED
    BY <2>1, <2>2
<1>9. ASSUME NEW a \in Agent, NEW l \in FieldLayer, NEW c \in Cell
      PROVE  /\ edges'[a][l][c] \in {0, 1}
             /\ Linked(a, l, c) => Linked(a, l, c)'
             /\ Linked(a, l, c)' => Inside(a, l, c)
             /\ Inside(a, l, c) /\ Linked(a, New(l), c) => Linked(a, l, c)' \/ Linked(a, New(l), c)'
             /\ a \in group /\ Inside(a, l, c) /\ Linked(a, New(l), c) => Linked(a, l, c)'
             /\ a \in group => ~Linked(a, New(l), c)'
  <2>1. edges[a][l][c] \in {0, 1} /\ (Linked(a, l, c) => Inside(a, l, c))
    BY <1>2 DEF FieldsInside
  <2>2. CASE a \in group
    <3>1. /\ edges'[a][l][c] = IF Linked(a, l, c) \/ (Linked(a, New(l), c) /\ Inside(a, l, c))
                               THEN 1 ELSE 0
          /\ edges'[a][New(l)][c] = 0
      BY <1>2, <1>4, <2>2, CroppedFacts
    <3>2. /\ Linked(a, l, c)' <=> edges'[a][l][c] > 0
          /\ Linked(a, New(l), c)' <=> edges'[a][New(l)][c] > 0
      BY DEF Linked
    <3> QED
      BY <2>1, <3>1, <3>2
  <2>3. CASE a \notin group
    <3>1. /\ edges'[a] = edges[a]
          /\ Linked(a, l, c)' <=> Linked(a, l, c)
          /\ Linked(a, New(l), c)' <=> Linked(a, New(l), c)
      BY <1>7, <2>3 DEF Linked
    <3> QED
      BY <2>1, <2>3, <3>1
  <2> QED
    BY <2>2, <2>3
<1>10. TypeOK'
  <2>1. edges' \in [Agent -> [Layer -> [Cell -> Nat]]]
    BY <1>7, <1>8
  <2>2. max_step' \in Nat /\ step' \in 0 .. max_step' /\ phase' \in Phase
    BY <1>1, <1>5, <1>6 DEF Phase
  <2> QED
    BY <1>1, <1>2, <1>3, <2>1, <2>2 DEF TypeOK
<1>11. Located'
  BY <1>1, <1>2, <1>3, <1>8 DEF Located
<1>12. Committed'
  <2>1. \A a \in Agent : Pending(a)' <=> Pending(a)
    BY <1>1, <1>8 DEF Pending, Linked
  <2> QED
    BY <1>1, <1>4, <1>5, <2>1 DEF Committed
<1>13. Steps'
  <2>1. max_step' = MaxRadius' /\ max_step' > 0
    BY <1>1, <1>5, SameMax
  <2>2. /\ phase' \in {"grow", "perceptions"}
        /\ phase' = "grow" => step' < max_step'
        /\ phase' = "perceptions" => step' = max_step'
    BY <1>1, <1>5, <1>6
  <2> QED
    BY <2>1, <2>2 DEF Steps
<1>14. FieldsInside'
  BY <1>3, <1>9 DEF FieldsInside
<1>15. FieldsKept'
  BY <1>1, <1>2, <1>3, <1>9 DEF FieldsKept
<1>16. FieldsSeeded'
  <2>1. ASSUME NEW a \in Agent, NEW l \in FieldLayer, Inside(a, l, location_id[a])
        PROVE  Linked(a, l, location_id[a])'
    <3>1. Linked(a, l, location_id[a])
      BY <1>2, <2>1 DEF FieldsSeeded
    <3>2. edges'[a][l][location_id[a]] > 0
      BY <1>4, <1>9, <3>1 DEF Linked
    <3> QED
      BY <1>1, <3>2 DEF Linked
  <2>2. ASSUME NEW a \in Agent, NEW l \in FieldLayer, ~Inside(a, l, location_id[a]),
               NEW c \in Cell, c \in Successor[location_id[a]]
        PROVE  Linked(a, l, c)' \/ Linked(a, New(l), c)'
    <3>1. Linked(a, l, c) \/ Linked(a, New(l), c)
      BY <1>2, <1>4, <2>2 DEF FieldsSeeded
    <3>2. Inside(a, l, c)
      BY <1>2, <2>2, ExcludingFacts
    <3> QED
      BY <1>9, <3>1, <3>2
  <2>3. \A a \in Agent, l \in FieldLayer :
          Inside(a, l, location_id[a])' <=> Inside(a, l, location_id[a])
    BY <1>1, <1>3
  <2> QED
    BY <1>1, <1>3, <2>1, <2>2, <2>3 DEF FieldsSeeded
<1>17. FlagsGrown'
  <2>1. ASSUME NEW a \in Agent, NEW l \in FieldLayer, NEW c \in Cell, NEW d \in Cell,
               a \in Flags(l)[c], d \in Successor[c], Inside(a, l, d)
        PROVE  Linked(a, l, d)' \/ Linked(a, New(l), d)'
    <3>1. Linked(a, l, d) \/ Linked(a, New(l), d)
      BY <1>2, <2>1 DEF FlagsGrown
    <3> QED
      BY <1>9, <2>1, <3>1
  <2> QED
    BY <1>3, <1>6, <2>1 DEF FlagsGrown
<1>18. FieldsReach'
  <2>1. ASSUME NEW a \in group, NEW l \in FieldLayer, NEW c \in Cell, Inside(a, l, c),
               Away(a, c) <= step + 1
        PROVE  Linked(a, l, c)'
    <3>1. Linked(a, l, c) \/ Linked(a, New(l), c)
      BY <1>1, <1>2, <2>1 DEF FieldsReach
    <3> QED
      BY <1>5, <1>9, <2>1, <3>1
  <2> QED
    BY <1>1, <1>3, <1>6, <2>1 DEF FieldsReach
<1>19. Cleared'
  <2>1. \A a \in group, l \in FieldLayer, c \in Cell : ~Linked(a, New(l), c)'
    BY <1>5, <1>9
  <2> QED
    BY <1>1, <1>3, <2>1 DEF Cleared
<1>20. PerceptionsKept'
  <2>1. \A a, b : Inside(a, "PERCEIVE", location_id[b])' <=> Inside(a, "PERCEIVE", location_id[b])
    BY <1>1, <1>3
  <2> QED
    BY <1>1, <1>2, <1>6, <2>1 DEF PerceptionsKept
<1> QED
  BY <1>10, <1>11, <1>12, <1>13, <1>14, <1>15, <1>16, <1>17, <1>18, <1>19, <1>20 DEF IInv

\* What an agent perceives of another one that is where its location says.
LEMMA PerceivedFacts ==
  ASSUME TypeOK, Located, NEW a \in Agent, NEW b \in Agent, ~Pending(b)
  PROVE  Perceived(a, b) = IF a # b /\ (a \in group \/ b \in group)
                           THEN edges[a]["PERCEIVE"][location_id[b]] ELSE 0
<1> DEFINE f == [c \in Cell |-> edges[a]["PERCEIVE"][c] * edges[b]["LOCATION"][c]]
           root == location_id[b]
<1>1. /\ root \in Cell
      /\ \A c \in Cell : edges[b]["LOCATION"][c] = IF c = root THEN 1 ELSE 0
      /\ \A c \in Cell : edges[a]["PERCEIVE"][c] \in Nat
  <2>1. edges[a]["PERCEIVE"] \in [Cell -> Nat]
    BY DEF TypeOK, Layer
  <2> QED
    BY <2>1, LocationFacts
<1>2. IsFiniteSet(Cell)
  BY GridFacts DEF TypeOK
<1>3. f[root] = edges[a]["PERCEIVE"][root] /\ f[root] \in Nat
  BY <1>1
<1>4. \A c \in Cell : c # root => f[c] = 0
  BY <1>1
<1>5. SumFunctionOnSet(f, Cell) = f[root]
  <2> HIDE DEF f, root
  <2> QED
    BY <1>1, <1>2, <1>3, <1>4, SumOfOne
<1>6. SumFunction(f) = SumFunctionOnSet(f, Cell)
  BY DEF SumFunction, SumFunctionOnSet, FoldFunction
<1> QED
  BY <1>3, <1>5, <1>6 DEF Perceived

LEMMA UpdatePerceptionsStep ==
  ASSUME IInv, UpdatePerceptions
  PROVE  IInv'
<1>1. /\ phase = "perceptions" /\ phase' = "idle" /\ moved' = moved \ group
      /\ perceptions' =
           [a \in Agent |-> [b \in Agent |-> perceptions[a][b] + Perceived(a, b)]]
      /\ move_flags' = [c \in Cell |-> {}] /\ perception_flags' = [c \in Cell |-> {}]
      /\ UNCHANGED <<grid, edges, location_id, range>> /\ UNCHANGED <<group, step, max_step>>
  BY DEF UpdatePerceptions
<1>2. /\ TypeOK /\ Located /\ Committed /\ Steps /\ FieldsInside /\ FieldsKept /\ FieldsSeeded
      /\ FieldsReach /\ Cleared /\ PerceptionsKept
  BY Parts
<1>3. /\ Cell' = Cell /\ Successor' = Successor
      /\ \A a, l, c : Inside(a, l, c)' <=> Inside(a, l, c)
      /\ \A a, l, c : Linked(a, l, c)' <=> Linked(a, l, c)
      /\ \A a : Pending(a)' <=> Pending(a)
  BY <1>1, SameRanges, SameGraph
<1>4. /\ group \subseteq Agent /\ MaxRadius \in Nat /\ step = MaxRadius
      /\ \A a \in group : AgentRadius(a) <= MaxRadius /\ AgentRadius(a) \in Nat
  <2>1. step = MaxRadius
    BY <1>1, <1>2 DEF Steps
  <2>2. group \subseteq Agent
    BY <1>2, GroupsAssumption DEF TypeOK
  <2>3. \A a \in group : AgentRadius(a) \in Nat
    BY <1>2, <2>2, AgentRadiusFacts
  <2> QED
    BY <1>2, <2>1, <2>2, <2>3, MaxRadiusFacts
<1>5. \A a \in Agent : a \notin moved' => ~Pending(a)
  BY <1>1, <1>2 DEF Committed
<1>6. \A l \in FieldLayer, c \in Cell : Flags(l)'[c] = {}
  BY <1>1 DEF Flags
<1>7. FieldsKept'
  <2>1. ASSUME NEW a \in group, NEW l \in FieldLayer, NEW c \in Cell, Inside(a, l, c)
        PROVE  Linked(a, l, c)
    <3>1. a \in Agent
      BY <1>4
    <3>2. Away(a, c) <= AgentRadius(a) /\ Away(a, c) \in Nat
      BY <1>2, <2>1, <3>1, InsideFacts, AwayFacts
    <3>3. Away(a, c) <= step
      BY <1>4, <3>2
    <3> QED
      BY <1>1, <1>2, <2>1, <3>3 DEF FieldsReach
  <2>2. ASSUME NEW a \in Agent, NEW l \in FieldLayer, NEW c \in Cell, a \notin moved',
               Inside(a, l, c)
        PROVE  Linked(a, l, c)
    <3>1. a \in group \/ a \notin moved
      BY <1>1, <2>2
    <3> QED
      BY <1>2, <2>1, <2>2, <3>1 DEF FieldsKept
  <2> QED
    BY <1>1, <1>3, <2>2 DEF FieldsKept
<1>8. TypeOK'
  <2>1. ASSUME NEW a \in Agent, NEW b \in Agent
        PROVE  Perceived(a, b) \in Nat
    <3> DEFINE f == [c \in Cell |-> edges[a]["PERCEIVE"][c] * edges[b]["LOCATION"][c]]
    <3>1. edges[a]["PERCEIVE"] \in [Cell -> Nat] /\ edges[b]["LOCATION"] \in [Cell -> Nat]
      BY <1>2 DEF TypeOK, Layer
    <3>2. \A m, n \in Nat : m * n \in Nat
      OBVIOUS
    <3>3. \A c \in Cell : f[c] \in Nat
      BY <3>1, <3>2
    <3>4. IsFiniteSet(Cell)
      BY <1>2, GridFacts DEF TypeOK
    <3>5. SumFunctionOnSet(f, Cell) \in Nat
      <4> HIDE DEF f
      <4> QED
        BY <3>3, <3>4, SumIsNat
    <3>6. SumFunction(f) = SumFunctionOnSet(f, Cell)
      BY DEF SumFunction, SumFunctionOnSet, FoldFunction
    <3> QED
      BY <3>5, <3>6 DEF Perceived
  <2>2. \A a, b \in Agent : perceptions[a][b] + Perceived(a, b) \in Nat
    <3>1. \A a, b \in Agent : perceptions[a][b] \in Nat
      BY <1>2 DEF TypeOK
    <3> QED
      BY <2>1, <3>1
  <2>3. perceptions' \in [Agent -> [Agent -> Nat]]
    BY <1>1, <2>2
  <2>4. /\ move_flags' \in [Cell -> SUBSET Agent] /\ perception_flags' \in [Cell -> SUBSET Agent]
        /\ phase' \in Phase /\ moved' \subseteq Agent
    BY <1>1, <1>2 DEF Phase, TypeOK
  <2> QED
    BY <1>1, <1>2, <1>3, <2>3, <2>4 DEF TypeOK
<1>9. Located' /\ FieldsInside' /\ FieldsSeeded'
  BY <1>1, <1>2, SameGraph
<1>10. Committed'
  BY <1>1, <1>3, <1>5 DEF Committed
<1>11. Steps' /\ FieldsReach'
  BY <1>1 DEF Steps, FieldsReach
<1>12. FlagsGrown'
  BY <1>3, <1>6 DEF FlagsGrown
<1>13. Cleared'
  BY <1>1, <1>2, <1>3 DEF Cleared
<1>14. PerceptionsKept'
  <2>1. ASSUME NEW a \in Agent, NEW b \in Agent, a \notin moved', b \notin moved'
        PROVE  perceptions'[a][b] =
                 IF a # b /\ Inside(a, "PERCEIVE", location_id[b]) THEN 1 ELSE 0
    <3>1. ~Pending(a) /\ ~Pending(b) /\ location_id[b] \in Cell /\ "PERCEIVE" \in FieldLayer
      BY <1>2, <1>5, <2>1 DEF TypeOK, FieldLayer
    <3>2. perceptions'[a][b] = perceptions[a][b] + Perceived(a, b)
      BY <1>1
    <3>3. Perceived(a, b) = IF a # b /\ (a \in group \/ b \in group)
                            THEN edges[a]["PERCEIVE"][location_id[b]] ELSE 0
      BY <1>2, <3>1, PerceivedFacts
    <3>4. edges[a]["PERCEIVE"][location_id[b]] =
            IF Inside(a, "PERCEIVE", location_id[b]) THEN 1 ELSE 0
      <4>1. /\ edges[a]["PERCEIVE"][location_id[b]] \in {0, 1}
            /\ edges[a]["PERCEIVE"][location_id[b]] > 0 => Inside(a, "PERCEIVE", location_id[b])
        BY <1>2, <3>1 DEF FieldsInside, Linked
      <4>2. Inside(a, "PERCEIVE", location_id[b]) => Linked(a, "PERCEIVE", location_id[b])
        <5>1. Inside(a, "PERCEIVE", location_id[b])' => Linked(a, "PERCEIVE", location_id[b])'
          BY <1>1, <1>3, <1>7, <2>1, <3>1 DEF FieldsKept
        <5> QED
          BY <1>1, <1>3, <5>1
      <4> QED
        BY <4>1, <4>2 DEF Linked
    <3>5. CASE a \in group \/ b \in group
      <4>1. perceptions[a][b] = 0
        BY <1>1, <1>2, <3>5 DEF PerceptionsKept
      <4> QED
        BY <3>2, <3>3, <3>4, <3>5, <4>1
    <3>6. CASE a \notin group /\ b \notin group
      <4>1. a \notin moved /\ b \notin moved
        BY <1>1, <2>1, <3>6
      <4>2. perceptions[a][b] =
              IF a # b /\ Inside(a, "PERCEIVE", location_id[b]) THEN 1 ELSE 0
        BY <1>2, <3>6, <4>1 DEF PerceptionsKept
      <4> QED
        BY <3>2, <3>3, <3>6, <4>2
    <3> QED
      BY <3>5, <3>6
  <2>2. \A a, b : Inside(a, "PERCEIVE", location_id[b])' <=> Inside(a, "PERCEIVE", location_id[b])
    BY <1>1, <1>3
  <2> QED
    BY <1>1, <2>1, <2>2 DEF PerceptionsKept
<1> QED
  BY <1>7, <1>8, <1>9, <1>10, <1>11, <1>12, <1>13, <1>14 DEF IInv

-----------------------------------------------------------------------------
(* The specification *)

LEMMA Stutter ==
  ASSUME IInv, UNCHANGED vars
  PROVE  IInv'
<1>1. /\ UNCHANGED <<grid, edges, perceptions, location_id, range, move_flags, perception_flags>>
      /\ UNCHANGED <<flags, phase, group, step, max_step, moved>>
  BY DEF vars, state, flags, bounds
<1>2. /\ TypeOK /\ Located /\ Committed /\ Steps /\ FieldsInside /\ FieldsKept /\ FieldsSeeded
      /\ FlagsGrown /\ FieldsReach /\ Cleared /\ PerceptionsKept
  BY Parts
<1>3. /\ Cell' = Cell /\ Successor' = Successor
      /\ \A a, l, c : Inside(a, l, c)' <=> Inside(a, l, c)
      /\ \A a, l, c : Linked(a, l, c)' <=> Linked(a, l, c)
      /\ \A a, c : Away(a, c)' = Away(a, c)
      /\ \A a : Pending(a)' <=> Pending(a)
      /\ \A a : AgentRadius(a)' = AgentRadius(a)
  BY <1>1, SameRanges, SameGraph
<1>4. TypeOK'
  BY <1>1, <1>2, <1>3 DEF TypeOK
<1>5. Located' /\ FieldsInside' /\ FieldsSeeded' /\ FieldsKept'
  BY <1>1, <1>2, SameGraph
<1>6. Committed'
  BY <1>1, <1>2, <1>3 DEF Committed
<1>7. Steps'
  BY <1>1, <1>2, <1>3, SameMax DEF Steps
<1>8. FlagsGrown'
  BY <1>1, <1>2, SameFlags
<1>9. FieldsReach'
  BY <1>1, <1>2, <1>3 DEF FieldsReach
<1>10. Cleared'
  BY <1>1, <1>2, <1>3 DEF Cleared
<1>11. PerceptionsKept'
  <2>1. \A a, b : Inside(a, "PERCEIVE", location_id[b])' <=> Inside(a, "PERCEIVE", location_id[b])
    BY <1>1, <1>3
  <2> QED
    BY <1>1, <1>2, <2>1 DEF PerceptionsKept
<1> QED
  BY <1>4, <1>5, <1>6, <1>7, <1>8, <1>9, <1>10, <1>11 DEF IInv

LEMMA NextIInv ==
  ASSUME IInv, Next, Allow = {}
  PROVE  IInv'
<1>1. ASSUME NEW a \in Agent, NEW ranges \in Ranges, NEW cell \in Cell, MoveTo(a, cell, ranges)
      PROVE  IInv'
  BY <1>1, MoveToStep
<1>2. ASSUME NEW a \in Agent, NEW ranges \in Ranges, Stay(a, ranges)
      PROVE  IInv'
  BY <1>2, StayStep
<1>3. ASSUME NEW g \in Groups, StartAlgorithm(g)
      PROVE  IInv'
  BY <1>3, StartStep
<1>4. CASE UnlinkOutgoing
  BY <1>4, UnlinkOutgoingStep
<1>5. CASE UnlinkIncoming
  BY <1>5, UnlinkIncomingStep
<1>6. CASE Grow
  BY <1>6, GrowStep
<1>7. CASE Crop
  BY <1>7, CropStep
<1>8. CASE UpdatePerceptions
  BY <1>8, UpdatePerceptionsStep
<1> QED
  BY <1>1, <1>2, <1>3, <1>4, <1>5, <1>6, <1>7, <1>8 DEF Next

(* The invariant of the growth of the fields holds of every execution in    *)
(* which no agent that stays takes a smaller range, and no group moves whose *)
(* ranges all have radius 0.                                                *)
THEOREM Inductive == Allow = {} /\ Spec => []IInv
<1> SUFFICES ASSUME Allow = {} PROVE Spec => []IInv
  OBVIOUS
<1>1. Init => IInv
  BY InitIInv
<1>2. IInv /\ [Next]_vars => IInv'
  BY NextIInv, Stutter
<1> QED
  BY <1>1, <1>2, PTL DEF Spec

(* Each edge map, flag set and counter of the algorithm keeps its type, and  *)
(* its step counter never passes the number of steps of the end condition.   *)
THEOREM TypeCorrect == Allow = {} /\ Spec => []TypeOK
<1>1. IInv => TypeOK
  BY DEF IInv
<1> QED
  BY <1>1, Inductive, PTL

(* VonNeumannGridBuilder builds the lattice, of any width and height and on   *)
(* any number of processes it can distribute the longer side to.             *)
THEOREM LatticeHolds == Spec => []Lattice
<1>1. Lattice
  <2>1. ASSUME NEW w \in 1 .. MaxSide, NEW h \in 1 .. MaxSide, NEW n \in 1 .. MaxSide,
               NEW g, g = [width |-> w, height |-> h, procs |-> n], n <= Side(g)
        PROVE  IsLattice(g)
    <3>1. w \in Nat \ {0} /\ h \in Nat \ {0} /\ n \in Nat \ {0}
      BY SideAssumption
    <3>2. Buildable(g)
      BY <2>1, <3>1 DEF Buildable, GridSet
    <3> QED
      BY <3>2, LatticeBuilt
  <2> QED
    BY <2>1 DEF Lattice
<1> QED
  BY <1>1, PTL

(* An agent is at one place: updateLocation() replaces its location, and the *)
(* first step of the algorithm commits the new one.                          *)
THEOREM OneLocationHolds == Allow = {} /\ Spec => []OneLocation
<1>1. ASSUME IInv PROVE OneLocation
  <2>1. TypeOK /\ Located /\ Committed
    BY <1>1, Parts
  <2>2. ASSUME NEW a \in Agent, phase = "idle", a \notin moved
        PROVE  Field(a, "NEW_LOCATION") = {}
    <3>1. ~Pending(a)
      BY <2>1, <2>2 DEF Committed
    <3>2. \A c \in Cell : edges[a]["LOCATION"][c] \in Nat /\ edges[a]["NEW_LOCATION"][c] \in Nat
      BY <2>1, LayerFacts DEF TypeOK
    <3>3. \A c \in Cell : edges[a]["LOCATION"][c] = IF c = location_id[a] THEN 1 ELSE 0
      BY <2>1, <3>1, LocationFacts
    <3>4. \A c \in Cell : edges[a]["LOCATION"][c] + edges[a]["NEW_LOCATION"][c]
                            = IF c = location_id[a] THEN 1 ELSE 0
      BY <2>1 DEF Located
    <3> QED
      BY <3>2, <3>3, <3>4 DEF Field
  <2> QED
    BY <2>1, <2>2 DEF OneLocation, Located
<1> QED
  BY <1>1, Inductive, PTL

(* The fields are exact: the steps of the end condition, the flags of the    *)
(* cells and the cropping by the agents give an agent one edge to each cell   *)
(* of its ranges and none to others, once the algorithm has run for it.      *)
THEOREM FieldsExactHolds == Allow = {} /\ Spec => []FieldsExact
<1>1. ASSUME IInv PROVE FieldsExact
  <2>1. TypeOK /\ FieldsInside /\ FieldsKept /\ Cleared
    BY <1>1, Parts
  <2>2. ASSUME NEW a \in Agent, a \notin moved, NEW l \in FieldLayer
        PROVE  edges[a][l] = EdgesTo({c \in Cell : Contains(Successor, RangeOf(a, l), location_id[a], c)})
    <3>1. edges[a][l] \in [Cell -> Nat]
      BY <2>1, LayerFacts DEF TypeOK
    <3>2. \A c \in Cell : edges[a][l][c] = IF Inside(a, l, c) THEN 1 ELSE 0
      BY <2>1, <2>2 DEF FieldsInside, FieldsKept, Linked
    <3>3. edges[a][l] = [c \in Cell |-> edges[a][l][c]]
      BY <3>1
    <3>4. \A c \in Cell : edges[a][l][c] =
            IF c \in {d \in Cell : Contains(Successor, RangeOf(a, l), location_id[a], d)} THEN 1 ELSE 0
      BY <3>2 DEF Inside
    <3> QED
      BY <3>3, <3>4 DEF EdgesTo
  <2>3. ASSUME NEW a \in Agent, phase = "idle", a \in group, max_step > 0, NEW l \in FieldLayer
        PROVE  Field(a, New(l)) = {}
    BY <2>1, <2>3 DEF Cleared, Field, Linked
  <2>4. /\ "MOVE" \in FieldLayer /\ "PERCEIVE" \in FieldLayer
        /\ New("MOVE") = "NEW_MOVE" /\ New("PERCEIVE") = "NEW_PERCEIVE"
        /\ \A a : RangeOf(a, "MOVE") = range[a].mobility /\ RangeOf(a, "PERCEIVE") = range[a].perception
    BY DEF FieldLayer, New, RangeOf, Among
  <2>5. ASSUME NEW a \in Agent, a \notin moved, phase = "idle"
        PROVE  /\ edges[a]["MOVE"] =
                    EdgesTo({c \in Cell : Contains(Successor, range[a].mobility, location_id[a], c)})
               /\ edges[a]["PERCEIVE"] =
                    EdgesTo({c \in Cell : Contains(Successor, range[a].perception, location_id[a], c)})
               /\ a \in group /\ max_step > 0 =>
                    Field(a, "NEW_MOVE") = {} /\ Field(a, "NEW_PERCEIVE") = {}
    BY <2>2, <2>3, <2>4, <2>5
  <2> QED
    BY <2>5 DEF FieldsExact
<1> QED
  BY <1>1, Inductive, PTL

(* An agent perceives each agent of its perception range once and no other:  *)
(* updatePerceptions() creates again what the group has unlinked.            *)
THEOREM PerceptionsExactHolds == Allow = {} /\ Spec => []PerceptionsExact
<1>1. ASSUME IInv PROVE PerceptionsExact
  <2>1. PerceptionsKept
    BY <1>1, Parts
  <2>2. \A a, b : Inside(a, "PERCEIVE", location_id[b]) <=>
          Contains(Successor, range[a].perception, location_id[a], location_id[b])
    BY DEF Inside, RangeOf, Among
  <2> QED
    BY <2>1, <2>2 DEF PerceptionsKept, PerceptionsExact
<1> QED
  BY <1>1, Inductive, PTL
=============================================================================
