----------------------------- MODULE GridPlanner -----------------------------
(***************************************************************************)
(* PathPlanner::planPath: the costmap drawn from the map, the A* search of *)
(* GridMap on it, the shortcuts of smoothPath and the last check.          *)
(*                                                                         *)
(* Geometry is by cells: a polygon is known by the cells whose centres are *)
(* inside it, and by those of them within the hard and the soft margin of  *)
(* its edge.  Robot and destination stand at centres.  The cost ramps of a *)
(* margin are one value, and a length counts 10000 units for a cell.       *)
(***************************************************************************)
EXTENDS Integers, Sequences, FiniteSets, TLC

CONSTANTS
  GridCols, GridRows,  \* cols_, rows_
  Grounds,             \* the maps, with their zone and mode, that are planned on
  Starts,              \* the cells the robot may be in
  Far                  \* cost of a cell not reached yet

VARIABLES
  ground,  \* the map, the zone and the mode that planPath is given
  ends,    \* source and destination
  heap,    \* openSet
  gCost, parent, closed,
  search,  \* "running", "found", "failed", then "traced", "smoothed", "planned", "refused"
  path,
  kept     \* length of smoothPath's result, the head of path: the rest is still to smooth

gridVars == <<ground, ends, heap, gCost, parent, closed, search, path, kept>>

Cells == (0 .. GridCols - 1) \X (0 .. GridRows - 1)
Off   == <<-1, -1>>   \* beyond the grid, which is at most 200 cells wide
Unit  == 10000        \* of length: a cell

\* inside: the cells whose centre is inside; near and edge: those within the soft and
\* the hard margin of the edge.
Polygons ==
  [inside: SUBSET Cells, near: SUBSET Cells, edge: SUBSET Cells, hard: BOOLEAN]

\* A perimeter or none, a zone or none, and the corridor when docking; cost is what a
\* margin and a soft exclusion cost.
GroundType ==
  [perimeter: SUBSET Polygons, zone: SUBSET Polygons, exclusions: SUBSET Polygons,
   corridor: SUBSET Cells, cost: Nat, obstacles: SUBSET Cells]

\* No step costs more.
Dearest(m) ==
  14142 + 3 * Unit + m.cost * (Cardinality(m.perimeter) + 2 * Cardinality(m.exclusions))

\* A way costs less than what stands for no way, which is 1e30 in the code.
ASSUME GridAssumption ==
  /\ GridCols \in Nat \ {0} /\ GridRows \in Nat \ {0} /\ Starts \subseteq Cells \cup {Off}
  /\ Grounds \subseteq GroundType /\ Far \in Nat
  /\ \A m \in Grounds : /\ IsFiniteSet(m.perimeter) /\ IsFiniteSet(m.exclusions)
                       /\ GridCols * GridRows * Dearest(m) < Far
----------------------------------------------------------------------------
(* The costmap, layer by layer.                                            *)

\* markExterior and the hard margin of the perimeter, the exterior of the zone;
\* markInterior of hard exclusions; markCircle of the obstacles.  The hard margin of
\* an exclusion lies in its interior, as the one of the perimeter does.
Occupied(m) ==
  UNION { (Cells \ p.inside) \cup p.edge : p \in m.perimeter }
    \cup UNION { Cells \ z.inside : z \in m.zone }
    \cup UNION { x.inside : x \in { y \in m.exclusions : y.hard } }
    \cup m.obstacles

\* The costs of the layers are added up; those of occupied cells do not matter.
TraversalCost(m, c) ==
  LET soft == { x \in m.exclusions : ~x.hard }
      charged == { p \in m.perimeter \cup soft : c \in p.near }
  IN m.cost * (Cardinality(charged) + Cardinality({ x \in soft : c \in x.inside }))
       + (IF m.corridor # {} /\ c \notin m.corridor THEN 3 * Unit ELSE 0)
----------------------------------------------------------------------------
(* The search.                                                             *)

Abs(n) == IF n < 0 THEN -n ELSE n

\* The square root of the sum of squares, rounded up: the heuristic is above the cost
\* of a diagonal, as it is in the code, where that is 1.4142.
Root[s \in Nat, lo \in Nat, hi \in Nat] ==
  IF lo = hi THEN lo
  ELSE LET mid == (lo + hi) \div 2
       IN IF mid * mid >= s * Unit * Unit THEN Root[s, lo, mid] ELSE Root[s, mid + 1, hi]

Euclid == [d \in Cells |-> Root[d[1] * d[1] + d[2] * d[2], 0, (d[1] + d[2]) * Unit]]

Heuristic(c) == Euclid[<<Abs(c[1] - ends.dst[1]), Abs(c[2] - ends.dst[2])>>]

Diagonal(c, d) == c[1] # d[1] /\ c[2] # d[2]

\* A diagonal step needs both cells beside it free.
StepsFrom(c) ==
  { d \in (c[1] - 1 .. c[1] + 1) \X (c[2] - 1 .. c[2] + 1) :
      /\ d \in Cells \ Occupied(ground) /\ d # c
      /\ Diagonal(c, d) => {<<c[1], d[2]>>, <<d[1], c[2]>>} \cap Occupied(ground) = {} }

StepCost(c, d) ==
  (IF Diagonal(c, d) THEN 14142 ELSE Unit) + TraversalCost(ground, d)

\* A node of the heap with the least f, which of them is up to the heap.
Least == { n \in heap : \A o \in heap : n.f <= o.f }

\* Mutant of Better: a cell keeps the way on which it was seen first.
FirstSeen(c) == { d \in StepsFrom(c) \ closed : gCost[d] = Far }

\* The neighbours that c gives a cheaper way.
Better(c) == { d \in StepsFrom(c) \ closed : gCost[c] + StepCost(c, d) < gCost[d] }

Discard(n) ==
  /\ n.c \in closed /\ heap' = heap \ {n}
  /\ UNCHANGED <<closed, gCost, parent, search, path>>

ReachGoal(n) ==
  /\ n.c \notin closed /\ n.c = ends.dst
  /\ closed' = closed \cup {n.c} /\ heap' = heap \ {n}
  /\ search' = "found" /\ UNCHANGED <<gCost, parent, path>>

Expand(n) ==
  /\ n.c \notin closed /\ n.c # ends.dst
  /\ closed' = closed \cup {n.c}
  /\ LET better == Better(n.c)
         cost(d) == gCost[n.c] + StepCost(n.c, d)
     IN /\ gCost' = [d \in Cells |-> IF d \in better THEN cost(d) ELSE gCost[d]]
        /\ parent' = [d \in Cells |-> IF d \in better THEN n.c ELSE parent[d]]
        /\ heap' = (heap \ {n})
                     \cup { [f |-> cost(d) + Heuristic(d), c |-> d] : d \in better }
  /\ UNCHANGED <<search, path>>

Pop ==
  /\ search = "running"
  /\ \E n \in Least : Discard(n) \/ ReachGoal(n) \/ Expand(n)
  /\ UNCHANGED <<ground, ends, kept>>

Exhausted ==
  /\ search = "running" /\ heap = {} /\ search' = "failed"
  /\ UNCHANGED <<ground, ends, heap, gCost, parent, closed, path, kept>>

\* The cell that the reconstruction has come to on its way back along the parents.
Cursor == IF path = <<>> THEN ends.dst ELSE parent[Head(path)]

Trace ==
  /\ search = "found" /\ Cursor \notin {ends.src, Off}
  /\ path' = <<Cursor>> \o path
  /\ UNCHANGED <<ground, ends, heap, gCost, parent, closed, search, kept>>

\* At the source, or at a cell without parent: no path then.
TraceEnds ==
  /\ search = "found" /\ Cursor \in {ends.src, Off}
  /\ search' = IF Cursor = ends.src THEN "traced" ELSE "failed"
  /\ path' = IF Cursor = ends.src THEN path ELSE <<>>
  /\ UNCHANGED <<ground, ends, heap, gCost, parent, closed, kept>>
----------------------------------------------------------------------------
(* smoothPath and the check of planPath.                                   *)

\* lineIsClear: cells sampled at least every half cell.
Sampled(a, b) ==
  LET dx == b[1] - a[1]
      dy == b[2] - a[2]
      n  == CHOOSE k \in 0 .. 2 * (GridCols + GridRows) :
              /\ k * k >= 4 * (dx * dx + dy * dy)
              /\ \A j \in 0 .. k - 1 : j * j < 4 * (dx * dx + dy * dy)
      At(i, from, by) == from + (2 * i * by + n) \div (2 * n)
  IN { <<At(i, a[1], dx), At(i, a[2], dy)>> : i \in 0 .. n }

LineIsClear(a, b) == Sampled(a, b) \cap Occupied(ground) = {}

\* The point that follows point i: the last one in sight, or the next.
Furthest(p, i) ==
  LET seen == {i + 1} \cup { j \in i + 2 .. Len(p) : LineIsClear(p[i], p[j]) }
  IN { j \in seen : \A k \in seen : k <= j }

\* A step of smoothPath drops the points between two.
Shorten ==
  /\ search = "traced" /\ kept < Len(path)
  /\ \E j \in Furthest(path, kept) :
       path' = SubSeq(path, 1, kept) \o SubSeq(path, j, Len(path))
  /\ kept' = kept + 1
  /\ UNCHANGED <<ground, ends, heap, gCost, parent, closed, search>>

Smoothed ==
  /\ search = "traced" /\ kept >= Len(path) /\ search' = "smoothed"
  /\ UNCHANGED <<ground, ends, heap, gCost, parent, closed, path, kept>>

\* isInsideAllowedArea of a cell's centre: without a perimeter everything is.
Allowed(c) ==
  \A p \in ground.perimeter :
    c \in p.inside /\ \A x \in ground.exclusions : x.hard => c \notin x.inside

\* pathAllowed of source and path: whether a segment between two points cuts an edge
\* or a circle is beyond the cells, and a choice.
Check ==
  /\ search = "smoothed"
  /\ \/ search' = "planned" /\ Allowed(ends.src)
        /\ \A i \in 1 .. Len(path) : Allowed(path[i])
     \/ search' = "refused"
  /\ UNCHANGED <<ground, ends, heap, gCost, parent, closed, path, kept>>
----------------------------------------------------------------------------
(* planPath.                                                               *)

\* planPath up to its loop: no search for ends off the grid or an occupied destination;
\* an occupied source is left.  The corridor is there when docking.
GridInit ==
  /\ ground \in Grounds
  /\ ends \in [src: Starts, dst: Cells \cup {Off}]
  /\ search = IF ends.src = Off \/ ends.dst \in {Off} \cup Occupied(ground) THEN "failed"
              ELSE IF ends.src = ends.dst THEN "traced" ELSE "running"
  /\ path = (IF search = "traced" THEN <<ends.dst>> ELSE <<>>) /\ kept = 1
  /\ gCost = [c \in Cells |-> IF c = ends.src THEN 0 ELSE Far]
  /\ parent = [c \in Cells |-> Off] /\ closed = {}
  /\ heap = IF search # "running" THEN {}
            ELSE {[f |-> Heuristic(ends.src), c |-> ends.src]}

GridNext == Pop \/ Exhausted \/ Trace \/ TraceEnds \/ Shorten \/ Smoothed \/ Check

GridSpec == GridInit /\ [][GridNext]_gridVars
----------------------------------------------------------------------------
(* Properties.                                                             *)

\* The ends lie on the grid, apart, and the destination is free: planPath searches.
Asked ==
  ends.src # Off /\ ends.dst \in Cells \ Occupied(ground) /\ ends.src # ends.dst

\* What one more step makes of the costs known, a reference that knows no order.
Relaxed(cost) ==
  [d \in Cells |->
     LET ways == { cost[c] + StepCost(c, d) : c \in { e \in Cells : d \in StepsFrom(e) } }
         all  == {cost[d]} \cup ways
     IN CHOOSE x \in all : \A y \in all : x <= y] @@ <<>>

Settled[cost \in [Cells -> Nat]] ==
  LET more == Relaxed(cost) IN IF more = cost THEN cost ELSE Settled[more]

Cheapest == Settled[[c \in Cells |-> IF c = ends.src THEN 0 ELSE Far]]

\* Where the path is before its i-th point.
Before(i) == IF i = 1 THEN ends.src ELSE path[i - 1]

\* planPath's path leads from the source to the destination: by steps around corners where
\* smoothPath has not been yet, by these or by lines in sight where it has.  No cell is
\* visited twice.
PathIsClear ==
  Asked /\ search \in {"traced", "smoothed", "planned", "refused"} =>
    /\ path # <<>> /\ path[Len(path)] = ends.dst
    /\ \A i \in 1 .. Len(path) :
         /\ \/ path[i] \in StepsFrom(Before(i))
            \/ 1 < i /\ i <= kept /\ LineIsClear(Before(i), path[i])
         /\ path[i] # ends.src /\ \A j \in 1 .. i - 1 : path[j] # path[i]

\* planPath finds a way to the destination exactly if there is one, by free cells and
\* around corners, none is cheaper, and the path it makes of it is clear.
SearchIsRight ==
  LET cost == Cheapest
  IN Asked =>
       /\ search = "failed" => cost[ends.dst] = Far
       /\ search = "found" /\ path = <<>> => gCost[ends.dst] <= cost[ends.dst]
       /\ PathIsClear
=============================================================================
