------------------------------ MODULE GridShapes ------------------------------
(***************************************************************************)
(* The shapes God divides the world into for the partitions of the exc     *)
(* runtime.  A heuristic computes them as pairs of triangles; a partition  *)
(* gets them as grid cells, the boxes around the triangles; and God finds  *)
(* the partition of a point with an index of sampled cells, or by testing  *)
(* the triangles.  All three are to agree on where an entity belongs.      *)
(*                                                                         *)
(* The unit square has integer coordinates 0..Unit.  A multiple of 32 and  *)
(* of 2 * IndexSize, Unit makes every corner and every cell's centre exact.*)
(***************************************************************************)
EXTENDS Integers, Sequences, SequencesExt, FiniteSetsExt

CONSTANTS
    Unit,         \* the length 1
    IndexSize,    \* spatialIndexGridSize, 100 in the code
    EntitySets,   \* sequences of positions that the manifest's entities may have
    ShapePoints,  \* points whose shape is looked up
    PartitionCounts  \* numbers of registered partitions

VARIABLES
    heuristicType,   \* currentHeuristicType
    shapes,          \* shapeCache.shapes: each a square, as a box
    assignedShapes   \* how many of them are assigned: partition k has shape k

shapeVars == <<heuristicType, shapes, assignedShapes>>

HeuristicTypes == {"BigSquare", "QuadTree", "KDTree", "Grid"}

-----------------------------------------------------------------------------
(* GeometryUtils and Shape. *)

\* PointInTriangle, with u and v as fractions of denom; EPSILON is 1 / 1000000.
Epsilon(n) == n \div 1000000
PointInTriangle(p, t) ==
    LET dot(a, b) == a[1] * b[1] + a[2] * b[2]
        to(q) == <<q[1] - t[1][1], q[2] - t[1][2]>>
        v0 == to(t[3])  v1 == to(t[2])  v2 == to(p)
        denom == dot(v0, v0) * dot(v1, v1) - dot(v0, v1) * dot(v0, v1)
        u == dot(v1, v1) * dot(v0, v2) - dot(v0, v1) * dot(v1, v2)
        v == dot(v0, v0) * dot(v1, v2) - dot(v0, v1) * dot(v0, v2)
    IN  /\ denom > Epsilon(Unit * Unit * Unit * Unit - 1)
        /\ u >= -Epsilon(denom) /\ v >= -Epsilon(denom)
        /\ u <= denom + Epsilon(denom) - v

Square(x0, y0, x1, y1) == [x0 |-> x0, y0 |-> y0, x1 |-> x1, y1 |-> y1]
Triangles(s) ==
    << << <<s.x0, s.y0>>, <<s.x1, s.y0>>, <<s.x0, s.y1>> >>,
       << <<s.x1, s.y1>>, <<s.x1, s.y0>>, <<s.x0, s.y1>> >> >>
InShape(p, s) == \E k \in 1..2 : PointInTriangle(p, Triangles(s)[k])

\* appendGridCellsFromTriangles, and GridShape's contains.
GridCell(t) ==
    LET xs == {t[k][1] : k \in 1..3}  ys == {t[k][2] : k \in 1..3} IN
    [minX |-> Min(xs), minY |-> Min(ys), maxX |-> Max(xs), maxY |-> Max(ys)]
InCell(p, c) == p[1] \in c.minX..c.maxX /\ p[2] \in c.minY..c.maxY
InGridShape(p, s) == \E k \in 1..2 : InCell(p, GridCell(Triangles(s)[k]))

-----------------------------------------------------------------------------
(* Heuristic and QuadtreeHeuristic. *)

computeBigSquareShape == <<Square(0, 0, Unit, Unit)>>

computeGridShape ==
    LET step == Unit \div 2
        cell(i, j) == Square(i * step, j * step, (i + 1) * step, (j + 1) * step)
    IN  <<cell(0, 0), cell(0, 1), cell(1, 0), cell(1, 1)>>

\* subdivide, in the order in which collectLeafShapes visits the children.
Subdivide(s) ==
    LET midX == (s.x0 + s.x1) \div 2
        midY == (s.y0 + s.y1) \div 2
    IN  <<Square(s.x0, s.y0, midX, midY), Square(midX, s.y0, s.x1, midY),
          Square(s.x0, midY, midX, s.y1), Square(midX, midY, s.x1, s.y1)>>

\* A node that is not subdivided at its depth stays a leaf: what decides does not change.
Level(leaves, divided) ==
    FlattenSeq([k \in 1..Len(leaves) |->
                    IF leaves[k] \in divided THEN Subdivide(leaves[k]) ELSE <<leaves[k]>>])

UniformDepth == 3
computeQuadtreeShape ==
    FoldLeft(LAMBDA leaves, d : Level(leaves, ToSet(leaves)), computeBigSquareShape,
             [d \in 1..UniformDepth |-> d])

\* countEntities, the threshold and the depth that computePartition passes.
EntityCount(s, entities) ==
    Len(SelectSeq(entities, LAMBDA p : p[1] \in s.x0..s.x1 /\ p[2] \in s.y0..s.y1))
MinEntitiesPerNode == 4
DensityDepth_Five == 5
DensityDepth == 4
computeQuadtreeShapeDensity(entities) ==
    FoldLeft(LAMBDA leaves, d :
                 Level(leaves, {s \in ToSet(leaves) : EntityCount(s, entities) > MinEntitiesPerNode}),
             computeBigSquareShape, [d \in 1..DensityDepth |-> d])

computePartition(type, entities) ==
    CASE type = "BigSquare" -> computeBigSquareShape
      [] type = "QuadTree" -> IF entities = <<>> THEN computeQuadtreeShape
                              ELSE computeQuadtreeShapeDensity(entities)
      [] type = "Grid" -> computeGridShape
      [] type = "KDTree" -> <<>>

-----------------------------------------------------------------------------
(* PartitionShapeCache. *)

\* buildSpatialIndex: the partition a cell of the index is mapped to, the first one whose
\* shape has a triangle around the cell's centre.  0 is none.
First(ks) == IF ks = {} THEN 0 ELSE Min(ks)
Scaled(x) == (x * IndexSize) \div Unit
IndexRange(lo, hi) ==
    Min({Scaled(lo), IndexSize - 1})..Min({Scaled(hi) + 1, IndexSize}) - 1
Centre(g) == ((2 * g + 1) * Unit) \div (2 * IndexSize)
SpatialIndex(gx, gy) ==
    First({k \in 1..assignedShapes :
              \E i \in 1..2 :
                  LET t == Triangles(shapes[k])[i]
                      c == GridCell(t)
                  IN  /\ gx \in IndexRange(c.minX, c.maxX) /\ gy \in IndexRange(c.minY, c.maxY)
                      /\ PointInTriangle(<<Centre(gx), Centre(gy)>>, t)})

IndexOf(x) == Min({Scaled(Max({0, Min({Unit, x})})), IndexSize - 1})
fastLookup(p) == SpatialIndex(IndexOf(p[1]), IndexOf(p[2]))

\* God::findPartitionForPoint.
findPartitionForPoint(p) ==
    LET fast == fastLookup(p) IN
    IF fast # 0 THEN fast ELSE First({k \in 1..assignedShapes : InShape(p, shapes[k])})

-----------------------------------------------------------------------------
ShapesInit ==
    /\ heuristicType = "QuadTree"
    /\ shapes = <<>>
    /\ assignedShapes = 0

setHeuristicType(type) ==
    /\ heuristicType' = type
    /\ UNCHANGED <<shapes, assignedShapes>>

\* computeAndStorePartitions, with n partitions in the registry.
computeAndStorePartitions(entities, n) ==
    /\ shapes' = computePartition(heuristicType, entities)
    /\ assignedShapes' = Min({Len(shapes'), n})
    /\ UNCHANGED heuristicType

ShapesNext ==
    \/ \E type \in HeuristicTypes : setHeuristicType(type)
    \/ \E entities \in EntitySets, n \in PartitionCounts : computeAndStorePartitions(entities, n)

-----------------------------------------------------------------------------
Inside(p, s) == p[1] \in s.x0 + 1..s.x1 - 1 /\ p[2] \in s.y0 + 1..s.y1 - 1
Near(p, s) ==
    LET w == Unit \div IndexSize IN p[1] \in s.x0 - w..s.x1 + w /\ p[2] \in s.y0 - w..s.y1 + w

\* Whatever a heuristic makes of the entities, however crowded they are (KDTree computes no
\* shapes):
\*  - every point of the world is in a shape, and in one only unless it is on a border;
\*  - the triangles God tests and the cells the partition tests are the same region;
\*  - the partition God looks up for a point is the one whose shape it is in or, where a
\*    cell of the index lies across a border, a neighbour; and if a partition has the point,
\*    one is found.
\* (Heuristic::computePartition, Shape::appendGridCellsFromTriangles, fastLookup)
ShapesAgree ==
    shapes # <<>> =>
        \A p \in ShapePoints :
            LET in == {k \in 1..Len(shapes) : InShape(p, shapes[k])}
                found == findPartitionForPoint(p)
            IN  /\ in # {}
                /\ \A k \in in : Inside(p, shapes[k]) => in = {k}
                /\ in = {k \in 1..Len(shapes) : InGridShape(p, shapes[k])}
                /\ found # 0 => Near(p, shapes[found])
                /\ in \cap 1..assignedShapes # {} => found # 0
=============================================================================
