---------------------------- MODULE BounceSimulator ----------------------------
(***************************************************************************)
(* A shard's debug entities, which move in straight lines and bounce at    *)
(* the perimeter of the world (DebugEntityLinearBounceSimulator), and the  *)
(* grid whose bounds make up that world (GridHeuristic).                   *)
(*                                                                         *)
(* The perimeter is rebuilt from two reads of the HeuristicManifest, first *)
(* the claimed bounds, then the pending ones, while the shards' leasers    *)
(* move bounds from one to the other: a bound claimed in between is in     *)
(* neither answer.  Coordinates are integers, x and y: z is always 0.  A   *)
(* velocity is the distance of one tick at the longest step of time.       *)
(***************************************************************************)
EXTENDS Integers, FiniteSets, FiniteSetsExt

CONSTANTS
    QuadHalf,       \* half of a quad's side: 50 in the code, and GridSize / 2
    HalfExtent,     \* half of an entity's side
    Velocities,     \* velocities that RandomVelocity gives
    AdoptPositions, \* positions of entities that other shards hand over
    MaxBoundMoves   \* bound on the moves of bounds between claimed and pending

ASSUME BounceAssumption ==
    /\ QuadHalf \in Nat \ {0} /\ HalfExtent \in Nat \ {0} /\ HalfExtent < QuadHalf
    /\ Velocities \subseteq Int \X Int
    /\ AdoptPositions \subseteq (-2 * QuadHalf..2 * QuadHalf) \X (-2 * QuadHalf..2 * QuadHalf)
    /\ MaxBoundMoves \in Nat

VARIABLES
    quadAt,         \* where the manifest has each quad: none, pending or claimed
    boundMoves,     \* moves so far
    entitiesById,   \* the set of the simulated entity: its position and velocity, or empty
    perimeter,      \* worldPerimeterBounds
    perimeterValid, \* worldPerimeterValid: yes or no
    lastRefresh,    \* lastPerimeterRefresh: min or set
    rebuild         \* the call that is rebuilding the perimeter and the claimed bounds it read

bounceVars ==
    <<quadAt, boundMoves, entitiesById, perimeter, perimeterValid, lastRefresh, rebuild>>

-----------------------------------------------------------------------------
(* AABB and GridHeuristic. *)

Box(minX, minY, maxX, maxY) == [minX |-> minX, minY |-> minY, maxX |-> maxX, maxY |-> maxY]
FromCenterExtents(x, y, half) == Box(x - half, y - half, x + half, y + half)
BoxContains(box, p) == p[1] \in box.minX..box.maxX /\ p[2] \in box.minY..box.maxY

\* Compute: four quads around the origin.
Quads == 0..3
QuadBox(i) ==
    FromCenterExtents(QuadHalf * (IF i % 2 = 1 THEN 1 ELSE -1),
                      QuadHalf * (IF i \div 2 = 1 THEN 1 ELSE -1), QuadHalf)

\* QueryPosition: the first quad that contains p, if there is one.
QueryPosition(p) ==
    LET found == {i \in Quads : BoxContains(QuadBox(i), p)} IN
    IF found = {} THEN {} ELSE {Min(found)}

-----------------------------------------------------------------------------
(* ReflectAxis and ReflectOnPerimeter: on each axis up to four bounces, each from the side   *)
(* on which the position is outside, and a clamp.  A box narrower than the entity holds it  *)
(* in the middle.                                                                           *)

Abs(v) == IF v < 0 THEN -v ELSE v
Clamp(p, lo, hi) == IF p < lo THEN lo ELSE IF p > hi THEN hi ELSE p
Bounce(p, v, lo, hi) ==
    IF lo > hi THEN <<(lo + hi) \div 2, 0>>
    ELSE <<2 * Clamp(p, lo, hi) - p, IF p < lo THEN Abs(v) ELSE IF p > hi THEN -Abs(v) ELSE v>>

Inner(box) ==
    Box(box.minX + HalfExtent, box.minY + HalfExtent, box.maxX - HalfExtent, box.maxY - HalfExtent)

\* One round of bounces and the clamp, of a set of entities.
Bounced(entities, in) ==
    {LET x == Bounce(e.at[1], e.v[1], in.minX, in.maxX)
         y == Bounce(e.at[2], e.v[2], in.minY, in.maxY)
     IN  [at |-> <<x[1], y[1]>>, v |-> <<x[2], y[2]>>] : e \in entities}
Clamped(entities, in) ==
    {[e EXCEPT !.at = <<Clamp(@[1], in.minX, in.maxX), Clamp(@[2], in.minY, in.maxY)>>] :
        e \in entities}

ReflectOnPerimeter_Once(entities, box) == Bounced(entities, Inner(box))
ReflectOnPerimeter(entities, box) ==
    LET in == Inner(box) IN
    Clamped(Bounced(Bounced(Bounced(Bounced(entities, in), in), in), in), in)

Moved(entities, step) ==
    {[e EXCEPT !.at = <<@[1] + step * e.v[1], @[2] + step * e.v[2]>>] : e \in entities}

-----------------------------------------------------------------------------
\* RebuildConfiguredWorldPerimeter asks a new GridHeuristic for its quads: it has none, since
\* nothing was computed.
ConfiguredWorld == {}

\* The bounds in the manifest, and the perimeter around those that were read.
Claimed == {i \in Quads : quadAt[i] = "claimed"}
Pending == {i \in Quads : quadAt[i] = "pending"}
Combined(read) ==
    IF read = {} THEN FromCenterExtents(0, 0, QuadHalf)
    ELSE LET boxes == {QuadBox(i) : i \in read} IN
         Box(Min({b.minX : b \in boxes}), Min({b.minY : b \in boxes}),
             Max({b.maxX : b \in boxes}), Max({b.maxY : b \in boxes}))

NoRebuild == [for |-> "none", claimed |-> {}]

BounceInit ==
    /\ quadAt = [i \in Quads |-> "none"]
    /\ boundMoves = 0
    /\ entitiesById = {}
    /\ perimeter = Box(0, 0, 0, 0)
    /\ perimeterValid = "no"
    /\ lastRefresh = "min"
    /\ rebuild = NoRebuild

\* WatchDog stores the bounds of the computed heuristic, one after the other.
PublishBound(i) ==
    /\ quadAt[i] = "none"
    /\ \A j \in Quads : j < i => quadAt[j] # "none"
    /\ quadAt' = [quadAt EXCEPT ![i] = "pending"]
    /\ UNCHANGED <<boundMoves, entitiesById, perimeter, perimeterValid, lastRefresh, rebuild>>

\* A shard claims a bound, or the bound of a dead shard is requeued.
MoveBound(i) ==
    /\ quadAt[i] # "none" /\ boundMoves < MaxBoundMoves
    /\ quadAt' = [quadAt EXCEPT ![i] = IF @ = "pending" THEN "claimed" ELSE "pending"]
    /\ boundMoves' = boundMoves + 1
    /\ UNCHANGED <<entitiesById, perimeter, perimeterValid, lastRefresh, rebuild>>

\* RefreshPerimeterIfNeeded, when the perimeter is to be rebuilt: the claimed bounds are read.
ReadClaimed(call) ==
    /\ rebuild = NoRebuild
    /\ lastRefresh' = "set"
    /\ rebuild' = [for |-> call, claimed |-> Claimed]
    /\ UNCHANGED <<quadAt, boundMoves, entitiesById, perimeter, perimeterValid>>

RefreshDue == TRUE
TickBegins == RefreshDue /\ ReadClaimed("tick")
SeedBegins == entitiesById = {} /\ ReadClaimed("seed")

\* The pending bounds are read, and the perimeter is set around what the two reads found.
ReadPending(call) ==
    /\ rebuild.for = call
    /\ perimeter' = Combined(rebuild.claimed \cup Pending \cup ConfiguredWorld)
    /\ perimeterValid' = "yes"
    /\ rebuild' = NoRebuild
    /\ UNCHANGED <<quadAt, boundMoves, lastRefresh>>

\* The rest of Tick; deltaSeconds is clamped to 0 and the longest step.
TickMoves(step) ==
    /\ ReadPending("tick")
    /\ entitiesById' = ReflectOnPerimeter(Moved(entitiesById, step), perimeter')

\* A Tick before the refresh interval is over.
TickWithin(step) ==
    /\ rebuild = NoRebuild /\ lastRefresh = "set"
    /\ entitiesById' = IF perimeterValid = "yes"
                       THEN ReflectOnPerimeter(Moved(entitiesById, step), perimeter)
                       ELSE Moved(entitiesById, step)
    /\ UNCHANGED <<quadAt, boundMoves, perimeter, perimeterValid, lastRefresh, rebuild>>

\* The rest of SeedEntities: at the origin, or at random in the perimeter, of which the
\* corners are taken here.
SpawnPositions(box) ==
    {<<0, 0>>} \cup {<<x, y>> : x \in {box.minX + HalfExtent, box.maxX - HalfExtent},
                               y \in {box.minY + HalfExtent, box.maxY - HalfExtent}}
SeedEntities(v) ==
    /\ ReadPending("seed")
    /\ \E p \in SpawnPositions(perimeter') : entitiesById' = {[at |-> p, v |-> v]}

\* AdoptSingleEntity: an entity that is known keeps its velocity.
AdoptSingleEntity(p, v) ==
    /\ rebuild = NoRebuild
    /\ \A e \in entitiesById : v = e.v
    /\ entitiesById' = {[at |-> p, v |-> v]}
    /\ UNCHANGED <<quadAt, boundMoves, perimeter, perimeterValid, lastRefresh, rebuild>>

RemoveEntity ==
    /\ rebuild = NoRebuild
    /\ entitiesById' = {}
    /\ UNCHANGED <<quadAt, boundMoves, perimeter, perimeterValid, lastRefresh, rebuild>>

Reset ==
    /\ rebuild = NoRebuild
    /\ entitiesById' = {}
    /\ perimeterValid' = "no"
    /\ lastRefresh' = "min"
    /\ UNCHANGED <<quadAt, boundMoves, perimeter, rebuild>>

BounceNext ==
    \/ \E i \in Quads : PublishBound(i) \/ MoveBound(i)
    \/ TickBegins \/ SeedBegins
    \/ \E step \in 0..1 : TickMoves(step) \/ TickWithin(step)
    \/ \E v \in Velocities : SeedEntities(v) \/ \E p \in AdoptPositions : AdoptSingleEntity(p, v)
    \/ RemoveEntity
    \/ Reset

BounceSpec == BounceInit /\ [][BounceNext]_bounceVars

-----------------------------------------------------------------------------
\* Wherever a debug entity is, the grid has a bound for it: no entity leaves the world,
\* although its perimeter is at times built from some of the bounds, or from none
\* (ReflectOnPerimeter, RebuildPerimeterBounds, GridHeuristic::QueryPosition).
EntitiesFindABound == \A e \in entitiesById : QueryPosition(e.at) # {}

\* The inductive invariant behind it: entities are in the world, a perimeter in use is in the
\* world and as wide as a quad, and a Tick that does not rebuild it finds it valid.
World == -2 * QuadHalf..2 * QuadHalf
Wide(box) ==
    /\ {box.minX, box.minY, box.maxX, box.maxY} \subseteq World
    /\ box.minX + 2 * QuadHalf <= box.maxX /\ box.minY + 2 * QuadHalf <= box.maxY

BounceInv ==
    /\ entitiesById \subseteq [at : World \X World, v : Int \X Int]
    /\ rebuild.claimed \subseteq Quads
    /\ perimeterValid = "yes" => Wide(perimeter)
    /\ lastRefresh = "set" /\ rebuild = NoRebuild => perimeterValid = "yes"

\* The perimeter is the one around the bounds that are in the manifest.
PerimeterComplete == perimeterValid = "yes" => perimeter = Combined(Claimed \cup Pending)
=============================================================================
