--------------------------- MODULE MCOutlierFlow ---------------------------
(***************************************************************************)
(* Instances for TLC of where entities are and move: the outliers of the   *)
(* exc runtime, the shapes they are outliers of, and the debug entities    *)
(* that bounce in the world.  They share no state: the variable part names *)
(* the one a behaviour is of, and the variables of the others stay put.    *)
(***************************************************************************)
EXTENDS OutlierFlow, BounceSimulator, GridShapes

VARIABLE part

\* Debug entities that fly along an axis and across, and come from the world's corners.
MCVelocities == {<<1, 0>>, <<2, -1>>}
MCAdopted == {<<-4, 4>>, <<3, -3>>}

\* Crowds in a corner, at a border and outside of the world; points at the corners, on and
\* beside the borders of cells and of shapes.
Crowd(p, n) == [k \in 1..n |-> p]
MCEntities ==
    {<<>>, Crowd(<<3, 3>>, 1), Crowd(<<1, 1>>, 5), Crowd(<<77, 153>>, 4) \o Crowd(<<160, 160>>, 6),
     Crowd(<<80, 80>>, 5), Crowd(<<-3, 200>>, 6)}
MCPoints == LET xs == {0, 1, 7, 40, 79, 80, 83, 150, 155, 160} IN xs \X xs

MCInit ==
    /\ part \in {"outliers", "bounce", "shapes"}
    /\ OutlierInit
    /\ BounceInit
    /\ ShapesInit

InOutliers(A) == part = "outliers" /\ A /\ UNCHANGED <<part, bounceVars, shapeVars>>
InBounce(A) == part = "bounce" /\ A /\ UNCHANGED <<part, outlierVars, shapeVars>>
InShapes(A) == part = "shapes" /\ A /\ UNCHANGED <<part, outlierVars, bounceVars>>

MCNext == InOutliers(OutlierNext) \/ InBounce(BounceNext) \/ InShapes(ShapesNext)
MCVars == <<part, outlierVars, bounceVars, shapeVars>>

\* God's loop and a partition's loop run on, and time passes; packets of the game server and
\* restarts may happen.  A shard keeps ticking its simulator.
MCFairness ==
    /\ WF_MCVars(InOutliers(GodStep))
    /\ \A p \in Partitions :
        /\ WF_MCVars(InOutliers(HandleOutliersDetected(p)))
        /\ WF_MCVars(InOutliers(CheckForOutliers(p))) /\ WF_MCVars(InOutliers(NotifyGod(p)))
        /\ WF_MCVars(InOutliers(IdleTick(p) \/ FetchGridShape(p)))
        /\ WF_MCVars(InOutliers(ThirtySeconds(p)))
    /\ WF_MCVars(InBounce(TickBegins))
    /\ WF_MCVars(InBounce(\E step \in 0..1 : TickMoves(step)))
    /\ WF_MCVars(InBounce(\E v \in Velocities : SeedEntities(v)))
MCSpec == MCInit /\ [][MCNext]_MCVars /\ MCFairness


=============================================================================
