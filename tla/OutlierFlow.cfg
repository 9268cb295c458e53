CONSTANTS
    Partitions = {1, 2}
    Entities = {e1}
    Shapes = 2
    MaxEvents = 2
    MaxMessages = 2
    QuadHalf = 2
    HalfExtent = 1
    Velocities <- MCVelocities
    AdoptPositions <- MCAdopted
    MaxBoundMoves = 2
    Unit = 160
    IndexSize = 40
    EntitySets <- MCEntities
    ShapePoints <- MCPoints
    PartitionCounts = {1, 3, 100}
SPECIFICATION MCSpec
INVARIANTS
    PartitionsSurvive
    EntitiesFindABound
    ShapesAgree

    
    
CHECK_DEADLOCK FALSE
