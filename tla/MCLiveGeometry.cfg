CONSTANTS
    None = None
    Positions <- Near
    Areas <- Screen
    AreaOf <- InMiddle
    BoxOf <- BoxInMiddle
    InitialRoi = None
    FixedRoi = FALSE
    Threshold = 2
    Workers = {w1, w2}
    QueueLength = 1
    MaxMoves = 2
    MaxNoise = 3
SPECIFICATION Spec
INVARIANTS
    TypeOK
    GeometryIsFresh
    GenerationNamesGeometry
PROPERTIES
    OccasionalFailuresKeepLock
    WrongGeometryIsDropped
    Reacquires
