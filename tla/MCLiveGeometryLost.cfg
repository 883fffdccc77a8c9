CONSTANTS
    None = None
    Positions <- Near
    Areas <- Screen
    AreaOf <- InMiddle
    BoxOf <- BoxInCorner
    InitialRoi = None
    FixedRoi = FALSE
    Threshold = 2
    Workers = {w1, w2}
    QueueLength = 1
    MaxMoves = 2
    MaxNoise = 3
SPECIFICATION Spec
PROPERTY Reacquires
