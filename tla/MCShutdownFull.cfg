CONSTANTS
    Capacity = 2
    MaxFrames = 3
    SimulatedPrep = {FALSE, TRUE}
    None = None
SPECIFICATION FairSpec
PROPERTY SessionEnds
CHECK_DEADLOCK FALSE
