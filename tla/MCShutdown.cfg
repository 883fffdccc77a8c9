CONSTANTS
    Capacity = 6
    MaxFrames = 2
    SimulatedPrep = {FALSE}
    None = None
SPECIFICATION FairSpec
INVARIANTS
    TypeOK
    JoinLeavesNothing
PROPERTY SessionEnds
