CONSTANTS
    MaxSize = 3
    None = None
    Setups <- RecoveringSetups
SPECIFICATION Spec
INVARIANT SolvedIsMaterialized
