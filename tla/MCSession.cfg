CONSTANTS
    MaxSize = 3
    None = None
    Workers = {w1, w2}
    MaxPending = 2
    MaxDeaths = 1
    MaxIdle = 1
    Recorded <- AllItems
    Setups <- AllSetups
SPECIFICATION SessionSpec
INVARIANTS
    SessionTypeOK
    OrderlyChunksAreRight
    OrderlyIsRestorable
    OrderlySymbolsAreTrue
    OrderlyRecoveryIsComplete
    RestoredIsSent
    WholeDumpCompletes
    PendingIsExact
    NothingLeftBehind
PROPERTIES
    ReplaysInOrder
    IdleMeansIdle
    SessionEnds
