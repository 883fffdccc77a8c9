CONSTANTS
    None = None
    Legible = 13
    Black = 8
    Threshold = 2
    Setups <- MCSetups
    Pictures <- MCPictures
SPECIFICATION Spec
INVARIANTS
    OnlyWhatIsShown
    MemoryNeverHurts
    AutoIsNoWeaker
    CleanFramesComeBack
