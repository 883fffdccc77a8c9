CONSTANTS
    MaxSize = 3
    None = None
    Setups <- JoiningSetups
SPECIFICATION Spec
INVARIANT CompleteIsRestorable
