CONSTANTS
  SlotCount = 2
  Writers = {w1, w2}
  Workers = {k1, k2}
  Captures = {1, 2}
  MaxGeneration = 4
  None = None
SPECIFICATION Spec
INVARIANTS TypeOK FreeListExact OwnersMatchState NoOrphanInDecode
PROPERTY GenerationLivesOnce
SYMMETRY Symmetry
