SPECIFICATION FairSpec
CONSTANTS
  SlotCount = 3
  Writers = {"grab"}
  Workers = {0}
  Captures = {0, 1, 2, 3}
  None = None
  CopyWorkers = {k1, k2}
  AsyncPrep = FALSE
  SlotPrefetch = 1
  CopyQueueDepth = 1
  FrameQueueSize = 1
  ResultQueueSize = 1
  GrabLoop = grabLoop
INVARIANT FrameIntact
PROPERTIES SlotsComeBack CompletesFrameCycle
