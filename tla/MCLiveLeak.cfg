SPECIFICATION Spec
CONSTANTS
  SlotCount = 3
  Writers = {"grab"}
  Workers = {0}
  Captures = {0, 1, 2}
  None = None
  CopyWorkers = {k1, k2}
  AsyncPrep = TRUE
  SlotPrefetch = 1
  CopyQueueDepth = 1
  FrameQueueSize = 1
  ResultQueueSize = 1
  GrabLoop = grabLoop
INVARIANT AssignedFramesAreDecoded
