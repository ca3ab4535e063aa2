SPECIFICATION PageFairSpec
CONSTANTS
  Queries = {"issue", "comments"}
  MaxEvents = 3
  FlushLimit = 1
  MaxFaults = 1
  MaxUses = 2
INVARIANTS HandledFramesAreFetched
PROPERTIES PageCatchesUp
CHECK_DEADLOCK FALSE
