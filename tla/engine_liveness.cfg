SPECIFICATION FairSpec
CONSTANTS
  Triggers = {t1}
  Configs <- QueueOrAbort
  MaxActivation = 2
  MaxEvent = 2
  MaxChange = 0
  Reconfigure = FALSE
  ChanCap = 2
  Threshold = 1
CHECK_DEADLOCK FALSE
INVARIANT OneLiveActivation
PROPERTIES MutexReleased LoopEnds QueueDrains
