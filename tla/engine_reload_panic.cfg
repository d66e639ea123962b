SPECIFICATION Spec
CONSTANTS
  Triggers = {t1}
  Configs <- QueueOrAbort
  MaxActivation = 1
  MaxEvent = 2
  MaxChange = 1
  Reconfigure = TRUE
  ChanCap = 2
  Threshold = 1
CHECK_DEADLOCK FALSE
INVARIANT NoPanic
