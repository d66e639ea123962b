SPECIFICATION Spec
CONSTANTS
  Triggers = {t1}
  Configs <- OneOfEach
  MaxActivation = 1
  MaxEvent = 3
  MaxChange = 1
  Reconfigure = FALSE
  ChanCap = 2
  Threshold = 1
CHECK_DEADLOCK FALSE
INVARIANTS SerialWork NoStrandedEvent HandledInOrder
PROPERTIES AbortReplaces ImplementsEventFlow
