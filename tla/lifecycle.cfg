SPECIFICATION Spec
CONSTANTS
  Apps = {a}
  Bundles <- MCBundles
  Conventional <- MCConventional
  NoDir = NoDir
  None = None
  Operators = {o}
  Installers = {i}
  Patient = TRUE
  NoPid = NoPid
  NoState = NoState
  MaxPid = 3
  MaxCrashes = 1
CHECK_DEADLOCK FALSE
INVARIANTS
  ServingIsNamed
  AppsFollowFolder
PROPERTIES
  StoppedMeansStopped
  TermStops
