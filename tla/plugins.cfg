SPECIFICATION Spec
CONSTANTS
  p1 = p1
  p2 = p2
  p3 = p3
  Packages = {p1, p2, p3}
  Manifest <- MCManifest
  Content <- MCContent
  NameOrder <- MCNameOrder
  Types = {"T", "A", "B", "D"}
  Clients = {c, d}
  NoDir = NoDir
  NoPlugin = NoPlugin
  MaxCommands = 4
  MaxTrouble = 3
CHECK_DEADLOCK FALSE
INVARIANTS
  MemoryFollowsDisk
  OrphansAreSuspended
  SuspendedUntilResumed
