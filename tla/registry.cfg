SPECIFICATION Spec
CONSTANTS
  p1 = p1  p2 = p2  watch = watch  shell = shell  g1 = g1  g2 = g2  label = label  abc = abc
  Names = {p1, p2, watch, shell, g1, g2, label}
  IDPrefixes = {abc}
  HasPrefix <- TriggerPrefix
  FlushAt = 4
  Paths = {p1, p2}
  Files = {f1, f2}
  Missing = Missing
  Contents <- PlainContents
  PluginTypes = {shell}
  Clients = {c1}
  MaxRequest = 4
  MaxRelink = 1
INVARIANTS IndexSound IndexFindsRegistered MapsHoldRegistered ViewsAgree
CHECK_DEADLOCK FALSE
