SPECIFICATION Spec

CONSTANTS
  Writers = {c1, c2}
  Torn = Torn
  NoFile = NoFile
  NoConfig = NoConfig
  Unset = Unset
  Invalid = Invalid
  MaxStamp = 2
  MaxInode = 4
  MaxMap = 5
  MaxOps = 3
  Fields <- MCFields
  PluginKeys = {"plugins.p.key"}
  Texts <- MCTexts
  Parse <- MCParse
  Expand <- MCExpand
  Fallback <- MCFallback
  Defaults <- MCDefaults
  Flags <- MCFlags
  Reported = {"socket_address"}

SYMMETRY Symmetry
CHECK_DEADLOCK FALSE

INVARIANTS
  CacheIsOverlay
  SettledAgrees
  CommandShowsEffective
PROPERTIES
  FieldsFollowRequests
