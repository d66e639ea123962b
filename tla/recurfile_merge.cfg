SPECIFICATION CommandsSpec
CONSTANTS
  Clients = {c1}
  Names <- MCNames
  TriggerLists <- MCTriggerLists
  ActionLists <- MCActionLists
  UserTexts <- MCUserTexts
  OptionMaps <- MCOptionMaps
  LayerMaps <- MCLayerMaps
  OptionAliases <- MCOptionAliases
  SettingKey = "error_threshold"
  Split <- MCSplit
  Join <- MCJoin
  Invalid = Invalid
  NoFile = NoFile
  None = None
  MaxLines = 14
  MaxWork = 3
PROPERTIES
  MergeExtendsGroup
CHECK_DEADLOCK FALSE
