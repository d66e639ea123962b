SPECIFICATION Spec
CONSTANTS
  Runs = {x, y}
  t1 = t1
  t2 = t2
  a1 = a1
  a2 = a2
  a3 = a3
  f1 = f1
  f2 = f2
  p = p
  v1 = v1
  v2 = v2
  Triggers = {t1, t2}
  Actions = {a1, a2, a3}
  Files = {f1, f2}
  Values = {v1, v2}
  Loaded = {p}
  FileOf <- MCFileOf
  ActionsOf <- MCActionsOf
  GroupOf <- MCActionsOf
  PluginOf <- MCPluginOf
  NoPlugin = NoPlugin
  Options <- MCOptions
  Declared <- MCDeclared
  Timeouts <- MCTimeouts
  Threshold <- MCThreshold
  Defs <- MCDefs
  Empty = Empty
  Missing = Missing
  Holds <- MCHolds
  MaxStarts = 2
  MaxTrouble = 1
CHECK_DEADLOCK FALSE
INVARIANTS
  LogHidesSecrets
  FailuresDisable
PROPERTIES
  RunsEnd
