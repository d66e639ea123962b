SPECIFICATION Spec
CONSTANTS
  f1 = f1
  f2 = f2
  t1 = t1
  t2 = t2
  p1 = p1
  p2 = p2
  main = main
  Torn = Torn
  NoFile = NoFile
  Files = {f1, f2}
  Triggers = {t1, t2}
  FileOf <- TwoFiles
  Dependent = {t2}
  Apps = {f1}
  Handlers = {p1, p2}
  Main = main
  Writers = {p1, p2, main}
  MaxStamp = 6
  MaxTask = 2
  MaxTrouble = 2
  MaxInode = 6
INVARIANTS EngineFollowsRegistry FileFollowsRegistry SuspensionSurvives StoppedStaysEmpty
SYMMETRY HandlerSymmetry
