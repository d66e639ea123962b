SPECIFICATION FairSpec
CONSTANTS
  Triggers = {t1, t2}
  MaxDriver = 2
  Reports = {r1, r2}
  ChanCap = 1
CHECK_DEADLOCK FALSE
INVARIANTS RoutedIsOpen CurrentIsRouted 
PROPERTIES KeepsContract CallsReturn CrashIsNoticed
