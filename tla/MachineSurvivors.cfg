SPECIFICATION FairSpec
CONSTANTS
  t1 = t1
  t2 = t2
  c1 = c1
  c2 = c2
  Trees = {t1, t2}
  NoTree = NoTree
  Callers = {c1}
  NoCaller = NoCaller
  Offered <- AllCommands
  Configs <- CallConfigs
  Second = 2
  EarlyExit = 1
  WindowFloor = 2
  ExpBackoffCap = 3
INVARIANT SurvivorsRetained
CHECK_DEADLOCK FALSE
