SPECIFICATION FairSpec
CONSTANTS
  t2 = t2
  t1 = t1
  c1 = c1
  c2 = c2
  Trees = {t1}
  NoTree = NoTree
  Callers = {c1, c2}
  NoCaller = NoCaller
  Offered <- Rivals
  Configs <- CallConfigs
  Second = 2
  EarlyExit = 1
  WindowFloor = 2
  ExpBackoffCap = 3
PROPERTIES CallsReturn NoLimbo CrashLoopEnds
CHECK_DEADLOCK FALSE
