SPECIFICATION Spec
CONSTANTS
  c2 = c2
  t1 = t1
  t2 = t2
  c1 = c1
  Trees = {t1, t2}
  NoTree = NoTree
  Callers = {c1}
  NoCaller = NoCaller
  Offered <- AllCommands
  Configs <- PolicyConfigs
  Second = 2
  EarlyExit = 3
  WindowFloor = 5
  ExpBackoffCap = 4
SYMMETRY TreeSymmetry
INVARIANTS SingleGeneration SnapshotTruth
PROPERTIES KeepsStatus KeepsContract
CHECK_DEADLOCK FALSE
