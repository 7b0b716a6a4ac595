SPECIFICATION ProcSpec
CONSTANTS
  l1 = l1
  l2 = l2
  o1 = o1
  o2 = o2
  None = None
  Launches = {l1, l2}
  Orphans = {o1}
  Pids = {1, 2, 3}
  CacheCap = 2
  Reuse = FALSE
  MaxProcs = 3
  Modes = {"cgroup-kill", "cgroup-freeze", "pgid"}
INVARIANTS NoExitLost VerdictHolds
PROPERTIES ExitArrives StopReturns
CHECK_DEADLOCK FALSE
