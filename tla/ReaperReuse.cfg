SPECIFICATION Spec
CONSTANTS
  l1 = l1
  l2 = l2
  o1 = o1
  o2 = o2
  None = None
  Launches = {l1}
  Orphans = {o1}
  Pids = {1}
  CacheCap = 2
  Reuse = TRUE
INVARIANT DoneIsOwnExit
CHECK_DEADLOCK FALSE
