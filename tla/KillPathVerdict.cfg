SPECIFICATION Spec
CONSTANTS
  MaxProcs = 3
  Modes = {"cgroup-kill", "cgroup-freeze", "pgid"}
INVARIANT NilMeansEmpty
CHECK_DEADLOCK FALSE
