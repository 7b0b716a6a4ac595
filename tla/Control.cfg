SPECIFICATION Spec
CONSTANTS
  c1 = c1
  c2 = c2
  Callers = {c1, c2}
  MaxId = 2
  MaxSerial = 3
  Dumps <- EndsOnly
  MaxFailed = 1
SYMMETRY CallerSymmetry
INVARIANTS TreesOwned TargetKept ScaleKeepsOne RouteOwned
CHECK_DEADLOCK FALSE
