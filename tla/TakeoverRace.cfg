SPECIFICATION FairSpec
CONSTANTS
  N = 3
  Delay = 1
  Grace = 2
  MaxFaults = 1

PROPERTY LiveSocketKept
CHECK_DEADLOCK FALSE
