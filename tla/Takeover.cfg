SPECIFICATION FairSpec
CONSTANTS
  N = 3
  Delay = 1
  Grace = 2
  MaxFaults = 1
INVARIANTS CleanSingle
PROPERTIES SettledKept BootEnds
CHECK_DEADLOCK FALSE
