SPECIFICATION FairSpec
CONSTANTS
  MaxId = 2
  MaxSerial = 3
INVARIANTS NoActorLost
PROPERTIES RollKeepsOne RollEnds
CHECK_DEADLOCK FALSE
