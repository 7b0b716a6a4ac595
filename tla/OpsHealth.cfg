SPECIFICATION Spec
CONSTANTS
  Runners = {1}
  FeatureSets <- HealthOnly
  Retries = 2
  MaxSerial = 1
  MaxSlot = 0
PROPERTY HealthSparesStopped
CHECK_DEADLOCK FALSE
