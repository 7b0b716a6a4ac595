SPECIFICATION FairSpec
CONSTANTS
  Runners = {1, 2}
  FeatureSets <- SingleFeatures
  Retries = 2
  MaxSerial = 2
  MaxSlot = 2
INVARIANTS OneRunner
PROPERTIES HealthEarned CronNoBurst CronAnswers
CHECK_DEADLOCK FALSE
