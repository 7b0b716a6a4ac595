SPECIFICATION RequestsSpec
CONSTANTS
  FirstYear = 2096
  NewYear = 0
  Months <- CalendarMonths
  Days <- CalendarDays
  FirstDow <- CalendarDow
  LastHour = 1
  LastMinute = 1
  Specs <- CronSpecs
  Starts <- CronStarts
  Requests <- OptionRequests
  Defaults <- OptionDefaults
  MaxStarts = 1
  MaxConfigId = 2
  WireRange = 128
  Registries <- FanoutRegistries
  Commands <- FanoutCommands
  Numbers <- FanoutNumbers
  StartNames <- FanoutStartNames
  MaxId = 3
  MaxOthers = 2
  IdRange = 8
INVARIANTS FirstMatch FiresInLeapCycle OptionsKept SuccessCovers ReportHonest
CHECK_DEADLOCK FALSE
