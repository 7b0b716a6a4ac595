SPECIFICATION Spec
CONSTANTS
  FirstYear = 2096
  NewYear = 0
  Months <- CalendarMonths
  Days <- CalendarDays
  FirstDow <- CalendarDow
  LastHour = 1
  LastMinute = 1
  Specs <- CronSpecs
  Starts <- CronStarts
INVARIANTS AcceptedFires
CHECK_DEADLOCK FALSE
