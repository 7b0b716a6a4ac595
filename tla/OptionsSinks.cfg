SPECIFICATION Spec
CONSTANTS
  Requests <- OptionRequests
  Defaults <- OptionDefaults
  MaxId = 2
  MaxStarts = 1
  IdRange = 128
INVARIANTS SinksApart
CHECK_DEADLOCK FALSE
