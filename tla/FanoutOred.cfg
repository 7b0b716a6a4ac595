SPECIFICATION Spec
CONSTANTS
  Registries <- FanoutRegistries
  Commands <- FanoutCommands
  Numbers <- FanoutNumbers
  StartNames <- FanoutStartNames
  MaxId = 3
  MaxOthers = 2
  IdRange = 8
INVARIANTS SelectorOred
CHECK_DEADLOCK FALSE
