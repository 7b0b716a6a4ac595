SPECIFICATION PersistSpec
CONSTANTS
  s = s
  Savers = {s}
  Adopter = Adopter
  Nobody = Nobody
  a = a
  Names = {a}
  NoName = NoName
  MaxFaults = 1
  DumpMaxId = 1
  Failing = {0}
INVARIANTS AckedDurable SavedAdopted NeverTwice
CHECK_DEADLOCK FALSE
