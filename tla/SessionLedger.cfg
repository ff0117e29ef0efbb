SPECIFICATION Spec
CONSTANTS
  Sessions = {s1, s2}
  Ingests = {i1, i2}
  LineBudget = 1
  FileCap = 2
  FileLimit = 1
  MaxLines = 3
  MaxTrouble = 1
INVARIANTS EachLineOnce StaysOff
PROPERTIES EvictsTheOldest CatchesUp
CHECK_DEADLOCK FALSE
