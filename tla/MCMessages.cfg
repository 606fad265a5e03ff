\* Two messages of every kind, with int as wide as a byte.
SPECIFICATION Spec
CONSTANTS
  MaxInt = 127
  MaxSize = 4095
  MaxTime = 20000
  Json <- MCJson
  Messages <- MCMessages
  Slugs <- MCSlugs
  MaxMessages = 2
INVARIANTS
  TypeOK
  HandledInOrder
  EndsForAReason
  PrintersTold
  PrintTimesExact
CHECK_DEADLOCK FALSE
