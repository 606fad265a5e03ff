\* Every order of the fields, every file, every failure.
SPECIFICATION FairSpec
CONSTANTS
  Fields <- MCFields
  MaxBlocks = 3
INVARIANTS
  TypeOK
  BodyInOrder
  SuccessIsComplete
PROPERTIES
  HandlerRunsOnce
CHECK_DEADLOCK FALSE
