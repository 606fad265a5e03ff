\* Two calls and two errors.
SPECIFICATION FairSpec
CONSTANTS
  Kinds = {"listModels", "addModelGroup", "moveModelFileToGroup"}
  Refused = {"addModelGroup"}
  Undumpable = {"moveModelFileToGroup"}
  MaxCalls = 2
  MaxSends = 5
  MaxMessages = 7
  MaxErrors = 2
INVARIANTS
  ViewsAgree
  OwedIsAccepted
  EveryHandlerExpected
  ServedInOrder
PROPERTIES
  FairnessJustified
CHECK_DEADLOCK FALSE
