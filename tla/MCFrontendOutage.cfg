\* Expected to be violated: see the comment on the invariant.
SPECIFICATION Spec
CONSTANTS
  Slugs = {"p1"}
  ToUtf8 <- Kept
  Removals = FALSE
  MaxChanges = 2
  MaxLosses = 1
  MaxRequests = 0
INVARIANTS
  AnswersFindTheirPrinter
CHECK_DEADLOCK FALSE
