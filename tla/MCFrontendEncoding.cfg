\* Expected to be violated: see the comment on the invariant.
SPECIFICATION Spec
CONSTANTS
  Slugs = {"p1"}
  ToUtf8 <- Doubled
  Removals = FALSE
  MaxChanges = 1
  MaxLosses = 0
  MaxRequests = 0
INVARIANTS
  AnswersFindTheirPrinter
CHECK_DEADLOCK FALSE
