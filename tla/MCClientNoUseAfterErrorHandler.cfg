\* Expected to be violated: see the comment on the invariant.
SPECIFICATION ServiceSpec
CONSTANTS
  MaxSends = 1
  MaxMessages = 1
INVARIANTS
  NoUseAfterErrorHandler
CHECK_DEADLOCK FALSE
