\* Expected to be violated: see the comment on the invariant.
SPECIFICATION Spec
CONSTANTS
  MaxSends = 1
  MaxMessages = 1
INVARIANTS
  ErrorsReported
CHECK_DEADLOCK FALSE
