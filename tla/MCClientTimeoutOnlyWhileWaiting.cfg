\* Expected to be violated: see the comment on the property.
SPECIFICATION Spec
CONSTANTS
  MaxSends = 1
  MaxMessages = 1
PROPERTIES
  TimeoutOnlyWhileWaiting
CHECK_DEADLOCK FALSE
