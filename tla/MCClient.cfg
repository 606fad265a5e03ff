\* The client under an owner like Service, which may also close the connection.
SPECIFICATION FairSpec
CONSTANTS
  MaxSends = 3
  MaxMessages = 3
INVARIANTS
  TypeOK
  SendPrecondition
  CallbackMatches
  PendingIsTimed
  ClosedIsQuiet
PROPERTIES
  PromiseSpec
  PendingEnds
CHECK_DEADLOCK FALSE
