\* Everything that can go wrong, a command the server refuses every time and
\* one that cannot be encoded; when the failures stop, liveness.
SPECIFICATION FairSpec
CONSTANTS
  Kinds <- MCKinds
  Refused = {"addModelGroup"}
  Undumpable = {"moveModelFileToGroup"}
  Misbehaviours <- MCMisbehaviours
  MaxCalls = 3
  MaxFaults = 3
INVARIANTS
  TypeOK
  FrontIsPending
  LoginBeforeCalls
  NothingLost
  LoginsBounded
  SentOncePerConnection
PROPERTIES
  BackoffNeverShrinks
  InOrderSpec
  EveryCallCompletes
  Reconnects
  RefusedIsRetriedForever
CHECK_DEADLOCK FALSE
