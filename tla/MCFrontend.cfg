\* A printer that keeps its slug and one that does not come and go, while
\* connections are lost and other threads ask.
SPECIFICATION FairSpec
CONSTANTS
  Slugs = {"p1", "p3"}
  ToUtf8 <- Mixed
  Removals = TRUE
  MaxChanges = 2
  MaxLosses = 2
  MaxRequests = 2
INVARIANTS
  TypeOK
  OutdatedIsNoticed
PROPERTIES
  ToldNeverOlder
  Converges
CHECK_DEADLOCK FALSE
