\* Three threads, two streams, a threshold and streams that change under way.
SPECIFICATION FairSpec
CONSTANTS
  Threads = {t1, t2, t3}
  NoThread = NoThread
  Levels = {0, 2}
  Outputs = {"cerr", "file"}
  Tags <- MCTags
  TagLength = 15
  MaxCalls = 3
  MaxTime = 2
INVARIANTS
  TypeOK
  LinesWhole
  TagsLineUp
PROPERTIES
  EveryCallLogged
CHECK_DEADLOCK FALSE
