CONSTANTS
  Producers = {p1}
  Consumers = {c1, c2}
  Joiners = {j1}
  Gates = {g1}
  CanShutdown = TRUE
  CanClear = FALSE
  PushLimit = 2
  FirstReads = {"completed", "inCount"}
  NoThread = NoThread
  NoItem = NoItem
SPECIFICATION FairSpec
INVARIANTS NoLostDone ShutdownReleasesAll
PROPERTIES ItemsFinish JoinReturns
CHECK_DEADLOCK FALSE
