CONSTANTS
  Producers = {p1, p2}
  Consumers = {c1, c2}
  Joiners = {j1}
  Gates = {}
  CanShutdown = TRUE
  CanClear = TRUE
  PushLimit = 2
  FirstReads = {"completed"}
  NoThread = NoThread
  NoItem = NoItem
SPECIFICATION Spec
SYMMETRY ThreadSymmetry
INVARIANTS CountersAgree JoinDrains WakeupsSuffice
PROPERTY ImplementsContract
CHECK_DEADLOCK FALSE
