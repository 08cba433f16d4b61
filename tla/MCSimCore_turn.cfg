CONSTANTS
  Objects = {1, 2, 3}
  Start = {1, 2}
  Bots = {2}
  Removable = {}
  Workers = {w1, w2}
  Controllers = {main}
  MaxStarts = 1
  CallersWait = TRUE
  MayOverrun = TRUE
  WorkersMayThrow = FALSE
  EraseMaySkip = TRUE
SPECIFICATION FairSpec
INVARIANTS WorkExactlyOnce RmTargetsPresent VerdictObeyed
PROPERTIES StopReturns DroppedBotLeaves AddsArrive
CHECK_DEADLOCK FALSE
