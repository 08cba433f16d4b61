CONSTANTS
  Objects = {1, 2}
  Start = {1}
  Bots = {2}
  Removable = {1}
  Workers = {w1, w2}
  Controllers = {main}
  MaxStarts = 2
  CallersWait = FALSE
  MayOverrun = TRUE
  WorkersMayThrow = TRUE
  EraseMaySkip = TRUE
SPECIFICATION Spec
SYMMETRY WorkerSymmetry
INVARIANT PhaseBarrier
CHECK_DEADLOCK FALSE
