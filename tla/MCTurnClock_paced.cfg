CONSTANTS
  Ticks = 40
  TurnTimes <- MCTurnTimes
  MaxLag = 1
  MaxLate = 5
  Wide = 256
  Narrow = 128
SPECIFICATION Spec
INVARIANT NoDrift
CHECK_DEADLOCK FALSE
