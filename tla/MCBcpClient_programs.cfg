CONSTANTS
  Programs = {"target", "kamikaze", "cal_bot"}
  Zone = 1
  MaxDist = 3
  Arguments <- MCArguments
  Written <- MCWritten
SPECIFICATION StartSpec
INVARIANTS Paired BotObeys CommandLineWins PairsReadBack EncodingsInvert
PROPERTY LinkLossEnds
CHECK_DEADLOCK FALSE
