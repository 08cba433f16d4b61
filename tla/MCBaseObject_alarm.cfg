CONSTANTS
  Effectors <- MCEffectors
  Kind <- MCKind
  BurnTime = 0
  TurnRates <- MCTurnRates
  Powers <- MCPowers
  Brakes = {0, 3}
  MaxBrake = 3
  Period = 8
  Compass <- MCCompass
  Radius = 0
  Heights = {0, 2}
  Skids <- MCSkids
  Places <- MCPlaces
  Courses <- MCCourses
  Reach = 1
  Steps = 4
  TurnLimit = 3
SPECIFICATION Spec
INVARIANT NoFalseAlarm
CHECK_DEADLOCK FALSE
