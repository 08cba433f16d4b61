CONSTANTS
  Lines = {"power", "bad", "auto_on"}
  LineLimit = 1
  QueueLimit = 2
SPECIFICATION FairSpec
INVARIANTS TypeOK PowerXorBrake TornOnlyIfCarried CrashOnlyInDestructor
PROPERTIES RouterWakes DestructorReturns
CHECK_DEADLOCK FALSE
