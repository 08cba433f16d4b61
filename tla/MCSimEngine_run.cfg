CONSTANTS
  Clients <- MCClients
  PopLimit = 1
  ReportLimit = 1
SPECIFICATION FairSpec
INVARIANTS TypeOK PopulationBound ReportsStored CrashOnlyInStop OneChannel
PROPERTY ShutdownEnds
CHECK_DEADLOCK FALSE
