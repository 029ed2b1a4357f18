SPECIFICATION FairSpec
CONSTANTS
  Screens <- DiskScreens
  NoScreen <- MCNoScreen
  GateDeadline = 1
  StallAfter = 2
  MaxBackoff = 1
  MaxFailures = 2
  StuckAfter = 2
  TeamTimeout = 1
  MaxMoves = 2
  MaxRestarts = 0
  Lossy = FALSE
  DiskFaults = TRUE
PROPERTIES
  PlaysWithoutDisk
