SPECIFICATION Spec
CONSTANTS
  Screens <- CloseScreens
  NoScreen <- MCNoScreen
  GateDeadline = 1
  StallAfter = 2
  MaxBackoff = 1
  MaxFailures = 2
  StuckAfter = 2
  TeamTimeout = 1
  MaxMoves = 2
  MaxRestarts = 0
  Lossy = FALSE
  DiskFaults = FALSE
INVARIANTS
  RunClosesOnce
