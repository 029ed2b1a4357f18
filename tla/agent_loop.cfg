SPECIFICATION FairSpec
CONSTANTS
  Screens <- LoopScreens
  NoScreen <- MCNoScreen
  GateDeadline = 1
  StallAfter = 2
  MaxBackoff = 1
  MaxFailures = 2
  StuckAfter = 2
  TeamTimeout = 1
  MaxMoves = 2
  MaxRestarts = 1
  Lossy = TRUE
  DiskFaults = TRUE
INVARIANTS
  TypeOK
PROPERTIES
  BlamesTriedOption
  NoBlindRepeat
  LosesNoTransition
  KeepsPlaying
  TriesEveryOption
  StuckIsReported
