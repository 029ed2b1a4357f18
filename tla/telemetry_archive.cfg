SPECIFICATION FairSpec
CONSTANTS
  MaxEvents = 4
  QueueSize = 1
  Flaky = TRUE
INVARIANTS
  TypeOK
  ArchiveConsistent
  RewardsMatchDecisions
  CleanExitKeepsAll
PROPERTIES
  PublishReturns
  ShutdownEnds
CHECK_DEADLOCK FALSE
