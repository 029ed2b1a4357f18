SPECIFICATION Spec
CONSTANTS
  Keys = {"game_state", "current_decision"}
  NoKey = "none"
  RingSize = 4
  Window = 3
  MaxEvents = 5
  MaxBreaks = 2
INVARIANTS
  TypeOK
  ListedInOrder
  CaughtUp
PROPERTIES
  PageCatchesUp
CHECK_DEADLOCK FALSE
