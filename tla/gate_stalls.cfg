SPECIFICATION ThreadSpec
CONSTANTS
  r1 = r1
  r2 = r2
  b1 = b1
  Requests = {r1, r2}
  NoReq = NoReq
  NoView = NoView
  Boards = {b1}
  Menus = {}
  NoMenu = NoMenu
  Bare = Bare
  MaxTurn = 1
  MaxMoves = 1
  DecisionTypes = {"play_card"}
  StartPhases = {"player"}
  Throws = FALSE
  Stall = TRUE
INVARIANTS
  TypeOK
  ClosedWhileInFlight
  ServedReadiness
PROPERTIES
  EveryCallAnswered
