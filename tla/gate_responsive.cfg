SPECIFICATION FairSpec
CONSTANTS
  r1 = r1
  b1 = b1
  m1 = m1
  Requests = {r1}
  NoReq = NoReq
  NoView = NoView
  Boards = {b1}
  Menus = {m1, Bare}
  NoMenu = NoMenu
  Bare = Bare
  MaxTurn = 2
  MaxMoves = 1
  DecisionTypes = {"choose_option", "play_card", "end_turn"}
  StartPhases = {"none", "player", "enemy"}
  Throws = TRUE
  Stall = FALSE
INVARIANTS
  NoAbandonedAction
  SnapshotCoherent
PROPERTIES
  AcceptedOnReadyGame
  RevisionIdentifiesView
  OneActionAtATime
  GateReopens
