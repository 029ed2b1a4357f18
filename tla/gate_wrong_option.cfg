SPECIFICATION Spec
CONSTANTS
  r1 = r1
  r2 = r2
  b1 = b1
  b2 = b2
  m1 = m1
  m2 = m2
  Requests = {r1, r2}
  NoReq = NoReq
  NoView = NoView
  Boards = {b1}
  Menus = {m1, m2}
  NoMenu = NoMenu
  Bare = Bare
  MaxTurn = 1
  MaxMoves = 2
  DecisionTypes = {"choose_option", "play_card", "end_turn"}
  StartPhases = {"none", "player", "enemy"}
  Throws = FALSE
  Stall = FALSE
SYMMETRY Symmetry
INVARIANT ClicksWhatWasChosen
